------------------------------ MODULE IcyStream ------------------------------
(***************************************************************************)
(* The inside of class icy: buffer_data takes the metadata out of what was *)
(* received and stores the rest in a ring, get_buffer hands the ring to the*)
(* decoder.  Both run under connect_mutex.  The loop of parse_metaint is a *)
(* step per byte; nobody else gets in between.                             *)
(*                                                                         *)
(* The server sends metaint bytes of audio, a length byte, that many units *)
(* of metadata, and so on.  Audio bytes carry their number in place of     *)
(* their value, the copy of byte k that compacting a piece leaves behind   *)
(* carries -k, and metadata is Junk.                                       *)
(***************************************************************************)
EXTENDS Integers, Sequences, FiniteSets

CONSTANTS
  BufferSize,   \* buffer_size
  BufferChunk,  \* BUFFER_CHUNK, the most that get_buffer hands out
  PreBuffer,    \* pre_buffer
  MetaInt,      \* icy_metaint, as the header gave it
  MetaUnit,     \* 16: the length byte counts in units
  MaxPiece,     \* what one client_recv returns at most
  MaxReceived,  \* bound: how much is received in all
  MaxLaps       \* bound: how often the reader comes to the end of the ring

ASSUME ChunkAssumption == BufferChunk \in Nat \ {0}
ASSUME PreBufferAssumption == PreBuffer \in Nat \ {0}
ASSUME MetaAssumption == MetaInt \in Nat \ {0} /\ MetaUnit \in Nat \ {0}
ASSUME BoundAssumption == MaxReceived \in Nat /\ MaxLaps \in Nat
(* 2000000 against 512000, 2048 and MAX_NET_BUFFER in the code.            *)
ASSUME SizeAssumption ==
  /\ BufferSize \in Nat /\ MaxPiece \in Nat \ {0}
  /\ PreBuffer + MaxPiece <= BufferSize /\ BufferChunk <= BufferSize

VARIABLES
  looking_for_header,
  metaint_pos,                      \* bytes since the last section
  metaint_size,                     \* size of the section that is received
  metaint_receive_pos,              \* how much of it was received
  left, new_len, temp_buffer,       \* the piece in buffer_data: bytes to look
                                    \* at, its new length, the bytes kept, and
  net_buffer,                       \* the bytes as they came, up to here
  buffer, buffered, buffers_recvd,  \* the ring, where data is stored, laps
  last_chunk, buffers_sent,         \* where it is read, laps
  bufferring,
  cbuf,                             \* what get_buffer returned last
  server_audio, server_meta,        \* the server: audio bytes since the last
                                    \* section, metadata bytes to come
  server_next,                      \* the number of its next audio byte
  received,                         \* bytes received, bounded by MaxReceived
  sections,                         \* history: sections begun in this piece
  stored, due, unread,              \* history: audio bytes stored, the number of
                                    \* the next one for the decoder, bytes between
  broken,                           \* history: the ring was overrun
  stale                             \* history: metaint_size of an earlier stream

demux == <<metaint_pos, metaint_size, metaint_receive_pos>>
piece == <<left, new_len, temp_buffer, net_buffer, sections>>
ring  == <<buffer, buffered, buffers_recvd, last_chunk, buffers_sent, bufferring>>
server == <<server_audio, server_meta, server_next>>
heard == <<cbuf, due, unread, broken>>
vars  == <<looking_for_header, demux, piece, ring, server, received, stored, heard, stale>>

Cells == 0 .. BufferSize - 1
Junk == 0
NoPiece == -1
Idle == left = NoPiece

Init ==
  /\ looking_for_header = TRUE
  /\ metaint_pos = 0 /\ metaint_size = 0 /\ metaint_receive_pos = 0
  /\ left = NoPiece /\ new_len = 0 /\ temp_buffer = <<>> /\ net_buffer = <<>>
  /\ sections = 0
  /\ buffer = [i \in Cells |-> Junk] /\ buffered = 0 /\ buffers_recvd = 0
  /\ last_chunk = 0 /\ buffers_sent = 0 /\ bufferring = TRUE
  /\ server_audio = 0 /\ server_meta = 0 /\ server_next = 1
  /\ cbuf = <<>> /\ received = 0
  /\ stored = 0 /\ due = 1 /\ unread = 0 /\ broken = FALSE /\ stale = FALSE

-----------------------------------------------------------------------------
StreamResetWriter == \* mutant of icy_stream_reset: the reader stays where it is
  /\ buffers_sent' = 0 /\ buffers_recvd' = 0
  /\ buffered' = 0 /\ UNCHANGED last_chunk
  /\ bufferring' = TRUE
  /\ unread' = 0 /\ broken' = FALSE

icy_stream_reset ==
  /\ buffers_sent' = 0 /\ buffers_recvd' = 0
  /\ buffered' = 0 /\ last_chunk' = 0
  /\ bufferring' = TRUE
  /\ unread' = 0 /\ broken' = FALSE

(* A new connection: metaint_size is not reset.                            *)
icy_reset ==
  /\ Idle
  /\ buffer' = [i \in Cells |-> Junk]
  /\ icy_stream_reset
  /\ metaint_pos' = 0 /\ metaint_receive_pos' = 0
  /\ looking_for_header' = TRUE
  /\ server_audio' = 0 /\ server_meta' = 0 /\ server_next' = 1
  /\ stored' = 0 /\ due' = 1
  /\ stale' = (metaint_size # 0)
  /\ UNCHANGED <<metaint_size, piece, received, cbuf>>

(* buffer_data begins a piece; the one that ends the header leaves what    *)
(* comes behind it.  The pieces before it pass through the buffer without a*)
(* trace; a refused header or a redirect leads to icy_reset.               *)
Begin(n) ==
  /\ Idle
  /\ received + n <= MaxReceived
  /\ received' = received + n
  /\ left' = n /\ new_len' = n /\ temp_buffer' = <<>> /\ net_buffer' = <<>>
  /\ sections' = 0

Header ==
  /\ looking_for_header
  /\ \E n \in 0 .. MaxPiece : Begin(n)
  /\ looking_for_header' = FALSE
  /\ metaint_pos' = 0 /\ buffered' = 0
  /\ UNCHANGED <<metaint_size, metaint_receive_pos, buffer, buffers_recvd, last_chunk,
                 buffers_sent, bufferring, server, stored, heard, stale>>

Receive ==
  /\ ~looking_for_header
  /\ \E n \in 1 .. MaxPiece : Begin(n)
  /\ UNCHANGED <<looking_for_header, demux, ring, server, stored, heard, stale>>

(* The next byte: the number of an audio byte, or Junk, and what it says if*)
(* it is taken for a length byte.                                          *)
AudioIsNext == server_meta = 0 /\ server_audio < MetaInt
NextByte == [number : {IF AudioIsNext THEN server_next ELSE Junk}, length : 0 .. 1]

ServerSends(b) ==
  \/ /\ server_meta > 0
     /\ server_meta' = server_meta - 1
     /\ UNCHANGED <<server_audio, server_next>>
  \/ /\ AudioIsNext
     /\ server_audio' = server_audio + 1 /\ server_next' = server_next + 1
     /\ UNCHANGED server_meta
  \/ /\ server_meta = 0 /\ server_audio = MetaInt
     /\ server_audio' = 0 /\ server_meta' = b.length * MetaUnit
     /\ UNCHANGED server_next

-----------------------------------------------------------------------------
(* parse_metaint, one round: the byte is metadata, audio, or a length.     *)
TakeMeta ==
  /\ metaint_size # 0
  /\ metaint_receive_pos' = metaint_receive_pos + 1
  /\ metaint_size' = IF metaint_receive_pos' = metaint_size THEN 0 ELSE metaint_size
  /\ new_len' = new_len - 1
  /\ UNCHANGED <<metaint_pos, temp_buffer, sections>>

KeepAudioLong(b) == \* mutant of KeepAudio: <= in place of <
  /\ metaint_size = 0 /\ metaint_pos <= MetaInt
  /\ metaint_pos' = metaint_pos + 1
  /\ temp_buffer' = Append(temp_buffer, b.number)
  /\ UNCHANGED <<metaint_size, metaint_receive_pos, new_len, sections>>

KeepAudio(b) ==
  /\ metaint_size = 0 /\ metaint_pos < MetaInt
  /\ metaint_pos' = metaint_pos + 1
  /\ temp_buffer' = Append(temp_buffer, b.number)
  /\ UNCHANGED <<metaint_size, metaint_receive_pos, new_len, sections>>

TakeLengthLate(b) == \* mutant of TakeLength: the empty section's byte stays
  /\ metaint_size = 0 /\ metaint_pos >= MetaInt
  /\ metaint_pos' = 0 /\ metaint_receive_pos' = 0
  /\ metaint_size' = MetaUnit * b.length
  /\ UNCHANGED new_len
  /\ sections' = IF b.length = 0 THEN sections ELSE sections + 1
  /\ UNCHANGED temp_buffer

TakeLength(b) == \* only the length byte of an empty section leaves new_len
  /\ metaint_size = 0 /\ metaint_pos >= MetaInt
  /\ metaint_pos' = 0 /\ metaint_receive_pos' = 0
  /\ metaint_size' = MetaUnit * b.length
  /\ new_len' = IF b.length = 0 THEN new_len - 1 ELSE new_len
  /\ sections' = IF b.length = 0 THEN sections ELSE sections + 1
  /\ UNCHANGED temp_buffer

ParseByte ==
  /\ left > 0
  /\ left' = left - 1
  /\ \E b \in NextByte :
       /\ TakeMeta \/ KeepAudio(b) \/ TakeLength(b)
       /\ ServerSends(b)
       /\ net_buffer' = Append(net_buffer, b.number)
  /\ UNCHANGED <<looking_for_header, ring, received, stored, heard, stale>>

-----------------------------------------------------------------------------
(* The rest of buffer_data: new_len bytes go to the ring.  The audio was   *)
(* moved to the front of the buffer; behind it lies what lay there before. *)
ToStore ==
  LET kept == Len(temp_buffer)
  IN  temp_buffer \o [i \in 1 .. new_len - kept |-> -net_buffer[kept + i]]

Store ==
  /\ left = 0
  /\ LET remain == buffered + new_len - BufferSize
     IN  /\ buffer' = [c \in Cells |->
                         IF c >= buffered /\ c - buffered < new_len
                           THEN ToStore[c - buffered + 1]
                         ELSE IF c < remain
                           THEN ToStore[BufferSize - buffered + c + 1]
                         ELSE buffer[c]]
         /\ buffered' = IF remain > 0 THEN remain ELSE buffered + new_len
         /\ buffers_recvd' = IF remain > 0 THEN buffers_recvd + 1 ELSE buffers_recvd
  /\ bufferring' = (bufferring /\ buffered' < PreBuffer)
  /\ left' = NoPiece /\ net_buffer' = <<>>
  /\ stored' = stored + Len(temp_buffer)
  /\ unread' = unread + new_len
  /\ broken' = (broken \/ unread' > BufferSize)
  /\ UNCHANGED <<looking_for_header, demux, new_len, temp_buffer, sections, last_chunk,
                 buffers_sent, server, received, cbuf, due, stale>>

-----------------------------------------------------------------------------
(* get_buffer, called while the status is PLAYING.                         *)
Audio(bytes) == {i \in DOMAIN bytes : bytes[i] > 0}

HandOut(n) ==
  /\ cbuf' = [i \in 1 .. n |-> buffer[last_chunk + i - 1]]
  /\ unread' = unread - n
  /\ broken' = (broken \/ n > unread)
  /\ due' = due + Cardinality(Audio(cbuf'))

ToTheEnd ==    \* what is left before the end of the ring, whoever wrote it
  /\ buffers_sent < MaxLaps
  /\ HandOut(BufferSize - last_chunk)
  /\ buffers_sent' = buffers_sent + 1
  /\ last_chunk' = 0
  /\ UNCHANGED <<buffer, buffered, buffers_recvd, bufferring>>

RunDryAnyLap(len) == \* mutant of RunDry: the laps are not compared
  last_chunk + len >= buffered

RunDry(len) == last_chunk + len >= buffered /\ buffers_recvd = buffers_sent

Rebuffer ==    \* what is left is dropped
  /\ icy_stream_reset
  /\ due' = stored + 1
  /\ cbuf' = <<>>
  /\ UNCHANGED buffer

Chunk(len) ==
  /\ HandOut(len)
  /\ last_chunk' = last_chunk + len
  /\ UNCHANGED <<buffer, buffered, buffers_recvd, buffers_sent, bufferring>>

GetBuffer ==
  /\ Idle /\ ~looking_for_header /\ ~bufferring
  /\ \E len \in 1 .. BufferChunk :
       IF last_chunk + len > BufferSize THEN ToTheEnd
       ELSE IF RunDry(len) THEN Rebuffer
       ELSE Chunk(len)
  /\ UNCHANGED <<looking_for_header, demux, piece, server, received, stored, stale>>

Next == icy_reset \/ Header \/ Receive \/ ParseByte \/ Store \/ GetBuffer

Spec == Init /\ [][Next]_vars

-----------------------------------------------------------------------------
TypeOK ==
  /\ looking_for_header \in BOOLEAN /\ bufferring \in BOOLEAN
  /\ broken \in BOOLEAN /\ stale \in BOOLEAN
  /\ metaint_pos \in 0 .. MetaInt /\ metaint_size \in {0, MetaUnit}
  /\ metaint_receive_pos \in 0 .. MetaUnit
  /\ left \in NoPiece .. MaxPiece /\ new_len \in 0 .. MaxPiece
  /\ temp_buffer \in Seq(Nat) /\ net_buffer \in Seq(Nat)
  /\ cbuf \in Seq(Int) /\ buffer \in [Cells -> Int]
  /\ buffered \in 0 .. BufferSize /\ last_chunk \in 0 .. BufferSize
  /\ buffers_recvd \in Nat /\ buffers_sent \in Nat
  /\ server_audio \in 0 .. MetaInt /\ server_meta \in 0 .. MetaUnit
  /\ server_next \in Nat
  /\ received \in 0 .. MaxReceived /\ sections \in Nat
  /\ stored \in Nat /\ due \in Nat /\ unread \in Int

(* However the stream is cut into pieces, parse_metaint is where the server*)
(* is: in the same section, as far into it, and as far behind the last one.*)
InStep ==
  ~stale =>
    /\ metaint_size # 0 <=> server_meta > 0
    /\ metaint_size # 0 => metaint_size - metaint_receive_pos = server_meta
    /\ metaint_pos = server_audio

(* All of the audio is kept, in order, and what is stored is longer by one *)
(* byte for every section that began in the piece.                         *)
PieceIsAudio ==
  ~Idle /\ ~stale =>
    /\ temp_buffer = [i \in 1 .. Len(temp_buffer) |-> stored + i]
    /\ server_next = stored + Len(temp_buffer) + 1
    /\ new_len = left + Len(temp_buffer) + sections

(* Until the reader passes the writer or the writer laps the reader, the   *)
(* two indices are as far apart as what is stored and not handed out.      *)
IndicesAgree ==
  ~broken =>
    \/ buffers_recvd = buffers_sent     /\ unread = buffered - last_chunk
    \/ buffers_recvd = buffers_sent + 1 /\ unread = buffered - last_chunk + BufferSize
    \/ /\ buffers_sent = buffers_recvd + 1
       /\ unread = 0 /\ buffered = BufferSize /\ last_chunk = 0

(* Until then every byte of audio that rebuffering does not drop reaches   *)
(* the decoder in order and without a gap: the bytes it gets next, the     *)
(* strays left aside, are the ones that are due.  The strays are one byte  *)
(* for every section that began: metadata, or a byte of the piece for a    *)
(* second time (RemovesMetadata below).                                    *)
InOrder ==
  [][GetBuffer /\ ~stale /\ ~broken' =>
       /\ \A i, j \in Audio(cbuf') : i < j => cbuf'[i] < cbuf'[j]
       /\ {cbuf'[i] : i \in Audio(cbuf')} =
            due .. due + Cardinality(Audio(cbuf')) - 1]_vars

(* Rebuffering drops less than was asked for, or just that.                *)
LittleIsLost ==
  [][bufferring' /\ ~bufferring /\ ~looking_for_header' /\ ~broken
       => unread \in 0 .. BufferChunk]_vars

-----------------------------------------------------------------------------
(* icy.cpp: parse_metaint "removes it from stream, returning new buffer    *)
(* length": of the audio that is left.                                     *)
RemovesMetadata == left = 0 /\ ~stale => new_len = Len(temp_buffer)
=============================================================================
