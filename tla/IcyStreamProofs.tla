--------------------------- MODULE IcyStreamProofs ---------------------------
(***************************************************************************)
(* Proofs about IcyStream for every size of the ring, of the pieces and of *)
(* the metadata: parse_metaint stays in step with the server, and the two  *)
(* sides of the ring with each other.                                      *)
(***************************************************************************)
EXTENDS IcyStream, FiniteSetTheorems, TLAPS

(* A section that is being received is not complete, and nothing of the    *)
(* stream was looked at while its header is missing.                       *)
DemuxOK ==
  /\ metaint_pos \in 0 .. MetaInt /\ metaint_size \in {0, MetaUnit}
  /\ metaint_receive_pos \in Nat
  /\ metaint_size # 0 => metaint_receive_pos < MetaUnit
  /\ server_audio \in 0 .. MetaInt /\ server_meta \in 0 .. MetaUnit
  /\ looking_for_header => Idle /\ server_audio = 0 /\ server_meta = 0

(* The piece never has fewer bytes to keep than bytes to look at.          *)
PieceOK ==
  /\ left \in NoPiece .. MaxPiece /\ new_len \in 0 .. MaxPiece
  /\ left <= new_len

(* The ring: neither side has left it, and what is unread fits; it is empty*)
(* while the header is missing.                                            *)
RingOK ==
  /\ buffered \in 0 .. BufferSize /\ last_chunk \in 0 .. BufferSize
  /\ buffers_recvd \in Nat /\ buffers_sent \in Nat
  /\ unread \in Int
  /\ ~broken => unread \in 0 .. BufferSize
  /\ looking_for_header => buffered = 0

IInv == DemuxOK /\ InStep /\ PieceOK /\ RingOK /\ IndicesAgree

(* Nothing received, nothing stored.                                       *)
LEMMA InitIInv == Init => IInv
BY MetaAssumption, SizeAssumption
   DEF Init, IInv, DemuxOK, InStep, PieceOK, RingOK, IndicesAgree, Idle, NoPiece

(* A byte moves parse_metaint and the server by the same step.             *)
LEMMA ByteInStep ==
  ASSUME DemuxOK, PieceOK, InStep, ~stale, ParseByte
  PROVE  InStep'
<1> USE MetaAssumption DEF DemuxOK, InStep
<1>1. PICK b \in NextByte : /\ TakeMeta \/ KeepAudio(b) \/ TakeLength(b)
                            /\ ServerSends(b)
  BY DEF ParseByte
<1>2. b.length = 0 \/ b.length = 1
  BY DEF NextByte
<1>3. CASE TakeMeta
  <2>1. /\ server_meta > 0 /\ server_meta' = server_meta - 1
        /\ server_audio' = server_audio
    BY <1>1, <1>3 DEF TakeMeta, ServerSends, AudioIsNext
  <2> QED
    BY <1>3, <2>1 DEF TakeMeta
<1>4. CASE KeepAudio(b)
  BY <1>1, <1>4 DEF KeepAudio, ServerSends, AudioIsNext
<1>5. CASE TakeLength(b)
  <2>1. /\ server_audio' = 0 /\ server_meta' = b.length * MetaUnit
        /\ metaint_pos' = 0 /\ metaint_receive_pos' = 0
        /\ metaint_size' = MetaUnit * b.length
    BY <1>1, <1>5 DEF TakeLength, ServerSends, AudioIsNext
  <2>2. CASE b.length = 0
    BY <2>1, <2>2
  <2>3. CASE b.length = 1
    BY <2>1, <2>3
  <2> QED
    BY <1>2, <2>2, <2>3
<1> QED
  BY <1>1, <1>3, <1>4, <1>5

(* Neither of them leaves its range, stale or not.                         *)
LEMMA ByteTypes ==
  ASSUME DemuxOK, PieceOK, ParseByte
  PROVE  (DemuxOK /\ PieceOK)'
<1> USE MetaAssumption, SizeAssumption DEF DemuxOK, PieceOK, Idle, NoPiece
<1>1. PICK b \in NextByte : /\ TakeMeta \/ KeepAudio(b) \/ TakeLength(b)
                            /\ ServerSends(b)
  BY DEF ParseByte
<1>2. /\ left > 0 /\ left' = left - 1 /\ ~looking_for_header
      /\ looking_for_header' = looking_for_header
  BY DEF ParseByte
<1>3. b.length = 0 \/ b.length = 1
  BY DEF NextByte
<1>4. MetaUnit * b.length \in {0, MetaUnit} /\ b.length * MetaUnit \in {0, MetaUnit}
  BY <1>3
<1>5. server_audio' \in 0 .. MetaInt /\ server_meta' \in 0 .. MetaUnit
  BY <1>1, <1>4 DEF ServerSends, AudioIsNext
<1>6. /\ metaint_pos' \in 0 .. MetaInt /\ metaint_size' \in {0, MetaUnit}
      /\ metaint_receive_pos' \in Nat
      /\ metaint_size' # 0 => metaint_receive_pos' < MetaUnit
      /\ new_len' \in {new_len, new_len - 1}
  <2>1. CASE TakeMeta
    BY <2>1 DEF TakeMeta
  <2>2. CASE KeepAudio(b)
    BY <2>2 DEF KeepAudio
  <2>3. CASE TakeLength(b)
    BY <1>4, <2>3 DEF TakeLength
  <2> QED
    BY <1>1, <2>1, <2>2, <2>3
<1> QED
  BY <1>2, <1>5, <1>6

(* The other steps of the receiving side.                                  *)
LEMMA NextDemux ==
  ASSUME IInv, [Next]_vars
  PROVE  (DemuxOK /\ PieceOK /\ InStep)'
<1> USE DEF IInv, DemuxOK, InStep, PieceOK, Idle, NoPiece, demux, piece, server
<1>1. CASE icy_reset
  <2>1. /\ metaint_pos' = 0 /\ metaint_receive_pos' = 0 /\ metaint_size' = metaint_size
        /\ server_audio' = 0 /\ server_meta' = 0
        /\ left' = left /\ new_len' = new_len /\ left = -1
    BY <1>1 DEF icy_reset
  <2>2. stale' = (metaint_size # 0)
    BY <1>1 DEF icy_reset
  <2>3. ~stale' => metaint_size = 0
    BY <2>2, Zenon
  <2> QED
    BY <2>1, <2>3, MetaAssumption
<1>2. CASE Header
  BY <1>2, MetaAssumption, SizeAssumption DEF Header, Begin
<1>3. CASE Receive
  BY <1>3, SizeAssumption DEF Receive, Begin
<1>4. CASE ParseByte
  <2>1. stale' = stale
    BY <1>4 DEF ParseByte
  <2>2. CASE stale
    <3>1. (DemuxOK /\ PieceOK)'
      BY <1>4, ByteTypes
    <3>2. InStep'
      BY <2>1, <2>2
    <3> QED
      BY <3>1, <3>2
  <2>3. CASE ~stale
    BY <1>4, <2>3, ByteTypes, ByteInStep
  <2> QED
    BY <2>2, <2>3
<1>5. CASE Store
  BY <1>5, SizeAssumption DEF Store
<1>6. CASE GetBuffer
  BY <1>6 DEF GetBuffer
<1>7. CASE UNCHANGED vars
  BY <1>7 DEF vars
<1> QED
  BY <1>1, <1>2, <1>3, <1>4, <1>5, <1>6, <1>7 DEF Next

(* Storing a piece moves the writer as far as it adds to what is unread;   *)
(* one lap ahead of the reader there is no room for a second.              *)
LEMMA StoreRing ==
  ASSUME IInv, Store
  PROVE  (RingOK /\ IndicesAgree)'
<1> USE SizeAssumption, PreBufferAssumption DEF IInv, DemuxOK, PieceOK,
         RingOK, IndicesAgree, Idle, NoPiece
<1>1. /\ new_len \in 0 .. MaxPiece /\ unread' = unread + new_len
      /\ last_chunk' = last_chunk /\ buffers_sent' = buffers_sent
      /\ ~looking_for_header /\ looking_for_header' = looking_for_header
  BY DEF Store
<1>2. ~broken' => ~broken /\ ~(unread' > BufferSize)
  BY Zenon DEF Store
<1>3. CASE buffered + new_len - BufferSize > 0
  <2>1. buffered' = buffered + new_len - BufferSize /\ buffers_recvd' = buffers_recvd + 1
    BY <1>3 DEF Store
  <2>2. CASE broken'
    BY <1>1, <1>3, <2>1, <2>2
  <2>3. CASE ~broken'
    <3>1. /\ ~broken /\ unread \in 0 .. BufferSize
          /\ unread' \in 0 .. BufferSize /\ buffered' \in 1 .. BufferSize
      BY <1>1, <1>2, <1>3, <2>1, <2>3
    <3>2. CASE buffers_recvd = buffers_sent /\ unread = buffered - last_chunk
      BY <1>1, <2>1, <3>1, <3>2
    <3>3. CASE /\ buffers_recvd = buffers_sent + 1
               /\ unread = buffered - last_chunk + BufferSize
      BY <1>1, <2>1, <3>1, <3>3
    <3>4. CASE /\ buffers_sent = buffers_recvd + 1
               /\ unread = 0 /\ buffered = BufferSize /\ last_chunk = 0
      BY <1>1, <2>1, <3>1, <3>4
    <3> QED
      BY <3>1, <3>2, <3>3, <3>4
  <2> QED
    BY <2>2, <2>3
<1>4. CASE ~(buffered + new_len - BufferSize > 0)
  <2>1. buffered' = buffered + new_len /\ buffers_recvd' = buffers_recvd
    BY <1>4 DEF Store
  <2> QED
    BY <1>1, <1>4, <1>2, <2>1
<1> QED
  BY <1>3, <1>4

(* Handing out moves the reader as far as it takes from what is unread.    *)
LEMMA ReadRing ==
  ASSUME IInv, GetBuffer
  PROVE  (RingOK /\ IndicesAgree)'
<1> USE SizeAssumption, ChunkAssumption DEF IInv, RingOK, IndicesAgree
<1>1. PICK len \in 1 .. BufferChunk :
        IF last_chunk + len > BufferSize THEN ToTheEnd
        ELSE IF RunDry(len) THEN Rebuffer
        ELSE Chunk(len)
  BY DEF GetBuffer
<1>2. ~looking_for_header /\ looking_for_header' = looking_for_header
  BY DEF GetBuffer
<1>3. CASE ToTheEnd
  <2>1. ~broken' => ~broken /\ ~(BufferSize - last_chunk > unread)
    BY <1>3, Zenon DEF ToTheEnd, HandOut
  <2>2. /\ unread' = unread - (BufferSize - last_chunk)
        /\ buffers_sent' = buffers_sent + 1 /\ last_chunk' = 0
        /\ buffered' = buffered /\ buffers_recvd' = buffers_recvd
    BY <1>3 DEF ToTheEnd, HandOut
  <2> QED
    BY <1>2, <2>1, <2>2
<1>4. CASE Rebuffer
  BY <1>2, <1>4 DEF Rebuffer, icy_stream_reset
<1>5. CASE Chunk(len) /\ last_chunk + len <= BufferSize /\ ~RunDry(len)
  <2>1. ~broken' => ~broken /\ ~(len > unread)
    BY <1>5, Zenon DEF Chunk, HandOut
  <2>2. /\ unread' = unread - len /\ last_chunk' = last_chunk + len
        /\ buffered' = buffered /\ buffers_recvd' = buffers_recvd
        /\ buffers_sent' = buffers_sent
    BY <1>5 DEF Chunk, HandOut
  <2> QED
    BY <1>2, <1>5, <2>1, <2>2 DEF RunDry
<1> QED
  BY <1>1, <1>3, <1>4, <1>5

LEMMA NextRing ==
  ASSUME IInv, [Next]_vars
  PROVE  (RingOK /\ IndicesAgree)'
<1> USE DEF IInv, RingOK, IndicesAgree, ring, heard
<1>1. CASE icy_reset
  BY <1>1, SizeAssumption DEF icy_reset, icy_stream_reset
<1>2. CASE Header
  BY <1>2 DEF Header
<1>3. CASE Receive
  BY <1>3 DEF Receive
<1>4. CASE ParseByte
  BY <1>4 DEF ParseByte
<1>5. CASE Store
  BY <1>5, StoreRing
<1>6. CASE GetBuffer
  BY <1>6, ReadRing
<1>7. CASE UNCHANGED vars
  BY <1>7 DEF vars
<1> QED
  BY <1>1, <1>2, <1>3, <1>4, <1>5, <1>6, <1>7 DEF Next

(* The inductive invariant holds in every reachable state.                 *)
LEMMA Invariance == Spec => []IInv
<1>1. IInv /\ [Next]_vars => IInv'
  BY NextDemux, NextRing DEF IInv
<1> QED
  BY InitIInv, <1>1, PTL DEF Spec

(* In whatever pieces the stream arrives, parse_metaint knows where it is. *)
THEOREM StaysInStep == Spec => []InStep
BY Invariance, PTL DEF IInv

(* Until the ring is overrun the indices and laps of writer and reader tell*)
(* how much is unread.                                                     *)
THEOREM RingAgrees == Spec => []IndicesAgree
BY Invariance, PTL DEF IInv

(* Rebuffering drops at most one chunk.                                    *)
THEOREM RebufferLosesLittle == Spec => LittleIsLost
<1>1. IInv /\ [Next]_vars =>
        [bufferring' /\ ~bufferring /\ ~looking_for_header' /\ ~broken
           => unread \in 0 .. BufferChunk]_vars
  <2> SUFFICES ASSUME IInv, Next, bufferring', ~bufferring, ~looking_for_header', ~broken
               PROVE  unread \in 0 .. BufferChunk
    OBVIOUS
  <2>1. GetBuffer
    BY DEF Next, icy_reset, Header, Receive, ParseByte, Store, ring
  <2>2. PICK len \in 1 .. BufferChunk : RunDry(len)
    BY <2>1 DEF GetBuffer, ToTheEnd, Chunk
  <2> QED
    BY <2>2, ChunkAssumption, SizeAssumption DEF RunDry, IInv, RingOK, IndicesAgree
<1> QED
  BY <1>1, Invariance, PTL DEF Spec, LittleIsLost

-----------------------------------------------------------------------------
(* What is kept and stored are numbers, and a piece has the bytes to store.*)
FlagsOK ==
  /\ looking_for_header \in BOOLEAN /\ bufferring \in BOOLEAN
  /\ broken \in BOOLEAN /\ stale \in BOOLEAN

DataOK ==
  /\ metaint_receive_pos <= MetaUnit
  /\ temp_buffer \in Seq(Nat) /\ net_buffer \in Seq(Nat)
  /\ ~Idle => new_len <= Len(net_buffer) + left
  /\ cbuf \in Seq(Int) /\ buffer \in [Cells -> Int]
  /\ server_next \in Nat /\ received \in 0 .. MaxReceived /\ sections \in Nat
  /\ stored \in Nat /\ due \in Nat

(* The bytes of a piece that is stored, and how many there are.            *)
LEMMA ToStoreType ==
  ASSUME temp_buffer \in Seq(Nat), net_buffer \in Seq(Nat),
         new_len \in Nat, new_len <= Len(net_buffer)
  PROVE  \A i \in 1 .. new_len :
           /\ ToStore[i] \in Int
           /\ i <= Len(temp_buffer) => ToStore[i] = temp_buffer[i]
           /\ i > Len(temp_buffer)  => ToStore[i] <= 0
<1> DEFINE kept == Len(temp_buffer)
           rest == [i \in 1 .. new_len - kept |-> -net_buffer[kept + i]]
<1>1. kept \in Nat
  OBVIOUS
<1>2. ToStore = temp_buffer \o rest
  BY DEF ToStore
<1>3. \A i \in 1 .. new_len - kept : net_buffer[kept + i] \in Nat
  OBVIOUS
<1>4. \A i \in 1 .. new_len - kept : -net_buffer[kept + i] \in Int /\ -net_buffer[kept + i] <= 0
  BY <1>3
<1>5. SUFFICES ASSUME NEW i \in 1 .. new_len
               PROVE  /\ ToStore[i] \in Int
                      /\ i <= Len(temp_buffer) => ToStore[i] = temp_buffer[i]
                      /\ i > Len(temp_buffer)  => ToStore[i] <= 0
  OBVIOUS
<1>6. /\ rest \in Seq(Int)
      /\ Len(rest) = IF new_len >= kept THEN new_len - kept ELSE 0
  <2>1. CASE new_len >= kept
    BY <1>1, <1>4, <2>1
  <2>2. CASE ~(new_len >= kept)
    <3>1. rest = <<>>
      BY <1>1, <2>2
    <3> HIDE DEF rest
    <3> QED
      BY <2>2, <3>1
  <2> QED
    BY <2>1, <2>2
<1>7. \A k \in 1 .. new_len - kept : rest[k] \in Int /\ rest[k] <= 0
  BY <1>4
<1>8. temp_buffer \in Seq(Int)
  OBVIOUS
<1> HIDE DEF rest
<1>9. CASE i <= kept
  <2>1. ToStore[i] = temp_buffer[i] /\ temp_buffer[i] \in Int
    BY <1>1, <1>2, <1>6, <1>8, <1>9
  <2> QED
    BY <1>1, <1>9, <2>1
<1>10. CASE ~(i <= kept)
  <2>1. i - kept \in 1 .. new_len - kept /\ new_len >= kept
    BY <1>1, <1>10
  <2>2. ToStore[i] = rest[i - kept]
    BY <1>1, <1>2, <1>6, <1>8, <1>10, <2>1
  <2>3. ToStore[i] \in Int /\ ToStore[i] <= 0
    BY <1>7, <2>1, <2>2
  <2> QED
    BY <1>10, <2>3
<1> QED
  BY <1>9, <1>10

(* Storing a piece fills cells of the ring with its bytes.                 *)
LEMMA StoreData ==
  ASSUME IInv, DataOK, Store
  PROVE  DataOK'
<1> USE SizeAssumption DEF IInv, PieceOK, RingOK, DataOK
<1>0. left = 0 /\ new_len <= Len(net_buffer)
  BY DEF Store, Idle, NoPiece
<1>1. \A i \in 1 .. new_len : ToStore[i] \in Int
  BY <1>0, ToStoreType
<1>2. buffer' \in [Cells -> Int]
  <2> DEFINE remain == buffered + new_len - BufferSize
  <2>1. buffer' = [c \in Cells |->
                     IF c >= buffered /\ c - buffered < new_len
                       THEN ToStore[c - buffered + 1]
                     ELSE IF c < remain
                       THEN ToStore[BufferSize - buffered + c + 1]
                     ELSE buffer[c]]
    BY DEF Store
  <2>2. SUFFICES ASSUME NEW c \in Cells PROVE buffer'[c] \in Int
    BY <2>1
  <2>3. CASE c >= buffered /\ c - buffered < new_len
    <3>1. c - buffered + 1 \in 1 .. new_len
      BY <2>3 DEF Cells
    <3> QED
      BY <1>1, <2>1, <2>3, <3>1
  <2>4. CASE ~(c >= buffered /\ c - buffered < new_len) /\ c < remain
    <3>1. BufferSize - buffered + c + 1 \in 1 .. new_len
      BY <2>4 DEF Cells
    <3> QED
      BY <1>1, <2>1, <2>4, <3>1
  <2>5. CASE ~(c >= buffered /\ c - buffered < new_len) /\ ~(c < remain)
    BY <2>1, <2>5
  <2> QED
    BY <2>3, <2>4, <2>5
<1>3. stored' \in Nat
  BY DEF Store
<1>4. UNCHANGED <<metaint_receive_pos, temp_buffer, cbuf, server_next, received, sections,
                  due>>
  BY Zenon DEF Store, demux, server
<1>5. net_buffer' = <<>> /\ Idle'
  BY DEF Store, Idle
<1> QED
  BY <1>2, <1>3, <1>4, <1>5

(* What is handed out comes from the ring.                                 *)
LEMMA HandOutData ==
  ASSUME IInv, DataOK, NEW n \in 0 .. BufferSize - last_chunk, HandOut(n)
  PROVE  cbuf' \in Seq(Int) /\ due' \in Nat
<1> USE SizeAssumption DEF IInv, RingOK, DataOK
<1>1. \A i \in 1 .. n : buffer[last_chunk + i - 1] \in Int
  BY DEF Cells
<1>2. cbuf' \in Seq(Int)
  BY <1>1 DEF HandOut
<1>3. Cardinality(Audio(cbuf')) \in Nat
  <2>1. IsFiniteSet(1 .. n) /\ Audio(cbuf') \subseteq 1 .. n
    BY FS_Interval DEF HandOut, Audio
  <2> QED
    BY <2>1, FS_Subset, FS_CardinalityType
<1> QED
  BY <1>2, <1>3 DEF HandOut

LEMMA ReadData ==
  ASSUME IInv, DataOK, GetBuffer
  PROVE  DataOK'
<1> USE SizeAssumption, ChunkAssumption DEF IInv, RingOK
<1>1. PICK len \in 1 .. BufferChunk :
        IF last_chunk + len > BufferSize THEN ToTheEnd
        ELSE IF RunDry(len) THEN Rebuffer
        ELSE Chunk(len)
  BY DEF GetBuffer
<1>2. UNCHANGED <<looking_for_header, demux, piece, server, received, stored, stale>>
  BY DEF GetBuffer
<1> USE DEF Idle
<1>3. CASE ToTheEnd
  <2>1. cbuf' \in Seq(Int) /\ due' \in Nat
    BY <1>3, HandOutData DEF ToTheEnd
  <2> QED
    BY <1>2, <1>3, <2>1 DEF ToTheEnd, DataOK, demux, piece, server
<1>4. CASE Rebuffer
  BY <1>2, <1>4 DEF Rebuffer, icy_stream_reset, DataOK, demux, piece, server
<1>5. CASE Chunk(len) /\ last_chunk + len <= BufferSize
  <2>1. len \in 0 .. BufferSize - last_chunk
    BY <1>5
  <2>2. cbuf' \in Seq(Int) /\ due' \in Nat
    BY <1>5, <2>1, HandOutData DEF Chunk
  <2> QED
    BY <1>2, <1>5, <2>2 DEF Chunk, DataOK, demux, piece, server
<1> QED
  BY <1>1, <1>3, <1>4, <1>5

(* A byte that is kept is a number.                                        *)
LEMMA ByteData ==
  ASSUME IInv, DataOK, ParseByte
  PROVE  DataOK'
<1> USE MetaAssumption DEF IInv, DemuxOK, DataOK
<1>1. PICK b \in NextByte : /\ TakeMeta \/ KeepAudio(b) \/ TakeLength(b)
                            /\ ServerSends(b)
                            /\ net_buffer' = Append(net_buffer, b.number)
  BY DEF ParseByte
<1>2. b.number \in Nat
  BY <1>1 DEF NextByte, Junk
<1>3. server_next' \in Nat
  BY <1>1 DEF ServerSends
<1>4. /\ temp_buffer' \in Seq(Nat) /\ sections' \in Nat
      /\ metaint_receive_pos' <= MetaUnit
  <2>1. CASE TakeMeta
    BY <2>1 DEF TakeMeta
  <2>2. CASE KeepAudio(b)
    BY <1>2, <2>2 DEF KeepAudio
  <2>3. CASE TakeLength(b)
    BY <2>3 DEF TakeLength
  <2> QED
    BY <1>1, <2>1, <2>2, <2>3
<1> QED
  <2>1. net_buffer' = Append(net_buffer, b.number) /\ left' = left - 1 /\ left > 0
    BY <1>1 DEF ParseByte
  <2>2. new_len' <= new_len
    <3>1. new_len' \in {new_len, new_len - 1}
      BY <1>1 DEF TakeMeta, KeepAudio, TakeLength
    <3> QED
      BY <3>1 DEF PieceOK
  <2>3. net_buffer' \in Seq(Nat) /\ Len(net_buffer') = Len(net_buffer) + 1
    BY <1>2, <2>1
  <2>5. left \in Int /\ new_len \in Int /\ new_len' \in Int /\ new_len <= Len(net_buffer) + left
    <3>1. new_len' \in {new_len, new_len - 1}
      BY <1>1 DEF TakeMeta, KeepAudio, TakeLength
    <3> QED
      BY <2>1, <3>1 DEF PieceOK, Idle, NoPiece
  <2>6. new_len' <= Len(net_buffer') + left'
    BY <2>1, <2>2, <2>3, <2>5
  <2>4. UNCHANGED <<cbuf, buffer, received, stored, due>>
    BY DEF ParseByte, ring, heard
  <2> QED
    BY <1>3, <1>4, <2>3, <2>4, <2>6

(* Of a new piece nothing was looked at.                                   *)
LEMMA NothingLooked ==
  ASSUME NEW m, NEW l \in Nat, NEW n, m = l, n = 0
  PROVE  m <= n + l
OBVIOUS

LEMMA NextData ==
  ASSUME IInv, DataOK, [Next]_vars
  PROVE  DataOK'
<1> USE DEF Idle
<1>1. CASE icy_reset
  BY <1>1, MetaAssumption DEF icy_reset, icy_stream_reset, DataOK, piece, Cells, Junk
<1>2. CASE Header
  <2>1. /\ received' \in 0 .. MaxReceived /\ temp_buffer' = <<>> /\ sections' = 0
        /\ net_buffer' = <<>> /\ new_len' = left' /\ left' \in Nat
        /\ metaint_receive_pos' = metaint_receive_pos /\ buffer' = buffer
        /\ server_next' = server_next /\ stored' = stored /\ due' = due /\ cbuf' = cbuf
    BY <1>2, BoundAssumption, SizeAssumption DEF Header, Begin, DataOK, server, heard
  <2> DEFINE n == Len(net_buffer')
  <2>2. n = 0
    BY <2>1
  <2> HIDE DEF n
  <2>3. new_len' <= n + left'
    BY <2>1, <2>2, NothingLooked, Zenon
  <2>4. temp_buffer' \in Seq(Nat) /\ net_buffer' \in Seq(Nat)
    BY <2>1
  <2> QED
    BY <2>1, <2>3, <2>4 DEF DataOK, n
<1>3. CASE Receive
  <2>1. /\ received' \in 0 .. MaxReceived /\ temp_buffer' = <<>> /\ sections' = 0
        /\ net_buffer' = <<>> /\ new_len' = left' /\ left' \in Nat
        /\ metaint_receive_pos' = metaint_receive_pos /\ buffer' = buffer
        /\ server_next' = server_next /\ stored' = stored /\ due' = due /\ cbuf' = cbuf
    BY <1>3, BoundAssumption, SizeAssumption
       DEF Receive, Begin, DataOK, server, heard, demux, ring
  <2> DEFINE n == Len(net_buffer')
  <2>2. n = 0
    BY <2>1
  <2> HIDE DEF n
  <2>3. new_len' <= n + left'
    BY <2>1, <2>2, NothingLooked, Zenon
  <2>4. temp_buffer' \in Seq(Nat) /\ net_buffer' \in Seq(Nat)
    BY <2>1
  <2> QED
    BY <2>1, <2>3, <2>4 DEF DataOK, n
<1>4. CASE ParseByte
  BY <1>4, ByteData
<1>5. CASE Store
  BY <1>5, StoreData
<1>6. CASE GetBuffer
  BY <1>6, ReadData
<1>7. CASE UNCHANGED vars
  BY <1>7 DEF vars, DataOK, demux, piece, ring, server, heard
<1> QED
  BY <1>1, <1>2, <1>3, <1>4, <1>5, <1>6, <1>7 DEF Next

LEMMA InitData == Init => DataOK /\ FlagsOK
<1>1. Init => DataOK
  BY BoundAssumption, MetaAssumption DEF Init, DataOK, Cells, Junk, Idle
<1>2. Init => FlagsOK
  BY Zenon DEF Init, FlagsOK
<1> QED
  BY <1>1, <1>2

LEMMA NextFlags ==
  ASSUME FlagsOK, [Next]_vars
  PROVE  FlagsOK'
<1>1. CASE icy_reset
  BY <1>1, Zenon DEF icy_reset, icy_stream_reset, FlagsOK
<1>2. CASE Header
  BY <1>2, Zenon DEF Header, FlagsOK, heard
<1>3. CASE Receive
  BY <1>3, Zenon DEF Receive, FlagsOK, ring, heard
<1>4. CASE ParseByte
  BY <1>4, Zenon DEF ParseByte, FlagsOK, ring, heard
<1>5. CASE Store
  BY <1>5, Zenon DEF Store, FlagsOK
<1>6. CASE GetBuffer
  <2>1. ToTheEnd \/ Rebuffer \/ \E len \in 1 .. BufferChunk : Chunk(len)
    BY <1>6 DEF GetBuffer
  <2>2. looking_for_header' = looking_for_header /\ stale' = stale
    BY <1>6, Zenon DEF GetBuffer
  <2>3. bufferring' \in BOOLEAN /\ broken' \in BOOLEAN
    BY <2>1, Zenon DEF ToTheEnd, Rebuffer, icy_stream_reset, Chunk, HandOut, FlagsOK
  <2> QED
    BY <2>2, <2>3, Zenon DEF FlagsOK
<1>7. CASE UNCHANGED vars
  BY <1>7, Zenon DEF vars, FlagsOK, ring, heard
<1> QED
  BY <1>1, <1>2, <1>3, <1>4, <1>5, <1>6, <1>7, Zenon DEF Next

(* Every variable keeps its type, for all sizes.                           *)
THEOREM IcyTypes == Spec => []TypeOK
<1>1. IInv /\ DataOK /\ FlagsOK => TypeOK
  BY DEF IInv, DemuxOK, PieceOK, RingOK, DataOK, FlagsOK, TypeOK
<1>2. IInv /\ DataOK /\ [Next]_vars => DataOK'
  BY NextData
<1>3. FlagsOK /\ [Next]_vars => FlagsOK'
  BY NextFlags
<1> QED
  BY <1>1, <1>2, <1>3, InitData, Invariance, PTL DEF Spec

-----------------------------------------------------------------------------
(* Between two pieces everything the server has sent of its audio is stored*)
AudioInv ==
  ~stale =>
    /\ looking_for_header => stored = 0
    /\ Idle => server_next = stored + 1

TakenInv == AudioInv /\ PieceIsAudio

(* In step with the server, the byte that is kept is the next audio byte.  *)
LEMMA BytePiece ==
  ASSUME IInv, DataOK, TakenInv, ParseByte
  PROVE  TakenInv'
<1> SUFFICES ASSUME ~stale PROVE TakenInv'
  BY DEF ParseByte, TakenInv, AudioInv, PieceIsAudio
<1> USE MetaAssumption, SizeAssumption
    DEF IInv, DemuxOK, PieceOK, DataOK, TakenInv, AudioInv, PieceIsAudio, Idle, NoPiece
<1>1. PICK b \in NextByte : /\ TakeMeta \/ KeepAudio(b) \/ TakeLength(b)
                            /\ ServerSends(b)
  BY DEF ParseByte
<1>2. /\ left > 0 /\ left' = left - 1 /\ ~looking_for_header
      /\ looking_for_header' = looking_for_header
      /\ stored' = stored /\ stale' = stale
  BY DEF ParseByte
<1>3. /\ temp_buffer = [i \in 1 .. Len(temp_buffer) |-> stored + i]
      /\ server_next = stored + Len(temp_buffer) + 1
      /\ new_len = left + Len(temp_buffer) + sections
  BY <1>2
<1>4. CASE TakeMeta
  <2>1. server_next' = server_next
    BY <1>1, <1>4 DEF TakeMeta, ServerSends, AudioIsNext, InStep
  <2> QED
    BY <1>2, <1>3, <1>4, <2>1 DEF TakeMeta
<1>5. CASE KeepAudio(b)
  <2>1. AudioIsNext
    BY <1>5 DEF KeepAudio, InStep, AudioIsNext
  <2>2. b.number = server_next /\ server_next' = server_next + 1
    BY <1>1, <2>1 DEF NextByte, ServerSends, AudioIsNext
  <2>3. temp_buffer' = Append(temp_buffer, server_next) /\ new_len' = new_len
        /\ sections' = sections
    BY <1>5, <2>2 DEF KeepAudio
  <2>4. Len(temp_buffer') = Len(temp_buffer) + 1
    BY <2>3
  <2>5. temp_buffer' = [i \in 1 .. Len(temp_buffer') |-> stored + i]
    BY <1>3, <2>3, <2>4
  <2> QED
    BY <1>2, <1>3, <2>2, <2>3, <2>4, <2>5
<1>6. CASE TakeLength(b)
  <2>1. server_next' = server_next
    BY <1>1, <1>6 DEF TakeLength, ServerSends, AudioIsNext, InStep
  <2>2. b.length = 0 \/ b.length = 1
    BY DEF NextByte
  <2>3. /\ temp_buffer' = temp_buffer
        /\ new_len' = (IF b.length = 0 THEN new_len - 1 ELSE new_len)
        /\ sections' = (IF b.length = 0 THEN sections ELSE sections + 1)
    BY <1>6 DEF TakeLength
  <2>4. new_len' = left' + Len(temp_buffer') + sections'
    <3>1. CASE b.length = 0
      BY <1>2, <1>3, <2>3, <3>1
    <3>2. CASE b.length = 1
      BY <1>2, <1>3, <2>3, <3>2
    <3> QED
      BY <2>2, <3>1, <3>2
  <2>5. temp_buffer' = [i \in 1 .. Len(temp_buffer') |-> stored' + i]
    BY <1>2, <1>3, <2>3
  <2>6. server_next' = stored' + Len(temp_buffer') + 1
    BY <1>2, <1>3, <2>1, <2>3
  <2>7. left' # -1
    BY <1>2
  <2> QED
    BY <1>2, <2>4, <2>5, <2>6, <2>7
<1> QED
  BY <1>1, <1>4, <1>5, <1>6

LEMMA NothingAdded == \A k \in Int : k = k + 0 + 0
  OBVIOUS

LEMMA EmptyPiece ==
  \A k : Len(<<>>) = 0 /\ <<>> = [i \in 1 .. Len(<<>>) |-> k + i]
<1>1. Len(<<>>) = 0 /\ 1 .. 0 = {}
  OBVIOUS
<1>2. \A k : <<>> = [i \in 1 .. 0 |-> k + i]
  BY <1>1
<1> QED
  BY <1>1, <1>2

LEMMA NextPiece ==
  ASSUME IInv, DataOK, TakenInv, [Next]_vars
  PROVE  TakenInv'
<1>1. CASE icy_reset
  BY <1>1 DEF icy_reset, piece, TakenInv, AudioInv, PieceIsAudio, Idle, NoPiece
<1>2. CASE Header
  <2>1. /\ left = -1 /\ left' \in 0 .. MaxPiece /\ new_len' = left'
        /\ temp_buffer' = <<>> /\ sections' = 0 /\ stale' = stale
        /\ stored' = stored /\ server_next' = server_next /\ ~looking_for_header'
    BY <1>2, SizeAssumption DEF Header, Begin, server, Idle, NoPiece
  <2>2. temp_buffer' = [i \in 1 .. Len(temp_buffer') |-> stored' + i] /\ Len(temp_buffer') = 0
    BY <2>1, EmptyPiece
  <2>3. /\ sections' = 0 /\ new_len' = left' + Len(temp_buffer') + sections'
        /\ server_next = stored + 1 => server_next' = stored' + Len(temp_buffer') + 1
    <3>1. left' \in Int /\ stored \in Int
      BY <2>1, SizeAssumption DEF DataOK
    <3>2. Len(temp_buffer') = 0
      BY <2>2
    <3>3. /\ new_len' = left' /\ sections' = 0
          /\ server_next' = server_next /\ stored' = stored
      BY <2>1
    <3>4. new_len' = left' + Len(temp_buffer') + sections'
      BY <3>1, <3>2, <3>3, NothingAdded, Zenon
    <3>5. stored' + Len(temp_buffer') + 1 = stored + 1
      BY <3>1, <3>2, <3>3
    <3> QED
      BY <3>3, <3>4, <3>5
  <2>4. CASE stale
    BY <2>1, <2>4 DEF TakenInv, AudioInv, PieceIsAudio
  <2>5. CASE ~stale
    <3>1. server_next = stored + 1
      BY <2>1, <2>5 DEF TakenInv, AudioInv, Idle, NoPiece
    <3>2. left' # -1
      BY <2>1, SizeAssumption
    <3> QED
      BY <2>1, <2>2, <2>3, <3>1, <3>2 DEF TakenInv, AudioInv, PieceIsAudio, Idle, NoPiece
  <2> QED
    BY <2>4, <2>5
<1>3. CASE Receive
  <2>1. /\ left = -1 /\ left' \in 1 .. MaxPiece /\ new_len' = left'
        /\ temp_buffer' = <<>> /\ sections' = 0 /\ stale' = stale
        /\ stored' = stored /\ server_next' = server_next
        /\ ~looking_for_header' /\ ~looking_for_header
    BY <1>3, SizeAssumption DEF Receive, Begin, server, Idle, NoPiece
  <2>2. temp_buffer' = [i \in 1 .. Len(temp_buffer') |-> stored' + i] /\ Len(temp_buffer') = 0
    BY <2>1, EmptyPiece
  <2>3. /\ sections' = 0 /\ new_len' = left' + Len(temp_buffer') + sections'
        /\ server_next = stored + 1 => server_next' = stored' + Len(temp_buffer') + 1
    <3>1. left' \in Int /\ stored \in Int
      BY <2>1, SizeAssumption DEF DataOK
    <3>2. Len(temp_buffer') = 0
      BY <2>2
    <3>3. /\ new_len' = left' /\ sections' = 0
          /\ server_next' = server_next /\ stored' = stored
      BY <2>1
    <3>4. new_len' = left' + Len(temp_buffer') + sections'
      BY <3>1, <3>2, <3>3, NothingAdded, Zenon
    <3>5. stored' + Len(temp_buffer') + 1 = stored + 1
      BY <3>1, <3>2, <3>3
    <3> QED
      BY <3>3, <3>4, <3>5
  <2>4. CASE stale
    BY <2>1, <2>4 DEF TakenInv, AudioInv, PieceIsAudio
  <2>5. CASE ~stale
    <3>1. server_next = stored + 1
      BY <2>1, <2>5 DEF TakenInv, AudioInv, Idle, NoPiece
    <3>2. left' # -1
      BY <2>1, SizeAssumption
    <3> QED
      BY <2>1, <2>2, <2>3, <3>1, <3>2 DEF TakenInv, AudioInv, PieceIsAudio, Idle, NoPiece
  <2> QED
    BY <2>4, <2>5
<1>4. CASE ParseByte
  BY <1>4, BytePiece
<1>5. CASE Store
  <2>1. /\ left = 0 /\ left' = -1 /\ stored' = stored + Len(temp_buffer)
        /\ server_next' = server_next /\ stale' = stale
        /\ looking_for_header' = looking_for_header
    BY <1>5 DEF Store, server, NoPiece
  <2>2. ~looking_for_header
    BY <2>1 DEF IInv, DemuxOK, Idle, NoPiece
  <2> QED
    BY <2>1, <2>2 DEF DataOK, TakenInv, AudioInv, PieceIsAudio, Idle, NoPiece
<1>6. CASE GetBuffer
  BY <1>6 DEF GetBuffer, piece, server, TakenInv, AudioInv, PieceIsAudio, Idle, NoPiece
<1>7. CASE UNCHANGED vars
  BY <1>7 DEF vars, piece, server, TakenInv, AudioInv, PieceIsAudio, Idle, NoPiece
<1> QED
  BY <1>1, <1>2, <1>3, <1>4, <1>5, <1>6, <1>7 DEF Next

(* However the stream is cut, what parse_metaint keeps of a piece is all of*)
(* the audio in it, in order, and new_len is too long by one byte for every*)
(* section that began in it.                                               *)
THEOREM AudioIsKept == Spec => []PieceIsAudio
<1>1. Init => TakenInv
  BY DEF Init, TakenInv, AudioInv, PieceIsAudio, Idle, NoPiece
<1>2. Init => DataOK
  BY InitData
<1>3. IInv /\ DataOK /\ [Next]_vars => DataOK'
  BY NextData
<1>4. IInv /\ DataOK /\ TakenInv /\ [Next]_vars => TakenInv'
  BY NextPiece
<1> QED
  BY <1>1, <1>2, <1>3, <1>4, Invariance, PTL DEF Spec, TakenInv
-----------------------------------------------------------------------------
(* What lies ahead of the reader, cell by cell from last_chunk.            *)
Cell(k) == IF last_chunk + k - 1 < BufferSize THEN last_chunk + k - 1
                                              ELSE last_chunk + k - 1 - BufferSize
Ahead == [k \in 1 .. BufferSize |-> buffer[Cell(k)]]

(* The bytes from i to j hold the audio from first to last - 1, in order,  *)
(* and strays, none of which is above zero.                                *)
Carries(bytes, i, j, first, last) ==
  /\ \A k, l \in i .. j : bytes[k] > 0 /\ bytes[l] > 0 /\ k < l => bytes[k] < bytes[l]
  /\ \A k \in i .. j : bytes[k] > 0 => bytes[k] \in first .. last - 1
  /\ \A v \in first .. last - 1 : \E k \in i .. j : bytes[k] > 0 /\ bytes[k] = v

(* Up to the writer it is what was stored and not handed out.              *)
AheadInv ==
  ~broken /\ ~stale => due <= stored + 1 /\ Carries(Ahead, 1, unread, due, stored + 1)

(* The same bytes elsewhere.                                               *)
LEMMA CarriesMove ==
  ASSUME NEW u, NEW w, NEW i \in Int, NEW j \in Int, NEW d \in Int,
         NEW a \in Nat, NEW b \in Nat,
         Carries(u, i + d, j + d, a, b), \A k \in i .. j : w[k] = u[k + d]
  PROVE  Carries(w, i, j, a, b)
<1>1. \A k \in i .. j : k + d \in i + d .. j + d /\ w[k] = u[k + d]
  OBVIOUS
<1>2. \A k \in i + d .. j + d : k - d \in i .. j /\ w[k - d] = u[k]
  OBVIOUS
<1>3. ASSUME NEW k \in i .. j, NEW l \in i .. j, w[k] > 0, w[l] > 0, k < l
      PROVE  w[k] < w[l]
  <2>1. k + d < l + d
    BY <1>3
  <2> QED
    BY <1>1, <1>3, <2>1 DEF Carries
<1>4. ASSUME NEW k \in i .. j, w[k] > 0 PROVE w[k] \in a .. b - 1
  BY <1>1, <1>4 DEF Carries
<1>5. ASSUME NEW v \in a .. b - 1 PROVE \E k \in i .. j : w[k] > 0 /\ w[k] = v
  <2>1. PICK k \in i + d .. j + d : u[k] > 0 /\ u[k] = v
    BY DEF Carries
  <2> QED
    BY <1>2, <2>1
<1> QED
  BY <1>3, <1>4, <1>5 DEF Carries

(* Bytes behind bytes.                                                     *)
LEMMA CarriesJoin ==
  ASSUME NEW u, NEW i \in Int, NEW m \in Int, NEW j \in Int, i <= m + 1, m <= j,
         NEW a \in Nat, NEW b \in Nat, NEW c \in Nat, a <= b, b <= c,
         Carries(u, i, m, a, b), Carries(u, m + 1, j, b, c)
  PROVE  Carries(u, i, j, a, c)
<1>1. \A k \in i .. j : k \in i .. m \/ k \in m + 1 .. j
  OBVIOUS
<1>2. \A k \in i .. m : k \in i .. j
  OBVIOUS
<1>3. \A k \in m + 1 .. j : k \in i .. j
  OBVIOUS
<1>4. \A k \in i .. m : u[k] > 0 => u[k] \in a .. b - 1
  BY DEF Carries
<1>5. \A k \in m + 1 .. j : u[k] > 0 => u[k] \in b .. c - 1
  BY DEF Carries
<1>6. ASSUME NEW k \in i .. j, u[k] > 0 PROVE u[k] \in a .. c - 1
  <2>1. CASE k \in i .. m
    <3>1. u[k] \in a .. b - 1
      BY <1>4, <1>6, <2>1
    <3> QED
      BY <3>1
  <2>2. CASE k \in m + 1 .. j
    <3>1. u[k] \in b .. c - 1
      BY <1>5, <1>6, <2>2
    <3> QED
      BY <3>1
  <2> QED
    BY <1>1, <2>1, <2>2
<1>7. ASSUME NEW v \in a .. c - 1 PROVE \E k \in i .. j : u[k] > 0 /\ u[k] = v
  <2>1. CASE v < b
    <3>1. v \in a .. b - 1
      BY <2>1
    <3>2. PICK k \in i .. m : u[k] > 0 /\ u[k] = v
      BY <3>1 DEF Carries
    <3> QED
      BY <1>2, <3>2
  <2>2. CASE v >= b
    <3>1. v \in b .. c - 1
      BY <2>2
    <3>2. PICK k \in m + 1 .. j : u[k] > 0 /\ u[k] = v
      BY <3>1 DEF Carries
    <3> QED
      BY <1>3, <3>2
  <2> QED
    BY <2>1, <2>2
<1>8. ASSUME NEW k \in i .. j, NEW l \in i .. j, u[k] > 0, u[l] > 0, k < l
      PROVE  u[k] < u[l]
  <2>1. CASE k \in i .. m /\ l \in i .. m
    BY <1>8, <2>1 DEF Carries
  <2>2. CASE k \in m + 1 .. j /\ l \in m + 1 .. j
    BY <1>8, <2>2 DEF Carries
  <2>3. CASE k \in i .. m /\ l \in m + 1 .. j
    <3>1. u[k] \in a .. b - 1 /\ u[l] \in b .. c - 1
      BY <1>4, <1>5, <1>8, <2>3
    <3> QED
      BY <3>1
  <2>4. ~(k \in m + 1 .. j /\ l \in i .. m)
    BY <1>8
  <2> QED
    BY <1>1, <2>1, <2>2, <2>3, <2>4
<1> QED
  BY <1>6, <1>7, <1>8 DEF Carries

(* A set of numbers that is not empty has a least one.                     *)
LEMMA Least ==
  ASSUME NEW S, S \subseteq Nat, S # {}
  PROVE  \E m \in S : \A k \in S : m <= k
<1> DEFINE R == {ss \in Nat \X Nat : ss[1] < ss[2]}
<1>1. IsWellFoundedOn(R, Nat)
  BY NatLessThanWellFounded DEF OpToRel
<1>2. PICK m \in S : \A k \in S : ~(<<k, m>> \in R)
  <2> HIDE DEF R
  <2> QED
    BY <1>1, WFMin
<1>3. ASSUME NEW k \in S PROVE m <= k
  <2>1. m \in Nat /\ k \in Nat
    OBVIOUS
  <2>2. ~(k < m)
    BY <1>2, <2>1
  <2> QED
    BY <2>1, <2>2
<1> QED
  BY <1>3

(* Where the bytes part, the numbers do.                                   *)
LEMMA CarriesSplit ==
  ASSUME NEW u, NEW i \in Int, NEW m \in Int, NEW j \in Int, i <= m + 1, m <= j,
         NEW a \in Nat, NEW c \in Nat, a <= c, Carries(u, i, j, a, c)
  PROVE  \E b \in a .. c : Carries(u, i, m, a, b) /\ Carries(u, m + 1, j, b, c)
<1> DEFINE X == {v \in a .. c : v = c \/ \E k \in m + 1 .. j : u[k] > 0 /\ u[k] = v}
<1>1. PICK b \in X : \A v \in X : b <= v
  <2>1. X \subseteq Nat /\ c \in X
    OBVIOUS
  <2> HIDE DEF X
  <2> QED
    BY <2>1, Least
<1>2. b \in a .. c /\ (b = c \/ \E k \in m + 1 .. j : u[k] > 0 /\ u[k] = b)
  OBVIOUS
<1>3. \A k \in i .. m : k \in i .. j
  OBVIOUS
<1>4. \A k \in m + 1 .. j : k \in i .. j
  OBVIOUS
<1>5. \A k \in i .. j : u[k] > 0 => u[k] \in a .. c - 1
  BY DEF Carries
<1>6. ASSUME NEW k \in m + 1 .. j, u[k] > 0 PROVE u[k] \in b .. c - 1
  <2>1. u[k] \in a .. c - 1
    BY <1>4, <1>5, <1>6
  <2>2. u[k] \in a .. c
    BY <2>1
  <2>3. u[k] \in X
    BY <1>6, <2>2
  <2>4. b <= u[k]
    BY <1>1, <2>3
  <2> QED
    BY <1>2, <2>1, <2>4
<1> HIDE DEF X
<1>7. ASSUME NEW k \in i .. m, u[k] > 0 PROVE u[k] \in a .. b - 1
  <2>1. u[k] \in a .. c - 1
    BY <1>3, <1>5, <1>7
  <2>2. CASE b = c
    BY <2>1, <2>2
  <2>3. CASE \E l \in m + 1 .. j : u[l] > 0 /\ u[l] = b
    <3>1. PICK l \in m + 1 .. j : u[l] > 0 /\ u[l] = b
      BY <2>3
    <3>2. k < l
      OBVIOUS
    <3>3. u[k] < b
      BY <1>3, <1>4, <1>7, <3>1, <3>2 DEF Carries
    <3> QED
      BY <1>2, <2>1, <3>3
  <2> QED
    BY <1>2, <2>2, <2>3
<1>8. ASSUME NEW v \in a .. b - 1 PROVE \E k \in i .. m : u[k] > 0 /\ u[k] = v
  <2>1. v \in a .. c - 1
    BY <1>2
  <2>2. PICK k \in i .. j : u[k] > 0 /\ u[k] = v
    BY <2>1 DEF Carries
  <2>3. ASSUME k \in m + 1 .. j PROVE FALSE
    <3>1. v \in b .. c - 1
      BY <1>6, <2>2, <2>3
    <3> QED
      BY <1>2, <3>1
  <2>4. k \in i .. m
    BY <2>3
  <2> QED
    BY <2>2, <2>4
<1>9. ASSUME NEW v \in b .. c - 1 PROVE \E k \in m + 1 .. j : u[k] > 0 /\ u[k] = v
  <2>1. v \in a .. c - 1
    BY <1>2
  <2>2. PICK k \in i .. j : u[k] > 0 /\ u[k] = v
    BY <2>1 DEF Carries
  <2>3. ASSUME k \in i .. m PROVE FALSE
    <3>1. v \in a .. b - 1
      BY <1>7, <2>2, <2>3
    <3> QED
      BY <1>2, <3>1
  <2>4. k \in m + 1 .. j
    BY <2>3
  <2> QED
    BY <2>2, <2>4
<1>10. /\ \A k, l \in i .. m : u[k] > 0 /\ u[l] > 0 /\ k < l => u[k] < u[l]
       /\ \A k, l \in m + 1 .. j : u[k] > 0 /\ u[l] > 0 /\ k < l => u[k] < u[l]
  BY <1>3, <1>4 DEF Carries
<1>11. Carries(u, i, m, a, b) /\ Carries(u, m + 1, j, b, c)
  BY <1>6, <1>7, <1>8, <1>9, <1>10 DEF Carries
<1> QED
  BY <1>2, <1>11

(* As many numbers as there are bytes of audio.                            *)
LEMMA CarriesCount ==
  ASSUME NEW n \in Nat, NEW s \in [1 .. n -> Int], NEW a \in Nat, NEW b \in Nat, a <= b,
         Carries(s, 1, n, a, b)
  PROVE  /\ {s[k] : k \in Audio(s)} = a .. b - 1
         /\ Cardinality(Audio(s)) = b - a
<1> DEFINE f == [k \in Audio(s) |-> s[k]]
<1>1. IsFiniteSet(Audio(s))
  <2>1. IsFiniteSet(1 .. n) /\ Audio(s) \subseteq 1 .. n
    BY FS_Interval DEF Audio
  <2> QED
    BY <2>1, FS_Subset
<1>2. \A k \in Audio(s) : k \in 1 .. n /\ s[k] > 0
  BY DEF Audio
<1>3. \A v \in a .. b - 1 : \E k \in Audio(s) : s[k] = v
  BY DEF Carries, Audio
<1>4. \A k \in Audio(s) : s[k] \in a .. b - 1
  BY <1>2 DEF Carries
<1>5. \A k, l \in Audio(s) : s[k] = s[l] => k = l
  <2> SUFFICES ASSUME NEW k \in Audio(s), NEW l \in Audio(s), s[k] = s[l] PROVE k = l
    OBVIOUS
  <2>1. ~(k < l) /\ ~(l < k)
    BY <1>2 DEF Carries
  <2> QED
    BY <1>2, <2>1
<1>6. f \in Bijection(Audio(s), a .. b - 1)
  <2>1. f \in [Audio(s) -> a .. b - 1]
    BY <1>4
  <2>2. \A v \in a .. b - 1 : \E k \in Audio(s) : f[k] = v
    BY <1>3
  <2>3. \A k, l \in Audio(s) : f[k] = f[l] => k = l
    BY <1>5
  <2> HIDE DEF f
  <2>4. f \in Injection(Audio(s), a .. b - 1)
    BY <2>1, <2>3 DEF Injection, IsInjective
  <2>5. f \in Surjection(Audio(s), a .. b - 1)
    BY <2>1, <2>2 DEF Surjection
  <2> QED
    BY <2>4, <2>5 DEF Bijection
<1>7. Cardinality(a .. b - 1) = b - a
  BY FS_Interval
<1>8. Cardinality(Audio(s)) = b - a
  BY <1>1, <1>6, <1>7, FS_Bijection DEF ExistsBijection
<1> QED
  BY <1>3, <1>4, <1>8

(* Storing leaves what lies ahead, and puts the piece behind it.           *)
LEMMA StoreAhead ==
  ASSUME IInv, DataOK, Store, ~broken'
  PROVE  /\ \A k \in 1 .. unread : Ahead'[k] = Ahead[k]
         /\ \A k \in 1 .. new_len : Ahead'[unread + k] = ToStore[k]
<1> USE SizeAssumption DEF IInv, PieceOK, RingOK, IndicesAgree, Cells
<1>1. /\ ~broken /\ ~(unread + new_len > BufferSize)
      /\ last_chunk' = last_chunk /\ unread' = unread + new_len
  BY Zenon DEF Store
<1>2. \A c \in Cells :
        buffer'[c] = IF c >= buffered /\ c - buffered < new_len
                       THEN ToStore[c - buffered + 1]
                     ELSE IF c < buffered + new_len - BufferSize
                       THEN ToStore[BufferSize - buffered + c + 1]
                     ELSE buffer[c]
  BY DEF Store
<1>3. \A k \in 1 .. BufferSize : Cell(k) \in Cells
  BY DEF Cell
<1>4. \A k \in 1 .. BufferSize : Ahead[k] = buffer[Cell(k)]
  BY DEF Ahead
<1>5. \A k \in 1 .. BufferSize : Ahead'[k] = buffer'[Cell(k)]
  BY <1>1 DEF Ahead, Cell
<1>6. new_len \in 0 .. MaxPiece /\ unread \in 0 .. BufferSize
  BY <1>1
<1>7. ASSUME NEW k \in 1 .. unread PROVE Ahead'[k] = Ahead[k]
  <2>1. k \in 1 .. BufferSize
    BY <1>6
  <2>2. /\ ~(Cell(k) >= buffered /\ Cell(k) - buffered < new_len)
        /\ ~(Cell(k) < buffered + new_len - BufferSize)
    BY <1>1, <1>6 DEF Cell
  <2>3. buffer'[Cell(k)] = buffer[Cell(k)]
    BY <1>2, <1>3, <2>1, <2>2
  <2> QED
    BY <1>4, <1>5, <2>1, <2>3
<1>8. ASSUME NEW k \in 1 .. new_len PROVE Ahead'[unread + k] = ToStore[k]
  <2> DEFINE c == Cell(unread + k)
  <2>1. unread + k \in 1 .. BufferSize
    BY <1>1, <1>6
  <2>2. c \in Cells
    BY <1>3, <2>1
  <2>3. \/ c >= buffered /\ c - buffered < new_len /\ c - buffered + 1 = k
        \/ /\ ~(c >= buffered /\ c - buffered < new_len)
           /\ c < buffered + new_len - BufferSize
           /\ BufferSize - buffered + c + 1 = k
    BY <1>1, <1>6 DEF Cell
  <2> HIDE DEF c
  <2>4. buffer'[c] = ToStore[k]
    BY <1>2, <2>2, <2>3
  <2> QED
    BY <1>5, <2>1, <2>4 DEF c
<1> QED
  BY <1>7, <1>8

(* What is stored are the next numbers.                                    *)
LEMMA ToStoreCarries ==
  ASSUME IInv, DataOK, TakenInv, Store, ~stale
  PROVE  /\ Len(temp_buffer) \in 0 .. new_len
         /\ Carries(ToStore, 1, new_len, stored + 1, stored + Len(temp_buffer) + 1)
<1> USE DEF IInv, PieceOK, DataOK
<1>1. left = 0
  BY DEF Store
<1>2. /\ temp_buffer = [i \in 1 .. Len(temp_buffer) |-> stored + i]
      /\ new_len = Len(temp_buffer) + sections
  BY <1>1 DEF TakenInv, PieceIsAudio, Idle, NoPiece
<1>3. /\ Len(temp_buffer) \in 0 .. new_len
      /\ \A i \in 1 .. Len(temp_buffer) : temp_buffer[i] = stored + i
  BY <1>2
<1>4. \A i \in 1 .. new_len :
        /\ ToStore[i] \in Int
        /\ i <= Len(temp_buffer) => ToStore[i] = stored + i
        /\ i > Len(temp_buffer)  => ToStore[i] <= 0
  <2>1. new_len <= Len(net_buffer) /\ new_len \in Nat
    BY <1>1 DEF Idle, NoPiece
  <2>2. Len(temp_buffer) \in Nat
    OBVIOUS
  <2> QED
    BY <1>3, <2>1, <2>2, ToStoreType
<1> DEFINE kept == Len(temp_buffer)
<1>5. kept \in 0 .. new_len /\ stored \in Nat /\ new_len \in Nat
  BY <1>3
<1>6. \A k \in 1 .. new_len :
        /\ ToStore[k] \in Int
        /\ k <= kept => ToStore[k] = stored + k
        /\ ~(k <= kept) => ~(ToStore[k] > 0)
  <2> SUFFICES ASSUME NEW k \in 1 .. new_len
               PROVE  /\ ToStore[k] \in Int
                      /\ k <= kept => ToStore[k] = stored + k
                      /\ ~(k <= kept) => ~(ToStore[k] > 0)
    OBVIOUS
  <2>1. CASE k <= kept
    BY <1>4, <2>1
  <2>2. CASE k > kept
    BY <1>4, <2>2
  <2>3. k <= kept \/ k > kept
    BY <1>5
  <2> QED
    BY <1>4, <1>5, <2>1, <2>2, <2>3
<1> HIDE DEF kept, IInv, PieceOK, DataOK
<1>7. \A k \in 1 .. kept : k \in 1 .. new_len /\ ToStore[k] = stored + k
  BY <1>5, <1>6
<1> DEFINE first == stored + 1
           last == stored + kept + 1
<1>8. ASSUME NEW v \in first .. last - 1
      PROVE  \E k \in 1 .. new_len : ToStore[k] > 0 /\ ToStore[k] = v
  <2>1. v - stored \in 1 .. kept /\ v > 0 /\ stored + (v - stored) = v
    BY <1>5
  <2>2. v - stored \in 1 .. new_len /\ ToStore[v - stored] = v
    BY <1>7, <2>1
  <2> QED
    BY <2>1, <2>2
<1>9. /\ \A k, l \in 1 .. new_len :
           ToStore[k] > 0 /\ ToStore[l] > 0 /\ k < l => ToStore[k] < ToStore[l]
      /\ \A k \in 1 .. new_len : ToStore[k] > 0 => ToStore[k] \in first .. last - 1
  BY <1>5, <1>6
<1>10. Carries(ToStore, 1, new_len, first, last)
  <2> HIDE DEF first, last
  <2> QED
    BY <1>8, <1>9, Zenon DEF Carries
<1> QED
  BY <1>5, <1>10 DEF kept

LEMMA StoreInOrder ==
  ASSUME IInv, DataOK, TakenInv, AheadInv, Store
  PROVE  AheadInv'
<1> SUFFICES ASSUME ~broken', ~stale
             PROVE  due' <= stored' + 1 /\ Carries(Ahead', 1, unread', due', stored' + 1)
  BY DEF AheadInv, Carries, Store
<1> USE DEF IInv, PieceOK, RingOK, DataOK
<1>1. /\ ~broken /\ unread' = unread + new_len /\ due' = due
      /\ stored' = stored + Len(temp_buffer)
  BY Zenon DEF Store
<1>2. due <= stored + 1 /\ Carries(Ahead, 1, unread, due, stored + 1)
  BY <1>1 DEF AheadInv
<1>3. /\ Len(temp_buffer) \in 0 .. new_len
      /\ Carries(ToStore, 1, new_len, stored + 1, stored + Len(temp_buffer) + 1)
  BY ToStoreCarries
<1>4. /\ \A k \in 1 .. unread : Ahead'[k] = Ahead[k]
      /\ \A k \in 1 .. new_len : Ahead'[unread + k] = ToStore[k]
  BY StoreAhead
<1>5. unread \in Nat /\ new_len \in Nat
  BY <1>1
<1>6. Carries(Ahead', 1, unread, due, stored + 1)
  BY <1>2, <1>4, <1>5 DEF Carries
<1>7. Carries(Ahead', unread + 1, unread + new_len, stored + 1, stored + Len(temp_buffer) + 1)
  <2> DEFINE w == Ahead'
             d == -unread
             i == unread + 1
             j == unread + new_len
             a == stored + 1
             b == stored + Len(temp_buffer) + 1
  <2>1. \A k \in i .. j : w[k] = ToStore[k + d]
    <3> SUFFICES ASSUME NEW k \in i .. j
                 PROVE  w[k] = ToStore[k + d]
      OBVIOUS
    <3>1. k - unread \in 1 .. new_len /\ unread + (k - unread) = k /\ k + d = k - unread
      BY <1>5
    <3> QED
      BY <1>4, <3>1
  <2>2. /\ i + d = 1 /\ j + d = new_len /\ d \in Int /\ i \in Int /\ j \in Int
        /\ a \in Nat /\ b \in Nat
    BY <1>3, <1>5
  <2>3. Carries(ToStore, 1, new_len, a, b)
    BY <1>3
  <2> HIDE DEF w, d, i, j, a, b
  <2>4. Carries(ToStore, i + d, j + d, a, b)
    BY <2>2, <2>3
  <2>5. Carries(w, i, j, a, b)
    BY <2>1, <2>2, <2>4, CarriesMove
  <2> QED
    BY <2>5 DEF w, i, j, a, b
<1>8. Carries(Ahead', 1, unread + new_len, due, stored + Len(temp_buffer) + 1)
  <2> DEFINE w == Ahead'
  <2>1. /\ 1 <= unread + 1 /\ unread <= unread + new_len
        /\ due <= stored + 1 /\ stored + 1 <= stored + Len(temp_buffer) + 1
        /\ unread + new_len \in Int /\ stored + 1 \in Nat
        /\ stored + Len(temp_buffer) + 1 \in Nat
    BY <1>2, <1>3, <1>5
  <2>2. Carries(w, 1, unread, due, stored + 1)
    BY <1>6
  <2>3. Carries(w, unread + 1, unread + new_len, stored + 1, stored + Len(temp_buffer) + 1)
    BY <1>7
  <2> HIDE DEF w
  <2>4. Carries(w, 1, unread + new_len, due, stored + Len(temp_buffer) + 1)
    BY <1>5, <2>1, <2>2, <2>3, CarriesJoin
  <2> QED
    BY <2>4 DEF w
<1>9. stored' + 1 = stored + Len(temp_buffer) + 1
  BY <1>1, <1>3
<1> QED
  BY <1>1, <1>2, <1>3, <1>8, <1>9

(* What get_buffer returns while the two sides agree.                      *)
GetsWhatIsDue ==
  /\ \A i, j \in Audio(cbuf') : i < j => cbuf'[i] < cbuf'[j]
  /\ {cbuf'[i] : i \in Audio(cbuf')} = due .. due + Cardinality(Audio(cbuf')) - 1

(* Handing out takes from what lies ahead, and the rest moves up.          *)
LEMMA HandOutAhead ==
  ASSUME IInv, DataOK, NEW n \in 0 .. BufferSize - last_chunk, HandOut(n), ~broken',
         buffer' = buffer,
         \/ last_chunk' = last_chunk + n
         \/ last_chunk' = 0 /\ n = BufferSize - last_chunk
  PROVE  /\ n <= unread
         /\ cbuf' \in [1 .. n -> Int]
         /\ \A k \in 1 .. n : cbuf'[k] = Ahead[k]
         /\ \A k \in 1 .. unread - n : Ahead'[k] = Ahead[k + n]
<1> USE SizeAssumption DEF IInv, RingOK, DataOK, Cells
<1>1. ~broken /\ ~(n > unread)
  BY Zenon DEF HandOut
<1>2. n <= unread /\ unread \in 0 .. BufferSize
  BY <1>1
<1>3. \A k \in 1 .. BufferSize : Ahead[k] = buffer[Cell(k)]
  BY DEF Ahead
<1>4. \A k \in 1 .. n : k \in 1 .. BufferSize /\ last_chunk + k - 1 \in Cells
                        /\ Cell(k) = last_chunk + k - 1
  BY <1>2 DEF Cell
<1>5. cbuf' \in [1 .. n -> Int] /\ \A k \in 1 .. n : cbuf'[k] = buffer[last_chunk + k - 1]
  BY <1>4 DEF HandOut
<1>6. ASSUME NEW k \in 1 .. unread - n PROVE Ahead'[k] = Ahead[k + n]
  <2> DEFINE c == IF last_chunk' + k - 1 < BufferSize THEN last_chunk' + k - 1
                                                      ELSE last_chunk' + k - 1 - BufferSize
  <2>1. k \in 1 .. BufferSize /\ k + n \in 1 .. BufferSize
    BY <1>2
  <2>2. c = Cell(k + n)
    BY <1>2, <2>1 DEF Cell
  <2>3. Ahead'[k] = buffer'[c]
    BY <2>1 DEF Ahead, Cell
  <2> QED
    BY <1>3, <2>1, <2>2, <2>3
<1> QED
  BY <1>2, <1>3, <1>4, <1>5, <1>6

LEMMA HandOutInOrder ==
  ASSUME IInv, DataOK, AheadInv, ~stale,
         NEW n \in 0 .. BufferSize - last_chunk, HandOut(n), ~broken',
         buffer' = buffer,
         \/ last_chunk' = last_chunk + n
         \/ last_chunk' = 0 /\ n = BufferSize - last_chunk
  PROVE  /\ GetsWhatIsDue
         /\ due' <= stored + 1 /\ Carries(Ahead', 1, unread', due', stored + 1)
<1>0. unread \in Int /\ due \in Nat /\ stored \in Nat
  BY DEF IInv, RingOK, DataOK
<1>1. ~broken /\ unread' = unread - n
  BY Zenon DEF HandOut
<1>2. due <= stored + 1 /\ Carries(Ahead, 1, unread, due, stored + 1)
  BY <1>1 DEF AheadInv
<1>3. /\ n \in Nat /\ n <= unread
      /\ cbuf' \in [1 .. n -> Int]
      /\ \A k \in 1 .. n : cbuf'[k] = Ahead[k]
      /\ \A k \in 1 .. unread - n : Ahead'[k] = Ahead[k + n]
  BY HandOutAhead
<1>4. PICK b \in due .. stored + 1 : /\ Carries(Ahead, 1, n, due, b)
                                     /\ Carries(Ahead, n + 1, unread, b, stored + 1)
  <2> DEFINE c == stored + 1
  <2>1. /\ n \in Int /\ unread \in Int /\ 1 <= n + 1 /\ n <= unread
        /\ due <= c /\ c \in Nat
    BY <1>0, <1>3, <1>2
  <2>2. Carries(Ahead, 1, unread, due, c)
    BY <1>2
  <2> HIDE DEF c
  <2>3. \E b \in due .. c : Carries(Ahead, 1, n, due, b) /\ Carries(Ahead, n + 1, unread, b, c)
    BY <1>0, <2>1, <2>2, CarriesSplit
  <2> QED
    BY <2>3 DEF c
<1>5. b \in Nat /\ due <= b /\ b <= stored + 1
  BY <1>0
<1>6. Carries(cbuf', 1, n, due, b)
  BY <1>3, <1>4 DEF Carries
<1>7. /\ {cbuf'[k] : k \in Audio(cbuf')} = due .. b - 1
      /\ Cardinality(Audio(cbuf')) = b - due
  <2> DEFINE s == cbuf'
  <2>1. s \in [1 .. n -> Int] /\ Carries(s, 1, n, due, b)
    BY <1>3, <1>6
  <2> HIDE DEF s
  <2>2. {s[k] : k \in Audio(s)} = due .. b - 1 /\ Cardinality(Audio(s)) = b - due
    <3>1. n \in Nat /\ due \in Nat /\ b \in Nat /\ due <= b
      BY <1>0, <1>3, <1>5
    <3> QED
      BY <2>1, <3>1, CarriesCount, SMTT(60)
  <2> QED
    BY <2>2 DEF s
<1>8. due' = b
  BY <1>0, <1>5, <1>7 DEF HandOut
<1>9. GetsWhatIsDue
  <2>1. \A i, j \in Audio(cbuf') : i < j => cbuf'[i] < cbuf'[j]
    BY <1>3, <1>6 DEF Carries, Audio
  <2>2. due + Cardinality(Audio(cbuf')) - 1 = b - 1
    BY <1>0, <1>5, <1>7
  <2> QED
    BY <1>7, <2>1, <2>2 DEF GetsWhatIsDue
<1>10. Carries(Ahead', 1, unread - n, b, stored + 1)
  <2> DEFINE w == Ahead'
             i == 1
             j == unread - n
             c == stored + 1
  <2>1. /\ j + n = unread /\ i + n = n + 1 /\ i \in Int /\ j \in Int /\ n \in Int /\ c \in Nat
        /\ Carries(Ahead, n + 1, unread, b, c) /\ \A k \in i .. j : w[k] = Ahead[k + n]
    BY <1>0, <1>1, <1>3, <1>4
  <2> HIDE DEF w, i, j, c
  <2>2. Carries(Ahead, i + n, j + n, b, c)
    BY <2>1
  <2>3. Carries(w, i, j, b, c)
    BY <1>5, <2>1, <2>2, CarriesMove
  <2> QED
    BY <2>3 DEF w, i, j, c
<1> QED
  BY <1>1, <1>5, <1>8, <1>9, <1>10

LEMMA NothingAhead == unread' = 0 /\ due' = stored' + 1 /\ stored' \in Nat => AheadInv'
<1>1. unread' = 0 => \A i \in 1 .. unread' : FALSE
  OBVIOUS
<1>2. \A d, s \in Int : d = s + 1 => d <= s + 1 /\ \A v \in d .. (s + 1) - 1 : FALSE
  OBVIOUS
<1>3. due' = stored' + 1 /\ stored' \in Nat => due' \in Int /\ stored' \in Int
  OBVIOUS
<1> QED
  BY <1>1, <1>2, <1>3, Zenon DEF AheadInv, Carries

LEMMA ReadInOrder ==
  ASSUME IInv, DataOK, AheadInv, GetBuffer
  PROVE  AheadInv' /\ (~stale /\ ~broken' => GetsWhatIsDue)
<1> USE SizeAssumption, ChunkAssumption DEF IInv, RingOK, DataOK
<1>1. PICK len \in 1 .. BufferChunk :
        IF last_chunk + len > BufferSize THEN ToTheEnd
        ELSE IF RunDry(len) THEN Rebuffer
        ELSE Chunk(len)
  BY DEF GetBuffer
<1>2. stored' = stored /\ stale' = stale
  BY DEF GetBuffer
<1>3. CASE Rebuffer
  <2>1. cbuf' = <<>> /\ unread' = 0 /\ due' = stored' + 1
    BY <1>2, <1>3 DEF Rebuffer, icy_stream_reset
  <2>2. AheadInv'
    BY <1>2, <2>1, NothingAhead
  <2>3. GetsWhatIsDue
    <3>1. Audio(cbuf') = {}
      BY <2>1 DEF Audio
    <3>2. Cardinality(Audio(cbuf')) = 0
      BY <3>1, FS_EmptySet
    <3> QED
      BY <3>1, <3>2 DEF GetsWhatIsDue
  <2> QED
    BY <2>2, <2>3
<1>4. ASSUME NEW n \in 0 .. BufferSize - last_chunk, HandOut(n),
             buffer' = buffer,
             \/ last_chunk' = last_chunk + n
             \/ last_chunk' = 0 /\ n = BufferSize - last_chunk
      PROVE  AheadInv' /\ (~stale /\ ~broken' => GetsWhatIsDue)
  BY <1>2, <1>4, HandOutInOrder DEF AheadInv
<1>5. CASE ToTheEnd
  <2>1. BufferSize - last_chunk \in 0 .. BufferSize - last_chunk
    OBVIOUS
  <2> QED
    BY <1>4, <1>5, <2>1 DEF ToTheEnd
<1>6. CASE Chunk(len) /\ last_chunk + len <= BufferSize
  <2>1. len \in 0 .. BufferSize - last_chunk
    BY <1>6
  <2>2. HandOut(len) /\ last_chunk' = last_chunk + len /\ buffer' = buffer
    BY <1>6 DEF Chunk
  <2> QED
    BY <1>4, <2>1, <2>2
<1> QED
  BY <1>1, <1>3, <1>5, <1>6

LEMMA NextInOrder ==
  ASSUME IInv, DataOK, TakenInv, AheadInv, [Next]_vars
  PROVE  AheadInv'
<1>1. CASE icy_reset
  BY <1>1, NothingAhead DEF icy_reset, icy_stream_reset
<1>2. CASE Header
  BY <1>2 DEF Header, heard, AheadInv, Carries, Ahead, Cell
<1>3. CASE Receive
  BY <1>3 DEF Receive, ring, heard, AheadInv, Carries, Ahead, Cell
<1>4. CASE ParseByte
  BY <1>4 DEF ParseByte, ring, heard, AheadInv, Carries, Ahead, Cell
<1>5. CASE Store
  BY <1>5, StoreInOrder
<1>6. CASE GetBuffer
  BY <1>6, ReadInOrder
<1>7. CASE UNCHANGED vars
  BY <1>7 DEF vars, ring, heard, AheadInv, Carries, Ahead, Cell
<1> QED
  BY <1>1, <1>2, <1>3, <1>4, <1>5, <1>6, <1>7 DEF Next

(* Whatever the size of the ring and however the pieces and the chunks fall*)
(* in it: until it is overrun the decoder gets the audio in order, without *)
(* a gap and without a repetition.                                         *)
THEOREM HandedOutInOrder == Spec => InOrder
<1>1. Init => DataOK
  BY InitData
<1>2. IInv /\ DataOK /\ [Next]_vars => DataOK'
  BY NextData
<1>3. Init => TakenInv
  BY DEF Init, TakenInv, AudioInv, PieceIsAudio, Idle, NoPiece
<1>4. IInv /\ DataOK /\ TakenInv /\ [Next]_vars => TakenInv'
  BY NextPiece
<1>5. Init => AheadInv
  BY DEF Init, AheadInv, Carries
<1>6. IInv /\ DataOK /\ TakenInv /\ AheadInv /\ [Next]_vars => AheadInv'
  BY NextInOrder
<1>7. IInv /\ DataOK /\ AheadInv /\ [Next]_vars =>
        [GetBuffer /\ ~stale /\ ~broken' =>
           /\ \A i, j \in Audio(cbuf') : i < j => cbuf'[i] < cbuf'[j]
           /\ {cbuf'[i] : i \in Audio(cbuf')} =
                due .. due + Cardinality(Audio(cbuf')) - 1]_vars
  BY ReadInOrder DEF GetsWhatIsDue
<1> QED
  BY <1>1, <1>2, <1>3, <1>4, <1>5, <1>6, <1>7, Invariance, PTL DEF Spec, InOrder
=============================================================================
