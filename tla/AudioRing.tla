------------------------------ MODULE AudioRing ------------------------------
(***************************************************************************)
(* The ring between the decoder thread and the SDL callback (sound_sdl.cpp)*)
(* one sample at a time.  Both sides wrap lazily: an index stays at the end*)
(* of the ring until its owner comes back.  Whether the ring is full or    *)
(* empty is known only from the two totals.  Samples carry their number,   *)
(* as in SampleStream, in place of their value; one sample is one u16 on   *)
(* the writing side, and the two bytes of it on the reading side.          *)
(*                                                                         *)
(* Everything happens under audio_mutex except sound_seek: its writes may  *)
(* fall into a piece of the decoder, and into a callback that SDL had begun*)
(* before it was paused.  When the decoder runs and ends is the business of*)
(* AudioThreads: here it may decode whenever it holds the mutex.           *)
(***************************************************************************)
EXTENDS Integers

CONSTANTS
  Size,        \* AUDIO_BUFFER_SIZE
  Chunk,       \* OUT_BUFFERSIZE, the most that decode2 delivers at once
  MinBuffers,  \* min_buffers
  MixLength,   \* what one call of MixAudio is asked for
  MaxDecoded,  \* bound: how much is decoded in all
  MaxSeeks     \* bound: how often the user seeks

ASSUME ChunkAssumption == Chunk \in Nat \ {0}
ASSUME LowWaterAssumption == MinBuffers \in Nat \ {0}
ASSUME MixAssumption == MixLength \in Nat \ {0}
ASSUME BoundAssumption == MaxDecoded \in Nat /\ MaxSeeks \in Nat
(* 220 * 8192 against 200000 and 8192 in the code.                         *)
ASSUME SizeAssumption == Size \in Nat /\ MinBuffers + Chunk <= Size + 1

VARIABLES
  audio_buffer,                            \* the cells of the ring
  audio_wd, audio_wd_num,                  \* write index, its laps
  audio_rd, audio_rd_num,                  \* read index, its laps
  audio_total_decoded, audio_total_done,   \* samples in and out since the reset
  audio_mutex,                             \* its owner
  chunk,                                   \* size of the piece being stored
  left,                                    \* samples left in the owner's loop
  pending,                                 \* what a seek has still to reset
  seeks,                                   \* seeks begun
  base, sample, torn                       \* history, as in SampleStream

indices == <<audio_wd, audio_wd_num, audio_rd, audio_rd_num>>
totals  == <<audio_total_decoded, audio_total_done>>
loop    == <<chunk, left>>
seek    == <<pending, torn, seeks>>
vars == <<audio_buffer, indices, totals, audio_mutex, loop, seek, base, sample>>

Cells == 0 .. Size - 1
Free == "free"
Waiting == audio_total_decoded - audio_total_done

Init ==
  /\ audio_buffer = [i \in Cells |-> 0]
  /\ audio_wd = 0 /\ audio_wd_num = 0 /\ audio_rd = 0 /\ audio_rd_num = 0
  /\ audio_total_decoded = 0 /\ audio_total_done = 0
  /\ audio_mutex = Free /\ chunk = 0 /\ left = 0
  /\ pending = {} /\ torn = FALSE /\ seeks = 0
  /\ base = 0 /\ sample = 0

-----------------------------------------------------------------------------
(* P(audio_mutex): whoever takes it in the middle of a seek finds a part of*)
(* it done and the rest not.                                               *)
Take(owner) ==
  /\ audio_mutex = Free
  /\ audio_mutex' = owner
  /\ torn' = (torn \/ pending # {})
  /\ UNCHANGED <<pending, seeks>>

(* audio_thread: under audio_mutex, one piece when little is waiting; the  *)
(* difference is unsigned, so one below zero is not little.                *)
Decode ==
  /\ Take("decoder")
  /\ Waiting \in 0 .. MinBuffers - 1
  /\ \E n \in 1 .. Chunk :
       /\ base + audio_total_decoded + n <= MaxDecoded
       /\ chunk' = n /\ left' = n
  /\ UNCHANGED <<audio_buffer, indices, totals, base, sample>>

SoundUpdateStraight == \* mutant of SoundUpdate: the end of the ring is missed by one
  /\ audio_mutex = "decoder" /\ left > 0
  /\ LET wrap == audio_wd > Size
         at   == IF wrap THEN 0 ELSE audio_wd
     IN  /\ audio_buffer' = [audio_buffer EXCEPT
                               ![at] = base + audio_total_decoded + (chunk - left) + 1]
         /\ audio_wd' = at + 1
         /\ audio_wd_num' = IF wrap THEN audio_wd_num + 1 ELSE audio_wd_num
  /\ left' = left - 1
  /\ UNCHANGED <<audio_rd, audio_rd_num, totals, audio_mutex, chunk, seek, base, sample>>

SoundUpdate == \* one round of its loop
  /\ audio_mutex = "decoder" /\ left > 0
  /\ LET wrap == audio_wd >= Size
         at   == IF wrap THEN 0 ELSE audio_wd
     IN  /\ audio_buffer' = [audio_buffer EXCEPT
                               ![at] = base + audio_total_decoded + (chunk - left) + 1]
         /\ audio_wd' = at + 1
         /\ audio_wd_num' = IF wrap THEN audio_wd_num + 1 ELSE audio_wd_num
  /\ left' = left - 1
  /\ UNCHANGED <<audio_rd, audio_rd_num, totals, audio_mutex, chunk, seek, base, sample>>

DecodedWhole == \* mutant of Decoded: OUT_BUFFERSIZE is added, not what was decoded
  /\ audio_mutex = "decoder" /\ left = 0
  /\ audio_total_decoded' = audio_total_decoded + Chunk
  /\ audio_mutex' = Free
  /\ UNCHANGED <<audio_buffer, indices, audio_total_done, loop, seek, base, sample>>

Decoded ==
  /\ audio_mutex = "decoder" /\ left = 0
  /\ audio_total_decoded' = audio_total_decoded + chunk
  /\ audio_mutex' = Free
  /\ UNCHANGED <<audio_buffer, indices, audio_total_done, loop, seek, base, sample>>

-----------------------------------------------------------------------------
(* MixAudio: nothing before min_buffers were decoded.  The test at the wrap*)
(* (audio_wd < 0, unsigned) is never true and has no action.               *)
MixAudio ==
  /\ Take("mixer")
  /\ audio_total_decoded >= MinBuffers
  /\ left' = MixLength
  /\ UNCHANGED <<audio_buffer, indices, totals, chunk, base, sample>>

MixWrap ==
  audio_rd_num' = IF audio_rd >= Size THEN audio_rd_num + 1 ELSE audio_rd_num

MixSample ==
  /\ audio_mutex = "mixer" /\ left > 0
  /\ audio_total_decoded > audio_total_done
  /\ MixWrap
  /\ LET at == IF audio_rd >= Size THEN 0 ELSE audio_rd
     IN  /\ sample' = audio_buffer[at]
         /\ audio_buffer' = [audio_buffer EXCEPT ![at] = 0]
         /\ audio_rd' = at + 1
  /\ audio_total_done' = audio_total_done + 1
  /\ left' = left - 1
  /\ UNCHANGED <<audio_wd, audio_wd_num, audio_total_decoded, audio_mutex, chunk,
                 seek, base>>

MixDry == \* dev->done: nothing is left; the index has wrapped all the same
  /\ audio_mutex = "mixer" /\ left > 0
  /\ audio_total_decoded <= audio_total_done
  /\ MixWrap
  /\ audio_rd' = IF audio_rd >= Size THEN 0 ELSE audio_rd
  /\ audio_mutex' = Free
  /\ UNCHANGED <<audio_buffer, audio_wd, audio_wd_num, totals, loop, seek, base, sample>>

MixEnd ==
  /\ audio_mutex = "mixer" /\ left = 0
  /\ audio_mutex' = Free
  /\ UNCHANGED <<audio_buffer, indices, totals, loop, seek, base, sample>>

-----------------------------------------------------------------------------
(* sound_stop and sound_start: the cells keep what they held.  Neither     *)
(* comes into a seek, which holds connect_mutex: MutexOwners of Playback.  *)
Reset ==
  /\ audio_mutex = Free /\ pending = {}
  /\ audio_wd' = 0 /\ audio_wd_num' = 0 /\ audio_rd' = 0 /\ audio_rd_num' = 0
  /\ audio_total_decoded' = 0 /\ audio_total_done' = 0
  /\ base' = base + audio_total_decoded
  /\ torn' = FALSE
  /\ UNCHANGED <<audio_buffer, audio_mutex, loop, pending, seeks, sample>>

(* sound_seek: the same six variables without audio_mutex, one at a time   *)
(* and, since nothing orders the stores for another thread, in any order.  *)
(* The owner of the mutex may have read a variable before the reset and    *)
(* store what it made of it after.                                         *)
WriterFields == \* mutant of Fields: the reading side is forgotten
  {"wd", "wd_num", "decoded", "done"}

Fields == {"wd", "wd_num", "decoded", "rd", "rd_num", "done"}

ResetOf(f, field, v, owner) ==
  IF f # field THEN {v} ELSE IF audio_mutex = owner THEN {0, v} ELSE {0}

SoundSeek ==
  LET begins == pending = {}
      todo   == IF begins THEN Fields ELSE pending
  IN  \E f \in todo :
        /\ begins => seeks < MaxSeeks
        /\ seeks' = IF begins THEN seeks + 1 ELSE seeks
        /\ pending' = todo \ {f}
        /\ audio_wd' \in ResetOf(f, "wd", audio_wd, "decoder")
        /\ audio_wd_num' \in ResetOf(f, "wd_num", audio_wd_num, "decoder")
        /\ audio_total_decoded' \in ResetOf(f, "decoded", audio_total_decoded, "decoder")
        /\ audio_rd' \in ResetOf(f, "rd", audio_rd, "mixer")
        /\ audio_rd_num' \in ResetOf(f, "rd_num", audio_rd_num, "mixer")
        /\ audio_total_done' \in ResetOf(f, "done", audio_total_done, "mixer")
        /\ base' = base + audio_total_decoded - audio_total_decoded'
        /\ torn' = (audio_mutex # Free \/ (~begins /\ torn))
        /\ UNCHANGED <<audio_buffer, audio_mutex, loop, sample>>

Next == \/ Decode \/ SoundUpdate \/ Decoded
        \/ MixAudio \/ MixSample \/ MixDry \/ MixEnd
        \/ Reset \/ SoundSeek

Spec == Init /\ [][Next]_vars

-----------------------------------------------------------------------------
SeekOK == /\ pending \in SUBSET Fields /\ torn \in BOOLEAN
          /\ seeks \in 0 .. MaxSeeks

(* The indices stay in the ring and the totals do not wrap, however a seek *)
(* falls into the loops of the decoder and of MixAudio.                    *)
TypeOK ==
  /\ audio_buffer \in [Cells -> Nat]
  /\ audio_wd \in 0 .. Size /\ audio_rd \in 0 .. Size
  /\ audio_wd_num \in Nat /\ audio_rd_num \in Nat
  /\ audio_total_decoded \in Nat /\ audio_total_done \in Nat
  /\ audio_mutex \in {Free, "decoder", "mixer"}
  /\ chunk \in 0 .. Chunk /\ left \in Nat
  /\ SeekOK
  /\ base \in Nat /\ sample \in Nat

(* Samples stored and not yet played, the piece in progress included.      *)
Stored == IF audio_mutex = "decoder" THEN chunk - left ELSE 0
Unread == Waiting + Stored

(* The decoder never laps the reader, even in the middle of a piece, and   *)
(* the reader never passes the decoder.                                    *)
NoOverrun == Unread \in 0 .. Size

(* The piece in progress was begun with room for all of it.                *)
PieceInProgress ==
  audio_mutex = "decoder" => chunk \in 1 .. Chunk /\ left <= chunk

PieceFits ==
  /\ Waiting >= 0
  /\ PieceInProgress
  /\ audio_mutex = "decoder" => Waiting < MinBuffers

(* The two lazily wrapped indices are as far apart as the totals say.      *)
IndicesAgree ==
  \/ audio_wd_num = audio_rd_num     /\ Unread = audio_wd - audio_rd
  \/ audio_wd_num = audio_rd_num + 1 /\ Unread = audio_wd - audio_rd + Size
  \/ audio_wd_num + 1 = audio_rd_num /\ Unread = audio_wd - audio_rd - Size

(* Every unread cell holds the sample that is due when the reader gets     *)
(* there.                                                                  *)
Due == base + audio_total_done + 1
ContentsAgree ==
  /\ audio_wd_num = audio_rd_num =>
       \A i \in Cells : audio_rd <= i /\ i < audio_wd =>
         audio_buffer[i] = Due + (i - audio_rd)
  /\ audio_wd_num = audio_rd_num + 1 =>
       \A i \in Cells :
         /\ audio_rd <= i => audio_buffer[i] = Due + (i - audio_rd)
         /\ i < audio_wd => audio_buffer[i] = Due + (Size - audio_rd) + i

InStep == NoOverrun /\ PieceFits /\ IndicesAgree /\ ContentsAgree

(* A seek that nobody has met so far has set all it has come to.           *)
HalfReset ==
  /\ audio_mutex = Free
  /\ "wd" \notin pending => audio_wd = 0
  /\ "wd_num" \notin pending => audio_wd_num = 0
  /\ "decoded" \notin pending => audio_total_decoded = 0
  /\ "rd" \notin pending => audio_rd = 0
  /\ "rd_num" \notin pending => audio_rd_num = 0
  /\ "done" \notin pending => audio_total_done = 0

(* The ring agrees with its totals at all times but from a seek that met a *)
(* piece or a callback to the next reset or undisturbed seek.              *)
RingInv == ~torn => IF pending = {} THEN InStep ELSE HalfReset

(* The ring is a FIFO: nothing is lost, repeated, overtaken, or heard after*)
(* the reset that dropped it, unless a seek has torn it; and then what is  *)
(* heard was decoded, or is silence.                                       *)
Stream == INSTANCE SampleStream
            WITH fed <- audio_total_decoded, heard <- audio_total_done,
                 seeking <- (pending # {})
Fifo == Stream!Spec
=============================================================================
