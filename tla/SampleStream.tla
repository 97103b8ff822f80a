---------------------------- MODULE SampleStream ----------------------------
(***************************************************************************)
(* What the audio ring promises: a FIFO of sound.  Samples are numbered in *)
(* the order in which they were decoded since the program started; every   *)
(* one that is heard is the oldest one not heard yet, and a reset drops    *)
(* what was waiting, for good.                                             *)
(*                                                                         *)
(* A seek is a reset in several steps that asks nobody.  If no piece and no*)
(* callback meets it, it is as good as a reset.  If one does, the stream is*)
(* torn: what is heard then is something that was decoded, or silence, but *)
(* out of order, until the next reset or the next seek that goes           *)
(* undisturbed.                                                            *)
(***************************************************************************)
EXTENDS Naturals

CONSTANTS
  Chunk,        \* the longest piece decode2 delivers, in samples
  MinBuffers    \* below this many waiting samples the decoder decodes more

VARIABLES
  base,    \* samples decoded before the last reset
  fed,     \* samples decoded since
  heard,   \* how many of them were played
  sample,  \* the number of the sample played last, 0 for silence
  seeking, \* a seek has begun and has not ended
  torn     \* a seek was disturbed

vars == <<base, fed, heard, sample, seeking, torn>>

Init == /\ base = 0 /\ fed = 0 /\ heard = 0 /\ sample = 0
        /\ seeking = FALSE /\ torn = FALSE

InOrder == ~seeking /\ ~torn

Feed ==
  /\ InOrder
  /\ fed - heard < MinBuffers
  /\ \E n \in 1 .. Chunk : fed' = fed + n
  /\ UNCHANGED <<base, heard, sample, seeking, torn>>

Hear ==
  /\ InOrder
  /\ heard < fed
  /\ heard' = heard + 1
  /\ sample' = base + heard'
  /\ UNCHANGED <<base, fed, seeking, torn>>

Reset ==        \* it never comes into a seek, and mends what one has torn
  /\ ~seeking
  /\ base' = base + fed
  /\ fed' = 0 /\ heard' = 0
  /\ torn' = FALSE
  /\ UNCHANGED <<sample, seeking>>

Seek ==         \* one step of a seek that has met nobody so far
  /\ seeking \/ seeking'
  /\ seeking => ~torn
  /\ ~torn'
  /\ \/ fed' = fed /\ base' = base
     \/ fed' = 0 /\ base' = base + fed
  /\ heard' \in {heard, 0}
  /\ ~seeking' => fed' = 0 /\ heard' = 0
  /\ UNCHANGED sample

Disturb ==      \* only a seek tears the stream; what was decoded stays decoded
  /\ torn \/ seeking \/ seeking'
  /\ torn'
  /\ base + fed <= base' + fed'
  /\ sample' \in 0 .. base' + fed'

Next == Feed \/ Hear \/ Reset \/ Seek \/ Disturb

Spec == Init /\ [][Next]_vars
=============================================================================
