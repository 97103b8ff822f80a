---------------------------- MODULE SoundDevice ----------------------------
(***************************************************************************)
(* What class audio promises the player: between a sound_start and the end *)
(* of the sound_stop that follows there is one decoder, it is fed from one *)
(* source, and nothing of it is heard afterwards.  Playback implements     *)
(* this with a flag, a thread that is joined, two mutexes and the system   *)
(* status.                                                                 *)
(***************************************************************************)
EXTENDS Naturals

CONSTANT Room         \* how much sound may wait (min_buffers)

VARIABLES
  phase,              \* silent, sounding, mute (the decoder has ended), stopping
  input,              \* where the decoder reads; it is unset until a file that
                      \* was started is announced, and AS_NULL when it was cut off
  waiting             \* decoded chunks not played yet

Phases == {"silent", "sounding", "mute", "stopping"}
Inputs == {"none", "unset", "AS_LOCAL", "AS_NETWORK", "AS_NULL"}

Init == phase = "silent" /\ input = "none" /\ waiting = 0

Start ==
  /\ phase = "silent"
  /\ phase' \in {"sounding", "mute"}     \* without a thread it stays mute
  /\ input' \in {"unset", "AS_NETWORK"}
  /\ waiting' = 0

Announce ==
  /\ input = "unset"
  /\ input' = "AS_LOCAL"
  /\ UNCHANGED <<phase, waiting>>

Cut ==          \* nothing more is read; the decoder may live on
  /\ phase \in {"sounding", "mute"}
  /\ input' = "AS_NULL"
  /\ UNCHANGED <<phase, waiting>>

Decode ==
  /\ phase \in {"sounding", "stopping"}
  /\ input \in {"AS_LOCAL", "AS_NETWORK"}
  /\ waiting < Room
  /\ waiting' = waiting + 1
  /\ UNCHANGED <<phase, input>>

Play ==
  /\ phase # "silent"
  /\ waiting > 0
  /\ waiting' = waiting - 1
  /\ UNCHANGED <<phase, input>>

Discard ==
  /\ waiting' = 0
  /\ UNCHANGED <<phase, input>>

DecoderEnds ==
  /\ phase = "sounding"
  /\ phase' = "mute"
  /\ UNCHANGED <<input, waiting>>

Stop ==
  /\ phase \in {"sounding", "mute"}
  /\ phase' = "stopping"
  /\ UNCHANGED <<input, waiting>>

Joined ==
  /\ phase = "stopping"
  /\ phase' = "silent" /\ input' = "none"
  /\ UNCHANGED waiting

Next == Start \/ Announce \/ Cut \/ Decode \/ Play \/ Discard \/ DecoderEnds \/ Stop
        \/ Joined

Spec == Init /\ [][Next]_<<phase, input, waiting>>
=============================================================================
