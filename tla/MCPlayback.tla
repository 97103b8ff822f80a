----------------------------- MODULE MCPlayback -----------------------------
(* Instances of Playback for TLC: what the buttons of a skin can call.     *)
EXTENDS Playback

EveryButton == AllControls
NoPause == AllControls \ {"playpause"}
=============================================================================
