------------------------------ MODULE MCTracks ------------------------------
(* An instance of Tracks for TLC: two devices, and a folder that holds one  *)
(* entry more than the memory and two names that compare equal.             *)
EXTENDS Tracks

SomeFolders  == {"sd:/", "usb:/", "rock"}
SomeTracks   == {"a.mp3", "b.mp3", "B.mp3", "c.mp3"}
SomeDevices  == {"sd:/", "usb:/"}
SomeContents == [f \in SomeFolders |->
                   CASE f = "sd:/"  -> {"rock", "a.mp3", "read.me"}
                     [] f = "usb:/" -> {"c.mp3"}
                     [] f = "rock"  -> {"b.mp3", "B.mp3", "c.mp3", "a.mp3"}]
SomeRank     == [x \in SomeFolders \cup SomeTracks \cup {"read.me"} |->
                   CASE x = "a.mp3" -> 1
                     [] x \in {"b.mp3", "B.mp3"} -> 2
                     [] x = "c.mp3" -> 3
                     [] OTHER -> 4]
=============================================================================
