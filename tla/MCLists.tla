------------------------------ MODULE MCLists ------------------------------
(* An instance of Lists for TLC: two stations whose names make the same    *)
(* file, one file of the program's own and one with two entries.           *)
EXTENDS Lists, TLC

SomeNames  == {"A/C", "A:C", "Jazz"}
SomeFiles  == [x \in SomeNames |-> IF x = "Jazz" THEN "Jazz.pls" ELSE "A C.pls"]
SomeOnDisk == ("A C.pls" :> <<"A/C">>) @@ ("two.m3u" :> <<"Jazz", "A:C">>)
Everywhere == {<<"SHOUTCAST", TRUE>>, <<"SHOUTCAST", FALSE>>, <<"ICECAST", TRUE>>}
OnLinux    == {<<"ICECAST", FALSE>>}
=============================================================================
