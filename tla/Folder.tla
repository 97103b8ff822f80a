------------------------------- MODULE Folder -------------------------------
(***************************************************************************)
(* What the local file browser promises the user: the folder that is shown *)
(* is listed completely and in order, folders first, and a request made    *)
(* while another one is under way is ignored.  The one exception the code  *)
(* makes is a button for a device (reset_location), which changes the path *)
(* before it asks: what is shown then is torn, until the next request.     *)
(***************************************************************************)
EXTENDS Naturals, Sequences, FiniteSets

CONSTANTS
  Folders,   \* the folders of the file system
  Tracks,    \* its .mp3 files
  Devices,   \* the folders that a skin has a button for
  Contents,  \* what is in a folder: folders, tracks and other files
  Rank,      \* the place of a displayed name in alphabetical order
  MaxItems   \* MAX_FILE_ITEMS

VARIABLES
  shown,     \* the folder that is shown or being listed
  busy,      \* it is being listed
  torn,      \* its path was changed since it was asked for
  listing    \* what the user sees when it is not

(* lfile: the path is the one of the folder followed by the name.          *)
Entries == [at : Folders, name : DOMAIN Rank, isfolder : BOOLEAN]

Entry(f, name) == [at |-> f, name |-> name, isfolder |-> name \in Folders]

(* compare(a, b) < 0: folders first, then by name.                         *)
Before(a, b) ==
  \/ a.isfolder /\ ~b.isfolder
  \/ a.isfolder = b.isfolder /\ Rank[a.name] < Rank[b.name]

Listed(f) == {Entry(f, name) : name \in Contents[f] \cap (Folders \cup Tracks)}

AtMost(a, b) == IF a < b THEN a ELSE b

IsListingOf(f, s) ==
  /\ Len(s) = AtMost(Cardinality(Listed(f)), MaxItems - 1)
  /\ \A i \in 1 .. Len(s) : s[i] \in Listed(f)
  /\ \A i, k \in 1 .. Len(s) : i < k => s[i] # s[k] /\ ~Before(s[k], s[i])

-----------------------------------------------------------------------------
Init == /\ shown \in Devices
        /\ ~busy /\ ~torn
        /\ listing = <<>>

Request(f) ==
  /\ ~busy
  /\ shown' = f
  /\ busy' = TRUE /\ torn' = FALSE
  /\ listing' = <<>>

Tear(d) == \* the path of a device is stored before it is asked for
  /\ d \in Devices
  /\ shown' = d
  /\ torn' = TRUE
  /\ UNCHANGED <<busy, listing>>

Complete ==
  /\ busy
  /\ busy' = FALSE
  /\ torn \/ IsListingOf(shown, listing')
  /\ listing' \in Seq(Entries)
  /\ UNCHANGED <<shown, torn>>

Leave == \* leaving the program abandons the listing
  /\ torn' = TRUE
  /\ UNCHANGED <<shown, busy, listing>>

Next == (\E f \in Folders : Request(f) \/ Tear(f)) \/ Complete \/ Leave

Spec == Init /\ [][Next]_<<shown, busy, torn, listing>>
=============================================================================
