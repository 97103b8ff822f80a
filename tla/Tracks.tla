------------------------------- MODULE Tracks -------------------------------
(***************************************************************************)
(* The player of local files: a track is asked for by its index in the     *)
(* list of the browser, which goes on listing other folders meanwhile.     *)
(* new_connection looks the index up without a bounds check and without    *)
(* listviews_mutex, and the next and the prior track are counted from the  *)
(* last one, within the number of entries that were listed when it was     *)
(* opened.                                                                 *)
(*                                                                         *)
(* Of the status only what belongs to a local file is kept; module         *)
(* Playback has the rest, with the threads' order.                         *)
(***************************************************************************)
EXTENDS LocalFiles

CONSTANT U32   \* the size of an unsigned int, 2^32

ASSUME U32Assumption == U32 \in Nat /\ MaxItems <= U32

VARIABLES
  current_ss,                \* the system status
  value,                     \* current_info.value, the index asked for
  playing_item,              \* "item that's currently playing"
  playing,                   \* the entry that was resolved
  current_playing_dir_count, \* entries in the list when it was opened
  track_over,                \* sound_done and local_player.done
  replay_item,
  behind                     \* history: the request is the replay of an item
                             \* behind those that were counted

trackvars == <<current_ss, value, playing_item, playing, current_playing_dir_count,
               track_over, replay_item, behind>>
vars == <<filesvars, trackvars>>

Init ==
  /\ FilesInit
  /\ current_ss = "STOPPED" /\ value = 0 /\ playing_item = U32 - 1 /\ playing = NoEntry
  /\ current_playing_dir_count = 0 /\ track_over = FALSE /\ replay_item = FALSE
  /\ behind = FALSE

connect_to_stream(i) == value' = i /\ current_ss' = "CONNECTING"

OpenTrack ==  \* click_item, when the entry is not a folder
  /\ gui.at = "item"
  /\ ~list_mem[gui.arg].isfolder
  /\ connect_to_stream(gui.arg) /\ behind' = FALSE
  /\ Back
  /\ UNCHANGED <<listvars, pathvars, findervars, clicks, current_position, halt,
                 bTermThread, playing_item, playing, current_playing_dir_count,
                 track_over, replay_item>>

(* new_connection for I_LOCAL; a folder leaves the request as it is, and   *)
(* critical_thread asks for it again.  A read behind everything that was   *)
(* ever in the list ends the program: nothing follows.                     *)
Resolve ==
  /\ current_ss = "CONNECTING"
  /\ value < filled
  /\ ~list_mem[value].isfolder
  /\ playing' = list_mem[value]
  /\ playing_item' = value
  /\ current_ss' = "START_PLAYING_FILE"
  /\ UNCHANGED <<filesvars, value, current_playing_dir_count, track_over, replay_item,
                 behind>>

(* check_status: local_player::open counts the list that is there now.     *)
StartPlaying ==
  /\ gui.at = "loop"
  /\ current_ss = "START_PLAYING_FILE"
  /\ current_playing_dir_count' = total_num_files
  /\ track_over' = FALSE
  /\ current_ss' = "PLAYING"
  /\ UNCHANGED <<filesvars, value, playing_item, playing, replay_item, behind>>

TrackOver ==
  /\ current_ss = "PLAYING"
  /\ track_over' = TRUE
  /\ UNCHANGED <<filesvars, current_ss, value, playing_item, playing,
                 current_playing_dir_count, replay_item, behind>>

PlayItemOneMore == \* mutant of PlayItem: one more than there are
  IF playing_item' <= current_playing_dir_count
    THEN connect_to_stream(playing_item') /\ behind' = FALSE
    ELSE UNCHANGED <<current_ss, value, behind>>

PlayItem ==
  IF playing_item' < current_playing_dir_count
    THEN connect_to_stream(playing_item') /\ behind' = FALSE
    ELSE UNCHANGED <<current_ss, value, behind>>

Playing == gui.at = "loop" /\ current_ss = "PLAYING"

ClickNextTrack ==
  /\ Click /\ Playing
  /\ playing_item' = (playing_item + 1) % U32
  /\ PlayItem
  /\ UNCHANGED <<listvars, pathvars, findervars, gui, current_position, halt, bTermThread,
                 playing, current_playing_dir_count, track_over, replay_item>>

ClickPriorTrack ==
  /\ Click /\ Playing
  /\ playing_item' = (playing_item + U32 - 1) % U32
  /\ PlayItem
  /\ UNCHANGED <<listvars, pathvars, findervars, gui, current_position, halt, bTermThread,
                 playing, current_playing_dir_count, track_over, replay_item>>

ClickReplay ==
  /\ Click /\ Playing
  /\ replay_item' = ~replay_item
  /\ UNCHANGED <<listvars, pathvars, findervars, gui, current_position, halt, bTermThread,
                 current_ss, value, playing_item, playing, current_playing_dir_count,
                 track_over, behind>>

(* check_status at the end of a track.  Behind the last one the status     *)
(* stays PLAYING, and every iteration counts one on.                       *)
NextTrack ==
  /\ Playing /\ track_over
  /\ IF replay_item
       THEN /\ connect_to_stream(playing_item)
            /\ behind' = (playing_item >= current_playing_dir_count)
            /\ UNCHANGED playing_item
       ELSE playing_item' = (playing_item + 1) % U32 /\ PlayItem
  /\ UNCHANGED <<filesvars, playing, current_playing_dir_count, track_over, replay_item>>

TrackStep == OpenTrack \/ Resolve \/ StartPlaying \/ NextTrack
TrackClick == ClickNextTrack \/ ClickPriorTrack \/ ClickReplay

FilesStep == (Finder \/ BrowserStep \/ BrowserClick) /\ UNCHANGED trackvars

Next == FilesStep \/ TrackStep \/ TrackClick \/ TrackOver

Spec == Init /\ [][Next]_vars

(* Every thread keeps running; the user is not fair.                       *)
Fairness == /\ WF_vars(Finder /\ UNCHANGED trackvars)
            /\ WF_vars((BrowserStep /\ UNCHANGED trackvars) \/ OpenTrack)

FairSpec == Spec /\ Fairness

-----------------------------------------------------------------------------
PathTypes ==
  /\ current_path \in Folders /\ parsing_dir \in BOOLEAN /\ torn \in BOOLEAN
  /\ halt \in BOOLEAN /\ bTermThread \in BOOLEAN
  /\ current_position \in Nat
  /\ dirpos \in [DOMAIN dirpos -> Nat] /\ DOMAIN dirpos \subseteq Folders

ListTypes ==
  /\ list_mem \in [Slots -> Browser!Entries \cup {NoEntry}]
  /\ total_num_files \in 0 .. filled /\ filled \in 0 .. MaxItems - 1

FinderTypes ==
  /\ dir \in [at : Folders, unread : SUBSET DOMAIN Rank]
  /\ finder \in {"idle", "clear", "read", "halted", "sort", "sorted", "ended"}
  /\ n \in 0 .. MaxItems /\ j \in 0 .. MaxItems /\ swapped \in BOOLEAN

GuiTypes ==
  /\ gui \in [at : {"loop", "device", "page", "item", "join", "left"}, arg : Nat]
  /\ clicks \in 0 .. MaxClicks

TrackTypes ==
  /\ current_ss \in {"STOPPED", "CONNECTING", "START_PLAYING_FILE", "PLAYING"}
  /\ value \in Nat /\ playing_item \in 0 .. U32 - 1
  /\ playing \in Browser!Entries \cup {NoEntry}
  /\ current_playing_dir_count \in 0 .. filled
  /\ track_over \in BOOLEAN /\ replay_item \in BOOLEAN /\ behind \in BOOLEAN

TypeOK == PathTypes /\ ListTypes /\ FinderTypes /\ GuiTypes /\ TrackTypes

(* The indices that are used without a bounds check, by click_item after   *)
(* its test and by new_connection, never leave the part of list_mem that   *)
(* was filled at some time, however the list was replaced meanwhile: what  *)
(* click_item, the next and the prior track and the advance at the end of a*)
(* track ask for is there, also while the advance counts on behind the last*)
(* one.  The one exception is a replay after that: check_status asks for   *)
(* playing_item unchecked.                                                 *)
InBounds ==
  /\ gui.at = "item" => gui.arg < filled
  /\ current_ss = "CONNECTING" => value < filled \/ behind

(* What is shown is the complete and sorted listing of one folder; a       *)
(* request made during a listing is ignored (module Folder).               *)
RefinesFolder == Browser!Spec

(* Every listing ends: the reading at the end of the folder or of the      *)
(* memory, the sort although it swaps equal names for ever.                *)
ListingEnds == parsing_dir ~> (~parsing_dir \/ bTermThread)

(* Why it ends, for any folder: what is left of a listing is the stage, in *)
(* it the entries to read or the length of the next pass, and the rest of  *)
(* this pass.  Every step that the finder takes in a listing leaves less,  *)
(* and no click, no request and no leaving gives it back.                  *)
Stage == [clear |-> 5, read |-> 4, halted |-> 3, sort |-> 2, sorted |-> 1, idle |-> 0,
          ended |-> 0]

Left == <<Stage[finder],
          CASE finder = "read" -> Cardinality(dir.unread)
            [] finder = "sort" -> n
            [] OTHER -> 0,
          IF finder = "sort" /\ j < n THEN n - j ELSE 0>>

Less(a, b) == \/ a[1] < b[1]
              \/ a[1] = b[1] /\ a[2] < b[2]
              \/ a[1] = b[1] /\ a[2] = b[2] /\ a[3] < b[3]

ListingAdvances ==
  [][finder \notin {"idle", "ended"} => Less(Left', Left) \/ UNCHANGED findervars]_vars

(* The destructor's join returns.                                          *)
LeaveEnds == (gui.at = "join") ~> (gui.at = "left")

(* application.h: playing_item is the item that is currently playing.      *)
CurrentTrack == current_ss = "PLAYING" => playing_item = value
=============================================================================
