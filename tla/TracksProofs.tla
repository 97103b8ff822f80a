---------------------------- MODULE TracksProofs ----------------------------
(***************************************************************************)
(* For every file system, memory, page size and number of clicks: the      *)
(* types, the indices that are used unchecked, and that the bubble sort    *)
(* and its interruptions show the listings that Folder promises.           *)
(***************************************************************************)
EXTENDS Tracks, FiniteSetTheorems, TLAPS

(* What the sort keeps of its two indices: they stay in the list, and a    *)
(* pass over one entry swaps nothing.                                      *)
SortInv ==
  finder = "sort" =>
    /\ n \in 1 .. total_num_files /\ j \in 1 .. n
    /\ swapped => n > 1

TInv == TypeOK /\ SortInv /\ InBounds

LEMMA InitTInv == Init => TInv
<1> SUFFICES ASSUME Init PROVE TInv
  OBVIOUS
<1> USE FolderAssumption, PagesAssumption, U32Assumption DEF Init, FilesInit
<1>1. PathTypes
  BY DEF PathTypes
<1>2. ListTypes
  BY DEF ListTypes
<1>3. FinderTypes
  <2>1. dir \in [at : Folders, unread : SUBSET DOMAIN Rank]
    OBVIOUS
  <2>2. n \in 0 .. MaxItems /\ j \in 0 .. MaxItems
    OBVIOUS
  <2> QED
    BY <2>1, <2>2 DEF FinderTypes
<1>4. GuiTypes
  BY DEF GuiTypes
<1>5. TrackTypes
  <2>1. playing_item \in 0 .. U32 - 1 /\ current_playing_dir_count \in 0 .. filled
    OBVIOUS
  <2> QED
    BY <2>1 DEF TrackTypes
<1> QED
  BY <1>1, <1>2, <1>3, <1>4, <1>5 DEF TInv, TypeOK, SortInv, InBounds

-----------------------------------------------------------------------------
(* finder_thread.                                                          *)
LEMMA FinderTypesInv == TypeOK /\ SortInv /\ Finder => PathTypes' /\ FinderTypes' /\ SortInv'
<1> SUFFICES ASSUME TypeOK, SortInv, Finder
             PROVE  PathTypes' /\ FinderTypes' /\ SortInv'
  OBVIOUS
<1> USE FolderAssumption
    DEF TypeOK, PathTypes, ListTypes, FinderTypes, SortInv, listvars, pathvars
<1>1. CASE FinderOpen
  BY <1>1 DEF FinderOpen
<1>2. CASE FinderClear
  BY <1>2 DEF FinderClear, find_dir_pos
<1>3. CASE FinderRead
  BY <1>3 DEF FinderRead
<1>4. CASE FinderEnd
  BY <1>4 DEF FinderEnd
<1>5. CASE FinderHalted
  <2>1. /\ n' \in 0 .. MaxItems /\ j' \in 0 .. MaxItems
        /\ n' = total_num_files' /\ j' = 1 /\ ~swapped'
        /\ finder' = "sort" => total_num_files > 1 /\ total_num_files' = total_num_files
    BY <1>5 DEF FinderHalted
  <2>2. PathTypes' /\ FinderTypes'
    BY <1>5, <2>1 DEF FinderHalted
  <2>3. SortInv'
    BY <2>1
  <2> QED
    BY <2>2, <2>3
<1>6. CASE FinderCompare
  <2>1. /\ n' = n /\ total_num_files' = total_num_files /\ j' = j + 1
        /\ j < n /\ n \in 1 .. total_num_files /\ j \in 1 .. n
    BY <1>6 DEF FinderCompare
  <2>2. n' \in 0 .. MaxItems /\ j' \in 0 .. MaxItems /\ j' \in 1 .. n' /\ n' > 1
    BY <2>1
  <2>3. PathTypes' /\ FinderTypes'
    BY <1>6, <2>2 DEF FinderCompare
  <2> QED
    BY <2>1, <2>2, <2>3
<1>7. CASE FinderPass
  <2>1. /\ n \in 1 .. total_num_files /\ n' = n - 1 /\ j' = 1 /\ ~swapped'
        /\ total_num_files' = total_num_files
        /\ finder' = "sort" => swapped
    BY <1>7 DEF FinderPass
  <2>2. swapped => n > 1
    BY <1>7 DEF FinderPass
  <2>3. n' \in 0 .. MaxItems /\ j' \in 0 .. MaxItems
    BY <2>1
  <2>4. PathTypes' /\ FinderTypes'
    BY <1>7, <2>3 DEF FinderPass
  <2>5. SortInv'
    BY <2>1, <2>2
  <2> QED
    BY <2>4, <2>5
<1>8. CASE FinderDone
  BY <1>8 DEF FinderDone
<1>9. CASE FinderExit
  BY <1>9 DEF FinderExit
<1> QED
  BY <1>1, <1>2, <1>3, <1>4, <1>5, <1>6, <1>7, <1>8, <1>9 DEF Finder

(* The list: what was ever filled stays filled.                            *)
LEMMA FinderListInv ==
  TypeOK /\ SortInv /\ Finder => ListTypes' /\ filled' >= filled /\ filled' \in Nat
<1> SUFFICES ASSUME TypeOK, SortInv, Finder
             PROVE  ListTypes' /\ filled' >= filled /\ filled' \in Nat
  OBVIOUS
<1> USE FolderAssumption DEF TypeOK, ListTypes, listvars
<1>1. CASE FinderRead
  <2>1. PICK name \in dir.unread : \E isfolder \in MayBeFolder(name) : add_file(name, isfolder)
    BY <1>1 DEF FinderRead
  <2>2. PICK isfolder \in MayBeFolder(name) : add_file(name, isfolder)
    BY <2>1
  <2>3. [at |-> current_path, name |-> name, isfolder |-> isfolder] \in Browser!Entries
    BY <2>1, <2>2 DEF MayBeFolder, Browser!Entries, PathTypes, FinderTypes
  <2>4. total_num_files < MaxItems - 1
    BY <1>1 DEF FinderRead
  <2> QED
    BY <2>2, <2>3, <2>4 DEF add_file, Max2, Slots
<1>2. CASE FinderClear
  BY <1>2 DEF FinderClear
<1>3. CASE FinderCompare
  BY <1>3 DEF FinderCompare, Slots, SortInv
<1>4. CASE UNCHANGED listvars
  BY <1>4
<1> QED
  BY <1>1, <1>2, <1>3, <1>4
     DEF Finder, FinderOpen, FinderEnd, FinderHalted, FinderPass, FinderDone, FinderExit
-----------------------------------------------------------------------------
(* The GUI thread in the browser: it leaves the list and the finder alone. *)
LEMMA StartTypes ==
  ASSUME PathTypes, NEW path \in Folders, NEW dirup \in BOOLEAN,
         directory_list_start(path, dirup), UNCHANGED <<current_position, bTermThread>>
  PROVE  PathTypes'
  BY DEF PathTypes, directory_list_start, save_dir_pos, pathvars

BrowserTypes ==
  /\ PathTypes' /\ GuiTypes' /\ UNCHANGED <<listvars, findervars>>
  /\ gui'.at = "item" => gui'.arg < filled

LEMMA BrowserClickTypes == TypeOK /\ BrowserClick => BrowserTypes
<1> SUFFICES ASSUME TypeOK, BrowserClick PROVE BrowserTypes
  OBVIOUS
<1> USE FolderAssumption, PagesAssumption
    DEF TypeOK, GuiTypes, BrowserTypes, Click, Goto
<1>1. CASE ClickLocalBrowser
  <2>1. PathTypes'
    BY <1>1, StartTypes DEF ClickLocalBrowser, PathTypes
  <2> QED
    BY <1>1, <2>1 DEF ClickLocalBrowser
<1>2. CASE ClickDirUp
  <2>1. PathTypes'
    BY <1>2, StartTypes DEF ClickDirUp, Parents
  <2> QED
    BY <1>2, <2>1 DEF ClickDirUp
<1>3. CASE ClickDevice
  BY <1>3 DEF ClickDevice, PathTypes
<1>4. CASE ClickNext
  BY <1>4 DEF ClickNext, PathTypes, pathvars
<1>5. CASE ClickBack
  BY <1>5 DEF ClickBack, PathTypes, pathvars
<1>6. CASE ClickItem
  <2>1. PICK object_id \in 0 .. max_listings - 1 :
          /\ object_id + current_position < total_num_files
          /\ Goto("item", object_id + current_position)
    BY <1>6 DEF ClickItem
  <2>2. object_id + current_position \in Nat /\ object_id + current_position < filled
    BY <2>1 DEF PathTypes, ListTypes
  <2>3. GuiTypes' /\ gui'.arg < filled
    BY <1>6, <2>1, <2>2 DEF ClickItem
  <2> QED
    BY <1>6, <2>3 DEF ClickItem, PathTypes, pathvars
<1>7. CASE Leave
  BY <1>7 DEF Leave, PathTypes
<1> QED
  BY <1>1, <1>2, <1>3, <1>4, <1>5, <1>6, <1>7 DEF BrowserClick

LEMMA BrowserStepTypes == TypeOK /\ InBounds /\ BrowserStep => BrowserTypes
<1> SUFFICES ASSUME TypeOK, InBounds, BrowserStep PROVE BrowserTypes
  OBVIOUS
<1> USE FolderAssumption, PagesAssumption
    DEF TypeOK, GuiTypes, BrowserTypes, Goto, Back
<1>1. CASE SetPosition
  BY <1>1 DEF SetPosition, PathTypes, ListTypes, pathvars
<1>2. CASE OpenFolder
  <2>1. PathTypes'
    BY <1>2, StartTypes DEF OpenFolder, PathTypes, pathvars
  <2> QED
    BY <1>2, <2>1 DEF OpenFolder
<1>3. CASE LeaveJoin
  BY <1>3 DEF LeaveJoin, PathTypes, pathvars
<1>4. CASE StartDevice
  <2>1. PathTypes'
    BY <1>4, StartTypes DEF StartDevice, PathTypes
  <2> QED
    BY <1>4, <2>1 DEF StartDevice
<1> QED
  BY <1>1, <1>2, <1>3, <1>4 DEF BrowserStep

LEMMA FilesTInv == TInv /\ FilesStep => TInv'
<1> SUFFICES ASSUME TInv, FilesStep PROVE TInv'
  OBVIOUS
<1> USE DEF TInv, InBounds, trackvars
<1>1. CASE Finder
  <2>1. /\ PathTypes' /\ FinderTypes' /\ SortInv'
        /\ ListTypes' /\ filled' >= filled /\ filled' \in Nat
    BY <1>1, FinderTypesInv, FinderListInv
  <2>2. GuiTypes' /\ UNCHANGED <<gui, trackvars>>
    BY <1>1 DEF Finder, FilesStep, guivars, TypeOK, GuiTypes
  <2>3. filled \in Nat /\ gui.arg \in Nat /\ value \in Nat
    BY DEF TypeOK, ListTypes, GuiTypes, TrackTypes
  <2>4. TrackTypes'
    BY <2>1, <2>2, <2>3 DEF TypeOK, TrackTypes
  <2> QED
    BY <2>1, <2>2, <2>3, <2>4 DEF TypeOK
<1>2. CASE BrowserClick \/ BrowserStep
  <2>1. BrowserTypes
    BY <1>2, BrowserClickTypes, BrowserStepTypes
  <2>2. ListTypes' /\ FinderTypes' /\ SortInv' /\ filled' = filled
    BY <2>1 DEF BrowserTypes, listvars, findervars, TypeOK, ListTypes, FinderTypes, SortInv
  <2>3. TrackTypes' /\ UNCHANGED trackvars
    BY <2>2 DEF FilesStep, TypeOK, TrackTypes
  <2> QED
    BY <2>1, <2>2, <2>3 DEF BrowserTypes, TypeOK
<1> QED
  BY <1>1, <1>2 DEF FilesStep

-----------------------------------------------------------------------------
(* The player of tracks: it leaves the browser alone.                      *)
LEMMA PlayItemBounds ==
  ASSUME TypeOK, playing_item' \in Nat, PlayItem
  PROVE  /\ value' \in Nat
         /\ current_ss' \in {"STOPPED", "CONNECTING", "START_PLAYING_FILE", "PLAYING"}
         /\ current_ss' = "CONNECTING" =>
              value' < filled \/ UNCHANGED <<value, current_ss, behind>>
         /\ behind' \in BOOLEAN
<1> USE DEF TypeOK, TrackTypes, ListTypes
<1>1. CASE playing_item' < current_playing_dir_count
  <2>1. behind' = FALSE /\ value' = playing_item' /\ current_ss' = "CONNECTING"
    BY <1>1 DEF PlayItem, connect_to_stream
  <2>2. behind' \in BOOLEAN
    BY <2>1, Zenon
  <2>3. value' < filled /\ value' \in Nat
    BY <1>1, <2>1, FolderAssumption
  <2> QED
    BY <2>1, <2>2, <2>3
<1>2. CASE ~(playing_item' < current_playing_dir_count)
  BY <1>2 DEF PlayItem
<1> QED
  BY <1>1, <1>2

(* What a step of the player leaves as it is.                              *)
Browsing == <<listvars, pathvars, findervars, current_position, halt, bTermThread>>

LEMMA TracksTypes ==
  TInv /\ (TrackStep \/ TrackClick \/ TrackOver) =>
    TrackTypes' /\ InBounds' /\ GuiTypes' /\ UNCHANGED Browsing
<1> SUFFICES ASSUME TInv, TrackStep \/ TrackClick \/ TrackOver
             PROVE  TrackTypes' /\ InBounds' /\ GuiTypes' /\ UNCHANGED Browsing
  OBVIOUS
<1> USE U32Assumption
    DEF TInv, TypeOK, InBounds, Browsing, filesvars, guivars
<1>0. /\ filled \in Nat /\ filled < MaxItems /\ gui.arg \in Nat /\ MaxItems \in Nat
      /\ playing_item \in 0 .. U32 - 1 /\ value \in Nat
      /\ current_playing_dir_count \in 0 .. filled
  BY FolderAssumption DEF ListTypes, GuiTypes, TrackTypes
<1>1. CASE OpenTrack
  <2>1. value' < filled /\ value' \in Nat /\ current_ss' = "CONNECTING"
    BY <1>0, <1>1 DEF OpenTrack, connect_to_stream
  <2>2. GuiTypes'
    BY <1>1 DEF OpenTrack, Back, Goto, GuiTypes
  <2>3. gui'.at = "loop"
    BY <1>1 DEF OpenTrack, Back, Goto, GuiTypes
  <2>4. UNCHANGED Browsing /\ TrackTypes'
    BY <1>1, <2>1 DEF OpenTrack, TrackTypes, listvars
  <2> QED
    BY <2>1, <2>2, <2>3, <2>4 DEF listvars
<1>2. CASE Resolve
  <2>1. playing_item' \in 0 .. U32 - 1 /\ UNCHANGED filesvars
    BY <1>0, <1>2 DEF Resolve
  <2>2. playing' \in Browser!Entries \cup {NoEntry}
    BY <1>0, <1>2 DEF Resolve, ListTypes, Slots
  <2> QED
    BY <1>2, <2>1, <2>2 DEF Resolve, TrackTypes, GuiTypes, listvars
<1>3. CASE StartPlaying
  <2>1. current_playing_dir_count' \in 0 .. filled' /\ current_ss' = "PLAYING"
    BY <1>3 DEF StartPlaying, ListTypes, listvars
  <2>2. UNCHANGED filesvars /\ TrackTypes'
    BY <1>3, <2>1 DEF StartPlaying, TrackTypes
  <2> QED
    BY <2>1, <2>2 DEF GuiTypes, listvars
<1>4. CASE TrackOver
  BY <1>4 DEF TrackOver, TrackTypes, GuiTypes, listvars
<1>5. CASE ClickReplay
  <2>1. GuiTypes'
    BY <1>5, PagesAssumption DEF ClickReplay, Click, GuiTypes
  <2>2. /\ UNCHANGED <<Browsing, gui, current_ss, value, playing_item, playing,
                        current_playing_dir_count, track_over, behind>>
        /\ replay_item' \in BOOLEAN
    BY <1>5 DEF ClickReplay
  <2> QED
    BY <2>1, <2>2 DEF TrackTypes, listvars
<1>6. CASE ClickNextTrack \/ ClickPriorTrack
  <2>1. playing_item' \in 0 .. U32 - 1 /\ PlayItem
    BY <1>0, <1>6 DEF ClickNextTrack, ClickPriorTrack
  <2>2. UNCHANGED <<Browsing, gui, playing, current_playing_dir_count, track_over, replay_item>>
    BY <1>6 DEF ClickNextTrack, ClickPriorTrack
  <2>3. GuiTypes'
    BY <1>6, PagesAssumption DEF ClickNextTrack, ClickPriorTrack, Click, GuiTypes
  <2> QED
    BY <1>0, <2>1, <2>2, <2>3, PlayItemBounds DEF TrackTypes, listvars
<1>7. CASE NextTrack
  <2>1. UNCHANGED <<filesvars, playing, current_playing_dir_count, track_over, replay_item>>
    BY <1>7 DEF NextTrack
  <2>2. CASE replay_item
    <3>1. /\ value' = playing_item /\ current_ss' = "CONNECTING"
          /\ playing_item' = playing_item
          /\ behind' = (playing_item >= current_playing_dir_count)
      BY <1>7, <2>2 DEF NextTrack, connect_to_stream
    <3>2. behind' \in BOOLEAN /\ (value' < filled \/ behind')
      <4>1. CASE playing_item >= current_playing_dir_count
        <5>1. behind' = TRUE
          BY <3>1, <4>1
        <5> QED
          BY <5>1
      <4>2. CASE ~(playing_item >= current_playing_dir_count)
        <5>1. (playing_item >= current_playing_dir_count) = FALSE
          BY <4>2
        <5>2. value' < filled
          BY <1>0, <3>1, <4>2
        <5>3. behind' = FALSE
          BY <3>1, <5>1, Zenon
        <5> QED
          BY <5>2, <5>3, Zenon
      <4> QED
        BY <4>1, <4>2
    <3>3. TrackTypes' /\ GuiTypes'
      BY <2>1, <3>1, <3>2 DEF TrackTypes, GuiTypes, listvars
    <3> QED
      BY <2>1, <3>2, <3>3 DEF listvars
  <2>3. CASE ~replay_item
    <3>1. playing_item' \in 0 .. U32 - 1 /\ PlayItem
      BY <1>0, <1>7, <2>3 DEF NextTrack
    <3> QED
      BY <1>0, <2>1, <3>1, PlayItemBounds DEF TrackTypes, GuiTypes, listvars
  <2> QED
    BY <2>2, <2>3
<1> QED
  BY <1>1, <1>2, <1>3, <1>4, <1>5, <1>6, <1>7 DEF TrackStep, TrackClick

LEMMA NextTInv == TInv /\ [Next]_vars => TInv'
<1> SUFFICES ASSUME TInv, [Next]_vars PROVE TInv'
  OBVIOUS
<1>1. CASE TrackStep \/ TrackClick \/ TrackOver
  <2>1. TrackTypes' /\ InBounds' /\ GuiTypes' /\ UNCHANGED Browsing
    BY <1>1, TracksTypes
  <2> QED
    BY <2>1 DEF TInv, TypeOK, SortInv, PathTypes, ListTypes, FinderTypes, Browsing,
                listvars, pathvars, findervars
<1>2. CASE UNCHANGED vars
  BY <1>2 DEF vars, filesvars, trackvars, listvars, pathvars, findervars, guivars, TInv,
              TypeOK, SortInv, InBounds, PathTypes, ListTypes, FinderTypes, GuiTypes,
              TrackTypes
<1> QED
  BY <1>1, <1>2, FilesTInv DEF Next

LEMMA TInvHolds == Spec => []TInv
  BY InitTInv, NextTInv, PTL DEF Spec

(* Only the finder moves the finder.                                       *)
LEMMA OthersLeaveFinder == TInv /\ [Next]_vars => Finder \/ UNCHANGED findervars
<1> SUFFICES ASSUME TInv, [Next]_vars PROVE Finder \/ UNCHANGED findervars
  OBVIOUS
<1>1. CASE BrowserClick \/ BrowserStep
  <2>1. BrowserTypes
    BY <1>1, BrowserClickTypes, BrowserStepTypes DEF TInv
  <2> QED
    BY <2>1 DEF BrowserTypes
<1>2. CASE TrackStep \/ TrackClick \/ TrackOver
  BY <1>2, TracksTypes DEF Browsing
<1>3. CASE UNCHANGED vars
  BY <1>3 DEF vars, filesvars
<1> QED
  BY <1>1, <1>2, <1>3 DEF Next, FilesStep

(* Every variable keeps its type.                                          *)
THEOREM TracksTypeOK == Spec => []TypeOK
  BY TInvHolds, PTL DEF TInv

(* An index that is used unchecked is in the part of the list that was     *)
(* filled, whoever asked for it; only a replay after the advance has       *)
(* counted behind the last track may be outside.                           *)
THEOREM TracksInBounds == Spec => []InBounds
  BY TInvHolds, PTL DEF TInv

-----------------------------------------------------------------------------
(* A listing ends: what is left of it is three numbers, and the finder only*)
(* ever makes them less.  What remains unread of a folder is finite.       *)
FiniteDir == IsFiniteSet(dir.unread)

LEMMA FiniteDirHolds == Spec => []FiniteDir
<1>1. Init => FiniteDir
  BY FS_EmptySet DEF Init, FilesInit, FiniteDir
<1>2. TInv /\ FiniteDir /\ [Next]_vars => FiniteDir'
  <2> SUFFICES ASSUME TInv, FiniteDir, [Next]_vars PROVE FiniteDir'
    OBVIOUS
  <2>1. CASE FinderOpen
    <3>1. dir'.unread = Contents[current_path] /\ current_path \in Folders
      BY <2>1 DEF FinderOpen, TInv, TypeOK, PathTypes
    <3> QED
      BY <3>1, FolderAssumption DEF FiniteDir
  <2>2. CASE FinderRead
    <3>1. PICK name \in dir.unread : dir' = [dir EXCEPT !.unread = @ \ {name}]
      BY <2>2 DEF FinderRead
    <3>2. dir'.unread = dir.unread \ {name}
      BY <3>1 DEF TInv, TypeOK, FinderTypes
    <3> QED
      BY <3>2, FS_RemoveElement DEF FiniteDir
  <2>3. CASE ~FinderOpen /\ ~FinderRead
    <3>1. UNCHANGED dir
      BY <2>3, OthersLeaveFinder
         DEF Finder, findervars, FinderClear, FinderEnd, FinderHalted, FinderCompare,
             FinderPass, FinderDone, FinderExit
    <3> QED
      BY <3>1 DEF FiniteDir
  <2> QED
    BY <2>1, <2>2, <2>3
<1> QED
  BY <1>1, <1>2, TInvHolds, PTL DEF Spec

(* The three numbers are natural ones: they cannot be made less for ever.  *)
Measured == Left \in Nat \X Nat \X Nat

LEMMA LeftIsNatural == TInv /\ FiniteDir => Measured
<1> SUFFICES ASSUME TInv, FiniteDir PROVE Measured
  OBVIOUS
<1>1. Cardinality(dir.unread) \in Nat
  BY FS_CardinalityType DEF FiniteDir
<1>2. /\ finder \in {"idle", "clear", "read", "halted", "sort", "sorted", "ended"}
      /\ n \in Nat /\ j \in Nat
  BY FolderAssumption DEF TInv, TypeOK, FinderTypes
<1>3. Stage[finder] \in Nat
  BY <1>2 DEF Stage
<1>4. (IF finder = "sort" /\ j < n THEN n - j ELSE 0) \in Nat
  BY <1>2
<1>5. (CASE finder = "read" -> Cardinality(dir.unread)
         [] finder = "sort" -> n
         [] OTHER -> 0) \in Nat
  BY <1>1, <1>2
<1> QED
  BY <1>3, <1>4, <1>5 DEF Measured, Left

(* Every step of the finder after the opening leaves less.                 *)
LEMMA FinderLeavesLess ==
  ASSUME TInv, FiniteDir, Finder, finder \notin {"idle", "ended"}
  PROVE  Less(Left', Left)
<1> DEFINE Later == Stage[finder'] < Stage[finder]
<1>0. Later => Less(Left', Left)
  BY DEF Less, Left
<1> USE DEF Stage
<1>1. CASE FinderClear \/ FinderEnd \/ FinderHalted \/ FinderDone
  <2>1. Later
    BY <1>1 DEF FinderClear, FinderEnd, FinderHalted, FinderDone
  <2> QED
    BY <1>0, <2>1
<1>2. CASE FinderRead
  <2>1. PICK name \in dir.unread : dir' = [dir EXCEPT !.unread = @ \ {name}]
    BY <1>2 DEF FinderRead
  <2>2. dir'.unread = dir.unread \ {name}
    BY <2>1 DEF TInv, TypeOK, FinderTypes
  <2>3. /\ Cardinality(dir'.unread) = Cardinality(dir.unread) - 1
        /\ Cardinality(dir.unread) \in Nat
    BY <2>1, <2>2, FS_RemoveElement, FS_CardinalityType DEF FiniteDir
  <2>4. finder = "read" /\ finder' = "read"
    BY <1>2 DEF FinderRead
  <2>5. Left'[1] = Left[1] /\ Left'[2] = Cardinality(dir'.unread)
        /\ Left[2] = Cardinality(dir.unread)
    BY <2>4 DEF Left
  <2> QED
    BY <2>3, <2>5 DEF Less
<1>3. CASE FinderCompare
  <2>1. /\ finder = "sort" /\ finder' = "sort" /\ n' = n /\ j' = j + 1 /\ j < n
        /\ n \in Nat /\ j \in Nat
    BY <1>3 DEF FinderCompare, TInv, TypeOK, FinderTypes
  <2>2. Left'[1] = Left[1] /\ Left'[2] = Left[2]
    BY <2>1 DEF Left
  <2>3. Left[3] = n - j /\ Left'[3] = IF j + 1 < n THEN n - (j + 1) ELSE 0
    BY <2>1 DEF Left
  <2>4. Left'[3] < Left[3]
    BY <2>1, <2>3
  <2> QED
    BY <2>2, <2>4 DEF Less
<1>4. CASE FinderPass /\ finder' = "sort"
  <2>1. finder = "sort" /\ n' = n - 1 /\ n \in Nat
    BY <1>4 DEF FinderPass, TInv, TypeOK, FinderTypes
  <2>2. Left'[1] = Left[1] /\ Left'[2] = n - 1 /\ Left[2] = n
    BY <1>4, <2>1 DEF Left
  <2> QED
    BY <2>1, <2>2 DEF Less
<1>5. CASE FinderPass /\ finder' # "sort"
  <2>1. Later
    BY <1>5 DEF FinderPass
  <2> QED
    BY <1>0, <2>1
<1>6. ~FinderOpen /\ ~FinderExit
  BY DEF FinderOpen, FinderExit
<1> QED
  BY <1>1, <1>2, <1>3, <1>4, <1>5, <1>6 DEF Finder

(* For every file system and memory: each step of the finder brings the end*)
(* of the listing nearer, and nothing that is clicked or played meanwhile  *)
(* puts it off.                                                            *)
THEOREM ListingProgress == Spec => ListingAdvances /\ []Measured
<1>1. TInv /\ FiniteDir /\ [Next]_vars =>
        [finder \notin {"idle", "ended"} => Less(Left', Left) \/ UNCHANGED findervars]_vars
  BY FinderLeavesLess, OthersLeaveFinder
<1> QED
  BY <1>1, LeftIsNatural, TInvHolds, FiniteDirHolds, PTL DEF Spec, ListingAdvances
=============================================================================
