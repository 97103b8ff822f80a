----------------------------- MODULE LocalFiles -----------------------------
(***************************************************************************)
(* The local file browser.  A click stores a path and sets parsing_dir;    *)
(* finder_thread lists that folder entry by entry and bubble-sorts the     *)
(* list in place.  The GUI thread pages through the list and clicks on its *)
(* entries without listviews_mutex, so every step of the finder shows.     *)
(* An entry is read and swapped as a whole.                                *)
(*                                                                         *)
(* list[i] is always &list_mem[i], also behind size() after a clear(): an  *)
(* index without a bounds check reads that slot, whatever is in it now.    *)
(***************************************************************************)
EXTENDS Naturals, Sequences, FiniteSets

CONSTANTS
  Folders, Tracks, Devices, Contents, Rank, MaxItems, \* as in Folder
  max_listings, \* entries on a page
  MaxClicks     \* bound: how many times the user acts

VARIABLES
  current_path, parsing_dir, halt, bTermThread,
  dir,              \* the open directory: its folder and what is unread of it
  list_mem,         \* the slots
  total_num_files,  \* slots in use, also list.size()
  filled,           \* slots ever used
  current_position, dirpos,
  finder, n, j, swapped,  \* finder_thread: where it is, and its sort
  torn,             \* auxiliary: the path was changed since the request
  gui,              \* the GUI thread: where it is, and the index it has read
  clicks

ASSUME FolderAssumption ==
  /\ Devices \subseteq Folders
  /\ Contents \in [Folders -> SUBSET DOMAIN Rank]
  /\ Folders \cup Tracks \subseteq DOMAIN Rank
  /\ Folders \cap Tracks = {}
  /\ \A f \in Folders : IsFiniteSet(Contents[f])
  /\ Rank \in [DOMAIN Rank -> Nat]
  /\ MaxItems \in Nat \ {0}

ASSUME PagesAssumption == max_listings \in Nat \ {0} /\ MaxClicks \in Nat

listvars   == <<list_mem, total_num_files, filled>>
pathvars   == <<current_path, parsing_dir, torn, dirpos>>
findervars == <<dir, finder, n, j, swapped>>
guivars    == <<gui, clicks>>
filesvars  == <<listvars, pathvars, findervars, guivars, current_position, halt,
                bTermThread>>

Slots == 0 .. MaxItems - 1
NoEntry == [at |-> "none", name |-> "none", isfolder |-> FALSE]

list == [i \in 1 .. total_num_files |-> list_mem[i - 1]]

Browser == INSTANCE Folder WITH
  shown <- current_path, busy <- parsing_dir,
  listing <- IF parsing_dir THEN <<>> ELSE list

FilesInit ==
  /\ current_path \in Devices /\ torn = FALSE
  /\ parsing_dir = FALSE /\ halt = FALSE /\ bTermThread = FALSE
  /\ dir = [at |-> current_path, unread |-> {}]
  /\ list_mem = [i \in Slots |-> NoEntry]
  /\ total_num_files = 0 /\ filled = 0
  /\ current_position = 0 /\ dirpos = [f \in {} |-> 0]
  /\ finder = "idle" /\ n = 0 /\ j = 0 /\ swapped = FALSE
  /\ gui = [at |-> "loop", arg |-> 0] /\ clicks = 0

-----------------------------------------------------------------------------
(* finder_thread.                                                          *)
FinderOpen ==
  /\ finder = "idle" /\ ~bTermThread
  /\ parsing_dir
  /\ dir' = [at |-> current_path, unread |-> Contents[current_path]]
  /\ finder' = "clear"
  /\ UNCHANGED <<listvars, pathvars, n, j, swapped, current_position, halt, bTermThread>>

find_dir_pos == IF current_path \in DOMAIN dirpos THEN dirpos[current_path] ELSE 0

FinderClear ==
  /\ finder = "clear"
  /\ current_position' = find_dir_pos
  /\ total_num_files' = 0
  /\ halt' = FALSE
  /\ finder' = "read"
  /\ UNCHANGED <<pathvars, list_mem, filled, dir, n, j, swapped, bTermThread>>

(* stat of the composed path tells whether it is a folder; when the path   *)
(* was changed meanwhile there is no such file, and fstat is left as it is.*)
MayBeFolder(name) == IF current_path = dir.at THEN {name \in Folders} ELSE BOOLEAN

Max2(a, b) == IF a > b THEN a ELSE b

add_file(name, isfolder) ==
  IF isfolder \/ name \in Tracks
    THEN /\ list_mem' = [list_mem EXCEPT ![total_num_files] =
               [at |-> current_path, name |-> name, isfolder |-> isfolder]]
         /\ total_num_files' = total_num_files + 1
         /\ filled' = Max2(filled, total_num_files + 1)
    ELSE UNCHANGED listvars

FinderReadBoundless == \* mutant of FinderRead: MAX_FILE_ITEMS is one too late
  /\ finder = "read"
  /\ total_num_files < MaxItems
  /\ \E name \in dir.unread :
       /\ dir' = [dir EXCEPT !.unread = @ \ {name}]
       /\ \E isfolder \in MayBeFolder(name) : add_file(name, isfolder)
  /\ UNCHANGED <<pathvars, finder, n, j, swapped, current_position, halt, bTermThread>>

FinderRead ==     \* directory_list, one entry, in any order
  /\ finder = "read"
  /\ total_num_files < MaxItems - 1
  /\ \E name \in dir.unread :
       /\ dir' = [dir EXCEPT !.unread = @ \ {name}]
       /\ \E isfolder \in MayBeFolder(name) : add_file(name, isfolder)
  /\ UNCHANGED <<pathvars, finder, n, j, swapped, current_position, halt, bTermThread>>

FinderEnd ==      \* no entry left, or no slot
  /\ finder = "read"
  /\ dir.unread = {} \/ total_num_files >= MaxItems - 1
  /\ halt' = TRUE
  /\ finder' = "halted"
  /\ UNCHANGED <<listvars, pathvars, dir, n, j, swapped, current_position, bTermThread>>

FinderHalted ==   \* the destructor may halt the reading, too
  /\ finder \in {"read", "halted"}
  /\ halt
  /\ halt' = FALSE
  /\ n' = total_num_files /\ j' = 1 /\ swapped' = FALSE
  /\ finder' = IF total_num_files > 1 THEN "sort" ELSE "sorted"
  /\ UNCHANGED <<listvars, pathvars, dir, current_position, bTermThread>>

FinderCompareSilently == \* mutant of FinderCompare: done is not set
  /\ finder = "sort"
  /\ j < n
  /\ IF Browser!Before(list_mem[j - 1], list_mem[j])
       THEN UNCHANGED list_mem
       ELSE list_mem' = [list_mem EXCEPT ![j - 1] = list_mem[j],
                                         ![j] = list_mem[j - 1]]
  /\ j' = j + 1
  /\ UNCHANGED <<pathvars, total_num_files, filled, dir, finder, n, swapped,
                 current_position, halt, bTermThread>>

FinderCompare ==
  /\ finder = "sort"
  /\ j < n
  /\ IF Browser!Before(list_mem[j - 1], list_mem[j])
       THEN UNCHANGED <<list_mem, swapped>>
       ELSE /\ list_mem' = [list_mem EXCEPT ![j - 1] = list_mem[j],
                                            ![j] = list_mem[j - 1]]
            /\ swapped' = TRUE
  /\ j' = j + 1
  /\ UNCHANGED <<pathvars, total_num_files, filled, dir, finder, n, current_position,
                 halt, bTermThread>>

FinderPassForever == \* mutant of FinderPass: --n is forgotten
  /\ finder = "sort"
  /\ j >= n
  /\ n' = n
  /\ j' = 1
  /\ swapped' = FALSE
  /\ finder' = IF halt \/ ~swapped THEN "sorted" ELSE "sort"
  /\ UNCHANGED <<listvars, pathvars, dir, current_position, halt, bTermThread>>

FinderPass ==     \* the end of one pass
  /\ finder = "sort"
  /\ j >= n
  /\ n' = n - 1
  /\ j' = 1
  /\ swapped' = FALSE
  /\ finder' = IF halt \/ ~swapped THEN "sorted" ELSE "sort"
  /\ UNCHANGED <<listvars, pathvars, dir, current_position, halt, bTermThread>>

FinderDone ==
  /\ finder = "sorted"
  /\ parsing_dir' = FALSE
  /\ finder' = "idle"
  /\ UNCHANGED <<listvars, current_path, torn, dirpos, dir, n, j, swapped,
                 current_position, halt, bTermThread>>

FinderExit ==
  /\ finder = "idle" /\ bTermThread
  /\ finder' = "ended"
  /\ UNCHANGED <<listvars, pathvars, dir, n, j, swapped, current_position, halt,
                 bTermThread>>

Finder ==
  /\ \/ FinderOpen \/ FinderClear \/ FinderRead \/ FinderEnd \/ FinderHalted
     \/ FinderCompare \/ FinderPass \/ FinderDone \/ FinderExit
  /\ UNCHANGED guivars

-----------------------------------------------------------------------------
(* The GUI thread.                                                         *)
Click ==
  /\ gui.at = "loop"
  /\ clicks < MaxClicks
  /\ clicks' = clicks + 1

Goto(label, arg) == gui' = [at |-> label, arg |-> arg]
Back == gui' = [gui EXCEPT !.at = "loop"]

(* directory_list_start, when the finder is not already working.           *)
save_dir_pos ==
  dirpos' = [f \in DOMAIN dirpos \cup {current_path} |->
               IF f = current_path THEN current_position ELSE dirpos[f]]

directory_list_start(path, dirup) ==
  IF parsing_dir
    THEN UNCHANGED <<pathvars, halt>>
    ELSE /\ halt' = TRUE
         /\ current_path' = path
         /\ parsing_dir' = TRUE /\ torn' = FALSE
         /\ IF dirup THEN UNCHANGED dirpos ELSE save_dir_pos

ClickLocalBrowser ==
  /\ Click
  /\ directory_list_start(current_path, TRUE)
  /\ UNCHANGED <<listvars, findervars, gui, current_position, bTermThread>>

Parents == {f \in Folders : current_path \in Contents[f]}

ClickDirUp ==
  /\ Click
  /\ \E f \in Parents : directory_list_start(f, TRUE)
  /\ UNCHANGED <<listvars, findervars, gui, current_position, bTermThread>>

(* click_set_local_loc: reset_location stores the path without asking, and *)
(* directory_list_start then asks whether the finder is working.           *)
ClickDevice ==
  /\ Click
  /\ current_path' \in Devices
  /\ torn' = TRUE
  /\ Goto("device", 0)
  /\ UNCHANGED <<listvars, findervars, parsing_dir, dirpos, current_position, halt,
                 bTermThread>>

StartDevice ==
  /\ gui.at = "device"
  /\ directory_list_start(current_path, TRUE)
  /\ Back
  /\ UNCHANGED <<listvars, findervars, clicks, current_position, bTermThread>>

(* click_next and click_back compute the new position, SetPosition clamps  *)
(* it to the list, which may be another one by then.                       *)
ClickNext ==
  /\ Click
  /\ current_position + max_listings < total_num_files
  /\ Goto("page", current_position + max_listings)
  /\ UNCHANGED <<listvars, pathvars, findervars, current_position, halt, bTermThread>>

ClickBack ==
  /\ Click
  /\ Goto("page", IF current_position < max_listings THEN 0
                     ELSE current_position - max_listings)
  /\ UNCHANGED <<listvars, pathvars, findervars, current_position, halt, bTermThread>>

SetPosition ==
  /\ gui.at = "page"
  /\ current_position' = IF gui.arg > total_num_files THEN total_num_files ELSE gui.arg
  /\ Back
  /\ UNCHANGED <<listvars, pathvars, findervars, clicks, halt, bTermThread>>

(* click_item compares the index with list.size() and then uses it.        *)
ClickItem ==
  /\ Click
  /\ \E object_id \in 0 .. max_listings - 1 :
       /\ object_id + current_position < total_num_files
       /\ Goto("item", object_id + current_position)
  /\ UNCHANGED <<listvars, pathvars, findervars, current_position, halt, bTermThread>>

(* An entry of a torn list may name no folder at all; that opendir fails   *)
(* then, which on the Wii lists nothing, is left out.                      *)
OpenFolder ==
  /\ gui.at = "item"
  /\ list_mem[gui.arg].isfolder
  /\ LET e == list_mem[gui.arg]
     IN IF e.name \in Folders /\ e.name \in Contents[e.at]
          THEN directory_list_start(e.name, FALSE)
          ELSE UNCHANGED <<pathvars, halt>>
  /\ Back
  /\ UNCHANGED <<listvars, findervars, clicks, current_position, bTermThread>>

(* ~localfiles: both flags, then the finder is joined.                     *)
LeaveHaltOnly == \* mutant of Leave: bTermThread is forgotten
  /\ gui.at = "loop"
  /\ halt' = TRUE
  /\ torn' = TRUE
  /\ Goto("join", 0)
  /\ UNCHANGED <<listvars, current_path, parsing_dir, dirpos, findervars, clicks,
                 current_position, bTermThread>>

Leave ==
  /\ gui.at = "loop"
  /\ bTermThread' = TRUE /\ halt' = TRUE
  /\ torn' = TRUE
  /\ Goto("join", 0)
  /\ UNCHANGED <<listvars, current_path, parsing_dir, dirpos, findervars, clicks,
                 current_position>>

LeaveJoin ==
  /\ gui.at = "join"
  /\ finder = "ended"
  /\ Goto("left", 0)
  /\ UNCHANGED <<listvars, pathvars, findervars, clicks, current_position, halt,
                 bTermThread>>

BrowserClick == ClickLocalBrowser \/ ClickDirUp \/ ClickDevice \/ ClickNext
                \/ ClickBack \/ ClickItem \/ Leave
BrowserStep == StartDevice \/ SetPosition \/ OpenFolder \/ LeaveJoin
=============================================================================
