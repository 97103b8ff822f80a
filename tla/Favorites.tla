----------------------------- MODULE Favorites -----------------------------
(***************************************************************************)
(* The favorites: a list in memory, and a directory of playlist files that *)
(* it is loaded from when the program starts and after every save.  A file *)
(* that the program writes has one entry and is named after its station,   *)
(* with the characters a file system refuses made blanks; one that was     *)
(* copied there may have several.  Saving truncates the file first, and    *)
(* the program may be switched off at any moment.                          *)
(***************************************************************************)
EXTENDS ListViews

CONSTANTS
  Names,        \* names of stations
  FileOf,       \* friendly_name: the file that a station is saved in
  OnDisk        \* the files at the beginning, each a sequence of names

Files == DOMAIN OnDisk \cup {FileOf[x] : x \in Names}

ASSUME FavoritesAssumption ==
  /\ FileOf \in [Names -> Files]
  /\ OnDisk \in [DOMAIN OnDisk -> Seq(Names)] /\ IsFiniteSet(DOMAIN OnDisk)

VARIABLES
  disk,         \* the files that exist, and what is in them
  fav,          \* the list: names, and the file each came from
  fav_total, fav_position

favvars == <<disk, fav, fav_total, fav_position>>

(* load_file, for every file in the order that readdir has.                *)
Entries(file) == [i \in 1 .. Len(disk[file]) |-> [name |-> disk[file][i], file |-> file]]

Orders(S) == {o \in [1 .. Cardinality(S) -> S] : \A i, k \in DOMAIN o : o[i] = o[k] => i = k}

Loaded(order) ==
  LET upto[i \in 0 .. Len(order)] ==
        IF i = 0 THEN <<>> ELSE upto[i - 1] \o Entries(order[i])
  IN upto[Len(order)]

load_favorites ==
  /\ \E order \in Orders(DOMAIN disk) : fav' = Loaded(order)
  /\ fav_total' = Len(fav')

FavoritesInit ==
  /\ disk = OnDisk
  /\ \E order \in Orders(DOMAIN disk) : fav = Loaded(order)
  /\ fav_total = Len(fav) /\ fav_position = 0
  /\ current_lv = FirstView(fav_total)

-----------------------------------------------------------------------------
(* The GUI thread; nobody else writes the list.                            *)
ClickAdd ==     \* click_add, while a station plays, whatever its name
  /\ Click
  /\ \E x \in Names : Goto("truncate", x)
  /\ UNCHANGED <<favvars, connect_mutex, listviews_mutex, current_lv, rows, request>>

SaveOpens ==    \* save_pls: fopen, which may fail
  /\ gui.at = "truncate"
  /\ \/ disk' = [f \in DOMAIN disk \cup {FileOf[gui.arg]} |->
                   IF f = FileOf[gui.arg] THEN <<>> ELSE disk[f]]
        /\ Goto("write", gui.arg)
     \/ UNCHANGED disk /\ Goto("load", gui.arg)
  /\ UNCHANGED <<fav, fav_total, fav_position, connect_mutex, listviews_mutex, current_lv,
                 rows, request, clicks>>

SaveWrites ==
  /\ gui.at = "write"
  /\ disk' = [disk EXCEPT ![FileOf[gui.arg]] = <<gui.arg>>]
  /\ Goto("load", gui.arg)
  /\ UNCHANGED <<fav, fav_total, fav_position, connect_mutex, listviews_mutex, current_lv,
                 rows, request, clicks>>

SaveLoads ==
  /\ gui.at = "load"
  /\ load_favorites
  /\ Back
  /\ UNCHANGED <<disk, fav_position, connect_mutex, listviews_mutex, current_lv, rows,
                 request, clicks>>

RemoveAt(s, i) == SubSeq(s, 1, i - 1) \o SubSeq(s, i + 1, Len(s))

delete_favorite_unpaged(item) == \* mutant of delete_favorite: erases the row
  LET row == item - fav_position
  IN /\ disk' = [f \in DOMAIN disk \ {fav[item + 1].file} |-> disk[f]]
     /\ fav' = RemoveAt(fav, row + 1)
     /\ fav_total' = fav_total - 1

delete_favorite(item) ==
  /\ item < Len(fav)
  /\ disk' = [f \in DOMAIN disk \ {fav[item + 1].file} |-> disk[f]]
  /\ fav' = RemoveAt(fav, item + 1)
  /\ fav_total' = fav_total - 1

ClickDelete ==
  /\ Click /\ current_lv = "S_PLAYLISTS"
  /\ \E object_id \in Objects :
       /\ object_id + fav_position < fav_total
       /\ delete_favorite(object_id + fav_position)
  /\ UNCHANGED <<fav_position, connect_mutex, listviews_mutex, current_lv, rows, request,
                 gui>>

ClickNextFavorites ==
  /\ Click /\ current_lv = "S_PLAYLISTS"
  /\ MayMoveNext(fav_position, fav_total)
  /\ fav_position' = fav_position + view_max
  /\ UNCHANGED <<disk, fav, fav_total, connect_mutex, listviews_mutex, current_lv, rows,
                 request, gui>>

ClickPriorUnclamped == \* mutant of ClickPriorFavorites
  /\ Click /\ current_lv = "S_PLAYLISTS"
  /\ fav_position' = fav_position - view_max
  /\ UNCHANGED <<disk, fav, fav_total, connect_mutex, listviews_mutex, current_lv, rows,
                 request, gui>>

ClickPriorFavorites ==
  /\ Click /\ current_lv = "S_PLAYLISTS"
  /\ fav_position' = IF fav_position - view_max <= 0 THEN 0 ELSE fav_position - view_max
  /\ UNCHANGED <<disk, fav, fav_total, connect_mutex, listviews_mutex, current_lv, rows,
                 request, gui>>

ClickFavorite == \* click_item compares the row, new_connection adds the position
  /\ Click /\ current_lv = "S_PLAYLISTS"
  /\ \E object_id \in Objects :
       /\ object_id < fav_total
       /\ request' = [info |-> "I_PLAYLIST", value |-> object_id]
  /\ UNCHANGED <<favvars, connect_mutex, listviews_mutex, current_lv, rows, gui>>

FavoriteClick == ClickAdd \/ ClickDelete \/ ClickNextFavorites \/ ClickPriorFavorites
                 \/ ClickFavorite
FavoriteStep == SaveOpens \/ SaveWrites \/ SaveLoads
=============================================================================
