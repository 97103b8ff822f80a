------------------------------- MODULE Lists -------------------------------
(***************************************************************************)
(* The lists on the screen together: the GUI thread shows and clicks them, *)
(* search_thread fills the one of the stations, the favorites come and go  *)
(* with their files, and critical_thread looks up what was clicked.  The   *)
(* program may be switched off at any moment; the files stay.              *)
(***************************************************************************)
EXTENDS Search, Favorites

vars == <<viewvars, stationvars, favvars>>

Init == ViewsInit /\ SearchInit /\ FavoritesInit

(* new_connection for a favorite: GetItem adds the position that the list  *)
(* has by now; the entry is copied at once.                                *)
ResolveFavorite ==
  /\ critical = "idle" /\ request.info = "I_PLAYLIST"
  /\ P_connect("critical")
  /\ critical' = IF request.value + fav_position < Len(fav) THEN "connect" ELSE "failed"
  /\ UNCHANGED <<favvars, listvars, searchvars, listviews_mutex, current_lv, rows,
                 request, gui, clicks>>

Restart ==
  /\ clicks < MaxClicks
  /\ clicks' = clicks + 1
  /\ connect_mutex' = Free /\ listviews_mutex' = [owner |-> Free, depth |-> 0]
  /\ rows' = {} /\ request' = NoRequest
  /\ gui' = [at |-> "loop", arg |-> 0]
  /\ sl' = <<>> /\ total' = 0 /\ position' = 0
  /\ search' = "none" /\ wnd' = 0 /\ critical' = "idle"
  /\ load_favorites /\ fav_position' = 0
  /\ current_lv' = FirstView(fav_total')
  /\ UNCHANGED <<disk, buf, genre, setup>>

Searching == SearchThread /\ UNCHANGED favvars
Resolving == (CriticalThread /\ UNCHANGED favvars) \/ ResolveFavorite
GuiStep   == (StationStep /\ UNCHANGED favvars) \/ (FavoriteStep /\ UNCHANGED stationvars)
User      == \/ StationClick /\ UNCHANGED favvars
             \/ FavoriteClick /\ UNCHANGED stationvars

Next == Searching \/ Resolving \/ GuiStep \/ User \/ Restart

Spec == Init /\ [][Next]_vars

(* Every thread runs on.  The GUI loop sleeps between two frames, so that  *)
(* listviews_mutex is free most of the time: a search that waits for it    *)
(* gets it, although the GUI takes it again and again.                     *)
Fairness == SF_vars(Searching) /\ WF_vars(Resolving) /\ WF_vars(GuiStep)

FairSpec == Spec /\ Fairness

-----------------------------------------------------------------------------
TypeOK ==
  /\ connect_mutex \in {Free, "search", "critical"}
  /\ listviews_mutex \in [owner : {Free, Gone, "gui", "search"}, depth : 0 .. 2]
  /\ current_lv \in Views /\ rows \subseteq Objects
  /\ request.info \in {"none", "I_STATION", "I_PLAYLIST"} /\ request.value \in Objects
  /\ gui.at \in {"loop", "join", "page", "frame", "draw", "truncate", "write", "load"}
  /\ sl \in Seq(Genres) /\ total \in Nat /\ position \in Int
  /\ buf \in Genres /\ genre \in Genres /\ setup \in Setups /\ wnd \in {0, 8}
  /\ search \in {"none", "start", "clear", "clearing", "cleared", "download", "again",
                 "parse", "count", "close", "exit", "ended"}
  /\ critical \in {"idle", "dial", "connect", "failed", "result"}
  /\ DOMAIN disk \subseteq Files
  /\ fav \in Seq([name : Names, file : Files]) /\ fav_position \in Nat

(* Whom a thread waits for: the search it joins, or the owner of the mutex *)
(* in front of it, unless that is itself.                                  *)
Threads == {"gui", "search", "critical"}

AtListviews(t) == \/ t = "gui" /\ gui.at = "frame"
                  \/ t = "search" /\ search \in {"clear", "download", "again"}
AtConnect(t) == \/ t = "search" /\ search = "start"
                \/ t = "critical" /\ critical = "idle" /\ request # NoRequest

WaitsFor(t, u) ==
  \/ t = "gui" /\ gui.at = "join" /\ u = "search" /\ search \notin {"none", "ended"}
  \/ AtListviews(t) /\ listviews_mutex.owner = u /\ u # t
  \/ AtConnect(t) /\ connect_mutex = u

(* Whoever waits, waits in the end for a thread that can go on: no threads *)
(* wait for each other in a circle, no search ends with connect_mutex, and *)
(* none ends with listviews_mutex but an Icecast search on a system that   *)
(* does not pass the mutex on.                                             *)
WaitsEnd ==
  /\ \A S \in SUBSET Threads : S # {} => \E t \in S : \A u \in S : ~WaitsFor(t, u)
  /\ connect_mutex = "search" => search \notin {"none", "start", "ended"}
  /\ listviews_mutex.owner = Gone => setup = <<"ICECAST", FALSE>>

(* While nobody is inside listviews_mutex the number of stations, which    *)
(* drawing, paging and looking up go by, is the length of the list.        *)
ListWhole == listviews_mutex.owner = Free => total = Len(sl)

(* The list never mixes two searches: outside listviews_mutex it holds     *)
(* only stations of the genre that was searched for last, from the moment  *)
(* on that its search has emptied it.                                      *)
OneSearch ==
  search \notin {"start", "clear", "clearing"} => \A i \in DOMAIN sl : sl[i] = buf

(* The list does not change under the pointer into it that new_connection  *)
(* holds while it downloads the playlist of a station.                     *)
ResolveStable == [][critical = "dial" /\ critical' = "dial" => UNCHANGED sl]_vars

(* The favorites that are listed are those on the disk: every entry of     *)
(* every file, once; deleting one of several entries of a file removes the *)
(* file and leaves the others in the list.  A save that is under way may   *)
(* differ, also when it was interrupted: then the program has restarted.   *)
FromFile(file) == {i \in DOMAIN fav : fav[i].file = file}

FavoritesOnDisk ==
  gui.at \notin {"write", "load"} =>
    /\ fav_total = Len(fav)
    /\ \A file \in Files :
         IF file \in DOMAIN disk
           THEN /\ Cardinality(FromFile(file)) = Len(disk[file])
                /\ \A i \in FromFile(file) : \E k \in DOMAIN disk[file] :
                     fav[i].name = disk[file][k]
           ELSE file \notin DOMAIN OnDisk \/ Len(OnDisk[file]) = 1 => FromFile(file) = {}

(* A frame that has to wait for listviews_mutex is drawn in the end.       *)
DrawsAgain == gui.at = "frame" ~> gui.at = "loop"

(* The window that says a search is running goes away.                     *)
WindowCloses == wnd = 8 ~> wnd = 0

(* critical_thread looks up a station or a favorite that was clicked,      *)
(* although a search holds connect_mutex as long as it takes: the one that *)
(* was clicked last, unless the program is switched off before.  This is   *)
(* for requests that find critical_thread idle.  One that is made between  *)
(* the look-up of another and the storing of its result is lost.           *)
RequestsAnswered ==
  \A r \in [info : {"I_STATION", "I_PLAYLIST"}, value : Objects] :
    critical = "idle" /\ request = r ~>
      \/ critical # "idle" /\ request = r
      \/ critical = "idle" /\ request # r
=============================================================================
