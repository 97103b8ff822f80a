---------------------------- MODULE ListsProofs ----------------------------
(***************************************************************************)
(* What the two mutexes guarantee about the list of the stations, for      *)
(* every number of rows, clicks, genres and stations, on every system.     *)
(***************************************************************************)
EXTENDS Lists, FiniteSetTheorems, TLAPS

(* connect_mutex belongs to search_thread while it runs and to             *)
(* critical_thread while it resolves.                                      *)
ConnectInv ==
  /\ connect_mutex \in {Free, "search", "critical"}
  /\ connect_mutex = "search" <=> search \notin {"none", "start", "ended"}
  /\ connect_mutex = "critical" <=> Resolved

(* listviews_mutex belongs to the thread that touches the list, and to     *)
(* none in the middle of a download; a search that is about to end may     *)
(* still have it.                                                          *)
ListviewsInv ==
  /\ listviews_mutex \in [owner : {Free, Gone, "gui", "search"}, depth : Nat]
  /\ listviews_mutex.owner = Free <=> listviews_mutex.depth = 0
  /\ listviews_mutex.owner = "gui" <=> gui.at = "draw"
  /\ gui.at = "draw" => listviews_mutex.depth = 1
  /\ listviews_mutex.owner = "search" =>
       search \in {"clearing", "cleared", "again", "parse", "count", "close", "exit"}
  /\ search \in {"clearing", "cleared", "again"} =>
       listviews_mutex = [owner |-> "search", depth |-> 1]
  /\ search \in {"parse", "count"} => listviews_mutex.owner = "search"

(* What is in the list, step by step.                                      *)
StationsInv ==
  /\ buf \in Genres /\ genre \in Genres
  /\ gui.at = "join" => gui.arg \in Genres
  /\ sl \in Seq(Genres) /\ total \in Nat
  /\ total = IF search = "count" THEN Len(sl) - 1 ELSE Len(sl)
  /\ search \notin {"none", "start"} => genre = buf
  /\ OneSearch

IInv == ConnectInv /\ ListviewsInv /\ StationsInv

LEMMA InitInv == Init => IInv
  BY DEF Init, ViewsInit, SearchInit, IInv, ConnectInv, Resolved, ListviewsInv, StationsInv,
         OneSearch, Free, Gone

-----------------------------------------------------------------------------
(* search_thread.                                                          *)
LEMMA SearchConnect == ConnectInv /\ SearchThread => ConnectInv'
  BY DEF ConnectInv, Resolved, SearchThread, SearchStarts, Locks, Unlocks, ClearList, Fails, Parses,
         AddStation, CountStation, Parsed, ClosesWindow, SearchEnds, To, P_connect,
         V_connect, viewvars, Free

LEMMA SearchListviews == ListviewsInv /\ SearchThread => ListviewsInv'
<1> SUFFICES ASSUME ListviewsInv, SearchThread PROVE ListviewsInv'
  OBVIOUS
<1> USE DEF ListviewsInv, To, Free, Gone
<1>1. CASE SearchStarts \/ ClearList \/ Fails \/ AddStation \/ CountStation \/ ClosesWindow
  BY <1>1 DEF SearchStarts, ClearList, Fails, AddStation, CountStation, ClosesWindow,
              viewvars
<1>2. ASSUME NEW to \in {"clearing", "again"}, NEW from \in {"clear", "download"},
             Locks(from, to)
      PROVE  ListviewsInv'
  BY <1>2 DEF Locks, P_listviews
<1>3. ASSUME NEW from \in {"download", "again"}, Locks(from, "parse")
      PROVE  ListviewsInv'
  BY <1>3 DEF Locks, P_listviews
<1>4. CASE Unlocks("cleared", "download") \/ Parsed
  BY <1>4 DEF Unlocks, Parsed, V_listviews
<1>5. CASE SearchEnds
  BY <1>5 DEF SearchEnds, Abandoned
<1> QED
  BY <1>1, <1>2, <1>3, <1>4, <1>5 DEF SearchThread, Parses

LEMMA SearchStations == StationsInv /\ SearchThread => StationsInv'
<1> SUFFICES ASSUME StationsInv, SearchThread PROVE StationsInv'
  OBVIOUS
<1> USE DEF StationsInv, OneSearch, To
<1>1. CASE SearchStarts
  BY <1>1 DEF SearchStarts, listvars
<1>2. CASE ClearList
  BY <1>2 DEF ClearList, viewvars
<1>3. CASE AddStation
  BY <1>3 DEF AddStation, viewvars
<1>4. CASE CountStation
  BY <1>4 DEF CountStation, viewvars
<1>5. CASE Fails \/ ClosesWindow \/ SearchEnds
  BY <1>5 DEF Fails, ClosesWindow, SearchEnds, viewvars, listvars
<1>6. CASE Locks("clear", "clearing") \/ Parses \/ Unlocks("cleared", "download") \/ Parsed
  BY <1>6 DEF Locks, Parses, Unlocks, Parsed, listvars
<1> QED
  BY <1>1, <1>2, <1>3, <1>4, <1>5, <1>6 DEF SearchThread
-----------------------------------------------------------------------------
(* The GUI thread: it writes neither connect_mutex nor the list, and takes *)
(* listviews_mutex to draw only.                                           *)
Gui == StationStep \/ StationClick \/ FavoriteStep \/ FavoriteClick

GuiLeaves ==
  UNCHANGED <<connect_mutex, listviews_mutex, sl, total, genre, setup, critical>>

LEMMA FavoritesLeave ==
  (FavoriteStep \/ FavoriteClick) /\ UNCHANGED stationvars =>
    /\ GuiLeaves /\ UNCHANGED <<buf, search>>
    /\ gui.at \in {"loop", "truncate", "write", "load"}
    /\ gui'.at \in {"loop", "truncate", "write", "load"}
<1> SUFFICES ASSUME FavoriteStep \/ FavoriteClick, UNCHANGED stationvars
             PROVE  /\ GuiLeaves /\ UNCHANGED <<buf, search>>
                    /\ gui.at \in {"loop", "truncate", "write", "load"}
                    /\ gui'.at \in {"loop", "truncate", "write", "load"}
  OBVIOUS
<1> USE DEF GuiLeaves, stationvars, listvars, searchvars, Click, Goto, Back
<1>1. CASE ClickAdd \/ ClickFavorite
  BY <1>1 DEF ClickAdd, ClickFavorite
<1>2. CASE ClickDelete \/ ClickNextFavorites \/ ClickPriorFavorites
  BY <1>2 DEF ClickDelete, ClickNextFavorites, ClickPriorFavorites
<1>3. CASE FavoriteStep
  BY <1>3 DEF FavoriteStep, SaveOpens, SaveWrites, SaveLoads
<1> QED
  BY <1>1, <1>2, <1>3 DEF FavoriteClick

LEMMA StationsLeave ==
  StationClick \/ SearchAgain \/ Page \/ DrawTakesLists =>
    /\ GuiLeaves
    /\ gui.at # "draw" /\ gui'.at # "draw"
    /\ gui'.at = "join" => gui'.arg \in Genres
    /\ UNCHANGED <<buf, search>> \/ SearchAgain
<1> SUFFICES ASSUME StationClick \/ SearchAgain \/ Page \/ DrawTakesLists
             PROVE  /\ GuiLeaves
                    /\ gui.at # "draw" /\ gui'.at # "draw"
                    /\ gui'.at = "join" => gui'.arg \in Genres
                    /\ UNCHANGED <<buf, search>> \/ SearchAgain
  OBVIOUS
<1> USE DEF GuiLeaves, stationvars, listvars, searchvars, Click, Goto, Back
<1>1. CASE ClickGenre
  BY <1>1 DEF ClickGenre
<1>2. CASE ClickView \/ ClickStation
  BY <1>2 DEF ClickView, ClickStation
<1>3. CASE ClickNextPage \/ ClickPriorPage
  BY <1>3 DEF ClickNextPage, ClickPriorPage
<1>4. CASE SearchAgain \/ Page \/ DrawTakesLists
  BY <1>4 DEF SearchAgain, Page, DrawTakesLists
<1> QED
  BY <1>1, <1>2, <1>3, <1>4 DEF StationClick

LEMMA GuiInv ==
  ASSUME IInv,
         \/ (StationStep \/ StationClick) /\ UNCHANGED favvars
         \/ (FavoriteStep \/ FavoriteClick) /\ UNCHANGED stationvars
  PROVE  IInv'
<1> USE DEF IInv, ConnectInv, Resolved, ListviewsInv, StationsInv, OneSearch, Free, Gone
<1>1. CASE (FavoriteStep \/ FavoriteClick) /\ UNCHANGED stationvars
  BY <1>1, FavoritesLeave DEF GuiLeaves
<1>2. CASE SearchAgain
  <2>1. GuiLeaves /\ gui.at = "join" /\ gui'.at = "loop" /\ search \in {"none", "ended"}
        /\ buf' = gui.arg /\ search' = "start"
    BY <1>2, StationsLeave DEF SearchAgain, Back, Goto
  <2> QED
    BY <2>1 DEF GuiLeaves
<1>3. CASE (StationClick \/ Page \/ DrawTakesLists) /\ ~SearchAgain
  BY <1>3, StationsLeave DEF GuiLeaves
<1>4. CASE DrawLocks
  BY <1>4 DEF DrawLocks, P_listviews, Goto, stationvars, listvars, searchvars
<1>5. CASE Draw
  BY <1>5 DEF Draw, V_listviews, Back, Goto, stationvars, listvars, searchvars
<1> QED
  BY <1>1, <1>2, <1>3, <1>4, <1>5 DEF StationStep

-----------------------------------------------------------------------------
LEMMA ResolvingInv == IInv /\ Resolving => IInv'
<1> SUFFICES ASSUME IInv, Resolving PROVE IInv'
  OBVIOUS
<1> USE DEF IInv, ConnectInv, Resolved, ListviewsInv, StationsInv, OneSearch, Free, P_connect,
            V_connect, listvars, searchvars
<1>1. CASE Resolve \/ ResolveFavorite
  BY <1>1 DEF Resolve, ResolveFavorite
<1>2. CASE ResolveEnds \/ StoreResult
  BY <1>2 DEF ResolveEnds, StoreResult
<1> QED
  BY <1>1, <1>2 DEF Resolving, CriticalThread

LEMMA RestartInv == IInv /\ Restart => IInv'
  BY DEF IInv, ConnectInv, Resolved, ListviewsInv, StationsInv, OneSearch, Restart, Free, Gone

LEMMA NextInv == IInv /\ [Next]_vars => IInv'
<1> SUFFICES ASSUME IInv, [Next]_vars PROVE IInv'
  OBVIOUS
<1>1. CASE Searching
  <2>1. ConnectInv' /\ ListviewsInv' /\ StationsInv'
    BY <1>1, SearchConnect, SearchListviews, SearchStations DEF IInv, Searching
  <2> QED
    BY <2>1 DEF IInv
<1>2. CASE GuiStep \/ User
  BY <1>2, GuiInv DEF GuiStep, User
<1>3. CASE UNCHANGED vars
  BY <1>3 DEF vars, viewvars, stationvars, listvars, searchvars, IInv, ConnectInv, Resolved,
              ListviewsInv, StationsInv, OneSearch
<1> QED
  BY <1>1, <1>2, <1>3, ResolvingInv, RestartInv DEF Next

LEMMA InvHolds == Spec => []IInv
  BY InitInv, NextInv, PTL DEF Spec

-----------------------------------------------------------------------------
(* Who takes listviews_mutex twice keeps it once: how deep a search is in  *)
(* it while it parses, and that only Icecast's ends inside.                *)
DepthInv ==
  /\ setup \in {"SHOUTCAST", "ICECAST"} \X BOOLEAN
  /\ search = "again" => setup[1] = "ICECAST"
  /\ search \in {"parse", "count"} =>
       listviews_mutex.depth = IF setup[1] = "ICECAST" THEN 2 ELSE 1
  /\ search \in {"close", "exit"} /\ listviews_mutex.owner = "search" =>
       setup[1] = "ICECAST"
  /\ listviews_mutex.owner = Gone => setup[1] = "ICECAST" /\ setup[2] = FALSE

LEMMA SearchDepth == ListviewsInv /\ DepthInv /\ SearchThread => DepthInv'
<1> SUFFICES ASSUME ListviewsInv, DepthInv, SearchThread PROVE DepthInv'
  OBVIOUS
<1> USE DEF ListviewsInv, DepthInv, To, Free, Gone
<1>1. CASE SearchStarts \/ ClearList \/ Fails \/ AddStation \/ CountStation \/ ClosesWindow
  BY <1>1 DEF SearchStarts, ClearList, Fails, AddStation, CountStation, ClosesWindow,
              viewvars
<1>2. CASE Locks("clear", "clearing")
  BY <1>2 DEF Locks, P_listviews
<1>3. CASE Parses
  <2>1. CASE search = "download" /\ setup[1] = "ICECAST"
    BY <1>3, <2>1 DEF Parses, Locks, P_listviews
  <2>2. CASE search = "download" /\ setup[1] # "ICECAST"
    BY <1>3, <2>2 DEF Parses, Locks, P_listviews
  <2>3. CASE search = "again"
    BY <1>3, <2>3 DEF Parses, Locks, P_listviews
  <2> QED
    BY <1>3, <2>1, <2>2, <2>3 DEF Parses, Locks
<1>4. CASE Unlocks("cleared", "download") \/ Parsed
  BY <1>4 DEF Unlocks, Parsed, V_listviews
<1>5. CASE SearchEnds
  BY <1>5 DEF SearchEnds, Abandoned
<1> QED
  BY <1>1, <1>2, <1>3, <1>4, <1>5 DEF SearchThread

LEMMA GuiDepth ==
  ASSUME IInv, DepthInv,
         \/ (StationStep \/ StationClick) /\ UNCHANGED favvars
         \/ (FavoriteStep \/ FavoriteClick) /\ UNCHANGED stationvars
  PROVE  DepthInv'
<1> USE DEF IInv, ConnectInv, Resolved, ListviewsInv, DepthInv, Free, Gone
<1>1. CASE (FavoriteStep \/ FavoriteClick) /\ UNCHANGED stationvars
  BY <1>1, FavoritesLeave DEF GuiLeaves
<1>2. CASE SearchAgain
  BY <1>2, StationsLeave DEF SearchAgain, GuiLeaves
<1>3. CASE (StationClick \/ Page \/ DrawTakesLists) /\ ~SearchAgain
  BY <1>3, StationsLeave DEF GuiLeaves
<1>4. CASE DrawLocks
  BY <1>4 DEF DrawLocks, P_listviews, Goto, stationvars, listvars, searchvars
<1>5. CASE Draw
  BY <1>5 DEF Draw, V_listviews, Back, Goto, stationvars, listvars, searchvars
<1> QED
  BY <1>1, <1>2, <1>3, <1>4, <1>5 DEF StationStep

LEMMA DepthHolds == Spec => []DepthInv
<1>1. Init => DepthInv
  BY SearchAssumption DEF Init, ViewsInit, SearchInit, DepthInv, Free, Gone
<1>2. IInv /\ DepthInv /\ [Next]_vars => DepthInv'
  <2> SUFFICES ASSUME IInv, DepthInv, [Next]_vars PROVE DepthInv'
    OBVIOUS
  <2>1. CASE Searching
    BY <2>1, SearchDepth DEF Searching, IInv
  <2>2. CASE GuiStep \/ User
    BY <2>2, GuiDepth DEF GuiStep, User
  <2>3. CASE Resolving
    BY <2>3 DEF Resolving, CriticalThread, Resolve, ResolveFavorite, ResolveEnds,
                StoreResult, DepthInv,
                listvars, searchvars
  <2>4. CASE Restart
    BY <2>4 DEF Restart, DepthInv, Free, Gone
  <2>5. CASE UNCHANGED vars
    BY <2>5 DEF vars, viewvars, stationvars, searchvars, DepthInv
  <2> QED
    BY <2>1, <2>2, <2>3, <2>4, <2>5 DEF Next
<1> QED
  BY <1>1, <1>2, InvHolds, PTL DEF Spec

(* A search that waits, waits for critical_thread while that dials, or for *)
(* the GUI thread while it draws; and the two others only for the search.  *)
LEMMA WhoWaits ==
  ASSUME IInv, NEW t \in Threads, NEW u \in Threads, WaitsFor(t, u)
  PROVE  \/ t # "search" /\ u = "search"
         \/ t = "search" /\ u = "critical" /\ Resolved
         \/ t = "search" /\ u = "gui" /\ gui.at = "draw"
<1> USE DEF WaitsFor, AtListviews, AtConnect, Threads, IInv, ConnectInv, Resolved, ListviewsInv,
            Free, Gone
<1>1. CASE t = "gui"
  BY <1>1
<1>2. CASE t = "critical"
  BY <1>2
<1>3. CASE t = "search"
  BY <1>3
<1> QED
  BY <1>1, <1>2, <1>3

LEMMA NoCircle ==
  ASSUME IInv, NEW S \in SUBSET Threads, S # {}
  PROVE  \E t \in S : \A u \in S : ~WaitsFor(t, u)
<1> SUFFICES ASSUME \A t \in S : \E u \in S : WaitsFor(t, u) PROVE FALSE
  OBVIOUS
<1>1. "search" \in S
  <2>1. PICK t \in S : TRUE
    OBVIOUS
  <2>2. PICK u \in S : WaitsFor(t, u)
    OBVIOUS
  <2>3. t = "search" \/ u = "search"
    BY <2>2, WhoWaits
  <2> QED
    BY <2>3
<1>2. PICK u \in S : WaitsFor("search", u)
  BY <1>1
<1>3. \/ u = "critical" /\ Resolved
      \/ u = "gui" /\ gui.at = "draw"
  BY <1>1, <1>2, WhoWaits
<1>4. PICK v \in S : WaitsFor(u, v)
  OBVIOUS
<1> QED
  BY <1>3, <1>4 DEF WaitsFor, AtListviews, AtConnect, Resolved

(* For all settings no threads wait for each other in a circle, and what a *)
(* thread waits for has a living owner, except after an Icecast search on a*)
(* system that keeps the mutex of a thread that has ended locked.          *)
THEOREM NoDeadlock == Spec => []WaitsEnd
<1>1. IInv /\ DepthInv => WaitsEnd
  <2> SUFFICES ASSUME IInv, DepthInv PROVE WaitsEnd
    OBVIOUS
  <2>1. \A S \in SUBSET Threads : S # {} => \E t \in S : \A u \in S : ~WaitsFor(t, u)
    BY NoCircle
  <2>2. connect_mutex = "search" => search \notin {"none", "start", "ended"}
    BY DEF IInv, ConnectInv, Resolved
  <2>3. listviews_mutex.owner = Gone => setup = <<"ICECAST", FALSE>>
    <3>1. setup = <<setup[1], setup[2]>>
      BY DEF DepthInv
    <3> QED
      BY <3>1 DEF DepthInv
  <2> QED
    BY <2>1, <2>2, <2>3 DEF WaitsEnd
<1> QED
  BY <1>1, InvHolds, DepthHolds, PTL

-----------------------------------------------------------------------------
(* Whenever nobody is inside listviews_mutex, the number of stations is    *)
(* the length of the list.                                                 *)
THEOREM Whole == Spec => []ListWhole
<1>1. IInv => ListWhole
  BY DEF IInv, ListviewsInv, StationsInv, ListWhole, Free
<1> QED
  BY <1>1, InvHolds, PTL

(* The list never mixes the stations of two searches.                      *)
THEOREM OneGenre == Spec => []OneSearch
<1>1. IInv => OneSearch
  BY DEF IInv, StationsInv
<1> QED
  BY <1>1, InvHolds, PTL

(* connect_mutex keeps the list as it is while critical_thread has a       *)
(* pointer into it.                                                        *)
THEOREM Stable == Spec => ResolveStable
<1>1. ASSUME IInv, [Next]_vars PROVE [critical = "dial" /\ critical' = "dial" => UNCHANGED sl]_vars
  <2> SUFFICES ASSUME critical = "dial", critical' = "dial" PROVE UNCHANGED sl
    OBVIOUS
  <2>1. search \in {"none", "start", "ended"}
    BY <1>1 DEF IInv, ConnectInv, Resolved
  <2>2. CASE Searching
    BY <2>1, <2>2, <1>1 DEF Searching, SearchThread, SearchStarts, Locks, Unlocks,
       ClearList, Fails, Parses, AddStation, CountStation, Parsed, ClosesWindow,
       SearchEnds, To, listvars, viewvars
  <2>3. CASE GuiStep \/ User
    <3>1. CASE DrawLocks \/ Draw
      BY <3>1 DEF DrawLocks, Draw, stationvars, listvars
    <3> QED
      BY <2>3, <3>1, FavoritesLeave, StationsLeave
         DEF GuiStep, User, StationStep, GuiLeaves
  <2>4. CASE Resolving
    BY <2>4 DEF Resolving, CriticalThread, Resolve, ResolveEnds, StoreResult, ResolveFavorite, listvars
  <2>5. CASE Restart
    BY <2>5 DEF Restart
  <2>6. CASE UNCHANGED vars
    BY <2>6 DEF vars, stationvars, listvars
  <2> QED
    BY <1>1, <2>2, <2>3, <2>4, <2>5, <2>6 DEF Next
<1> QED
  BY <1>1, InvHolds, PTL DEF Spec, ResolveStable

-----------------------------------------------------------------------------
(* A set of numbers that is not empty has a least one.                     *)
LEMMA Least ==
  ASSUME NEW S, S \subseteq Nat, S # {}
  PROVE  \E m \in S : \A k \in S : m <= k
<1> DEFINE R == {ss \in Nat \X Nat : ss[1] < ss[2]}
<1>1. IsWellFoundedOn(R, Nat)
  BY NatLessThanWellFounded DEF OpToRel
<1>2. PICK m \in S : \A k \in S : ~(<<k, m>> \in R)
  <2> HIDE DEF R
  <2> QED
    BY <1>1, WFMin
<1>3. ASSUME NEW k \in S PROVE m <= k
  <2>1. m \in Nat /\ k \in Nat
    OBVIOUS
  <2>2. ~(k < m)
    BY <1>2, <2>1
  <2> QED
    BY <2>1, <2>2
<1> QED
  BY <1>3

Entry == [name : Names, file : Files]

(* What is on the disk, whoever has written it.                            *)
DiskInv ==
  /\ DOMAIN disk \subseteq Files /\ IsFiniteSet(DOMAIN disk)
  /\ disk \in [DOMAIN disk -> Seq(Names)]
  /\ \A f \in DOMAIN disk : \/ f \in DOMAIN OnDisk /\ disk[f] = OnDisk[f]
                            \/ Len(disk[f]) <= 1

(* The entries of the first i files: all of them, and no others.           *)
Holds(s, order, i) ==
  /\ s \in Seq(Entry)
  /\ \A k \in DOMAIN s : \E j \in 1 .. i :
       /\ s[k].file = order[j]
       /\ \E m \in DOMAIN disk[order[j]] : s[k].name = disk[order[j]][m]
  /\ \A j \in 1 .. i :
       Cardinality({k \in DOMAIN s : s[k].file = order[j]}) = Len(disk[order[j]])

LEMMA OrderOfAll ==
  ASSUME DiskInv, NEW order \in Orders(DOMAIN disk)
  PROVE  /\ Len(order) = Cardinality(DOMAIN disk) /\ Len(order) \in Nat
         /\ order \in [1 .. Len(order) -> DOMAIN disk]
         /\ \A i, k \in 1 .. Len(order) : order[i] = order[k] => i = k
         /\ \A f \in DOMAIN disk : \E i \in 1 .. Len(order) : order[i] = f
<1> DEFINE n == Cardinality(DOMAIN disk)
<1>1. n \in Nat
  BY FS_CardinalityType DEF DiskInv
<1>2. /\ order \in [1 .. n -> DOMAIN disk]
      /\ \A i, k \in 1 .. n : order[i] = order[k] => i = k
  BY DEF Orders
<1> HIDE DEF n
<1>3. Len(order) = n
  BY <1>1, <1>2
<1>4. order \in Injection(1 .. n, DOMAIN disk)
  BY <1>2 DEF Injection, IsInjective
<1>5. Cardinality(1 .. n) = n
  BY <1>1, FS_Interval
<1>6. order \in Surjection(1 .. n, DOMAIN disk)
  BY <1>4, <1>5, FS_Injection DEF DiskInv, n
<1>7. \A f \in DOMAIN disk : \E i \in 1 .. n : order[i] = f
  BY <1>6 DEF Surjection
<1> QED
  BY <1>1, <1>2, <1>3, <1>7 DEF n

LEMMA EntriesOf ==
  ASSUME DiskInv, NEW f \in DOMAIN disk
  PROVE  /\ Len(disk[f]) \in Nat /\ disk[f] \in Seq(Names)
         /\ Entries(f) \in Seq(Entry) /\ Len(Entries(f)) = Len(disk[f])
         /\ \A k \in 1 .. Len(disk[f]) :
              Entries(f)[k].file = f /\ Entries(f)[k].name = disk[f][k]
BY DEF DiskInv, Entries, Entry

(* The files one behind the other: what load_favorites builds.             *)
LEMMA LoadedIs ==
  ASSUME NEW order, NEW n \in Nat, Len(order) = n
  PROVE  \E g : /\ Loaded(order) = g[n]
                /\ g[0] = <<>>
                /\ \A i \in 1 .. n : g[i] = g[i - 1] \o Entries(order[i])
<1> DEFINE Step(g, i) == IF i = 0 THEN <<>> ELSE g[i - 1] \o Entries(order[i])
           Built(g, m) == g = [i \in 0 .. m |-> Step(g, i)]
           S == {m \in 0 .. n : ~ \E g : Built(g, m)}
           upto == CHOOSE g : Built(g, n)
<1>1. Loaded(order) = upto[n]
  BY Zenon DEF Loaded
<1>0. /\ \A m \in S : m \in 0 .. n /\ ~ \E g : Built(g, m)
      /\ \A m \in 0 .. n : m \notin S => \E g : Built(g, m)
  <2> HIDE DEF Built
  <2> QED
    OBVIOUS
<1>2. S = {}
  <2> SUFFICES ASSUME S # {} PROVE FALSE
    OBVIOUS
  <2>1. PICK m \in S : \A k \in S : m <= k
    <3> HIDE DEF S, Built
    <3>1. S \subseteq Nat
      BY <1>0
    <3> QED
      BY <3>1, Least
  <2>2. CASE m = 0
    <3> DEFINE g == [i \in 0 .. 0 |-> <<>>]
    <3>1. g = [i \in 0 .. 0 |-> Step(g, i)]
      OBVIOUS
    <3>2. Built(g, 0)
      BY <3>1
    <3> HIDE DEF S, Built, g
    <3> QED
      BY <1>0, <2>1, <2>2, <3>2
  <2>3. CASE m # 0
    <3>1. m - 1 \in 0 .. n /\ m \in 1 .. n /\ m - 1 \notin S
      <4> HIDE DEF S, Built
      <4> QED
        BY <1>0, <2>1, <2>3
    <3>2. PICK g : Built(g, m - 1)
      <4> HIDE DEF S, Built
      <4> QED
        BY <1>0, <3>1
    <3> DEFINE h == [i \in 0 .. m |-> IF i < m THEN g[i] ELSE Step(g, m)]
    <3>3. \A i \in 0 .. m - 1 : g[i] = Step(g, i)
      BY <3>2
    <3>4. \A i \in 0 .. m : Step(h, i) = Step(g, i)
      BY <3>1
    <3> HIDE DEF Step
    <3>5. \A i \in 0 .. m : h[i] = Step(h, i)
      BY <3>1, <3>3, <3>4
    <3>6. Built(h, m)
      BY <3>5
    <3> HIDE DEF S, Built, h
    <3> QED
      BY <1>0, <2>1, <3>6
  <2> QED
    BY <2>2, <2>3
<1>3. Built(upto, n)
  <2> HIDE DEF S, Built
  <2>1. \E g : Built(g, n)
    BY <1>0, <1>2
  <2> QED
    BY <2>1 DEF upto
<1> HIDE DEF upto
<1>4. upto[0] = <<>>
  BY <1>3
<1>5. \A i \in 1 .. n : upto[i] = upto[i - 1] \o Entries(order[i])
  BY <1>3
<1> QED
  BY <1>1, <1>4, <1>5

(* The next file's entries come behind the others.                         *)
LEMMA HoldsNext ==
  ASSUME DiskInv, NEW order, NEW n \in Nat, order \in [1 .. n -> DOMAIN disk],
         \A i, k \in 1 .. n : order[i] = order[k] => i = k,
         NEW i \in 1 .. n, NEW s, Holds(s, order, i - 1)
  PROVE  Holds(s \o Entries(order[i]), order, i)
<1> DEFINE f == order[i]
           e == Entries(f)
           t == s \o e
           d == Len(disk[f])
<1>1. /\ f \in DOMAIN disk /\ d \in Nat /\ disk[f] \in Seq(Names)
      /\ e \in Seq(Entry) /\ Len(e) = d
      /\ \A k \in 1 .. d : e[k].file = f /\ e[k].name = disk[f][k]
  BY EntriesOf
<1>2. s \in Seq(Entry) /\ Len(s) \in Nat /\ DOMAIN s = 1 .. Len(s)
  BY DEF Holds
<1>3. \A k \in 1 .. Len(s) : \E j \in 1 .. i - 1 :
        /\ s[k].file = order[j]
        /\ \E m \in DOMAIN disk[order[j]] : s[k].name = disk[order[j]][m]
  BY <1>2 DEF Holds
<1>4. \A j \in 1 .. i - 1 :
        Cardinality({k \in 1 .. Len(s) : s[k].file = order[j]}) = Len(disk[order[j]])
  BY <1>2 DEF Holds
<1> HIDE DEF e, d
<1>5. /\ t \in Seq(Entry) /\ Len(t) = Len(s) + d /\ DOMAIN t = 1 .. Len(s) + d
      /\ \A k \in 1 .. Len(s) : t[k] = s[k]
      /\ \A k \in 1 .. d : t[Len(s) + k] = e[k]
  <2>1. s \in Seq(Entry) /\ e \in Seq(Entry) /\ Len(e) = d /\ d \in Nat /\ Len(s) \in Nat
    BY <1>1, <1>2
  <2> HIDE DEF f
  <2>2. t \in Seq(Entry) /\ Len(t) = Len(s) + d
    BY <2>1
  <2>3. DOMAIN t = 1 .. Len(s) + d
    BY <2>2
  <2>4. \A k \in 1 .. Len(s) : t[k] = s[k]
    BY <2>1
  <2>5. \A k \in 1 .. d : t[Len(s) + k] = e[k]
    BY <2>1
  <2> QED
    BY <2>2, <2>3, <2>4, <2>5
<1> HIDE DEF t
<1>6. \A k \in 1 .. Len(s) + d : \/ k \in 1 .. Len(s) /\ t[k] = s[k]
                                 \/ k - Len(s) \in 1 .. d /\ t[k] = e[k - Len(s)]
  <2> SUFFICES ASSUME NEW k \in 1 .. Len(s) + d, k \notin 1 .. Len(s)
               PROVE  k - Len(s) \in 1 .. d /\ t[k] = e[k - Len(s)]
    BY <1>5
  <2>1. k - Len(s) \in 1 .. d /\ Len(s) + (k - Len(s)) = k
    BY <1>1, <1>2
  <2> QED
    BY <1>5, <2>1
<1>7. \A k \in 1 .. Len(s) : s[k].file # f
  <2> SUFFICES ASSUME NEW k \in 1 .. Len(s), s[k].file = f PROVE FALSE
    OBVIOUS
  <2>1. PICK j \in 1 .. i - 1 : s[k].file = order[j]
    BY <1>3
  <2>2. j \in 1 .. n /\ j # i
    OBVIOUS
  <2> QED
    BY <2>1, <2>2
<1>8. ASSUME NEW k \in 1 .. Len(s) + d
      PROVE  \E j \in 1 .. i : /\ t[k].file = order[j]
                               /\ \E m \in DOMAIN disk[order[j]] : t[k].name = disk[order[j]][m]
  <2>1. CASE k \in 1 .. Len(s) /\ t[k] = s[k]
    <3>1. PICK j \in 1 .. i - 1 :
            /\ s[k].file = order[j]
            /\ \E m \in DOMAIN disk[order[j]] : s[k].name = disk[order[j]][m]
      BY <1>3, <2>1
    <3>2. j \in 1 .. i
      OBVIOUS
    <3> QED
      BY <2>1, <3>1, <3>2
  <2>2. CASE k - Len(s) \in 1 .. d /\ t[k] = e[k - Len(s)]
    <3>1. t[k].file = f /\ t[k].name = disk[f][k - Len(s)]
      BY <1>1, <2>2
    <3>2. k - Len(s) \in DOMAIN disk[f]
      BY <1>1, <2>2 DEF d
    <3>3. i \in 1 .. i
      OBVIOUS
    <3> QED
      BY <3>1, <3>2, <3>3
  <2> QED
    BY <1>6, <2>1, <2>2
<1>9. ASSUME NEW j \in 1 .. i
      PROVE  Cardinality({k \in 1 .. Len(s) + d : t[k].file = order[j]}) = Len(disk[order[j]])
  <2>1. CASE j = i
    <3>1. \A k \in 1 .. Len(s) + d : t[k].file = f <=> k \in Len(s) + 1 .. Len(s) + d
      <4> SUFFICES ASSUME NEW k \in 1 .. Len(s) + d
                   PROVE  t[k].file = f <=> k \in Len(s) + 1 .. Len(s) + d
        OBVIOUS
      <4>1. CASE k \in 1 .. Len(s) /\ t[k] = s[k]
        <5>1. t[k].file # f
          BY <1>7, <4>1
        <5>2. k \notin Len(s) + 1 .. Len(s) + d
          BY <1>2, <4>1
        <5> QED
          BY <5>1, <5>2
      <4>2. CASE k - Len(s) \in 1 .. d /\ t[k] = e[k - Len(s)]
        <5>1. t[k].file = f
          BY <1>1, <4>2
        <5>2. k \in Len(s) + 1 .. Len(s) + d
          BY <1>1, <1>2, <4>2
        <5> QED
          BY <5>1, <5>2
      <4> QED
        BY <1>6, <4>1, <4>2
    <3>2. {k \in 1 .. Len(s) + d : t[k].file = f} = Len(s) + 1 .. Len(s) + d
      <4>1. \A k \in Len(s) + 1 .. Len(s) + d : k \in 1 .. Len(s) + d
        BY <1>1, <1>2
      <4> QED
        BY <3>1, <4>1, Zenon
    <3>3. Cardinality(Len(s) + 1 .. Len(s) + d) = d
      BY <1>1, <1>2, FS_Interval
    <3> QED
      BY <2>1, <3>2, <3>3 DEF d
  <2>2. CASE j # i
    <3>1. j \in 1 .. i - 1 /\ order[j] # f
      BY <2>2
    <3>2. \A k \in 1 .. Len(s) + d :
            t[k].file = order[j] <=> k \in 1 .. Len(s) /\ s[k].file = order[j]
      <4> SUFFICES ASSUME NEW k \in 1 .. Len(s) + d
                   PROVE  t[k].file = order[j] <=> k \in 1 .. Len(s) /\ s[k].file = order[j]
        OBVIOUS
      <4>1. CASE k \in 1 .. Len(s) /\ t[k] = s[k]
        BY <4>1
      <4>2. CASE k - Len(s) \in 1 .. d /\ t[k] = e[k - Len(s)]
        <5>1. t[k].file = f
          BY <1>1, <4>2
        <5>2. k \notin 1 .. Len(s)
          BY <1>1, <1>2, <4>2
        <5> QED
          BY <3>1, <5>1, <5>2
      <4> QED
        BY <1>6, <4>1, <4>2
    <3>3. \A k \in 1 .. Len(s) : k \in 1 .. Len(s) + d
      BY <1>1, <1>2
    <3>4. {k \in 1 .. Len(s) + d : t[k].file = order[j]} =
            {k \in 1 .. Len(s) : s[k].file = order[j]}
      BY <3>2, <3>3, Zenon
    <3> QED
      BY <1>4, <3>1, <3>4
  <2> QED
    BY <2>1, <2>2
<1>10. Holds(t, order, i)
  BY <1>5, <1>8, <1>9 DEF Holds
<1> QED
  BY <1>10 DEF t, e

(* The list s has what is on the disk, and nothing else.                   *)
Listed(s) ==
  /\ s \in Seq(Entry)
  /\ \A file \in Files :
       IF file \in DOMAIN disk
         THEN /\ Cardinality({k \in DOMAIN s : s[k].file = file}) = Len(disk[file])
              /\ \A k \in DOMAIN s : s[k].file = file =>
                   \E m \in DOMAIN disk[file] : s[k].name = disk[file][m]
         ELSE \A k \in DOMAIN s : s[k].file # file

LEMMA LoadedListed ==
  ASSUME DiskInv, NEW order \in Orders(DOMAIN disk)
  PROVE  Listed(Loaded(order))
<1> DEFINE n == Len(order)
<1>1. /\ n \in Nat /\ order \in [1 .. n -> DOMAIN disk]
      /\ \A i, k \in 1 .. n : order[i] = order[k] => i = k
      /\ \A f \in DOMAIN disk : \E i \in 1 .. n : order[i] = f
  BY OrderOfAll
<1>2. PICK g : /\ Loaded(order) = g[n]
               /\ g[0] = <<>>
               /\ \A i \in 1 .. n : g[i] = g[i - 1] \o Entries(order[i])
  BY <1>1, LoadedIs
<1> DEFINE T == {i \in 0 .. n : ~Holds(g[i], order, i)}
<1> HIDE DEF n
<1>3. Holds(g[0], order, 0)
  BY <1>2 DEF Holds
<1>4. \A i \in 1 .. n : Holds(g[i - 1], order, i - 1) => Holds(g[i], order, i)
  <2> SUFFICES ASSUME NEW i \in 1 .. n, Holds(g[i - 1], order, i - 1)
               PROVE  Holds(g[i], order, i)
    OBVIOUS
  <2>1. Holds(g[i - 1] \o Entries(order[i]), order, i)
    <3> DEFINE s == g[i - 1]
    <3>1. Holds(s, order, i - 1)
      OBVIOUS
    <3> HIDE DEF s
    <3>2. Holds(s \o Entries(order[i]), order, i)
      BY <1>1, <3>1, HoldsNext
    <3> QED
      BY <3>2 DEF s
  <2> QED
    BY <1>2, <2>1
<1>5. T = {}
  <2> SUFFICES ASSUME T # {} PROVE FALSE
    OBVIOUS
  <2>1. T \subseteq Nat
    BY <1>1
  <2>2. PICK m \in T : \A k \in T : m <= k
    <3> HIDE DEF T
    <3> QED
      BY <2>1, Least
  <2>3. m \in 0 .. n /\ ~Holds(g[m], order, m)
    OBVIOUS
  <2>4. m # 0
    BY <1>3, <2>3
  <2>5. m \in 1 .. n /\ m - 1 \in 0 .. n /\ ~(m <= m - 1)
    BY <1>1, <2>3, <2>4
  <2>6. Holds(g[m - 1], order, m - 1)
    BY <2>2, <2>5
  <2> QED
    BY <1>4, <2>3, <2>5, <2>6
<1> DEFINE s == Loaded(order)
<1>6. Holds(s, order, n)
  BY <1>1, <1>2, <1>5
<1> HIDE DEF s
<1>7. s \in Seq(Entry)
  BY <1>6 DEF Holds
<1>8. ASSUME NEW file \in DOMAIN disk
      PROVE  /\ Cardinality({k \in DOMAIN s : s[k].file = file}) = Len(disk[file])
             /\ \A k \in DOMAIN s : s[k].file = file =>
                  \E m \in DOMAIN disk[file] : s[k].name = disk[file][m]
  <2>1. PICK j \in 1 .. n : order[j] = file
    BY <1>1
  <2> QED
    BY <1>6, <2>1 DEF Holds
<1>9. \A k \in DOMAIN s : s[k].file \in DOMAIN disk
  BY <1>1, <1>6 DEF Holds
<1> QED
  BY <1>7, <1>8, <1>9 DEF Listed, s

-----------------------------------------------------------------------------
(* The favorites in memory: those of the disk, unless a save is under way. *)
FavInv ==
  /\ fav \in Seq(Entry) /\ fav_total = Len(fav) /\ fav_position \in Nat
  /\ gui.at \in {"truncate", "write"} => gui.arg \in Names
  /\ FavoritesOnDisk

LEMMA ListedOnDisk ==
  ASSUME DiskInv, NEW order \in Orders(DOMAIN disk), fav' = Loaded(order),
         fav_total' = Len(fav'), disk' = disk
  PROVE  fav' \in Seq(Entry) /\ FavoritesOnDisk'
<1>1. Listed(fav')
  BY LoadedListed
<1>2. fav' \in Seq(Entry)
  BY <1>1 DEF Listed
<1>3. ASSUME NEW file \in Files
      PROVE  IF file \in DOMAIN disk'
               THEN /\ Cardinality(FromFile(file)') = Len(disk'[file])
                    /\ \A i \in FromFile(file)' : \E k \in DOMAIN disk'[file] :
                         fav'[i].name = disk'[file][k]
               ELSE FromFile(file)' = {}
  BY <1>1 DEF Listed, FromFile
<1> QED
  BY <1>2, <1>3 DEF FavoritesOnDisk

LEMMA LoadsWhole ==
  ASSUME DiskInv, load_favorites, disk' = disk
  PROVE  fav' \in Seq(Entry) /\ fav_total' = Len(fav') /\ FavoritesOnDisk'
BY ListedOnDisk DEF load_favorites

LEMMA InitFavorites == Init => DiskInv /\ FavInv
<1> SUFFICES ASSUME Init PROVE DiskInv /\ FavInv
  OBVIOUS
<1>1. disk = OnDisk /\ fav_total = Len(fav) /\ fav_position = 0 /\ gui.at = "loop"
  BY DEF Init, ViewsInit, FavoritesInit
<1>2. DiskInv
  BY <1>1, FavoritesAssumption DEF DiskInv, Files
<1>3. PICK order \in Orders(DOMAIN disk) : fav = Loaded(order)
  BY DEF Init, FavoritesInit
<1>4. Listed(fav)
  BY <1>2, <1>3, LoadedListed
<1>5. ASSUME NEW file \in Files
      PROVE  IF file \in DOMAIN disk
               THEN /\ Cardinality(FromFile(file)) = Len(disk[file])
                    /\ \A i \in FromFile(file) : \E k \in DOMAIN disk[file] :
                         fav[i].name = disk[file][k]
               ELSE FromFile(file) = {}
  BY <1>4 DEF Listed, FromFile
<1>6. FavoritesOnDisk
  BY <1>1, <1>5 DEF FavoritesOnDisk
<1> QED
  BY <1>1, <1>2, <1>4, <1>6 DEF FavInv, Listed

(* Deleting takes out one entry and moves up those behind it.              *)
LEMMA Removing ==
  ASSUME NEW s \in Seq(Entry), NEW i \in 1 .. Len(s)
  PROVE  /\ RemoveAt(s, i) \in Seq(Entry) /\ Len(RemoveAt(s, i)) = Len(s) - 1
         /\ \A k \in 1 .. Len(s) - 1 :
              RemoveAt(s, i)[k] = s[IF k < i THEN k ELSE k + 1]
<1> DEFINE a == SubSeq(s, 1, i - 1)
           b == SubSeq(s, i + 1, Len(s))
<1>1. /\ a \in Seq(Entry) /\ Len(a) = i - 1 /\ \A k \in 1 .. i - 1 : a[k] = s[k]
  OBVIOUS
<1>2. /\ b \in Seq(Entry) /\ Len(b) = Len(s) - i
      /\ \A k \in 1 .. Len(s) - i : b[k] = s[i + k]
  OBVIOUS
<1> HIDE DEF a, b
<1>3. a \o b \in Seq(Entry) /\ Len(a \o b) = Len(s) - 1
  <2>1. a \o b \in Seq(Entry) /\ Len(a \o b) = Len(a) + Len(b)
    <3>1. a \in Seq(Entry) /\ b \in Seq(Entry)
      BY <1>1, <1>2
    <3> QED
      BY <3>1
  <2>2. Len(a) + Len(b) = Len(s) - 1
    BY <1>1, <1>2
  <2> QED
    BY <2>1, <2>2
<1>4. ASSUME NEW k \in 1 .. Len(s) - 1
      PROVE  (a \o b)[k] = s[IF k < i THEN k ELSE k + 1]
  <2>1. CASE k < i
    <3>1. k \in 1 .. i - 1
      BY <2>1
    <3> QED
      BY <1>1, <1>2, <2>1, <3>1
  <2>2. CASE ~(k < i)
    <3>1. k - (i - 1) \in 1 .. Len(s) - i /\ i + (k - (i - 1)) = k + 1
      BY <2>2
    <3>2. (a \o b)[k] = b[k - (i - 1)]
      BY <1>1, <1>2, <2>2
    <3> QED
      BY <1>2, <2>2, <3>1, <3>2
  <2> QED
    BY <2>1, <2>2
<1> QED
  BY <1>3, <1>4 DEF RemoveAt, a, b

LEMMA FromFileFinite ==
  ASSUME fav \in Seq(Entry), NEW file
  PROVE  FromFile(file) \subseteq 1 .. Len(fav) /\ IsFiniteSet(FromFile(file))
<1>1. Len(fav) \in Nat /\ DOMAIN fav = 1 .. Len(fav)
  OBVIOUS
<1>2. FromFile(file) \subseteq 1 .. Len(fav) /\ IsFiniteSet(1 .. Len(fav))
  BY <1>1, FS_Interval DEF FromFile
<1> QED
  BY <1>2, FS_Subset

(* The entries of the other files stay, and a file that has at most one    *)
(* entry goes together with it.                                            *)
LEMMA Deleting ==
  ASSUME DiskInv, FavInv, gui.at = "loop", gui' = gui,
         NEW item \in Nat, delete_favorite(item)
  PROVE  /\ DiskInv'
         /\ fav' \in Seq(Entry) /\ fav_total' = Len(fav') /\ FavoritesOnDisk'
<1> DEFINE F == fav[item + 1].file
           h(k) == IF k < item + 1 THEN k ELSE k + 1
           n == Len(fav)
<1>1. /\ fav \in Seq(Entry) /\ n \in Nat /\ fav_total = n /\ item + 1 \in 1 .. n
      /\ DOMAIN fav = 1 .. n
      /\ disk' = [f \in DOMAIN disk \ {F} |-> disk[f]]
      /\ fav' = RemoveAt(fav, item + 1) /\ fav_total' = fav_total - 1
  BY DEF delete_favorite, FavInv
<1>2. /\ fav' \in Seq(Entry) /\ Len(fav') = n - 1 /\ DOMAIN fav' = 1 .. n - 1
      /\ \A k \in 1 .. n - 1 : fav'[k] = fav[h(k)]
  <2>1. fav' \in Seq(Entry) /\ Len(fav') = n - 1
    BY <1>1, Removing
  <2>2. \A k \in 1 .. n - 1 : fav'[k] = fav[h(k)]
    BY <1>1, Removing
  <2> QED
    BY <1>1, <2>1, <2>2
<1>3. /\ \A k \in 1 .. n - 1 : h(k) \in 1 .. n /\ h(k) # item + 1
      /\ \A k, l \in 1 .. n - 1 : h(k) = h(l) => k = l
      /\ \A k \in 1 .. n : k # item + 1 => \E l \in 1 .. n - 1 : h(l) = k
  <2>1. ASSUME NEW k \in 1 .. n, k # item + 1 PROVE \E l \in 1 .. n - 1 : h(l) = k
    <3>1. CASE k < item + 1
      <4>1. k \in 1 .. n - 1 /\ h(k) = k
        BY <1>1, <3>1
      <4> QED
        BY <4>1
    <3>2. CASE ~(k < item + 1)
      <4>1. k - 1 \in 1 .. n - 1 /\ h(k - 1) = k
        BY <1>1, <2>1, <3>2
      <4> QED
        BY <4>1
    <3> QED
      BY <3>1, <3>2
  <2>2. /\ \A k \in 1 .. n - 1 : h(k) \in 1 .. n /\ h(k) # item + 1
        /\ \A k, l \in 1 .. n - 1 : h(k) = h(l) => k = l
    BY <1>1
  <2> QED
    BY <2>1, <2>2
<1> HIDE DEF h, n
<1>4. \A file : FromFile(file)' = {k \in 1 .. n - 1 : fav[h(k)].file = file}
  <2> SUFFICES ASSUME NEW file
               PROVE  FromFile(file)' = {k \in 1 .. n - 1 : fav[h(k)].file = file}
    OBVIOUS
  <2>1. FromFile(file)' = {k \in 1 .. n - 1 : fav'[k].file = file}
    BY <1>2 DEF FromFile
  <2> QED
    BY <1>2, <2>1
<1>5. \A file : FromFile(file) = {k \in 1 .. n : fav[k].file = file}
  BY <1>1 DEF FromFile
<1>6. /\ \A file : FromFile(file) \subseteq 1 .. n /\ IsFiniteSet(FromFile(file))
      /\ F \in Files /\ item + 1 \in FromFile(F)
  <2>1. F \in Files
    <3>1. fav[item + 1] \in Entry
      BY <1>1 DEF n
    <3> QED
      BY <3>1 DEF Entry
  <2> QED
    BY <1>1, <1>5, <2>1, FromFileFinite DEF n
<1>7. ASSUME NEW file, file # F
      PROVE  Cardinality(FromFile(file)') = Cardinality(FromFile(file))
  <2> DEFINE T == {k \in 1 .. n - 1 : fav[h(k)].file = file}
             S == {k \in 1 .. n : fav[k].file = file}
             g == [k \in T |-> h(k)]
  <2>1. \A k \in T : k \in 1 .. n - 1 /\ h(k) \in S
    BY <1>3
  <2>2. \A k \in S : \E l \in T : h(l) = k
    <3> SUFFICES ASSUME NEW k \in S PROVE \E l \in T : h(l) = k
      OBVIOUS
    <3>1. k \in 1 .. n /\ k # item + 1 /\ fav[k].file = file
      BY <1>7
    <3>2. PICK l \in 1 .. n - 1 : h(l) = k
      BY <1>3, <3>1
    <3> QED
      BY <3>1, <3>2
  <2>3. IsFiniteSet(T)
    <3>1. n - 1 \in Int /\ T \subseteq 1 .. n - 1
      BY <1>1 DEF n
    <3> HIDE DEF T
    <3>2. IsFiniteSet(1 .. n - 1)
      BY <3>1, FS_Interval
    <3> QED
      BY <3>1, <3>2, FS_Subset
  <2> HIDE DEF T, S
  <2>4. g \in [T -> S]
    BY <2>1
  <2>5. \A k, l \in T : g[k] = g[l] => k = l
    BY <1>3, <2>1
  <2>6. \A k \in S : \E l \in T : g[l] = k
    BY <2>2
  <2> HIDE DEF g
  <2>7. g \in Injection(T, S)
    BY <2>4, <2>5 DEF Injection, IsInjective
  <2>8. g \in Surjection(T, S)
    BY <2>4, <2>6 DEF Surjection
  <2>9. ExistsBijection(T, S)
    BY <2>7, <2>8 DEF Bijection, ExistsBijection
  <2>10. Cardinality(S) = Cardinality(T)
    BY <2>3, <2>9, FS_Bijection
  <2> QED
    BY <1>4, <1>5, <2>10 DEF T, S
<1>8. /\ \A file \in Files :
           IF file \in DOMAIN disk
             THEN /\ Cardinality(FromFile(file)) = Len(disk[file])
                  /\ \A i \in FromFile(file) : \E k \in DOMAIN disk[file] :
                       fav[i].name = disk[file][k]
             ELSE file \notin DOMAIN OnDisk \/ Len(OnDisk[file]) = 1 => FromFile(file) = {}
  BY DEF FavInv, FavoritesOnDisk
<1>9. DiskInv'
  <2>1. /\ DOMAIN disk' = DOMAIN disk \ {F} /\ \A f \in DOMAIN disk' : disk'[f] = disk[f]
        /\ disk' \in [DOMAIN disk' -> Seq(Names)]
    BY <1>1 DEF DiskInv
  <2>2. IsFiniteSet(DOMAIN disk')
    BY <2>1, FS_RemoveElement DEF DiskInv
  <2> QED
    BY <2>1, <2>2 DEF DiskInv
<1>10. ASSUME NEW file \in Files, file \in DOMAIN disk'
       PROVE  /\ Cardinality(FromFile(file)') = Len(disk'[file])
              /\ \A i \in FromFile(file)' : \E k \in DOMAIN disk'[file] :
                   fav'[i].name = disk'[file][k]
  <2>1. file # F /\ file \in DOMAIN disk /\ disk'[file] = disk[file]
    BY <1>1, <1>10
  <2>2. Cardinality(FromFile(file)') = Len(disk'[file])
    BY <1>7, <1>8, <2>1
  <2>3. ASSUME NEW i \in FromFile(file)'
        PROVE  \E k \in DOMAIN disk'[file] : fav'[i].name = disk'[file][k]
    <3>1. i \in 1 .. n - 1 /\ fav[h(i)].file = file
      BY <1>4
    <3>2. h(i) \in FromFile(file) /\ fav'[i] = fav[h(i)]
      BY <1>2, <1>3, <1>5, <3>1
    <3> QED
      BY <1>8, <2>1, <3>2
  <2> QED
    BY <2>2, <2>3
<1>11. ASSUME NEW file \in Files, file \notin DOMAIN disk',
              file \notin DOMAIN OnDisk \/ Len(OnDisk[file]) = 1
       PROVE  FromFile(file)' = {}
  <2> SUFFICES ASSUME NEW k \in FromFile(file)' PROVE FALSE
    OBVIOUS
  <2>1. k \in 1 .. n - 1 /\ h(k) \in FromFile(file) /\ h(k) # item + 1
    BY <1>3, <1>4, <1>5
  <2>2. file \in DOMAIN disk
    BY <1>8, <1>11, <2>1
  <2>3. file = F
    BY <1>1, <1>11, <2>2
  <2>4. Len(disk[file]) \in Nat /\ Len(disk[file]) <= 1
    <3>1. disk[file] \in Seq(Names)
      BY <2>2 DEF DiskInv
    <3>2. Len(disk[file]) <= 1 \/ (file \in DOMAIN OnDisk /\ disk[file] = OnDisk[file])
      BY <2>2 DEF DiskInv
    <3>3. Len(disk[file]) <= 1 \/ Len(disk[file]) = 1
      BY <1>11, <3>2
    <3>4. Len(disk[file]) \in Nat
      BY <3>1
    <3>5. \A x \in Nat : x = 1 => x <= 1
      OBVIOUS
    <3> QED
      BY <3>3, <3>4, <3>5, Zenon
  <2>5. Cardinality(FromFile(file)) = 0 \/ Cardinality(FromFile(file)) = 1
    BY <1>8, <2>2, <2>4
  <2>6. FromFile(file) = {} \/ \E x : FromFile(file) = {x}
    BY <1>6, <2>5, FS_EmptySet, FS_Singleton
  <2> QED
    BY <1>6, <2>1, <2>3, <2>6
<1>12. fav_total' = Len(fav')
  BY <1>1, <1>2
<1>13. FavoritesOnDisk'
  BY <1>10, <1>11, <1>12 DEF FavoritesOnDisk
<1> QED
  BY <1>2, <1>9, <1>12, <1>13

(* Saving: while a file is written its favorites may differ from the list. *)
LEMMA SavingFavorites ==
  ASSUME DiskInv, FavInv, FavoriteStep
  PROVE  DiskInv' /\ FavInv'
<1>1. CASE SaveOpens
  <2>1. /\ gui.arg \in Names /\ gui'.at \in {"write", "load"} /\ gui'.arg = gui.arg
        /\ fav' = fav /\ fav_total' = fav_total /\ fav_position' = fav_position
    BY <1>1 DEF SaveOpens, Goto, FavInv
  <2>2. DiskInv'
    <3>1. CASE disk' = disk
      BY <3>1 DEF DiskInv
    <3>2. CASE disk' = [f \in DOMAIN disk \cup {FileOf[gui.arg]} |->
                          IF f = FileOf[gui.arg] THEN <<>> ELSE disk[f]]
      <4> DEFINE F == FileOf[gui.arg]
      <4>1. F \in Files
        BY <2>1, FavoritesAssumption
      <4> HIDE DEF F
      <4>2. DOMAIN disk' = DOMAIN disk \cup {F}
        BY <3>2 DEF F
      <4>3. IsFiniteSet(DOMAIN disk')
        BY <4>2, FS_AddElement DEF DiskInv
      <4>4. \A f \in DOMAIN disk' : disk'[f] = IF f = F THEN <<>> ELSE disk[f]
        BY <3>2 DEF F
      <4>5. ASSUME NEW f \in DOMAIN disk' PROVE disk'[f] \in Seq(Names)
        <5>1. CASE f = F
          <6>1. disk'[f] = <<>>
            BY <4>4, <5>1
          <6>2. <<>> \in Seq(Names)
            OBVIOUS
          <6> QED
            BY <6>1, <6>2
        <5>2. CASE f # F
          BY <4>2, <4>4, <5>2 DEF DiskInv
        <5> QED
          BY <5>1, <5>2
      <4>6. disk' \in [DOMAIN disk' -> Seq(Names)]
        BY <3>2, <4>5
      <4>7. \A f \in DOMAIN disk' : \/ f \in DOMAIN OnDisk /\ disk'[f] = OnDisk[f]
                                    \/ Len(disk'[f]) <= 1
        <5> SUFFICES ASSUME NEW f \in DOMAIN disk'
                     PROVE  \/ f \in DOMAIN OnDisk /\ disk'[f] = OnDisk[f]
                            \/ Len(disk'[f]) <= 1
          OBVIOUS
        <5>1. CASE f = F
          BY <4>4, <5>1
        <5>2. CASE f # F
          <6>1. f \in DOMAIN disk /\ disk'[f] = disk[f]
            BY <4>2, <4>4, <5>2
          <6> QED
            BY <6>1, Zenon DEF DiskInv
        <5> QED
          BY <5>1, <5>2
      <4> QED
        BY <4>1, <4>2, <4>3, <4>6, <4>7 DEF DiskInv
    <3> QED
      BY <1>1, <3>1, <3>2 DEF SaveOpens
  <2> QED
    BY <2>1, <2>2 DEF FavInv, FavoritesOnDisk
<1>2. CASE SaveWrites
  <2>1. /\ gui.arg \in Names /\ gui'.at = "load"
        /\ fav' = fav /\ fav_total' = fav_total /\ fav_position' = fav_position
        /\ disk' = [disk EXCEPT ![FileOf[gui.arg]] = <<gui.arg>>]
    BY <1>2 DEF SaveWrites, Goto, FavInv
  <2>2. /\ DOMAIN disk' = DOMAIN disk /\ disk' \in [DOMAIN disk' -> Seq(Names)]
        /\ \A f \in DOMAIN disk : disk'[f] = disk[f] \/ disk'[f] = <<gui.arg>>
    <3>1. DOMAIN disk' = DOMAIN disk
      BY <2>1
    <3>2. \A f \in DOMAIN disk : disk'[f] = disk[f] \/ disk'[f] = <<gui.arg>>
      BY <2>1
    <3>3. <<gui.arg>> \in Seq(Names)
      BY <2>1
    <3>4. \A f \in DOMAIN disk : disk'[f] \in Seq(Names)
      BY <3>2, <3>3 DEF DiskInv
    <3> QED
      BY <2>1, <3>1, <3>2, <3>4
  <2>3. \A f \in DOMAIN disk : \/ f \in DOMAIN OnDisk /\ disk'[f] = OnDisk[f]
                               \/ Len(disk'[f]) <= 1
    <3> SUFFICES ASSUME NEW f \in DOMAIN disk
                 PROVE  \/ f \in DOMAIN OnDisk /\ disk'[f] = OnDisk[f]
                        \/ Len(disk'[f]) <= 1
      OBVIOUS
    <3>1. CASE disk'[f] = disk[f]
      BY <3>1, Zenon DEF DiskInv
    <3>2. CASE disk'[f] = <<gui.arg>>
      BY <3>2
    <3> QED
      BY <2>2, <3>1, <3>2
  <2>4. DiskInv'
    BY <2>2, <2>3 DEF DiskInv
  <2> QED
    BY <2>1, <2>4 DEF FavInv, FavoritesOnDisk
<1>3. CASE SaveLoads
  <2>1. load_favorites /\ disk' = disk /\ fav_position' = fav_position /\ gui'.at = "loop"
    BY <1>3 DEF SaveLoads, Back, Goto
  <2>2. DiskInv'
    BY <2>1 DEF DiskInv
  <2> QED
    BY <2>1, <2>2, LoadsWhole DEF FavInv
<1> QED
  BY <1>1, <1>2, <1>3 DEF FavoriteStep

LEMMA SameOnDisk ==
  ASSUME FavoritesOnDisk, UNCHANGED <<disk, fav, fav_total>>,
         \/ gui' = gui
         \/ gui.at \notin {"write", "load"}
  PROVE  FavoritesOnDisk'
<1>1. \A file : FromFile(file)' = FromFile(file)
  BY DEF FromFile
<1> QED
  BY <1>1, Zenon DEF FavoritesOnDisk

LEMMA ClickingFavorites ==
  ASSUME DiskInv, FavInv, FavoriteClick
  PROVE  DiskInv' /\ FavInv'
<1>1. gui.at = "loop"
  BY DEF FavoriteClick, ClickAdd, ClickDelete, ClickNextFavorites, ClickPriorFavorites,
         ClickFavorite, Click
<1>2. CASE ClickDelete
  <2>1. PICK object_id \in Objects : delete_favorite(object_id + fav_position)
    BY <1>2 DEF ClickDelete
  <2>2. object_id + fav_position \in Nat
    BY ViewsAssumption DEF Objects, FavInv
  <2>3. gui' = gui /\ fav_position' = fav_position
    BY <1>2 DEF ClickDelete
  <2> QED
    BY <1>1, <2>1, <2>2, <2>3, Deleting DEF FavInv
<1>3. ASSUME UNCHANGED <<disk, fav, fav_total>>, fav_position' \in Nat,
             gui'.at \in {"loop", "truncate"}, gui'.at = "truncate" => gui'.arg \in Names
      PROVE  DiskInv' /\ FavInv'
  <2>1. DiskInv'
    BY <1>3 DEF DiskInv
  <2>2. FavoritesOnDisk'
    BY <1>1, <1>3, SameOnDisk DEF FavInv
  <2> QED
    BY <1>3, <2>1, <2>2 DEF FavInv
<1>4. CASE ClickAdd
  BY <1>3, <1>4 DEF ClickAdd, Goto, favvars, FavInv
<1>5. CASE ClickNextFavorites \/ ClickPriorFavorites
  <2>1. fav_position' \in Nat
    BY <1>5, ViewsAssumption DEF ClickNextFavorites, ClickPriorFavorites, FavInv
  <2> QED
    BY <1>1, <1>3, <1>5, <2>1 DEF ClickNextFavorites, ClickPriorFavorites
<1>6. CASE ClickFavorite
  BY <1>1, <1>3, <1>6 DEF ClickFavorite, favvars, FavInv
<1> QED
  BY <1>2, <1>4, <1>5, <1>6 DEF FavoriteClick

(* Nobody else touches them.                                               *)
LEMMA OthersLeave ==
  ASSUME DiskInv, FavInv, UNCHANGED favvars,
         \/ gui' = gui
         \/ gui.at \notin {"write", "load"} /\ gui'.at \notin {"truncate", "write", "load"}
  PROVE  DiskInv' /\ FavInv'
<1> USE DEF favvars
<1>1. DiskInv'
  BY DEF DiskInv
<1>2. FavoritesOnDisk'
  BY SameOnDisk DEF FavInv
<1> QED
  BY <1>1, <1>2 DEF FavInv

LEMMA NextFavorites ==
  ASSUME DiskInv, FavInv, [Next]_vars
  PROVE  DiskInv' /\ FavInv'
<1>1. CASE Searching
  <2>1. gui' = gui /\ UNCHANGED favvars
    BY <1>1 DEF Searching, SearchThread, SearchStarts, Locks, Unlocks, ClearList, Fails,
       Parses, AddStation, CountStation, Parsed, ClosesWindow, SearchEnds, viewvars
  <2> QED
    BY <2>1, OthersLeave
<1>2. CASE Resolving
  <2>1. gui' = gui /\ UNCHANGED favvars
    BY <1>2 DEF Resolving, CriticalThread, Resolve, ResolveEnds, StoreResult, ResolveFavorite
  <2> QED
    BY <2>1, OthersLeave
<1>3. CASE (StationStep \/ StationClick) /\ UNCHANGED favvars
  <2>1. \/ gui' = gui
        \/ gui.at \notin {"write", "load"} /\ gui'.at \notin {"truncate", "write", "load"}
    <3> USE DEF Click, Goto, Back
    <3>1. CASE StationStep
      BY <3>1 DEF StationStep, SearchAgain, Page, DrawTakesLists, DrawLocks, Draw
    <3>2. CASE StationClick
      BY <3>2 DEF StationClick, ClickGenre, ClickView, ClickNextPage, ClickPriorPage,
                  ClickStation
    <3> QED
      BY <1>3, <3>1, <3>2
  <2> QED
    BY <1>3, <2>1, OthersLeave
<1>4. CASE FavoriteStep \/ FavoriteClick
  BY <1>4, SavingFavorites, ClickingFavorites
<1>5. CASE Restart
  <2>1. load_favorites /\ disk' = disk /\ fav_position' = 0 /\ gui'.at = "loop"
    BY <1>5 DEF Restart
  <2>2. DiskInv'
    BY <2>1 DEF DiskInv
  <2> QED
    BY <2>1, <2>2, LoadsWhole DEF FavInv
<1>6. CASE UNCHANGED vars
  BY <1>6, OthersLeave DEF vars, viewvars
<1> QED
  BY <1>1, <1>2, <1>3, <1>4, <1>5, <1>6 DEF Next, GuiStep, User

LEMMA FavoritesHold == Spec => [](DiskInv /\ FavInv)
<1>1. DiskInv /\ FavInv /\ [Next]_vars => (DiskInv /\ FavInv)'
  BY NextFavorites
<1> QED
  BY InitFavorites, <1>1, PTL DEF Spec

(* Whatever is added, deleted, copied there or interrupted: outside a save *)
(* the favorites that are listed are those of the disk.                    *)
THEOREM ListedFavorites == Spec => []FavoritesOnDisk
<1>1. DiskInv /\ FavInv => FavoritesOnDisk
  BY DEF FavInv
<1> QED
  BY <1>1, FavoritesHold, PTL

-----------------------------------------------------------------------------
(* The rest of the types.                                                  *)
ViewsOK ==
  /\ connect_mutex \in {Free, "search", "critical"}
  /\ listviews_mutex.depth <= 2
  /\ current_lv \in Views /\ rows \subseteq Objects
  /\ request.info \in {"none", "I_STATION", "I_PLAYLIST"} /\ request.value \in Objects
  /\ gui.at \in {"loop", "join", "page", "frame", "draw", "truncate", "write", "load"}
  /\ gui.at = "page" => gui.arg.read \in Int /\ gui.arg.by \in Int

ThreadsOK ==
  /\ position \in Int /\ setup \in Setups /\ wnd \in {0, 8}
  /\ search \in {"none", "start", "clear", "clearing", "cleared", "download", "again",
                 "parse", "count", "close", "exit", "ended"}
  /\ critical \in {"idle", "dial", "connect", "failed", "result"}

LEMMA InitTypes == Init => ViewsOK /\ ThreadsOK
BY ViewsAssumption
   DEF Init, ViewsInit, SearchInit, FavoritesInit, ViewsOK, ThreadsOK, NoRequest, Objects,
       FirstView, Views, Free

LEMMA SearchingTypes ==
  ASSUME IInv, ViewsOK, ThreadsOK, SearchThread
  PROVE  ViewsOK' /\ ThreadsOK'
<1> USE DEF ViewsOK, ThreadsOK, To, IInv, ListviewsInv, Free, Gone, listvars
<1>1. CASE SearchStarts
  BY <1>1 DEF SearchStarts, P_connect
<1>2. CASE ClearList \/ Fails \/ AddStation \/ CountStation
  BY <1>2 DEF ClearList, Fails, AddStation, CountStation, viewvars
<1>3. CASE Locks("clear", "clearing") \/ Parses
  BY <1>3 DEF Parses, Locks, P_listviews
<1>4. CASE Unlocks("cleared", "download") \/ Parsed
  BY <1>4 DEF Parsed, Unlocks, V_listviews
<1>5. CASE ClosesWindow
  BY <1>5 DEF ClosesWindow, SetListView, Views
<1>6. CASE SearchEnds
  BY <1>6 DEF SearchEnds, V_connect, Abandoned
<1> QED
  BY <1>1, <1>2, <1>3, <1>4, <1>5, <1>6 DEF SearchThread

LEMMA StationTypes ==
  ASSUME IInv, ViewsOK, ThreadsOK, StationStep \/ StationClick
  PROVE  ViewsOK' /\ ThreadsOK'
<1> USE ViewsAssumption
    DEF ViewsOK, ThreadsOK, Click, Goto, Back, listvars, searchvars, stationvars
<1>1. CASE ClickGenre \/ ClickStation
  BY <1>1 DEF ClickGenre, ClickStation
<1>2. CASE ClickView
  BY <1>2 DEF ClickView, SetListView
<1>3. CASE ClickNextPage \/ ClickPriorPage
  BY <1>3 DEF ClickNextPage, ClickPriorPage
<1>4. CASE SearchAgain \/ Page \/ DrawTakesLists
  BY <1>4 DEF SearchAgain, Page, DrawTakesLists
<1>5. CASE DrawLocks
  BY <1>5 DEF DrawLocks, P_listviews, IInv, ListviewsInv, Free
<1>6. CASE Draw
  BY <1>6 DEF Draw, V_listviews, IInv, ListviewsInv
<1> QED
  BY <1>1, <1>2, <1>3, <1>4, <1>5, <1>6 DEF StationStep, StationClick

LEMMA NextTypes ==
  ASSUME IInv, ViewsOK, ThreadsOK, [Next]_vars
  PROVE  ViewsOK' /\ ThreadsOK'
<1>1. CASE Searching
  BY <1>1, SearchingTypes DEF Searching
<1>2. CASE StationStep \/ StationClick
  BY <1>2, StationTypes
<1>3. CASE Resolving
  <2> USE DEF ViewsOK, ThreadsOK, listvars, searchvars, Free
  <2>1. CASE Resolve \/ ResolveFavorite
    BY <2>1 DEF Resolve, ResolveFavorite, P_connect
  <2>2. CASE ResolveEnds
    BY <2>2 DEF ResolveEnds, V_connect
  <2>3. CASE StoreResult
    <3>1. NoRequest.info = "none" /\ NoRequest.value \in Objects
      BY ViewsAssumption DEF NoRequest, Objects
    <3> QED
      BY <2>3, <3>1 DEF StoreResult
  <2> QED
    BY <1>3, <2>1, <2>2, <2>3 DEF Resolving, CriticalThread
<1>4. CASE FavoriteStep /\ UNCHANGED stationvars
  BY <1>4 DEF FavoriteStep, SaveOpens, SaveWrites, SaveLoads, Goto, Back, ViewsOK, ThreadsOK,
              stationvars, listvars, searchvars
<1>5. CASE FavoriteClick /\ UNCHANGED stationvars
  BY <1>5 DEF FavoriteClick, ClickAdd, ClickDelete, ClickNextFavorites, ClickPriorFavorites,
              ClickFavorite, Click, Goto, ViewsOK, ThreadsOK, stationvars, listvars,
              searchvars
<1>6. CASE Restart
  BY <1>6, ViewsAssumption
     DEF Restart, ViewsOK, ThreadsOK, NoRequest, Objects, FirstView, Views, Free
<1>7. CASE UNCHANGED vars
  BY <1>7 DEF vars, viewvars, stationvars, listvars, searchvars, ViewsOK, ThreadsOK
<1> QED
  BY <1>1, <1>2, <1>3, <1>4, <1>5, <1>6, <1>7 DEF Next, GuiStep, User

(* Every variable of the lists keeps its type.                             *)
THEOREM ListsTypes == Spec => []TypeOK
<1>1. IInv /\ ViewsOK /\ ThreadsOK /\ [Next]_vars => (ViewsOK /\ ThreadsOK)'
  BY NextTypes
<1>2. IInv /\ DiskInv /\ FavInv /\ ViewsOK /\ ThreadsOK => TypeOK
  BY DEF IInv, ListviewsInv, StationsInv, DiskInv, FavInv, ViewsOK, ThreadsOK, TypeOK, Entry
<1> QED
  BY InitTypes, InvHolds, FavoritesHold, <1>1, <1>2, PTL DEF Spec
=============================================================================
