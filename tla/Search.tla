------------------------------- MODULE Search -------------------------------
(***************************************************************************)
(* A directory search: a genre is clicked, the search before is joined,    *)
(* and a new search_thread empties the browser's list, downloads the page  *)
(* of the directory service and fills the list again.  It holds            *)
(* connect_mutex throughout, so critical_thread resolves no station        *)
(* meanwhile, and listviews_mutex while the list is touched, so that the   *)
(* GUI draws no half of it; paging and clicking take neither.              *)
(*                                                                         *)
(* A station is the genre it was searched for.  How long a download takes  *)
(* and where it fails is the server's choice.                              *)
(***************************************************************************)
EXTENDS ListViews

CONSTANTS
  Genres,
  Setups,       \* the directory service that the options name, with whether the
                \* system passes on a mutex whose owner has ended, as Windows
                \* does and Linux does not
  MaxStations   \* bound: stations on a page

ASSUME SearchAssumption ==
  /\ Setups \subseteq {"SHOUTCAST", "ICECAST"} \X BOOLEAN
  /\ MaxStations \in Nat

Gone == "gone"          \* a thread that has ended

VARIABLES
  sl, total, position,  \* of class browser
  buf,                  \* search_options.buf
  genre,                \* what the page is asked for
  setup,                \* the service, oservicetype, and the system
  search,               \* where search_thread is
  wnd,                  \* the window that is shown: 0 or 8, SYS_SEARCHING
  critical              \* where critical_thread is

listvars   == <<sl, total, position>>
searchvars == <<buf, genre, setup, search, wnd>>
stationvars == <<listvars, searchvars, critical>>

SearchInit ==
  /\ sl = <<>> /\ total = 0 /\ position = 0
  /\ buf \in Genres /\ genre = buf /\ setup \in Setups
  /\ search = "none" /\ wnd = 0 /\ critical = "idle"

-----------------------------------------------------------------------------
(* search_thread.                                                          *)
To(from, to) == search = from /\ search' = to

SearchStartsLoose == \* mutant of SearchStarts: without connect_mutex
  /\ To("start", "clear")
  /\ wnd' = 8 /\ genre' = buf
  /\ UNCHANGED <<listvars, buf, setup, critical, connect_mutex, listviews_mutex,
                 current_lv, rows, request, gui, clicks>>

SearchStarts ==
  /\ To("start", "clear")
  /\ P_connect("search")
  /\ wnd' = 8 /\ genre' = buf
  /\ UNCHANGED <<listvars, buf, setup, critical, listviews_mutex, current_lv, rows,
                 request, gui, clicks>>

ClearListStale == \* mutant of ClearList: total stays
  /\ To("clearing", "cleared")
  /\ position' = 0 /\ sl' = <<>>
  /\ UNCHANGED <<total, buf, genre, setup, wnd, critical, viewvars>>

ClearList ==
  /\ To("clearing", "cleared")
  /\ position' = 0 /\ sl' = <<>> /\ total' = 0
  /\ UNCHANGED <<buf, genre, setup, wnd, critical, viewvars>>

Locks(from, to) ==
  /\ To(from, to)
  /\ P_listviews("search")
  /\ UNCHANGED <<listvars, buf, genre, setup, wnd, critical, connect_mutex, current_lv, rows,
                 request, gui, clicks>>

Unlocks(from, to) ==
  /\ To(from, to)
  /\ V_listviews("search")
  /\ UNCHANGED <<listvars, buf, genre, setup, wnd, critical, connect_mutex, current_lv, rows,
                 request, gui, clicks>>

Fails ==        \* browser::connect returns 0; nothing looks at that
  /\ To("download", "close")
  /\ UNCHANGED <<listvars, buf, genre, setup, wnd, critical, viewvars>>

Parses ==       \* for ICECAST the mutex is taken a second time
  \/ Locks("download", IF setup[1] = "ICECAST" THEN "again" ELSE "parse")
  \/ Locks("again", "parse")

AddStation ==   \* new_sl_list
  /\ Len(sl) < MaxStations
  /\ To("parse", "count")
  /\ sl' = Append(sl, genre)
  /\ UNCHANGED <<total, position, buf, genre, setup, wnd, critical, viewvars>>

CountStation ==
  /\ To("count", "parse")
  /\ total' = total + 1
  /\ UNCHANGED <<sl, position, buf, genre, setup, wnd, critical, viewvars>>

ParsedLocked == \* mutant of Parsed: V(listviews_mutex) forgotten
  /\ To("parse", "close")
  /\ UNCHANGED <<listvars, buf, genre, setup, wnd, critical, viewvars>>

Parsed == Unlocks("parse", "close") \* the end of the page, or TIME_OUT_MS is over

ClosesWindowNever == \* mutant of ClosesWindow: the window stays
  /\ To("close", "exit")
  /\ SetListView("S_BROWSER")
  /\ UNCHANGED <<listvars, buf, genre, setup, wnd, critical, connect_mutex, listviews_mutex,
                 request, gui, clicks>>

ClosesWindow ==
  /\ To("close", "exit")
  /\ wnd' = 0
  /\ SetListView("S_BROWSER")
  /\ UNCHANGED <<listvars, buf, genre, setup, critical, connect_mutex, listviews_mutex,
                 request, gui, clicks>>

(* What the thread has not given back is handed over, or stays with it.    *)
Abandoned ==
  IF listviews_mutex.owner # "search" THEN listviews_mutex
    ELSE IF setup[2] THEN [owner |-> Free, depth |-> 0]
                     ELSE [listviews_mutex EXCEPT !.owner = Gone]

SearchEndsLocked == \* mutant of SearchEnds: V(connect_mutex) forgotten
  /\ To("exit", "ended")
  /\ UNCHANGED connect_mutex
  /\ listviews_mutex' = Abandoned
  /\ UNCHANGED <<listvars, buf, genre, setup, wnd, critical, current_lv, rows, request, gui,
                 clicks>>

SearchEnds ==
  /\ To("exit", "ended")
  /\ V_connect
  /\ listviews_mutex' = Abandoned
  /\ UNCHANGED <<listvars, buf, genre, setup, wnd, critical, current_lv, rows, request, gui,
                 clicks>>

SearchThread ==
  \/ SearchStarts \/ Locks("clear", "clearing") \/ ClearList
  \/ Unlocks("cleared", "download") \/ Fails \/ Parses \/ AddStation \/ CountStation
  \/ Parsed \/ ClosesWindow \/ SearchEnds

-----------------------------------------------------------------------------
(* The GUI thread.  search_function waits for the search before this one.  *)
ClickGenreSoon == \* mutant of ClickGenre: search_options first, then the join
  /\ Click
  /\ buf' \in Genres
  /\ Goto("join", buf')
  /\ UNCHANGED <<listvars, genre, setup, search, wnd, critical, connect_mutex,
                 listviews_mutex, current_lv, rows, request>>

ClickGenre ==
  /\ Click
  /\ \E g \in Genres : Goto("join", g)
  /\ UNCHANGED <<stationvars, connect_mutex, listviews_mutex, current_lv, rows, request>>

SearchAgain ==
  /\ gui.at = "join"
  /\ search \in {"none", "ended"}
  /\ buf' = gui.arg
  /\ search' = "start"
  /\ Back
  /\ UNCHANGED <<listvars, genre, setup, wnd, critical, connect_mutex, listviews_mutex,
                 current_lv, rows, request, clicks>>

ClickView ==    \* click_browser, click_playlists, click_genres, click_localbrowser
  /\ Click
  /\ \E v \in Views \ {current_lv} : SetListView(v)
  /\ UNCHANGED <<stationvars, connect_mutex, listviews_mutex, request, gui>>

(* MoveNext and MoveBack compare, and then add to what they have read or   *)
(* to what is there by then, as the compiler likes it.                     *)
ClickNextPage ==
  /\ Click /\ current_lv = "S_BROWSER"
  /\ MayMoveNext(position, total)
  /\ Goto("page", [read |-> position, by |-> view_max])
  /\ UNCHANGED <<stationvars, connect_mutex, listviews_mutex, current_lv, rows, request>>

ClickPriorPage ==
  /\ Click /\ current_lv = "S_BROWSER"
  /\ IF position - view_max <= 0
       THEN position' = 0 /\ UNCHANGED gui
       ELSE Goto("page", [read |-> position, by |-> -view_max]) /\ UNCHANGED position
  /\ UNCHANGED <<sl, total, searchvars, critical, connect_mutex, listviews_mutex,
                 current_lv, rows, request>>

Page ==
  /\ gui.at = "page"
  /\ \E p \in {position, gui.arg.read} : position' = p + gui.arg.by
  /\ Back
  /\ UNCHANGED <<sl, total, searchvars, critical, connect_mutex, listviews_mutex,
                 current_lv, rows, request, clicks>>

ClickStation == \* any row that the last drawing has left visible
  /\ Click /\ current_lv = "S_BROWSER"
  /\ \E object_id \in rows : request' = [info |-> "I_STATION", value |-> object_id]
  /\ UNCHANGED <<stationvars, connect_mutex, listviews_mutex, current_lv, rows, gui>>

(* draw_browser and draw_local_files hold listviews_mutex; an empty list   *)
(* of stations leaves the rows as they are.                                *)
DrawTakesLists ==
  /\ gui.at = "loop" /\ current_lv \in {"S_BROWSER", "S_LOCALFILES"}
  /\ Goto("frame", current_lv)
  /\ UNCHANGED <<stationvars, connect_mutex, listviews_mutex, current_lv, rows, request,
                 clicks>>

DrawLocks ==
  /\ gui.at = "frame"
  /\ P_listviews("gui")
  /\ Goto("draw", gui.arg)
  /\ UNCHANGED <<stationvars, connect_mutex, current_lv, rows, request, clicks>>

Draw ==
  /\ gui.at = "draw"
  /\ rows' = IF gui.arg = "S_BROWSER" /\ total > 0
               THEN {i \in Objects : position + i < total} ELSE rows
  /\ V_listviews("gui")
  /\ Back
  /\ UNCHANGED <<stationvars, connect_mutex, current_lv, request, clicks>>

StationClick == ClickGenre \/ ClickView \/ ClickNextPage \/ ClickPriorPage \/ ClickStation
StationStep == SearchAgain \/ Page \/ DrawTakesLists \/ DrawLocks \/ Draw

-----------------------------------------------------------------------------
(* critical_thread: new_connection for a station.  GetItem bounds its      *)
(* index by > instead of >=, so that the slot behind the list, which is    *)
(* empty or not its own, may be read; the entry is used until the playlist *)
(* of the station was downloaded.                                          *)
GetItem(n) == n + position \in 0 .. Len(sl)

Resolve ==
  /\ critical = "idle" /\ request.info = "I_STATION"
  /\ P_connect("critical")
  /\ critical' = IF request.value <= total /\ GetItem(request.value)
                   THEN "dial" ELSE "failed"
  /\ UNCHANGED <<listvars, searchvars, listviews_mutex, current_lv, rows, request, gui,
                 clicks>>

Resolved ==     \* holding connect_mutex
  critical \in {"dial", "connect", "failed"}

ResolveEnds ==
  /\ Resolved
  /\ V_connect
  /\ critical' = "result"
  /\ UNCHANGED <<listvars, searchvars, listviews_mutex, current_lv, rows, request, gui,
                 clicks>>

StoreResult ==  \* over whatever was asked for since Resolve: that is lost
  /\ critical = "result"
  /\ critical' = "idle"
  /\ request' = NoRequest
  /\ UNCHANGED <<listvars, searchvars, connect_mutex, listviews_mutex, current_lv, rows,
                 gui, clicks>>

CriticalThread == Resolve \/ ResolveEnds \/ StoreResult
=============================================================================
