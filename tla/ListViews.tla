------------------------------ MODULE ListViews ------------------------------
(***************************************************************************)
(* What the lists on the screen share: the view that is shown, the two     *)
(* mutexes that the GUI thread, search_thread and critical_thread take,    *)
(* and the request that a click leaves for critical_thread.                *)
(*                                                                         *)
(* SDL mutexes are recursive: listviews_mutex is its owner and how often   *)
(* it was taken.  connect_mutex is never taken twice here, its owner is    *)
(* enough.  script_mutex is a leaf and needs no variable (PlayerState).    *)
(***************************************************************************)
EXTENDS Integers, Sequences, FiniteSets

CONSTANTS
  view_max,     \* rows of a list on the screen (max_listings)
  MaxClicks     \* bound: how many times the user acts

ASSUME ViewsAssumption == view_max \in Nat \ {0} /\ MaxClicks \in Nat

VARIABLES
  connect_mutex, listviews_mutex,
  current_lv,   \* the view that is shown
  rows,         \* rows of the browser's list that can be clicked
  request,      \* current_info, while the status is CONNECTING
  gui,          \* the GUI thread: where it is, and what it has read
  clicks

viewvars == <<connect_mutex, listviews_mutex, current_lv, rows, request, gui, clicks>>

Free == "free"
Views == {"S_BROWSER", "S_PLAYLISTS", "S_GENRES", "S_LOCALFILES"}
Objects == 0 .. view_max - 1   \* object_id of a row
NoRequest == [info |-> "none", value |-> 0]

ViewsInit ==
  /\ connect_mutex = Free /\ listviews_mutex = [owner |-> Free, depth |-> 0]
  /\ rows = {} /\ request = NoRequest
  /\ gui = [at |-> "loop", arg |-> 0] /\ clicks = 0

P_listviews(t) ==
  /\ listviews_mutex.owner \in {Free, t}
  /\ listviews_mutex' = [owner |-> t, depth |-> listviews_mutex.depth + 1]

V_listviews(t) ==
  listviews_mutex' = [owner |-> IF listviews_mutex.depth = 1 THEN Free ELSE t,
                      depth |-> listviews_mutex.depth - 1]

P_connect(t) == connect_mutex = Free /\ connect_mutex' = t
V_connect == connect_mutex' = Free

Goto(label, arg) == gui' = [at |-> label, arg |-> arg]
Back == Goto("loop", 0)

Click ==
  /\ gui.at = "loop"
  /\ clicks < MaxClicks
  /\ clicks' = clicks + 1

(* What is shown first: the favorites if there are any.                    *)
FirstView(favorites) == IF favorites > 0 THEN "S_PLAYLISTS" ELSE "S_GENRES"

(* SetListView hides the lists of the other views.                         *)
SetListView(s) ==
  /\ current_lv' = s
  /\ rows' = IF s = "S_BROWSER" THEN rows ELSE {}

(* The lists page alike.                                                   *)
MayMoveNext(position, total) == position + view_max <= total
=============================================================================
