---------------------------- MODULE NetBuffering ----------------------------
(***************************************************************************)
(* The life of a network stream against the clock: new_connection,         *)
(* network_playback and icy::get_buffer, each of which runs under          *)
(* connect_mutex, and the two stores of the status that come late: that of *)
(* a result, after V(connect_mutex), and that of BUFFERING, behind a ring  *)
(* that was reset.  The clock, app_timer, is advanced by the GUI loop, and *)
(* the GUI and MixAudio store a status whenever they like.  A refused      *)
(* header changes nothing that lasts here: the FAILED it stores is         *)
(* overwritten by the BUFFERING that network_playback returns.             *)
(***************************************************************************)
EXTENDS Naturals

CONSTANTS
  Timeout,       \* BUFFERING_TIMEOUT
  MaxRedirects,  \* 20 in the code
  MaxTime        \* bound on the clock

ASSUME TimeoutAssumption == Timeout \in Nat \ {0}
ASSUME RedirectsAssumption == MaxRedirects \in Nat
ASSUME TimeAssumption == MaxTime \in Nat \ {0}

VARIABLES
  app_timer,           \* the clock; the first loop sets it before any request
  current_ss,
  network,             \* playback_type = AS_NETWORK
  buffering_start,
  client_connected,
  looking_for_header, bufferring, redirect_detected,   \* of class icy
  connect_mutex,       \* free, or what its owner is about to do
  result,              \* critical_thread's, until it is stored
  since                \* history: when this wait for sound began

icy  == <<looking_for_header, bufferring, redirect_detected>>
vars == <<app_timer, current_ss, network, buffering_start, client_connected, icy,
          connect_mutex, result, since>>

Init ==
  /\ app_timer = 1 /\ current_ss = "STOPPED" /\ network = FALSE
  /\ buffering_start = 0 /\ client_connected = FALSE
  /\ looking_for_header = FALSE /\ bufferring = FALSE /\ redirect_detected = 0
  /\ connect_mutex = "free" /\ result = "none"
  /\ since = 0

Tick ==
  /\ app_timer < MaxTime
  /\ app_timer' = app_timer + 1
  /\ UNCHANGED <<current_ss, network, buffering_start, client_connected, icy,
                 connect_mutex, result, since>>

(* A request, a pause and its end, the promotion of a file: stored by other*)
(* threads, without connect_mutex and maybe long after they were decided.  *)
StatusStored ==
  /\ current_ss' \in {"CONNECTING", "PAUSE", "PLAYING"}
  /\ UNCHANGED <<app_timer, network, buffering_start, client_connected, icy,
                 connect_mutex, result, since>>

Stop == \* click_stop and the two cancel buttons
  /\ connect_mutex = "free"
  /\ current_ss' = "STOPPED" /\ network' = FALSE
  /\ UNCHANGED <<app_timer, buffering_start, client_connected, icy,
                 connect_mutex, result, since>>

-----------------------------------------------------------------------------
IcyResetHeader == \* mutant of IcyReset: without icy_stream_reset
  /\ looking_for_header' = TRUE
  /\ redirect_detected' = 0
  /\ UNCHANGED bufferring

IcyReset ==
  /\ looking_for_header' = TRUE
  /\ redirect_detected' = 0
  /\ bufferring' = TRUE

StartTheClockLate == \* mutant of StartTheClock: left to network_playback
  since' = app_timer /\ UNCHANGED buffering_start

StartTheClock ==
  since' = app_timer /\ buffering_start' = app_timer

Connected ==
  /\ result' = "BUFFERING"
  /\ client_connected' = TRUE /\ network' = TRUE
  /\ IcyReset /\ StartTheClock

NotResolved == \* nothing to connect to: the source stays as it was
  /\ result' = "FAILED"
  /\ UNCHANGED <<network, client_connected, icy, since, buffering_start>>

NotConnected == \* no answer, or the request is not sent
  /\ result' = "FAILED"
  /\ network' = FALSE
  /\ \/ client_connected' = FALSE /\ UNCHANGED icy
     \/ client_connected' = TRUE /\ IcyReset
  /\ UNCHANGED <<since, buffering_start>>

NewConnection ==
  /\ connect_mutex = "free" /\ result = "none"
  /\ current_ss = "CONNECTING"
  /\ Connected \/ NotResolved \/ NotConnected
  /\ UNCHANGED <<app_timer, current_ss, connect_mutex>>

-----------------------------------------------------------------------------
(* network_playback: what client_recv and buffer_data do ...               *)
NothingReceived == UNCHANGED <<client_connected, icy>>

PeerClosed == client_connected' = FALSE /\ UNCHANGED icy

Redirected == \* bound: those behind MaxRedirects are not counted
  /\ looking_for_header
  /\ redirect_detected <= MaxRedirects
  /\ redirect_detected' = redirect_detected + 1
  /\ UNCHANGED <<client_connected, looking_for_header, bufferring>>

AudioReceived ==
  /\ looking_for_header' = FALSE
  /\ bufferring' \in {bufferring, FALSE}
  /\ UNCHANGED <<client_connected, redirect_detected>>

Receive ==
  /\ connect_mutex = "free" /\ result = "none"
  /\ current_ss \in {"BUFFERING", "PLAYING"}
  /\ network /\ client_connected
  /\ NothingReceived \/ PeerClosed \/ Redirected \/ AudioReceived
  /\ connect_mutex' = "decide"
  /\ UNCHANGED <<app_timer, current_ss, network, buffering_start, result, since>>

(* ... and what follows from it.  The status is read a second time.        *)
GiveUp == result' = "FAILED" /\ UNCHANGED buffering_start

FollowRedirect == result' = "REDIRECT" /\ UNCHANGED buffering_start

Wait ==
  /\ buffering_start' = IF buffering_start = 0 THEN app_timer ELSE buffering_start
  /\ result' = IF app_timer - buffering_start' > Timeout THEN "FAILED" ELSE "BUFFERING"

PlayOn ==
  /\ result' = IF current_ss = "BUFFERING" THEN "PLAYING" ELSE "none"
  /\ UNCHANGED buffering_start

Verdict ==
  IF ~client_connected \/ redirect_detected > MaxRedirects THEN GiveUp
  ELSE IF redirect_detected > 0 THEN FollowRedirect
  ELSE IF bufferring THEN Wait
  ELSE PlayOn

Decide ==
  /\ connect_mutex = "decide"
  /\ Verdict \/ GiveUp        \* after too many errors of client_recv
  /\ connect_mutex' = "free"
  /\ UNCHANGED <<app_timer, current_ss, network, client_connected, icy, since>>

Publish == \* critical_thread stores its result; a redirect is a new request
  /\ result # "none"
  /\ current_ss' = IF result = "REDIRECT" THEN "CONNECTING" ELSE result
  /\ result' = "none"
  /\ UNCHANGED <<app_timer, network, buffering_start, client_connected, icy,
                 connect_mutex, since>>

(* icy::get_buffer ran dry: icy_stream_reset, which leaves buffering_start *)
(* alone; then, behind a wait for script_mutex, the status.                *)
RanDry ==
  /\ connect_mutex = "free"
  /\ current_ss = "PLAYING" /\ network
  /\ bufferring' = TRUE
  /\ since' = IF bufferring THEN since ELSE app_timer
  /\ connect_mutex' = "rebuffer"
  /\ UNCHANGED <<app_timer, current_ss, network, buffering_start, client_connected,
                 looking_for_header, redirect_detected, result>>

Rebuffer ==
  /\ connect_mutex = "rebuffer"
  /\ current_ss' = "BUFFERING"
  /\ connect_mutex' = "free"
  /\ UNCHANGED <<app_timer, network, buffering_start, client_connected, icy, result,
                 since>>

Next == \/ Tick \/ StatusStored \/ Stop
        \/ NewConnection \/ Receive \/ Decide \/ Publish
        \/ RanDry \/ Rebuffer

Spec == Init /\ [][Next]_vars

-----------------------------------------------------------------------------
(* network_playback never tells a stream to go on waiting for sound, at    *)
(* the first connection or after it ran dry, longer than the timeout after *)
(* the wait began, whatever is stored in the status meanwhile.  (When the  *)
(* BUFFERING it returned is stored is up to the scheduler.)                *)
NeverTooLate ==
  [][Decide /\ result' = "BUFFERING" => app_timer - since <= Timeout]_vars

(* network_playback starts the device only behind the complete header and  *)
(* the pre-buffered sound of the connection that is open now, however many *)
(* connections, redirects and rebufferings came before it and although the *)
(* status it started from may have been stored for another one.            *)
StartsBehindHeader ==
  [][Decide /\ result' = "PLAYING" =>
       /\ network /\ client_connected
       /\ ~looking_for_header /\ ~bufferring /\ redirect_detected = 0]_vars
=============================================================================
