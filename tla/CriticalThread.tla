-------------------------- MODULE CriticalThread --------------------------
(***************************************************************************)
(* critical_thread: opens connections (new_connection) and receives the    *)
(* stream (network_playback) under connect_mutex, and stores what they     *)
(* returned in the system status after releasing it.                       *)
(***************************************************************************)
EXTENDS PlayerState

Return(r) == ret' = r /\ connect_mutex' = Free
KeepControl == UNCHANGED <<critical_running, gui_next, clicks>>

(* An iteration sleeps first, so critical_running was read long before     *)
(* connect_mutex is taken: "loop" is behind that test.  The status is read *)
(* once, under connect_mutex.                                              *)
Again == IF critical_running THEN "loop" ELSE "exited"

CriticalConnect ==
  /\ pc["critical"] = "loop"
  /\ current_ss = "CONNECTING"
  /\ P_connect("critical")
  /\ Goto("critical", "stop_flag")
  /\ UNCHANGED <<status, stream, source, device, file, audio_mutex, control>>

CriticalStreamStale == \* mutant of CriticalStream: any source will do
  /\ pc["critical"] = "loop"
  /\ current_ss \in {"BUFFERING", "PLAYING"}
  /\ client_connected
  /\ P_connect("critical")
  /\ Goto("critical", "recv")
  /\ UNCHANGED <<status, stream, source, device, file, audio_mutex, control>>

CriticalStream ==
  /\ pc["critical"] = "loop"
  /\ current_ss \in {"BUFFERING", "PLAYING"}
  /\ playback_type = "AS_NETWORK"
  /\ client_connected
  /\ P_connect("critical")
  /\ Goto("critical", "recv")
  /\ UNCHANGED <<status, stream, source, device, file, audio_mutex, control>>

HasWork == \/ current_ss = "CONNECTING"
           \/ /\ current_ss \in {"BUFFERING", "PLAYING"}
              /\ playback_type = "AS_NETWORK" /\ client_connected

CriticalExit ==  \* the last iteration, with nothing to do
  /\ pc["critical"] = "loop" /\ ~critical_running
  /\ connect_mutex = Free
  /\ ~HasWork
  /\ Goto("critical", "exited")
  /\ UNCHANGED <<status, stream, source, device, file, mutexes, control>>

(* new_connection after its sound_stop: what to play.  A request that      *)
(* cannot be resolved returns FAILED, a folder returns -1; neither touches *)
(* playback_type.                                                          *)
UnresolvedSilently == \* mutant of Unresolved: -1 for every request
  /\ pc["critical"] = "resolve"
  /\ info \in {"I_LOCAL", "I_STATION", "I_PLAYLIST"}
  /\ Return("none")
  /\ Goto("critical", Again)
  /\ UNCHANGED <<status, stream, source, device, file, audio_mutex>>
  /\ KeepControl

Unresolved ==
  /\ pc["critical"] = "resolve"
  /\ \/ info = "I_LOCAL" /\ Return("none")
     \/ info \in {"I_STATION", "I_PLAYLIST"} /\ Return("FAILED")
  /\ Goto("critical", IF info = "I_LOCAL" THEN Again ELSE "publish")
  /\ UNCHANGED <<status, stream, source, device, file, audio_mutex>>
  /\ KeepControl

MayBeLocal ==
  CASE info = "I_LOCAL"    -> {TRUE}
    [] info = "I_STATION"  -> {FALSE}
    [] info = "I_PLAYLIST" -> BOOLEAN
    [] OTHER               -> {local}

ResolveFile ==
  /\ pc["critical"] = "resolve"
  /\ TRUE \in MayBeLocal
  /\ local' = TRUE
  /\ info' = IF info = "I_PLAYLIST" THEN "I_LOCAL" ELSE info
  /\ playback_type' = "AS_LOCAL"
  /\ Return("START_PLAYING_FILE")
  /\ Goto("critical", "publish")
  /\ UNCHANGED <<status, stream, device, file, audio_mutex>>
  /\ KeepControl

ResolveStream ==
  /\ pc["critical"] = "resolve"
  /\ FALSE \in MayBeLocal
  /\ local' = FALSE
  /\ playback_type' = "AS_NULL"
  /\ client_connected' = FALSE
  /\ Goto("critical", "dial")
  /\ UNCHANGED <<status, info, looking_for_header, bufferring, redirect_detected,
                 device, file, mutexes, control>>

(* client_connect has answered.  A connection whose request cannot be sent *)
(* is closed, but client_close leaves client_connected set.                *)
IcyResetPartly == \* mutant of IcyReset: the redirects are not forgotten
  /\ looking_for_header' = TRUE
  /\ bufferring' = TRUE
  /\ UNCHANGED redirect_detected

IcyReset ==
  /\ looking_for_header' = TRUE
  /\ bufferring' = TRUE
  /\ redirect_detected' = 0

Dialled ==
  /\ pc["critical"] = "dial"
  /\ client_connected' = TRUE
  /\ IcyReset
  /\ playback_type' = "AS_NETWORK"
  /\ Return("BUFFERING")
  /\ Goto("critical", "publish")
  /\ UNCHANGED <<status, info, local, device, file, audio_mutex>>
  /\ KeepControl

DialFailed ==
  /\ pc["critical"] = "dial"
  /\ \/ UNCHANGED stream
     \/ client_connected' = TRUE /\ IcyReset
  /\ Return("FAILED")
  /\ Goto("critical", "publish")
  /\ UNCHANGED <<status, source, device, file, audio_mutex>>
  /\ KeepControl

-----------------------------------------------------------------------------
(* network_playback, first half: client_recv and buffer_data.              *)
NothingReceived == UNCHANGED <<status, stream>>

PeerClosed ==
  /\ client_connected' = FALSE
  /\ UNCHANGED <<status, looking_for_header, bufferring, redirect_detected>>

Redirected ==
  /\ looking_for_header
  /\ redirect_detected' = redirect_detected + 1
  /\ UNCHANGED <<status, client_connected, looking_for_header, bufferring>>

HeaderRefused ==
  /\ looking_for_header
  /\ SetSystemStatus("FAILED")
  /\ UNCHANGED stream

AudioReceived == \* the first time, behind the header
  /\ looking_for_header' = FALSE
  /\ bufferring' \in {bufferring, FALSE}
  /\ UNCHANGED <<status, client_connected, redirect_detected>>

Receive ==
  /\ pc["critical"] = "recv"
  /\ \/ NothingReceived
     \/ PeerClosed
     \/ Redirected
     \/ HeaderRefused
     \/ AudioReceived
  /\ Goto("critical", "decide")
  /\ UNCHANGED <<source, device, file, mutexes, control>>

TooManyErrors ==
  /\ pc["critical"] = "recv"
  /\ Return("FAILED")
  /\ Goto("critical", "publish")
  /\ UNCHANGED <<status, stream, source, device, file, audio_mutex>>
  /\ KeepControl

(* Second half: what the state of the stream means for the status.  The    *)
(* buffering timeout is a choice here; module NetBuffering has the clock.  *)
StreamVerdict ==
  IF ~client_connected THEN {"FAILED"}
  ELSE IF redirect_detected > MaxRedirects THEN {"FAILED"}
  ELSE IF redirect_detected > 0 THEN {"REDIRECT"}
  ELSE IF bufferring THEN {"BUFFERING", "FAILED"}
  ELSE IF current_ss = "BUFFERING" THEN {"PLAYING"}
  ELSE {"none"}

Decide ==
  /\ pc["critical"] = "decide"
  /\ \E r \in StreamVerdict :
       /\ ret' = r
       /\ \/ /\ r = "PLAYING"
             /\ Goto("critical", "start")
             /\ UNCHANGED connect_mutex
          \/ /\ r # "PLAYING"
             /\ connect_mutex' = Free
             /\ Goto("critical", IF r = "none" THEN Again ELSE "publish")
  /\ UNCHANGED <<status, stream, source, device, file, audio_mutex>>
  /\ KeepControl

StreamStarted ==
  /\ pc["critical"] = "started"
  /\ connect_mutex' = Free
  /\ Goto("critical", "publish")
  /\ UNCHANGED <<status, stream, source, device, file, audio_mutex, control>>

-----------------------------------------------------------------------------
(* The result is stored after V(connect_mutex).                            *)
PublishStatus ==
  /\ pc["critical"] = "publish"
  /\ ret # "REDIRECT"
  /\ SetSystemStatus(ret)
  /\ Goto("critical", Again)
  /\ UNCHANGED <<stream, source, device, file, mutexes, control>>

(* A redirect becomes a request, store by store, as the GUI thread makes   *)
(* one (connect_to_stream), and beside it.                                 *)
PublishRedirect ==
  /\ pc["critical"] = "publish"
  /\ ret = "REDIRECT"
  /\ local' = FALSE
  /\ Goto("critical", "redirect_info")
  /\ UNCHANGED <<status, stream, playback_type, info, device, file, mutexes, control>>

RedirectInfo ==
  /\ pc["critical"] = "redirect_info"
  /\ info' = "I_HASBEENSET"
  /\ Goto("critical", "redirect_connect")
  /\ UNCHANGED <<status, stream, playback_type, local, device, file, mutexes, control>>

RedirectConnect ==
  /\ pc["critical"] = "redirect_connect"
  /\ SetSystemStatus("CONNECTING")
  /\ Goto("critical", Again)
  /\ UNCHANGED <<stream, source, device, file, mutexes, control>>

CriticalStep ==
  \/ CriticalConnect \/ CriticalStream \/ CriticalExit
  \/ StopFlag("critical") \/ StopLock("critical") \/ StopJoin("critical")
  \/ Unresolved \/ ResolveFile \/ ResolveStream
  \/ Dialled \/ DialFailed
  \/ Receive \/ TooManyErrors \/ Decide
  \/ StartTest("critical") \/ StartLock("critical") \/ StartCreate("critical")
  \/ StreamStarted
  \/ PublishStatus \/ PublishRedirect \/ RedirectInfo \/ RedirectConnect
=============================================================================
