------------------------------ MODULE Playback ------------------------------
(***************************************************************************)
(* The player: all threads together, and what they promise each other.     *)
(***************************************************************************)
EXTENDS CriticalThread, AudioThreads, GuiThread

Init ==
  /\ current_ss = "STOPPED" /\ overtaken = FALSE
  /\ playback_type = "AS_NULL" /\ info = "I_DIRECT" /\ local = FALSE
  /\ client_connected = FALSE /\ looking_for_header = FALSE
  /\ bufferring = FALSE /\ redirect_detected = 0
  /\ dev_playing = FALSE /\ dev_done = FALSE /\ primed = FALSE
  /\ stock = 0 /\ paused = FALSE
  /\ fileendpos = 0 /\ unread = 0 /\ bytes_done = 0 /\ file_done = FALSE
  /\ connect_mutex = Free /\ audio_mutex = Free
  /\ critical_running = TRUE /\ gui_next = "stopped" /\ ret = "none" /\ clicks = 0
  /\ pc = [gui |-> "loop", critical |-> "loop", decoder |-> "none",
           mixer |-> "idle"]

ThreadStep == CriticalStep \/ AudioStep \/ GuiStep

Next == ThreadStep \/ UserStep

Spec == Init /\ [][Next]_vars

(* Every thread keeps running, and one that waits for a mutex gets it when *)
(* the mutex is free again and again: every loop sleeps outside of its     *)
(* mutexes.  The user is not fair.                                         *)
CriticalWaits == \/ CriticalConnect \/ CriticalStream \/ CriticalExit
                 \/ StopLock("critical") \/ StartLock("critical")
GuiWaits == \/ StopTakesConnect \/ Cancel \/ StopLock("gui") \/ StartLock("gui") \/ SdlPause
            \/ SeekTakesConnect \/ SeekPause \/ SeekResume

Fairness ==
  /\ WF_vars(CriticalStep) /\ SF_vars(CriticalWaits)
  /\ WF_vars(GuiStep) /\ SF_vars(GuiWaits)
  /\ SF_vars(DecoderStep) /\ SF_vars(MixerStep)

FairSpec == Spec /\ Fairness

-----------------------------------------------------------------------------
FlagsOK ==
  /\ local \in BOOLEAN /\ client_connected \in BOOLEAN
  /\ looking_for_header \in BOOLEAN /\ bufferring \in BOOLEAN
  /\ dev_playing \in BOOLEAN /\ dev_done \in BOOLEAN /\ primed \in BOOLEAN
  /\ paused \in BOOLEAN /\ file_done \in BOOLEAN /\ critical_running \in BOOLEAN
  /\ overtaken \in BOOLEAN

DataOK ==
  /\ current_ss \in Statuses /\ playback_type \in Sources /\ info \in Infos
  /\ redirect_detected \in Nat /\ stock \in 0 .. MinBuffers
  /\ fileendpos \in FileSizes \cup {0}
  /\ unread \in 0 .. fileendpos /\ bytes_done \in 0 .. fileendpos
  /\ connect_mutex \in {Free, "gui", "critical", "decoder"}
  /\ audio_mutex \in {Free, "decoder", "mixer"}
  /\ gui_next \in {"stopped", "advance", "open", "close"}
  /\ ret \in Statuses \cup {"REDIRECT", "none"}
  /\ clicks \in 0 .. MaxClicks

PlacesOK ==
  /\ pc \in [Threads -> Labels]
  /\ pc["gui"] \in GuiLabels /\ pc["critical"] \in CriticalLabels
  /\ pc["decoder"] \in DecoderLabels /\ pc["mixer"] \in MixerLabels

TypeOK == FlagsOK /\ DataOK /\ PlacesOK

-----------------------------------------------------------------------------
Stopping(t) == pc[t] \in {"stop_flag", "stop_lock", "stop_join"}
Quiet == ~dev_playing /\ pc["decoder"] = "none"

(* Each mutex is owned exactly while its owner is between P and V: no path *)
(* of click_stop, seek_playback, new_connection, network_playback,         *)
(* audio_thread or MixAudio leaves one locked or releases one it lacks.    *)
GuiInConnect == \/ pc["gui"] \in {"stopped", "stop_store", "cancel_source",
                                   "seek_pause", "seek_reset", "seek_resume"}
                \/ Stopping("gui") /\ gui_next = "stopped"
CriticalInConnect == \/ Stopping("critical")
                     \/ pc["critical"] \in {"resolve", "dial", "recv", "decide", "start",
                                            "start_lock", "start_create", "started"}

MutexOwners ==
  /\ (connect_mutex = "gui") <=> GuiInConnect
  /\ (connect_mutex = "critical") <=> CriticalInConnect
  /\ (connect_mutex = "decoder") <=> (pc["decoder"] \in {"source", "rebuffer"})
  /\ (audio_mutex = "decoder") <=> (pc["decoder"] \in {"read", "source", "rebuffer"})
  /\ (audio_mutex = "mixer") <=> (pc["mixer"] = "promote")

(* While click_stop cuts the source off and until it has reported STOPPED, *)
(* the device does not play and its decoder thread has ended, whatever     *)
(* critical_thread and MixAudio were doing.                                *)
StopIsQuiet == pc["gui"] \in {"stopped", "stop_store"} => Quiet

(* Whom a thread waits for: the owner of the mutex in front of it, or the  *)
(* thread it joins.                                                        *)
AtConnect(t) == \/ pc[t] \in {"stop", "cancel", "seek", "read"}
                \/ t = "critical" /\ pc[t] = "loop"
AtAudio(t) == \/ pc[t] \in {"stop_lock", "start_lock", "sdl_pause", "sdl_resume",
                            "seek_pause", "seek_resume"}
              \/ t \in {"decoder", "mixer"} /\ pc[t] = "lock"

WaitsFor(t, u) ==
  \/ connect_mutex = u /\ AtConnect(t)
  \/ audio_mutex = u /\ AtAudio(t)
  \/ u = "decoder" /\ pc[t] = "stop_join" /\ pc[u] # "none"
  \/ u = "critical" /\ pc[t] = "exit_join" /\ pc[u] # "exited"
  \/ u = "mixer" /\ pc[t] = "close" /\ pc[u] # "idle"

(* The only way threads can wait for each other for ever: the owner of     *)
(* connect_mutex waits for audio_mutex or for the decoder's end, and the   *)
(* decoder waits for connect_mutex in reader_callback with audio_mutex     *)
(* held.                                                                   *)
LockCycle == /\ connect_mutex # Free
             /\ WaitsFor(connect_mutex, "decoder")
             /\ WaitsFor("decoder", connect_mutex)

WaitingThreads == {t \in Threads : \E u \in Threads : WaitsFor(t, u)}

OnlyLockCycles ==
  \A S \in SUBSET WaitingThreads :
    S # {} /\ (\A t \in S : \E u \in S : WaitsFor(t, u))
      => LockCycle /\ {connect_mutex, "decoder"} \subseteq S

(* A thread that has something to do and cannot go on waits for a living   *)
(* thread: a mutex that is not free has an owner, which is not the waiter, *)
(* and a join ends with the thread it waits for.                           *)
Waits(t) == \E u \in Threads \ {t} : WaitsFor(t, u)

NobodyWaitsInVain ==
  /\ pc["gui"] \notin {"loop", "exited"} /\ ~ENABLED GuiStep => Waits("gui")
  /\ pc["critical"] \notin {"loop", "exited"} /\ ~ENABLED CriticalStep => Waits("critical")
  /\ pc["decoder"] # "none" /\ ~ENABLED DecoderStep => Waits("decoder")
  /\ pc["mixer"] # "idle" /\ ~ENABLED MixerStep => Waits("mixer")

-----------------------------------------------------------------------------
(* check_status starts and stops the device without connect_mutex.  The    *)
(* next ones hold as long as the system status gives it a turn of its own: *)
(* until it is overtaken, that is until MixAudio promotes a file that was  *)
(* already read to its end, over the CONNECTING of a click made while it   *)
(* waited for script_mutex.  check_status takes the file for one that has  *)
(* ended while playing, and stops the device beside critical_thread.  Only *)
(* a file whose last chunk is the one that reaches min_buffers comes to    *)
(* that.                                                                   *)

(* No mutex is held from the first to the last step of sound_start or      *)
(* sound_stop, and sound_seek holds another one than they, yet no two      *)
(* threads are inside the three together until check_status is overtaken.  *)
AtDevice(t) == pc[t] \in {"stop_flag", "stop_lock", "stop_join",
                          "start", "start_lock", "start_create",
                          "seek_pause", "seek_reset", "seek_resume"}

DeviceAlone == ~overtaken => ~(AtDevice("gui") /\ AtDevice("critical"))

(* The device as a whole: one decoder between a sound_start and the end of *)
(* the next sound_stop, one source for it, whoever starts and stops it, and*)
(* whatever changes playing and the status meanwhile.  A decoder that still*)
(* lives counts as stopping: none is created beside it, where two of them  *)
(* would share one codec and one ring.  Until check_status is overtaken.   *)
BetweenFlagAndJoin(t) == pc[t] \in {"stop_lock", "stop_join"}

Phase ==
  IF dev_playing THEN (IF pc["decoder"] = "none" THEN "mute" ELSE "sounding")
  ELSE IF \/ pc["decoder"] # "none"
          \/ BetweenFlagAndJoin("gui") \/ BetweenFlagAndJoin("critical") THEN "stopping"
  ELSE "silent"

Input == IF Phase = "silent" THEN "none"
         ELSE IF \/ pc["gui"] = "started"
                 \/ pc["gui"] = "announce" /\ playback_type # "AS_LOCAL"
              THEN "unset"
         ELSE playback_type

Sound == INSTANCE SoundDevice
           WITH Room <- MinBuffers, phase <- Phase, input <- Input, waiting <- stock

ImplementsSound ==
  Sound!Init /\ [][overtaken \/ Sound!Next]_<<Phase, Input, stock>>

(* A stream that was stopped stays silent: network_playback starts the     *)
(* device only while the network is the source, although its result and    *)
(* the one of new_connection are stored after V(connect_mutex) and may put *)
(* BUFFERING over the STOPPED of a click_stop that came in between.        *)
StreamStaysStopped ==
  [][StartCreate("critical") => playback_type = "AS_NETWORK"]_vars

(* While a connection is being made nothing plays and nothing decodes, so  *)
(* icy_reset and the change of playing happen behind nobody's back; until  *)
(* check_status is overtaken.                                              *)
DialIsQuiet == ~overtaken /\ pc["critical"] \in {"resolve", "dial"} => Quiet

(* The status that lets the decoder read a file never leads it to a stream,*)
(* and leads it nowhere only in two places of the GUI thread: before it    *)
(* announces the file it has started, and when a stop has cut it off.      *)
FileBufferingIsLocal ==
  current_ss = "LOCALFILE_BUFFERING" =>
    \/ playback_type = "AS_LOCAL"
    \/ playback_type = "AS_NULL" /\ pc["gui"] \in {"announce", "stop_store"}

(* wrMain deletes the objects of the player when nobody can use them any   *)
(* more.                                                                   *)
ExitIsLast ==
  pc["gui"] = "exited" =>
    /\ Quiet
    /\ pc["critical"] = "exited" /\ pc["mixer"] = "idle"

(* The next two need a skin without the play/pause button: it stores a    *)
(* status chosen earlier, which may put PLAYING over a request made since. *)

(* A stream that ran dry is not reported as PLAYING between two iterations *)
(* of critical_thread, but for the moment in which the decoder waits for   *)
(* script_mutex to say so: its BUFFERING comes last, and no PLAYING that   *)
(* was decided before is stored over it.                                   *)
RebufferingIsShown ==
  /\ bufferring /\ playback_type = "AS_NETWORK"
  /\ pc["critical"] = "loop" /\ pc["decoder"] # "rebuffer"
  => current_ss # "PLAYING"

(* network_playback reports a redirect before it can see a second one.     *)
RedirectOnce == redirect_detected <= 1

-----------------------------------------------------------------------------
(* Leaving the main loop ends the program.                                 *)
ExitCompletes == (pc["gui"] = "exit_join") ~> (pc["gui"] = "exited")

(* A request for a station is answered: critical_thread leaves CONNECTING. *)
RequestAnswered ==
  (current_ss = "CONNECTING" /\ info # "I_LOCAL") ~>
    (current_ss # "CONNECTING" \/ ~critical_running)
=============================================================================
