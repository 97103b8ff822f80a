----------------------------- MODULE GuiThread -----------------------------
(***************************************************************************)
(* The main loop of wrMain as far as playback is concerned: the callbacks  *)
(* that the buttons of the skin run (functions.cpp), and check_status,     *)
(* which opens a resolved file and moves to the next track at the end of   *)
(* one.  run_scrips stores the status it has just read from Lua, which is  *)
(* the one every SetSystemStatus put there: no step here.                  *)
(***************************************************************************)
EXTENDS PlayerState

Click(control_name) ==
  /\ control_name \in Controls
  /\ pc["gui"] = "loop"
  /\ clicks < MaxClicks
  /\ clicks' = clicks + 1
  /\ UNCHANGED <<critical_running, ret>>

(* A button that opens something writes current_info, and then, as a       *)
(* second step, waits for script_mutex and sets CONNECTING.                *)
RequestInfo(control_name) ==
  CASE control_name = "item_station"  -> "I_STATION"
    [] control_name = "item_favorite" -> "I_PLAYLIST"
    [] OTHER                          -> "I_LOCAL"

Request(i) ==
  /\ info' = i
  /\ Goto("gui", "connect")
  /\ UNCHANGED <<playback_type, local>>

PlayingFile == playback_type = "AS_LOCAL" /\ current_ss = "PLAYING"

ClickItem ==   \* click_item, click_nexttrack, click_priortrack
  /\ \E c \in {"item_local", "item_station", "item_favorite", "track"} :
       /\ Click(c)
       /\ c = "track" => PlayingFile
       /\ Request(RequestInfo(c))
  /\ UNCHANGED <<status, stream, device, file, mutexes, gui_next>>

Connect ==     \* connect_to_stream
  /\ pc["gui"] = "connect"
  /\ SetSystemStatus("CONNECTING")
  /\ Goto("gui", "loop")
  /\ UNCHANGED <<stream, source, device, file, mutexes, control>>

ClickDirect == \* click_connect: what was typed becomes the playing station
  /\ Click("direct")
  /\ local' = FALSE
  /\ Goto("gui", "direct")
  /\ UNCHANGED <<status, stream, playback_type, info, device, file, mutexes, gui_next>>

Direct ==      \* ... and then the request, without connect_mutex
  /\ pc["gui"] = "direct"
  /\ Request("I_DIRECT")
  /\ UNCHANGED <<status, stream, device, file, mutexes, control>>

-----------------------------------------------------------------------------
ClickStop ==
  /\ Click("stop")
  /\ Goto("gui", "stop")
  /\ UNCHANGED <<status, stream, source, device, file, mutexes, gui_next>>

StopTakesConnect ==
  /\ pc["gui"] = "stop"
  /\ P_connect("gui")
  /\ gui_next' = "stopped"
  /\ Goto("gui", "stop_flag")
  /\ UNCHANGED <<status, stream, source, device, file, audio_mutex,
                 critical_running, ret, clicks>>

Stopped ==
  /\ pc["gui"] = "stopped"
  /\ playback_type' = "AS_NULL"
  /\ Goto("gui", "stop_store")
  /\ UNCHANGED <<status, stream, info, local, device, file, mutexes, control>>

StoreStoppedLeaky == \* mutant of StoreStopped: V(connect_mutex) forgotten
  /\ pc["gui"] = "stop_store"
  /\ SetSystemStatus("STOPPED")
  /\ Goto("gui", "loop")
  /\ UNCHANGED <<stream, source, device, file, mutexes, control>>

StoreStopped ==
  /\ pc["gui"] = "stop_store"
  /\ SetSystemStatus("STOPPED")
  /\ V_connect("gui")
  /\ Goto("gui", "loop")
  /\ UNCHANGED <<stream, source, device, file, audio_mutex, control>>

(* The two cancel buttons are on pop-ups shown for CONNECTING or BUFFERING *)
(* by the last draw; the status may be another one when the click is       *)
(* handled and when connect_mutex is finally taken.  They store the status *)
(* first.                                                                  *)
ClickCancel ==
  /\ Click("cancel")
  /\ current_ss \in {"CONNECTING", "BUFFERING"}
  /\ Goto("gui", "cancel")
  /\ UNCHANGED <<status, stream, source, device, file, mutexes, gui_next>>

Cancel ==
  /\ pc["gui"] = "cancel"
  /\ P_connect("gui")
  /\ SetSystemStatus("STOPPED")
  /\ Goto("gui", "cancel_source")
  /\ UNCHANGED <<stream, source, device, file, audio_mutex, control>>

CancelSource ==
  /\ pc["gui"] = "cancel_source"
  /\ playback_type' = "AS_NULL"
  /\ V_connect("gui")
  /\ Goto("gui", "loop")
  /\ UNCHANGED <<status, stream, info, local, device, file, audio_mutex, control>>

-----------------------------------------------------------------------------
ClickPlayPause ==
  /\ Click("playpause")
  /\ playback_type = "AS_LOCAL"
  /\ \/ current_ss = "PLAYING" /\ Goto("gui", "pause")
     \/ current_ss = "PAUSE" /\ Goto("gui", "resume")
  /\ UNCHANGED <<status, stream, source, device, file, mutexes, gui_next>>

StorePause ==
  /\ \/ pc["gui"] = "pause" /\ SetSystemStatus("PAUSE") /\ Goto("gui", "sdl_pause")
     \/ pc["gui"] = "resume" /\ SetSystemStatus("PLAYING") /\ Goto("gui", "sdl_resume")
  /\ UNCHANGED <<stream, source, device, file, mutexes, control>>

SdlPause ==    \* pause_playback, sound_pause
  /\ pc["gui"] \in {"sdl_pause", "sdl_resume"}
  /\ audio_mutex = Free
  /\ paused' = (pc["gui"] = "sdl_pause")
  /\ Goto("gui", "loop")
  /\ UNCHANGED <<status, stream, source, dev_playing, dev_done, primed, stock, file,
                 mutexes, control>>

(* seek_playback: the tests are made before connect_mutex is taken, and    *)
(* sound_seek resets the ring without audio_mutex.                         *)
ClickSeek ==
  /\ Click("seek")
  /\ PlayingFile
  /\ Goto("gui", "seek")
  /\ UNCHANGED <<status, stream, source, device, file, mutexes, gui_next>>

SeekTakesConnect ==
  /\ pc["gui"] = "seek"
  /\ P_connect("gui")
  /\ Goto("gui", "seek_pause")
  /\ UNCHANGED <<status, stream, source, device, file, audio_mutex, control>>

SeekPause ==
  /\ pc["gui"] = "seek_pause"
  /\ audio_mutex = Free
  /\ paused' = TRUE
  /\ Goto("gui", "seek_reset")
  /\ UNCHANGED <<status, stream, source, dev_playing, dev_done, primed, stock, file,
                 mutexes, control>>

SeekReset ==   \* the file position moves, bytes_done and done do not
  /\ pc["gui"] = "seek_reset"
  /\ stock' = 0
  /\ primed' = FALSE
  /\ unread' \in 0 .. fileendpos
  /\ Goto("gui", "seek_resume")
  /\ UNCHANGED <<status, stream, source, dev_playing, dev_done, paused, fileendpos,
                 bytes_done, file_done, mutexes, control>>

SeekResumeLocked == \* mutant of SeekResume: V(connect_mutex) forgotten
  /\ pc["gui"] = "seek_resume"
  /\ audio_mutex = Free
  /\ paused' = FALSE
  /\ Goto("gui", "loop")
  /\ UNCHANGED <<status, stream, source, dev_playing, dev_done, primed, stock, file,
                 mutexes, control>>

SeekResume ==
  /\ pc["gui"] = "seek_resume"
  /\ audio_mutex = Free
  /\ paused' = FALSE
  /\ V_connect("gui")
  /\ Goto("gui", "loop")
  /\ UNCHANGED <<status, stream, source, dev_playing, dev_done, primed, stock, file,
                 audio_mutex, control>>

-----------------------------------------------------------------------------
(* check_status: at the end of a file, stop the device and go on to the    *)
(* next track, if there is one.  connect_mutex is not taken.               *)
TrackEnds ==
  /\ pc["gui"] = "loop"
  /\ PlayingFile
  /\ dev_done /\ file_done
  /\ gui_next' = "advance"
  /\ Goto("gui", "stop_flag")
  /\ UNCHANGED <<status, stream, source, device, file, mutexes, critical_running,
                 ret, clicks>>

Advance ==
  /\ pc["gui"] = "advance"
  /\ \/ Request("I_LOCAL")
     \/ Goto("gui", "loop") /\ UNCHANGED source
  /\ UNCHANGED <<status, stream, device, file, mutexes, control>>

(* check_status: a resolved file is opened and started.  When its medium is*)
(* gone or it cannot be opened the status stays, and the next iteration    *)
(* tries again.                                                            *)
FileResolved ==
  /\ pc["gui"] = "loop"
  /\ current_ss = "START_PLAYING_FILE"
  /\ gui_next' = "open"
  /\ Goto("gui", "stop_flag")
  /\ UNCHANGED <<status, stream, source, device, file, mutexes, critical_running,
                 ret, clicks>>

OpenFile ==
  /\ pc["gui"] = "open"
  /\ \/ /\ fileendpos' \in FileSizes /\ unread' = fileendpos'
        /\ bytes_done' = 0 /\ file_done' = FALSE
        /\ Goto("gui", "start")
     \/ /\ bytes_done' = 0 /\ file_done' = FALSE /\ UNCHANGED <<fileendpos, unread>>
        /\ Goto("gui", "loop")
     \/ UNCHANGED file /\ Goto("gui", "loop")
  /\ UNCHANGED <<status, stream, source, device, mutexes, control>>

FileStarted ==
  /\ pc["gui"] = "started"
  /\ SetSystemStatus("LOCALFILE_BUFFERING")
  /\ Goto("gui", "announce")
  /\ UNCHANGED <<stream, source, device, file, mutexes, control>>

AnnounceNothing == \* mutant of Announce: the source is left to new_connection
  /\ pc["gui"] = "announce"
  /\ Goto("gui", "loop")
  /\ UNCHANGED <<status, stream, source, device, file, mutexes, control>>

Announce ==    \* behind the status that lets the decoder read
  /\ pc["gui"] = "announce"
  /\ playback_type' = "AS_LOCAL"
  /\ Goto("gui", "loop")
  /\ UNCHANGED <<status, stream, info, local, device, file, mutexes, control>>

-----------------------------------------------------------------------------
(* The end of wrMain: stop and join critical_thread, then sound_close.     *)
(* Leaving is possible at any time and does not count as a click.          *)
Leave ==
  /\ "exit" \in Controls
  /\ pc["gui"] = "loop"
  /\ critical_running' = FALSE
  /\ Goto("gui", "exit_join")
  /\ UNCHANGED <<status, stream, source, device, file, mutexes, gui_next, ret, clicks>>

SoundCloseEarly == \* mutant of SoundClose: critical_thread is not joined
  /\ pc["gui"] = "exit_join"
  /\ gui_next' = "close"
  /\ Goto("gui", "stop_flag")
  /\ UNCHANGED <<status, stream, source, device, file, mutexes, critical_running,
                 ret, clicks>>

SoundClose ==
  /\ pc["gui"] = "exit_join"
  /\ pc["critical"] = "exited"
  /\ gui_next' = "close"
  /\ Goto("gui", "stop_flag")
  /\ UNCHANGED <<status, stream, source, device, file, mutexes, critical_running,
                 ret, clicks>>

CloseAudio ==  \* SDL_CloseAudio waits for a MixAudio that is running
  /\ pc["gui"] = "close"
  /\ pc["mixer"] = "idle"
  /\ Goto("gui", "exited")
  /\ UNCHANGED <<status, stream, source, device, file, mutexes, control>>

UserStep == ClickItem \/ ClickDirect \/ ClickStop \/ ClickCancel \/ ClickPlayPause
            \/ ClickSeek \/ Leave

GuiStep ==
  \/ Direct \/ Connect \/ StopTakesConnect \/ Stopped \/ StoreStopped
  \/ Cancel \/ CancelSource
  \/ StorePause \/ SdlPause
  \/ SeekTakesConnect \/ SeekPause \/ SeekReset \/ SeekResume
  \/ StopFlag("gui") \/ StopLock("gui") \/ StopJoin("gui")
  \/ TrackEnds \/ Advance \/ FileResolved \/ OpenFile
  \/ StartTest("gui") \/ StartLock("gui") \/ StartCreate("gui")
  \/ FileStarted \/ Announce
  \/ SoundClose \/ CloseAudio
=============================================================================
