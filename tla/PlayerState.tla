---------------------------- MODULE PlayerState ----------------------------
(***************************************************************************)
(* The state that the threads of the player share, and the operations of   *)
(* the audio device that more than one of them calls.                      *)
(*                                                                         *)
(* Four threads run: the GUI loop of wrMain, critical_thread, the decoder  *)
(* (audio_thread) and the SDL audio callback (MixAudio).  A directory      *)
(* search runs beside them and touches nothing here but connect_mutex,     *)
(* which it holds as long as a slow server may: module Lists has it.       *)
(* connect_mutex and audio_mutex are modelled by their owner.              *)
(* script_mutex is a leaf: whoever holds it takes no other mutex and waits *)
(* for nothing, so a P(script_mutex) ... V(script_mutex) block is one step *)
(* of its thread and the mutex needs no variable.                          *)
(*                                                                         *)
(* The audio ring is abstracted to the decoded chunks not played yet       *)
(* (stock) and to whether min_buffers was ever reached (primed); module    *)
(* AudioRing has the ring itself.  One chunk of a file decodes to one      *)
(* chunk of sound.                                                         *)
(***************************************************************************)
EXTENDS Naturals

CONSTANTS
  Controls,     \* the callbacks the loaded skin binds to its buttons
  MinBuffers,   \* chunks to decode before the first one is played
  FileSizes,    \* chunks that a local file may have
  MaxRedirects, \* redirects tolerated by network_playback (20 in the code)
  MaxClicks     \* bound: how many times the user acts

AllControls ==
  {"item_local", "item_station", "item_favorite", "direct", "stop", "cancel",
   "playpause", "seek", "track", "exit"}

(* sound_start asks for min_buffers of 200000 samples, a call of the decoder*)
(* yields 8192 at most: more than one chunk is needed.                     *)
ASSUME ControlsAssumption == Controls \subseteq AllControls
ASSUME MinBuffersAssumption == MinBuffers \in Nat /\ MinBuffers > 1
ASSUME FileSizesAssumption == FileSizes \subseteq Nat \ {0}
ASSUME RedirectsAssumption == MaxRedirects \in Nat
ASSUME ClicksAssumption == MaxClicks \in Nat

VARIABLES
  current_ss,         \* system status
  overtaken,          \* history: MixAudio stored PLAYING for a file that had ended,
                      \* over a status that was stored meanwhile
  playback_type,      \* where the decoder's input comes from
  info,               \* current_info.info, the request behind CONNECTING
  local,              \* playing.local
  client_connected,   \* the stream's socket
  looking_for_header, \* icy: the response header is still incomplete
  bufferring,         \* icy: pre_buffer bytes have not arrived yet
  redirect_detected,  \* icy: redirects seen since icy_reset
  dev_playing,        \* audio_device.playing
  dev_done,           \* audio_device.done, asks the decoder to end
  primed,             \* audio_total_decoded reached min_buffers
  stock,              \* chunks decoded and not played
  paused,             \* SDL_PauseAudio
  fileendpos,         \* chunks of the open file
  unread,             \* chunks between the file position and its end
  bytes_done,         \* local_player.bytes_done, in chunks
  file_done,          \* local_player.done
  connect_mutex, audio_mutex, \* their owners
  critical_running,   \* the loop condition of critical_thread
  pc,                 \* where each thread is
  gui_next,           \* where the GUI thread goes on after sound_stop
  ret,                \* what new_connection or network_playback returned
  clicks              \* user actions so far, bounded by MaxClicks

status  == <<current_ss, overtaken>>
stream  == <<client_connected, looking_for_header, bufferring, redirect_detected>>
source  == <<playback_type, info, local>>
device  == <<dev_playing, dev_done, primed, stock, paused>>
file    == <<fileendpos, unread, bytes_done, file_done>>
mutexes == <<connect_mutex, audio_mutex>>
control == <<critical_running, gui_next, ret, clicks>>
vars == <<status, stream, source, device, file, mutexes, control, pc>>

-----------------------------------------------------------------------------
Statuses == {"STOPPED", "PLAYING", "PAUSE", "BUFFERING", "FAILED", "CONNECTING",
             "START_PLAYING_FILE", "LOCALFILE_BUFFERING"}
Sources  == {"AS_NETWORK", "AS_LOCAL", "AS_NULL"}
Infos    == {"I_STATION", "I_PLAYLIST", "I_DIRECT", "I_HASBEENSET", "I_LOCAL"}
Free     == "free"

Threads  == {"gui", "critical", "decoder", "mixer"}

GuiLabels == {"loop", "direct", "connect", "cancel", "cancel_source", "stop", "stopped",
              "stop_store", "pause", "sdl_pause", "resume", "sdl_resume", "seek",
              "seek_pause", "seek_reset", "seek_resume", "stop_flag", "stop_lock",
              "stop_join", "advance", "open", "start", "start_lock", "start_create",
              "started", "announce", "exit_join", "close", "exited"}
CriticalLabels == {"loop", "stop_flag", "stop_lock", "stop_join", "resolve", "dial",
                   "recv", "decide", "start", "start_lock", "start_create",
                   "started", "publish", "redirect_info", "redirect_connect", "exited"}
DecoderLabels == {"none", "check", "lock", "read", "source", "rebuffer"}
MixerLabels == {"idle", "lock", "promote"}
Labels == GuiLabels \cup CriticalLabels \cup DecoderLabels \cup MixerLabels

Goto(t, label) == pc' = [pc EXCEPT ![t] = label]

SetSystemStatus(s) == current_ss' = s /\ UNCHANGED overtaken

P_connect(t) == connect_mutex = Free /\ connect_mutex' = t
V_connect(t) == connect_mutex = t /\ connect_mutex' = Free

-----------------------------------------------------------------------------
(* audio_device::sound_stop, called by the GUI thread and by               *)
(* critical_thread: clear the flag, reset the ring under audio_mutex, join *)
(* the decoder.  A device that is not playing is left alone.               *)
AfterStop(t) == IF t = "gui" THEN gui_next ELSE "resolve"

StopFlagOnly(t) == \* mutant of StopFlag: neither resets nor joins
  /\ pc[t] = "stop_flag"
  /\ dev_playing' = FALSE
  /\ Goto(t, AfterStop(t))
  /\ UNCHANGED <<status, stream, source, dev_done, primed, stock, paused, file,
                 mutexes, control>>

StopFlag(t) ==
  /\ pc[t] = "stop_flag"
  /\ dev_playing' = FALSE
  /\ Goto(t, IF dev_playing THEN "stop_lock" ELSE AfterStop(t))
  /\ UNCHANGED <<status, stream, source, dev_done, primed, stock, paused, file,
                 mutexes, control>>

StopLock(t) ==
  /\ pc[t] = "stop_lock"
  /\ audio_mutex = Free
  /\ dev_done' = TRUE
  /\ paused' = TRUE
  /\ primed' = FALSE
  /\ stock' = 0
  /\ Goto(t, "stop_join")
  /\ UNCHANGED <<status, stream, source, dev_playing, file, mutexes, control>>

StopJoinHasty(t) == \* mutant of StopJoin: does not wait for the decoder
  /\ pc[t] = "stop_join"
  /\ Goto(t, AfterStop(t))
  /\ UNCHANGED <<status, stream, source, device, file, mutexes, control>>

StopJoin(t) ==
  /\ pc[t] = "stop_join"
  /\ pc["decoder"] = "none"
  /\ Goto(t, AfterStop(t))
  /\ UNCHANGED <<status, stream, source, device, file, mutexes, control>>

(* audio_device::sound_start, called by the same two: nothing if playing   *)
(* is set, else reset the ring under audio_mutex, then set playing and     *)
(* create a decoder.  playing is tested before P(audio_mutex) and set after*)
(* V(audio_mutex), and stays set when there is no thread to be had.  Of two*)
(* decoders only one would have a place here: ImplementsSound (Playback)   *)
(* says when it never comes to that.                                       *)
StartTest(t) ==
  /\ pc[t] = "start"
  /\ Goto(t, IF dev_playing THEN "started" ELSE "start_lock")
  /\ UNCHANGED <<status, stream, source, device, file, mutexes, control>>

StartLock(t) ==
  /\ pc[t] = "start_lock"
  /\ audio_mutex = Free
  /\ dev_done' = FALSE
  /\ paused' = FALSE
  /\ primed' = FALSE
  /\ stock' = 0
  /\ Goto(t, "start_create")
  /\ UNCHANGED <<status, stream, source, dev_playing, file, mutexes, control>>

StartCreate(t) ==
  /\ pc[t] = "start_create"
  /\ dev_playing' = TRUE
  /\ \E d \in {pc["decoder"], IF pc["decoder"] = "none" THEN "check" ELSE pc["decoder"]} :
       pc' = [pc EXCEPT ![t] = "started", !["decoder"] = d]
  /\ UNCHANGED <<status, stream, source, dev_done, primed, stock, paused, file,
                 mutexes, control>>
=============================================================================
