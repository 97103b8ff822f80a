--------------------------- MODULE AudioThreads ---------------------------
(***************************************************************************)
(* The two threads behind the loudspeaker.  audio_thread decodes while     *)
(* fewer than min_buffers are waiting; it reads its input through          *)
(* reader_callback, which takes connect_mutex while audio_mutex is held.   *)
(* MixAudio is SDL's callback: it plays what is decoded and ends the       *)
(* decoder when nothing is left.                                           *)
(***************************************************************************)
EXTENDS PlayerState

(* while(!dev->done): the flag is read outside audio_mutex.                *)
DecoderCheckDeaf == \* mutant of DecoderCheck: dev->done is ignored
  /\ pc["decoder"] = "check"
  /\ Goto("decoder", "lock")
  /\ UNCHANGED <<status, stream, source, device, file, mutexes, control>>

DecoderCheck ==
  /\ pc["decoder"] = "check"
  /\ Goto("decoder", IF dev_done THEN "none" ELSE "lock")
  /\ UNCHANGED <<status, stream, source, device, file, mutexes, control>>

(* P(audio_mutex); with enough sound waiting it is released at once.       *)
DecoderLockGreedy == \* mutant of DecoderLock: min_buffers is not a limit
  /\ pc["decoder"] = "lock"
  /\ audio_mutex = Free
  /\ audio_mutex' = "decoder" /\ Goto("decoder", "read")
  /\ UNCHANGED <<status, stream, source, device, file, connect_mutex, control>>

DecoderLock ==
  /\ pc["decoder"] = "lock"
  /\ audio_mutex = Free
  /\ IF stock < MinBuffers
       THEN audio_mutex' = "decoder" /\ Goto("decoder", "read")
       ELSE UNCHANGED audio_mutex /\ Goto("decoder", "check")
  /\ UNCHANGED <<status, stream, source, device, file, connect_mutex, control>>

(* reader_callback reads the status once, with connect_mutex held; what it *)
(* does then it does whatever is stored in the status meanwhile.           *)
DecoderRead ==
  /\ pc["decoder"] = "read"
  /\ connect_mutex = Free
  /\ IF current_ss \in {"PLAYING", "LOCALFILE_BUFFERING"}
       THEN P_connect("decoder") /\ UNCHANGED audio_mutex /\ Goto("decoder", "source")
       ELSE audio_mutex' = Free /\ UNCHANGED connect_mutex /\ Goto("decoder", "check")
  /\ UNCHANGED <<status, stream, source, device, file, control>>

(* One chunk reached the decoder: it is decoded.                           *)
Decoded ==
  /\ stock' = stock + 1
  /\ primed' = (primed \/ stock + 1 >= MinBuffers)
  /\ UNCHANGED <<dev_playing, dev_done, paused>>

ReadNothing == playback_type = "AS_NULL" /\ UNCHANGED <<device, file>>

ReadFile ==    \* local_player::read
  /\ playback_type = "AS_LOCAL"
  /\ UNCHANGED fileendpos
  /\ IF unread > 0
       THEN /\ unread' = unread - 1
            /\ bytes_done' = IF bytes_done < fileendpos THEN bytes_done + 1
                                                        ELSE bytes_done
            /\ file_done' = (file_done \/ bytes_done' >= fileendpos)
            /\ Decoded
       ELSE /\ file_done' = TRUE
            /\ UNCHANGED <<unread, bytes_done, device>>

ReadStream == playback_type = "AS_NETWORK" /\ Decoded /\ UNCHANGED file

DecoderReads ==
  /\ pc["decoder"] = "source"
  /\ ReadNothing \/ ReadFile \/ ReadStream
  /\ connect_mutex' = Free /\ audio_mutex' = Free
  /\ Goto("decoder", "check")
  /\ UNCHANGED <<status, stream, source, control>>

(* icy::get_buffer of a ring that ran dry: icy_stream_reset, and then, when*)
(* script_mutex is had, BUFFERING over whatever the status has become.     *)
RunDryMutely == \* mutant of RunDry: rebuffering is not reported
  /\ pc["decoder"] = "source"
  /\ playback_type = "AS_NETWORK"
  /\ bufferring' = TRUE
  /\ connect_mutex' = Free /\ audio_mutex' = Free
  /\ Goto("decoder", "check")
  /\ UNCHANGED <<status, client_connected, looking_for_header, redirect_detected, source,
                 device, file, control>>

RunDry ==
  /\ pc["decoder"] = "source"
  /\ playback_type = "AS_NETWORK"
  /\ bufferring' = TRUE
  /\ Goto("decoder", "rebuffer")
  /\ UNCHANGED <<status, client_connected, looking_for_header, redirect_detected, source,
                 device, file, mutexes, control>>

Rebuffer ==
  /\ pc["decoder"] = "rebuffer"
  /\ SetSystemStatus("BUFFERING")
  /\ connect_mutex' = Free /\ audio_mutex' = Free
  /\ Goto("decoder", "check")
  /\ UNCHANGED <<stream, source, device, file, control>>

-----------------------------------------------------------------------------
(* MixAudio.  playing is tested before P(audio_mutex), and SDL looks at    *)
(* SDL_PauseAudio before the call: both may have changed when the mutex is *)
(* taken.  Promotion is checked with audio_mutex held and done after       *)
(* waiting for script_mutex, so it is a step of its own.                   *)
MixEnter ==
  /\ pc["mixer"] = "idle"
  /\ dev_playing /\ ~paused
  /\ Goto("mixer", "lock")
  /\ UNCHANGED <<status, stream, source, device, file, mutexes, control>>

MayMix == pc["mixer"] = "lock" /\ audio_mutex = Free

MixReturn ==   \* min_buffers were not decoded yet, or the ring was reset
  /\ MayMix
  /\ ~primed
  /\ Goto("mixer", "idle")
  /\ UNCHANGED <<status, stream, source, device, file, mutexes, control>>

Play ==        \* consume sound; running dry ends the decoder
  /\ stock' = IF stock > 0 THEN stock - 1 ELSE 0
  /\ dev_done' \in IF stock = 0 THEN {TRUE} ELSE IF stock = 1 THEN {dev_done, TRUE}
                                                             ELSE {dev_done}
  /\ UNCHANGED <<dev_playing, primed, paused>>

MixPromotes ==
  /\ MayMix
  /\ primed
  /\ current_ss = "LOCALFILE_BUFFERING"
  /\ audio_mutex' = "mixer"
  /\ Goto("mixer", "promote")
  /\ UNCHANGED <<status, stream, source, device, file, connect_mutex, control>>

MixPromote ==
  /\ pc["mixer"] = "promote"
  /\ current_ss' = "PLAYING"
  /\ overtaken' = (overtaken \/ (file_done /\ current_ss # "LOCALFILE_BUFFERING"))
  /\ Play
  /\ audio_mutex' = Free
  /\ Goto("mixer", "idle")
  /\ UNCHANGED <<stream, source, file, connect_mutex, control>>

Mix ==
  /\ MayMix
  /\ primed
  /\ current_ss # "LOCALFILE_BUFFERING"
  /\ Play
  /\ Goto("mixer", "idle")
  /\ UNCHANGED <<status, stream, source, file, mutexes, control>>

DecoderStep == \/ DecoderCheck \/ DecoderLock \/ DecoderRead \/ DecoderReads
               \/ RunDry \/ Rebuffer
MixerStep == MixEnter \/ MixReturn \/ MixPromotes \/ MixPromote \/ Mix
AudioStep == DecoderStep \/ MixerStep
=============================================================================
