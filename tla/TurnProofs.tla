----------------------------- MODULE TurnProofs -----------------------------
(***************************************************************************)
(* What the player promises every skin, proved for all sizes.              *)
(* critical_thread works under connect_mutex, but check_status,            *)
(* click_playpause and MixAudio change the status, the file and the device *)
(* without it.  What keeps them apart is the system status: each of them   *)
(* acts only behind some of its values, and nobody can change that value   *)
(* meanwhile.  The turn invariants say so for each of them; together they  *)
(* are inductive.  Those of a file (FileTurns) last until check_status is  *)
(* overtaken.                                                              *)
(***************************************************************************)
EXTENDS PlaybackProofs

(* What the threads do without connect_mutex, they do in turns.            *)
OutOfLoop == pc["critical"] \notin {"loop", "exited"}
AtStart == {"start", "start_lock", "start_create", "started"}
Opening == \/ pc["gui"] = "open" \/ pc["gui"] \in AtStart
           \/ Stopping("gui") /\ gui_next = "open"
Advancing == \/ pc["gui"] = "advance"
             \/ Stopping("gui") /\ gui_next = "advance"
Closing == \/ pc["gui"] \in {"close", "exited"}
           \/ Stopping("gui") /\ gui_next = "close"
Promoting == pc["mixer"] = "promote"
Pausing == pc["gui"] \in {"pause", "resume"}

(* Nobody starts the device while the GUI thread is stopping it, not for   *)
(* the next track.                                                         *)
StoppingTurn == BetweenFlagAndJoin("gui") /\ gui_next # "advance" => ~dev_playing

(* check_status owns START_PLAYING_FILE: critical_thread idles, MixAudio is*)
(* not promoting, no stream is the source, and the file and the device are *)
(* as it left them.                                                        *)
OpeningTurn ==
  /\ Opening => current_ss = "START_PLAYING_FILE"
  /\ current_ss = "START_PLAYING_FILE" =>
       ~OutOfLoop /\ ~Promoting /\ playback_type # "AS_NETWORK"
  /\ pc["gui"] \in {"open", "start", "start_lock", "start_create"} => Quiet
  /\ pc["gui"] \in AtStart => unread = fileendpos /\ bytes_done = 0 /\ ~file_done
  /\ pc["gui"] \in {"start_create", "started"} => ~primed /\ stock = 0
  /\ pc["gui"] = "started" => dev_playing /\ pc["decoder"] # "source"

(* Between the status and the source of a started file the device plays,   *)
(* MixAudio may promote and critical_thread idles.                         *)
AnnouncingTurn ==
  pc["gui"] = "announce" =>
    /\ ~OutOfLoop /\ dev_playing
    /\ current_ss \in {"LOCALFILE_BUFFERING", "PLAYING"}
    /\ playback_type # "AS_NETWORK"

(* From the end of a track to the next request the track stays PLAYING and *)
(* critical_thread idles.                                                  *)
AdvancingTurn ==
  Advancing =>
    /\ playback_type = "AS_LOCAL" /\ current_ss = "PLAYING" /\ ~OutOfLoop
    /\ BetweenFlagAndJoin("gui") => ~dev_playing

(* sound_close comes after the end of critical_thread, and finds the       *)
(* device and MixAudio at rest.                                            *)
ClosingTurn ==
  /\ Closing => pc["critical"] = "exited"
  /\ pc["critical"] = "exited" => pc["gui"] = "exit_join" \/ Closing
  /\ pc["critical"] = "exited" => ~critical_running
  /\ ~critical_running => pc["gui"] = "exit_join" \/ Closing
  /\ pc["gui"] \in {"close", "exited"} => Quiet
  /\ pc["gui"] = "exited" => pc["mixer"] = "idle"

(* critical_thread owns the device from its sound_stop until it stores what*)
(* new_connection returned.                                                *)
ConnectingTurn ==
  /\ BetweenFlagAndJoin("critical") => ~dev_playing
  /\ pc["critical"] \in {"resolve", "dial", "start_lock", "start_create"} => Quiet
  /\ pc["critical"] = "start_create" => stock = 0
  /\ pc["critical"] = "publish" /\ ret = "START_PLAYING_FILE" => Quiet
  /\ pc["critical"] = "publish" /\ playback_type = "AS_LOCAL" =>
        Quiet /\ ret \in {"START_PLAYING_FILE", "FAILED"}
  /\ pc["critical"] \in {"redirect_info", "redirect_connect"} =>
        playback_type # "AS_LOCAL"

(* playback_type says which half of its work critical_thread is in, and    *)
(* only a stream runs dry.                                                 *)
NetworkTurn ==
  /\ pc["critical"] \in {"recv", "decide"} \/ CriticalStarts =>
       playback_type = "AS_NETWORK"
  /\ pc["critical"] = "dial" => playback_type = "AS_NULL"
  /\ pc["critical"] = "publish" /\ ret = "START_PLAYING_FILE" =>
       playback_type # "AS_NETWORK"
  /\ pc["decoder"] = "rebuffer" => playback_type = "AS_NETWORK"

(* MixAudio promotes a file that is being buffered, or one that a          *)
(* sound_stop is about to discard.                                         *)
PromotingTurn ==
  Promoting =>
    /\ current_ss \in {"LOCALFILE_BUFFERING", "CONNECTING", "STOPPED"}
    /\ dev_playing \/ pc["gui"] = "stop_lock" \/ pc["critical"] = "stop_lock"
    /\ pc["critical"] \in {"loop", "exited", "stop_flag", "stop_lock"}
    /\ ~Pausing /\ ~Advancing

(* What a sound_stop leaves behind its reset: the decoder may finish the   *)
(* piece it was about to decode, and ends.                                 *)
Drained == /\ ~primed /\ stock <= 1
           /\ pc["decoder"] # "none" => dev_done
           /\ pc["decoder"] \in {"lock", "read", "source"} => stock = 0

(* While a file is buffered nobody but check_status and the decoder has    *)
(* touched it: what is decoded is what was read.                           *)
FileBufferingTurn ==
  current_ss = "LOCALFILE_BUFFERING" =>
    /\ \/ playback_type = "AS_LOCAL"
       \/ playback_type = "AS_NULL" /\ pc["gui"] \in {"announce", "stop_store"}
    /\ ~OutOfLoop
    /\ dev_playing \/ pc["gui"] = "stop_lock" =>
         /\ stock = bytes_done /\ unread = fileendpos - bytes_done
         /\ primed => stock = MinBuffers
         /\ file_done => bytes_done = fileendpos
    /\ dev_playing \/ pc["gui"] = "stop_lock" \/ Drained
    /\ \/ pc["gui"] \in {"announce", "loop", "direct", "connect", "stop", "stopped",
                         "stop_store", "exit_join", "close", "exited"}
       \/ Stopping("gui") /\ gui_next \in {"stopped", "close"}

(* A file that has ended is not PLAYING any more when critical_thread is at*)
(* work; while it is being paused, critical_thread is not.                 *)
FileEndTurn ==
  /\ Pausing /\ pc["decoder"] = "source" /\ playback_type = "AS_LOCAL" =>
       current_ss \in {"PLAYING", "PAUSE"}
  /\ Pausing /\ file_done =>
       /\ ~OutOfLoop /\ playback_type = "AS_LOCAL"
       /\ current_ss \in {"PLAYING", "PAUSE"}
  /\ OutOfLoop /\ file_done
       /\ (playback_type = "AS_LOCAL" \/ Stopping("critical") \/ pc["critical"] = "resolve")
     => current_ss \notin {"PLAYING", "PAUSE"}

Turns == /\ StoppingTurn /\ OpeningTurn /\ AnnouncingTurn /\ ClosingTurn /\ NetworkTurn
         /\ PromotingTurn /\ FileBufferingTurn
TInv == IInv /\ Turns

(* A device that has been reset stays so until it is started.              *)
DrainedTurn ==
  ~dev_playing /\ pc["gui"] # "stop_lock" /\ pc["critical"] # "stop_lock" => Drained

(* These hold until check_status is overtaken.                             *)
FileTurns == AdvancingTurn /\ ConnectingTurn /\ FileEndTurn /\ DrainedTurn
FInv == TInv /\ FileTurns

(* What the decoder was about to read changes nothing about that.          *)
LEMMA DrainedRead ==
  ASSUME IInv, Drained, DecoderReads
  PROVE  Drained'
<1>1. pc'["decoder"] = "check" /\ dev_done' = dev_done /\ dev_done /\ stock = 0 /\ ~primed
  BY DEF IInv, TypeOK, PlacesOK, Threads, Drained, DecoderReads, ReadNothing, ReadFile,
         ReadStream, Decoded, device, Goto
<1>2. CASE UNCHANGED device
  BY <1>1, <1>2 DEF Drained, device
<1>3. CASE Decoded
  <2>1. stock' = 1
    BY <1>1, <1>3 DEF Decoded
  <2>2. primed' <=> stock + 1 >= MinBuffers
    BY <1>1, <1>3, Zenon DEF Decoded
  <2>3. ~primed'
    BY <1>1, <2>2, MinBuffersAssumption
  <2> QED
    BY <1>1, <2>1, <2>3 DEF Drained
<1> QED
  BY <1>2, <1>3 DEF DecoderReads, ReadNothing, ReadFile, ReadStream

(* The turns leave the device to one thread at a time.                     *)
LEMMA AloneAtDevice == FInv => DeviceAlone
<1> SUFFICES ASSUME FInv, AtDevice("gui"), AtDevice("critical") PROVE FALSE
  BY DEF DeviceAlone
<1> USE DEF FInv, FileTurns, TInv, IInv, Turns, AtDevice, Stopping, OutOfLoop
<1>1. connect_mutex = "critical" /\ OutOfLoop
  <2>1. pc["critical"] \in CriticalLabels
    BY DEF TypeOK, PlacesOK
  <2> QED
    BY <2>1 DEF MutexOwners, CriticalInConnect, CriticalLabels
<1>2. Stopping("gui")
  <2>1. pc["gui"] \notin {"seek_pause", "seek_reset", "seek_resume"}
    BY <1>1 DEF MutexOwners, GuiInConnect
  <2> QED
    BY <1>1, <2>1 DEF OpeningTurn, Opening, AtStart
<1>3. gui_next # "stopped"
  BY <1>1, <1>2 DEF MutexOwners, GuiInConnect
<1>4. gui_next # "advance"
  BY <1>1, <1>2 DEF AdvancingTurn, Advancing
<1>5. gui_next # "open"
  BY <1>1, <1>2 DEF OpeningTurn, Opening, AtStart
<1>6. gui_next # "close"
  BY <1>1, <1>2 DEF ClosingTurn, Closing
<1> QED
  BY <1>3, <1>4, <1>5, <1>6 DEF TypeOK, DataOK

(* Nobody starts the device while the GUI thread is stopping it.           *)
LEMMA NextStoppingTurn ==
  ASSUME TInv, [Next]_vars
  PROVE  StoppingTurn'
<1> USE DEF TInv, IInv, TypeOK, DataOK, PlacesOK, MutexOwners, GuiInConnect,
         CriticalInConnect, Stopping, BetweenFlagAndJoin, Threads, Turns,
         Opening, AtStart, Advancing, Closing, StoppingTurn, OpeningTurn, AdvancingTurn,
         ClosingTurn, OutOfLoop, device, control, Goto
<1>1. CASE CriticalConnect \/ CriticalStream \/ CriticalExit \/ Unresolved \/
         ResolveFile
  BY <1>1 DEF CriticalConnect, P_connect, CriticalStream, CriticalExit,
       HasWork, Again, Unresolved, Return, KeepControl, ResolveFile, MayBeLocal
<1>2. CASE ResolveStream \/ Dialled \/ DialFailed
  BY <1>2 DEF ResolveStream, Dialled, IcyReset, Return, KeepControl, DialFailed
<1>3. CASE Receive \/ TooManyErrors \/ StreamStarted \/ Decide
  BY <1>3 DEF Receive, NothingReceived, PeerClosed, Redirected, HeaderRefused,
       AudioReceived, SetSystemStatus, TooManyErrors, Return, KeepControl,
       Decide, StreamVerdict, KeepControl, StreamStarted, Again
<1>4. CASE PublishStatus \/ PublishRedirect \/ RedirectInfo \/ RedirectConnect
  BY <1>4 DEF PublishStatus, SetSystemStatus, Again, PublishRedirect, RedirectInfo,
       RedirectConnect
<1>5. CASE StopFlag("critical") \/ StopLock("critical") \/ StopJoin("critical")
         \/ StopFlag("gui") \/ StopLock("gui") \/ StopJoin("gui")
  BY <1>5 DEF StopFlag, AfterStop, StopLock, StopJoin
<1>6. CASE DecoderCheck
  BY <1>6 DEF DecoderCheck
<1>7. CASE DecoderLock
  BY <1>7 DEF DecoderLock
<1>8. CASE DecoderRead \/ DecoderReads \/ RunDry \/ Rebuffer
  BY <1>8 DEF DecoderRead, P_connect, DecoderReads, ReadNothing, ReadFile, ReadStream,
       Decoded, RunDry, Rebuffer, SetSystemStatus
<1>9. CASE MixEnter \/ MixReturn \/ MixPromotes
  BY <1>9 DEF MixEnter, MixReturn, MixPromotes, MayMix
<1>10. CASE MixPromote
  BY <1>10 DEF MixPromote, Play, SetSystemStatus
<1>11. CASE Mix
  BY <1>11 DEF Mix, MayMix, Play
<1>12. CASE ClickItem \/ ClickDirect \/ ClickStop \/ ClickCancel \/
         ClickPlayPause \/ ClickSeek \/ Leave
  BY <1>12 DEF ClickItem, Click, Request, RequestInfo, PlayingFile,
       ClickDirect, ClickStop, ClickCancel, ClickPlayPause, ClickSeek, Leave
<1>13. CASE Direct \/ Connect \/ StopTakesConnect \/ Stopped \/ StoreStopped \/ Cancel \/
         CancelSource \/ StorePause \/ SdlPause \/ SeekTakesConnect \/ SeekPause \/ SeekReset \/ SeekResume
  BY <1>13 DEF Direct, Request, Connect, SetSystemStatus, StopTakesConnect, P_connect, Stopped,
       StoreStopped, V_connect, Cancel, CancelSource, StorePause, SdlPause, SeekTakesConnect,
       SeekPause, SeekReset, SeekResume
<1>14. CASE TrackEnds \/ Advance \/ FileResolved \/ OpenFile \/ FileStarted \/ Announce \/ SoundClose \/ CloseAudio \/
         StartTest("gui") \/ StartLock("gui") \/ StartCreate("gui") \/
         StartTest("critical") \/ StartLock("critical") \/ StartCreate("critical")
  BY <1>14 DEF TrackEnds, PlayingFile, Advance, Request, FileResolved,
       OpenFile, StartTest, StartLock, StartCreate, FileStarted,
       Announce, SetSystemStatus, SoundClose, CloseAudio
<1>15. CASE UNCHANGED vars
  BY <1>15 DEF vars
<1> QED
  BY <1>1, <1>2, <1>3, <1>4, <1>5, <1>6, <1>7, <1>8, <1>9, <1>10, <1>11, <1>12,
       <1>13, <1>14, <1>15
     DEF Next, ThreadStep, CriticalStep, AudioStep, DecoderStep, MixerStep,
          GuiStep, UserStep

(* From START_PLAYING_FILE to LOCALFILE_BUFFERING only check_status acts.  *)
LEMMA NextOpeningTurn ==
  ASSUME TInv, [Next]_vars
  PROVE  OpeningTurn'
<1> USE DEF TInv, IInv, TypeOK, DataOK, PlacesOK, Stopping, DecoderIsOwned,
         BetweenFlagAndJoin, Quiet, Threads, Turns, OutOfLoop, Opening, AtStart,
         Promoting, StoppingTurn, OpeningTurn, ClosingTurn, AnnouncingTurn, NetworkTurn,
         PromotingTurn, status, source, device, file, control, Goto
<1>1. CASE CriticalConnect \/ CriticalStream \/ CriticalExit \/ Unresolved \/
         ResolveFile
  BY <1>1 DEF CriticalConnect, P_connect, CriticalStream, CriticalExit,
       HasWork, Again, Unresolved, Return, KeepControl, ResolveFile, MayBeLocal
<1>2. CASE ResolveStream \/ Dialled \/ DialFailed
  BY <1>2 DEF ResolveStream, Dialled, IcyReset, Return, KeepControl, DialFailed
<1>3. CASE Receive \/ TooManyErrors \/ StreamStarted \/ Decide
  BY <1>3 DEF Receive, NothingReceived, PeerClosed, Redirected, HeaderRefused,
       AudioReceived, SetSystemStatus, TooManyErrors, Return, KeepControl,
       Decide, StreamVerdict, KeepControl, StreamStarted, Again
<1>4. CASE PublishStatus \/ PublishRedirect \/ RedirectInfo \/ RedirectConnect
  BY <1>4 DEF PublishStatus, SetSystemStatus, Again, PublishRedirect, RedirectInfo,
       RedirectConnect
<1>5. CASE StopFlag("critical") \/ StopLock("critical") \/ StopJoin("critical")
         \/ StopFlag("gui") \/ StopLock("gui") \/ StopJoin("gui")
  BY <1>5 DEF StopFlag, AfterStop, StopLock, StopJoin
<1>6. CASE DecoderCheck
  BY <1>6 DEF DecoderCheck
<1>7. CASE DecoderLock
  BY <1>7 DEF DecoderLock
<1>8. CASE DecoderRead \/ DecoderReads \/ RunDry \/ Rebuffer
  BY <1>8 DEF DecoderRead, P_connect, DecoderReads, ReadNothing, ReadFile, ReadStream,
       Decoded, RunDry, Rebuffer, SetSystemStatus
<1>9. CASE MixEnter \/ MixReturn \/ MixPromotes
  BY <1>9 DEF MixEnter, MixReturn, MixPromotes, MayMix
<1>10. CASE MixPromote
  BY <1>10 DEF MixPromote, Play, SetSystemStatus
<1>11. CASE Mix
  BY <1>11 DEF Mix, MayMix, Play
<1>12. CASE ClickItem \/ ClickDirect \/ ClickStop \/ ClickCancel \/
         ClickPlayPause \/ ClickSeek \/ Leave
  BY <1>12 DEF ClickItem, Click, Request, RequestInfo, PlayingFile,
       ClickDirect, ClickStop, ClickCancel, ClickPlayPause, ClickSeek, Leave
<1>13. CASE Direct \/ Connect \/ StopTakesConnect \/ Stopped \/ StoreStopped \/ Cancel \/
         CancelSource \/ StorePause \/ SdlPause \/ SeekTakesConnect \/ SeekPause \/ SeekReset \/ SeekResume
  BY <1>13 DEF Direct, Request, Connect, SetSystemStatus, StopTakesConnect, P_connect, Stopped,
       StoreStopped, V_connect, Cancel, CancelSource, StorePause, SdlPause, SeekTakesConnect,
       SeekPause, SeekReset, SeekResume
<1>14. CASE TrackEnds \/ Advance \/ FileResolved \/ OpenFile \/ FileStarted \/ Announce \/ SoundClose \/ CloseAudio \/
         StartTest("gui") \/ StartLock("gui") \/ StartCreate("gui") \/
         StartTest("critical") \/ StartLock("critical") \/ StartCreate("critical")
  BY <1>14 DEF TrackEnds, PlayingFile, Advance, Request, FileResolved,
       OpenFile, StartTest, StartLock, StartCreate, FileStarted,
       Announce, SetSystemStatus, SoundClose, CloseAudio
<1>15. CASE UNCHANGED vars
  BY <1>15 DEF vars
<1> QED
  BY <1>1, <1>2, <1>3, <1>4, <1>5, <1>6, <1>7, <1>8, <1>9, <1>10, <1>11, <1>12,
       <1>13, <1>14, <1>15
     DEF Next, ThreadStep, CriticalStep, AudioStep, DecoderStep, MixerStep,
          GuiStep, UserStep

(* Until the source is announced only MixAudio changes the status.         *)
LEMMA NextAnnouncingTurn ==
  ASSUME TInv, [Next]_vars
  PROVE  AnnouncingTurn'
<1> USE DEF TInv, IInv, TypeOK, DataOK, PlacesOK, Stopping, DecoderIsOwned,
         BetweenFlagAndJoin, Quiet, Threads, Turns, OutOfLoop, Opening, AtStart,
         Promoting, OpeningTurn, AnnouncingTurn, NetworkTurn, PromotingTurn,
         FileBufferingTurn, status, source, device, control, Goto
<1>1. CASE CriticalConnect \/ CriticalStream \/ CriticalExit \/ Unresolved \/
         ResolveFile
  BY <1>1 DEF CriticalConnect, P_connect, CriticalStream, CriticalExit,
       HasWork, Again, Unresolved, Return, KeepControl, ResolveFile, MayBeLocal
<1>2. CASE ResolveStream \/ Dialled \/ DialFailed
  BY <1>2 DEF ResolveStream, Dialled, IcyReset, Return, KeepControl, DialFailed
<1>3. CASE Receive \/ TooManyErrors \/ StreamStarted \/ Decide
  BY <1>3 DEF Receive, NothingReceived, PeerClosed, Redirected, HeaderRefused,
       AudioReceived, SetSystemStatus, TooManyErrors, Return, KeepControl,
       Decide, StreamVerdict, KeepControl, StreamStarted, Again
<1>4. CASE PublishStatus \/ PublishRedirect \/ RedirectInfo \/ RedirectConnect
  BY <1>4 DEF PublishStatus, SetSystemStatus, Again, PublishRedirect, RedirectInfo,
       RedirectConnect
<1>5. CASE StopFlag("critical") \/ StopLock("critical") \/ StopJoin("critical")
         \/ StopFlag("gui") \/ StopLock("gui") \/ StopJoin("gui")
  BY <1>5 DEF StopFlag, AfterStop, StopLock, StopJoin
<1>6. CASE DecoderCheck
  BY <1>6 DEF DecoderCheck
<1>7. CASE DecoderLock
  BY <1>7 DEF DecoderLock
<1>8. CASE DecoderRead \/ DecoderReads \/ RunDry \/ Rebuffer
  BY <1>8 DEF DecoderRead, P_connect, DecoderReads, ReadNothing, ReadFile, ReadStream,
       Decoded, RunDry, Rebuffer, SetSystemStatus
<1>9. CASE MixEnter \/ MixReturn \/ MixPromotes
  BY <1>9 DEF MixEnter, MixReturn, MixPromotes, MayMix
<1>10. CASE MixPromote
  BY <1>10 DEF MixPromote, Play, SetSystemStatus
<1>11. CASE Mix
  BY <1>11 DEF Mix, MayMix, Play
<1>12. CASE ClickItem \/ ClickDirect \/ ClickStop \/ ClickCancel \/
         ClickPlayPause \/ ClickSeek \/ Leave
  BY <1>12 DEF ClickItem, Click, Request, RequestInfo, PlayingFile,
       ClickDirect, ClickStop, ClickCancel, ClickPlayPause, ClickSeek, Leave
<1>13. CASE Direct \/ Connect \/ StopTakesConnect \/ Stopped \/ StoreStopped \/ Cancel \/
         CancelSource \/ StorePause \/ SdlPause \/ SeekTakesConnect \/ SeekPause \/ SeekReset \/ SeekResume
  BY <1>13 DEF Direct, Request, Connect, SetSystemStatus, StopTakesConnect, P_connect, Stopped,
       StoreStopped, V_connect, Cancel, CancelSource, StorePause, SdlPause, SeekTakesConnect,
       SeekPause, SeekReset, SeekResume
<1>14. CASE TrackEnds \/ Advance \/ FileResolved \/ OpenFile \/ FileStarted \/ Announce \/ SoundClose \/ CloseAudio \/
         StartTest("gui") \/ StartLock("gui") \/ StartCreate("gui") \/
         StartTest("critical") \/ StartLock("critical") \/ StartCreate("critical")
  BY <1>14 DEF TrackEnds, PlayingFile, Advance, Request, FileResolved,
       OpenFile, StartTest, StartLock, StartCreate, FileStarted,
       Announce, SetSystemStatus, SoundClose, CloseAudio
<1>15. CASE UNCHANGED vars
  BY <1>15 DEF vars
<1> QED
  BY <1>1, <1>2, <1>3, <1>4, <1>5, <1>6, <1>7, <1>8, <1>9, <1>10, <1>11, <1>12,
       <1>13, <1>14, <1>15
     DEF Next, ThreadStep, CriticalStep, AudioStep, DecoderStep, MixerStep,
          GuiStep, UserStep

(* Between the end of a track and the next request only check_status acts. *)
LEMMA NextAdvancingTurn ==
  ASSUME FInv, [Next]_vars
  PROVE  AdvancingTurn'
<1> USE DEF FInv, FileTurns, TInv, IInv, TypeOK, PlacesOK, Stopping, Threads, Turns, 
         Advancing, AdvancingTurn, FileEndTurn, BetweenFlagAndJoin,
         OpeningTurn, NetworkTurn, OutOfLoop, device, status, source,
         control, Goto
<1>1. CASE CriticalConnect \/ CriticalStream \/ CriticalExit \/ Unresolved \/
         ResolveFile
  BY <1>1 DEF CriticalConnect, P_connect, CriticalStream, CriticalExit,
       HasWork, Again, Unresolved, Return, KeepControl, ResolveFile, MayBeLocal
<1>2. CASE ResolveStream \/ Dialled \/ DialFailed
  BY <1>2 DEF ResolveStream, Dialled, IcyReset, Return, KeepControl, DialFailed
<1>3. CASE Receive \/ TooManyErrors \/ StreamStarted \/ Decide
  BY <1>3 DEF Receive, NothingReceived, PeerClosed, Redirected, HeaderRefused,
       AudioReceived, SetSystemStatus, TooManyErrors, Return, KeepControl,
       Decide, StreamVerdict, KeepControl, StreamStarted, Again
<1>4. CASE PublishStatus \/ PublishRedirect \/ RedirectInfo \/ RedirectConnect
  BY <1>4 DEF PublishStatus, SetSystemStatus, Again, PublishRedirect, RedirectInfo,
       RedirectConnect
<1>5. CASE StopFlag("critical") \/ StopLock("critical") \/ StopJoin("critical")
         \/ StopFlag("gui") \/ StopLock("gui") \/ StopJoin("gui")
  BY <1>5 DEF StopFlag, AfterStop, StopLock, StopJoin
<1>6. CASE DecoderCheck
  BY <1>6 DEF DecoderCheck
<1>7. CASE DecoderLock
  BY <1>7 DEF DecoderLock
<1>8. CASE DecoderRead \/ DecoderReads \/ RunDry \/ Rebuffer
  BY <1>8 DEF DecoderRead, P_connect, DecoderReads, ReadNothing, ReadFile, ReadStream,
       Decoded, RunDry, Rebuffer, SetSystemStatus
<1>9. CASE MixEnter \/ MixReturn \/ MixPromotes
  BY <1>9 DEF MixEnter, MixReturn, MixPromotes, MayMix
<1>10. CASE MixPromote
  BY <1>10 DEF MixPromote, Play, SetSystemStatus
<1>11. CASE Mix
  BY <1>11 DEF Mix, MayMix, Play
<1>12. CASE ClickItem \/ ClickDirect \/ ClickStop \/ ClickCancel \/
         ClickPlayPause \/ ClickSeek \/ Leave
  BY <1>12 DEF ClickItem, Click, Request, RequestInfo, PlayingFile,
       ClickDirect, ClickStop, ClickCancel, ClickPlayPause, ClickSeek, Leave
<1>13. CASE Direct \/ Connect \/ StopTakesConnect \/ Stopped \/ StoreStopped \/ Cancel \/
         CancelSource \/ StorePause \/ SdlPause \/ SeekTakesConnect \/ SeekPause \/ SeekReset \/ SeekResume
  BY <1>13 DEF Direct, Request, Connect, SetSystemStatus, StopTakesConnect, P_connect, Stopped,
       StoreStopped, V_connect, Cancel, CancelSource, StorePause, SdlPause, SeekTakesConnect,
       SeekPause, SeekReset, SeekResume
<1>14. CASE TrackEnds \/ Advance \/ FileResolved \/ OpenFile \/ FileStarted \/ Announce \/ SoundClose \/ CloseAudio \/
         StartTest("gui") \/ StartLock("gui") \/ StartCreate("gui") \/
         StartTest("critical") \/ StartLock("critical") \/ StartCreate("critical")
  BY <1>14 DEF TrackEnds, PlayingFile, Advance, Request, FileResolved,
       OpenFile, StartTest, StartLock, StartCreate, FileStarted,
       Announce, SetSystemStatus, SoundClose, CloseAudio
<1>15. CASE UNCHANGED vars
  BY <1>15 DEF vars
<1> QED
  BY <1>1, <1>2, <1>3, <1>4, <1>5, <1>6, <1>7, <1>8, <1>9, <1>10, <1>11, <1>12,
       <1>13, <1>14, <1>15
     DEF Next, ThreadStep, CriticalStep, AudioStep, DecoderStep, MixerStep,
          GuiStep, UserStep

(* critical_thread has ended before sound_close begins.                    *)
LEMMA NextClosingTurn ==
  ASSUME TInv, [Next]_vars
  PROVE  ClosingTurn'
<1> USE DEF TInv, IInv, TypeOK, DataOK, PlacesOK, Stopping, DecoderIsOwned,
         BetweenFlagAndJoin, Quiet, Threads, Turns, Closing, Promoting,
         StoppingTurn, ClosingTurn, PromotingTurn, device, control, Goto
<1>1. CASE CriticalConnect
  BY <1>1 DEF CriticalConnect, P_connect
<1>2. CASE CriticalStream
  BY <1>2 DEF CriticalStream, P_connect
<1>3. CASE CriticalExit
  BY <1>3 DEF CriticalExit, HasWork
<1>4. CASE Unresolved
  BY <1>4 DEF Unresolved, Return, KeepControl, Again
<1>5. CASE ResolveFile
  BY <1>5 DEF ResolveFile, MayBeLocal, Return, KeepControl
<1>6. CASE ResolveStream \/ Dialled \/ DialFailed
  BY <1>6 DEF ResolveStream, Dialled, IcyReset, Return, KeepControl, DialFailed
<1>7. CASE Receive \/ TooManyErrors \/ StreamStarted \/ Decide
  <2>1. CASE Receive \/ StreamStarted
    BY <2>1 DEF Receive, StreamStarted
  <2>2. CASE TooManyErrors
    BY <2>2 DEF TooManyErrors, Return, KeepControl
  <2>3. CASE Decide
    BY <2>3 DEF Decide, KeepControl, Again
  <2> QED
    BY <1>7, <2>1, <2>2, <2>3
<1>8. CASE PublishStatus \/ PublishRedirect \/ RedirectInfo \/ RedirectConnect
  BY <1>8 DEF PublishStatus, SetSystemStatus, Again, PublishRedirect, RedirectInfo,
       RedirectConnect
<1>9. CASE StopFlag("critical") \/ StopLock("critical") \/ StopJoin("critical")
         \/ StopFlag("gui") \/ StopLock("gui") \/ StopJoin("gui")
  <2>1. CASE StopFlag("critical") \/ StopLock("critical") \/ StopJoin("critical")
    BY <2>1 DEF StopFlag, AfterStop, StopLock, StopJoin
  <2>2. CASE StopFlag("gui")
    BY <2>2 DEF StopFlag, AfterStop
  <2>3. CASE StopLock("gui")
    BY <2>3 DEF StopLock
  <2>4. CASE StopJoin("gui")
    BY <2>4 DEF StopJoin, AfterStop
  <2> QED
    BY <1>9, <2>1, <2>2, <2>3, <2>4
<1>10. CASE DecoderCheck
  BY <1>10 DEF DecoderCheck
<1>11. CASE DecoderLock
  BY <1>11 DEF DecoderLock
<1>12. CASE DecoderRead \/ DecoderReads \/ RunDry \/ Rebuffer
  BY <1>12 DEF DecoderRead, P_connect, DecoderReads, ReadNothing, ReadFile, ReadStream,
       Decoded, RunDry, Rebuffer, SetSystemStatus
<1>13. CASE MixEnter \/ MixReturn \/ MixPromotes
  BY <1>13 DEF MixEnter, MixReturn, MixPromotes, MayMix
<1>14. CASE MixPromote
  BY <1>14 DEF MixPromote, Play, SetSystemStatus
<1>15. CASE Mix
  BY <1>15 DEF Mix, MayMix, Play
<1>16. CASE ClickItem \/ ClickDirect \/ ClickStop \/ ClickCancel \/
         ClickPlayPause \/ ClickSeek \/ Leave
  BY <1>16 DEF ClickItem, Click, Request, RequestInfo, PlayingFile,
       ClickDirect, ClickStop, ClickCancel, ClickPlayPause, ClickSeek, Leave
<1>17. CASE Direct \/ Connect \/ StopTakesConnect \/ Stopped \/ StoreStopped \/ Cancel \/
         CancelSource \/ StorePause \/ SdlPause \/ SeekTakesConnect \/ SeekPause \/ SeekReset \/ SeekResume
  BY <1>17 DEF Direct, Request, Connect, SetSystemStatus, StopTakesConnect, P_connect, Stopped,
       StoreStopped, V_connect, Cancel, CancelSource, StorePause, SdlPause, SeekTakesConnect,
       SeekPause, SeekReset, SeekResume
<1>18. CASE TrackEnds \/ Advance \/ FileResolved \/ OpenFile \/ FileStarted \/ Announce \/ SoundClose \/ CloseAudio \/
         StartTest("gui") \/ StartLock("gui") \/ StartCreate("gui") \/
         StartTest("critical") \/ StartLock("critical") \/ StartCreate("critical")
  BY <1>18 DEF TrackEnds, PlayingFile, Advance, Request, FileResolved,
       OpenFile, StartTest, StartLock, StartCreate, FileStarted,
       Announce, SetSystemStatus, SoundClose, CloseAudio
<1>19. CASE UNCHANGED vars
  BY <1>19 DEF vars
<1> QED
  BY <1>1, <1>2, <1>3, <1>4, <1>5, <1>6, <1>7, <1>8, <1>9, <1>10, <1>11, <1>12,
       <1>13, <1>14, <1>15, <1>16, <1>17, <1>18, <1>19
     DEF Next, ThreadStep, CriticalStep, AudioStep, DecoderStep, MixerStep,
          GuiStep, UserStep

(* Nobody starts the device while critical_thread is connecting.           *)
LEMMA NextConnectingTurn ==
  ASSUME FInv, [Next]_vars
  PROVE  ConnectingTurn'
<1> USE DEF FInv, FileTurns, TInv, IInv, TypeOK, DataOK, PlacesOK, MutexOwners, GuiInConnect,
         CriticalInConnect, Stopping, DecoderIsOwned, BetweenFlagAndJoin,
         Quiet, Threads, Free, Turns, OutOfLoop, Opening, AtStart, Advancing, Closing,
         OpeningTurn, AnnouncingTurn, AdvancingTurn, NetworkTurn, CriticalStarts, StoppingTurn, ClosingTurn, ConnectingTurn, source,
         device, control, Goto
<1>1. CASE CriticalConnect
  BY <1>1 DEF CriticalConnect, P_connect
<1>2. CASE CriticalStream
  BY <1>2 DEF CriticalStream, P_connect
<1>3. CASE CriticalExit
  BY <1>3 DEF CriticalExit, HasWork
<1>4. CASE Unresolved
  BY <1>4 DEF Unresolved, Return, KeepControl, Again
<1>5. CASE ResolveFile
  BY <1>5 DEF ResolveFile, MayBeLocal, Return, KeepControl
<1>6. CASE ResolveStream
  BY <1>6 DEF ResolveStream
<1>7. CASE Dialled
  BY <1>7 DEF Dialled, IcyReset, Return, KeepControl
<1>8. CASE DialFailed
  BY <1>8 DEF DialFailed, IcyReset, Return, KeepControl
<1>9. CASE Receive \/ TooManyErrors \/ StreamStarted \/ Decide
  <2>1. CASE Receive
    BY <2>1 DEF Receive, NothingReceived, PeerClosed, Redirected, HeaderRefused,
         AudioReceived, SetSystemStatus
  <2>2. CASE TooManyErrors
    BY <2>2 DEF TooManyErrors, Return, KeepControl
  <2>3. CASE StreamStarted
    BY <2>3 DEF StreamStarted, CriticalStarts, StartIsPlaying
  <2>4. CASE Decide
    BY <2>4 DEF Decide, KeepControl, Again, StreamVerdict
  <2> QED
    BY <1>9, <2>1, <2>2, <2>3, <2>4
<1>10. CASE PublishStatus \/ PublishRedirect \/ RedirectInfo \/ RedirectConnect
  BY <1>10 DEF PublishStatus, SetSystemStatus, Again, PublishRedirect, RedirectInfo,
       RedirectConnect
<1>11. CASE StopFlag("critical") \/ StopLock("critical") \/
         StopJoin("critical") \/ StopFlag("gui") \/ StopLock("gui") \/
         StopJoin("gui")
  BY <1>11 DEF StopFlag, AfterStop, StopLock, StopJoin
<1>12. CASE DecoderCheck
  BY <1>12 DEF DecoderCheck
<1>13. CASE DecoderLock
  BY <1>13 DEF DecoderLock
<1>14. CASE DecoderRead \/ DecoderReads \/ RunDry \/ Rebuffer
  BY <1>14 DEF DecoderRead, P_connect, DecoderReads, ReadNothing, ReadFile, ReadStream,
       Decoded, RunDry, Rebuffer, SetSystemStatus
<1>15. CASE MixEnter \/ MixReturn \/ MixPromotes
  BY <1>15 DEF MixEnter, MixReturn, MixPromotes, MayMix
<1>16. CASE MixPromote
  BY <1>16 DEF MixPromote, Play, SetSystemStatus
<1>17. CASE Mix
  BY <1>17 DEF Mix, MayMix, Play
<1>18. CASE ClickItem \/ ClickDirect \/ ClickStop \/ ClickCancel \/
         ClickPlayPause \/ ClickSeek \/ Leave
  BY <1>18 DEF ClickItem, Click, Request, RequestInfo, PlayingFile,
       ClickDirect, ClickStop, ClickCancel, ClickPlayPause, ClickSeek, Leave
<1>19. CASE Direct \/ Connect \/ StopTakesConnect \/ Stopped \/ StoreStopped \/ Cancel \/
         CancelSource \/ StorePause \/ SdlPause \/ SeekTakesConnect \/ SeekPause \/ SeekReset \/ SeekResume
  BY <1>19 DEF Direct, Request, Connect, SetSystemStatus, StopTakesConnect, P_connect, Stopped,
       StoreStopped, V_connect, Cancel, CancelSource, StorePause, SdlPause, SeekTakesConnect,
       SeekPause, SeekReset, SeekResume
<1>20. CASE TrackEnds \/ Advance \/ FileResolved \/ OpenFile \/ FileStarted \/ Announce \/ SoundClose \/ CloseAudio \/
         StartTest("gui") \/ StartLock("gui") \/ StartCreate("gui") \/
         StartTest("critical") \/ StartLock("critical") \/ StartCreate("critical")
  BY <1>20 DEF TrackEnds, PlayingFile, Advance, Request, FileResolved,
       OpenFile, StartTest, StartLock, StartCreate, FileStarted,
       Announce, SetSystemStatus, SoundClose, CloseAudio
<1>21. CASE UNCHANGED vars
  BY <1>21 DEF vars
<1> QED
  BY <1>1, <1>2, <1>3, <1>4, <1>5, <1>6, <1>7, <1>8, <1>9, <1>10, <1>11, <1>12,
       <1>13, <1>14, <1>15, <1>16, <1>17, <1>18, <1>19, <1>20, <1>21
     DEF Next, ThreadStep, CriticalStep, AudioStep, DecoderStep, MixerStep,
          GuiStep, UserStep

(* Only Dialled makes the network the source, and nobody takes it away from*)
(* a network_playback under way.                                           *)
LEMMA NextNetworkTurn ==
  ASSUME TInv, [Next]_vars
  PROVE  NetworkTurn'
<1> USE DEF TInv, IInv, TypeOK, PlacesOK, MutexOwners, GuiInConnect,
         CriticalInConnect, Threads, Free, Turns, OutOfLoop, Opening, AtStart, OpeningTurn,
         AnnouncingTurn, NetworkTurn, CriticalStarts, StartIsPlaying, source, control, Goto
<1>1. CASE CriticalConnect \/ CriticalStream \/ CriticalExit \/ Unresolved
  BY <1>1 DEF CriticalConnect, P_connect, CriticalStream, CriticalExit,
       HasWork, Again, Unresolved, Return, KeepControl
<1>2. CASE ResolveFile \/ ResolveStream
  BY <1>2 DEF ResolveFile, ResolveStream, Return, KeepControl
<1>3. CASE Dialled \/ DialFailed
  BY <1>3 DEF Dialled, IcyReset, Return, KeepControl, DialFailed
<1>4. CASE Receive \/ TooManyErrors \/ StreamStarted
  BY <1>4 DEF Receive, NothingReceived, PeerClosed, Redirected, HeaderRefused,
       AudioReceived, SetSystemStatus, TooManyErrors, Return, KeepControl,
       StreamStarted
<1>5. CASE Decide
  BY <1>5 DEF Decide, StreamVerdict, KeepControl, Again
<1>6. CASE PublishStatus \/ PublishRedirect \/ RedirectInfo \/ RedirectConnect
  BY <1>6 DEF PublishStatus, SetSystemStatus, Again, PublishRedirect, RedirectInfo,
       RedirectConnect
<1>7. CASE StopFlag("critical") \/ StopLock("critical") \/ StopJoin("critical")
         \/ StopFlag("gui") \/ StopLock("gui") \/ StopJoin("gui")
  BY <1>7 DEF StopFlag, AfterStop, StopLock, StopJoin
<1>8. CASE DecoderCheck \/ DecoderLock
  BY <1>8 DEF DecoderCheck, DecoderLock
<1>9. CASE DecoderRead \/ DecoderReads \/ RunDry \/ Rebuffer
  BY <1>9 DEF DecoderRead, P_connect, DecoderReads, ReadNothing, ReadFile, ReadStream,
       Decoded, RunDry, Rebuffer, SetSystemStatus
<1>10. CASE MixEnter \/ MixReturn \/ MixPromotes \/ Mix
  BY <1>10 DEF MixEnter, MixReturn, MixPromotes, Mix, MayMix, Play
<1>11. CASE MixPromote
  BY <1>11 DEF MixPromote, Play, SetSystemStatus
<1>12. CASE ClickItem \/ ClickDirect \/ ClickStop \/ ClickCancel \/
         ClickPlayPause \/ ClickSeek \/ Leave
  BY <1>12 DEF ClickItem, Click, Request, RequestInfo, PlayingFile,
       ClickDirect, ClickStop, ClickCancel, ClickPlayPause, ClickSeek, Leave
<1>13. CASE Direct \/ Connect \/ StopTakesConnect \/ Stopped \/ StoreStopped \/ Cancel \/
         CancelSource \/ StorePause \/ SdlPause \/ SeekTakesConnect \/ SeekPause \/ SeekReset \/ SeekResume
  BY <1>13 DEF Direct, Request, Connect, SetSystemStatus, StopTakesConnect, P_connect, Stopped,
       StoreStopped, V_connect, Cancel, CancelSource, StorePause, SdlPause, SeekTakesConnect,
       SeekPause, SeekReset, SeekResume
<1>14. CASE TrackEnds \/ Advance \/ FileResolved \/ OpenFile \/ FileStarted \/ Announce \/ SoundClose \/ CloseAudio \/
         StartTest("gui") \/ StartLock("gui") \/ StartCreate("gui") \/
         StartTest("critical") \/ StartLock("critical") \/ StartCreate("critical")
  BY <1>14 DEF TrackEnds, PlayingFile, Advance, Request, FileResolved,
       OpenFile, StartTest, StartLock, StartCreate, FileStarted,
       Announce, SetSystemStatus, SoundClose, CloseAudio
<1>15. CASE UNCHANGED vars
  BY <1>15 DEF vars
<1> QED
  BY <1>1, <1>2, <1>3, <1>4, <1>5, <1>6, <1>7, <1>8,
     <1>9, <1>10, <1>11, <1>12, <1>13, <1>14, <1>15
     DEF Next, ThreadStep, CriticalStep, AudioStep, DecoderStep, MixerStep,
          GuiStep, UserStep

(* MixAudio is at its promotion only while no connection is being made.    *)
LEMMA NextPromotingTurn ==
  ASSUME TInv, [Next]_vars
  PROVE  PromotingTurn'
<1> USE DEF TInv, IInv, TypeOK, DataOK, PlacesOK, MutexOwners, GuiInConnect,
         CriticalInConnect, Stopping, Threads, Free, Turns, OutOfLoop, Opening, AtStart,
         Advancing, Closing, Promoting, Pausing, OpeningTurn,
         ClosingTurn, PromotingTurn, StoppingTurn, FileBufferingTurn, Drained,
         BetweenFlagAndJoin, status, device, file, control,
         Goto
<1>1. CASE CriticalConnect \/ CriticalStream \/ CriticalExit \/ Unresolved \/
         ResolveFile
  BY <1>1 DEF CriticalConnect, P_connect, CriticalStream, CriticalExit,
       HasWork, Again, Unresolved, Return, KeepControl, ResolveFile, MayBeLocal
<1>2. CASE ResolveStream \/ Dialled \/ DialFailed
  BY <1>2 DEF ResolveStream, Dialled, IcyReset, Return, KeepControl, DialFailed
<1>3. CASE Receive \/ TooManyErrors \/ StreamStarted \/ Decide
  BY <1>3 DEF Receive, NothingReceived, PeerClosed, Redirected, HeaderRefused,
       AudioReceived, SetSystemStatus, TooManyErrors, Return, KeepControl,
       Decide, StreamVerdict, KeepControl, StreamStarted, Again
<1>4. CASE PublishStatus \/ PublishRedirect \/ RedirectInfo \/ RedirectConnect
  BY <1>4 DEF PublishStatus, SetSystemStatus, Again, PublishRedirect, RedirectInfo,
       RedirectConnect
<1>5. CASE StopFlag("critical") \/ StopLock("critical") \/ StopJoin("critical")
         \/ StopFlag("gui") \/ StopLock("gui") \/ StopJoin("gui")
  BY <1>5 DEF StopFlag, AfterStop, StopLock, StopJoin
<1>6. CASE DecoderCheck
  BY <1>6 DEF DecoderCheck
<1>7. CASE DecoderLock
  BY <1>7 DEF DecoderLock
<1>8. CASE DecoderRead \/ DecoderReads \/ RunDry \/ Rebuffer
  BY <1>8 DEF DecoderRead, P_connect, DecoderReads, ReadNothing, ReadFile, ReadStream,
       Decoded, RunDry, Rebuffer, SetSystemStatus
<1>9. CASE MixEnter \/ MixReturn \/ MixPromotes
  BY <1>9 DEF MixEnter, MixReturn, MixPromotes, MayMix
<1>10. CASE MixPromote
  BY <1>10 DEF MixPromote, Play, SetSystemStatus
<1>11. CASE Mix
  BY <1>11 DEF Mix, MayMix, Play
<1>12. CASE ClickItem \/ ClickDirect \/ ClickStop \/ ClickCancel \/
         ClickPlayPause \/ ClickSeek \/ Leave
  BY <1>12 DEF ClickItem, Click, Request, RequestInfo, PlayingFile,
       ClickDirect, ClickStop, ClickCancel, ClickPlayPause, ClickSeek, Leave
<1>13. CASE Direct \/ Connect \/ StopTakesConnect \/ Stopped \/ StoreStopped \/ Cancel \/
         CancelSource \/ StorePause \/ SdlPause \/ SeekTakesConnect \/ SeekPause \/ SeekReset \/ SeekResume
  BY <1>13 DEF Direct, Request, Connect, SetSystemStatus, StopTakesConnect, P_connect, Stopped,
       StoreStopped, V_connect, Cancel, CancelSource, StorePause, SdlPause, SeekTakesConnect,
       SeekPause, SeekReset, SeekResume
<1>14. CASE TrackEnds \/ Advance \/ FileResolved \/ OpenFile \/ FileStarted \/ Announce \/ SoundClose \/ CloseAudio \/
         StartTest("gui") \/ StartLock("gui") \/ StartCreate("gui") \/
         StartTest("critical") \/ StartLock("critical") \/ StartCreate("critical")
  BY <1>14 DEF TrackEnds, PlayingFile, Advance, Request, FileResolved,
       OpenFile, StartTest, StartLock, StartCreate, FileStarted,
       Announce, SetSystemStatus, SoundClose, CloseAudio
<1>15. CASE UNCHANGED vars
  BY <1>15 DEF vars
<1> QED
  BY <1>1, <1>2, <1>3, <1>4, <1>5, <1>6, <1>7, <1>8, <1>9, <1>10, <1>11, <1>12,
       <1>13, <1>14, <1>15
     DEF Next, ThreadStep, CriticalStep, AudioStep, DecoderStep, MixerStep,
          GuiStep, UserStep

(* While a file is buffered, what is decoded is what was read of it.       *)
LEMMA NextFileBufferingTurn ==
  ASSUME TInv, [Next]_vars
  PROVE  FileBufferingTurn'
<1> USE MinBuffersAssumption, FileSizesAssumption
    DEF TInv, IInv, TypeOK, DataOK, PlacesOK, Stopping,
         RoomForChunk, ResultIsStatus, BetweenFlagAndJoin, Threads, Turns,
         OutOfLoop, Opening, AtStart, AnnouncingTurn, StoppingTurn, OpeningTurn, FileBufferingTurn, Drained,
         status, source, device, file, control, Goto
<1>1. CASE CriticalConnect \/ CriticalStream \/ CriticalExit \/ Unresolved \/
         ResolveFile
  BY <1>1 DEF CriticalConnect, P_connect, CriticalStream, CriticalExit,
       HasWork, Again, Unresolved, Return, KeepControl, ResolveFile, MayBeLocal
<1>2. CASE ResolveStream \/ Dialled \/ DialFailed
  BY <1>2 DEF ResolveStream, Dialled, IcyReset, Return, KeepControl, DialFailed
<1>3. CASE Receive \/ TooManyErrors \/ StreamStarted \/ Decide
  BY <1>3 DEF Receive, NothingReceived, PeerClosed, Redirected, HeaderRefused,
       AudioReceived, SetSystemStatus, TooManyErrors, Return, KeepControl,
       Decide, StreamVerdict, KeepControl, StreamStarted, Again
<1>4. CASE PublishStatus \/ PublishRedirect \/ RedirectInfo \/ RedirectConnect
  BY <1>4 DEF PublishStatus, SetSystemStatus, Again, PublishRedirect, RedirectInfo,
       RedirectConnect
<1>5. CASE StopFlag("critical") \/ StopLock("critical") \/ StopJoin("critical")
         \/ StopFlag("gui") \/ StopLock("gui") \/ StopJoin("gui")
  BY <1>5 DEF StopFlag, AfterStop, StopLock, StopJoin
<1>6. CASE DecoderCheck
  BY <1>6 DEF DecoderCheck
<1>7. CASE DecoderLock
  BY <1>7 DEF DecoderLock
<1>8. CASE DecoderReads
  <2>1. CASE ReadNothing
    BY <1>8, <2>1 DEF DecoderReads, ReadNothing
  <2>2. CASE ReadFile /\ unread > 0
    <3>1. CASE dev_playing \/ pc["gui"] = "stop_lock"
      <4> SUFFICES ASSUME current_ss = "LOCALFILE_BUFFERING"
                   PROVE  /\ stock' = bytes_done' /\ unread' = fileendpos' - bytes_done'
                          /\ primed' => stock' = MinBuffers
                          /\ file_done' => bytes_done' = fileendpos'
        BY <1>8, <2>2, <3>1 DEF DecoderReads, ReadFile, Decoded
      <4>1. /\ stock = bytes_done /\ unread = fileendpos - bytes_done
            /\ primed => stock = MinBuffers
            /\ file_done => bytes_done = fileendpos
            /\ stock < MinBuffers /\ fileendpos' = fileendpos
        BY <1>8, <2>2, <3>1 DEF DecoderReads, ReadFile
      <4>2. bytes_done' = bytes_done + 1 /\ unread' = unread - 1 /\ stock' = stock + 1
        BY <2>2, <4>1 DEF ReadFile, Decoded
      <4>3. ~primed /\ ~file_done
        BY <2>2, <4>1
      <4>4. primed' <=> stock' >= MinBuffers
        BY <2>2, <4>2, <4>3, Zenon DEF ReadFile, Decoded
      <4>5. file_done' <=> bytes_done' >= fileendpos
        BY <2>2, <4>3, Zenon DEF ReadFile
      <4> QED
        BY <2>2, <4>1, <4>2, <4>4, <4>5
    <3>2. CASE ~(dev_playing \/ pc["gui"] = "stop_lock")
      <4>1. UNCHANGED <<current_ss, playback_type, dev_playing, gui_next>>
            /\ pc'["gui"] = pc["gui"] /\ pc'["critical"] = pc["critical"]
        BY <1>8, <2>2 DEF DecoderReads, ReadFile, Decoded
      <4>2. Drained => Drained'
        BY <1>8, DrainedRead DEF TInv
      <4> QED
        BY <3>2, <4>1, <4>2
    <3> QED
      BY <3>1, <3>2
  <2>3. CASE ReadFile /\ ~(unread > 0)
    BY <1>8, <2>3 DEF DecoderReads, ReadFile
  <2>4. CASE ReadStream
    BY <1>8, <2>4 DEF DecoderReads, ReadStream, Decoded
  <2> QED
    BY <1>8, <2>1, <2>2, <2>3, <2>4 DEF DecoderReads
<1>17. CASE DecoderRead \/ RunDry \/ Rebuffer
  BY <1>17 DEF DecoderRead, P_connect, RunDry, Rebuffer, SetSystemStatus
<1>9. CASE MixEnter \/ MixReturn \/ MixPromotes
  BY <1>9 DEF MixEnter, MixReturn, MixPromotes, MayMix
<1>10. CASE MixPromote
  BY <1>10 DEF MixPromote, Play, SetSystemStatus
<1>11. CASE Mix
  BY <1>11 DEF Mix, MayMix, Play
<1>12. CASE ClickItem \/ ClickDirect \/ ClickStop \/ ClickCancel \/
         ClickPlayPause \/ ClickSeek \/ Leave
  BY <1>12 DEF ClickItem, Click, Request, RequestInfo, PlayingFile,
       ClickDirect, ClickStop, ClickCancel, ClickPlayPause, ClickSeek, Leave
<1>13. CASE Direct \/ Connect \/ StopTakesConnect \/ Stopped \/ StoreStopped \/ Cancel \/
         CancelSource \/ StorePause \/ SdlPause \/ SeekTakesConnect \/ SeekPause \/ SeekReset \/ SeekResume
  BY <1>13 DEF Direct, Request, Connect, SetSystemStatus, StopTakesConnect, P_connect, Stopped,
       StoreStopped, V_connect, Cancel, CancelSource, StorePause, SdlPause, SeekTakesConnect,
       SeekPause, SeekReset, SeekResume
<1>14. CASE TrackEnds \/ Advance \/ FileResolved \/ OpenFile \/ FileStarted \/ Announce \/ SoundClose \/ CloseAudio
  <2>1. CASE TrackEnds \/ Advance \/ FileResolved \/ OpenFile
    BY <2>1 DEF TrackEnds, PlayingFile, Advance, Request, FileResolved, OpenFile
  <2>2. CASE FileStarted
    <3>1. /\ unread = fileendpos /\ bytes_done = 0 /\ ~file_done /\ ~primed /\ stock = 0
          /\ dev_playing /\ ~OutOfLoop /\ playback_type \in {"AS_LOCAL", "AS_NULL"}
      BY <2>2 DEF FileStarted, Sources
    <3>2. /\ pc'["gui"] = "announce" /\ pc'["critical"] = pc["critical"]
          /\ UNCHANGED <<playback_type, unread, fileendpos, bytes_done, file_done,
                         primed, stock, dev_playing>>
      BY <2>2 DEF FileStarted
    <3>3. fileendpos \in Nat
      OBVIOUS
    <3> QED
      BY <3>1, <3>2, <3>3
  <2>4. CASE Announce
    BY <2>4 DEF Announce
  <2>3. CASE SoundClose \/ CloseAudio
    BY <2>3 DEF SoundClose, CloseAudio
  <2> QED
    BY <1>14, <2>1, <2>2, <2>3, <2>4
<1>16. CASE StartTest("gui") \/ StartLock("gui") \/ StartCreate("gui") \/
         StartTest("critical") \/ StartLock("critical") \/ StartCreate("critical")
  BY <1>16 DEF StartTest, StartLock, StartCreate
<1>15. CASE UNCHANGED vars
  BY <1>15 DEF vars
<1> QED
  BY <1>1, <1>2, <1>3, <1>4, <1>5, <1>6, <1>7, <1>8, <1>9, <1>10, <1>11, <1>12,
       <1>13, <1>14, <1>15, <1>16, <1>17
     DEF Next, ThreadStep, CriticalStep, AudioStep, DecoderStep, MixerStep,
          GuiStep, UserStep

(* A file that has ended is not PLAYING any more when a connection is made.*)
LEMMA NextFileEndTurn ==
  ASSUME FInv, [Next]_vars, ~overtaken'
  PROVE  FileEndTurn'
<1> USE DEF FInv, FileTurns, TInv, IInv, TypeOK, DataOK, PlacesOK, MutexOwners,
         CriticalInConnect, Stopping, Quiet, Threads, Free, Turns, OutOfLoop,
         Promoting, Pausing, ConnectingTurn, PromotingTurn,
         NetworkTurn, FileBufferingTurn, FileEndTurn, status, source, file, Goto
<1>1. CASE CriticalConnect
  BY <1>1 DEF CriticalConnect, P_connect
<1>2. CASE CriticalStream
  BY <1>2 DEF CriticalStream, P_connect
<1>3. CASE CriticalExit
  BY <1>3 DEF CriticalExit, HasWork
<1>4. CASE Unresolved
  BY <1>4 DEF Unresolved, Return, KeepControl, Again
<1>5. CASE ResolveFile
  BY <1>5 DEF ResolveFile, MayBeLocal, Return, KeepControl
<1>6. CASE ResolveStream
  BY <1>6 DEF ResolveStream
<1>7. CASE Dialled
  BY <1>7 DEF Dialled, IcyReset, Return, KeepControl
<1>8. CASE DialFailed
  BY <1>8 DEF DialFailed, IcyReset, Return, KeepControl
<1>9. CASE Receive
  BY <1>9 DEF Receive, NothingReceived, PeerClosed, Redirected, HeaderRefused,
       AudioReceived, SetSystemStatus
<1>10. CASE TooManyErrors \/ StreamStarted
  BY <1>10 DEF StreamStarted, TooManyErrors, Return, KeepControl
<1>11. CASE Decide
  BY <1>11 DEF Decide, StreamVerdict, KeepControl, Again
<1>12. CASE PublishStatus \/ PublishRedirect \/ RedirectInfo \/ RedirectConnect
  BY <1>12 DEF PublishStatus, SetSystemStatus, Again, PublishRedirect, RedirectInfo,
       RedirectConnect
<1>13. CASE StopFlag("critical") \/ StopLock("critical") \/
         StopJoin("critical") \/ StopFlag("gui") \/ StopLock("gui") \/
         StopJoin("gui")
  BY <1>13 DEF StopFlag, AfterStop, StopLock, StopJoin
<1>14. CASE DecoderCheck
  BY <1>14 DEF DecoderCheck
<1>15. CASE DecoderLock
  BY <1>15 DEF DecoderLock
<1>16. CASE DecoderReads
  <2>1. CASE ReadNothing \/ ReadStream
    BY <1>16, <2>1 DEF DecoderReads, ReadNothing, ReadStream, Decoded
  <2>2. CASE ReadFile
    <3>1. ~OutOfLoop
      <4>1. connect_mutex = "decoder" /\ pc["decoder"] = "source"
            /\ playback_type = "AS_LOCAL"
        BY <1>16, <2>2 DEF DecoderReads, ReadFile
      <4>2. pc["critical"] \in {"loop", "exited", "publish", "redirect_info",
                               "redirect_connect"}
        BY <4>1 DEF CriticalLabels
      <4> QED
        BY <4>1, <4>2
    <3>2. pc'["gui"] = pc["gui"] /\ pc'["critical"] = pc["critical"]
          /\ pc'["decoder"] = "check"
      BY <1>16 DEF DecoderReads
    <3>3. current_ss' = current_ss /\ playback_type' = playback_type
          /\ playback_type = "AS_LOCAL" /\ pc["decoder"] = "source"
      BY <1>16, <2>2 DEF DecoderReads, ReadFile
    <3> QED
      BY <3>1, <3>2, <3>3
  <2> QED
    BY <1>16, <2>1, <2>2 DEF DecoderReads
<1>24. CASE DecoderRead \/ RunDry \/ Rebuffer
  BY <1>24 DEF DecoderRead, P_connect, RunDry, Rebuffer, SetSystemStatus
<1>17. CASE MixEnter \/ MixReturn \/ MixPromotes
  BY <1>17 DEF MixEnter, MixReturn, MixPromotes, MayMix
<1>18. CASE MixPromote
  BY <1>18 DEF MixPromote, Play, SetSystemStatus
<1>19. CASE Mix
  BY <1>19 DEF Mix, MayMix, Play
<1>20. CASE ClickItem \/ ClickDirect \/ ClickStop \/ ClickCancel \/
         ClickPlayPause \/ ClickSeek \/ Leave
  BY <1>20 DEF ClickItem, Click, Request, RequestInfo, PlayingFile,
       ClickDirect, ClickStop, ClickCancel, ClickPlayPause, ClickSeek, Leave
<1>21. CASE Direct \/ Connect \/ StopTakesConnect \/ Stopped \/ StoreStopped \/ Cancel \/
         CancelSource \/ StorePause \/ SdlPause \/ SeekTakesConnect \/ SeekPause \/ SeekReset \/ SeekResume
  BY <1>21 DEF Direct, Request, Connect, SetSystemStatus, StopTakesConnect, P_connect, Stopped,
       StoreStopped, V_connect, Cancel, CancelSource, StorePause, SdlPause, SeekTakesConnect,
       SeekPause, SeekReset, SeekResume
<1>22. CASE TrackEnds \/ Advance \/ FileResolved \/ OpenFile \/ FileStarted \/ SoundClose \/
         CloseAudio \/ StartTest("gui") \/ StartLock("gui") \/ StartTest("critical") \/
         StartLock("critical")
  BY <1>22 DEF TrackEnds, PlayingFile, Advance, Request, FileResolved,
       OpenFile, StartTest, StartLock, FileStarted, SetSystemStatus, SoundClose, CloseAudio
<1>25. CASE \E t \in {"gui", "critical"} : StartCreate(t)
  BY <1>25 DEF StartCreate
<1>26. CASE Announce
  BY <1>26 DEF Announce, AnnouncingTurn
<1>23. CASE UNCHANGED vars
  BY <1>23 DEF vars
<1> QED
  BY <1>1, <1>2, <1>3, <1>4, <1>5, <1>6, <1>7, <1>8, <1>9, <1>10, <1>11, <1>12,
       <1>13, <1>14, <1>15, <1>16, <1>17, <1>18, <1>19, <1>20, <1>21, <1>22,
       <1>23, <1>24, <1>25, <1>26
     DEF Next, ThreadStep, CriticalStep, AudioStep, DecoderStep, MixerStep,
          GuiStep, UserStep

(* A file that is promoted has min_buffers of its chunks decoded: when no  *)
(* file is that short, it has more to come.                                *)
NoFileFits == MinBuffers \notin FileSizes
Unfinished == Promoting => ~file_done

LEMMA NextUnfinished ==
  ASSUME TInv, [Next]_vars, NoFileFits, Unfinished
  PROVE  Unfinished'
<1> USE MinBuffersAssumption
    DEF TInv, IInv, TypeOK, DataOK, PlacesOK, MutexOwners,
         Threads, Free, Turns, Opening, AtStart, OpeningTurn, Promoting, PromotingTurn, FileBufferingTurn, Drained,
         AtStart, Unfinished, NoFileFits, device, file, Goto
<1>1. CASE CriticalConnect \/ CriticalStream \/ CriticalExit \/ Unresolved
  BY <1>1 DEF CriticalConnect, P_connect, CriticalStream, CriticalExit,
       HasWork, Again, Unresolved, Return, KeepControl
<1>2. CASE ResolveFile \/ ResolveStream
  BY <1>2 DEF ResolveFile, ResolveStream, Return, KeepControl
<1>3. CASE Dialled \/ DialFailed
  BY <1>3 DEF Dialled, IcyReset, Return, KeepControl, DialFailed
<1>4. CASE Receive \/ TooManyErrors \/ StreamStarted
  BY <1>4 DEF Receive, NothingReceived, PeerClosed, Redirected, HeaderRefused,
       AudioReceived, SetSystemStatus, TooManyErrors, Return, KeepControl,
       StreamStarted
<1>5. CASE Decide
  BY <1>5 DEF Decide, StreamVerdict, KeepControl, Again
<1>6. CASE PublishStatus \/ PublishRedirect \/ RedirectInfo \/ RedirectConnect
  BY <1>6 DEF PublishStatus, SetSystemStatus, Again, PublishRedirect, RedirectInfo,
       RedirectConnect
<1>7. CASE StopFlag("critical") \/ StopLock("critical") \/ StopJoin("critical")
         \/ StopFlag("gui") \/ StopLock("gui") \/ StopJoin("gui")
  BY <1>7 DEF StopFlag, AfterStop, StopLock, StopJoin
<1>8. CASE DecoderCheck \/ DecoderLock
  BY <1>8 DEF DecoderCheck, DecoderLock
<1>9. CASE DecoderRead \/ DecoderReads \/ RunDry \/ Rebuffer
  BY <1>9 DEF DecoderRead, P_connect, DecoderReads, ReadNothing, ReadFile, ReadStream,
       Decoded, RunDry, Rebuffer, SetSystemStatus
<1>10. CASE MixEnter \/ MixReturn \/ Mix
  BY <1>10 DEF MixEnter, MixReturn, Mix, MayMix, Play
<1>16. CASE MixPromotes
  <2>1. primed /\ current_ss = "LOCALFILE_BUFFERING" /\ file_done' = file_done
    BY <1>16 DEF MixPromotes
  <2>2. bytes_done = MinBuffers
    BY <2>1
  <2>3. ~file_done
    BY <2>1, <2>2
  <2> QED
    BY <2>1, <2>3
<1>11. CASE MixPromote
  BY <1>11 DEF MixPromote, Play, SetSystemStatus
<1>12. CASE ClickItem \/ ClickDirect \/ ClickStop \/ ClickCancel \/
         ClickPlayPause \/ ClickSeek \/ Leave
  BY <1>12 DEF ClickItem, Click, Request, RequestInfo, PlayingFile,
       ClickDirect, ClickStop, ClickCancel, ClickPlayPause, ClickSeek, Leave
<1>13. CASE Direct \/ Connect \/ StopTakesConnect \/ Stopped \/ StoreStopped \/ Cancel \/
         CancelSource \/ StorePause \/ SdlPause \/ SeekTakesConnect \/ SeekPause \/ SeekReset \/ SeekResume
  BY <1>13 DEF Direct, Request, Connect, SetSystemStatus, StopTakesConnect, P_connect, Stopped,
       StoreStopped, V_connect, Cancel, CancelSource, StorePause, SdlPause, SeekTakesConnect,
       SeekPause, SeekReset, SeekResume
<1>14. CASE TrackEnds \/ Advance \/ FileResolved \/ OpenFile \/ FileStarted \/ Announce \/ SoundClose \/ CloseAudio \/
         StartTest("gui") \/ StartLock("gui") \/ StartCreate("gui") \/
         StartTest("critical") \/ StartLock("critical") \/ StartCreate("critical")
  BY <1>14 DEF TrackEnds, PlayingFile, Advance, Request, FileResolved,
       OpenFile, StartTest, StartLock, StartCreate, FileStarted,
       Announce, SetSystemStatus, SoundClose, CloseAudio
<1>15. CASE UNCHANGED vars
  BY <1>15 DEF vars
<1> QED
  BY <1>1, <1>2, <1>3, <1>4, <1>5, <1>6, <1>7, <1>8,
     <1>9, <1>10, <1>11, <1>12, <1>13, <1>14, <1>15, <1>16
     DEF Next, ThreadStep, CriticalStep, AudioStep, DecoderStep, MixerStep,
          GuiStep, UserStep

(* The reset of a sound_stop lasts: the decoder reads at most what it was  *)
(* about to, and MixAudio plays nothing.                                   *)
LEMMA NextDrainedTurn ==
  ASSUME FInv, [Next]_vars
  PROVE  DrainedTurn'
<1> USE MinBuffersAssumption
    DEF FInv, FileTurns, TInv, IInv, TypeOK, DataOK, PlacesOK, MutexOwners, Threads, Free,
        Turns, OpeningTurn, ConnectingTurn, Promoting, PromotingTurn, Quiet, DrainedTurn,
        Drained, device, Goto
<1>1. CASE CriticalConnect \/ CriticalStream \/ CriticalExit \/ Unresolved
  BY <1>1 DEF CriticalConnect, P_connect, CriticalStream, CriticalExit,
       HasWork, Again, Unresolved, Return, KeepControl
<1>2. CASE ResolveFile \/ ResolveStream
  BY <1>2 DEF ResolveFile, ResolveStream, Return, KeepControl
<1>3. CASE Dialled \/ DialFailed
  BY <1>3 DEF Dialled, IcyReset, Return, KeepControl, DialFailed
<1>4. CASE Receive \/ TooManyErrors \/ StreamStarted
  BY <1>4 DEF Receive, NothingReceived, PeerClosed, Redirected, HeaderRefused,
       AudioReceived, SetSystemStatus, TooManyErrors, Return, KeepControl,
       StreamStarted
<1>5. CASE Decide
  BY <1>5 DEF Decide, StreamVerdict, KeepControl, Again
<1>6. CASE PublishStatus \/ PublishRedirect \/ RedirectInfo \/ RedirectConnect
  BY <1>6 DEF PublishStatus, SetSystemStatus, Again, PublishRedirect, RedirectInfo,
       RedirectConnect
<1>7. CASE StopFlag("critical") \/ StopLock("critical") \/ StopJoin("critical")
         \/ StopFlag("gui") \/ StopLock("gui") \/ StopJoin("gui")
  BY <1>7 DEF StopFlag, AfterStop, StopLock, StopJoin
<1>8. CASE DecoderCheck \/ DecoderLock
  BY <1>8 DEF DecoderCheck, DecoderLock
<1>9. CASE DecoderReads
  <2>1. /\ pc'["gui"] = pc["gui"] /\ pc'["critical"] = pc["critical"]
        /\ dev_playing' = dev_playing
    BY <1>9 DEF DecoderReads, ReadNothing, ReadFile, ReadStream, Decoded
  <2> QED
    BY <1>9, <2>1, DrainedRead DEF DrainedTurn
<1>16. CASE DecoderRead \/ RunDry \/ Rebuffer
  BY <1>16 DEF DecoderRead, P_connect, RunDry, Rebuffer, SetSystemStatus
<1>10. CASE MixEnter \/ MixReturn \/ MixPromotes \/ Mix
  BY <1>10 DEF MixEnter, MixReturn, MixPromotes, Mix, MayMix, Play
<1>11. CASE MixPromote
  BY <1>11 DEF MixPromote, Play, SetSystemStatus
<1>12. CASE ClickItem \/ ClickDirect \/ ClickStop \/ ClickCancel \/
         ClickPlayPause \/ ClickSeek \/ Leave
  BY <1>12 DEF ClickItem, Click, Request, RequestInfo, PlayingFile,
       ClickDirect, ClickStop, ClickCancel, ClickPlayPause, ClickSeek, Leave
<1>13. CASE Direct \/ Connect \/ StopTakesConnect \/ Stopped \/ StoreStopped \/ Cancel \/
         CancelSource \/ StorePause \/ SdlPause \/ SeekTakesConnect \/ SeekPause \/ SeekReset \/ SeekResume
  BY <1>13 DEF Direct, Request, Connect, SetSystemStatus, StopTakesConnect, P_connect, Stopped,
       StoreStopped, V_connect, Cancel, CancelSource, StorePause, SdlPause, SeekTakesConnect,
       SeekPause, SeekReset, SeekResume
<1>14. CASE TrackEnds \/ Advance \/ FileResolved \/ OpenFile \/ FileStarted \/ Announce \/ SoundClose \/ CloseAudio \/
         StartTest("gui") \/ StartLock("gui") \/ StartCreate("gui") \/
         StartTest("critical") \/ StartLock("critical") \/ StartCreate("critical")
  BY <1>14 DEF TrackEnds, PlayingFile, Advance, Request, FileResolved,
       OpenFile, StartTest, StartLock, StartCreate, FileStarted,
       Announce, SetSystemStatus, SoundClose, CloseAudio
<1>15. CASE UNCHANGED vars
  BY <1>15 DEF vars
<1> QED
  BY <1>1, <1>2, <1>3, <1>4, <1>5, <1>6, <1>7, <1>8,
     <1>9, <1>10, <1>11, <1>12, <1>13, <1>14, <1>15, <1>16
     DEF Next, ThreadStep, CriticalStep, AudioStep, DecoderStep, MixerStep,
          GuiStep, UserStep

(* The first state: nobody has a turn.                                     *)
LEMMA InitTurns ==
  ASSUME Init
  PROVE  Turns /\ FileTurns
BY DEF Init, Turns, FileTurns, StoppingTurn, OpeningTurn, AdvancingTurn, ClosingTurn,
       ConnectingTurn, NetworkTurn, PromotingTurn, AnnouncingTurn, AtStart,
       FileBufferingTurn, FileEndTurn, DrainedTurn, Drained, CriticalStarts, OutOfLoop, Opening, AtStart, Advancing,
       Closing, Promoting, Pausing, Stopping, BetweenFlagAndJoin, Quiet

(* The turn invariants hold in every reachable state.                      *)
LEMMA NextTInv == TInv /\ [Next]_vars => TInv'
<1> SUFFICES ASSUME TInv, [Next]_vars PROVE TInv'
  OBVIOUS
<1>1. IInv'
  BY NextFlagsOK, NextDataOK, NextPlacesOK, NextMutexOwners, NextDevice
     DEF TInv, IInv, TypeOK
<1>2. Turns'
  BY NextStoppingTurn, NextOpeningTurn, NextAnnouncingTurn, NextClosingTurn, NextNetworkTurn,
     NextPromotingTurn, NextFileBufferingTurn DEF Turns
<1> QED
  BY <1>1, <1>2 DEF TInv

LEMMA TInvariance == Spec => []TInv
<1>1. Init => TInv
  BY InitIInv, InitTurns DEF TInv
<1> QED
  BY <1>1, NextTInv, PTL DEF Spec

(* Nothing but a promotion overtakes check_status.                         *)
LEMMA OnlyMixPromote == [Next]_vars => MixPromote \/ UNCHANGED overtaken
<1> SUFFICES ASSUME [Next]_vars PROVE MixPromote \/ UNCHANGED overtaken
  OBVIOUS
<1> USE DEF status, SetSystemStatus
<1>1. CASE CriticalStep
  <2>1. CASE \E t \in {"gui", "critical"} : StopFlag(t) \/ StopLock(t) \/ StopJoin(t)
         \/ StartTest(t) \/ StartLock(t) \/ StartCreate(t)
    BY <2>1 DEF StopFlag, StopLock, StopJoin, StartTest, StartLock, StartCreate
  <2>2. CASE Receive
    BY <2>2 DEF Receive, NothingReceived, PeerClosed, Redirected, HeaderRefused,
         AudioReceived
  <2> QED
    BY <1>1, <2>1, <2>2
       DEF CriticalStep, CriticalConnect, CriticalStream, CriticalExit, Unresolved,
           ResolveFile, ResolveStream, Dialled, DialFailed, TooManyErrors, Decide,
           StreamStarted, PublishStatus, PublishRedirect, RedirectInfo, RedirectConnect
<1>2. CASE AudioStep
  BY <1>2 DEF AudioStep, DecoderStep, DecoderCheck, DecoderLock, DecoderRead, DecoderReads,
       RunDry, Rebuffer, MixerStep, MixEnter, MixReturn, MixPromotes, Mix
<1>3. CASE UserStep
  BY <1>3 DEF UserStep, ClickItem, ClickDirect, ClickStop, ClickCancel, ClickPlayPause,
       ClickSeek, Leave
<1>4. CASE GuiStep
  <2>1. CASE \E t \in {"gui", "critical"} : StopFlag(t) \/ StopLock(t) \/ StopJoin(t)
         \/ StartTest(t) \/ StartLock(t) \/ StartCreate(t)
    BY <2>1 DEF StopFlag, StopLock, StopJoin, StartTest, StartLock, StartCreate
  <2>2. CASE Direct \/ Connect \/ StopTakesConnect \/ Stopped \/ StoreStopped \/ Cancel
          \/ CancelSource \/ StorePause \/ SdlPause \/ SeekTakesConnect \/ SeekPause
          \/ SeekReset \/ SeekResume
    BY <2>2 DEF Direct, Connect, StopTakesConnect, Stopped, StoreStopped, Cancel,
         CancelSource, StorePause, SdlPause, SeekTakesConnect, SeekPause, SeekReset,
         SeekResume
  <2>3. CASE TrackEnds \/ Advance \/ FileResolved \/ OpenFile \/ FileStarted \/ Announce
          \/ SoundClose \/ CloseAudio
    BY <2>3 DEF TrackEnds, Advance, FileResolved, OpenFile, FileStarted, Announce,
         SoundClose, CloseAudio
  <2> QED
    BY <1>4, <2>1, <2>2, <2>3 DEF GuiStep
<1>5. CASE UNCHANGED vars
  BY <1>5 DEF vars
<1> QED
  BY <1>1, <1>2, <1>3, <1>4, <1>5 DEF Next, ThreadStep

(* FileTurns hold until then.                                              *)
LEMMA FInvariance == Spec => [](TInv /\ (overtaken \/ FInv))
<1>1. Init => FInv
  BY InitIInv, InitTurns DEF FInv, TInv
<1>2. FInv /\ [Next]_vars => overtaken' \/ FInv'
  <2> SUFFICES ASSUME FInv, [Next]_vars, ~overtaken' PROVE FInv'
    OBVIOUS
  <2>1. TInv'
    BY NextTInv DEF FInv
  <2>2. FileTurns'
    BY NextAdvancingTurn, NextConnectingTurn, NextFileEndTurn, NextDrainedTurn
       DEF FileTurns
  <2> QED
    BY <2>1, <2>2 DEF FInv
<1>3. overtaken /\ [Next]_vars => overtaken'
  BY OnlyMixPromote DEF MixPromote
<1>4. FInv => TInv
  BY DEF FInv
<1> QED
  BY <1>1, <1>2, <1>3, <1>4, NextTInv, PTL DEF Spec

(* check_status is overtaken only with a file whose last chunk is the one  *)
(* that reaches min_buffers.                                               *)
THEOREM OvertakenByAFit ==
  ASSUME NoFileFits
  PROVE  Spec => []~overtaken
<1> DEFINE I == TInv /\ Unfinished /\ ~overtaken
<1>1. Init => I
  BY InitIInv, InitTurns DEF Init, TInv, Unfinished, Promoting
<1>2. I /\ [Next]_vars => I'
  <2> SUFFICES ASSUME I, [Next]_vars PROVE I'
    OBVIOUS
  <2>1. TInv' /\ Unfinished'
    BY NoFileFits, NextTInv, NextUnfinished
  <2>2. ~overtaken'
    <3>1. CASE MixPromote
      BY <3>1 DEF MixPromote, Unfinished, Promoting
    <3> QED
      BY <3>1, OnlyMixPromote
  <2> QED
    BY <2>1, <2>2
<1> QED
  BY <1>1, <1>2, PTL DEF Spec

(* While new_connection resolves and dials, nothing plays or decodes, as   *)
(* long as check_status was not overtaken.                                 *)
THEOREM QuietDial == Spec => []DialIsQuiet
<1>1. overtaken \/ FInv => DialIsQuiet
  BY DEF FInv, FileTurns, ConnectingTurn, DialIsQuiet
<1> QED
  BY <1>1, FInvariance, PTL

(* LOCALFILE_BUFFERING is only ever reported with the file as the source   *)
(* of the decoder, or with none in the two places where the GUI thread is  *)
(* about to change one of them.                                            *)
THEOREM LocalFileBuffering == Spec => []FileBufferingIsLocal
<1>1. TInv => FileBufferingIsLocal
  BY DEF TInv, Turns, FileBufferingTurn, FileBufferingIsLocal
<1> QED
  BY <1>1, TInvariance, PTL

(* When wrMain deletes the player, critical_thread and the decoder have    *)
(* ended and MixAudio is not in the middle of its promotion.               *)
THEOREM LastOut == Spec => []ExitIsLast
<1>1. TInv => ExitIsLast
  BY DEF TInv, IInv, TypeOK, PlacesOK, MixerLabels, Turns, ClosingTurn, Closing,
         Promoting, ExitIsLast
<1> QED
  BY <1>1, TInvariance, PTL

(* network_playback starts the device for the network only, so a stop that *)
(* came between it and new_connection is not undone.                       *)
THEOREM StoppedStream == Spec => StreamStaysStopped
<1>1. TInv /\ [Next]_vars =>
        [StartCreate("critical") => playback_type = "AS_NETWORK"]_vars
  BY DEF TInv, Turns, NetworkTurn, CriticalStarts, StartCreate
<1> QED
  BY <1>1, TInvariance, PTL DEF Spec, StreamStaysStopped

(* Two threads are never in sound_start or sound_stop together, as long as *)
(* check_status was not overtaken.                                         *)
THEOREM OneAtTheDevice == Spec => []DeviceAlone
<1>1. overtaken \/ FInv => DeviceAlone
  BY AloneAtDevice DEF DeviceAlone
<1> QED
  BY <1>1, FInvariance, PTL

-----------------------------------------------------------------------------
(* A skin without the play/pause button stores no status chosen before a   *)
(* request, and the state of the stream and the status agree.              *)
NoPauseButton == "playpause" \notin Controls
NeverPausing == ~Pausing
FilePromoted == Promoting => playback_type # "AS_NETWORK"

(* A stream that buffers is PLAYING only until the BUFFERING of a new      *)
(* connection is stored, and no PLAYING is stored over a buffering one.    *)
RebufferingTurn ==
  playback_type = "AS_NETWORK" =>
    /\ bufferring /\ current_ss = "PLAYING" =>
         \/ pc["critical"] = "publish" /\ ret # "REDIRECT"
         \/ pc["decoder"] = "rebuffer"
    /\ CriticalStarts \/ (pc["critical"] = "publish" /\ ret = "PLAYING") =>
         /\ ~bufferring /\ current_ss # "PLAYING"
         /\ pc["decoder"] \notin {"source", "rebuffer"}

(* A stream whose header is still awaited has not been buffered either.    *)
HeaderTurn == playback_type = "AS_NETWORK" /\ looking_for_header => bufferring

(* A stream that was redirected is received no more: from the verdict      *)
(* until icy_reset the status does not lead to network_playback.           *)
RedirectTurn ==
  /\ redirect_detected <= 1
  /\ pc["critical"] = "recv" => redirect_detected = 0
  /\ redirect_detected > 0 =>
       /\ ~CriticalStarts
       /\ pc["critical"] = "publish" => ret \notin {"BUFFERING", "PLAYING"}
       /\ playback_type = "AS_NETWORK" =>
            /\ current_ss # "PLAYING"
            /\ pc["decoder"] \notin {"source", "rebuffer"}
            /\ \/ current_ss # "BUFFERING"
               \/ pc["critical"] \in {"decide", "publish", "redirect_info",
                                      "redirect_connect"}

StreamTurns == NeverPausing /\ FilePromoted /\ RebufferingTurn /\ HeaderTurn /\ RedirectTurn

(* No button leads to click_playpause.                                     *)
LEMMA NextNeverPausing ==
  ASSUME TInv, [Next]_vars, NoPauseButton, NeverPausing
  PROVE  NeverPausing'
<1> USE DEF TInv, IInv, TypeOK, PlacesOK, Threads, status, stream, source, control, Goto,
         NoPauseButton, NeverPausing, Pausing, Stopping, DataOK
<1>1. CASE CriticalConnect \/ CriticalStream \/ CriticalExit \/ Unresolved
  BY <1>1 DEF CriticalConnect, P_connect, CriticalStream, CriticalExit,
       HasWork, Again, Unresolved, Return, KeepControl
<1>2. CASE ResolveFile \/ ResolveStream
  BY <1>2 DEF ResolveFile, ResolveStream, Return, KeepControl
<1>3. CASE Dialled \/ DialFailed
  BY <1>3 DEF Dialled, IcyReset, Return, KeepControl, DialFailed
<1>4. CASE Receive \/ TooManyErrors \/ StreamStarted
  BY <1>4 DEF Receive, NothingReceived, PeerClosed, Redirected, HeaderRefused,
       AudioReceived, SetSystemStatus, TooManyErrors, Return, KeepControl,
       StreamStarted
<1>5. CASE Decide
  BY <1>5 DEF Decide, StreamVerdict, KeepControl, Again
<1>6. CASE PublishStatus \/ PublishRedirect \/ RedirectInfo \/ RedirectConnect
  BY <1>6 DEF PublishStatus, SetSystemStatus, Again, PublishRedirect, RedirectInfo,
       RedirectConnect
<1>7. CASE StopFlag("critical") \/ StopLock("critical") \/ StopJoin("critical")
         \/ StopFlag("gui") \/ StopLock("gui") \/ StopJoin("gui")
  BY <1>7 DEF StopFlag, AfterStop, StopLock, StopJoin
<1>8. CASE DecoderCheck \/ DecoderLock
  BY <1>8 DEF DecoderCheck, DecoderLock
<1>9. CASE DecoderRead \/ DecoderReads \/ RunDry \/ Rebuffer
  BY <1>9 DEF DecoderRead, P_connect, DecoderReads, ReadNothing, ReadFile, ReadStream,
       Decoded, RunDry, Rebuffer, SetSystemStatus
<1>10. CASE MixEnter \/ MixReturn \/ MixPromotes \/ Mix
  BY <1>10 DEF MixEnter, MixReturn, MixPromotes, Mix, MayMix, Play
<1>11. CASE MixPromote
  BY <1>11 DEF MixPromote, Play, SetSystemStatus
<1>12. CASE ClickItem \/ ClickDirect \/ ClickStop \/ ClickCancel \/
         ClickPlayPause \/ ClickSeek \/ Leave
  BY <1>12 DEF ClickItem, Click, Request, RequestInfo, PlayingFile,
       ClickDirect, ClickStop, ClickCancel, ClickPlayPause, ClickSeek, Leave
<1>13. CASE Direct \/ Connect \/ StopTakesConnect \/ Stopped \/ StoreStopped \/ Cancel \/
         CancelSource \/ StorePause \/ SdlPause \/ SeekTakesConnect \/ SeekPause \/ SeekReset \/ SeekResume
  BY <1>13 DEF Direct, Request, Connect, SetSystemStatus, StopTakesConnect, P_connect, Stopped,
       StoreStopped, V_connect, Cancel, CancelSource, StorePause, SdlPause, SeekTakesConnect,
       SeekPause, SeekReset, SeekResume
<1>14. CASE TrackEnds \/ Advance \/ FileResolved \/ OpenFile \/ FileStarted \/ Announce \/ SoundClose \/ CloseAudio \/
         StartTest("gui") \/ StartLock("gui") \/ StartCreate("gui") \/
         StartTest("critical") \/ StartLock("critical") \/ StartCreate("critical")
  BY <1>14 DEF TrackEnds, PlayingFile, Advance, Request, FileResolved,
       OpenFile, StartTest, StartLock, StartCreate, FileStarted,
       Announce, SetSystemStatus, SoundClose, CloseAudio
<1>15. CASE UNCHANGED vars
  BY <1>15 DEF vars
<1> QED
  BY <1>1, <1>2, <1>3, <1>4, <1>5, <1>6, <1>7, <1>8,
     <1>9, <1>10, <1>11, <1>12, <1>13, <1>14, <1>15
     DEF Next, ThreadStep, CriticalStep, AudioStep, DecoderStep, MixerStep,
          GuiStep, UserStep

(* MixAudio promotes behind LOCALFILE_BUFFERING, and dialling waits for it.*)
LEMMA NextFilePromoted ==
  ASSUME TInv, [Next]_vars, FilePromoted
  PROVE  FilePromoted'
<1> USE DEF TInv, IInv, TypeOK, PlacesOK, Threads, status, stream, source, control, Goto,
         FilePromoted, Promoting, Turns, PromotingTurn, FileBufferingTurn
<1>1. CASE CriticalConnect \/ CriticalStream \/ CriticalExit \/ Unresolved
  BY <1>1 DEF CriticalConnect, P_connect, CriticalStream, CriticalExit,
       HasWork, Again, Unresolved, Return, KeepControl
<1>2. CASE ResolveFile \/ ResolveStream
  BY <1>2 DEF ResolveFile, ResolveStream, Return, KeepControl
<1>3. CASE Dialled \/ DialFailed
  BY <1>3 DEF Dialled, IcyReset, Return, KeepControl, DialFailed
<1>4. CASE Receive \/ TooManyErrors \/ StreamStarted
  BY <1>4 DEF Receive, NothingReceived, PeerClosed, Redirected, HeaderRefused,
       AudioReceived, SetSystemStatus, TooManyErrors, Return, KeepControl,
       StreamStarted
<1>5. CASE Decide
  BY <1>5 DEF Decide, StreamVerdict, KeepControl, Again
<1>6. CASE PublishStatus \/ PublishRedirect \/ RedirectInfo \/ RedirectConnect
  BY <1>6 DEF PublishStatus, SetSystemStatus, Again, PublishRedirect, RedirectInfo,
       RedirectConnect
<1>7. CASE StopFlag("critical") \/ StopLock("critical") \/ StopJoin("critical")
         \/ StopFlag("gui") \/ StopLock("gui") \/ StopJoin("gui")
  BY <1>7 DEF StopFlag, AfterStop, StopLock, StopJoin
<1>8. CASE DecoderCheck \/ DecoderLock
  BY <1>8 DEF DecoderCheck, DecoderLock
<1>9. CASE DecoderRead \/ DecoderReads \/ RunDry \/ Rebuffer
  BY <1>9 DEF DecoderRead, P_connect, DecoderReads, ReadNothing, ReadFile, ReadStream,
       Decoded, RunDry, Rebuffer, SetSystemStatus
<1>10. CASE MixEnter \/ MixReturn \/ MixPromotes \/ Mix
  BY <1>10 DEF MixEnter, MixReturn, MixPromotes, Mix, MayMix, Play
<1>11. CASE MixPromote
  BY <1>11 DEF MixPromote, Play, SetSystemStatus
<1>12. CASE ClickItem \/ ClickDirect \/ ClickStop \/ ClickCancel \/
         ClickPlayPause \/ ClickSeek \/ Leave
  BY <1>12 DEF ClickItem, Click, Request, RequestInfo, PlayingFile,
       ClickDirect, ClickStop, ClickCancel, ClickPlayPause, ClickSeek, Leave
<1>13. CASE Direct \/ Connect \/ StopTakesConnect \/ Stopped \/ StoreStopped \/ Cancel \/
         CancelSource \/ StorePause \/ SdlPause \/ SeekTakesConnect \/ SeekPause \/ SeekReset \/ SeekResume
  BY <1>13 DEF Direct, Request, Connect, SetSystemStatus, StopTakesConnect, P_connect, Stopped,
       StoreStopped, V_connect, Cancel, CancelSource, StorePause, SdlPause, SeekTakesConnect,
       SeekPause, SeekReset, SeekResume
<1>14. CASE TrackEnds \/ Advance \/ FileResolved \/ OpenFile \/ FileStarted \/ Announce \/ SoundClose \/ CloseAudio \/
         StartTest("gui") \/ StartLock("gui") \/ StartCreate("gui") \/
         StartTest("critical") \/ StartLock("critical") \/ StartCreate("critical")
  BY <1>14 DEF TrackEnds, PlayingFile, Advance, Request, FileResolved,
       OpenFile, StartTest, StartLock, StartCreate, FileStarted,
       Announce, SetSystemStatus, SoundClose, CloseAudio
<1>15. CASE UNCHANGED vars
  BY <1>15 DEF vars
<1> QED
  BY <1>1, <1>2, <1>3, <1>4, <1>5, <1>6, <1>7, <1>8,
     <1>9, <1>10, <1>11, <1>12, <1>13, <1>14, <1>15
     DEF Next, ThreadStep, CriticalStep, AudioStep, DecoderStep, MixerStep,
          GuiStep, UserStep

(* icy_reset sets both flags, and the header is complete before the first  *)
(* audio is buffered.                                                      *)
LEMMA NextHeaderTurn ==
  ASSUME TInv, [Next]_vars, HeaderTurn
  PROVE  HeaderTurn'
<1> USE DEF TInv, IInv, TypeOK, PlacesOK, Threads, status, stream, source, control, Goto,
         HeaderTurn
<1>1. CASE CriticalConnect \/ CriticalStream \/ CriticalExit \/ Unresolved
  BY <1>1 DEF CriticalConnect, P_connect, CriticalStream, CriticalExit,
       HasWork, Again, Unresolved, Return, KeepControl
<1>2. CASE ResolveFile \/ ResolveStream
  BY <1>2 DEF ResolveFile, ResolveStream, Return, KeepControl
<1>3. CASE Dialled \/ DialFailed
  BY <1>3 DEF Dialled, IcyReset, Return, KeepControl, DialFailed
<1>4. CASE Receive \/ TooManyErrors \/ StreamStarted
  BY <1>4 DEF Receive, NothingReceived, PeerClosed, Redirected, HeaderRefused,
       AudioReceived, SetSystemStatus, TooManyErrors, Return, KeepControl,
       StreamStarted
<1>5. CASE Decide
  BY <1>5 DEF Decide, StreamVerdict, KeepControl, Again
<1>6. CASE PublishStatus \/ PublishRedirect \/ RedirectInfo \/ RedirectConnect
  BY <1>6 DEF PublishStatus, SetSystemStatus, Again, PublishRedirect, RedirectInfo,
       RedirectConnect
<1>7. CASE StopFlag("critical") \/ StopLock("critical") \/ StopJoin("critical")
         \/ StopFlag("gui") \/ StopLock("gui") \/ StopJoin("gui")
  BY <1>7 DEF StopFlag, AfterStop, StopLock, StopJoin
<1>8. CASE DecoderCheck \/ DecoderLock
  BY <1>8 DEF DecoderCheck, DecoderLock
<1>9. CASE DecoderRead \/ DecoderReads \/ RunDry \/ Rebuffer
  BY <1>9 DEF DecoderRead, P_connect, DecoderReads, ReadNothing, ReadFile, ReadStream,
       Decoded, RunDry, Rebuffer, SetSystemStatus
<1>10. CASE MixEnter \/ MixReturn \/ MixPromotes \/ Mix
  BY <1>10 DEF MixEnter, MixReturn, MixPromotes, Mix, MayMix, Play
<1>11. CASE MixPromote
  BY <1>11 DEF MixPromote, Play, SetSystemStatus
<1>12. CASE ClickItem \/ ClickDirect \/ ClickStop \/ ClickCancel \/
         ClickPlayPause \/ ClickSeek \/ Leave
  BY <1>12 DEF ClickItem, Click, Request, RequestInfo, PlayingFile,
       ClickDirect, ClickStop, ClickCancel, ClickPlayPause, ClickSeek, Leave
<1>13. CASE Direct \/ Connect \/ StopTakesConnect \/ Stopped \/ StoreStopped \/ Cancel \/
         CancelSource \/ StorePause \/ SdlPause \/ SeekTakesConnect \/ SeekPause \/ SeekReset \/ SeekResume
  BY <1>13 DEF Direct, Request, Connect, SetSystemStatus, StopTakesConnect, P_connect, Stopped,
       StoreStopped, V_connect, Cancel, CancelSource, StorePause, SdlPause, SeekTakesConnect,
       SeekPause, SeekReset, SeekResume
<1>14. CASE TrackEnds \/ Advance \/ FileResolved \/ OpenFile \/ FileStarted \/ Announce \/ SoundClose \/ CloseAudio \/
         StartTest("gui") \/ StartLock("gui") \/ StartCreate("gui") \/
         StartTest("critical") \/ StartLock("critical") \/ StartCreate("critical")
  BY <1>14 DEF TrackEnds, PlayingFile, Advance, Request, FileResolved,
       OpenFile, StartTest, StartLock, StartCreate, FileStarted,
       Announce, SetSystemStatus, SoundClose, CloseAudio
<1>15. CASE UNCHANGED vars
  BY <1>15 DEF vars
<1> QED
  BY <1>1, <1>2, <1>3, <1>4, <1>5, <1>6, <1>7, <1>8,
     <1>9, <1>10, <1>11, <1>12, <1>13, <1>14, <1>15
     DEF Next, ThreadStep, CriticalStep, AudioStep, DecoderStep, MixerStep,
          GuiStep, UserStep

(* Only a verdict stores PLAYING for a stream, and it has seen enough data.*)
LEMMA NextRebufferingTurn ==
  ASSUME TInv, [Next]_vars, NeverPausing, FilePromoted, RebufferingTurn
  PROVE  RebufferingTurn'
<1> USE DEF TInv, IInv, TypeOK, PlacesOK, Threads, status, stream, source, control, Goto,
         NeverPausing, Pausing, FilePromoted, Promoting, RebufferingTurn,
         CriticalStarts, MutexOwners, CriticalInConnect, Free,
         Turns, FileBufferingTurn, NetworkTurn
<1>1. CASE CriticalConnect \/ CriticalStream \/ CriticalExit \/ Unresolved
  BY <1>1 DEF CriticalConnect, P_connect, CriticalStream, CriticalExit,
       HasWork, Again, Unresolved, Return, KeepControl
<1>2. CASE ResolveFile \/ ResolveStream
  BY <1>2 DEF ResolveFile, ResolveStream, Return, KeepControl
<1>3. CASE Dialled \/ DialFailed
  BY <1>3 DEF Dialled, IcyReset, Return, KeepControl, DialFailed
<1>4. CASE Receive \/ TooManyErrors \/ StreamStarted
  BY <1>4 DEF Receive, NothingReceived, PeerClosed, Redirected, HeaderRefused,
       AudioReceived, SetSystemStatus, TooManyErrors, Return, KeepControl,
       StreamStarted
<1>5. CASE Decide
  BY <1>5 DEF Decide, StreamVerdict, KeepControl, Again
<1>6. CASE PublishStatus \/ PublishRedirect \/ RedirectInfo \/ RedirectConnect
  BY <1>6 DEF PublishStatus, SetSystemStatus, Again, PublishRedirect, RedirectInfo,
       RedirectConnect
<1>7. CASE StopFlag("critical") \/ StopLock("critical") \/ StopJoin("critical")
         \/ StopFlag("gui") \/ StopLock("gui") \/ StopJoin("gui")
  BY <1>7 DEF StopFlag, AfterStop, StopLock, StopJoin
<1>8. CASE DecoderCheck \/ DecoderLock
  BY <1>8 DEF DecoderCheck, DecoderLock
<1>9. CASE DecoderRead \/ DecoderReads \/ RunDry \/ Rebuffer
  BY <1>9 DEF DecoderRead, P_connect, DecoderReads, ReadNothing, ReadFile, ReadStream,
       Decoded, RunDry, Rebuffer, SetSystemStatus
<1>10. CASE MixEnter \/ MixReturn \/ MixPromotes \/ Mix
  BY <1>10 DEF MixEnter, MixReturn, MixPromotes, Mix, MayMix, Play
<1>11. CASE MixPromote
  BY <1>11 DEF MixPromote, Play, SetSystemStatus
<1>12. CASE ClickItem \/ ClickDirect \/ ClickStop \/ ClickCancel \/
         ClickPlayPause \/ ClickSeek \/ Leave
  BY <1>12 DEF ClickItem, Click, Request, RequestInfo, PlayingFile,
       ClickDirect, ClickStop, ClickCancel, ClickPlayPause, ClickSeek, Leave
<1>13. CASE Direct \/ Connect \/ StopTakesConnect \/ Stopped \/ StoreStopped \/ Cancel \/
         CancelSource \/ StorePause \/ SdlPause \/ SeekTakesConnect \/ SeekPause \/ SeekReset \/ SeekResume
  BY <1>13 DEF Direct, Request, Connect, SetSystemStatus, StopTakesConnect, P_connect, Stopped,
       StoreStopped, V_connect, Cancel, CancelSource, StorePause, SdlPause, SeekTakesConnect,
       SeekPause, SeekReset, SeekResume
<1>14. CASE TrackEnds \/ Advance \/ FileResolved \/ OpenFile \/ FileStarted \/ Announce \/ SoundClose \/ CloseAudio \/
         StartTest("gui") \/ StartLock("gui") \/ StartCreate("gui") \/
         StartTest("critical") \/ StartLock("critical") \/ StartCreate("critical")
  BY <1>14 DEF TrackEnds, PlayingFile, Advance, Request, FileResolved,
       OpenFile, StartTest, StartLock, StartCreate, FileStarted,
       Announce, SetSystemStatus, SoundClose, CloseAudio
<1>15. CASE UNCHANGED vars
  BY <1>15 DEF vars
<1> QED
  BY <1>1, <1>2, <1>3, <1>4, <1>5, <1>6, <1>7, <1>8,
     <1>9, <1>10, <1>11, <1>12, <1>13, <1>14, <1>15
     DEF Next, ThreadStep, CriticalStep, AudioStep, DecoderStep, MixerStep,
          GuiStep, UserStep

(* The verdict on a redirect is stored before anything else is received.   *)
LEMMA NextRedirectTurn ==
  ASSUME TInv, [Next]_vars, NeverPausing, FilePromoted, RebufferingTurn, HeaderTurn,
         RedirectTurn
  PROVE  RedirectTurn'
<1> USE DEF TInv, IInv, TypeOK, PlacesOK, Threads, status, stream, source, control, Goto,
         NeverPausing, Pausing, FilePromoted, Promoting, RedirectTurn, CriticalStarts, DataOK,
         Turns, FileBufferingTurn, NetworkTurn
<1>1. CASE CriticalConnect \/ CriticalStream \/ CriticalExit \/ Unresolved
  BY <1>1 DEF CriticalConnect, P_connect, CriticalStream, CriticalExit,
       HasWork, Again, Unresolved, Return, KeepControl
<1>2. CASE ResolveFile \/ ResolveStream
  BY <1>2 DEF ResolveFile, ResolveStream, Return, KeepControl
<1>3. CASE Dialled \/ DialFailed
  BY <1>3 DEF Dialled, IcyReset, Return, KeepControl, DialFailed
<1>4. CASE Receive \/ TooManyErrors
  <2>1. pc["critical"] = "recv" /\ redirect_detected = 0
    BY <1>4 DEF Receive, TooManyErrors
  <2>2. CASE Receive
    <3>1. pc'["critical"] = "decide"
      BY <2>2 DEF Receive
    <3>2. redirect_detected' = redirect_detected \/ redirect_detected' = redirect_detected + 1
      BY <2>2 DEF Receive, NothingReceived, PeerClosed, Redirected, HeaderRefused,
                  AudioReceived
    <3>3. redirect_detected' = 0 \/ redirect_detected' = 1
      BY <2>1, <3>2
    <3>4. redirect_detected' # 0 => Redirected
      BY <2>1, <2>2 DEF Receive, NothingReceived, PeerClosed, HeaderRefused, AudioReceived
    <3>5. playback_type' = playback_type /\ pc'["decoder"] = pc["decoder"]
          /\ pc["decoder"] \notin {"source", "rebuffer"}
      BY <2>1, <2>2 DEF Receive, MutexOwners, CriticalInConnect, Free
    <3>6. playback_type = "AS_NETWORK" /\ Redirected =>
            current_ss # "PLAYING" /\ current_ss' = current_ss
      BY <2>1, <3>5 DEF Redirected, HeaderTurn, RebufferingTurn
    <3> QED
      BY <3>1, <3>3, <3>4, <3>5, <3>6
  <2>3. CASE TooManyErrors
    BY <2>1, <2>3 DEF TooManyErrors, Return, KeepControl
  <2> QED
    BY <1>4, <2>2, <2>3
<1>5. CASE Decide \/ StreamStarted
  BY <1>5 DEF StreamStarted, Decide, StreamVerdict, KeepControl, Again
<1>6. CASE PublishStatus \/ PublishRedirect \/ RedirectInfo \/ RedirectConnect
  BY <1>6 DEF PublishStatus, SetSystemStatus, Again, PublishRedirect, RedirectInfo,
       RedirectConnect
<1>7. CASE StopFlag("critical") \/ StopLock("critical") \/ StopJoin("critical")
         \/ StopFlag("gui") \/ StopLock("gui") \/ StopJoin("gui")
  BY <1>7 DEF StopFlag, AfterStop, StopLock, StopJoin
<1>8. CASE DecoderCheck \/ DecoderLock
  BY <1>8 DEF DecoderCheck, DecoderLock
<1>9. CASE DecoderRead \/ DecoderReads \/ RunDry \/ Rebuffer
  BY <1>9 DEF DecoderRead, P_connect, DecoderReads, ReadNothing, ReadFile, ReadStream,
       Decoded, RunDry, Rebuffer, SetSystemStatus
<1>10. CASE MixEnter \/ MixReturn \/ MixPromotes \/ Mix
  BY <1>10 DEF MixEnter, MixReturn, MixPromotes, Mix, MayMix, Play
<1>11. CASE MixPromote
  BY <1>11 DEF MixPromote, Play, SetSystemStatus
<1>12. CASE ClickItem \/ ClickDirect \/ ClickStop \/ ClickCancel \/
         ClickPlayPause \/ ClickSeek \/ Leave
  BY <1>12 DEF ClickItem, Click, Request, RequestInfo, PlayingFile,
       ClickDirect, ClickStop, ClickCancel, ClickPlayPause, ClickSeek, Leave
<1>13. CASE Direct \/ Connect \/ StopTakesConnect \/ Stopped \/ StoreStopped \/ Cancel \/
         CancelSource \/ StorePause \/ SdlPause \/ SeekTakesConnect \/ SeekPause \/ SeekReset \/ SeekResume
  BY <1>13 DEF Direct, Request, Connect, SetSystemStatus, StopTakesConnect, P_connect, Stopped,
       StoreStopped, V_connect, Cancel, CancelSource, StorePause, SdlPause, SeekTakesConnect,
       SeekPause, SeekReset, SeekResume
<1>14. CASE TrackEnds \/ Advance \/ FileResolved \/ OpenFile \/ FileStarted \/ Announce \/ SoundClose \/ CloseAudio \/
         StartTest("gui") \/ StartLock("gui") \/ StartCreate("gui") \/
         StartTest("critical") \/ StartLock("critical") \/ StartCreate("critical")
  BY <1>14 DEF TrackEnds, PlayingFile, Advance, Request, FileResolved,
       OpenFile, StartTest, StartLock, StartCreate, FileStarted,
       Announce, SetSystemStatus, SoundClose, CloseAudio
<1>15. CASE UNCHANGED vars
  BY <1>15 DEF vars
<1> QED
  BY <1>1, <1>2, <1>3, <1>4, <1>5, <1>6, <1>7, <1>8,
     <1>9, <1>10, <1>11, <1>12, <1>13, <1>14, <1>15
     DEF Next, ThreadStep, CriticalStep, AudioStep, DecoderStep, MixerStep,
          GuiStep, UserStep

(* The stream and the status agree in every reachable state.               *)
LEMMA StreamInvariance ==
  ASSUME NoPauseButton
  PROVE  Spec => []StreamTurns
<1>1. Init => StreamTurns
  BY DEF Init, StreamTurns, NeverPausing, Pausing, FilePromoted, Promoting,
         RebufferingTurn, HeaderTurn, RedirectTurn
<1>2. TInv /\ StreamTurns /\ [Next]_vars => StreamTurns'
  BY NoPauseButton, NextNeverPausing, NextFilePromoted, NextRebufferingTurn,
     NextHeaderTurn, NextRedirectTurn DEF StreamTurns
<1> QED
  BY <1>1, <1>2, TInvariance, PTL DEF Spec

(* A stream that ran dry is not PLAYING between two iterations of          *)
(* critical_thread once the decoder has reported it, unless a play/pause   *)
(* button stores an old status.                                            *)
THEOREM Rebuffers ==
  ASSUME NoPauseButton
  PROVE  Spec => []RebufferingIsShown
<1>1. StreamTurns => RebufferingIsShown
  BY DEF StreamTurns, RebufferingTurn, RebufferingIsShown
<1> QED
  BY <1>1, StreamInvariance, NoPauseButton, PTL

(* network_playback reports a redirect before it can see a second one.     *)
THEOREM OneRedirect ==
  ASSUME NoPauseButton
  PROVE  Spec => []RedirectOnce
<1>1. StreamTurns => RedirectOnce
  BY DEF StreamTurns, RedirectTurn, RedirectOnce
<1> QED
  BY <1>1, StreamInvariance, NoPauseButton, PTL

-----------------------------------------------------------------------------
(* The player implements SoundDevice.                                      *)
SoundStep == [Sound!Next]_<<Phase, Input, stock>>

(* Where the threads are decides what the device is doing.                 *)
LEMMA PhaseIs ==
  ASSUME FInv
  PROVE  /\ BetweenFlagAndJoin("gui") \/ BetweenFlagAndJoin("critical") =>
              ~dev_playing /\ Phase = "stopping"
         /\ dev_playing => Phase \in {"sounding", "mute"}
         /\ pc["decoder"] # "none" => Phase \in {"sounding", "stopping"}
         /\ Promoting => Phase # "silent"
         /\ Phase = "silent" => Quiet
<1>1. BetweenFlagAndJoin("gui") => ~dev_playing
  BY DEF FInv, TInv, Turns, FileTurns, StoppingTurn, AdvancingTurn, Advancing, Stopping,
         BetweenFlagAndJoin
<1>2. BetweenFlagAndJoin("critical") => ~dev_playing
  BY DEF FInv, FileTurns, ConnectingTurn
<1>3. Promoting => dev_playing \/ BetweenFlagAndJoin("gui") \/ BetweenFlagAndJoin("critical")
  BY DEF FInv, TInv, Turns, PromotingTurn, BetweenFlagAndJoin
<1> QED
  BY <1>1, <1>2, <1>3 DEF Phase, Quiet

(* While critical_thread works, check_status neither stops the device nor  *)
(* has it just started a file.                                             *)
LEMMA GuiKeepsOff ==
  ASSUME FInv, OutOfLoop
  PROVE  /\ pc["gui"] \notin {"started", "announce"}
         /\ connect_mutex = "critical" => ~BetweenFlagAndJoin("gui")
<1>1. pc["gui"] \notin {"started", "announce"}
  BY DEF FInv, TInv, Turns, OpeningTurn, Opening, AtStart, AnnouncingTurn
<1>2. ASSUME BetweenFlagAndJoin("gui"), connect_mutex = "critical" PROVE FALSE
  <2>1. gui_next # "stopped"
    BY <1>2 DEF FInv, TInv, IInv, MutexOwners, GuiInConnect, Stopping, BetweenFlagAndJoin
  <2>2. gui_next # "advance"
    BY <1>2 DEF FInv, FileTurns, AdvancingTurn, Advancing, Stopping, BetweenFlagAndJoin
  <2>3. gui_next # "open"
    BY <1>2 DEF FInv, TInv, Turns, OpeningTurn, Opening, AtStart, Stopping, BetweenFlagAndJoin
  <2>4. gui_next # "close"
    BY <1>2 DEF FInv, TInv, Turns, ClosingTurn, Closing, Stopping, BetweenFlagAndJoin,
                OutOfLoop
  <2> QED
    BY <2>1, <2>2, <2>3, <2>4 DEF FInv, TInv, IInv, TypeOK, DataOK
<1> QED
  BY <1>1, <1>2

(* Steps that are none of the device.                                      *)
LEMMA SameSound ==
  ASSUME /\ UNCHANGED <<dev_playing, playback_type, stock>>
         /\ (pc["decoder"] = "none")' <=> pc["decoder"] = "none"
         /\ BetweenFlagAndJoin("gui")' <=> BetweenFlagAndJoin("gui")
         /\ BetweenFlagAndJoin("critical")' <=> BetweenFlagAndJoin("critical")
         /\ (pc["gui"] = "started")' <=> pc["gui"] = "started"
         /\ (pc["gui"] = "announce")' <=> pc["gui"] = "announce"
  PROVE  SoundStep
BY DEF SoundStep, Phase, Input

(* sound_stop, whoever calls it.                                           *)
LEMMA StopSound ==
  ASSUME FInv, NEW t \in {"gui", "critical"}, StopFlag(t) \/ StopLock(t) \/ StopJoin(t)
  PROVE  SoundStep
<1> USE DEF FInv, TInv, IInv, TypeOK, PlacesOK, Threads, Goto
<1>1. /\ AfterStop(t) \notin {"stop_lock", "stop_join", "started", "announce"}
      /\ \A u \in Threads : u # t => pc'[u] = pc[u]
      /\ playback_type' = playback_type
      /\ pc[t] \notin {"started", "announce"} /\ pc'[t] \notin {"started", "announce"}
  BY DEF AfterStop, StopFlag, StopLock, StopJoin, source, DataOK
<1>2. /\ (pc["gui"] = "started")' <=> pc["gui"] = "started"
      /\ (pc["gui"] = "announce")' <=> pc["gui"] = "announce"
  BY <1>1
<1>3. CASE StopFlag(t) /\ dev_playing
  <2>1. ~dev_playing' /\ stock' = stock /\ pc'[t] = "stop_lock"
    BY <1>3 DEF StopFlag
  <2>2. Phase \in {"sounding", "mute"}
    BY <1>3, PhaseIs
  <2>3. Phase' = "stopping"
    BY <2>1 DEF Phase, BetweenFlagAndJoin
  <2>4. Input' = Input
    BY <1>1, <1>2, <2>2, <2>3 DEF Input
  <2> QED
    BY <2>1, <2>2, <2>3, <2>4 DEF SoundStep, Sound!Next, Sound!Stop
<1>4. CASE StopFlag(t) /\ ~dev_playing
  <2>1. pc[t] = "stop_flag" /\ pc'[t] = AfterStop(t)
    BY <1>4 DEF StopFlag
  <2>2. stock' = stock /\ dev_playing' = dev_playing
    BY <1>4 DEF StopFlag, FlagsOK
  <2>3. ~BetweenFlagAndJoin(t) /\ ~BetweenFlagAndJoin(t)'
    BY <1>1, <2>1 DEF BetweenFlagAndJoin
  <2> QED
    BY <1>1, <1>2, <2>2, <2>3, SameSound DEF BetweenFlagAndJoin
<1>5. CASE StopLock(t)
  <2>1. stock' = 0 /\ dev_playing' = dev_playing /\ BetweenFlagAndJoin(t)
        /\ BetweenFlagAndJoin(t)'
    BY <1>5 DEF StopLock, BetweenFlagAndJoin
  <2>2. Phase' = Phase /\ Input' = Input
    BY <1>1, <1>2, <2>1 DEF Phase, Input, BetweenFlagAndJoin
  <2> QED
    BY <2>1, <2>2 DEF SoundStep, Sound!Next, Sound!Discard
<1>6. CASE StopJoin(t)
  <2>1. /\ UNCHANGED <<dev_playing, stock>> /\ BetweenFlagAndJoin(t)
        /\ ~BetweenFlagAndJoin(t)'
    BY <1>1, <1>6 DEF StopJoin, device, BetweenFlagAndJoin
  <2>2. ~dev_playing /\ Phase = "stopping"
    BY <2>1, PhaseIs
  <2>3. CASE Phase' = "stopping"
    BY <1>1, <1>2, <2>1, <2>2, <2>3 DEF SoundStep, Input
  <2>4. CASE Phase' = "silent"
    BY <2>1, <2>2, <2>4 DEF SoundStep, Input, Sound!Next, Sound!Joined
  <2> QED
    BY <2>1, <2>2, <2>3, <2>4 DEF Phase
<1> QED
  BY <1>3, <1>4, <1>5, <1>6

(* sound_start, whoever calls it: it finds the device silent.              *)
LEMMA StartSound ==
  ASSUME FInv, NEW t \in {"gui", "critical"}, StartTest(t) \/ StartLock(t) \/ StartCreate(t)
  PROVE  SoundStep
<1> USE DEF FInv, TInv, IInv, TypeOK, PlacesOK, Threads, Goto, BetweenFlagAndJoin
<1>1. CASE StartTest(t)
  <2>1. /\ UNCHANGED <<dev_playing, playback_type, stock>>
        /\ \A u \in Threads : u # t => pc'[u] = pc[u]
        /\ pc[t] = "start" /\ pc'[t] = IF dev_playing THEN "started" ELSE "start_lock"
    BY <1>1 DEF StartTest, source, device
  <2>2. t = "gui" => ~dev_playing
    BY <2>1 DEF Turns, OpeningTurn, Quiet
  <2> QED
    BY <2>1, <2>2, SameSound
<1>2. CASE StartLock(t)
  <2>1. /\ UNCHANGED <<dev_playing, playback_type>> /\ stock' = 0
        /\ \A u \in Threads : u # t => pc'[u] = pc[u]
        /\ pc[t] = "start_lock" /\ pc'[t] = "start_create"
    BY <1>2 DEF StartLock, source
  <2>2. Phase' = Phase /\ Input' = Input
    BY <2>1 DEF Phase, Input
  <2> QED
    BY <2>1, <2>2 DEF SoundStep, Sound!Next, Sound!Discard
<1>3. CASE StartCreate(t)
  <2>1. /\ pc[t] = "start_create" /\ pc'[t] = "started"
        /\ UNCHANGED <<playback_type, stock>> /\ dev_playing'
        /\ \A u \in {"gui", "critical"} : u # t => pc'[u] = pc[u]
    BY <1>3 DEF StartCreate, source
  <2>2. Quiet /\ stock = 0
    BY <2>1 DEF Turns, FileTurns, OpeningTurn, ConnectingTurn
  <2>3. CASE t = "gui"
    <3>1. ~OutOfLoop
      BY <2>1, <2>3 DEF Turns, OpeningTurn, Opening, AtStart
    <3>2. Phase = "silent"
      BY <2>1, <2>2, <2>3, <3>1 DEF Phase, Quiet, OutOfLoop
    <3>3. Phase' \in {"sounding", "mute"} /\ Input' = "unset"
      BY <2>1, <2>3 DEF Phase, Input
    <3> QED
      BY <2>1, <2>2, <3>2, <3>3 DEF SoundStep, Sound!Next, Sound!Start
  <2>4. CASE t = "critical"
    <3>1. connect_mutex = "critical" /\ OutOfLoop /\ playback_type = "AS_NETWORK"
      BY <2>1, <2>4 DEF MutexOwners, CriticalInConnect, OutOfLoop, Turns, NetworkTurn,
                        CriticalStarts
    <3>2. pc["gui"] \notin {"started", "announce"} /\ Phase = "silent"
      BY <2>1, <2>2, <2>4, <3>1, GuiKeepsOff DEF Phase, Quiet
    <3>3. Phase' \in {"sounding", "mute"} /\ Input' = "AS_NETWORK"
      BY <2>1, <2>4, <3>1, <3>2 DEF Phase, Input
    <3> QED
      BY <2>1, <2>2, <3>2, <3>3 DEF SoundStep, Sound!Next, Sound!Start
  <2> QED
    BY <2>3, <2>4
<1> QED
  BY <1>1, <1>2, <1>3

LEMMA CriticalSound ==
  ASSUME FInv, CriticalStep
  PROVE  SoundStep
<1> USE DEF FInv, TInv, IInv, TypeOK, PlacesOK, Threads, Goto, BetweenFlagAndJoin
<1>1. CASE CriticalConnect \/ CriticalStream \/ CriticalExit \/ Unresolved
  BY <1>1, SameSound DEF CriticalConnect, P_connect, CriticalStream, CriticalExit,
       HasWork, Again, Unresolved, Return, KeepControl, source, device
<1>2. CASE \/ DialFailed \/ Receive \/ TooManyErrors \/ PublishStatus \/ PublishRedirect
         \/ RedirectInfo \/ RedirectConnect
  BY <1>2, SameSound DEF DialFailed, Return, KeepControl, Receive, TooManyErrors,
       PublishStatus, PublishRedirect, RedirectInfo, RedirectConnect, Again, source, device
<1>3. CASE ResolveFile \/ ResolveStream \/ Dialled
  <2>1. /\ pc["critical"] \in {"resolve", "dial"} /\ ~BetweenFlagAndJoin("critical")'
        /\ UNCHANGED <<dev_playing, stock>>
        /\ pc'["decoder"] = pc["decoder"] /\ pc'["gui"] = pc["gui"]
    BY <1>3 DEF ResolveFile, ResolveStream, Dialled, device
  <2>2. Quiet /\ connect_mutex = "critical" /\ OutOfLoop
    BY <2>1 DEF FileTurns, ConnectingTurn, MutexOwners, CriticalInConnect, OutOfLoop
  <2>3. ~BetweenFlagAndJoin("gui") /\ ~BetweenFlagAndJoin("critical")
    BY <2>1, <2>2, GuiKeepsOff
  <2>4. Phase = "silent" /\ Phase' = "silent"
    BY <2>1, <2>2, <2>3 DEF Phase, Quiet
  <2> QED
    BY <2>1, <2>4 DEF SoundStep, Input
<1>4. CASE Decide \/ StreamStarted
  BY <1>4, SameSound DEF Decide, StreamStarted, Again, KeepControl, source, device
<1> QED
  BY <1>1, <1>2, <1>3, <1>4, StopSound, StartSound DEF CriticalStep

LEMMA AudioSound ==
  ASSUME FInv, AudioStep
  PROVE  SoundStep
<1> USE DEF FInv, TInv, IInv, TypeOK, PlacesOK, Threads, Goto, BetweenFlagAndJoin
<1>1. CASE \/ DecoderLock \/ DecoderRead \/ RunDry \/ Rebuffer
         \/ MixEnter \/ MixReturn \/ MixPromotes
  BY <1>1, SameSound DEF DecoderLock, DecoderRead, RunDry, Rebuffer, MixEnter, MixReturn, MixPromotes, MayMix, source,
       device
<1>2. CASE DecoderCheck
  <2>1. /\ pc["decoder"] = "check" /\ UNCHANGED <<dev_playing, stock, playback_type>>
        /\ pc'["gui"] = pc["gui"] /\ pc'["critical"] = pc["critical"]
        /\ pc'["decoder"] \in {"none", "lock"}
    BY <1>2 DEF DecoderCheck, device, source
  <2>2. CASE pc'["decoder"] = "lock" \/ ~dev_playing
    <3>1. Phase' = Phase /\ Input' = Input
      BY <2>1, <2>2 DEF Phase, Input, DecoderIsOwned
    <3> QED
      BY <2>1, <3>1 DEF SoundStep
  <2>3. CASE pc'["decoder"] = "none" /\ dev_playing
    <3>1. Phase = "sounding" /\ Phase' = "mute" /\ Input' = Input
      BY <2>1, <2>3 DEF Phase, Input
    <3> QED
      BY <2>1, <3>1 DEF SoundStep, Sound!Next, Sound!DecoderEnds
  <2> QED
    BY <2>1, <2>2, <2>3
<1>3. CASE DecoderReads
  <2>1. /\ pc["decoder"] = "source" /\ pc'["decoder"] = "check"
        /\ pc'["gui"] = pc["gui"] /\ pc'["critical"] = pc["critical"]
        /\ UNCHANGED source
    BY <1>3 DEF DecoderReads
  <2>2. CASE UNCHANGED device
    BY <2>1, <2>2, SameSound DEF device, source
  <2>3. CASE Decoded /\ playback_type \in {"AS_LOCAL", "AS_NETWORK"}
    <3>1. Phase \in {"sounding", "stopping"}
      BY <2>1, PhaseIs
    <3>2. pc["gui"] # "started" /\ (pc["gui"] = "announce" => playback_type = "AS_LOCAL")
      BY <2>1, <2>3 DEF Turns, OpeningTurn, AnnouncingTurn
    <3>3. Phase' = Phase /\ Input = playback_type /\ Input' = playback_type
      BY <2>1, <2>3, <3>1, <3>2 DEF Phase, Input, Decoded, source
    <3>4. stock' = stock + 1 /\ stock < MinBuffers
      BY <2>1, <2>3 DEF Decoded, RoomForChunk
    <3> QED
      BY <2>3, <3>1, <3>3, <3>4 DEF SoundStep, Sound!Next, Sound!Decode
  <2> QED
    BY <1>3, <2>2, <2>3 DEF DecoderReads, ReadNothing, ReadFile, ReadStream
<1>4. CASE MixPromote \/ Mix
  <2>1. /\ Play /\ UNCHANGED <<playback_type, dev_playing>>
        /\ \A u \in {"gui", "critical", "decoder"} : pc'[u] = pc[u]
        /\ Promoting \/ primed
    BY <1>4 DEF MixPromote, Mix, MayMix, Play, source, Promoting
  <2>2. primed => Phase # "silent"
    BY DEF Phase, FileTurns, DrainedTurn, Drained
  <2>3. Phase # "silent" /\ Phase' = Phase /\ Input' = Input
    BY <2>1, <2>2, PhaseIs DEF Phase, Input
  <2>4. stock \in Nat /\ stock' = IF stock > 0 THEN stock - 1 ELSE 0
    BY <2>1, MinBuffersAssumption DEF Play, DataOK
  <2> QED
    BY <2>3, <2>4 DEF SoundStep, Sound!Next, Sound!Play
<1> QED
  BY <1>1, <1>2, <1>3, <1>4 DEF AudioStep, DecoderStep, MixerStep

LEMMA GuiSound ==
  ASSUME FInv, GuiStep \/ UserStep
  PROVE  SoundStep
<1> USE DEF FInv, TInv, IInv, TypeOK, PlacesOK, Threads, Goto, BetweenFlagAndJoin
<1>1. CASE UserStep
  BY <1>1, SameSound DEF UserStep, ClickItem, Click, Request, RequestInfo, PlayingFile,
       ClickDirect, ClickStop, ClickCancel, ClickPlayPause, ClickSeek, Leave, device, source
<1>2. CASE Direct \/ Connect \/ StopTakesConnect \/ StorePause \/ SdlPause
  BY <1>2, SameSound DEF Direct, Request, Connect, StopTakesConnect, StorePause, SdlPause,
       device, source
<1>3. CASE SeekTakesConnect \/ SeekPause \/ SeekResume
  BY <1>3, SameSound DEF SeekTakesConnect, SeekPause, SeekResume, device, source
<1>4. CASE TrackEnds \/ Advance \/ FileResolved \/ OpenFile \/ SoundClose
         \/ CloseAudio
  BY <1>4, SameSound DEF TrackEnds, Advance, Request, FileResolved, OpenFile, SoundClose,
       CloseAudio, device, source
<1>5. CASE SeekReset
  <2>1. Phase' = Phase /\ Input' = Input /\ stock' = 0
    BY <1>5 DEF SeekReset, Phase, Input, source
  <2> QED
    BY <2>1 DEF SoundStep, Sound!Next, Sound!Discard
<1>6. CASE Stopped
  <2>1. Quiet /\ connect_mutex = "gui"
    BY <1>6 DEF Stopped, StopIsQuiet, MutexOwners, GuiInConnect
  <2>2. ~BetweenFlagAndJoin("critical")
    BY <2>1 DEF MutexOwners, CriticalInConnect, Stopping
  <2>3. Phase = "silent" /\ Phase' = "silent" /\ stock' = stock
    BY <1>6, <2>1, <2>2 DEF Stopped, Phase, Quiet, device
  <2> QED
    BY <2>3 DEF SoundStep, Input
<1>7. CASE CancelSource
  <2>1. ~BetweenFlagAndJoin("critical") /\ ~BetweenFlagAndJoin("gui")
    BY <1>7 DEF CancelSource, V_connect, MutexOwners, CriticalInConnect, Stopping
  <2>2. Phase' = Phase /\ Phase # "stopping" /\ stock' = stock
        /\ playback_type' = "AS_NULL" /\ pc'["gui"] = "loop"
    BY <1>7, <2>1 DEF CancelSource, Phase, device, DecoderIsOwned
  <2>3. CASE Phase = "silent"
    BY <2>2, <2>3 DEF SoundStep, Input
  <2>4. CASE Phase \in {"sounding", "mute"}
    BY <2>2, <2>4 DEF SoundStep, Input, Sound!Next, Sound!Cut
  <2> QED
    BY <2>2, <2>3, <2>4 DEF Phase
<1>8. CASE FileStarted
  <2>1. /\ pc["gui"] = "started" /\ pc'["gui"] = "announce"
        /\ playback_type' = playback_type /\ Phase' = Phase /\ stock' = stock
    BY <1>8 DEF FileStarted, Phase, device, source
  <2>2. CASE Phase # "silent" /\ playback_type = "AS_LOCAL"
    BY <2>1, <2>2 DEF SoundStep, Input, Sound!Next, Sound!Announce
  <2>3. CASE Phase = "silent" \/ playback_type # "AS_LOCAL"
    BY <2>1, <2>3 DEF SoundStep, Input
  <2> QED
    BY <2>2, <2>3
<1>9. CASE Announce
  <2>1. /\ pc["gui"] = "announce" /\ pc'["gui"] = "loop" /\ playback_type' = "AS_LOCAL"
        /\ Phase' = Phase /\ stock' = stock
    BY <1>9 DEF Announce, Phase, device
  <2>2. CASE Phase # "silent" /\ playback_type # "AS_LOCAL"
    BY <2>1, <2>2 DEF SoundStep, Input, Sound!Next, Sound!Announce
  <2>3. CASE Phase = "silent" \/ playback_type = "AS_LOCAL"
    BY <2>1, <2>3 DEF SoundStep, Input
  <2> QED
    BY <2>2, <2>3
<1>10. CASE StoreStopped \/ Cancel
  BY <1>10, SameSound DEF StoreStopped, Cancel, device, source
<1> QED
  BY <1>1, <1>2, <1>3, <1>4, <1>5, <1>6, <1>7, <1>8, <1>9, <1>10, StopSound, StartSound
     DEF GuiStep

(* Between a sound_start and the end of the next sound_stop there is one   *)
(* decoder, and it reads one source: whoever started and stopped the device*)
(* and whatever became of playing and the status meanwhile.                *)
THEOREM SoundImplemented == Spec => ImplementsSound
<1>1. Init => Sound!Init
  BY DEF Init, Sound!Init, Phase, Input, BetweenFlagAndJoin
<1>2. FInv /\ [Next]_vars => SoundStep
  <2>1. CASE UNCHANGED vars
    BY <2>1, SameSound DEF vars, device, source, BetweenFlagAndJoin
  <2> QED
    BY <2>1, CriticalSound, AudioSound, GuiSound DEF Next, ThreadStep
<1>3. (overtaken \/ FInv) /\ [Next]_vars =>
        [overtaken \/ Sound!Next]_<<Phase, Input, stock>>
  BY <1>2 DEF SoundStep
<1> QED
  BY <1>1, <1>3, FInvariance, PTL DEF Spec, ImplementsSound
=============================================================================
