--------------------------- MODULE PlaybackProofs ---------------------------
(***************************************************************************)
(* Proofs about Playback for every skin and every size of the buffers: the *)
(* discipline of the two mutexes, and that a stop is quiet.                *)
(***************************************************************************)
EXTENDS Playback, TLAPS

(* The decoder reads with audio_mutex held and room for one more chunk.    *)
RoomForChunk == pc["decoder"] \in {"read", "source"} => stock < MinBuffers

(* critical_thread publishes one of these, never -1.                       *)
ResultIsStatus ==
  pc["critical"] = "publish" =>
    ret \in {"FAILED", "START_PLAYING_FILE", "BUFFERING", "PLAYING", "REDIRECT"}

CriticalStarts == pc["critical"] \in {"start", "start_lock", "start_create", "started"}
StartIsPlaying == CriticalStarts => ret = "PLAYING"

(* A decoder belongs to a playing device, or to a sound_stop that has      *)
(* cleared the flag and will wait for it.                                  *)
DecoderIsOwned ==
  pc["decoder"] # "none" =>
    dev_playing \/ BetweenFlagAndJoin("gui") \/ BetweenFlagAndJoin("critical")

(* Nobody starts the device under the connect_mutex of click_stop.         *)
StopKeepsDevice ==
  \/ pc["gui"] \in {"stopped", "stop_store"}
  \/ BetweenFlagAndJoin("gui") /\ gui_next = "stopped"
  => ~dev_playing

IInv == /\ TypeOK /\ MutexOwners /\ RoomForChunk /\ ResultIsStatus /\ StartIsPlaying
        /\ DecoderIsOwned /\ StopKeepsDevice /\ StopIsQuiet

(* The flags stay Boolean.                                                 *)
LEMMA NextFlagsOK == IInv /\ [Next]_vars => FlagsOK'
<1> SUFFICES ASSUME IInv, [Next]_vars PROVE FlagsOK'
  OBVIOUS
<1> USE DEF IInv, TypeOK, FlagsOK, status, stream, source, device, file,
         mutexes, control
<1>1. CASE CriticalConnect \/ CriticalStream \/ CriticalExit \/ Unresolved \/
         ResolveFile
  <2>1. CASE CriticalConnect \/ CriticalStream \/ CriticalExit
    BY <2>1 DEF CriticalConnect, CriticalStream, CriticalExit
  <2>2. CASE Unresolved
    BY <2>2 DEF Unresolved, KeepControl
  <2>3. CASE ResolveFile
    BY <2>3 DEF ResolveFile, KeepControl
  <2> QED
    BY <1>1, <2>1, <2>2, <2>3
<1>2. CASE ResolveStream \/ Dialled \/ DialFailed
  BY <1>2 DEF ResolveStream, Dialled, IcyReset, Return, KeepControl, DialFailed
<1>3. CASE Receive \/ TooManyErrors \/ StreamStarted \/ Decide
  <2>1. CASE Receive
    BY <2>1 DEF Receive, NothingReceived, PeerClosed, Redirected, HeaderRefused,
         AudioReceived, SetSystemStatus
  <2>2. CASE TooManyErrors \/ StreamStarted
    BY <2>2 DEF StreamStarted, TooManyErrors, KeepControl
  <2>3. CASE Decide
    BY <2>3 DEF Decide, KeepControl
  <2> QED
    BY <1>3, <2>1, <2>2, <2>3
<1>4. CASE PublishStatus \/ PublishRedirect \/ RedirectInfo \/ RedirectConnect
  <2>1. CASE PublishStatus \/ RedirectConnect
    BY <2>1 DEF PublishStatus, RedirectConnect, SetSystemStatus
  <2>2. CASE PublishRedirect \/ RedirectInfo
    BY <2>2 DEF PublishRedirect, RedirectInfo
  <2> QED
    BY <1>4, <2>1, <2>2
<1>5. CASE StopFlag("critical") \/ StopLock("critical") \/ StopJoin("critical")
         \/ StopFlag("gui") \/ StopLock("gui") \/ StopJoin("gui")
  <2>1. CASE \E t \in {"gui", "critical"} : StopFlag(t)
    BY <2>1 DEF StopFlag
  <2>2. CASE \E t \in {"gui", "critical"} : StopLock(t)
    BY <2>2 DEF StopLock
  <2>3. CASE \E t \in {"gui", "critical"} : StopJoin(t)
    BY <2>3 DEF StopJoin
  <2> QED
    BY <1>5, <2>1, <2>2, <2>3
<1>6. CASE DecoderCheck
  BY <1>6 DEF DecoderCheck
<1>7. CASE DecoderLock
  BY <1>7 DEF DecoderLock
<1>8. CASE DecoderRead \/ DecoderReads \/ RunDry \/ Rebuffer
  <2>1. CASE DecoderRead
    BY <2>1 DEF DecoderRead
  <2>2. CASE DecoderReads
    BY <2>2 DEF DecoderReads, ReadNothing, ReadFile, ReadStream, Decoded
  <2>3. CASE RunDry
    BY <2>3 DEF RunDry
  <2>4. CASE Rebuffer
    BY <2>4 DEF Rebuffer, SetSystemStatus
  <2> QED
    BY <1>8, <2>1, <2>2, <2>3, <2>4
<1>9. CASE MixEnter \/ MixReturn \/ MixPromotes
  BY <1>9 DEF MixEnter, MixReturn, MixPromotes, MayMix
<1>10. CASE MixPromote
  BY <1>10 DEF MixPromote, Play, SetSystemStatus
<1>11. CASE Mix
  BY <1>11 DEF Mix, MayMix, Play
<1>12. CASE ClickItem
  BY <1>12 DEF ClickItem, Click, Request, RequestInfo, PlayingFile
<1>13. CASE ClickDirect
  BY <1>13 DEF ClickDirect, Click
<1>14. CASE ClickStop
  BY <1>14 DEF ClickStop, Click
<1>15. CASE ClickCancel
  BY <1>15 DEF ClickCancel, Click
<1>16. CASE ClickPlayPause
  BY <1>16 DEF ClickPlayPause, Click
<1>17. CASE ClickSeek
  BY <1>17 DEF ClickSeek, Click, PlayingFile
<1>18. CASE Leave
  BY <1>18 DEF Leave
<1>19. CASE Direct \/ Connect
  BY <1>19 DEF Direct, Request, Connect, SetSystemStatus
<1>20. CASE StopTakesConnect
  BY <1>20 DEF StopTakesConnect, P_connect
<1>21. CASE Stopped \/ StoreStopped
  BY <1>21 DEF Stopped, StoreStopped, V_connect, SetSystemStatus
<1>22. CASE Cancel \/ CancelSource
  BY <1>22 DEF Cancel, CancelSource, V_connect, P_connect, SetSystemStatus
<1>23. CASE StorePause
  BY <1>23 DEF StorePause, SetSystemStatus
<1>24. CASE SdlPause
  BY <1>24 DEF SdlPause
<1>25. CASE SeekTakesConnect
  BY <1>25 DEF SeekTakesConnect, P_connect
<1>26. CASE SeekPause
  BY <1>26 DEF SeekPause
<1>27. CASE SeekReset
  BY <1>27 DEF SeekReset
<1>28. CASE SeekResume
  BY <1>28 DEF SeekResume, V_connect
<1>29. CASE TrackEnds
  BY <1>29 DEF TrackEnds, PlayingFile
<1>30. CASE Advance
  BY <1>30 DEF Advance, Request
<1>31. CASE FileResolved
  BY <1>31 DEF FileResolved
<1>32. CASE OpenFile
  BY <1>32 DEF OpenFile
<1>33. CASE StartTest("gui") \/ StartLock("gui") \/ StartCreate("gui") \/
         StartTest("critical") \/ StartLock("critical") \/ StartCreate("critical")
  <2>1. CASE \E t \in {"gui", "critical"} : StartTest(t)
    BY <2>1 DEF StartTest
  <2>2. CASE \E t \in {"gui", "critical"} : StartLock(t)
    BY <2>2 DEF StartLock
  <2>3. CASE \E t \in {"gui", "critical"} : StartCreate(t)
    BY <2>3 DEF StartCreate
  <2> QED
    BY <1>33, <2>1, <2>2, <2>3
<1>34. CASE FileStarted \/ Announce
  BY <1>34 DEF FileStarted, Announce, SetSystemStatus
<1>35. CASE SoundClose \/ CloseAudio
  BY <1>35 DEF SoundClose, CloseAudio
<1>36. CASE UNCHANGED vars
  BY <1>36 DEF vars
<1> QED
  BY <1>1, <1>2, <1>3, <1>4, <1>5, <1>6, <1>7, <1>8, <1>9, <1>10, <1>11, <1>12,
       <1>13, <1>14, <1>15, <1>16, <1>17, <1>18, <1>19, <1>20, <1>21, <1>22,
       <1>23, <1>24, <1>25, <1>26, <1>27, <1>28, <1>29, <1>30, <1>31, <1>32,
       <1>33, <1>34, <1>35, <1>36
     DEF Next, ThreadStep, CriticalStep, AudioStep, DecoderStep, MixerStep,
          GuiStep, UserStep

(* Status, source, owners and counters keep their types.                   *)
LEMMA NextDataOK == IInv /\ [Next]_vars => DataOK'
<1> SUFFICES ASSUME IInv, [Next]_vars PROVE DataOK'
  OBVIOUS
<1> USE MinBuffersAssumption, FileSizesAssumption, RedirectsAssumption,
         ClicksAssumption
    DEF IInv, TypeOK, DataOK, RoomForChunk, ResultIsStatus, StartIsPlaying, CriticalStarts, Statuses, Sources,
         Infos, Free, status, stream, source, device, file, mutexes, control
<1>1. CASE CriticalConnect
  BY <1>1 DEF CriticalConnect, P_connect
<1>2. CASE CriticalStream
  BY <1>2 DEF CriticalStream, P_connect
<1>3. CASE CriticalExit
  BY <1>3 DEF CriticalExit, HasWork
<1>4. CASE Unresolved
  BY <1>4 DEF Unresolved, Return, KeepControl, Again
<1>5. CASE ResolveFile
  BY <1>5 DEF ResolveFile, MayBeLocal, Return, KeepControl
<1>6. CASE ResolveStream
  BY <1>6 DEF ResolveStream
<1>7. CASE Dialled
  BY <1>7 DEF Dialled, IcyReset, Return, KeepControl
<1>8. CASE DialFailed
  BY <1>8 DEF DialFailed, IcyReset, Return, KeepControl
<1>9. CASE Receive
  <2>1. CASE Redirected
    BY <1>9, <2>1 DEF Receive, Redirected
  <2>2. CASE HeaderRefused
    BY <1>9, <2>2 DEF Receive, HeaderRefused, SetSystemStatus
  <2>3. CASE NothingReceived
    BY <1>9, <2>3 DEF Receive, NothingReceived
  <2>4. CASE PeerClosed
    BY <1>9, <2>4 DEF Receive, PeerClosed
  <2>5. CASE AudioReceived
    BY <1>9, <2>5 DEF Receive, AudioReceived
  <2> QED
    BY <1>9, <2>1, <2>2, <2>3, <2>4, <2>5 DEF Receive
<1>10. CASE TooManyErrors \/ StreamStarted
  BY <1>10 DEF StreamStarted, TooManyErrors, Return, KeepControl
<1>11. CASE Decide
  BY <1>11 DEF Decide, StreamVerdict, KeepControl, Again
<1>12. CASE PublishStatus \/ PublishRedirect \/ RedirectInfo \/ RedirectConnect
  BY <1>12 DEF PublishStatus, SetSystemStatus, Again, PublishRedirect, RedirectInfo,
       RedirectConnect
<1>13. CASE StopFlag("critical") \/ StopLock("critical") \/
         StopJoin("critical") \/ StopFlag("gui") \/ StopLock("gui") \/
         StopJoin("gui")
  BY <1>13 DEF StopFlag, AfterStop, StopLock, StopJoin
<1>14. CASE DecoderCheck
  BY <1>14 DEF DecoderCheck
<1>15. CASE DecoderLock
  BY <1>15 DEF DecoderLock
<1>16. CASE DecoderRead \/ DecoderReads \/ RunDry \/ Rebuffer
  BY <1>16 DEF DecoderRead, P_connect, DecoderReads, ReadNothing, ReadFile, ReadStream,
       Decoded, RunDry, Rebuffer, SetSystemStatus
<1>17. CASE MixEnter \/ MixReturn \/ MixPromotes
  BY <1>17 DEF MixEnter, MixReturn, MixPromotes, MayMix
<1>18. CASE MixPromote
  BY <1>18 DEF MixPromote, Play, SetSystemStatus
<1>19. CASE Mix
  BY <1>19 DEF Mix, MayMix, Play
<1>20. CASE ClickItem \/ ClickDirect \/ ClickStop \/ ClickCancel \/
         ClickPlayPause \/ ClickSeek \/ Leave
  BY <1>20 DEF ClickItem, Click, Request, RequestInfo, PlayingFile,
       ClickDirect, ClickStop, ClickCancel, ClickPlayPause, ClickSeek, Leave
<1>21. CASE Direct \/ Connect \/ StopTakesConnect \/ Stopped \/ StoreStopped \/ Cancel \/
         CancelSource \/ StorePause \/ SdlPause \/ SeekTakesConnect \/ SeekPause \/ SeekReset \/ SeekResume
  BY <1>21 DEF Direct, Request, Connect, SetSystemStatus, StopTakesConnect, P_connect, Stopped,
       StoreStopped, V_connect, Cancel, CancelSource, StorePause, SdlPause, SeekTakesConnect,
       SeekPause, SeekReset, SeekResume
<1>22. CASE TrackEnds \/ Advance \/ FileResolved \/ OpenFile \/ FileStarted \/ Announce \/ SoundClose \/ CloseAudio \/
         StartTest("gui") \/ StartLock("gui") \/ StartCreate("gui") \/
         StartTest("critical") \/ StartLock("critical") \/ StartCreate("critical")
  BY <1>22 DEF TrackEnds, PlayingFile, Advance, Request, FileResolved,
       OpenFile, StartTest, StartLock, StartCreate, FileStarted,
       Announce, SetSystemStatus, SoundClose, CloseAudio
<1>23. CASE UNCHANGED vars
  BY <1>23 DEF vars
<1> QED
  BY <1>1, <1>2, <1>3, <1>4, <1>5, <1>6, <1>7, <1>8, <1>9, <1>10, <1>11, <1>12,
       <1>13, <1>14, <1>15, <1>16, <1>17, <1>18, <1>19, <1>20, <1>21, <1>22,
       <1>23
     DEF Next, ThreadStep, CriticalStep, AudioStep, DecoderStep, MixerStep,
          GuiStep, UserStep

(* Every thread stays on its own labels.                                   *)
LEMMA NextPlacesOK == IInv /\ [Next]_vars => PlacesOK'
<1> SUFFICES ASSUME IInv, [Next]_vars PROVE PlacesOK'
  OBVIOUS
<1> USE DEF IInv, TypeOK, DataOK, PlacesOK, Threads, Labels, GuiLabels,
         CriticalLabels, DecoderLabels, MixerLabels, Goto
<1>1. CASE CriticalConnect
  BY <1>1 DEF CriticalConnect, P_connect
<1>2. CASE CriticalStream
  BY <1>2 DEF CriticalStream, P_connect
<1>3. CASE CriticalExit
  BY <1>3 DEF CriticalExit, HasWork
<1>4. CASE Unresolved
  BY <1>4 DEF Unresolved, Return, KeepControl, Again
<1>5. CASE ResolveFile
  BY <1>5 DEF ResolveFile, MayBeLocal, Return, KeepControl
<1>6. CASE ResolveStream
  BY <1>6 DEF ResolveStream
<1>7. CASE Dialled
  BY <1>7 DEF Dialled, IcyReset, Return, KeepControl
<1>8. CASE DialFailed
  BY <1>8 DEF DialFailed, IcyReset, Return, KeepControl
<1>9. CASE Receive
  BY <1>9 DEF Receive, NothingReceived, PeerClosed, Redirected, HeaderRefused,
       AudioReceived, SetSystemStatus
<1>10. CASE TooManyErrors \/ StreamStarted
  BY <1>10 DEF StreamStarted, TooManyErrors, Return, KeepControl
<1>11. CASE Decide
  BY <1>11 DEF Decide, StreamVerdict, KeepControl, Again
<1>12. CASE PublishStatus \/ PublishRedirect \/ RedirectInfo \/ RedirectConnect
  BY <1>12 DEF PublishStatus, SetSystemStatus, Again, PublishRedirect, RedirectInfo,
       RedirectConnect
<1>13. CASE StopFlag("critical") \/ StopLock("critical") \/
         StopJoin("critical") \/ StopFlag("gui") \/ StopLock("gui") \/
         StopJoin("gui")
  BY <1>13 DEF StopFlag, AfterStop, StopLock, StopJoin
<1>14. CASE DecoderCheck
  BY <1>14 DEF DecoderCheck
<1>15. CASE DecoderLock
  BY <1>15 DEF DecoderLock
<1>16. CASE DecoderRead \/ DecoderReads \/ RunDry \/ Rebuffer
  BY <1>16 DEF DecoderRead, P_connect, DecoderReads, ReadNothing, ReadFile, ReadStream,
       Decoded, RunDry, Rebuffer, SetSystemStatus
<1>17. CASE MixEnter \/ MixReturn \/ MixPromotes
  BY <1>17 DEF MixEnter, MixReturn, MixPromotes, MayMix
<1>18. CASE MixPromote
  BY <1>18 DEF MixPromote, Play, SetSystemStatus
<1>19. CASE Mix
  BY <1>19 DEF Mix, MayMix, Play
<1>20. CASE ClickItem \/ ClickDirect \/ ClickStop \/ ClickCancel \/
         ClickPlayPause \/ ClickSeek \/ Leave
  BY <1>20 DEF ClickItem, Click, Request, RequestInfo, PlayingFile,
       ClickDirect, ClickStop, ClickCancel, ClickPlayPause, ClickSeek, Leave
<1>21. CASE Direct \/ Connect \/ StopTakesConnect \/ Stopped \/ StoreStopped \/ Cancel \/
         CancelSource \/ StorePause \/ SdlPause \/ SeekTakesConnect \/ SeekPause \/ SeekReset \/ SeekResume
  BY <1>21 DEF Direct, Request, Connect, SetSystemStatus, StopTakesConnect, P_connect, Stopped,
       StoreStopped, V_connect, Cancel, CancelSource, StorePause, SdlPause, SeekTakesConnect,
       SeekPause, SeekReset, SeekResume
<1>22. CASE TrackEnds \/ Advance \/ FileResolved \/ OpenFile \/ FileStarted \/ Announce \/ SoundClose \/ CloseAudio \/
         StartTest("gui") \/ StartLock("gui") \/ StartCreate("gui") \/
         StartTest("critical") \/ StartLock("critical") \/ StartCreate("critical")
  BY <1>22 DEF TrackEnds, PlayingFile, Advance, Request, FileResolved,
       OpenFile, StartTest, StartLock, StartCreate, FileStarted,
       Announce, SetSystemStatus, SoundClose, CloseAudio
<1>23. CASE UNCHANGED vars
  BY <1>23 DEF vars
<1> QED
  BY <1>1, <1>2, <1>3, <1>4, <1>5, <1>6, <1>7, <1>8, <1>9, <1>10, <1>11, <1>12,
       <1>13, <1>14, <1>15, <1>16, <1>17, <1>18, <1>19, <1>20, <1>21, <1>22,
       <1>23
     DEF Next, ThreadStep, CriticalStep, AudioStep, DecoderStep, MixerStep,
          GuiStep, UserStep

(* No step leaves a mutex locked, or releases one it does not own.         *)
LEMMA NextMutexOwners == IInv /\ [Next]_vars => MutexOwners'
<1> SUFFICES ASSUME IInv, [Next]_vars PROVE MutexOwners'
  OBVIOUS
<1> USE DEF IInv, TypeOK, DataOK, PlacesOK, MutexOwners, GuiInConnect,
         CriticalInConnect, Stopping, Threads, Free, status, stream, source,
         device, file, mutexes, control, Goto
<1>1. CASE CriticalConnect
  BY <1>1 DEF CriticalConnect, P_connect
<1>2. CASE CriticalStream
  BY <1>2 DEF CriticalStream, P_connect
<1>3. CASE CriticalExit
  BY <1>3 DEF CriticalExit, HasWork
<1>4. CASE Unresolved
  BY <1>4 DEF Unresolved, Return, KeepControl, Again
<1>5. CASE ResolveFile
  BY <1>5 DEF ResolveFile, MayBeLocal, Return, KeepControl
<1>6. CASE ResolveStream
  BY <1>6 DEF ResolveStream
<1>7. CASE Dialled
  BY <1>7 DEF Dialled, IcyReset, Return, KeepControl
<1>8. CASE DialFailed
  BY <1>8 DEF DialFailed, IcyReset, Return, KeepControl
<1>9. CASE Receive
  BY <1>9 DEF Receive, NothingReceived, PeerClosed, Redirected, HeaderRefused,
       AudioReceived, SetSystemStatus
<1>10. CASE TooManyErrors \/ StreamStarted
  BY <1>10 DEF StreamStarted, TooManyErrors, Return, KeepControl
<1>11. CASE Decide
  BY <1>11 DEF Decide, StreamVerdict, KeepControl, Again
<1>12. CASE PublishStatus
  BY <1>12 DEF PublishStatus, SetSystemStatus, Again
<1>13. CASE PublishRedirect \/ RedirectInfo \/ RedirectConnect
  BY <1>13 DEF PublishRedirect, RedirectInfo, RedirectConnect, SetSystemStatus, Again
<1>14. CASE Direct
  BY <1>14 DEF Direct, Request
<1>15. CASE StopFlag("critical")
  BY <1>15 DEF StopFlag, AfterStop
<1>16. CASE StopLock("critical")
  BY <1>16 DEF StopLock
<1>17. CASE StopJoin("critical")
  BY <1>17 DEF StopJoin, AfterStop
<1>18. CASE StopFlag("gui")
  BY <1>18 DEF StopFlag, AfterStop
<1>19. CASE StopLock("gui")
  BY <1>19 DEF StopLock
<1>20. CASE StopJoin("gui")
  BY <1>20 DEF StopJoin, AfterStop
<1>21. CASE DecoderCheck
  BY <1>21 DEF DecoderCheck
<1>22. CASE DecoderLock
  BY <1>22 DEF DecoderLock
<1>23. CASE DecoderRead \/ DecoderReads \/ RunDry \/ Rebuffer
  BY <1>23 DEF DecoderRead, P_connect, DecoderReads, ReadNothing, ReadFile, ReadStream,
       Decoded, RunDry, Rebuffer, SetSystemStatus
<1>24. CASE MixEnter \/ MixReturn \/ MixPromotes
  BY <1>24 DEF MixEnter, MixReturn, MixPromotes, MayMix
<1>25. CASE MixPromote
  BY <1>25 DEF MixPromote, Play, SetSystemStatus
<1>26. CASE Mix
  BY <1>26 DEF Mix, MayMix, Play
<1>27. CASE ClickItem \/ ClickDirect \/ ClickStop \/ ClickCancel \/
         ClickPlayPause \/ ClickSeek \/ Leave
  BY <1>27 DEF ClickItem, Click, Request, RequestInfo, PlayingFile,
       ClickDirect, ClickStop, ClickCancel, ClickPlayPause, ClickSeek, Leave
<1>28. CASE Direct \/ Connect \/ StopTakesConnect \/ Stopped \/ StoreStopped \/ Cancel \/
         CancelSource \/ StorePause \/ SdlPause \/ SeekTakesConnect \/ SeekPause \/ SeekReset \/ SeekResume
  BY <1>28 DEF Direct, Request, Connect, SetSystemStatus, StopTakesConnect, P_connect, Stopped,
       StoreStopped, V_connect, Cancel, CancelSource, StorePause, SdlPause, SeekTakesConnect,
       SeekPause, SeekReset, SeekResume
<1>29. CASE TrackEnds
  BY <1>29 DEF TrackEnds, PlayingFile
<1>30. CASE Advance
  BY <1>30 DEF Advance, Request
<1>31. CASE FileResolved
  BY <1>31 DEF FileResolved
<1>32. CASE OpenFile
  BY <1>32 DEF OpenFile
<1>33. CASE StartTest("gui") \/ StartLock("gui") \/ StartCreate("gui") \/
         StartTest("critical") \/ StartLock("critical") \/ StartCreate("critical")
  <2>1. CASE \E t \in {"gui", "critical"} : StartTest(t)
    BY <2>1 DEF StartTest
  <2>2. CASE \E t \in {"gui", "critical"} : StartLock(t)
    BY <2>2 DEF StartLock
  <2>3. CASE \E t \in {"gui", "critical"} : StartCreate(t)
    BY <2>3 DEF StartCreate
  <2> QED
    BY <1>33, <2>1, <2>2, <2>3
<1>34. CASE FileStarted \/ Announce
  BY <1>34 DEF FileStarted, Announce, SetSystemStatus
<1>35. CASE SoundClose \/ CloseAudio
  BY <1>35 DEF SoundClose, CloseAudio
<1>36. CASE UNCHANGED vars
  BY <1>36 DEF vars
<1> QED
  BY <1>1, <1>2, <1>3, <1>4, <1>5, <1>6, <1>7, <1>8, <1>9, <1>10, <1>11, <1>12,
       <1>13, <1>14, <1>15, <1>16, <1>17, <1>18, <1>19, <1>20, <1>21, <1>22,
       <1>23, <1>24, <1>25, <1>26, <1>27, <1>28, <1>29, <1>30, <1>31, <1>32,
       <1>33, <1>34, <1>35, <1>36
     DEF Next, ThreadStep, CriticalStep, AudioStep, DecoderStep, MixerStep,
          GuiStep, UserStep

(* Only the owner of connect_mutex moves the device while it is stopped.   *)
LEMMA NextDevice ==
  ASSUME IInv, [Next]_vars
  PROVE  (RoomForChunk /\ ResultIsStatus /\ StartIsPlaying /\ DecoderIsOwned /\ StopKeepsDevice /\ StopIsQuiet)'
<1> USE MinBuffersAssumption
    DEF IInv, TypeOK, DataOK, PlacesOK, MutexOwners, GuiInConnect,
         CriticalInConnect, Stopping, RoomForChunk, ResultIsStatus, StartIsPlaying, CriticalStarts,
         DecoderIsOwned, BetweenFlagAndJoin, StopKeepsDevice, StopIsQuiet,
         Quiet, Threads, Free, status, stream, source, device, file, mutexes,
         control, Goto
<1>1. CASE CriticalConnect
  BY <1>1 DEF CriticalConnect, P_connect
<1>2. CASE CriticalStream
  BY <1>2 DEF CriticalStream, P_connect
<1>3. CASE CriticalExit
  BY <1>3 DEF CriticalExit, HasWork
<1>4. CASE Unresolved
  BY <1>4 DEF Unresolved, Return, KeepControl, Again
<1>5. CASE ResolveFile
  BY <1>5 DEF ResolveFile, MayBeLocal, Return, KeepControl
<1>6. CASE ResolveStream
  BY <1>6 DEF ResolveStream
<1>7. CASE Dialled
  BY <1>7 DEF Dialled, IcyReset, Return, KeepControl
<1>8. CASE DialFailed
  BY <1>8 DEF DialFailed, IcyReset, Return, KeepControl
<1>9. CASE Receive
  BY <1>9 DEF Receive, NothingReceived, PeerClosed, Redirected, HeaderRefused,
       AudioReceived, SetSystemStatus
<1>10. CASE TooManyErrors \/ StreamStarted
  BY <1>10 DEF StreamStarted, TooManyErrors, Return, KeepControl
<1>11. CASE Decide
  BY <1>11 DEF Decide, StreamVerdict, KeepControl, Again
<1>12. CASE PublishStatus
  BY <1>12 DEF PublishStatus, SetSystemStatus, Again
<1>13. CASE PublishRedirect \/ RedirectInfo \/ RedirectConnect
  BY <1>13 DEF PublishRedirect, RedirectInfo, RedirectConnect, SetSystemStatus, Again
<1>14. CASE Direct
  BY <1>14 DEF Direct, Request
<1>15. CASE StopFlag("critical")
  BY <1>15 DEF StopFlag, AfterStop
<1>16. CASE StopLock("critical")
  BY <1>16 DEF StopLock
<1>17. CASE StopJoin("critical")
  BY <1>17 DEF StopJoin, AfterStop
<1>18. CASE StopFlag("gui")
  BY <1>18 DEF StopFlag, AfterStop
<1>19. CASE StopLock("gui")
  BY <1>19 DEF StopLock
<1>20. CASE StopJoin("gui")
  BY <1>20 DEF StopJoin, AfterStop
<1>21. CASE DecoderCheck
  BY <1>21 DEF DecoderCheck
<1>22. CASE DecoderLock
  BY <1>22 DEF DecoderLock
<1>23. CASE DecoderRead \/ DecoderReads \/ RunDry \/ Rebuffer
  BY <1>23 DEF DecoderRead, P_connect, DecoderReads, ReadNothing, ReadFile, ReadStream,
       Decoded, RunDry, Rebuffer, SetSystemStatus
<1>24. CASE MixEnter \/ MixReturn \/ MixPromotes
  BY <1>24 DEF MixEnter, MixReturn, MixPromotes, MayMix
<1>25. CASE MixPromote
  BY <1>25 DEF MixPromote, Play, SetSystemStatus
<1>26. CASE Mix
  BY <1>26 DEF Mix, MayMix, Play
<1>27. CASE ClickItem \/ ClickDirect \/ ClickStop \/ ClickCancel \/
         ClickPlayPause \/ ClickSeek \/ Leave
  BY <1>27 DEF ClickItem, Click, Request, RequestInfo, PlayingFile,
       ClickDirect, ClickStop, ClickCancel, ClickPlayPause, ClickSeek, Leave
<1>28. CASE Direct \/ Connect \/ StopTakesConnect \/ Stopped \/ StoreStopped \/ Cancel \/
         CancelSource \/ StorePause \/ SdlPause \/ SeekTakesConnect \/ SeekPause \/ SeekReset \/ SeekResume
  BY <1>28 DEF Direct, Request, Connect, SetSystemStatus, StopTakesConnect, P_connect, Stopped,
       StoreStopped, V_connect, Cancel, CancelSource, StorePause, SdlPause, SeekTakesConnect,
       SeekPause, SeekReset, SeekResume
<1>29. CASE TrackEnds
  BY <1>29 DEF TrackEnds, PlayingFile
<1>30. CASE Advance
  BY <1>30 DEF Advance, Request
<1>31. CASE FileResolved
  BY <1>31 DEF FileResolved
<1>32. CASE OpenFile
  BY <1>32 DEF OpenFile
<1>33. CASE StartTest("gui") \/ StartLock("gui") \/ StartCreate("gui") \/
         StartTest("critical") \/ StartLock("critical") \/ StartCreate("critical")
  BY <1>33 DEF StartTest, StartLock, StartCreate
<1>34. CASE FileStarted \/ Announce
  BY <1>34 DEF FileStarted, Announce, SetSystemStatus
<1>35. CASE SoundClose \/ CloseAudio
  BY <1>35 DEF SoundClose, CloseAudio
<1>36. CASE UNCHANGED vars
  BY <1>36 DEF vars
<1> QED
  BY <1>1, <1>2, <1>3, <1>4, <1>5, <1>6, <1>7, <1>8, <1>9, <1>10, <1>11, <1>12,
       <1>13, <1>14, <1>15, <1>16, <1>17, <1>18, <1>19, <1>20, <1>21, <1>22,
       <1>23, <1>24, <1>25, <1>26, <1>27, <1>28, <1>29, <1>30, <1>31, <1>32,
       <1>33, <1>34, <1>35, <1>36
     DEF Next, ThreadStep, CriticalStep, AudioStep, DecoderStep, MixerStep,
          GuiStep, UserStep

(* The player starts with no mutex taken and the device at rest.           *)
LEMMA InitIInv == Init => IInv
<1> SUFFICES ASSUME Init PROVE IInv
  OBVIOUS
<1> USE MinBuffersAssumption, FileSizesAssumption, ClicksAssumption DEF Init
<1>1. FlagsOK
  BY DEF FlagsOK
<1>2. DataOK
  BY DEF DataOK, Statuses, Sources, Infos, Free
<1>3. PlacesOK
  BY DEF PlacesOK, Threads, Labels, GuiLabels, CriticalLabels, DecoderLabels,
         MixerLabels
<1>4. MutexOwners
  BY DEF MutexOwners, GuiInConnect, CriticalInConnect, Stopping, Free
<1>5. RoomForChunk /\ ResultIsStatus /\ StartIsPlaying /\ DecoderIsOwned /\ StopKeepsDevice /\ StopIsQuiet
  BY DEF RoomForChunk, ResultIsStatus, StartIsPlaying, CriticalStarts, DecoderIsOwned, StopKeepsDevice, StopIsQuiet,
         BetweenFlagAndJoin
<1> QED
  BY <1>1, <1>2, <1>3, <1>4, <1>5 DEF IInv, TypeOK

(* The inductive invariant holds in every reachable state.                 *)
LEMMA Invariance == Spec => []IInv
<1>1. IInv /\ [Next]_vars => IInv'
  BY NextFlagsOK, NextDataOK, NextPlacesOK, NextMutexOwners, NextDevice DEF IInv, TypeOK
<1> QED
  BY InitIInv, <1>1, PTL DEF Spec

(* Every variable keeps its type, for every skin and all sizes: the stock  *)
(* of decoded chunks never exceeds min_buffers, the file is never read     *)
(* past its end.                                                           *)
THEOREM PlaybackTypes == Spec => []TypeOK
BY Invariance, PTL DEF IInv

(* connect_mutex and audio_mutex are owned exactly between the P and the V *)
(* of their owner, for every skin and all sizes.                           *)
THEOREM MutexDiscipline == Spec => []MutexOwners
BY Invariance, PTL DEF IInv

(* When click_stop reports STOPPED, the device does not play and its       *)
(* decoder has ended, whatever the other threads did meanwhile.            *)
THEOREM QuietStop == Spec => []StopIsQuiet
BY Invariance, PTL DEF IInv

(* In a set of threads that wait only for each other, whoever waits, waits *)
(* in the end for the decoder: MixAudio, the GUI and critical_thread in    *)
(* that order, each for one behind it.                                     *)
LEMMA WaitsOnDecoder ==
  ASSUME IInv, NEW S \in SUBSET Threads, S # {},
         \A t \in S : \E u \in S : WaitsFor(t, u)
  PROVE  "decoder" \in S
<1> USE DEF IInv, TypeOK, DataOK, PlacesOK, MutexOwners, GuiInConnect,
         CriticalInConnect, Stopping, Threads, Free, WaitsFor, AtConnect, AtAudio,
         GuiLabels, CriticalLabels, DecoderLabels, MixerLabels
<1>1. "mixer" \in S => "decoder" \in S
  <2> SUFFICES ASSUME "mixer" \in S PROVE "decoder" \in S
    OBVIOUS
  <2>1. PICK u \in S : WaitsFor("mixer", u)
    OBVIOUS
  <2>2. pc["mixer"] = "lock" /\ audio_mutex = u
    BY <2>1
  <2> QED
    BY <2>2
<1>2. "gui" \in S /\ connect_mutex = "gui" => "decoder" \in S
  <2> SUFFICES ASSUME "gui" \in S, connect_mutex = "gui" PROVE "decoder" \in S
    OBVIOUS
  <2>1. PICK u \in S : WaitsFor("gui", u)
    OBVIOUS
  <2>2. u = "decoder" \/ audio_mutex = u
    BY <2>1
  <2> QED
    BY <1>1, <2>2
<1>3. "critical" \in S => "decoder" \in S
  <2> SUFFICES ASSUME "critical" \in S PROVE "decoder" \in S
    OBVIOUS
  <2>1. PICK u \in S : WaitsFor("critical", u)
    OBVIOUS
  <2>2. u = "decoder" \/ audio_mutex = u \/ (pc["critical"] = "loop" /\ connect_mutex = u)
    BY <2>1
  <2> QED
    BY <1>1, <1>2, <2>2
<1>4. "gui" \in S => "decoder" \in S
  <2> SUFFICES ASSUME "gui" \in S PROVE "decoder" \in S
    OBVIOUS
  <2>1. PICK u \in S : WaitsFor("gui", u)
    OBVIOUS
  <2> QED
    BY <1>1, <1>3, <2>1
<1>5. PICK t \in S : t \in Threads
  OBVIOUS
<1> QED
  BY <1>1, <1>3, <1>4, <1>5 DEF Threads

(* The threads can wait for each other for ever in one way only: the owner *)
(* of connect_mutex in sound_stop, sound_start or sound_pause against the  *)
(* decoder in reader_callback.                                             *)
THEOREM OneDeadlock == Spec => []OnlyLockCycles
<1>1. IInv => OnlyLockCycles
  <2> SUFFICES ASSUME IInv, NEW S \in SUBSET Threads, S # {},
                      \A t \in S : \E u \in S : WaitsFor(t, u)
               PROVE  LockCycle /\ {connect_mutex, "decoder"} \subseteq S
    BY DEF OnlyLockCycles, WaitingThreads
  <2> USE DEF IInv, TypeOK, DataOK, PlacesOK, MutexOwners, GuiInConnect,
           CriticalInConnect, Stopping, Threads, Free, WaitsFor, AtConnect, AtAudio,
           GuiLabels, CriticalLabels, DecoderLabels, MixerLabels
  <2>1. "decoder" \in S
    BY WaitsOnDecoder
  <2>2. PICK c \in S : WaitsFor("decoder", c)
    BY <2>1
  <2>3. audio_mutex # "mixer" \/ "mixer" \notin S
    BY <2>2
  <2>4. pc["decoder"] = "read" /\ connect_mutex = c
    BY <2>2, <2>3
  <2>5. PICK u \in S : WaitsFor(c, u)
    OBVIOUS
  <2>6. u = "decoder"
    BY <2>4, <2>5
  <2> QED
    BY <2>1, <2>2, <2>4, <2>5, <2>6 DEF LockCycle
<1> QED
  BY Invariance, <1>1, PTL
=============================================================================
