\* Every button, three clicks: what holds of any skin.
SPECIFICATION Spec
CONSTANTS
  Controls <- EveryButton
  MinBuffers = 2
  FileSizes = {2, 3}
  MaxRedirects = 2
  MaxClicks = 3
INVARIANTS TypeOK MutexOwners StopIsQuiet OnlyLockCycles NobodyWaitsInVain
INVARIANTS DeviceAlone DialIsQuiet FileBufferingIsLocal ExitIsLast
PROPERTIES ImplementsSound StreamStaysStopped
CHECK_DEADLOCK FALSE
