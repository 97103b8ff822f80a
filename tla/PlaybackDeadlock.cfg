\* Two clicks and exit: the main loop never ends.
SPECIFICATION FairSpec
CONSTANTS
  Controls <- EveryButton
  MinBuffers = 2
  FileSizes = {1, 2, 3}
  MaxRedirects = 2
  MaxClicks = 2
PROPERTY ExitCompletes
CHECK_DEADLOCK FALSE
