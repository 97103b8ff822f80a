\* One request and then only exit: what the threads owe the user.
SPECIFICATION FairSpec
CONSTANTS
  Controls <- EveryButton
  MinBuffers = 2
  FileSizes = {1, 2, 3}
  MaxRedirects = 2
  MaxClicks = 1
PROPERTIES ExitCompletes RequestAnswered
CHECK_DEADLOCK FALSE
