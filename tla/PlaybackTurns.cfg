\* A skin without the play/pause button.
SPECIFICATION Spec
CONSTANTS
  Controls <- NoPause
  MinBuffers = 2
  FileSizes = {2}
  MaxRedirects = 2
  MaxClicks = 4
INVARIANTS RebufferingIsShown RedirectOnce
CHECK_DEADLOCK FALSE
