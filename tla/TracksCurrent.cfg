\* The prior track of the first one, or the end of the last one.
SPECIFICATION Spec
CONSTANTS
  Folders <- SomeFolders
  Tracks <- SomeTracks
  Devices <- SomeDevices
  Contents <- SomeContents
  Rank <- SomeRank
  MaxItems = 4
  max_listings = 2
  MaxClicks = 3
  U32 = 8
INVARIANT CurrentTrack
CHECK_DEADLOCK FALSE
