\* Three clicks in a small file system.
SPECIFICATION FairSpec
CONSTANTS
  Folders <- SomeFolders
  Tracks <- SomeTracks
  Devices <- SomeDevices
  Contents <- SomeContents
  Rank <- SomeRank
  MaxItems = 4
  max_listings = 2
  MaxClicks = 3
  U32 = 8
INVARIANTS TypeOK InBounds
PROPERTIES RefinesFolder ListingAdvances ListingEnds LeaveEnds
CHECK_DEADLOCK FALSE
