\* The ICECAST service, on a system that keeps an abandoned mutex locked.
SPECIFICATION FairSpec
CONSTANTS
  view_max = 2
  MaxClicks = 2
  Genres = {"rock"}
  Setups <- OnLinux
  MaxStations = 1
  Names <- SomeNames
  FileOf <- SomeFiles
  OnDisk <- SomeOnDisk
PROPERTY DrawsAgain
CHECK_DEADLOCK FALSE
