\* Both services; ICECAST on a system that passes an abandoned mutex on.
SPECIFICATION FairSpec
CONSTANTS
  view_max = 2
  MaxClicks = 3
  Genres = {"rock", "folk"}
  Setups <- Everywhere
  MaxStations = 2
  Names <- SomeNames
  FileOf <- SomeFiles
  OnDisk <- SomeOnDisk
INVARIANTS TypeOK WaitsEnd ListWhole OneSearch FavoritesOnDisk
PROPERTIES ResolveStable DrawsAgain WindowCloses RequestsAnswered
CHECK_DEADLOCK FALSE
