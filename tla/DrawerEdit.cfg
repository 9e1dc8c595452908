CONSTANTS
  Clusters = {c1, c2}
  FirstCluster = c1
  Keys = {web, db}
  NoObject = NoObject
  MaxAsks = 2
SPECIFICATION DrawerSpec
INVARIANT LoadedVersionGuards
CHECK_DEADLOCK FALSE
