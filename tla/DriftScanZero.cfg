SPECIFICATION DriftSpec
CONSTANTS
  Keys <- MCKeys
  Namespaced = {"configmaps"}
  UnmanagedKinds <- MCKinds
  Ignored <- MCIgnored
  Bodies = {"x", "y"}
  Documents <- MCDocuments
  Repositories <- MCRepositories
  ScanRequests <- MCScanRequests
  MaxWrites = 2
INVARIANT ZeroMeansMatch
CHECK_DEADLOCK FALSE
