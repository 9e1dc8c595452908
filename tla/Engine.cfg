SPECIFICATION EngineSpec
CONSTANTS
  None = None
  pods = pods
  widgets = widgets
  away = away
  n1 = n1
  n2 = n2
  Kinds = {pods, widgets, away}
  Namespaces = {n1, n2}
  Holders = {s1, s2, s3, s4, s5}
  Ids = {i1}
  Targets <- MCTargets
  NoSession <- MCNoSession
  NoKind <- MCNoKind
  Requests = {}
  Connections <- MCTwoConnections
  MaxOrders = 2
  MaxDeltas = 0
  Engines = {e1}
  Faults = {"refuse", "short", "unterminated", "head", "crash", "tornCrash", "loseTail", "tamper"}
  MaxAppends = 4
  Keys <- MCKeys
  Namespaced = {"configmaps"}
  UnmanagedKinds <- MCKinds
  Ignored <- MCIgnored
  Bodies = {"x", "y"}
  Documents <- MCDocuments
  Repositories <- MCRepositories
  ScanRequests <- MCScanRequests
  MaxWrites = 2
  Dirs <- MCDirs
  Skipped <- MCSkipped
  Trees <- MCTrees
VIEW SceneView
INVARIANT EngineTypeOK
INVARIANT SubscriptionsAgree
INVARIANT NoOrphanStream
INVARIANT HeldKeepsRunning
INVARIANT NothingLeftRunning
INVARIANT ChainVerifies
INVARIANT AckedOrDetected
INVARIANT SequenceGrows
INVARIANT ReportTrue
INVARIANT ReportTells
INVARIANT RenderFits
CHECK_DEADLOCK FALSE
