CONSTANTS
  Clusters = {c1, c2}
  FirstCluster = c1
  Keys = {web, db}
  NoObject = NoObject
  MaxAsks = 2
  Contexts = {c1, c2}
  HomeContext = c1
  Views = {v0, v1}
  AllViews = v0
  Nowhere = Nowhere
  MaxReads = 2
  Sites = {c1, c2}
  NoSite = NoSite
  Spaces = {all, shop}
  AllSpaces = all
  Changes = {a, b}
  NoChange = NoChange
  MaxLists = 2
  PodNames = {p1, p2}
  DeploymentNames = {d1}
  NodeNames = {n1}
  Buckets = 3
  MaxLines = 2
  MaxChoices = 2
  MaxWritten = 3
  MaxFrames = 2
  MaxSessions = 3
  MaxTyped = 3
  MaxOutput = 2
  Subjects <- MCSubjects
  NoSubject = NoSubject
  Things <- MCThings
  HomeSpace = "shop"
  MaxRevision = 3
  MaxMissed = 1
  Proposals <- MCProposals
  MaxTimers = 2
  Windows = {w1, w2}
  LiveObjects <- MCLiveObjects
  FileNameFor <- MCFileNameFor
  Batches <- MCBatches
  Paths <- MCPaths
  Ignored <- MCIgnored
  Main = Main
  Detached = Detached
  CaptureBranches = {b1, b2}
  Person = Person
  NoTree = NoTree
  MaxActs = 1
  MaxForwards = 2
  MaxStops = 1
  MaxDrops = 1
SPECIFICATION WindowSpec
VIEW SceneView
CONSTRAINT CaptureBound
INVARIANT WindowTypeOK
INVARIANT BoxesAreSelected
INVARIANT SettledPanesFit
INVARIANT SettledReportFits
INVARIANT WindowFits
INVARIANT ReviewIsTrue
INVARIANT ClaimsAgree
INVARIANT HistogramCounts
INVARIANT LogFollows
INVARIANT ShellsAreOwned
INVARIANT ExplainIsOfItsEvidence
INVARIANT ForwardsHeld
INVARIANT CaptureHoldsItsOwn
INVARIANT TapeFits
INVARIANT DemoAnswers
CHECK_DEADLOCK FALSE
