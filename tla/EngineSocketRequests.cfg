SPECIFICATION FairSpec
CONSTANTS
    None = None
    pods = pods
    widgets = widgets
    away = away
    n1 = n1
    n2 = n2
    Kinds = {pods, widgets, away}
    Namespaces = {n1, n2}
    Holders = {s1, s2, s3}
    Ids = {i1}
    Targets <- MCTargets
    NoSession <- MCNoSession
    NoKind <- MCNoKind
    Requests = {r1}
    Connections <- MCTwoConnections
    MaxOrders = 1
    MaxDeltas = 1
INVARIANT CarriedOutOnce
PROPERTY EveryRequestSettles
PROPERTY StoppedReleases
CHECK_DEADLOCK FALSE
