SPECIFICATION Spec
CONSTANTS
    None = None
    pods = pods
    widgets = widgets
    away = away
    n1 = n1
    n2 = n2
    Kinds = {pods, widgets, away}
    Namespaces = {n1, n2}
    Holders = {s1, s2, s3, s4}
    Ids = {i1}
    Targets <- MCTargets
    NoSession <- MCNoSession
    NoKind <- MCNoKind
    Requests = {}
    Connections <- MCTwoConnections
    MaxOrders = 2
    MaxDeltas = 0
INVARIANT RowsOfOneSubscription
CHECK_DEADLOCK FALSE
