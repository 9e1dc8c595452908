SPECIFICATION Spec
CONSTANTS
    None = None
    pods = pods
    widgets = widgets
    away = away
    n1 = n1
    n2 = n2
    Kinds = {pods, widgets, away}
    Namespaces = {n1, n2}
    Holders = {s1}
    Ids = {i1}
    Targets <- MCTargets
    NoSession <- MCNoSession
    NoKind <- MCNoKind
    Requests = {r1}
    Connections <- MCTwoConnections
    MaxOrders = 0
    MaxDeltas = 0
INVARIANT OneAnswerOrError
CHECK_DEADLOCK FALSE
