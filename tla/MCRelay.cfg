SPECIFICATION FairSpec
CONSTANTS
    e1 = e1
    e2 = e2
    Edges = {e1, e2}
    Wedged = {e1}
    MaxSent = 3
    MaxConns = 1
CHECK_DEADLOCK FALSE
INVARIANTS
    TypeOK
    PerEdgeFIFO
    NoneDropped
PROPERTIES
    SlowEdgeIsolated
    OrphansEnd
