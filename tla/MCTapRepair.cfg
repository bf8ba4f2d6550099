SPECIFICATION FairSpec
CONSTANTS
    e1 = e1
    e2 = e2
    v4 = v4
    h4 = h4
    c4 = c4
    NoPrefix = NoPrefix
    Edges = {e1}
    Families = {v4}
    Prefixes = {h4, c4}
    HostPrefixes = {h4}
    CanaryPrefixes = {c4}
    FamilyOf <- MCFamilyOf
    NextHops = {"n1", "n2"}
    Auditing = TRUE
    MaxQueue = 3
    MaxSessions = 2
    MaxChurn = 3
    MaxDrops = 2
    MaxCoverages = 1
CHECK_DEADLOCK FALSE
PROPERTY
    DriftRepaired
