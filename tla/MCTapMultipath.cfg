SPECIFICATION Spec
CONSTANTS
    e1 = e1
    e2 = e2
    v4 = v4
    h4 = h4
    c4 = c4
    NoPrefix = NoPrefix
    Edges = {e1}
    Families = {v4}
    Prefixes = {h4, c4}
    HostPrefixes = {h4}
    CanaryPrefixes = {c4}
    FamilyOf <- MCFamilyOf
    NextHops = {"n1", "n2"}
    Auditing = FALSE
    MaxQueue = 3
    MaxSessions = 1
    MaxChurn = 4
    MaxDrops = 0
    MaxCoverages = 1
CHECK_DEADLOCK FALSE
INVARIANT
    AbsenceTrustworthy
