SPECIFICATION Spec
CONSTANTS
    e1 = e1
    v4 = v4
    h4 = h4
    k4 = k4
    c4 = c4
    NoPrefix = NoPrefix
    Edges = {e1}
    Families = {v4}
    Prefixes = {h4, k4, c4}
    HostPrefixes = {h4, k4}
    CanaryPrefixes = {c4}
    FamilyOf <- MCFamilyOf
    EorGoroutines = {"eor1"}
SYMMETRY HostSymmetry
CONSTRAINT OneFlaw
INVARIANTS
    TypeOK
    VotesMatchView
    MembersMatchView
