SPECIFICATION Spec
CONSTANTS
    e1 = e1
    e2 = e2
    e3 = e3
    v4 = v4
    h4 = h4
    c4 = c4
    NoPrefix = NoPrefix
    Edges = {e1, e2, e3}
    Families = {v4}
    Prefixes = {h4, c4}
    HostPrefixes = {h4}
    FamilyOf <- MCFamilyOf
SYMMETRY EdgeSymmetry
INVARIANTS
    TypeOK
    AlarmBalance
    ViewAlarmTrue
