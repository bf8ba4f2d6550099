SPECIFICATION LinkFairSpec
CONSTANTS
    Threshold = 5
    MaxPods = 3
    MaxFaults = 2
CHECK_DEADLOCK FALSE
INVARIANT
    LinkType
PROPERTIES
    LinkHeals
    ReportsHeal
