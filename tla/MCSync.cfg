SPECIFICATION FairSpec
CONSTANTS
    Threshold = 1
    MaxPods = 1
    MaxFaults = 1
    MaxSubs = 2
    MaxGen = 2
    Pushers <- MCPushers
    Directives <- MCDirectives
CHECK_DEADLOCK FALSE
INVARIANTS
    TypeOK
    QuietInSync
PROPERTY
    Converges
