SPECIFICATION FairSpec
CONSTANTS
    w1 = w1
    w2 = w2
    Pushers = {w1}
    Directives <- OverBudget
    ChDepth = 1
    MaxBytes = 1
    MaxSubs = 2
CHECK_DEADLOCK FALSE
INVARIANT
    DoneClosedOnce
PROPERTIES
    ChunkUnblocked
    DroppedDeltaResyncs
