SPECIFICATION Spec
CONSTANTS
    w1 = w1
    w2 = w2
    Pushers = {w1, w2}
    Directives <- Mixed
    ChDepth = 3
    MaxBytes = 3
    MaxSubs = 1
CHECK_DEADLOCK FALSE
SYMMETRY PusherSymmetry
PROPERTY
    ImplementsDownlink
INVARIANTS
    TypeOK
    NoLostWake
    QueueBounded
