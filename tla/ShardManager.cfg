SPECIFICATION FairSpec
CONSTANTS
    NumShards = 2
    Gate = 2
    Limits <- SmallLimits
    Closers = {c1, c2}
INVARIANTS
    TypeOK
    QuotaHeld
    ClosedIsQuiet
PROPERTIES
    GateHeld
    ShutdownEnds
CHECK_DEADLOCK FALSE
