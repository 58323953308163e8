SPECIFICATION Spec
CONSTRAINT NoRetryAfterMove
CONSTANTS
    h1 = h1
    h2 = h2
    FirstHash <- OneHash
    Requests = {p1, p2}
    Routes = {r1, r2}
    Hashes = {h1, h2}
    ServerLimit = 1
    MaxBuckets = 2
    InvalidRequestLimit = 1
    MaxRestRetries = 1
    MaxMoves = 1
INVARIANTS
    TypeOK
    BreakerOvershoot
    LockCycleOnlyAfterMove
PROPERTIES
    RejectedOnlyWhenSplit
SYMMETRY Alike
VIEW ByReference
CHECK_DEADLOCK FALSE
