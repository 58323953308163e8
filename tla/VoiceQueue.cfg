SPECIFICATION Spec
CONSTANTS
    Sources = {s1, s2}
    Callers = {c1, c2}
    NoSource = NoSource
    MaxRuns = 2
INVARIANTS
    TypeOK
    NoSourceLost
    NoLostWakeup
PROPERTY
    KeepsTrackOrder
CHECK_DEADLOCK FALSE
