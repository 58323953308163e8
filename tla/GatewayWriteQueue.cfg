SPECIFICATION Spec
CONSTANTS
    MaxGens = 1
    Callers = {c1, c2}
    Limit = 2
    Window = 2
    QueueSize = 1
    Cooldown = 1
INVARIANTS
    TypeOK
    WaitersServed
    CooldownHeld
PROPERTIES
    WindowHeld
CHECK_DEADLOCK FALSE
