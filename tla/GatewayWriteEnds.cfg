SPECIFICATION FairSpec
CONSTANTS
    MaxGens = 1
    Callers = {c1}
    Limit = 1
    Window = 1
    QueueSize = 1
    Cooldown = 1
PROPERTIES
    CallersReleased
    GenerationEnds
CHECK_DEADLOCK FALSE
