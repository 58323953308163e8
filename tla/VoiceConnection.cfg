SPECIFICATION Spec
SYMMETRY Symmetry
CONSTRAINT TwoCalls
CONSTANTS
    MaxConns = 2
    MaxGens = 3
    Openers = {o1, o2}
    MaxJoins = 2
    MaxMoves = 1
    MaxLeaves = 1
INVARIANTS
    TypeOK
    ReadyIsUsable
    DownOnlyByFault
CHECK_DEADLOCK FALSE
