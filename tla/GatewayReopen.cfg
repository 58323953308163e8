SPECIFICATION Spec
CONSTANTS
    MaxLife = 2
    MaxGens = 2
    NClosers = 1
INVARIANTS
    TypeOK
    NoLeakedSocket
    NoOrphanGeneration
    EventsAlternate
    NoEventStuck
    OneConnector
    StrandedOnlyByRace
CHECK_DEADLOCK FALSE
