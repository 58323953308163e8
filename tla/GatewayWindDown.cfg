SPECIFICATION FairSpec
CONSTANTS
    MaxLife = 1
    MaxGens = 2
    NClosers = 1
PROPERTY
    CancelledWindsDown
CHECK_DEADLOCK FALSE
