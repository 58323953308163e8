SPECIFICATION Spec
CONSTRAINT SecondIsSynced
CONSTANTS
    Ids = {1, 2}
    MaxVersion = 2
    MaxMessageCount = 1
    Exercised <- OneOrTwo
    Overtaken = {"role"}
    MaxGenerations = 3
    MaxChanges <- Changes
    BeatingConnections = 2
    MaxBeats = 2
INVARIANTS TypeOK NothingSkipped InSync
PROPERTIES JudgedByItsOwn
CHECK_DEADLOCK FALSE
