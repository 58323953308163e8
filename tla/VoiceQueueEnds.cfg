SPECIFICATION FairSpec
CONSTANTS
    Sources = {s1, s2}
    Callers = {c1}
    NoSource = NoSource
    MaxRuns = 2
PROPERTIES
    SourcesReleased
    SkippedTrackEnds
CHECK_DEADLOCK FALSE
