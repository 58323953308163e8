SPECIFICATION Spec
CONSTRAINT SharedOrRestarted
CONSTANTS
    l1 = l1
    l2 = l2
    e1 = e1
    e2 = e2
    Loops = {l1, l2}
    Extensions = {e1, e2}
    Staged <- SharedStaging
    Callers = {c1}
    NoCaller = NoCaller
    MaxRuns <- TwoRunsAndOne
INVARIANTS
    TypeOK
    LoadIsAtomic
PROPERTIES
    WaiterGetsItsResult
    ForgottenOnlyByOlderRun
\* Every goroutine may return and every caller may stop calling.
CHECK_DEADLOCK FALSE
