------------------------ MODULE IdentifyCoordinator ------------------------
(***************************************************************************)
(* IdentifyCoordinator (sharding.go): the quota of fresh Identifies the       *)
(* shards of a bot share, and one gate per max_concurrency bucket that stays  *)
(* shut for identifyConcurrencyWindow after an Identify.  A step is one       *)
(* critical section of c.mu, one test of a context or the end of a wait.      *)
(*                                                                         *)
(* The instants resetAt, bucketReadyAt and a caller's timer are kept as what  *)
(* is left of them (resetIn, readyIn, wakeIn), so time never runs out.        *)
(***************************************************************************)
EXTENDS Integers

CONSTANTS
    NumShards,  \* shard IDs are 0..NumShards-1
    Gate,       \* identifyConcurrencyWindow, in ticks
    Limits      \* the session-start limits Get Gateway Bot may return

\* validateSessionStartLimit
ValidLimit(l) ==
    /\ l.total \in Nat \ {0} /\ l.remaining \in 0..l.total
    /\ l.resetAfter \in Nat \ {0} /\ l.maxConcurrency \in Nat \ {0}

ASSUME CoordinatorAssumption ==
    /\ NumShards \in Nat \ {0} /\ Gate \in Nat \ {0}
    /\ \A l \in Limits : ValidLimit(l)

\* Each shard's Session has at most one call of Acquire at a time.
Shards == 0..NumShards - 1

VARIABLES
    total, remaining, resetWindow, resetIn, maxConcurrency,
    readyIn,    \* per bucket; 0 is an absent entry too
    acquiring,  \* where each shard's Acquire is, or what it returned
    wakeIn,     \* what is left of the delay a shard sleeps
    spent,      \* history: Identifies granted since the quota was last set
    since       \* history: per bucket, ticks since its last grant, at most Gate

quotaVars == <<total, remaining, resetWindow, resetIn, spent>>
gateVars  == <<maxConcurrency, readyIn, since>>
callVars  == <<acquiring, wakeIn>>
coordVars == <<quotaVars, gateVars, callVars>>

CoordType ==
    /\ total \in Nat \ {0} /\ remaining \in 0..total
    /\ resetWindow \in Nat \ {0} /\ resetIn \in 0..resetWindow
    /\ maxConcurrency \in Nat \ {0}
    /\ readyIn \in [Shards -> 0..Gate]
    /\ acquiring \in
         [Shards -> {"idle", "try", "wait", "granted", "exhausted", "cancelled"}]
    /\ wakeIn \in [Shards -> 0..Gate]
    /\ spent \in Nat
    /\ since \in [Shards -> 0..Gate]

\* newIdentifyCoordinatorWithClock
CoordInit ==
    /\ \E l \in Limits :
        /\ total = l.total /\ remaining = l.remaining
        /\ resetWindow = l.resetAfter /\ resetIn = l.resetAfter
        /\ maxConcurrency = l.maxConcurrency
    /\ readyIn = [b \in Shards |-> 0]
    /\ acquiring = [s \in Shards |-> "idle"]
    /\ wakeIn = [s \in Shards |-> 0]
    /\ spent = 0
    /\ since = [b \in Shards |-> Gate]

-----------------------------------------------------------------------------
(* resetQuotaLocked: what the quota is once the reset that is due was made.   *)

Bucket(s) == s % maxConcurrency

Left == IF resetIn = 0 THEN total ELSE remaining

ResetQuota ==
    /\ resetIn' = IF resetIn = 0 THEN resetWindow ELSE resetIn
    /\ UNCHANGED <<total, resetWindow>>

Spent == IF resetIn = 0 THEN 0 ELSE spent

-----------------------------------------------------------------------------
(* Acquire                                                                   *)

Moves(s, to) == acquiring' = [acquiring EXCEPT ![s] = to]

Acquire(s) ==
    /\ acquiring[s] = "idle" /\ Moves(s, "try")
    /\ UNCHANGED <<quotaVars, gateVars, wakeIn>>

\* No quota is left until the reset.
AcquireExhausted(s) ==
    /\ acquiring[s] = "try" /\ Left = 0
    /\ ResetQuota /\ UNCHANGED <<remaining, spent>>
    /\ Moves(s, "exhausted")
    /\ UNCHANGED <<gateVars, wakeIn>>

\* The bucket's gate is shut: sleep what is left of it, then start over.
AcquireWaits(s) ==
    /\ acquiring[s] = "try" /\ Left > 0 /\ readyIn[Bucket(s)] > 0
    /\ ResetQuota /\ remaining' = Left /\ spent' = Spent
    /\ Moves(s, "wait")
    /\ wakeIn' = [wakeIn EXCEPT ![s] = readyIn[Bucket(s)]]
    /\ UNCHANGED gateVars

\* Mutant: the quota is tested and the Identify granted, but it is not counted.
TakeUncounted(s) ==
    /\ ResetQuota /\ remaining' = Left /\ spent' = Spent + 1
    /\ readyIn' = [readyIn EXCEPT ![Bucket(s)] = Gate]
    /\ since' = [since EXCEPT ![Bucket(s)] = 0]
    /\ Moves(s, "granted")
    /\ UNCHANGED <<maxConcurrency, wakeIn>>

Take(s) ==
    /\ ResetQuota /\ remaining' = Left - 1 /\ spent' = Spent + 1
    /\ readyIn' = [readyIn EXCEPT ![Bucket(s)] = Gate]
    /\ since' = [since EXCEPT ![Bucket(s)] = 0]
    /\ Moves(s, "granted")
    /\ UNCHANGED <<maxConcurrency, wakeIn>>

\* Mutant: the quota is not tested.
GrantsPastQuota(s) ==
    /\ acquiring[s] = "try" /\ readyIn[Bucket(s)] = 0
    /\ Take(s)

AcquireGranted(s) ==
    /\ acquiring[s] = "try" /\ Left > 0 /\ readyIn[Bucket(s)] = 0
    /\ Take(s)

\* Mutant: a caller that has slept takes its turn without looking again.
WakesIntoGrant(s) == acquiring[s] = "wait" /\ wakeIn[s] = 0 /\ Left > 0 /\ Take(s)

AcquireWakes(s) ==
    /\ acquiring[s] = "wait" /\ wakeIn[s] = 0
    /\ Moves(s, "try")
    /\ UNCHANGED <<quotaVars, gateVars, wakeIn>>

\* The caller's context is done, at the head of the loop or during the wait,
\* which stops its timer.
AcquireCancelled(s) ==
    /\ acquiring[s] \in {"try", "wait"}
    /\ Moves(s, "cancelled") /\ wakeIn' = [wakeIn EXCEPT ![s] = 0]
    /\ UNCHANGED <<quotaVars, gateVars>>

\* The caller uses what Acquire returned.
AcquireReturns(s) ==
    /\ acquiring[s] \in {"granted", "exhausted", "cancelled"}
    /\ Moves(s, "idle")
    /\ UNCHANGED <<quotaVars, gateVars, wakeIn>>

-----------------------------------------------------------------------------
(* Refresh, Status (and SessionStartLimit, which calls it), and time.         *)

Refresh ==
    \E l \in Limits :
        /\ total' = l.total /\ remaining' = l.remaining
        /\ resetWindow' = l.resetAfter /\ resetIn' = l.resetAfter
        /\ maxConcurrency' = l.maxConcurrency
        /\ IF maxConcurrency = l.maxConcurrency
           THEN UNCHANGED <<readyIn, since>>
           ELSE readyIn' = [b \in Shards |-> 0] /\ since' = [b \in Shards |-> Gate]
        /\ spent' = 0
        /\ UNCHANGED callVars

Status ==
    /\ resetIn = 0
    /\ ResetQuota /\ remaining' = Left /\ spent' = Spent
    /\ UNCHANGED <<gateVars, callVars>>

Pred(n) == IF n = 0 THEN 0 ELSE n - 1

Tick ==
    /\ resetIn' = Pred(resetIn)
    /\ readyIn' = [b \in Shards |-> Pred(readyIn[b])]
    /\ wakeIn' = [s \in Shards |-> Pred(wakeIn[s])]
    /\ since' = [b \in Shards |-> IF since[b] < Gate THEN since[b] + 1 ELSE Gate]
    /\ UNCHANGED <<total, remaining, resetWindow, spent, maxConcurrency, acquiring>>

AcquireStep(s) ==
    AcquireExhausted(s) \/ AcquireWaits(s) \/ AcquireGranted(s) \/ AcquireWakes(s)

CoordNext ==
    \/ \E s \in Shards :
        Acquire(s) \/ AcquireStep(s) \/ AcquireCancelled(s) \/ AcquireReturns(s)
    \/ Refresh \/ Status \/ Tick

CoordSpec == CoordInit /\ [][CoordNext]_coordVars

-----------------------------------------------------------------------------
(* Between two settings of the quota (a response, a local reset) no more than *)
(* total Identifies are granted, whatever callers wait and wake meanwhile.    *)
QuotaHeld == spent + remaining <= total

(* No Identify is granted within identifyConcurrencyWindow of the last one of *)
(* the same bucket, also when several callers wait for the gate and wake at   *)
(* once, and over resets and refreshes of the quota.  (A new max_concurrency  *)
(* drops the gates, and with them the history.)                             *)
GateHeld ==
    [][\A s \in Shards :
         acquiring[s] # "granted" /\ acquiring'[s] = "granted" =>
           since[Bucket(s)] >= Gate]_coordVars

=============================================================================
