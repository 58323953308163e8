------------------------- MODULE ShardManagerProofs -------------------------
(***************************************************************************)
(* Theorems about the IdentifyCoordinator, for any number of shards, and      *)
(* about the ShardManager, for any number of callers of Close: it uses the    *)
(* coordinator only as the coordinator allows, so what is proved of the       *)
(* coordinator holds of it; and its state machine is whole.                  *)
(***************************************************************************)
EXTENDS ShardManager, TLAPS

(* The coordinator alone, for any gate and any limits that pass                *)
(* validateSessionStartLimit.                                               *)

\* A gate never opens before the time since the last Identify is up.
GatesApart == \A b \in Shards : readyIn[b] + since[b] >= Gate

CoordInv == CoordType /\ QuotaHeld /\ GatesApart

-----------------------------------------------------------------------------
(* The bucket of a shard is one of the indices of readyIn.                    *)
LEMMA BucketInShards ==
  ASSUME CoordType, NEW s \in Shards PROVE Bucket(s) \in Shards
<1>1. s \in Nat /\ maxConcurrency \in Nat \ {0} /\ s <= NumShards - 1
  BY CoordinatorAssumption DEF CoordType, Shards
<1>2. s % maxConcurrency \in Nat /\ s % maxConcurrency <= s
  BY <1>1
<1> QED
  BY <1>1, <1>2, CoordinatorAssumption DEF Bucket, Shards

(* resetQuotaLocked leaves a quota of at most total, and no less than it had    *)
(* if none was due.                                                          *)
LEMMA QuotaAfterReset ==
  ASSUME CoordType, QuotaHeld
  PROVE  Left \in 0..total /\ Spent \in Nat /\ Spent + Left <= total
  BY DEF CoordType, QuotaHeld, Left, Spent

LEMMA ResetType ==
  ASSUME CoordType, ResetQuota
  PROVE  /\ total' \in Nat \ {0} /\ resetWindow' \in Nat \ {0}
         /\ resetIn' \in 0..resetWindow' /\ total' = total
  BY DEF CoordType, ResetQuota

LEMMA PredType ==
  ASSUME NEW m \in Nat, NEW n \in 0..m PROVE Pred(n) \in 0..m /\ Pred(n) <= n /\ n <= Pred(n) + 1
  BY DEF Pred

LEMMA TickKeeps ==
  ASSUME CoordInv, Tick PROVE CoordInv'
<1>1. resetIn' \in 0..resetWindow
  BY PredType DEF CoordInv, CoordType, Tick
<1>2. readyIn' \in [Shards -> 0..Gate] /\ wakeIn' \in [Shards -> 0..Gate]
  BY PredType, CoordinatorAssumption DEF CoordInv, CoordType, Tick
<1>3. since' \in [Shards -> 0..Gate]
  BY CoordinatorAssumption DEF CoordInv, CoordType, Tick
<1>4. CoordType'
  BY <1>1, <1>2, <1>3 DEF CoordInv, CoordType, Tick
<1>5. GatesApart'
  <2>1. SUFFICES ASSUME NEW b \in Shards PROVE readyIn'[b] + since'[b] >= Gate
    BY DEF GatesApart
  <2>2. readyIn[b] \in 0..Gate /\ since[b] \in 0..Gate /\ readyIn[b] + since[b] >= Gate
    BY DEF CoordInv, CoordType, GatesApart
  <2>3. /\ readyIn'[b] = Pred(readyIn[b])
        /\ since'[b] = IF since[b] < Gate THEN since[b] + 1 ELSE Gate
    BY DEF Tick
  <2> QED
    BY <2>2, <2>3, CoordinatorAssumption DEF Pred
<1> QED
  BY <1>4, <1>5 DEF CoordInv, QuotaHeld, Tick

LEMMA GrantKeeps ==
  ASSUME CoordInv, NEW s \in Shards, AcquireGranted(s) PROVE CoordInv'
<1> DEFINE b == Bucket(s)
<1>1. b \in Shards
  BY BucketInShards DEF CoordInv
<1>2. /\ readyIn' = [readyIn EXCEPT ![b] = Gate] /\ since' = [since EXCEPT ![b] = 0]
      /\ remaining' = Left - 1 /\ spent' = Spent + 1 /\ Left > 0 /\ ResetQuota
      /\ UNCHANGED <<maxConcurrency, wakeIn>>
      /\ acquiring' = [acquiring EXCEPT ![s] = "granted"]
  BY DEF AcquireGranted, Take, Moves
<1> HIDE DEF b
<1>3. CoordType /\ QuotaHeld /\ GatesApart
  BY DEF CoordInv
<1>4. readyIn' \in [Shards -> 0..Gate] /\ since' \in [Shards -> 0..Gate]
  BY <1>1, <1>2, <1>3, CoordinatorAssumption DEF CoordType
<1>5. CoordType'
  BY <1>2, <1>3, <1>4, QuotaAfterReset, ResetType DEF CoordType
<1>6. QuotaHeld'
  BY <1>2, <1>3, QuotaAfterReset, ResetType DEF QuotaHeld, CoordType
<1>7. GatesApart'
  BY <1>1, <1>2, <1>3, CoordinatorAssumption DEF GatesApart, CoordType
<1> QED
  BY <1>5, <1>6, <1>7 DEF CoordInv

LEMMA AcquireKeeps ==
  ASSUME CoordInv, NEW s \in Shards,
         \/ Acquire(s) \/ AcquireExhausted(s) \/ AcquireWaits(s) \/ AcquireWakes(s)
         \/ AcquireCancelled(s) \/ AcquireReturns(s)
  PROVE  CoordInv'
<1>1. CoordType /\ QuotaHeld /\ GatesApart
  BY DEF CoordInv
<1>2. GatesApart' /\ maxConcurrency' = maxConcurrency /\ readyIn' = readyIn /\ since' = since
  BY <1>1
     DEF GatesApart, Acquire, AcquireExhausted, AcquireWaits, AcquireWakes, AcquireCancelled,
         AcquireReturns, gateVars
<1>3. CASE AcquireExhausted(s)
  <2>1. UNCHANGED <<remaining, spent, wakeIn>> /\ ResetQuota
        /\ acquiring' = [acquiring EXCEPT ![s] = "exhausted"]
    BY <1>3 DEF AcquireExhausted, Moves
  <2>2. CoordType'
    BY <1>1, <1>2, <2>1, ResetType DEF CoordType
  <2> QED
    BY <1>1, <1>2, <2>1, <2>2, ResetType DEF CoordInv, QuotaHeld
<1>4. CASE AcquireWaits(s)
  <2>1. readyIn[Bucket(s)] \in 0..Gate
    BY <1>1, BucketInShards DEF CoordType
  <2>2. /\ ResetQuota /\ remaining' = Left /\ spent' = Spent
        /\ wakeIn' = [wakeIn EXCEPT ![s] = readyIn[Bucket(s)]]
        /\ acquiring' = [acquiring EXCEPT ![s] = "wait"]
    BY <1>4 DEF AcquireWaits, Moves
  <2>3. CoordType'
    BY <1>1, <1>2, <2>1, <2>2, ResetType, QuotaAfterReset DEF CoordType
  <2> QED
    BY <1>1, <1>2, <2>2, <2>3, ResetType, QuotaAfterReset DEF CoordInv, QuotaHeld
<1>5. CASE Acquire(s) \/ AcquireWakes(s) \/ AcquireCancelled(s) \/ AcquireReturns(s)
  <2>1. UNCHANGED quotaVars
    BY <1>5 DEF Acquire, AcquireWakes, AcquireCancelled, AcquireReturns
  <2>2. wakeIn' \in [Shards -> 0..Gate]
    BY <1>1, <1>5, CoordinatorAssumption
       DEF CoordType, Acquire, AcquireWakes, AcquireCancelled, AcquireReturns
  <2>3. acquiring' \in
          [Shards -> {"idle", "try", "wait", "granted", "exhausted", "cancelled"}]
    BY <1>1, <1>5
       DEF CoordType, Acquire, AcquireWakes, AcquireCancelled, AcquireReturns, Moves
  <2> QED
    BY <1>1, <1>2, <2>1, <2>2, <2>3 DEF CoordInv, CoordType, QuotaHeld, quotaVars
<1> QED
  BY <1>3, <1>4, <1>5

LEMMA RefreshKeeps ==
  ASSUME CoordInv, Refresh PROVE CoordInv'
<1>1. PICK l \in Limits :
        /\ total' = l.total /\ remaining' = l.remaining
        /\ resetWindow' = l.resetAfter /\ resetIn' = l.resetAfter
        /\ maxConcurrency' = l.maxConcurrency
        /\ \/ UNCHANGED <<readyIn, since>>
           \/ readyIn' = [b \in Shards |-> 0] /\ since' = [b \in Shards |-> Gate]
        /\ spent' = 0 /\ UNCHANGED callVars
  BY DEF Refresh
<1>2. ValidLimit(l)
  BY CoordinatorAssumption
<1>3. readyIn' \in [Shards -> 0..Gate] /\ since' \in [Shards -> 0..Gate] /\ GatesApart'
  BY <1>1, CoordinatorAssumption DEF CoordInv, CoordType, GatesApart
<1> QED
  BY <1>1, <1>2, <1>3 DEF CoordInv, CoordType, QuotaHeld, ValidLimit, callVars

LEMMA StatusKeeps ==
  ASSUME CoordInv, Status PROVE CoordInv'
  BY ResetType, QuotaAfterReset
     DEF CoordInv, CoordType, QuotaHeld, GatesApart, Status, gateVars, callVars

LEMMA CoordStepKeeps ==
  ASSUME CoordInv, [CoordNext]_coordVars PROVE CoordInv'
<1>1. CASE \E s \in Shards : AcquireGranted(s)
  BY <1>1, GrantKeeps
<1>2. CASE \E s \in Shards :
             \/ Acquire(s) \/ AcquireExhausted(s) \/ AcquireWaits(s) \/ AcquireWakes(s)
             \/ AcquireCancelled(s) \/ AcquireReturns(s)
  BY <1>2, AcquireKeeps
<1>3. CASE Refresh
  BY <1>3, RefreshKeeps
<1>4. CASE Status
  BY <1>4, StatusKeeps
<1>5. CASE Tick
  BY <1>5, TickKeeps
<1>6. CASE UNCHANGED coordVars
  BY <1>6
     DEF CoordInv, CoordType, QuotaHeld, GatesApart, coordVars, quotaVars, gateVars, callVars
<1> QED
  BY <1>1, <1>2, <1>3, <1>4, <1>5, <1>6 DEF CoordNext, AcquireStep

LEMMA CoordInitHolds ==
  ASSUME CoordInit PROVE CoordInv
<1>1. PICK l \in Limits :
        /\ total = l.total /\ remaining = l.remaining
        /\ resetWindow = l.resetAfter /\ resetIn = l.resetAfter
        /\ maxConcurrency = l.maxConcurrency
  BY DEF CoordInit
<1>2. ValidLimit(l)
  BY CoordinatorAssumption
<1> QED
  BY <1>1, <1>2, CoordinatorAssumption
     DEF CoordInit, CoordInv, CoordType, QuotaHeld, GatesApart, ValidLimit

(* The step that grants an Identify finds the gate of its bucket open.          *)
LEMMA GrantFindsGateOpen ==
  ASSUME CoordInv, [CoordNext]_coordVars, NEW s \in Shards,
         acquiring[s] # "granted", acquiring'[s] = "granted"
  PROVE  since[Bucket(s)] >= Gate
<1>1. AcquireGranted(s)
  BY DEF CoordInv, CoordType, CoordNext, AcquireStep, Acquire, AcquireExhausted, AcquireWaits,
         AcquireGranted, Take, AcquireWakes, AcquireCancelled, AcquireReturns, Moves, Refresh,
         Status, Tick, callVars, coordVars
<1>2. Bucket(s) \in Shards
  BY BucketInShards DEF CoordInv
<1>3. readyIn[Bucket(s)] = 0
  BY <1>1 DEF AcquireGranted
<1>4. since[Bucket(s)] \in 0..Gate /\ readyIn[Bucket(s)] + since[Bucket(s)] >= Gate
  BY <1>2 DEF CoordInv, CoordType, GatesApart
<1> QED
  BY <1>3, <1>4, CoordinatorAssumption

-----------------------------------------------------------------------------
(* The coordinator keeps its types and never grants more than the quota, in    *)
(* every use of Acquire, Refresh and Status.                                  *)
THEOREM CoordSafe == CoordSpec => [](CoordType /\ QuotaHeld)
<1>1. CoordInv /\ [CoordNext]_coordVars => CoordInv'
  BY CoordStepKeeps
<1> QED
  BY <1>1, CoordInitHolds, PTL DEF CoordSpec, CoordInv

(* Two Identifies of a bucket are identifyConcurrencyWindow apart, in every     *)
(* use of Acquire, Refresh and Status.                                        *)
THEOREM CoordGates == CoordSpec => GateHeld
<1>1. CoordInv /\ [CoordNext]_coordVars => CoordInv'
  BY CoordStepKeeps
<1>2. CoordInv /\ [CoordNext]_coordVars =>
        [\A s \in Shards : acquiring[s] # "granted" /\ acquiring'[s] = "granted" =>
           since[Bucket(s)] >= Gate]_coordVars
  BY GrantFindsGateOpen
<1> QED
  BY <1>1, <1>2, CoordInitHolds, PTL DEF CoordSpec, GateHeld

-----------------------------------------------------------------------------
(* The manager.                                                             *)

ManagerType ==
    /\ state \in {"closed", "opening", "open", "closing"}
    /\ lifetimeDone \in BOOLEAN /\ cleanupCompleted \in BOOLEAN
    /\ open \in {"idle", "join", "decide", "cleanup"}
    /\ openErr \in BOOLEAN /\ orphan \subseteq Shards
    /\ session \in [Shards -> {"closed", "opening", "open"}]
    /\ closer \in [Closers -> {"idle", "cancel", "join", "cleanup", "finish", "follow"}]

(* Where Open is, against the state and the shards.                            *)
OpenAgrees ==
    /\ open # "idle" => state \in {"opening", "closing"}
    /\ state = "opening" => open # "idle"
    /\ \A s \in Shards : session[s] = "opening" => open = "join"
    /\ open = "cleanup" => lifetimeDone \/ state = "closing"
    /\ openErr => lifetimeDone /\ open \in {"join", "cleanup"}
    /\ state = "closed" => lifetimeDone /\ AllClosed

(* Where the Close that works is, against Open and the shards.                 *)
CloseAgrees ==
    /\ \A c \in Closers :
        /\ closer[c] # "idle" => state = "closing"
        /\ closer[c] \in {"join", "cleanup", "finish"} => lifetimeDone
        /\ closer[c] \in {"cleanup", "finish"} => open = "idle"
        /\ closer[c] = "finish" => AllClosed
    /\ cleanupCompleted => AllClosed /\ open = "idle"

ManagerInv == ManagerType /\ OpenAgrees /\ CloseAgrees /\ OneCloser

-----------------------------------------------------------------------------
(* A step of the manager is a step of the coordinator, or none of it.          *)
LEMMA UsesCoordinator == ASSUME [Next]_vars PROVE [CoordNext]_coordVars
<1>1. CASE ManagerStep
  BY <1>1 DEF ManagerStep, Open, OpenJoins, OpenDecides, OpenFinishes, CancelParent
<1>2. ASSUME NEW c \in Closers, CloseBegins(c) \/ CloseFollows(c) \/ CloseStep(c)
      PROVE  [CoordNext]_coordVars
  BY <1>2
     DEF CloseBegins, CloseFollows, CloseStep, CloseCancels, CloseJoins, CloseCleansUp,
         CloseFinishes
<1>3. ASSUME NEW s \in Shards, ShardStep(s) PROVE [CoordNext]_coordVars
  <2>1. Acquire(s) \/ AcquireReturns(s) \/ UNCHANGED coordVars
    BY <1>3
       DEF ShardStep, ShardIdentifies, ShardGoesOn, OrphanExits, ShardOpens, ShardFails,
           OpenEnds, ShardEnds, CloseSession, SessionCloses
  <2> QED
    BY <2>1 DEF CoordNext
<1>4. CASE CoordinatorStep
  BY <1>4 DEF CoordinatorStep, CoordNext
<1>5. CASE UNCHANGED vars
  BY <1>5 DEF vars
<1> QED
  BY <1>1, <1>2, <1>3, <1>4, <1>5 DEF Next

(* A step of the coordinator leaves the manager and the shards alone.          *)
LEMMA CoordinatorKeeps ==
  ASSUME ManagerInv, UNCHANGED <<managerVars, shardVars>> PROVE ManagerInv'
  BY DEF ManagerInv, ManagerType, OpenAgrees, CloseAgrees, OneCloser, Working, AllClosed,
         managerVars, shardVars

LEMMA OpenKeeps == ASSUME ManagerInv, ManagerStep PROVE ManagerInv'
<1> USE DEF ManagerInv, ManagerType
<1>1. CASE Open
  <2>1. \A s \in Shards : session'[s] = "opening"
    BY <1>1 DEF Open
  <2>2. \A c \in Closers : closer[c] = "idle"
    BY <1>1 DEF Open, CloseAgrees
  <2>3. ManagerType'
    BY <1>1 DEF Open
  <2> QED
    BY <1>1, <2>1, <2>2, <2>3 DEF Open, OpenAgrees, CloseAgrees, OneCloser, Working
<1>2. CASE OpenJoins
  BY <1>2 DEF OpenJoins, OpenAgrees, CloseAgrees, OneCloser, Working, AllClosed, shardVars
<1>3. CASE OpenDecides
  BY <1>3 DEF OpenDecides, OpenAgrees, CloseAgrees, OneCloser, Working, AllClosed, shardVars
<1>4. CASE OpenFinishes
  BY <1>4 DEF OpenFinishes, OpenAgrees, CloseAgrees, OneCloser, Working, AllClosed
<1>5. CASE CancelParent
  BY <1>5 DEF CancelParent, OpenAgrees, CloseAgrees, OneCloser, Working, AllClosed, shardVars
<1> QED
  BY <1>1, <1>2, <1>3, <1>4, <1>5 DEF ManagerStep

(* A step of one Close: only its own place changes, but for closeDone.         *)
LEMMA CloseKeeps ==
  ASSUME ManagerInv, NEW c \in Closers, CloseBegins(c) \/ CloseFollows(c) \/ CloseStep(c)
  PROVE  ManagerInv'
<1> USE DEF ManagerInv, ManagerType
<1>1. UNCHANGED <<session, orphan, openErr, open>>
  BY DEF CloseBegins, CloseFollows, CloseStep, CloseCancels, CloseJoins, CloseCleansUp,
         CloseFinishes, shardVars
<1>2. CASE CloseBegins(c)
  <2>1. \A d \in Closers : closer[d] = "idle"
    BY <1>2 DEF CloseBegins, CloseAgrees
  <2>2. \A d \in Closers : closer'[d] = IF d = c THEN "cancel" ELSE "idle"
    BY <1>2, <2>1 DEF CloseBegins, CloserStep
  <2>3. ManagerType'
    BY <1>1, <1>2 DEF CloseBegins, CloserStep
  <2> QED
    BY <1>1, <1>2, <2>2, <2>3
       DEF CloseBegins, OpenAgrees, CloseAgrees, OneCloser, Working, AllClosed
<1>3. CASE CloseFollows(c)
  <2>1. \A d \in Closers : closer'[d] = IF d = c THEN "follow" ELSE closer[d]
    BY <1>3 DEF CloseFollows, CloserStep
  <2>2. ManagerType'
    BY <1>1, <1>3 DEF CloseFollows, CloserStep
  <2> QED
    BY <1>1, <1>3, <2>1, <2>2
       DEF CloseFollows, OpenAgrees, CloseAgrees, OneCloser, Working, AllClosed
<1>4. CASE CloseCancels(c) \/ CloseJoins(c) \/ CloseCleansUp(c)
  <2>1. PICK to \in {"join", "cleanup", "finish"} :
          \A d \in Closers : closer'[d] = IF d = c THEN to ELSE closer[d]
    BY <1>4 DEF CloseCancels, CloseJoins, CloseCleansUp, CloserStep
  <2>2. ManagerType'
    BY <1>1, <1>4 DEF CloseCancels, CloseJoins, CloseCleansUp, CloserStep
  <2>3. Working(c) /\ \A d \in Closers : Working(d)' <=> Working(d)
    BY <1>4, <2>1 DEF CloseCancels, CloseJoins, CloseCleansUp, Working
  <2>4. OneCloser' /\ state' = state
    BY <1>4, <2>3 DEF CloseCancels, CloseJoins, CloseCleansUp, OneCloser
  <2>5. OpenAgrees'
    BY <1>1, <1>4 DEF CloseCancels, CloseJoins, CloseCleansUp, OpenAgrees, AllClosed
  <2>6. CloseAgrees'
    <3>1. CASE CloseCancels(c)
      BY <1>1, <3>1 DEF CloseCancels, CloserStep, CloseAgrees, AllClosed
    <3>2. CASE CloseJoins(c)
      BY <1>1, <3>2 DEF CloseJoins, CloserStep, CloseAgrees, AllClosed
    <3>3. CASE CloseCleansUp(c)
      BY <1>1, <3>3 DEF CloseCleansUp, CloserStep, CloseAgrees, AllClosed
    <3> QED
      BY <1>4, <3>1, <3>2, <3>3
  <2> QED
    BY <2>2, <2>4, <2>5, <2>6
<1>5. CASE CloseFinishes(c)
  <2>1. \A d \in Closers : Working(d) => d = c
    BY <1>5 DEF CloseFinishes, OneCloser, Working
  <2>2. \A d \in Closers : closer'[d] = "idle"
    BY <1>5, <2>1 DEF CloseFinishes, Working
  <2>3. closer[c] = "finish" /\ lifetimeDone /\ open = "idle" /\ AllClosed
    BY <1>5 DEF CloseFinishes, CloseAgrees
  <2>4. ManagerType'
    BY <1>1, <1>5 DEF CloseFinishes
  <2> QED
    BY <1>1, <1>5, <2>2, <2>3, <2>4
       DEF CloseFinishes, OpenAgrees, CloseAgrees, OneCloser, Working, AllClosed
<1> QED
  BY <1>2, <1>3, <1>4, <1>5 DEF CloseStep

(* A step of a shard: its Session opens only under an Open that waits for it.   *)
LEMMA ShardKeeps ==
  ASSUME ManagerInv, NEW s \in Shards, ShardStep(s) PROVE ManagerInv'
<1> USE DEF ManagerInv, ManagerType
<1>1. CASE ShardIdentifies(s) \/ ShardGoesOn(s)
  BY <1>1, CoordinatorKeeps DEF ShardIdentifies, ShardGoesOn
<1>2. CASE OrphanExits(s)
  BY <1>2
     DEF OrphanExits, managerVars, OpenAgrees, CloseAgrees, OneCloser, Working, AllClosed
<1>3. CASE ShardOpens(s)
  <2>1. open = "join" /\ ~AllClosed
    BY <1>3 DEF ShardOpens, OpenAgrees, AllClosed
  <2>2. \A t \in Shards : session'[t] = IF t = s THEN "open" ELSE session[t]
    BY <1>3 DEF ShardOpens, SessionStep
  <2>3. ManagerType'
    BY <1>3 DEF ShardOpens, SessionStep, managerVars
  <2> QED
    BY <1>3, <2>1, <2>2, <2>3
       DEF ShardOpens, managerVars, OpenAgrees, CloseAgrees, OneCloser, Working
<1>4. CASE ShardFails(s)
  <2>1. open = "join" /\ ~AllClosed
    BY <1>4 DEF ShardFails, OpenEnds, OpenAgrees, AllClosed
  <2>2. \A t \in Shards : session'[t] = IF t = s THEN "closed" ELSE session[t]
    BY <1>4 DEF ShardFails, OpenEnds, SessionStep
  <2>3. ManagerType'
    BY <1>4 DEF ShardFails, OpenEnds, SessionStep
  <2> QED
    BY <1>4, <2>1, <2>2, <2>3
       DEF ShardFails, OpenAgrees, CloseAgrees, OneCloser, Working
<1>5. CASE ShardEnds(s) \/ CloseSession(s)
  <2>1. SessionCloses(s)
    BY <1>5 DEF ShardEnds, CloseSession
  <2>2. \A t \in Shards : session'[t] = IF t = s THEN "closed" ELSE session[t]
    BY <2>1 DEF SessionCloses, SessionStep
  <2>3. ManagerType'
    BY <2>1 DEF SessionCloses, SessionStep, managerVars
  <2> QED
    BY <2>1, <2>2, <2>3
       DEF SessionCloses, managerVars, OpenAgrees, CloseAgrees, OneCloser, Working, AllClosed
<1> QED
  BY <1>1, <1>2, <1>3, <1>4, <1>5 DEF ShardStep

LEMMA StepKeeps == ASSUME ManagerInv, [Next]_vars PROVE ManagerInv'
<1>1. CASE CoordinatorStep
  BY <1>1, CoordinatorKeeps DEF CoordinatorStep
<1>2. CASE UNCHANGED vars
  BY <1>2, CoordinatorKeeps DEF vars
<1> QED
  BY <1>1, <1>2, OpenKeeps, CloseKeeps, ShardKeeps DEF Next

LEMMA InitHolds == ASSUME Init PROVE ManagerInv
  BY DEF Init, ManagerInv, ManagerType, OpenAgrees, CloseAgrees, OneCloser, Working, AllClosed

LEMMA InvShows ==
  ASSUME ManagerInv PROVE ManagerType /\ ClosedIsQuiet /\ OneCloser /\ OpenIsWhole
  BY DEF ManagerInv, ManagerType, OpenAgrees, CloseAgrees, ClosedIsQuiet, OpenIsWhole

-----------------------------------------------------------------------------
(* The manager and its shards implement the coordinator's specification.       *)
THEOREM ImplementsCoordinator == Spec => CoordSpec
<1>1. Init => CoordInit
  BY DEF Init
<1>2. [Next]_vars => [CoordNext]_coordVars
  BY UsesCoordinator
<1> QED
  BY <1>1, <1>2, PTL DEF Spec, CoordSpec

(* Whatever Open, Close and the shards do, the variables keep their types.     *)
THEOREM TypeCorrect == Spec => []TypeOK
<1>1. ManagerInv /\ [Next]_vars => ManagerInv'
  BY StepKeeps
<1>2. Spec => []ManagerInv
  BY <1>1, InitHolds, PTL DEF Spec
<1>3. ManagerInv /\ CoordType => TypeOK
  BY DEF ManagerInv, ManagerType, TypeOK
<1>4. Spec => []CoordType
  BY ImplementsCoordinator, CoordSafe, PTL
<1> QED
  BY <1>2, <1>3, <1>4, PTL

(* Shards that open and reconnect under Open and Close stay within the quota.  *)
THEOREM ShardsWithinQuota == Spec => []QuotaHeld
  BY ImplementsCoordinator, CoordSafe, PTL

(* Their Identifies respect the gates of the buckets.                         *)
THEOREM ShardsRespectGates == Spec => GateHeld
  BY ImplementsCoordinator, CoordGates, PTL

(* Open, Close and the shards, in any order: a closed manager has nothing left *)
(* open or running, one Close works at a time, an open manager is whole.       *)
THEOREM ManagerSafe == Spec => [](ClosedIsQuiet /\ OneCloser /\ OpenIsWhole)
<1>1. ManagerInv /\ [Next]_vars => ManagerInv'
  BY StepKeeps
<1> QED
  BY <1>1, InitHolds, InvShows, PTL DEF Spec

=============================================================================
