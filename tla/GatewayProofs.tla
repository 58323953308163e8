--------------------------- MODULE GatewayProofs ---------------------------
(***************************************************************************)
(* Theorems about the Gateway lifecycle, for any number of lifecycles,      *)
(* generations and callers of Close.                                        *)
(***************************************************************************)
EXTENDS Gateway, TLAPS

\* An opener that works on a generation it began.
Works(p) == opener[p] \in {"dial", "hello", "auth", "await", "activate"}

(* The heart of the argument: a generation is the Session's connection exactly   *)
(* from beginGatewayGeneration to the critical section of its finish.Do.         *)
CurrentIffUnfinished ==
    \A g \in Gens :
        connection = g <=> g <= connectionCounter /\ finish[g] \in {"no", "enter"}

(* Generations that were not begun have no owner, no listener and no finish.Do.  *)
BegunOnly ==
    /\ connection <= connectionCounter
    /\ \A g \in Gens :
        /\ g <= connectionCounter <=> owner[g] # None
        /\ finish[g] # "no" => g <= connectionCounter
        /\ listener[g] # "off" => g <= connectionCounter
    /\ \A p \in Openers : openGen[p] <= connectionCounter

(* An opener owns the generation it works on until it is activated.              *)
OpenersApart ==
    /\ \A p \in Openers : Works(p) => openGen[p] # None /\ openGen[p] \notin connected
    /\ \A p \in Openers : opener[p] = "dial" => openGen[p] \notin sockets
    /\ \A p, q \in Openers : Works(p) /\ Works(q) /\ openGen[p] = openGen[q] => p = q

ConnectedIsCurrent == \A g \in connected : connection = g

GatewayInv ==
    /\ TypeOK
    /\ CurrentIffUnfinished
    /\ BegunOnly
    /\ OpenersApart
    /\ ConnectedIsCurrent
    /\ NoLeakedSocket
    /\ NoOrphanGeneration

-----------------------------------------------------------------------------
(* The shapes of the model's small sets.                                     *)

LEMMA OpenerShape ==
  /\ \A p \in Openers : p[1] \in {"open", "reconnect"} /\ p[2] \in Lives
  /\ \A l \in Lives : <<"open", l>> \in Openers /\ <<"reconnect", l>> \in Openers
  BY DEF Openers

LEMMA StopResultType == StopResult \in Results
  BY DEF Results, Result, StopResult, Actions

LEMMA ResultType ==
  ASSUME NEW a \in Actions, NEW b \in BOOLEAN PROVE Result(a, b) \in Results
  BY DEF Results, Result

(* An opener that works on a generation works on one that was begun.             *)
LEMMA WorksOnGen ==
  ASSUME GatewayInv, NEW p \in Openers, Works(p)
  PROVE openGen[p] \in Gens /\ openGen[p] \notin connected
  BY BoundsAssumption DEF GatewayInv, TypeOK, OpenType, OpenersApart, Gens, None

-----------------------------------------------------------------------------
(* What the shared critical sections do to the types.                        *)

LEMMA FinishWithType ==
  ASSUME FinType, NEW g \in 0..MaxGens, NEW res \in Results, FinishWith(g, res)
  PROVE FinType'
  BY DEF FinType, FinishWith, Entered, EnteredRes, Gens, None, FinishPCs

LEMMA EndLifecycleType ==
  ASSUME LifeType, lifecycle # None, EndLifecycle PROVE LifeType'
<1> USE BoundsAssumption DEF None
<1>1. lifecycle \in Lives
  BY DEF LifeType, Lives
<1>2. cancelled' \subseteq Lives
  BY <1>1 DEF LifeType, EndLifecycle
<1>3. lifecycle' \in 0..MaxLife /\ lifecycleCounter' \in 0..MaxLife
  BY DEF LifeType, EndLifecycle
<1>4. reconnectRunning' \in BOOLEAN
  BY DEF EndLifecycle
<1> QED
  BY <1>2, <1>3, <1>4 DEF LifeType

LEMMA OpenerLeavesType ==
  ASSUME OpenType, NEW p \in Openers, NEW to \in OpenerPCs, OpenerLeaves(p, to)
  PROVE OpenType'
  BY BoundsAssumption, StopResultType DEF OpenType, OpenerLeaves, OpenerStep, None

LEMMA GiveUpType ==
  ASSUME FinType, OpenType, NEW p \in Openers, NEW res \in Results, GiveUp(p, res)
  PROVE FinType' /\ OpenType'
<1>1. openGen[p] \in 0..MaxGens
  BY DEF OpenType
<1>2. FinType'
  BY <1>1, FinishWithType DEF GiveUp
<1>3. OpenType'
  BY DEF OpenType, GiveUp, OpenerStep, OpenerPCs
<1> QED
  BY <1>2, <1>3

LEMMA AbortType ==
  ASSUME TypeOK, NEW p \in Openers, NEW g \in Gens, NEW res \in Results, Abort(p, g, res)
  PROVE TypeOK'
<1> USE BoundsAssumption DEF None, TypeOK
<1>1. LifeType'
  <2>1. lifecycle' \in 0..MaxLife
    BY DEF Abort, LifeType
  <2>2. reconnectRunning' \in BOOLEAN
    BY DEF Abort, LifeType
  <2>3. cancelled' \subseteq Lives /\ lifecycleCounter' \in 0..MaxLife
    BY DEF Abort, LifeType
  <2> QED
    BY <2>1, <2>2, <2>3 DEF LifeType
<1>2. ConnType'
  BY DEF Abort, ConnType
<1>3. GenType'
  BY DEF Abort, GenType
<1>4. FinType'
  BY DEF Abort, FinType, FinishPCs
<1>5. OpenType'
  BY DEF Abort, OpenType, OpenerStep, OpenerPCs
<1> QED
  BY <1>1, <1>2, <1>3, <1>4, <1>5
     DEF Abort, ReadType, readVars, CloseType, closeVars, EventType, eventVars

(* An opener that goes on with its generation, or stops working on it, leaves     *)
(* every opener apart.                                                            *)
LEMMA OpenerMovesApart ==
  ASSUME OpenersApart, OpenType, NEW p \in Openers, NEW to,
         opener' = [opener EXCEPT ![p] = to],
         to = "dial" => opener[p] = "dial",
         to \in {"hello", "auth", "await", "activate"} => Works(p),
         UNCHANGED <<openGen, connected, sockets>>
  PROVE  OpenersApart'
<1>1. \A q \in Openers : opener'[q] = IF q = p THEN to ELSE opener[q]
  BY DEF OpenType
<1>2. \A q \in Openers : Works(q)' => Works(q)
  BY <1>1 DEF Works
<1> QED
  BY <1>1, <1>2 DEF OpenersApart

(* A step that begins no generation, finishes none that was not begun and gives    *)
(* no opener a new one keeps BegunOnly.                                            *)
LEMMA BegunKept ==
  ASSUME BegunOnly,
         UNCHANGED <<connectionCounter, owner, listener>>,
         connection' <= connectionCounter,
         \A g \in Gens : finish'[g] # "no" => g <= connectionCounter,
         \A q \in Openers : openGen'[q] <= connectionCounter
  PROVE  BegunOnly'
  BY DEF BegunOnly

(* abortGatewayGeneration of the generation that is being dialled.                 *)
LEMMA AbortKeeps ==
  ASSUME GatewayInv, NEW p \in Openers, opener[p] = "dial", NEW res \in Results,
         Abort(p, openGen[p], res)
  PROVE  GatewayInv'
<1> DEFINE n == openGen[p]
<1>1. Works(p) /\ n \in Gens /\ n \notin connected /\ n \notin sockets /\ n <= connectionCounter
  BY WorksOnGen DEF GatewayInv, Works, OpenersApart, BegunOnly
<1>2. TypeOK
  BY DEF GatewayInv
<1>3. /\ UNCHANGED <<connectionCounter, owner, sockets, connected, listener, openGen>>
      /\ opener' = [opener EXCEPT ![p] = "join"]
  BY DEF Abort, OpenerStep, readVars
<1> HIDE DEF n
<1>4. TypeOK'
  BY <1>1, <1>2, AbortType DEF n
<1>5. OpenersApart'
  BY <1>2, <1>3, OpenerMovesApart DEF GatewayInv, TypeOK
<1>6. CASE finish[n] # "no"
  <2>1. UNCHANGED <<finish, connection, lifecycle>>
    BY <1>6 DEF Abort, n
  <2> QED
    BY <1>3, <1>4, <1>5, <2>1
       DEF GatewayInv, CurrentIffUnfinished, BegunOnly, ConnectedIsCurrent, NoLeakedSocket,
           NoOrphanGeneration
<1>7. CASE finish[n] = "no"
  <2>1. connection = n
    BY <1>1, <1>7 DEF GatewayInv, CurrentIffUnfinished
  <2>2. connection' = 0 /\ finish' = [finish EXCEPT ![n] = "done"]
    BY <1>7, <2>1 DEF Abort, n, None
  <2>3. \A g \in Gens : finish'[g] = IF g = n THEN "done" ELSE finish[g]
    BY <1>2, <2>2 DEF TypeOK, FinType
  <2>4. connected = {} /\ sockets = {}
    BY <1>1, <2>1 DEF GatewayInv, ConnectedIsCurrent, NoLeakedSocket
  <2>5. CurrentIffUnfinished'
    <3>1. \A g \in Gens : ~(g <= connectionCounter /\ finish'[g] \in {"no", "enter"})
      BY <2>1, <2>3 DEF GatewayInv, CurrentIffUnfinished
    <3>2. 0 \notin Gens
      BY DEF Gens
    <3> QED
      BY <1>3, <2>2, <3>1, <3>2 DEF CurrentIffUnfinished
  <2>6. BegunOnly'
    <3>1. connection' <= connectionCounter
      BY <1>2, <2>2 DEF TypeOK, ConnType
    <3>2. \A g \in Gens : finish'[g] # "no" => g <= connectionCounter
      BY <1>1, <2>3 DEF GatewayInv, BegunOnly
    <3>3. \A q \in Openers : openGen'[q] <= connectionCounter
      BY <1>3 DEF GatewayInv, BegunOnly
    <3> QED
      BY <1>3, <3>1, <3>2, <3>3, BegunKept DEF GatewayInv
  <2> QED
    BY <1>3, <1>4, <1>5, <2>2, <2>4, <2>5, <2>6
       DEF GatewayInv, ConnectedIsCurrent, NoLeakedSocket, NoOrphanGeneration, None
<1> QED
  BY <1>6, <1>7

(* finishGatewayGeneration called by an opener for the generation it works on:     *)
(* the generation enters finish.Do or already is past that point.                  *)
LEMMA GiveUpKeeps ==
  ASSUME GatewayInv, NEW p \in Openers, Works(p), NEW res \in Results, GiveUp(p, res)
  PROVE  GatewayInv'
<1> DEFINE n == openGen[p]
<1>1. n \in Gens /\ n <= connectionCounter
  BY WorksOnGen DEF GatewayInv, BegunOnly
<1>2. TypeOK
  BY DEF GatewayInv
<1>3. /\ UNCHANGED <<connectionCounter, owner, sockets, connected, listener, openGen,
                     connection, lifecycle>>
      /\ opener' = [opener EXCEPT ![p] = "join"]
  BY DEF GiveUp, OpenerStep, readVars, connVars, genVars, lifeVars
<1>4. \A g \in Gens : finish'[g] = IF g = n /\ finish[g] = "no" THEN "enter" ELSE finish[g]
  BY <1>1, <1>2 DEF GiveUp, FinishWith, Entered, TypeOK, FinType, Gens, None
<1>5. TypeOK'
  <2>1. FinType' /\ OpenType'
    BY <1>2, GiveUpType DEF TypeOK
  <2> QED
    BY <1>2, <2>1
       DEF GiveUp, TypeOK, LifeType, lifeVars, ConnType, connVars, GenType, genVars, ReadType,
           readVars, CloseType, closeVars, EventType, eventVars
<1>6. OpenersApart'
  BY <1>2, <1>3, OpenerMovesApart DEF GatewayInv, TypeOK
<1> HIDE DEF n
<1>7. CurrentIffUnfinished'
  BY <1>3, <1>4 DEF GatewayInv, CurrentIffUnfinished
<1>8. BegunOnly'
  <2>1. \A g \in Gens : finish'[g] # "no" => g <= connectionCounter
    BY <1>1, <1>4 DEF GatewayInv, BegunOnly
  <2>2. connection' <= connectionCounter /\ \A q \in Openers : openGen'[q] <= connectionCounter
    BY <1>3 DEF GatewayInv, BegunOnly
  <2> QED
    BY <1>3, <2>1, <2>2, BegunKept DEF GatewayInv
<1>9. NoLeakedSocket'
  <2>1. sockets \subseteq Gens
    BY <1>2 DEF TypeOK, ConnType
  <2> QED
    BY <1>3, <1>4, <2>1 DEF GatewayInv, NoLeakedSocket
<1>10. NoOrphanGeneration'
  <2>1. connection # None => connection \in Gens
    BY <1>2 DEF TypeOK, ConnType, Gens, None
  <2> QED
    BY <1>3, <1>4, <2>1 DEF GatewayInv, NoOrphanGeneration
<1> QED
  BY <1>3, <1>5, <1>6, <1>7, <1>8, <1>9, <1>10 DEF GatewayInv, ConnectedIsCurrent

-----------------------------------------------------------------------------
(* The steps that move more than one part of the invariant at once.           *)

LEMMA BeginGenerationKeeps ==
  ASSUME GatewayInv, NEW p \in Openers, BeginGeneration(p), TypeOK
  PROVE BegunOnly' /\ OpenersApart'
<1> QED
  <2> USE BoundsAssumption DEF None
  <2> DEFINE n == connectionCounter + 1
  <2>1. /\ connection = 0 /\ p[2] # 0 /\ n \in Gens /\ n > connectionCounter
        /\ connectionCounter' = n /\ connection' = n
        /\ owner' = [owner EXCEPT ![n] = p[2]] /\ openGen' = [openGen EXCEPT ![p] = n]
        /\ opener' = [opener EXCEPT ![p] = "dial"]
        /\ finish' = finish /\ listener' = listener /\ sockets' = sockets /\ connected' = connected
    BY OpenerShape
       DEF BeginGeneration, OpenerStep, TypeOK, ConnType, Gens, Lives, finVars, readVars,
           genVars
  <2>2. n \notin sockets /\ n \notin connected
    BY <2>1 DEF GatewayInv, NoLeakedSocket, ConnectedIsCurrent, Gens
  <2>3. \A q \in Openers : openGen[q] < n
    BY <2>1 DEF GatewayInv, BegunOnly, TypeOK, ConnType, OpenType
  <2> HIDE DEF n
  <2>5. BegunOnly'
    <3>1. \A g \in Gens : g <= n <=> g <= connectionCounter \/ g = n
      BY DEF n, TypeOK, ConnType, Gens
    <3>2. \A g \in Gens : g <= connectionCounter' <=> owner'[g] # None
      BY <2>1, <3>1 DEF GatewayInv, BegunOnly, TypeOK, ConnType
    <3>3. \A g \in Gens : /\ finish'[g] # "no" => g <= connectionCounter'
                          /\ listener'[g] # "off" => g <= connectionCounter'
      BY <2>1, <3>1 DEF GatewayInv, BegunOnly
    <3>4. \A q \in Openers : openGen'[q] <= connectionCounter'
      BY <2>1, <2>3 DEF TypeOK, OpenType, ConnType, Gens
    <3> QED
      BY <2>1, <3>2, <3>3, <3>4 DEF BegunOnly, Gens
  <2>6. OpenersApart'
    <3>1. \A q \in Openers : opener'[q] = IF q = p THEN "dial" ELSE opener[q]
      BY <2>1 DEF TypeOK, OpenType
    <3>2. \A q \in Openers : openGen'[q] = IF q = p THEN n ELSE openGen[q]
      BY <2>1 DEF TypeOK, OpenType
    <3>3. \A q \in Openers : openGen[q] # n
      BY <2>3 DEF TypeOK, OpenType
    <3> QED
      BY <2>1, <2>2, <3>1, <3>2, <3>3 DEF GatewayInv, OpenersApart, Works, Gens
  <2> QED
    BY <2>5, <2>6

LEMMA AwaitReadyType ==
  ASSUME GatewayInv, NEW p \in Openers, AwaitReady(p), TypeOK , openGen[p] \in Gens
  PROVE OpenType'
  <1>1. CASE ready[openGen[p]] = "ok"
    BY <1>1 DEF AwaitReady, OpenerStep, TypeOK, OpenType, OpenerPCs
  <1>2. CASE ready[openGen[p]] # "ok"
    <2>1. finishRes[openGen[p]] \in Results BY DEF TypeOK, FinType
    <2> QED
    BY <1>2, <2>1 DEF AwaitReady, OpenerStep, TypeOK, OpenType, OpenerPCs
  <1> QED
  BY <1>1, <1>2

LEMMA OpenerDrainsKeeps ==
  ASSUME GatewayInv, NEW p \in Openers, OpenerDrains(p), TypeOK
  PROVE OpenType' /\ BegunOnly' /\ OpenersApart'
<1> USE BoundsAssumption DEF None
<1>1. CASE UNCHANGED openVars
    BY <1>1
       DEF GatewayInv, OpenerDrains, TypeOK, OpenType, openVars, BegunOnly, OpenersApart,
           Works, connVars, genVars, finVars, readVars
<1>2. CASE \E to \in {"idle", "exit"} : OpenerLeaves(p, to)
  <2>1. PICK to \in {"idle", "exit"} : OpenerLeaves(p, to)
    BY <1>2
  <2>2. OpenType'
    BY <2>1, OpenerLeavesType DEF TypeOK, OpenerPCs
  <2>3. BegunOnly'
    BY <2>1
       DEF GatewayInv, OpenerDrains, TypeOK, OpenType, openVars, BegunOnly, connVars, genVars,
           finVars, readVars, OpenerLeaves, ConnType
  <2>4. OpenersApart'
    BY <2>1
       DEF GatewayInv, OpenerDrains, TypeOK, OpenType, openVars, OpenersApart, connVars,
           genVars, finVars, readVars, OpenerLeaves, OpenerStep, Works
  <2> QED
    BY <2>2, <2>3, <2>4
<1> QED
  BY <1>1, <1>2 DEF OpenerDrains

LEMMA StopLifecycleKeeps ==
  ASSUME GatewayInv, NEW p \in Openers, StopLifecycle(p), TypeOK
  PROVE LifeType' /\ FinType' /\ OpenType' /\ BegunOnly' /\ OpenersApart'
<1> USE BoundsAssumption DEF None, TypeOK
<1>1. CASE lifecycle # p[2]
  <2>1. UNCHANGED <<lifeVars, finVars>> /\ \E to \in {"idle", "exit"} : OpenerLeaves(p, to)
    BY <1>1 DEF StopLifecycle
  <2>2. PICK to \in {"idle", "exit"} : OpenerLeaves(p, to)
    BY <2>1
  <2>3. OpenType'
    BY <2>2, OpenerLeavesType DEF OpenerPCs
  <2>4. BegunOnly'
    BY <2>1, <2>2
       DEF StopLifecycle, GatewayInv, OpenType, BegunOnly, connVars, finVars, readVars,
           OpenerLeaves, ConnType
  <2>5. OpenersApart'
    BY <2>2
       DEF StopLifecycle, GatewayInv, OpenType, OpenersApart, connVars, genVars, OpenerLeaves,
           OpenerStep, Works
  <2> QED
    BY <2>1, <2>3, <2>4, <2>5 DEF lifeVars, finVars, LifeType, FinType
<1>2. CASE lifecycle = p[2]
  <2>1. EndLifecycle /\ FinishWith(connection, StopResult) /\ OpenerStep(p, "stopwait")
        /\ openGen' = [openGen EXCEPT ![p] = connection] /\ openRes' = openRes
    BY <1>2 DEF StopLifecycle
  <2>2. LifeType'
    BY <1>2, <2>1, EndLifecycleType, OpenerShape DEF Lives
  <2>3. FinType'
    BY <2>1, FinishWithType, StopResultType DEF ConnType
  <2>4. OpenType'
    BY <2>1 DEF OpenType, OpenerStep, OpenerPCs, ConnType
  <2>5. BegunOnly'
    BY <2>1
       DEF StopLifecycle, GatewayInv, OpenType, BegunOnly, connVars, readVars, FinishWith,
           Entered, ConnType, FinType, Gens
  <2>6. OpenersApart'
    BY <2>1
       DEF StopLifecycle, GatewayInv, OpenType, OpenersApart, connVars, genVars, OpenerStep,
           Works
  <2> QED
    BY <2>2, <2>3, <2>4, <2>5, <2>6
<1> QED
  BY <1>1, <1>2

LEMMA FinishEnterType ==
  ASSUME GatewayInv, TypeOK, NEW g \in Gens, FinishEnter(g)
  PROVE LifeType'
<1> USE BoundsAssumption DEF None
<1>1. owner[g] \in Lives
  BY DEF FinishEnter, GatewayInv, BegunOnly, TypeOK, ConnType, Lives
<1>2. cancelled' \subseteq Lives
  BY <1>1 DEF FinishEnter, TypeOK, LifeType
<1>3. lifecycle' \in 0..MaxLife /\ lifecycleCounter' \in 0..MaxLife
  BY DEF FinishEnter, TypeOK, LifeType
<1>4. reconnectRunning' \in BOOLEAN
  BY DEF FinishEnter
<1> QED
  BY <1>2, <1>3, <1>4 DEF LifeType

LEMMA FinishDrainsType ==
  ASSUME TypeOK, NEW g \in Gens, FinishDrains(g)
  PROVE EventType'
<1>1. CASE UNCHANGED eventVars
  BY <1>1 DEF TypeOK, EventType, eventVars
<1>2. CASE Deliver(<<"finish", g>>)
  BY <1>2 DEF TypeOK, EventType, Deliver
<1>3. CASE dispatcher' = Idle /\ UNCHANGED <<events, lastEvent>>
  BY <1>3 DEF TypeOK, EventType
<1> QED
  BY <1>1, <1>2, <1>3 DEF FinishDrains, LeaveDrain

LEMMA StartReconnectKeeps ==
  ASSUME GatewayInv, TypeOK, NEW g \in Gens, StartReconnect(g)
  PROVE LifeType' /\ OpenType' /\ NoOrphanGeneration'
<1> USE BoundsAssumption DEF None
<1>1. owner[g] \in Lives
  BY DEF StartReconnect, GatewayInv, BegunOnly, TypeOK, ConnType, Lives
<1>2. LifeType'
  <2>1. CASE UNCHANGED lifeVars
    BY <2>1 DEF lifeVars, TypeOK, LifeType
  <2>2. CASE EndLifecycle /\ lifecycle = owner[g]
    BY <1>1, <2>2, EndLifecycleType DEF TypeOK, Lives
  <2>3. CASE Claim /\ UNCHANGED <<lifecycle, lifecycleCounter, cancelled>>
    BY <2>3 DEF Claim, TypeOK, LifeType
  <2> QED
    BY <2>1, <2>2, <2>3 DEF StartReconnect
<1>3. OpenType'
  <2>1. CASE UNCHANGED openVars
    BY <2>1 DEF openVars, TypeOK, OpenType
  <2>2. CASE /\ OpenerStep(<<"reconnect", owner[g]>>, "retry") /\ openGen' = openGen
             /\ openRes' = [openRes EXCEPT ![<<"reconnect", owner[g]>>] = finishRes[g]]
    <3>1. finishRes[g] \in Results
      BY DEF TypeOK, FinType
    <3> QED
      BY <2>2, <3>1 DEF OpenerStep, OpenerPCs, TypeOK, OpenType
  <2> QED
    BY <2>1, <2>2 DEF StartReconnect
<1>4. NoOrphanGeneration'
  <2>0. connection' = connection /\ owner' = owner
    BY DEF StartReconnect, connVars
  <2>1. CASE lifecycle' = lifecycle /\ finish' = [finish EXCEPT ![g] = "done"]
    BY <2>0, <2>1
       DEF StartReconnect, GatewayInv, NoOrphanGeneration, CurrentIffUnfinished, TypeOK,
           ConnType, FinType, Gens
  <2>2. CASE finish' = [Entered(connection) EXCEPT ![g] = "done"]
    <3>1. connection # 0 => connection \in Gens /\ finish[connection] \in {"no",
         "enter"} /\ connection # g
      BY DEF StartReconnect, GatewayInv, CurrentIffUnfinished, TypeOK, ConnType, Gens
    <3> QED
      BY <2>0, <2>2, <3>1 DEF Entered, NoOrphanGeneration, TypeOK, FinType
  <2> QED
    BY <2>1, <2>2 DEF StartReconnect, lifeVars
<1> QED
  BY <1>2, <1>3, <1>4

-----------------------------------------------------------------------------
(* Every step keeps the invariant: one step per action.                      *)

LEMMA GatewayStep ==
  ASSUME GatewayInv, [Next]_vars PROVE GatewayInv'
<1> USE BoundsAssumption, StopResultType
   DEF None, lifeVars, connVars, genVars, readVars, finVars, openVars, closeVars, eventVars
<1>0. TypeOK
  BY DEF GatewayInv
<1>1. ASSUME OpenWithContext PROVE GatewayInv'
  <2>1. LifeType'
    BY <1>0, <1>1, OpenerShape
       DEF OpenWithContext, OpenerStep, TypeOK, LifeType, FinType, Lives, ConnType
  <2>2. OpenType'
    BY <1>0, <1>1, OpenerShape
       DEF OpenWithContext, OpenerStep, TypeOK, OpenType, OpenerPCs, LifeType, FinType, Lives,
           ConnType
  <2>3. TypeOK'
    BY <1>0, <1>1, <2>1, <2>2
       DEF OpenWithContext, TypeOK, ConnType, GenType, ReadType, FinType, CloseType, EventType
  <2>4. OpenersApart'
    BY <1>0, <1>1
       DEF GatewayInv, TypeOK, OpenWithContext, OpenerStep, OpenersApart, ConnType, GenType,
           OpenType, Gens, Works, BegunOnly
  <2>5. NoOrphanGeneration'
    BY <1>0, <1>1
       DEF GatewayInv, TypeOK, OpenWithContext, OpenerStep, NoOrphanGeneration, ConnType,
           FinType, LifeType, Gens, CurrentIffUnfinished, BegunOnly
  <2> QED
    BY <1>0, <1>1, <2>3, <2>4, <2>5
       DEF GatewayInv, OpenWithContext, OpenerStep, CurrentIffUnfinished, BegunOnly,
           ConnectedIsCurrent, NoLeakedSocket
<1>2. ASSUME CancelParent PROVE GatewayInv'
  <2>1. LifeType'
    BY <1>0, <1>2 DEF CancelParent, TypeOK, LifeType
  <2>2. TypeOK'
    BY <1>0, <1>2, <2>1
       DEF CancelParent, TypeOK, ConnType, GenType, ReadType, FinType, OpenType, CloseType,
           EventType
  <2> QED
    BY <1>0, <1>2, <2>2
       DEF GatewayInv, CancelParent, CurrentIffUnfinished, BegunOnly, OpenersApart,
           ConnectedIsCurrent, NoLeakedSocket, NoOrphanGeneration, Works
<1>3. ASSUME NEW c \in Closers, Close(c) PROVE GatewayInv'
  <2>1. LifeType'
    BY <1>0, <1>3, EndLifecycleType, OpenerShape DEF Close, TypeOK, LifeType, Claim, Lives
  <2>2. FinType'
    BY <1>0, <1>3, FinishWithType, ResultType DEF Close, TypeOK, ConnType, Gens, Actions
  <2>3. CloseType'
    BY <1>0, <1>3 DEF Close, Entered, TypeOK, CloseType, ConnType
  <2>4. TypeOK'
    BY <1>0, <1>3, <2>1, <2>2, <2>3
       DEF Close, TypeOK, ConnType, GenType, ReadType, OpenType, EventType
  <2>5. CurrentIffUnfinished'
    BY <1>0, <1>3
       DEF GatewayInv, TypeOK, Close, EndLifecycle, Entered, FinishWith, CurrentIffUnfinished,
           ConnType, FinType, Gens, BegunOnly
  <2>6. BegunOnly'
    BY <1>0, <1>3
       DEF GatewayInv, TypeOK, Close, EndLifecycle, Entered, FinishWith, BegunOnly, ConnType,
           FinType, OpenType, ReadType, Gens
  <2>7. NoLeakedSocket'
    BY <1>0, <1>3
       DEF GatewayInv, TypeOK, Close, EndLifecycle, Entered, FinishWith, NoLeakedSocket,
           ConnType, FinType, Gens, CurrentIffUnfinished, OpenersApart, BegunOnly
  <2>8. NoOrphanGeneration'
    BY <1>0, <1>3
       DEF GatewayInv, TypeOK, Close, EndLifecycle, Entered, FinishWith, NoOrphanGeneration,
           ConnType, FinType, LifeType, Gens, CurrentIffUnfinished, BegunOnly
  <2> QED
    BY <1>0, <1>3, <2>4, <2>5, <2>6, <2>7, <2>8
       DEF GatewayInv, Close, OpenersApart, ConnectedIsCurrent, Works
<1>4. ASSUME NEW c \in Closers, CloseTail(c) PROVE GatewayInv'
  <2>1. CloseType'
    BY <1>0, <1>4 DEF CloseTail, TypeOK, CloseType, ConnType
  <2>2. TypeOK'
    BY <1>0, <1>4, <2>1
       DEF CloseTail, TypeOK, LifeType, ConnType, GenType, ReadType, FinType, OpenType,
           EventType
  <2> QED
    BY <1>0, <1>4, <2>2
       DEF GatewayInv, CloseTail, CurrentIffUnfinished, BegunOnly, OpenersApart,
           ConnectedIsCurrent, NoLeakedSocket, NoOrphanGeneration, Works
<1>5. ASSUME NEW p \in Openers, BeginGeneration(p) PROVE GatewayInv'
  <2>1. ConnType'
    BY <1>0, <1>5, OpenerShape
       DEF BeginGeneration, OpenerStep, TypeOK, ConnType, Gens, LifeType, FinType, Lives
  <2>2. OpenType'
    BY <1>0, <1>5, OpenerShape
       DEF BeginGeneration, OpenerStep, TypeOK, OpenType, OpenerPCs, LifeType, FinType, Lives,
           ConnType
  <2>3. TypeOK'
    BY <1>0, <1>5, <2>1, <2>2
       DEF BeginGeneration, TypeOK, LifeType, GenType, ReadType, FinType, CloseType, EventType
  <2>4. CurrentIffUnfinished'
    BY <1>0, <1>5
       DEF GatewayInv, TypeOK, BeginGeneration, OpenerStep, CurrentIffUnfinished, ConnType,
           FinType, Gens, BegunOnly
  <2>5. BegunOnly'
    BY <1>0, <1>5, BeginGenerationKeeps
  <2>6. OpenersApart'
    BY <1>0, <1>5, BeginGenerationKeeps
  <2>7. ConnectedIsCurrent'
    BY <1>0, <1>5
       DEF GatewayInv, TypeOK, BeginGeneration, OpenerStep, ConnectedIsCurrent, ConnType,
           GenType, Gens, CurrentIffUnfinished, OpenersApart, BegunOnly
  <2>8. NoLeakedSocket'
    BY <1>0, <1>5
       DEF GatewayInv, TypeOK, BeginGeneration, OpenerStep, NoLeakedSocket, ConnType, FinType,
           Gens, CurrentIffUnfinished, OpenersApart, BegunOnly
  <2>9. NoOrphanGeneration'
    BY <1>0, <1>5
       DEF GatewayInv, TypeOK, BeginGeneration, OpenerStep, NoOrphanGeneration, ConnType,
           FinType, LifeType, Gens, CurrentIffUnfinished, BegunOnly
  <2> QED
    BY <1>0, <1>5, <2>3, <2>4, <2>5, <2>6, <2>7, <2>8, <2>9
       DEF GatewayInv, BeginGeneration, OpenerStep
<1>6. ASSUME NEW p \in Openers, BeginFails(p) PROVE GatewayInv'
  <2>1. OpenType'
    BY <1>0, <1>6 DEF BeginFails, OpenerStep, TypeOK, OpenType, OpenerPCs
  <2>2. TypeOK'
    BY <1>0, <1>6, <2>1
       DEF BeginFails, TypeOK, LifeType, ConnType, GenType, ReadType, FinType, CloseType,
           EventType
  <2>3. BegunOnly'
    BY <1>0, <1>6
       DEF GatewayInv, TypeOK, BeginFails, OpenerStep, BegunOnly, ConnType, FinType, OpenType,
           ReadType, Gens
  <2>4. OpenersApart'
    BY <1>0, <1>6
       DEF GatewayInv, TypeOK, BeginFails, OpenerStep, OpenersApart, ConnType, GenType,
           OpenType, Gens, Works, BegunOnly
  <2> QED
    BY <1>0, <1>6, <2>2, <2>3, <2>4
       DEF GatewayInv, BeginFails, OpenerStep, CurrentIffUnfinished, ConnectedIsCurrent,
           NoLeakedSocket, NoOrphanGeneration
<1>7. ASSUME NEW p \in Openers, DialFails(p) PROVE GatewayInv'
  <2>1. opener[p] = "dial"
    BY <1>7 DEF DialFails
  <2>2. PICK res \in Results : Abort(p, openGen[p], res)
    BY <1>7, ResultType DEF DialFails, Actions
  <2> QED
    BY <2>1, <2>2, AbortKeeps
<1>8. ASSUME NEW p \in Openers, Attach(p) PROVE GatewayInv'
  <2>1. openGen[p] \in Gens /\ openGen[p] \notin connected
    BY <1>8, WorksOnGen DEF Attach, Works
  <2>2. ConnType'
    BY <1>0, <1>8, <2>1 DEF Attach, CtxDone, OpenerStep, TypeOK, ConnType, Gens
  <2>3. OpenType'
    BY <1>0, <1>8, <2>1 DEF Attach, CtxDone, OpenerStep, TypeOK, OpenType, OpenerPCs
  <2>4. TypeOK'
    BY <1>0, <1>8, <2>1, <2>2, <2>3
       DEF Attach, TypeOK, LifeType, GenType, ReadType, FinType, CloseType, EventType
  <2>5. OpenersApart'
    BY <1>0, <1>8, <2>1
       DEF GatewayInv, TypeOK, Attach, CtxDone, Current, OpenerStep, OpenersApart, ConnType,
           GenType, OpenType, Gens, Works, BegunOnly
  <2>6. NoLeakedSocket'
    BY <1>0, <1>8, <2>1
       DEF GatewayInv, TypeOK, Attach, CtxDone, Current, OpenerStep, NoLeakedSocket, ConnType,
           FinType, Gens, CurrentIffUnfinished, OpenersApart, BegunOnly
  <2> QED
    BY <1>0, <1>8, <2>1, <2>4, <2>5, <2>6
       DEF GatewayInv, Attach, OpenerStep, CurrentIffUnfinished, BegunOnly, ConnectedIsCurrent,
           NoOrphanGeneration
<1>9. ASSUME NEW p \in Openers, AttachFails(p) PROVE GatewayInv'
  <2>1. opener[p] = "dial"
    BY <1>9 DEF AttachFails
  <2>2. PICK res \in Results : Abort(p, openGen[p], res)
    BY <1>9, StopResultType DEF AttachFails
  <2> QED
    BY <2>1, <2>2, AbortKeeps
<1>10. ASSUME NEW p \in Openers, Hello(p) PROVE GatewayInv'
  <2>1. openGen[p] \in Gens /\ openGen[p] \notin connected
    BY <1>10, WorksOnGen DEF Hello, Works
  <2>2. ReadType'
    BY <1>0, <1>10, <2>1 DEF Hello, OpenerStep, TypeOK, ReadType
  <2>3. OpenType'
    BY <1>0, <1>10, <2>1 DEF Hello, OpenerStep, TypeOK, OpenType, OpenerPCs
  <2>4. TypeOK'
    BY <1>0, <1>10, <2>1, <2>2, <2>3
       DEF Hello, TypeOK, LifeType, ConnType, GenType, FinType, CloseType, EventType
  <2>5. BegunOnly'
    BY <1>0, <1>10, <2>1
       DEF GatewayInv, TypeOK, Hello, OpenerStep, BegunOnly, ConnType, FinType, OpenType,
           ReadType, Gens
  <2>6. OpenersApart'
    BY <1>0, <1>10, <2>1
       DEF GatewayInv, TypeOK, Hello, OpenerStep, OpenersApart, ConnType, GenType, OpenType,
           Gens, Works, BegunOnly
  <2> QED
    BY <1>0, <1>10, <2>1, <2>4, <2>5, <2>6
       DEF GatewayInv, Hello, OpenerStep, CurrentIffUnfinished, ConnectedIsCurrent,
           NoLeakedSocket, NoOrphanGeneration
<1>11. ASSUME NEW p \in Openers, HelloFails(p) PROVE GatewayInv'
  <2>1. Works(p)
    BY <1>11 DEF HelloFails, Works
  <2>2. PICK res \in Results : GiveUp(p, res)
    BY <1>11, ResultType, StopResultType DEF HelloFails, Actions
  <2> QED
    BY <2>1, <2>2, GiveUpKeeps
<1>12. ASSUME NEW p \in Openers, Authenticate(p) PROVE GatewayInv'
  <2>1. openGen[p] \in Gens /\ openGen[p] \notin connected
    BY <1>12, WorksOnGen DEF Authenticate, Works
  <2>2. ReadType'
    BY <1>0, <1>12, <2>1 DEF Authenticate, OpenerStep, TypeOK, ReadType
  <2>3. OpenType'
    BY <1>0, <1>12, <2>1 DEF Authenticate, OpenerStep, TypeOK, OpenType, OpenerPCs
  <2>4. TypeOK'
    BY <1>0, <1>12, <2>1, <2>2, <2>3
       DEF Authenticate, TypeOK, LifeType, ConnType, GenType, FinType, CloseType, EventType
  <2>5. OpenersApart'
    BY <1>0, <1>12, <2>1
       DEF GatewayInv, TypeOK, Authenticate, OpenerStep, OpenersApart, ConnType, GenType,
           OpenType, Gens, Works, BegunOnly
  <2> QED
    BY <1>0, <1>12, <2>1, <2>4, <2>5
       DEF GatewayInv, Authenticate, OpenerStep, CurrentIffUnfinished, BegunOnly,
           ConnectedIsCurrent, NoLeakedSocket, NoOrphanGeneration
<1>13. ASSUME NEW p \in Openers, AuthenticateFails(p) PROVE GatewayInv'
  <2>1. Works(p)
    BY <1>13 DEF AuthenticateFails, Works
  <2>2. PICK res \in Results : GiveUp(p, res)
    BY <1>13, ResultType DEF AuthenticateFails, Actions
  <2> QED
    BY <2>1, <2>2, GiveUpKeeps
<1>14. ASSUME NEW p \in Openers, AwaitReady(p) PROVE GatewayInv'
  <2>1. openGen[p] \in Gens /\ openGen[p] \notin connected
    BY <1>14, WorksOnGen DEF AwaitReady, Works
  <2>2. GenType'
    BY <1>0, <1>14, <2>1 DEF AwaitReady, OpenerStep, TypeOK, GenType
  <2>3. OpenType'
    BY <1>0, <1>14, <2>1, AwaitReadyType
  <2>4. TypeOK'
    BY <1>0, <1>14, <2>1, <2>2, <2>3
       DEF AwaitReady, TypeOK, LifeType, ConnType, ReadType, FinType, CloseType, EventType
  <2>5. OpenersApart'
    <3>1. PICK to \in {"activate", "decide"} : opener' = [opener EXCEPT ![p] = to]
      BY <1>14 DEF AwaitReady, OpenerStep
    <3>2. UNCHANGED <<openGen, connected, sockets>>
      BY <1>14 DEF AwaitReady, connVars
    <3>3. Works(p)
      BY <1>14 DEF AwaitReady, Works
    <3> QED
      BY <1>0, <3>1, <3>2, <3>3, OpenerMovesApart DEF GatewayInv, TypeOK
  <2> QED
    BY <1>0, <1>14, <2>1, <2>4, <2>5
       DEF GatewayInv, AwaitReady, OpenerStep, CurrentIffUnfinished, BegunOnly,
           ConnectedIsCurrent, NoLeakedSocket, NoOrphanGeneration
<1>15. ASSUME NEW p \in Openers, AwaitDoneReady(p) PROVE GatewayInv'
  <2>1. openGen[p] \in Gens /\ openGen[p] \notin connected
    BY <1>15, WorksOnGen DEF AwaitDoneReady, Works
  <2>2. GenType'
    BY <1>0, <1>15, <2>1 DEF AwaitDoneReady, CtxDone, OpenerLeaves, OpenerStep, TypeOK, GenType
  <2>3. OpenType'
    BY <1>0, <1>15, <2>1, OpenerLeavesType DEF AwaitDoneReady, TypeOK, OpenerPCs
  <2>4. TypeOK'
    BY <1>0, <1>15, <2>1, <2>2, <2>3
       DEF AwaitDoneReady, TypeOK, LifeType, ConnType, ReadType, FinType, CloseType, EventType
  <2>5. BegunOnly'
    <3>1. UNCHANGED <<connection, connectionCounter, owner, listener, finish>>
      BY <1>15 DEF AwaitDoneReady, connVars, readVars, finVars
    <3>2. openGen' = [openGen EXCEPT ![p] = None]
      BY <1>15 DEF AwaitDoneReady, OpenerLeaves
    <3>3. \A q \in Openers : openGen'[q] <= connectionCounter
      BY <1>0, <3>2 DEF GatewayInv, BegunOnly, TypeOK, ConnType, OpenType, None
    <3> QED
      BY <1>0, <3>1, <3>3, BegunKept DEF GatewayInv, BegunOnly
  <2>6. OpenersApart'
    BY <1>0, <1>15, <2>1
       DEF GatewayInv, TypeOK, AwaitDoneReady, CtxDone, OpenerLeaves, OpenerStep, OpenersApart,
           ConnType, GenType, OpenType, Gens, Works, BegunOnly
  <2> QED
    BY <1>0, <1>15, <2>1, <2>4, <2>5, <2>6
       DEF GatewayInv, AwaitDoneReady, OpenerStep, OpenerLeaves, CurrentIffUnfinished,
           ConnectedIsCurrent, NoLeakedSocket, NoOrphanGeneration
<1>16. ASSUME NEW p \in Openers, AwaitDone(p) PROVE GatewayInv'
  <2>1. Works(p)
    BY <1>16 DEF AwaitDone, Works
  <2>2. PICK res \in Results : GiveUp(p, res)
    BY <1>16, StopResultType DEF AwaitDone
  <2> QED
    BY <2>1, <2>2, GiveUpKeeps
<1>17. ASSUME NEW p \in Openers, Activate(p) PROVE GatewayInv'
  <2>1. openGen[p] \in Gens /\ openGen[p] \notin connected
    BY <1>17, WorksOnGen DEF Activate, Works
  <2>2. GenType'
    BY <1>0, <1>17, <2>1, OpenerShape DEF Activate, CtxDone, OpenerStep, TypeOK, GenType
  <2>3. OpenType'
    BY <1>0, <1>17, <2>1, OpenerShape
       DEF Activate, CtxDone, OpenerStep, TypeOK, OpenType, OpenerPCs
  <2>4. EventType'
    BY <1>0, <1>17, <2>1, OpenerShape
       DEF Activate, CtxDone, OpenerStep, TypeOK, EventType, Events
  <2>5. TypeOK'
    BY <1>0, <1>17, <2>1, <2>2, <2>3, <2>4
       DEF Activate, TypeOK, LifeType, ConnType, ReadType, FinType, CloseType
  <2>6. OpenersApart'
    BY <1>0, <1>17, <2>1
       DEF GatewayInv, TypeOK, Activate, CtxDone, Current, OpenerStep, OpenersApart, ConnType,
           GenType, OpenType, Gens, Works, BegunOnly
  <2>7. ConnectedIsCurrent'
    BY <1>0, <1>17, <2>1
       DEF GatewayInv, TypeOK, Activate, CtxDone, Current, OpenerStep, ConnectedIsCurrent,
           ConnType, GenType, Gens, CurrentIffUnfinished, OpenersApart, BegunOnly
  <2> QED
    BY <1>0, <1>17, <2>1, <2>5, <2>6, <2>7
       DEF GatewayInv, Activate, OpenerStep, CurrentIffUnfinished, BegunOnly, NoLeakedSocket,
           NoOrphanGeneration
<1>18. ASSUME NEW p \in Openers, ActivateFails(p) PROVE GatewayInv'
  <2>1. Works(p)
    BY <1>18 DEF ActivateFails, Works
  <2>2. PICK res \in Results : GiveUp(p, res)
    BY <1>18, StopResultType DEF ActivateFails
  <2> QED
    BY <2>1, <2>2, GiveUpKeeps
<1>19. ASSUME NEW p \in Openers, OpenerDrains(p) PROVE GatewayInv'
  <2>1. OpenType'
    BY <1>0, <1>19, OpenerDrainsKeeps
  <2>2. EventType'
    BY <1>0, <1>19
       DEF OpenerDrains, Deliver, LeaveDrain, OpenerLeaves, OpenerStep, TypeOK, EventType,
           Events
  <2>3. TypeOK'
    BY <1>0, <1>19, <2>1, <2>2
       DEF OpenerDrains, TypeOK, LifeType, ConnType, GenType, ReadType, FinType, CloseType
  <2>4. BegunOnly'
    BY <1>0, <1>19, OpenerDrainsKeeps
  <2>5. OpenersApart'
    BY <1>0, <1>19, OpenerDrainsKeeps
  <2> QED
    BY <1>0, <1>19, <2>3, <2>4, <2>5
       DEF GatewayInv, OpenerDrains, OpenerStep, OpenerLeaves, CurrentIffUnfinished,
           ConnectedIsCurrent, NoLeakedSocket, NoOrphanGeneration
<1>20. ASSUME NEW p \in Openers, Decide(p) PROVE GatewayInv'
  <2>1. OpenType'
    BY <1>0, <1>20 DEF Decide, OpenerStep, TypeOK, OpenType, OpenerPCs
  <2>2. TypeOK'
    BY <1>0, <1>20, <2>1
       DEF Decide, TypeOK, LifeType, ConnType, GenType, ReadType, FinType, CloseType, EventType
  <2>3. OpenersApart'
    BY <1>0, <1>20
       DEF GatewayInv, TypeOK, Decide, OpenerStep, OpenersApart, ConnType, GenType, OpenType,
           Gens, Works, BegunOnly
  <2> QED
    BY <1>0, <1>20, <2>2, <2>3
       DEF GatewayInv, Decide, OpenerStep, CurrentIffUnfinished, BegunOnly, ConnectedIsCurrent,
           NoLeakedSocket, NoOrphanGeneration
<1>21. ASSUME NEW p \in Openers, Retry(p) PROVE GatewayInv'
  <2>1. OpenType'
    BY <1>0, <1>21, OpenerLeavesType DEF Retry, TypeOK, OpenerPCs
  <2>2. TypeOK'
    BY <1>0, <1>21, <2>1
       DEF Retry, TypeOK, LifeType, ConnType, GenType, ReadType, FinType, CloseType, EventType
  <2>3. BegunOnly'
    BY <1>0, <1>21
       DEF GatewayInv, TypeOK, Retry, OpenerLeaves, OpenerStep, BegunOnly, ConnType, FinType,
           OpenType, ReadType, Gens
  <2>4. OpenersApart'
    BY <1>0, <1>21
       DEF GatewayInv, TypeOK, Retry, OpenerLeaves, OpenerStep, OpenersApart, ConnType,
           GenType, OpenType, Gens, Works, BegunOnly
  <2> QED
    BY <1>0, <1>21, <2>2, <2>3, <2>4
       DEF GatewayInv, Retry, OpenerStep, OpenerLeaves, CurrentIffUnfinished,
           ConnectedIsCurrent, NoLeakedSocket, NoOrphanGeneration
<1>22. ASSUME NEW p \in Openers, StopLifecycle(p) PROVE GatewayInv'
  <2>1. LifeType'
    BY <1>0, <1>22, StopLifecycleKeeps
  <2>2. FinType'
    BY <1>0, <1>22, StopLifecycleKeeps
  <2>3. OpenType'
    BY <1>0, <1>22, StopLifecycleKeeps
  <2>4. TypeOK'
    BY <1>0, <1>22, <2>1, <2>2, <2>3
       DEF StopLifecycle, TypeOK, ConnType, GenType, ReadType, CloseType, EventType
  <2>5. CurrentIffUnfinished'
    BY <1>0, <1>22
       DEF GatewayInv, TypeOK, StopLifecycle, EndLifecycle, Entered, FinishWith, OpenerLeaves,
           OpenerStep, CurrentIffUnfinished, ConnType, FinType, Gens, BegunOnly
  <2>6. BegunOnly'
    BY <1>0, <1>22, StopLifecycleKeeps
  <2>7. OpenersApart'
    BY <1>0, <1>22, StopLifecycleKeeps
  <2>8. NoLeakedSocket'
    BY <1>0, <1>22
       DEF GatewayInv, TypeOK, StopLifecycle, EndLifecycle, Entered, FinishWith, OpenerLeaves,
           OpenerStep, NoLeakedSocket, ConnType, FinType, Gens, CurrentIffUnfinished,
           OpenersApart, BegunOnly
  <2>9. NoOrphanGeneration'
    BY <1>0, <1>22
       DEF GatewayInv, TypeOK, StopLifecycle, EndLifecycle, Entered, FinishWith, OpenerLeaves,
           OpenerStep, NoOrphanGeneration, ConnType, FinType, LifeType, Gens,
           CurrentIffUnfinished, BegunOnly
  <2> QED
    BY <1>0, <1>22, <2>4, <2>5, <2>6, <2>7, <2>8, <2>9
       DEF GatewayInv, StopLifecycle, OpenerStep, OpenerLeaves, ConnectedIsCurrent
<1>23. ASSUME NEW p \in Openers, StopTail(p) PROVE GatewayInv'
  <2>1. OpenType'
    BY <1>0, <1>23, OpenerLeavesType DEF StopTail, TypeOK, OpenerPCs
  <2>2. TypeOK'
    BY <1>0, <1>23, <2>1
       DEF StopTail, TypeOK, LifeType, ConnType, GenType, ReadType, FinType, CloseType,
           EventType
  <2>3. BegunOnly'
    BY <1>0, <1>23
       DEF GatewayInv, TypeOK, StopTail, OpenerLeaves, OpenerStep, BegunOnly, ConnType,
           FinType, OpenType, ReadType, Gens
  <2>4. OpenersApart'
    BY <1>0, <1>23
       DEF GatewayInv, TypeOK, StopTail, OpenerLeaves, OpenerStep, OpenersApart, ConnType,
           GenType, OpenType, Gens, Works, BegunOnly
  <2> QED
    BY <1>0, <1>23, <2>2, <2>3, <2>4
       DEF GatewayInv, StopTail, OpenerStep, OpenerLeaves, CurrentIffUnfinished,
           ConnectedIsCurrent, NoLeakedSocket, NoOrphanGeneration
<1>24. ASSUME NEW p \in Openers, ReconnectExits(p) PROVE GatewayInv'
  <2>1. LifeType'
    BY <1>0, <1>24, OpenerShape DEF ReconnectExits, OpenerLeaves, OpenerStep, TypeOK, LifeType
  <2>2. OpenType'
    BY <1>0, <1>24, OpenerLeavesType DEF ReconnectExits, TypeOK, OpenerPCs
  <2>3. TypeOK'
    BY <1>0, <1>24, <2>1, <2>2
       DEF ReconnectExits, TypeOK, ConnType, GenType, ReadType, FinType, CloseType, EventType
  <2>4. BegunOnly'
    BY <1>0, <1>24
       DEF GatewayInv, TypeOK, ReconnectExits, OpenerLeaves, OpenerStep, BegunOnly, ConnType,
           FinType, OpenType, ReadType, Gens
  <2>5. OpenersApart'
    BY <1>0, <1>24
       DEF GatewayInv, TypeOK, ReconnectExits, OpenerLeaves, OpenerStep, OpenersApart,
           ConnType, GenType, OpenType, Gens, Works, BegunOnly
  <2> QED
    BY <1>0, <1>24, <2>3, <2>4, <2>5
       DEF GatewayInv, ReconnectExits, OpenerStep, OpenerLeaves, CurrentIffUnfinished,
           ConnectedIsCurrent, NoLeakedSocket, NoOrphanGeneration
<1>25. ASSUME NEW g \in Gens, ListenReady(g) PROVE GatewayInv'
  <2>1. GenType'
    BY <1>0, <1>25 DEF ListenReady, CtxDone, TypeOK, GenType
  <2>2. ReadType'
    BY <1>0, <1>25 DEF ListenReady, CtxDone, TypeOK, ReadType
  <2>3. TypeOK'
    BY <1>0, <1>25, <2>1, <2>2
       DEF ListenReady, TypeOK, LifeType, ConnType, FinType, OpenType, CloseType, EventType
  <2> QED
    BY <1>0, <1>25, <2>3
       DEF GatewayInv, ListenReady, CurrentIffUnfinished, BegunOnly, OpenersApart,
           ConnectedIsCurrent, NoLeakedSocket, NoOrphanGeneration, Works
<1>26. ASSUME NEW g \in Gens, ListenEnds(g) PROVE GatewayInv'
  <2>1. PICK res \in Results : FinishWith(g, res)
    BY <1>0, <1>26, ResultType DEF ListenEnds, Actions
  <2>2. ReadType'
    BY <1>0, <1>26, <2>1 DEF ListenEnds, CtxDone, Entered, TypeOK, ReadType
  <2>3. FinType'
    BY <1>0, <1>26, <2>1, FinishWithType, ResultType
       DEF ListenEnds, TypeOK, ConnType, Gens, Actions
  <2>4. TypeOK'
    BY <1>0, <1>26, <2>1, <2>2, <2>3
       DEF ListenEnds, TypeOK, LifeType, ConnType, GenType, OpenType, CloseType, EventType
  <2>5. CurrentIffUnfinished'
    BY <1>0, <1>26, <2>1
       DEF GatewayInv, TypeOK, ListenEnds, CtxDone, Entered, FinishWith, CurrentIffUnfinished,
           ConnType, FinType, Gens, BegunOnly
  <2>6. BegunOnly'
    BY <1>0, <1>26, <2>1
       DEF GatewayInv, TypeOK, ListenEnds, CtxDone, Entered, FinishWith, BegunOnly, ConnType,
           FinType, OpenType, ReadType, Gens
  <2>7. NoLeakedSocket'
    BY <1>0, <1>26, <2>1
       DEF GatewayInv, TypeOK, ListenEnds, CtxDone, Entered, FinishWith, NoLeakedSocket,
           ConnType, FinType, Gens, CurrentIffUnfinished, OpenersApart, BegunOnly
  <2>8. NoOrphanGeneration'
    BY <1>0, <1>26, <2>1
       DEF GatewayInv, TypeOK, ListenEnds, CtxDone, Entered, FinishWith, NoOrphanGeneration,
           ConnType, FinType, LifeType, Gens, CurrentIffUnfinished, BegunOnly
  <2> QED
    BY <1>0, <1>26, <2>1, <2>4, <2>5, <2>6, <2>7, <2>8
       DEF GatewayInv, ListenEnds, OpenersApart, ConnectedIsCurrent, Works
<1>27. ASSUME NEW g \in Gens, ListenQuits(g) PROVE GatewayInv'
  <2>1. ReadType'
    BY <1>0, <1>27 DEF ListenQuits, CtxDone, TypeOK, ReadType
  <2>2. TypeOK'
    BY <1>0, <1>27, <2>1
       DEF ListenQuits, TypeOK, LifeType, ConnType, GenType, FinType, OpenType, CloseType,
           EventType
  <2>3. BegunOnly'
    BY <1>0, <1>27
       DEF GatewayInv, TypeOK, ListenQuits, CtxDone, BegunOnly, ConnType, FinType, OpenType,
           ReadType, Gens
  <2> QED
    BY <1>0, <1>27, <2>2, <2>3
       DEF GatewayInv, ListenQuits, CurrentIffUnfinished, OpenersApart, ConnectedIsCurrent,
           NoLeakedSocket, NoOrphanGeneration, Works
<1>28. ASSUME NEW g \in Gens, HeartbeatFails(g) PROVE GatewayInv'
  <2>1. FinType'
    <3>1. Result("resume", TRUE) \in Results
      BY ResultType DEF Actions
    <3>2. g \in 0..MaxGens
      BY DEF Gens
    <3>3. FinishWith(g, Result("resume", TRUE))
      BY <1>28 DEF HeartbeatFails
    <3> QED
      BY <1>0, <3>1, <3>2, <3>3, FinishWithType DEF TypeOK
  <2>2. TypeOK'
    BY <1>0, <1>28, <2>1
       DEF HeartbeatFails, TypeOK, LifeType, ConnType, GenType, ReadType, OpenType, CloseType,
           EventType
  <2>3. CurrentIffUnfinished'
    BY <1>0, <1>28
       DEF GatewayInv, TypeOK, HeartbeatFails, Entered, FinishWith, CurrentIffUnfinished,
           ConnType, FinType, Gens, BegunOnly
  <2>4. BegunOnly'
    BY <1>0, <1>28
       DEF GatewayInv, TypeOK, HeartbeatFails, Entered, FinishWith, BegunOnly, ConnType,
           FinType, OpenType, ReadType, Gens
  <2>5. NoLeakedSocket'
    BY <1>0, <1>28
       DEF GatewayInv, TypeOK, HeartbeatFails, Entered, FinishWith, NoLeakedSocket, ConnType,
           FinType, Gens, CurrentIffUnfinished, OpenersApart, BegunOnly
  <2>6. NoOrphanGeneration'
    BY <1>0, <1>28
       DEF GatewayInv, TypeOK, HeartbeatFails, Entered, FinishWith, NoOrphanGeneration,
           ConnType, FinType, LifeType, Gens, CurrentIffUnfinished, BegunOnly
  <2> QED
    BY <1>0, <1>28, <2>2, <2>3, <2>4, <2>5, <2>6
       DEF GatewayInv, HeartbeatFails, OpenersApart, ConnectedIsCurrent, Works
<1>29. ASSUME NEW g \in Gens, WatchContext(g) PROVE GatewayInv'
  <2>1. FinType'
    BY <1>0, <1>29, FinishWithType, ResultType DEF WatchContext, TypeOK, ConnType, Gens, Actions
  <2>2. TypeOK'
    BY <1>0, <1>29, <2>1
       DEF WatchContext, TypeOK, LifeType, ConnType, GenType, ReadType, OpenType, CloseType,
           EventType
  <2>3. CurrentIffUnfinished'
    BY <1>0, <1>29
       DEF GatewayInv, TypeOK, WatchContext, CtxDone, Entered, FinishWith,
           CurrentIffUnfinished, ConnType, FinType, Gens, BegunOnly
  <2>4. BegunOnly'
    <3>1. g <= connectionCounter
      BY <1>0, <1>29
         DEF GatewayInv, NoLeakedSocket, BegunOnly, WatchContext, TypeOK, ConnType, Gens
    <3> QED
      BY <1>0, <1>29, <3>1
         DEF GatewayInv, TypeOK, WatchContext, Entered, FinishWith, BegunOnly, ConnType,
             FinType, Gens
  <2>5. NoLeakedSocket'
    BY <1>0, <1>29
       DEF GatewayInv, TypeOK, WatchContext, CtxDone, Entered, FinishWith, NoLeakedSocket,
           ConnType, FinType, Gens, CurrentIffUnfinished, OpenersApart, BegunOnly
  <2>6. NoOrphanGeneration'
    BY <1>0, <1>29
       DEF GatewayInv, TypeOK, WatchContext, CtxDone, Entered, FinishWith, NoOrphanGeneration,
           ConnType, FinType, LifeType, Gens, CurrentIffUnfinished, BegunOnly
  <2> QED
    BY <1>0, <1>29, <2>2, <2>3, <2>4, <2>5, <2>6
       DEF GatewayInv, WatchContext, OpenersApart, ConnectedIsCurrent, Works
<1>30. ASSUME NEW g \in Gens, FinishEnter(g) PROVE GatewayInv'
  <2>1. LifeType'
    BY <1>0, <1>30, FinishEnterType
  <2>2. ConnType'
    BY <1>0, <1>30, OpenerShape
       DEF FinishEnter, WasUp, TypeOK, ConnType, Gens, LifeType, FinType, Lives
  <2>3. GenType'
    BY <1>0, <1>30, OpenerShape
       DEF FinishEnter, WasUp, TypeOK, GenType, LifeType, FinType, Lives, ConnType
  <2>4. FinType'
    BY <1>0, <1>30, OpenerShape
       DEF FinishEnter, WasUp, TypeOK, FinType, FinishPCs, LifeType, Lives, ConnType
  <2>5. EventType'
    BY <1>0, <1>30, OpenerShape
       DEF FinishEnter, WasUp, TypeOK, EventType, Events, LifeType, FinType, Lives, ConnType
  <2>6. TypeOK'
    BY <1>0, <1>30, <2>1, <2>2, <2>3, <2>4, <2>5
       DEF FinishEnter, TypeOK, ReadType, OpenType, CloseType
  <2>7. CurrentIffUnfinished'
    BY <1>0, <1>30
       DEF GatewayInv, TypeOK, FinishEnter, WasUp, CurrentIffUnfinished, ConnType, FinType,
           Gens, BegunOnly
  <2>8. BegunOnly'
    BY <1>0, <1>30
       DEF GatewayInv, TypeOK, FinishEnter, WasUp, BegunOnly, ConnType, FinType, OpenType,
           ReadType, Gens
  <2>9. OpenersApart'
    BY <1>0, <1>30
       DEF GatewayInv, TypeOK, FinishEnter, WasUp, OpenersApart, ConnType, GenType, OpenType,
           Gens, Works, BegunOnly
  <2>10. ConnectedIsCurrent'
    BY <1>0, <1>30
       DEF GatewayInv, TypeOK, FinishEnter, WasUp, ConnectedIsCurrent, ConnType, GenType, Gens,
           CurrentIffUnfinished, OpenersApart, BegunOnly
  <2>11. NoLeakedSocket'
    BY <1>0, <1>30
       DEF GatewayInv, TypeOK, FinishEnter, WasUp, NoLeakedSocket, ConnType, FinType, Gens,
           CurrentIffUnfinished, OpenersApart, BegunOnly
  <2>12. NoOrphanGeneration'
    BY <1>0, <1>30
       DEF GatewayInv, TypeOK, FinishEnter, WasUp, NoOrphanGeneration, ConnType, FinType,
           LifeType, Gens, CurrentIffUnfinished, BegunOnly
  <2> QED
    BY <1>0, <1>30, <2>6, <2>7, <2>8, <2>9, <2>10, <2>11, <2>12 DEF GatewayInv, FinishEnter
<1>31. ASSUME NEW g \in Gens, FinishDrains(g) PROVE GatewayInv'
  <2>1. FinType'
    BY <1>0, <1>31 DEF FinishDrains, Deliver, LeaveDrain, TypeOK, FinType, FinishPCs
  <2>2. EventType'
    BY <1>0, <1>31, FinishDrainsType
  <2>3. TypeOK'
    BY <1>0, <1>31, <2>1, <2>2
       DEF FinishDrains, TypeOK, LifeType, ConnType, GenType, ReadType, OpenType, CloseType
  <2>4. CurrentIffUnfinished'
    BY <1>0, <1>31
       DEF GatewayInv, TypeOK, FinishDrains, Deliver, LeaveDrain, CurrentIffUnfinished,
           ConnType, FinType, Gens, BegunOnly
  <2>5. BegunOnly'
    BY <1>0, <1>31
       DEF GatewayInv, TypeOK, FinishDrains, Deliver, LeaveDrain, BegunOnly, ConnType, FinType,
           OpenType, ReadType, Gens
  <2>6. NoLeakedSocket'
    BY <1>0, <1>31
       DEF GatewayInv, TypeOK, FinishDrains, Deliver, LeaveDrain, NoLeakedSocket, ConnType,
           FinType, Gens, CurrentIffUnfinished, OpenersApart, BegunOnly
  <2>7. NoOrphanGeneration'
    BY <1>0, <1>31
       DEF GatewayInv, TypeOK, FinishDrains, Deliver, LeaveDrain, NoOrphanGeneration, ConnType,
           FinType, LifeType, Gens, CurrentIffUnfinished, BegunOnly
  <2> QED
    BY <1>0, <1>31, <2>3, <2>4, <2>5, <2>6, <2>7
       DEF GatewayInv, FinishDrains, OpenersApart, ConnectedIsCurrent, Works
<1>32. ASSUME NEW g \in Gens, StartReconnect(g) PROVE GatewayInv'
  <2>1. LifeType'
    BY <1>0, <1>32, StartReconnectKeeps
  <2>2. FinType'
    BY <1>0, <1>32, OpenerShape
       DEF StartReconnect, Claim, Entered, EnteredRes, OpenerStep, TypeOK, FinType, FinishPCs,
           LifeType, Lives, ConnType
  <2>3. OpenType'
    BY <1>0, <1>32, StartReconnectKeeps
  <2>4. TypeOK'
    BY <1>0, <1>32, <2>1, <2>2, <2>3
       DEF StartReconnect, TypeOK, ConnType, GenType, ReadType, CloseType, EventType
  <2>5. CurrentIffUnfinished'
    BY <1>0, <1>32
       DEF GatewayInv, TypeOK, StartReconnect, Claim, EndLifecycle, Entered, EnteredRes,
           OpenerStep, CurrentIffUnfinished, ConnType, FinType, Gens, BegunOnly
  <2>6. BegunOnly'
    BY <1>0, <1>32
       DEF GatewayInv, TypeOK, StartReconnect, Claim, EndLifecycle, Entered, EnteredRes,
           OpenerStep, BegunOnly, ConnType, FinType, OpenType, ReadType, Gens
  <2>7. OpenersApart'
    <3>1. UNCHANGED <<openGen, connected, sockets>>
      BY <1>32 DEF StartReconnect, connVars, genVars, openVars
    <3>2. CASE opener' = opener
      BY <3>1, <3>2 DEF GatewayInv, OpenersApart, Works
    <3>3. CASE opener' = [opener EXCEPT ![<<"reconnect", owner[g]>>] = "retry"]
      <4>1. <<"reconnect", owner[g]>> \in Openers
        <5>1. owner[g] \in Lives
          BY <1>0, <1>32
             DEF StartReconnect, GatewayInv, BegunOnly, TypeOK, ConnType, Lives, None
        <5> QED
          BY <5>1, OpenerShape
      <4> QED
        BY <3>1, <3>3, <4>1, OpenerMovesApart DEF GatewayInv, TypeOK
    <3> QED
      BY <1>32, <3>2, <3>3 DEF StartReconnect, OpenerStep, openVars
  <2>8. NoLeakedSocket'
    BY <1>0, <1>32
       DEF GatewayInv, TypeOK, StartReconnect, Claim, EndLifecycle, Entered, EnteredRes,
           OpenerStep, NoLeakedSocket, ConnType, FinType, Gens, CurrentIffUnfinished,
           OpenersApart, BegunOnly
  <2>9. NoOrphanGeneration'
    BY <1>0, <1>32, StartReconnectKeeps
  <2> QED
    BY <1>0, <1>32, <2>4, <2>5, <2>6, <2>7, <2>8, <2>9
       DEF GatewayInv, StartReconnect, OpenerStep, ConnectedIsCurrent
<1>33. CASE UNCHANGED vars
  BY <1>33
     DEF GatewayInv, TypeOK, vars, LifeType, ConnType, GenType, ReadType, FinType, OpenType,
         CloseType, EventType, Works, CurrentIffUnfinished, BegunOnly, OpenersApart,
         ConnectedIsCurrent, NoLeakedSocket, NoOrphanGeneration
<1> QED
  BY <1>1, <1>2, <1>3, <1>4, <1>5, <1>6, <1>7, <1>8, <1>9, <1>10, <1>11, <1>12, <1>13, <1>14,
       <1>15, <1>16, <1>17, <1>18, <1>19, <1>20, <1>21, <1>22, <1>23, <1>24, <1>25, <1>26, <1>27, <1>28, <1>29, <1>30, <1>31, <1>32, <1>33
     DEF Next, OpenerNext, ListenNext, FinishNext

-----------------------------------------------------------------------------
LEMMA GatewayInit == Init => GatewayInv
<1> SUFFICES ASSUME Init PROVE GatewayInv
  OBVIOUS
<1> USE BoundsAssumption, StopResultType DEF None, Init
<1>1. LifeType /\ ConnType /\ GenType /\ ReadType /\ CloseType
  <2>1. LifeType
    <3>1. lifecycle \in 0..MaxLife /\ lifecycleCounter \in 0..MaxLife /\ cancelled \subseteq Lives
      OBVIOUS
    <3>2. reconnectRunning \in BOOLEAN
      OBVIOUS
    <3> QED
      BY <3>1, <3>2 DEF LifeType
  <2>2. ConnType
    BY DEF ConnType
  <2>3. GenType /\ ReadType /\ CloseType
    BY DEF GenType, ReadType, CloseType
  <2> QED
    BY <2>1, <2>2, <2>3
<1>2. FinType /\ OpenType
  BY DEF FinType, FinishPCs, OpenType, OpenerPCs
<1>3. EventType
  BY DEF EventType, Events
<1>4. TypeOK
  BY <1>1, <1>2, <1>3 DEF TypeOK
<1>5. CurrentIffUnfinished /\ BegunOnly
  BY DEF CurrentIffUnfinished, BegunOnly, Gens
<1>6. OpenersApart /\ ConnectedIsCurrent /\ NoLeakedSocket /\ NoOrphanGeneration
  BY DEF OpenersApart, Works, ConnectedIsCurrent, NoLeakedSocket, NoOrphanGeneration
<1> QED
  BY <1>4, <1>5, <1>6 DEF GatewayInv

LEMMA GatewayInvariant == Spec => []GatewayInv
<1>1. GatewayInv /\ [Next]_vars => GatewayInv'
  BY GatewayStep
<1> QED
  BY <1>1, GatewayInit, PTL DEF Spec

(* Every variable of a Session keeps its shape, whatever the numbers of          *)
(* lifecycles, generations and callers of Close.                                 *)
THEOREM TypeCorrect == Spec => []TypeOK
<1>1. GatewayInv => TypeOK
  BY DEF GatewayInv
<1> QED
  BY <1>1, GatewayInvariant, PTL

(* No interleaving of opens, closes, cancellations, drops and reconnects leaves an *)
(* open websocket that the Session has forgotten.                                 *)
THEOREM SocketsNotLeaked == Spec => []NoLeakedSocket
<1>1. GatewayInv => NoLeakedSocket
  BY DEF GatewayInv
<1> QED
  BY <1>1, GatewayInvariant, PTL

(* A generation whose lifecycle has ended is already being closed.                *)
THEOREM GenerationsNotOrphaned == Spec => []NoOrphanGeneration
<1>1. GatewayInv => NoOrphanGeneration
  BY DEF GatewayInv
<1> QED
  BY <1>1, GatewayInvariant, PTL

-----------------------------------------------------------------------------
(* The events that handlers see.                                              *)

(* What the handlers will have seen when the queue is empty. *)
Newest == IF events = <<>> THEN lastEvent ELSE events[Len(events)]

(* The generation that is activated is the current one, and no other is up.      *)
LEMMA NobodyUp ==
  ASSUME GatewayInv, NEW p \in Openers, Activate(p)
  PROVE connected = {} /\ openGen[p] \in Gens
<1>1. openGen[p] \in Gens /\ openGen[p] \notin connected
  BY WorksOnGen DEF Activate, Works
<1>2. connection = openGen[p]
  BY DEF Activate, Current
<1> QED
  BY <1>1, <1>2 DEF GatewayInv, ConnectedIsCurrent, TypeOK, GenType

LEMMA AppendAlternates ==
  ASSUME events \in Seq(Events), lastEvent \in Events, NEW e \in Events, EventsAlternate,
         e # Newest, events' = Append(events, e), lastEvent' = lastEvent,
         (IF connected' = {} THEN "Disconnect" ELSE "Connect") = e
  PROVE  EventsAlternate'
<1>1. /\ Len(events') = Len(events) + 1 /\ Len(events) \in Nat
      /\ \A i \in 1..Len(events) : events'[i] = events[i]
      /\ events'[Len(events) + 1] = e /\ events' # <<>>
  OBVIOUS
<1>2. CASE events = <<>>
  BY <1>1, <1>2 DEF EventsAlternate, Newest
<1>3. CASE events # <<>>
  <2>1. Len(events) >= 1
    BY <1>3
  <2>2. \A i \in 1..Len(events') - 1 : events'[i] # events'[i + 1]
    <3> TAKE i \in 1..Len(events') - 1
    <3>1. CASE i = Len(events)
      BY <1>1, <1>3, <2>1, <3>1 DEF Newest
    <3>2. CASE i \in 1..Len(events) - 1
      BY <1>1, <3>2 DEF EventsAlternate
    <3> QED
      BY <1>1, <3>1, <3>2
  <2>3. events'[1] # lastEvent'
    BY <1>1, <1>2, <1>3, <2>1 DEF EventsAlternate
  <2> QED
    BY <1>1, <2>2, <2>3 DEF EventsAlternate
<1> QED
  BY <1>2, <1>3

LEMMA DeliverAlternates ==
  ASSUME events \in Seq(Events), EventsAlternate, NEW d, Deliver(d), connected' = connected
  PROVE  EventsAlternate'
<1>1. events # <<>> /\ lastEvent' = events[1] /\ events' = Tail(events)
  BY DEF Deliver
<1>2. PICK n \in Nat : Len(events) = n + 1
  <2>1. Len(events) \in Nat /\ Len(events) > 0
    BY <1>1
  <2>2. Len(events) - 1 \in Nat /\ Len(events) = (Len(events) - 1) + 1
    BY <2>1
  <2> QED
    BY <2>2
<1>3. /\ Len(events') = n
      /\ \A i \in 1..n : events'[i] = events[i + 1]
  BY <1>1, <1>2
<1>4. events' \in Seq(Events)
  BY <1>1
<1>5. events' = <<>> <=> n = 0
  BY <1>3, <1>4
<1>6. CASE n = 0
  BY <1>1, <1>2, <1>5, <1>6 DEF EventsAlternate
<1>7. CASE n # 0
  <2>1. \A i \in 1..n : events[i] # events[i + 1]
    BY <1>1, <1>2, <1>7 DEF EventsAlternate
  <2>2. \A i \in 1..n - 1 : events'[i] # events'[i + 1]
    BY <1>3, <2>1
  <2>3. events'[1] # lastEvent' /\ events'[n] = events[n + 1]
    BY <1>1, <1>3, <1>7, <2>1
  <2> QED
    BY <1>1, <1>2, <1>3, <1>5, <1>7, <2>2, <2>3 DEF EventsAlternate
<1> QED
  BY <1>6, <1>7

LEMMA AlternateStep ==
  ASSUME GatewayInv, EventsAlternate, [Next]_vars PROVE EventsAlternate'
<1>0. events \in Seq(Events) /\ lastEvent \in Events
  BY DEF GatewayInv, TypeOK, EventType
<1>1. ASSUME NEW p \in Openers, Activate(p) PROVE EventsAlternate'
  <2>1. connected = {} /\ connected' # {}
    BY <1>1, NobodyUp DEF Activate
  <2> QED
    BY <1>0, <1>1, <2>1, AppendAlternates DEF Activate, Events, Newest, EventsAlternate
<1>2. ASSUME NEW p \in Openers, OpenerDrains(p) PROVE EventsAlternate'
  <2>1. connected' = connected
    BY <1>2 DEF OpenerDrains, genVars
  <2>2. CASE Deliver(p)
    BY <1>0, <2>1, <2>2, DeliverAlternates
  <2>3. CASE UNCHANGED <<events, lastEvent>>
    BY <2>1, <2>3 DEF EventsAlternate
  <2> QED
    BY <1>2, <2>2, <2>3 DEF OpenerDrains, LeaveDrain, eventVars
<1>3. ASSUME NEW g \in Gens, FinishDrains(g) PROVE EventsAlternate'
  <2>1. connected' = connected
    BY <1>3 DEF FinishDrains, genVars
  <2>2. CASE Deliver(<<"finish", g>>)
    BY <1>0, <2>1, <2>2, DeliverAlternates
  <2>3. CASE UNCHANGED <<events, lastEvent>>
    BY <2>1, <2>3 DEF EventsAlternate
  <2> QED
    BY <1>3, <2>2, <2>3 DEF FinishDrains, LeaveDrain, eventVars
<1>4. ASSUME NEW g \in Gens, FinishEnter(g) PROVE EventsAlternate'
  <2>1. CASE g \in connected
    <3>1. connected' = {}
      BY <1>4, <2>1 DEF FinishEnter, GatewayInv, ConnectedIsCurrent, TypeOK, GenType
    <3>2. Newest = "Connect" /\ events' = Append(events, "Disconnect") /\ lastEvent' = lastEvent
      BY <1>4, <2>1 DEF FinishEnter, WasUp, EventsAlternate, Newest
    <3> QED
      BY <1>0, <3>1, <3>2, AppendAlternates DEF Events
  <2>2. CASE g \notin connected
    BY <1>4, <2>2 DEF FinishEnter, WasUp, EventsAlternate
  <2> QED
    BY <2>1, <2>2
<1>5. CASE UNCHANGED <<connected, events, lastEvent>>
  BY <1>5 DEF EventsAlternate
<1>6. ASSUME NEW p \in Openers, OpenerNext(p)
      PROVE  UNCHANGED <<connected, events, lastEvent>> \/ Activate(p) \/ OpenerDrains(p)
  <2>1. CASE DialFails(p) \/ AttachFails(p)
    BY <2>1 DEF DialFails, AttachFails, Abort, eventVars
  <2>2. CASE HelloFails(p) \/ AuthenticateFails(p) \/ AwaitDone(p) \/ ActivateFails(p)
    BY <2>2 DEF HelloFails, AuthenticateFails, AwaitDone, ActivateFails, GiveUp, genVars, eventVars
  <2>3. CASE BeginGeneration(p) \/ BeginFails(p) \/ Attach(p) \/ Hello(p) \/ Authenticate(p)
    BY <2>3 DEF BeginGeneration, BeginFails, Attach, Hello, Authenticate, genVars, eventVars
  <2>4. CASE AwaitReady(p) \/ AwaitDoneReady(p) \/ Decide(p) \/ Retry(p)
    BY <2>4 DEF AwaitReady, AwaitDoneReady, Decide, Retry, genVars, eventVars
  <2>5. CASE StopLifecycle(p) \/ StopTail(p) \/ ReconnectExits(p)
    BY <2>5 DEF StopLifecycle, StopTail, ReconnectExits, genVars, eventVars
  <2> QED
    BY <1>6, <2>1, <2>2, <2>3, <2>4, <2>5 DEF OpenerNext
<1>7. \A g \in Gens : ListenNext(g) \/ HeartbeatFails(g) \/ WatchContext(g) \/ StartReconnect(g) =>
          UNCHANGED <<connected, events, lastEvent>>
  BY DEF ListenNext, ListenReady, ListenEnds, ListenQuits, HeartbeatFails, WatchContext,
       StartReconnect, genVars, eventVars
<1>8. OpenWithContext \/ CancelParent \/ (\E c \in Closers : Close(c) \/ CloseTail(c)) \/ UNCHANGED vars =>
          UNCHANGED <<connected, events, lastEvent>>
  BY DEF OpenWithContext, CancelParent, Close, CloseTail, vars, genVars, eventVars
<1> QED
  BY <1>1, <1>2, <1>3, <1>4, <1>5, <1>6, <1>7, <1>8 DEF Next, FinishNext

(* Whatever drops, closes and reconnects interleave, handlers see Connect and       *)
(* Disconnect strictly alternate.                                                 *)
THEOREM EventsAlternating == Spec => []EventsAlternate
<1>1. Init => EventsAlternate
  BY DEF Init, EventsAlternate
<1>2. GatewayInv /\ EventsAlternate /\ [Next]_vars => EventsAlternate'
  BY AlternateStep
<1> QED
  BY <1>1, <1>2, GatewayInvariant, PTL DEF Spec
-----------------------------------------------------------------------------
(* The routines of a lifecycle.                                              *)

Working == {"dial", "hello", "auth", "await", "activate"}

(* Lifecycles come one after the other; an earlier one is cancelled, and its       *)
(* generations are closed before another one begins.                              *)
LivesBegun ==
    /\ lifecycle <= lifecycleCounter
    /\ \A p \in Openers : opener[p] # "idle" => p[2] <= lifecycleCounter
    /\ \A g \in Gens : owner[g] <= lifecycleCounter
    /\ \A l \in Lives : l <= lifecycleCounter => l = lifecycle \/ l \in cancelled
    /\ connection # None => lifecycle \in {None, owner[connection]}

(* An opener works on a generation of its own lifecycle.                          *)
OpenersOwn ==
    /\ \A p \in Openers : Works(p) => owner[openGen[p]] = p[2]
    /\ \A p \in Openers : opener[p] = "stopwait" => p[2] \in cancelled
    /\ \A l \in Lives : opener[<<"open", l>>] # "exit"

(* What finish.Do does comes in its order: its critical section, then the cancel    *)
(* and the answer "failed", then the reconnect if it was decided.  A result that    *)
(* neither retries nor stops is one of an opener about its own attempt.             *)
FinishOrder ==
    /\ \A g \in Gens : (g \in genCancelled \/ ready[g] = "failed") => finish[g] \notin {"no", "enter"}
    /\ \A g \in Gens : finish[g] = "reconnect" => finishReconnects[g]
    /\ \A g \in Gens : finishReconnects[g] => finish[g] \notin {"no", "enter"}
    /\ \A g \in Gens :
          (finish[g] = "enter" /\ ~finishRes[g].retry /\ finishRes[g].action # "stop") =>
              g \notin connected /\ \A p \in Openers : Works(p) => openGen[p] # g

(* While OpenWithContext connects there is no reconnect routine and nothing that   *)
(* could start one; gatewayReconnectRunning is set while there is one.             *)
Connectors ==
    /\ \A l \in Lives : Opening(<<"open", l>>) =>
          /\ opener[<<"reconnect", l>>] = "idle"
          /\ \A g \in Gens : owner[g] = l => g \notin connected /\ ~finishReconnects[g]
    /\ \A l \in Lives : (lifecycle = l /\ opener[<<"reconnect", l>>] # "idle") => reconnectRunning

(* Until a generation is connected the opener that began it is there.              *)
MakerThere ==
    (connection # None /\ connection \notin connected /\ owner[connection] \notin cancelled) =>
       \E p \in Openers : /\ openGen[p] = connection /\ p[2] = owner[connection]
                          /\ opener[p] \in Working \cup {"join"}

RoutineInv == LivesBegun /\ OpenersOwn /\ FinishOrder /\ Connectors /\ MakerThere

(* An opener goes on without beginning a generation or ending a lifecycle.         *)
LEMMA OpenerGoesOn ==
  ASSUME TypeOK, RoutineInv, NEW p \in Openers, NEW to \in OpenerPCs,
         opener[p] # "idle", opener' = [opener EXCEPT ![p] = to],
         \A q \in Openers : q # p => openGen'[q] = openGen[q],
         UNCHANGED <<lifecycle, lifecycleCounter, cancelled, connection, owner, genCancelled,
                     connected, finish, finishRes, finishReconnects>>,
         \A g \in Gens : ready'[g] = "failed" => ready[g] = "failed",
         to \in Working => Works(p) /\ openGen'[p] = openGen[p],
         to # "stopwait", to = "exit" => p[1] = "reconnect",
         to \notin {"idle", "drain", "exit"} => Opening(p),
         \/ reconnectRunning' = reconnectRunning
         \/ to = "idle" /\ p[1] = "reconnect" /\ reconnectRunning' = (reconnectRunning /\ lifecycle # p[2]),
         opener[p] \in Working \cup {"join"} =>
            \/ to \in Working \cup {"join"} /\ openGen'[p] = openGen[p]
            \/ connection = None \/ openGen[p] # connection \/ owner[connection] \in cancelled
  PROVE  RoutineInv'
<1>1. \A q \in Openers : opener'[q] = IF q = p THEN to ELSE opener[q]
  BY DEF TypeOK, OpenType
<1>2. \A q \in Openers : Works(q)' => Works(q) /\ openGen'[q] = openGen[q]
  BY <1>1 DEF Works, Working
<1>3. \A q \in Openers : Opening(q)' => Opening(q)
  BY <1>1 DEF Opening
<1>4. LivesBegun'
  BY <1>1 DEF RoutineInv, LivesBegun
<1>5. OpenersOwn'
  <2>1. \A q \in Openers : Works(q)' => owner'[openGen'[q]] = q[2]
    BY <1>2 DEF RoutineInv, OpenersOwn
  <2>2. \A q \in Openers : opener'[q] = "stopwait" => q[2] \in cancelled'
    BY <1>1 DEF RoutineInv, OpenersOwn
  <2>3. ASSUME NEW l \in Lives PROVE opener'[<<"open", l>>] # "exit"
    <3>1. <<"open", l>> \in Openers /\ opener[<<"open", l>>] # "exit"
      BY OpenerShape DEF RoutineInv, OpenersOwn
    <3>2. p = <<"open", l>> => to # "exit"
      OBVIOUS
    <3> QED
      BY <1>1, <3>1, <3>2
  <2> QED
    BY <2>1, <2>2, <2>3 DEF OpenersOwn
<1>6. FinishOrder'
  BY <1>2 DEF RoutineInv, FinishOrder
<1>7. Connectors'
  <2>1. ASSUME NEW l \in Lives, Opening(<<"open", l>>)'
        PROVE  /\ opener'[<<"reconnect", l>>] = "idle"
               /\ \A g \in Gens : owner'[g] = l => g \notin connected' /\ ~finishReconnects'[g]
    <3>1. Opening(<<"open", l>>)
      BY <1>3, <2>1, OpenerShape
    <3>2. opener[<<"reconnect", l>>] = "idle" /\ p # <<"reconnect", l>>
      BY <3>1 DEF RoutineInv, Connectors
    <3> QED
      BY <1>1, <3>1, <3>2, OpenerShape DEF RoutineInv, Connectors
  <2>2. ASSUME NEW l \in Lives, lifecycle' = l, opener'[<<"reconnect", l>>] # "idle"
        PROVE  reconnectRunning'
    <3>1. opener[<<"reconnect", l>>] # "idle"
      BY <1>1, <2>2, OpenerShape
    <3>2. reconnectRunning
      BY <2>2, <3>1 DEF RoutineInv, Connectors
    <3>3. CASE reconnectRunning' = reconnectRunning
      BY <3>2, <3>3
    <3>4. CASE to = "idle" /\ p[1] = "reconnect" /\ reconnectRunning' = (reconnectRunning /\ lifecycle # p[2])
      <4>1. p # <<"reconnect", l>>
        BY <1>1, <2>2, <3>4
      <4>2. p = <<p[1], p[2]>>
        BY DEF Openers
      <4>3. lifecycle # p[2]
        BY <2>2, <3>4, <4>1, <4>2
      <4> QED
        BY <3>2, <3>4, <4>3
    <3> QED
      BY <3>3, <3>4
  <2> QED
    BY <2>1, <2>2 DEF Connectors
<1>8. MakerThere'
  <2> SUFFICES ASSUME connection # None, connection \notin connected,
                      owner[connection] \notin cancelled
               PROVE  \E q \in Openers : /\ openGen'[q] = connection /\ q[2] = owner[connection]
                                         /\ opener'[q] \in Working \cup {"join"}
    BY DEF MakerThere
  <2>1. PICK q \in Openers : /\ openGen[q] = connection /\ q[2] = owner[connection]
                             /\ opener[q] \in Working \cup {"join"}
    BY DEF RoutineInv, MakerThere
  <2>2. openGen'[q] = openGen[q] /\ opener'[q] \in Working \cup {"join"}
    BY <1>1, <2>1
  <2> QED
    BY <2>1, <2>2
<1> QED
  BY <1>4, <1>5, <1>6, <1>7, <1>8 DEF RoutineInv


(* A generation enters finish.Do, or is in it already.                             *)
LEMMA EnterOrder ==
  ASSUME TypeOK, RoutineInv, NEW n \in 0..MaxGens, NEW res \in Results, FinishWith(n, res),
         UNCHANGED <<genCancelled, ready, connected>>,
         \A q \in Openers : Works(q)' => Works(q) /\ openGen'[q] = openGen[q],
         \/ res.retry \/ res.action = "stop"
         \/ n \notin connected /\ \A q \in Openers : Works(q)' => openGen'[q] # n
  PROVE  FinishOrder'
<1>1. /\ finishReconnects' = finishReconnects
      /\ \A g \in Gens : /\ finish'[g] = (IF g = n /\ finish[g] = "no" THEN "enter" ELSE finish[g])
                         /\ finishRes'[g] = (IF g = n /\ finish[g] = "no" THEN res ELSE finishRes[g])
  BY DEF FinishWith, Entered, EnteredRes, TypeOK, FinType, Gens, None
<1>2. \A g \in Gens : (g \in genCancelled' \/ ready'[g] = "failed") => finish'[g] \notin {"no", "enter"}
  BY <1>1 DEF RoutineInv, FinishOrder
<1>3. \A g \in Gens : finish'[g] = "reconnect" => finishReconnects'[g]
  BY <1>1 DEF RoutineInv, FinishOrder
<1>4. \A g \in Gens : finishReconnects'[g] => finish'[g] \notin {"no", "enter"}
  BY <1>1 DEF RoutineInv, FinishOrder
<1>5. ASSUME NEW g \in Gens, finish'[g] = "enter", ~finishRes'[g].retry, finishRes'[g].action # "stop"
      PROVE  g \notin connected' /\ \A q \in Openers : Works(q)' => openGen'[q] # g
  <2>1. CASE g = n /\ finish[g] = "no"
    BY <1>1, <1>5, <2>1
  <2>2. CASE ~(g = n /\ finish[g] = "no")
    <3>1. finish[g] = "enter" /\ ~finishRes[g].retry /\ finishRes[g].action # "stop"
      BY <1>1, <1>5, <2>2
    <3> QED
      BY <3>1 DEF RoutineInv, FinishOrder
  <2> QED
    BY <2>1, <2>2
<1> QED
  BY <1>2, <1>3, <1>4, <1>5 DEF FinishOrder

(* The listener, the heartbeat and the context watcher.                            *)
LEMMA EnterKeeps ==
  ASSUME TypeOK, RoutineInv, NEW n \in 0..MaxGens, NEW res \in Results, FinishWith(n, res),
         res.retry \/ res.action = "stop",
         UNCHANGED <<lifecycle, lifecycleCounter, cancelled, reconnectRunning, connection, owner,
                     genCancelled, connected, ready, opener, openGen>>
  PROVE  RoutineInv'
<1>1. FinishOrder'
  BY EnterOrder DEF Works
<1>2. finishReconnects' = finishReconnects
  BY DEF FinishWith
<1>3. LivesBegun' /\ OpenersOwn'
  BY DEF RoutineInv, LivesBegun, OpenersOwn, Works
<1>4. Connectors' /\ MakerThere'
  BY <1>2 DEF RoutineInv, Connectors, MakerThere, Opening
<1> QED
  BY <1>1, <1>3, <1>4 DEF RoutineInv

(* An opener ends the generation it works on.                                      *)
LEMMA GiveUpRoutines ==
  ASSUME GatewayInv, RoutineInv, NEW p \in Openers, Works(p), NEW res \in Results, GiveUp(p, res)
  PROVE  RoutineInv'
<1> DEFINE n == openGen[p]
<1>1. n \in Gens /\ n \notin connected /\ TypeOK
  BY WorksOnGen DEF GatewayInv
<1>2. /\ FinishWith(n, res) /\ opener' = [opener EXCEPT ![p] = "join"] /\ openGen' = openGen
      /\ UNCHANGED <<lifecycle, lifecycleCounter, cancelled, reconnectRunning, connection, owner,
                     genCancelled, connected, ready>>
  BY DEF GiveUp, OpenerStep, lifeVars, connVars, genVars
<1> HIDE DEF n
<1>3. \A q \in Openers : opener'[q] = IF q = p THEN "join" ELSE opener[q]
  BY <1>1, <1>2 DEF TypeOK, OpenType
<1>4. \A q \in Openers : Works(q)' => Works(q) /\ q # p /\ openGen'[q] = openGen[q]
  BY <1>2, <1>3 DEF Works
<1>5. \A q \in Openers : Works(q)' => openGen'[q] # n
  BY <1>4 DEF GatewayInv, OpenersApart, n
<1>6. FinishOrder'
  BY <1>1, <1>2, <1>4, <1>5, EnterOrder DEF Gens
<1>7. LivesBegun'
  BY <1>2, <1>3 DEF RoutineInv, LivesBegun, Works
<1>8. OpenersOwn'
  BY <1>2, <1>3, <1>4 DEF RoutineInv, OpenersOwn
<1>9. Connectors'
  <2>1. finishReconnects' = finishReconnects
    BY <1>2 DEF FinishWith
  <2>2. \A q \in Openers : (Opening(q)' <=> Opening(q)) /\ (opener'[q] = "idle" <=> opener[q] = "idle")
    BY <1>3 DEF Opening, Works
  <2> QED
    BY <1>2, <2>1, <2>2, OpenerShape DEF RoutineInv, Connectors
<1>10. MakerThere'
  BY <1>2, <1>3 DEF RoutineInv, MakerThere
<1> QED
  BY <1>6, <1>7, <1>8, <1>9, <1>10 DEF RoutineInv

(* The lifecycle ends, by Close or by an opener (q goes to stopwait).              *)
LEMMA EndRoutines ==
  ASSUME TypeOK, RoutineInv, lifecycle # None, EndLifecycle, FinishWith(connection, StopResult),
         UNCHANGED <<connection, owner, genCancelled, connected, ready>>,
         \/ UNCHANGED <<opener, openGen>>
         \/ \E p \in Openers : /\ opener[p] = "stop" /\ p[2] = lifecycle
                               /\ opener' = [opener EXCEPT ![p] = "stopwait"]
                               /\ openGen' = [openGen EXCEPT ![p] = connection]
  PROVE  RoutineInv'
<1>1. /\ lifecycle' = 0 /\ cancelled' = cancelled \cup {lifecycle} /\ lifecycleCounter' = lifecycleCounter
      /\ finishReconnects' = finishReconnects /\ lifecycle \in Lives /\ lifecycleCounter \in Nat
  BY BoundsAssumption DEF EndLifecycle, FinishWith, None, TypeOK, LifeType, Lives
<1>2. ASSUME NEW q \in Openers
      PROVE  /\ Works(q)' => Works(q) /\ openGen'[q] = openGen[q]
             /\ opener'[q] = "idle" <=> opener[q] = "idle"
             /\ Opening(q)' <=> Opening(q)
             /\ opener'[q] = "stopwait" => opener[q] = "stopwait" \/ q[2] = lifecycle
             /\ opener'[q] = "exit" => opener[q] = "exit"
             /\ opener[q] \in Working \cup {"join"} => /\ opener'[q] \in Working \cup {"join"}
                                                       /\ openGen'[q] = openGen[q]
  BY DEF TypeOK, OpenType, Works, Opening, Working
<1>3. FinishOrder'
  <2>1. connection \in 0..MaxGens /\ StopResult.action = "stop"
    BY DEF TypeOK, ConnType, StopResult, Result
  <2> QED
    BY <1>2, <2>1, StopResultType, EnterOrder
<1>4. LivesBegun'
  BY <1>1, <1>2 DEF RoutineInv, LivesBegun, None
<1>5. OpenersOwn'
  <2>1. \A q \in Openers : Works(q)' => owner'[openGen'[q]] = q[2]
    BY <1>2 DEF RoutineInv, OpenersOwn
  <2>2. \A q \in Openers : opener'[q] = "stopwait" => q[2] \in cancelled'
    BY <1>1, <1>2 DEF RoutineInv, OpenersOwn
  <2>3. \A l \in Lives : opener'[<<"open", l>>] # "exit"
    BY <1>2, OpenerShape DEF RoutineInv, OpenersOwn
  <2> QED
    BY <2>1, <2>2, <2>3 DEF OpenersOwn
<1>6. Connectors'
  <2>1. \A l \in Lives : lifecycle' # l
    BY <1>1 DEF Lives
  <2>2. \A l \in Lives : Opening(<<"open", l>>)' =>
          /\ opener'[<<"reconnect", l>>] = "idle"
          /\ \A g \in Gens : owner'[g] = l => g \notin connected' /\ ~finishReconnects'[g]
    BY <1>1, <1>2, OpenerShape DEF RoutineInv, Connectors
  <2> QED
    BY <2>1, <2>2 DEF Connectors
<1>7. MakerThere'
  <2> SUFFICES ASSUME connection # None, connection \notin connected,
                      owner[connection] \notin cancelled
               PROVE  \E q \in Openers : /\ openGen'[q] = connection /\ q[2] = owner[connection]
                                         /\ opener'[q] \in Working \cup {"join"}
    BY <1>1 DEF MakerThere
  <2>1. PICK q \in Openers : /\ openGen[q] = connection /\ q[2] = owner[connection]
                             /\ opener[q] \in Working \cup {"join"}
    BY DEF RoutineInv, MakerThere
  <2> QED
    BY <1>2, <2>1
<1> QED
  BY <1>3, <1>4, <1>5, <1>6, <1>7 DEF RoutineInv


LEMMA OwnKept ==
  ASSUME OpenersOwn, cancelled \subseteq cancelled',
         \A q \in Openers : /\ Works(q)' => owner'[openGen'[q]] = q[2]
                            /\ opener'[q] = "stopwait" => opener[q] = "stopwait"
                            /\ opener'[q] = "exit" => opener[q] = "exit"
  PROVE  OpenersOwn'
<1>1. \A l \in Lives : opener'[<<"open", l>>] # "exit"
  BY OpenerShape DEF OpenersOwn
<1>2. \A q \in Openers : opener'[q] = "stopwait" => q[2] \in cancelled'
  BY DEF OpenersOwn
<1> QED
  BY <1>1, <1>2 DEF OpenersOwn

LEMMA OpenRoutines ==
  ASSUME GatewayInv, RoutineInv, OpenWithContext
  PROVE  RoutineInv'
<1> USE DEF None
<1>0. TypeOK /\ BegunOnly
  BY DEF GatewayInv
<1>1. PICK p \in Openers : /\ p = <<"open", lifecycleCounter + 1>>
                           /\ opener' = [opener EXCEPT ![p] = "begin"]
  <2>1. lifecycleCounter + 1 \in Lives
    BY <1>0, BoundsAssumption DEF OpenWithContext, TypeOK, LifeType, Lives
  <2>2. <<"open", lifecycleCounter + 1>> \in Openers
    BY <2>1, OpenerShape
  <2>3. opener' = [opener EXCEPT ![<<"open", lifecycleCounter + 1>>] = "begin"]
    BY DEF OpenWithContext, OpenerStep
  <2> QED
    BY <2>2, <2>3
<1>2. /\ lifecycle = 0 /\ connection = 0 /\ lifecycle' = lifecycleCounter + 1
      /\ lifecycleCounter' = lifecycleCounter + 1 /\ lifecycleCounter \in Nat
      /\ lifecycleCounter + 1 \in Lives
      /\ UNCHANGED <<cancelled, reconnectRunning, connection, owner, genCancelled, connected, ready,
                     finish, finishRes, finishReconnects, openGen>>
  BY <1>0, BoundsAssumption
     DEF OpenWithContext, connVars, genVars, finVars, TypeOK, LifeType, Lives
<1>3. \A q \in Openers : opener'[q] = IF q = p THEN "begin" ELSE opener[q]
  BY <1>0, <1>1 DEF TypeOK, OpenType
<1>4. \A q \in Openers : q[2] \in Nat /\ (q[2] = lifecycleCounter + 1 => opener[q] = "idle")
  <2> TAKE q \in Openers
  <2>1. q[2] \in Nat
    BY OpenerShape DEF Lives
  <2>2. opener[q] # "idle" => q[2] <= lifecycleCounter
    BY DEF RoutineInv, LivesBegun
  <2> QED
    BY <1>2, <2>1, <2>2
<1>5. \A g \in Gens : owner[g] # lifecycleCounter + 1 /\ owner[g] \in Nat
  BY <1>0, <1>2 DEF RoutineInv, LivesBegun, TypeOK, ConnType
<1>6. LivesBegun'
  <2>1. \A q \in Openers : opener'[q] # "idle" => q[2] <= lifecycleCounter + 1
    BY <1>1, <1>2, <1>3, <1>4 DEF RoutineInv, LivesBegun
  <2>2. \A g \in Gens : owner[g] <= lifecycleCounter + 1
    BY <1>2, <1>5 DEF RoutineInv, LivesBegun
  <2>3. \A l \in Lives : l <= lifecycleCounter + 1 => l = lifecycleCounter + 1 \/ l \in cancelled
    BY <1>2 DEF RoutineInv, LivesBegun, Lives
  <2> QED
    BY <1>2, <2>1, <2>2, <2>3 DEF LivesBegun
<1>7. OpenersOwn'
  <2>1. \A q \in Openers : Works(q)' => owner'[openGen'[q]] = q[2]
    BY <1>2, <1>3 DEF RoutineInv, OpenersOwn, Works
  <2> QED
    BY <1>2, <1>3, <2>1, OwnKept DEF RoutineInv
<1>8. FinishOrder'
  BY <1>2, <1>3 DEF RoutineInv, FinishOrder, Works
<1>9. Connectors'
  <2>1. ASSUME NEW l \in Lives, Opening(<<"open", l>>)'
        PROVE  /\ opener'[<<"reconnect", l>>] = "idle"
               /\ \A g \in Gens : owner'[g] = l => g \notin connected' /\ ~finishReconnects'[g]
    <3>1. CASE l = lifecycleCounter + 1
      BY <1>1, <1>2, <1>3, <1>4, <1>5, <3>1, OpenerShape
    <3>2. CASE l # lifecycleCounter + 1
      <4>1. Opening(<<"open", l>>)
        BY <1>1, <1>3, <2>1, <3>2, OpenerShape DEF Opening
      <4> QED
        BY <1>1, <1>2, <1>3, <4>1, OpenerShape DEF RoutineInv, Connectors
    <3> QED
      BY <3>1, <3>2
  <2>2. \A l \in Lives : lifecycle' = l => opener'[<<"reconnect", l>>] = "idle"
    BY <1>1, <1>2, <1>3, <1>4, OpenerShape
  <2> QED
    BY <2>1, <2>2 DEF Connectors
<1>10. MakerThere'
  BY <1>2 DEF MakerThere
<1> QED
  BY <1>6, <1>7, <1>8, <1>9, <1>10 DEF RoutineInv

LEMMA CancelRoutines ==
  ASSUME RoutineInv, CancelParent
  PROVE  RoutineInv'
<1>1. /\ cancelled \subseteq cancelled'
      /\ UNCHANGED <<lifecycle, lifecycleCounter, reconnectRunning, connection, owner, genCancelled,
                     connected, ready, finish, finishRes, finishReconnects, opener, openGen>>
  BY DEF CancelParent, connVars, genVars, finVars, openVars
<1>2. LivesBegun' /\ OpenersOwn'
  BY <1>1 DEF RoutineInv, LivesBegun, OpenersOwn, Works
<1>3. FinishOrder' /\ Connectors' /\ MakerThere'
  BY <1>1 DEF RoutineInv, FinishOrder, Connectors, MakerThere, Works, Opening
<1> QED
  BY <1>2, <1>3 DEF RoutineInv

LEMMA BeginRoutines ==
  ASSUME GatewayInv, RoutineInv, NEW p \in Openers, BeginGeneration(p)
  PROVE  RoutineInv'
<1> USE DEF None
<1> DEFINE n == connectionCounter + 1
<1>0. TypeOK /\ BegunOnly /\ ConnectedIsCurrent
  BY DEF GatewayInv
<1>1. /\ n \in Gens /\ opener[p] = "begin" /\ lifecycle = p[2] /\ p[2] \in Lives /\ connection = 0
      /\ connection' = n /\ owner' = [owner EXCEPT ![n] = p[2]]
      /\ openGen' = [openGen EXCEPT ![p] = n] /\ opener' = [opener EXCEPT ![p] = "dial"]
      /\ UNCHANGED <<lifecycle, lifecycleCounter, cancelled, reconnectRunning, genCancelled,
                     connected, ready, finish, finishRes, finishReconnects>>
  <2>1. n \in Gens
    BY <1>0, BoundsAssumption DEF BeginGeneration, TypeOK, ConnType, Gens
  <2>2. p[2] \in Lives
    BY OpenerShape
  <2> QED
    BY <2>1, <2>2 DEF BeginGeneration, OpenerStep, lifeVars, genVars, finVars
<1>2. /\ finish[n] = "no" /\ n \notin connected /\ ~finishReconnects[n]
      /\ \A q \in Openers : openGen[q] # n
  <2>1. ~(n <= connectionCounter)
    BY <1>0 DEF TypeOK, ConnType
  <2>2. finish[n] = "no" /\ \A q \in Openers : openGen[q] # n
    BY <1>0, <1>1, <2>1 DEF BegunOnly
  <2>3. n \notin connected
    BY <1>0, <1>1 DEF ConnectedIsCurrent, Gens
  <2>4. ~finishReconnects[n]
    BY <1>1, <2>2 DEF RoutineInv, FinishOrder
  <2> QED
    BY <2>2, <2>3, <2>4
<1> HIDE DEF n
<1>3. /\ \A q \in Openers : opener'[q] = IF q = p THEN "dial" ELSE opener[q]
      /\ \A q \in Openers : openGen'[q] = IF q = p THEN n ELSE openGen[q]
      /\ \A g \in Gens : owner'[g] = IF g = n THEN p[2] ELSE owner[g]
  BY <1>0, <1>1 DEF TypeOK, OpenType, ConnType
<1>4. LivesBegun'
  BY <1>1, <1>3 DEF RoutineInv, LivesBegun
<1>5. OpenersOwn'
  <2>1. ASSUME NEW q \in Openers, Works(q)' PROVE owner'[openGen'[q]] = q[2]
    <3>1. CASE q = p
      BY <1>1, <1>3, <3>1
    <3>2. CASE q # p
      <4>1. Works(q) /\ openGen'[q] = openGen[q] /\ openGen[q] # n
        BY <1>2, <1>3, <2>1, <3>2 DEF Works
      <4>2. openGen[q] \in Gens
        BY <4>1, WorksOnGen
      <4> QED
        BY <1>3, <4>1, <4>2 DEF RoutineInv, OpenersOwn
    <3> QED
      BY <3>1, <3>2
  <2> QED
    BY <1>1, <1>3, <2>1, OwnKept DEF RoutineInv
<1>6. FinishOrder'
  BY <1>1, <1>2, <1>3 DEF RoutineInv, FinishOrder, Works
<1>7. Connectors'
  <2>1. \A q \in Openers : (Opening(q)' <=> Opening(q)) /\ (opener'[q] = "idle" <=> opener[q] = "idle")
    BY <1>1, <1>3 DEF Opening
  <2> QED
    BY <1>1, <1>2, <1>3, <2>1, OpenerShape DEF RoutineInv, Connectors
<1>8. MakerThere'
  BY <1>1, <1>3 DEF MakerThere, Working
<1> QED
  BY <1>4, <1>5, <1>6, <1>7, <1>8 DEF RoutineInv

(* abortGatewayGeneration.                                                         *)
LEMMA AbortRoutines ==
  ASSUME GatewayInv, RoutineInv, NEW p \in Openers, opener[p] = "dial", NEW res,
         Abort(p, openGen[p], res)
  PROVE  RoutineInv'
<1> USE DEF None
<1> DEFINE n == openGen[p]
<1>0. TypeOK
  BY DEF GatewayInv
<1>1. /\ Works(p) /\ n \in Gens /\ n \notin connected
      /\ opener' = [opener EXCEPT ![p] = "join"]
      /\ UNCHANGED <<lifecycleCounter, cancelled, owner, connected, ready, finishRes,
                     finishReconnects, openGen>>
  BY WorksOnGen DEF Works, Abort, OpenerStep
<1>2. \A q \in Openers : opener'[q] = IF q = p THEN "join" ELSE opener[q]
  BY <1>0, <1>1 DEF TypeOK, OpenType
<1>3. /\ \/ lifecycle' = lifecycle /\ reconnectRunning' = reconnectRunning
         \/ lifecycle' = 0 /\ lifecycle \in cancelled
      /\ connection' = connection \/ connection' = 0
      /\ \A g \in Gens : finish'[g] = IF g = n /\ finish[g] = "no" THEN "done" ELSE finish[g]
      /\ \A g \in Gens : g \in genCancelled' => g \in genCancelled \/ (g = n /\ finish'[g] = "done")
  <2>1. CASE finish[n] = "no"
    <3>1. /\ finish' = [finish EXCEPT ![n] = "done"] /\ genCancelled' = genCancelled \cup {n}
          /\ connection' = connection \/ connection' = 0
          /\ \/ lifecycle' = lifecycle /\ reconnectRunning' = reconnectRunning
             \/ lifecycle' = 0 /\ lifecycle \in cancelled
      BY <2>1 DEF Abort
    <3> QED
      BY <1>0, <1>1, <2>1, <3>1 DEF TypeOK, FinType
  <2>2. CASE finish[n] # "no"
    <3>1. UNCHANGED <<finish, genCancelled, connection, lifecycle, reconnectRunning>>
      BY <2>2 DEF Abort
    <3> QED
      BY <2>2, <3>1
  <2> QED
    BY <2>1, <2>2
<1> HIDE DEF n
<1>4. LivesBegun'
  <2>1. \A q \in Openers : opener'[q] # "idle" => q[2] <= lifecycleCounter
    BY <1>2, <1>1 DEF RoutineInv, LivesBegun, Works
  <2>2. lifecycle' <= lifecycleCounter
    BY <1>0, <1>3 DEF RoutineInv, LivesBegun, TypeOK, LifeType
  <2>3. \A l \in Lives : l <= lifecycleCounter => l = lifecycle' \/ l \in cancelled
    BY <1>3 DEF RoutineInv, LivesBegun
  <2>4. connection' # 0 => lifecycle' \in {0, owner[connection']}
    BY <1>3 DEF RoutineInv, LivesBegun
  <2> QED
    BY <1>1, <2>1, <2>2, <2>3, <2>4 DEF RoutineInv, LivesBegun
<1>5. OpenersOwn'
  <2>1. \A q \in Openers : Works(q)' => Works(q)
    BY <1>2 DEF Works
  <2> QED
    BY <1>1, <1>2, <2>1, OpenerShape DEF RoutineInv, OpenersOwn
<1>6. FinishOrder'
  <2>1. \A q \in Openers : Works(q)' => Works(q)
    BY <1>2 DEF Works
  <2> QED
    BY <1>1, <1>3, <2>1 DEF RoutineInv, FinishOrder
<1>7. Connectors'
  <2>1. \A q \in Openers : (Opening(q)' <=> Opening(q)) /\ (opener'[q] = "idle" <=> opener[q] = "idle")
    BY <1>1, <1>2 DEF Opening, Works
  <2>2. \A l \in Lives : lifecycle' = l => lifecycle = l /\ reconnectRunning' = reconnectRunning
    BY <1>3 DEF Lives
  <2> QED
    BY <1>1, <2>1, <2>2, OpenerShape DEF RoutineInv, Connectors
<1>8. MakerThere'
  <2> SUFFICES ASSUME connection' # 0, connection' \notin connected,
                      owner[connection'] \notin cancelled
               PROVE  \E q \in Openers : /\ openGen'[q] = connection' /\ q[2] = owner[connection']
                                         /\ opener'[q] \in Working \cup {"join"}
    BY <1>1 DEF MakerThere
  <2>1. connection' = connection
    BY <1>3
  <2>2. PICK q \in Openers : /\ openGen[q] = connection /\ q[2] = owner[connection]
                             /\ opener[q] \in Working \cup {"join"}
    BY <2>1 DEF RoutineInv, MakerThere
  <2> QED
    BY <1>1, <1>2, <2>1, <2>2
<1> QED
  BY <1>4, <1>5, <1>6, <1>7, <1>8 DEF RoutineInv


LEMMA ActivateRoutines ==
  ASSUME GatewayInv, RoutineInv, NEW p \in Openers, Activate(p)
  PROVE  RoutineInv'
<1> DEFINE n == openGen[p]
<1>1. /\ Works(p) /\ Opening(p) /\ opener[p] # "idle" /\ n \in Gens /\ connection = n /\ owner[n] = p[2]
  BY WorksOnGen DEF Activate, Current, Works, Opening, RoutineInv, OpenersOwn
<1>2. /\ opener' = [opener EXCEPT ![p] = "drain"] /\ connected' = connected \cup {n}
      /\ UNCHANGED <<lifecycle, lifecycleCounter, cancelled, reconnectRunning, connection, owner,
                     genCancelled, ready, finish, finishRes, finishReconnects, openGen>>
  BY DEF Activate, OpenerStep, lifeVars, connVars, finVars
<1> HIDE DEF n
<1>3. \A q \in Openers : opener'[q] = IF q = p THEN "drain" ELSE opener[q]
  BY <1>2 DEF GatewayInv, TypeOK, OpenType
<1>4. LivesBegun'
  BY <1>1, <1>2, <1>3 DEF RoutineInv, LivesBegun
<1>5. OpenersOwn'
  <2>1. \A q \in Openers : Works(q)' => Works(q)
    BY <1>3 DEF Works
  <2> QED
    BY <1>2, <1>3, <2>1, OwnKept DEF RoutineInv, OpenersOwn
<1>6. FinishOrder'
  <2>1. \A q \in Openers : Works(q)' => Works(q)
    BY <1>3 DEF Works
  <2>2. ~(finish[n] = "enter" /\ ~finishRes[n].retry /\ finishRes[n].action # "stop")
    BY <1>1 DEF RoutineInv, FinishOrder, n
  <2> QED
    BY <1>2, <2>1, <2>2 DEF RoutineInv, FinishOrder
<1>7. Connectors'
  <2>1. ASSUME NEW l \in Lives, Opening(<<"open", l>>)'
        PROVE  /\ opener'[<<"reconnect", l>>] = "idle"
               /\ \A g \in Gens : owner'[g] = l => g \notin connected' /\ ~finishReconnects'[g]
    <3>1. Opening(<<"open", l>>) /\ p # <<"open", l>>
      BY <1>3, <2>1, OpenerShape DEF Opening
    <3>2. opener[<<"reconnect", l>>] = "idle" /\ p # <<"reconnect", l>>
      BY <1>1, <3>1 DEF RoutineInv, Connectors
    <3>3. p[2] # l
      BY <3>1, <3>2 DEF Openers
    <3> QED
      BY <1>1, <1>2, <1>3, <3>1, <3>2, <3>3, OpenerShape DEF RoutineInv, Connectors
  <2>2. \A l \in Lives : (lifecycle' = l /\ opener'[<<"reconnect", l>>] # "idle") => reconnectRunning'
    <3>1. \A q \in Openers : opener'[q] # "idle" => opener[q] # "idle"
      BY <1>1, <1>3
    <3> QED
      BY <1>2, <3>1, OpenerShape DEF RoutineInv, Connectors
  <2> QED
    BY <2>1, <2>2 DEF Connectors
<1>8. MakerThere'
  BY <1>1, <1>2 DEF MakerThere
<1> QED
  BY <1>4, <1>5, <1>6, <1>7, <1>8 DEF RoutineInv

LEMMA FinishEnterRoutines ==
  ASSUME GatewayInv, RoutineInv, NEW g \in Gens, FinishEnter(g)
  PROVE  /\ RoutineInv' /\ connection = g /\ connection' = None
<1> USE DEF None
<1>1. connection = g
  BY DEF FinishEnter, GatewayInv, CurrentIffUnfinished, BegunOnly
<1>2. /\ connection' = 0 /\ finish' = [finish EXCEPT ![g] = "drain"]
      /\ genCancelled' = genCancelled \cup {g} /\ connected' = connected \ {g}
      /\ UNCHANGED <<lifecycleCounter, owner, finishRes, opener, openGen>>
  BY <1>1 DEF FinishEnter, openVars
<1>3. /\ \/ lifecycle' = lifecycle /\ reconnectRunning' = reconnectRunning /\ cancelled' = cancelled
         \/ /\ lifecycle' = 0 /\ lifecycle = owner[g] /\ cancelled' = cancelled \cup {owner[g]}
  <2>1. CASE lifecycle = owner[g] /\ (owner[g] \in cancelled \/ (WasUp(g) /\ finishRes[g].action = "stop"))
    BY <2>1 DEF FinishEnter
  <2>2. CASE ~(lifecycle = owner[g] /\ (owner[g] \in cancelled \/ (WasUp(g) /\ finishRes[g].action = "stop")))
    <3>1. lifecycle' = lifecycle /\ cancelled' = cancelled
      BY <2>2 DEF FinishEnter
    <3>2. reconnectRunning' = reconnectRunning
      <4>1. reconnectRunning \in BOOLEAN /\ reconnectRunning' = (reconnectRunning /\ TRUE)
        BY <2>2 DEF FinishEnter, GatewayInv, TypeOK, LifeType
      <4> QED
        BY <4>1
    <3> QED
      BY <3>1, <3>2
  <2> QED
    BY <2>1, <2>2
<1>4. /\ \A h \in Gens : finish'[h] = IF h = g THEN "drain" ELSE finish[h]
      /\ \A h \in Gens : ready'[h] = "failed" => h = g \/ ready[h] = "failed"
      /\ \A h \in Gens : finishReconnects'[h] => (h = g /\ g \in connected) \/ finishReconnects[h]
      /\ \A h \in Gens : h # g => finishReconnects'[h] = finishReconnects[h]
  <2>1. \A h \in Gens : finish'[h] = IF h = g THEN "drain" ELSE finish[h]
    BY <1>2 DEF GatewayInv, TypeOK, FinType
  <2>2. \A h \in Gens : ready'[h] = "failed" => h = g \/ ready[h] = "failed"
    BY DEF FinishEnter, GatewayInv, TypeOK, GenType
  <2>3. PICK b : finishReconnects' = [finishReconnects EXCEPT ![g] = b] /\ (b => g \in connected)
    BY DEF FinishEnter, WasUp
  <2>4. \A h \in Gens : finishReconnects'[h] = IF h = g THEN b ELSE finishReconnects[h]
    BY <2>3 DEF GatewayInv, TypeOK, FinType
  <2> QED
    BY <2>1, <2>2, <2>3, <2>4
<1>5. LivesBegun'
  BY <1>2, <1>3 DEF RoutineInv, LivesBegun, GatewayInv, TypeOK, LifeType
<1>6. OpenersOwn'
  BY <1>2, <1>3, OwnKept DEF RoutineInv, OpenersOwn, Works
<1>7. FinishOrder'
  BY <1>2, <1>4 DEF RoutineInv, FinishOrder, Works
<1>8. Connectors'
  <2>1. \A l \in Lives : Opening(<<"open", l>>)' =>
          /\ opener'[<<"reconnect", l>>] = "idle"
          /\ \A h \in Gens : owner'[h] = l => h \notin connected' /\ ~finishReconnects'[h]
    BY <1>2, <1>4 DEF RoutineInv, Connectors, Opening
  <2>2. \A l \in Lives : lifecycle' = l => lifecycle = l /\ reconnectRunning' = reconnectRunning
    BY <1>3 DEF Lives
  <2> QED
    BY <1>2, <2>1, <2>2 DEF RoutineInv, Connectors
<1>9. MakerThere'
  BY <1>2 DEF MakerThere
<1> QED
  BY <1>1, <1>2, <1>5, <1>6, <1>7, <1>8, <1>9 DEF RoutineInv

LEMMA FinishDrainsRoutines ==
  ASSUME TypeOK, RoutineInv, NEW g \in Gens, FinishDrains(g)
  PROVE  RoutineInv'
<1>1. UNCHANGED <<lifecycle, lifecycleCounter, cancelled, reconnectRunning, connection, owner,
                  genCancelled, connected, ready, finishRes, finishReconnects, opener, openGen>>
  BY DEF FinishDrains, lifeVars, connVars, genVars, openVars
<1>2. \A h \in Gens : \/ finish'[h] = finish[h]
                      \/ /\ finish[h] = "drain" /\ finish'[h] \in {"reconnect", "done"}
                         /\ finish'[h] = "reconnect" => finishReconnects[h]
  BY DEF FinishDrains, TypeOK, FinType
<1>3. LivesBegun' /\ OpenersOwn' /\ Connectors' /\ MakerThere'
  BY <1>1 DEF RoutineInv, LivesBegun, OpenersOwn, Connectors, MakerThere, Works, Opening
<1>4. FinishOrder'
  BY <1>1, <1>2 DEF RoutineInv, FinishOrder, Works
<1> QED
  BY <1>3, <1>4 DEF RoutineInv


(* A reconnect routine starts, or the lifecycle of a Session that does not         *)
(* reconnect ends.                                                                *)
LEMMA StartReconnectRoutines ==
  ASSUME GatewayInv, RoutineInv, NEW g \in Gens, StartReconnect(g)
  PROVE  RoutineInv'
<1> USE DEF None
<1>0. TypeOK
  BY DEF GatewayInv
<1>1. finish[g] = "reconnect" /\ finishReconnects[g]
  BY DEF StartReconnect, RoutineInv, FinishOrder
<1>2. /\ UNCHANGED <<lifecycleCounter, connection, owner, genCancelled, connected, ready,
                     finishReconnects, openGen>>
  BY DEF StartReconnect, EndLifecycle, lifeVars, connVars, genVars, openVars
<1>3. g \in Gens /\ g <= connectionCounter /\ owner[g] \in Lives
  <2>1. g <= connectionCounter
    BY <1>1 DEF GatewayInv, BegunOnly
  <2>2. owner[g] # 0 /\ owner[g] \in 0..MaxLife
    BY <1>0, <2>1 DEF GatewayInv, BegunOnly, TypeOK, ConnType
  <2> QED
    BY <2>1, <2>2, BoundsAssumption DEF Lives
<1>4. CASE /\ opener' = opener /\ UNCHANGED <<lifecycle, cancelled, reconnectRunning, finishRes>>
           /\ finish' = [finish EXCEPT ![g] = "done"]
  <2>1. \A h \in Gens : finish'[h] = IF h = g THEN "done" ELSE finish[h]
    BY <1>0, <1>4 DEF TypeOK, FinType
  <2>2. LivesBegun' /\ OpenersOwn' /\ Connectors' /\ MakerThere'
    BY <1>2, <1>4 DEF RoutineInv, LivesBegun, OpenersOwn, Connectors, MakerThere, Works, Opening
  <2>3. FinishOrder'
    BY <1>2, <1>4, <2>1 DEF RoutineInv, FinishOrder, Works
  <2> QED
    BY <2>2, <2>3 DEF RoutineInv
<1>5. CASE /\ lifecycle = owner[g] /\ EndLifecycle /\ opener' = opener
           /\ finish' = [Entered(connection) EXCEPT ![g] = "done"]
           /\ finishRes' = EnteredRes(connection, StopResult)
  <2>1. lifecycle' = 0 /\ cancelled' = cancelled \cup {lifecycle} /\ lifecycle # 0
    BY <1>3, <1>5 DEF EndLifecycle, Lives
  <2>2. \A h \in Gens :
           \/ finish'[h] = finish[h] /\ finishRes'[h] = finishRes[h]
           \/ finish'[h] = "done"
           \/ /\ finish[h] = "no" /\ finish'[h] = "enter" /\ finishRes'[h] = StopResult
    BY <1>0, <1>5 DEF Entered, EnteredRes, TypeOK, FinType, Gens
  <2>3. LivesBegun'
    BY <1>0, <1>2, <1>5, <2>1 DEF RoutineInv, LivesBegun, TypeOK, LifeType
  <2>4. OpenersOwn'
    BY <1>2, <1>5, <2>1, OwnKept DEF RoutineInv, OpenersOwn, Works
  <2>5. FinishOrder'
    <3>1. StopResult.action = "stop"
      BY DEF StopResult, Result
    <3> QED
      BY <1>2, <1>5, <2>2, <3>1 DEF RoutineInv, FinishOrder, Works
  <2>6. Connectors'
    BY <1>2, <1>5, <2>1 DEF RoutineInv, Connectors, Opening, Lives
  <2>7. MakerThere'
    BY <1>2, <1>5, <2>1 DEF RoutineInv, MakerThere
  <2> QED
    BY <2>3, <2>4, <2>5, <2>6, <2>7 DEF RoutineInv
<1>6. CASE /\ lifecycle = owner[g] /\ ~reconnectRunning /\ reconnectRunning' = TRUE
           /\ opener' = [opener EXCEPT ![<<"reconnect", owner[g]>>] = "retry"]
           /\ finish' = [finish EXCEPT ![g] = "done"]
           /\ UNCHANGED <<lifecycle, cancelled, finishRes>>
  <2>1. PICK p \in Openers : p = <<"reconnect", owner[g]>>
    BY <1>3, OpenerShape
  <2>2. /\ \A h \in Gens : finish'[h] = IF h = g THEN "done" ELSE finish[h]
        /\ \A q \in Openers : opener'[q] = IF q = p THEN "retry" ELSE opener[q]
    BY <1>0, <1>6, <2>1 DEF TypeOK, FinType, OpenType
  <2>3. opener[p] = "idle" /\ ~Opening(<<"open", owner[g]>>)
    BY <1>1, <1>3, <1>6, <2>1 DEF RoutineInv, Connectors
  <2>4. \A q \in Openers : Works(q)' => Works(q)
    BY <2>2 DEF Works
  <2>5. LivesBegun'
    BY <1>2, <1>6, <2>1, <2>2 DEF RoutineInv, LivesBegun
  <2>6. OpenersOwn'
    BY <1>2, <1>6, <2>2, <2>4, OwnKept DEF RoutineInv, OpenersOwn
  <2>7. FinishOrder'
    BY <1>2, <1>6, <2>2, <2>4 DEF RoutineInv, FinishOrder
  <2>8. Connectors'
    <3>1. ASSUME NEW l \in Lives, Opening(<<"open", l>>)'
          PROVE  /\ opener'[<<"reconnect", l>>] = "idle"
                 /\ \A h \in Gens : owner'[h] = l => h \notin connected' /\ ~finishReconnects'[h]
      <4>1. p # <<"open", l>> /\ <<"open", l>> \in Openers
        BY <2>1, OpenerShape
      <4>2. Opening(<<"open", l>>)
        BY <2>2, <3>1, <4>1 DEF Opening
      <4>3. l # owner[g]
        BY <2>3, <4>2
      <4> QED
        BY <1>2, <2>1, <2>2, <4>2, <4>3, OpenerShape DEF RoutineInv, Connectors
    <3> QED
      BY <1>6, <3>1 DEF Connectors
  <2>9. MakerThere'
    <3>1. \A q \in Openers : opener[q] \in Working \cup {"join"} => q # p
      BY <2>3 DEF Working
    <3> QED
      BY <1>2, <1>6, <2>2, <3>1 DEF RoutineInv, MakerThere
  <2> QED
    BY <2>5, <2>6, <2>7, <2>8, <2>9 DEF RoutineInv
<1> QED
  BY <1>4, <1>5, <1>6 DEF StartReconnect, Claim, OpenerStep, lifeVars, openVars


LEMMA OpenerRoutines ==
  ASSUME GatewayInv, RoutineInv, NEW p \in Openers, OpenerNext(p)
  PROVE  RoutineInv'
<1> USE DEF None
<1>0. TypeOK
  BY DEF GatewayInv
<1>1. CASE BeginGeneration(p)
  BY <1>1, BeginRoutines
<1>2. CASE DialFails(p) \/ AttachFails(p)
  BY <1>2, AbortRoutines DEF DialFails, AttachFails
<1>3. CASE HelloFails(p) \/ AuthenticateFails(p) \/ AwaitDone(p) \/ ActivateFails(p)
  <2>1. PICK res \in Results : Works(p) /\ GiveUp(p, res)
    BY <1>3, StopResultType, ResultType
       DEF HelloFails, AuthenticateFails, AwaitDone, ActivateFails, Works, Actions
  <2> QED
    BY <2>1, GiveUpRoutines
<1>4. CASE Activate(p)
  BY <1>4, ActivateRoutines
<1>5. CASE StopLifecycle(p) /\ lifecycle = p[2]
  <2>1. p[2] \in Lives
    BY OpenerShape
  <2>2. /\ lifecycle # 0 /\ EndLifecycle /\ FinishWith(connection, StopResult)
        /\ UNCHANGED <<connection, owner, genCancelled, connected, ready>>
        /\ opener[p] = "stop" /\ opener' = [opener EXCEPT ![p] = "stopwait"]
        /\ openGen' = [openGen EXCEPT ![p] = connection]
    BY <1>5, <2>1 DEF StopLifecycle, OpenerStep, connVars, genVars, Lives
  <2> QED
    BY <1>0, <1>5, <2>2, EndRoutines
<1> DEFINE frame == UNCHANGED <<lifecycle, lifecycleCounter, cancelled, connection, owner,
                                genCancelled, connected, finish, finishRes, finishReconnects>>
           quiet == /\ reconnectRunning' = reconnectRunning /\ frame
                    /\ \A q \in Openers : q # p => openGen'[q] = openGen[q]
                    /\ \A g \in Gens : ready'[g] = "failed" => ready[g] = "failed"
           stays == openGen'[p] = openGen[p]
<1>6. CASE BeginFails(p)
  <2>1. quiet /\ opener[p] = "begin" /\ opener' = [opener EXCEPT ![p] = "join"]
    BY <1>0, <1>6 DEF BeginFails, OpenerStep, lifeVars, connVars, genVars, finVars, TypeOK, OpenType
  <2> QED
    BY <1>0, <2>1, OpenerGoesOn DEF Working, Opening, OpenerPCs
<1>7. ASSUME NEW from \in {"dial", "hello", "auth"}, NEW to \in {"hello", "auth", "await"},
             opener[p] = from, opener' = [opener EXCEPT ![p] = to], quiet, stays
      PROVE  RoutineInv'
  BY <1>0, <1>7, OpenerGoesOn DEF Working, Works, Opening, OpenerPCs
<1>8. CASE Attach(p) \/ Hello(p) \/ Authenticate(p)
  BY <1>7, <1>8 DEF Attach, Hello, Authenticate, OpenerStep, lifeVars, connVars, genVars, finVars
<1>9. CASE AwaitReady(p) \/ AwaitDoneReady(p)
  <2>1. /\ opener[p] = "await" /\ quiet /\ Works(p) /\ openGen[p] \in Gens
    <3>1. opener[p] = "await" /\ Works(p) /\ openGen[p] \in Gens
      BY <1>9, WorksOnGen DEF AwaitReady, AwaitDoneReady, Works
    <3>2. frame /\ reconnectRunning' = reconnectRunning
      BY <1>9 DEF AwaitReady, AwaitDoneReady, lifeVars, connVars, finVars
    <3>3. ready' = [ready EXCEPT ![openGen[p]] = "empty"]
      BY <1>9 DEF AwaitReady, AwaitDoneReady
    <3>4. \A q \in Openers : q # p => openGen'[q] = openGen[q]
      BY <1>0, <1>9 DEF AwaitReady, AwaitDoneReady, OpenerLeaves, TypeOK, OpenType
    <3> QED
      BY <1>0, <3>1, <3>2, <3>3, <3>4 DEF TypeOK, GenType
  <2>2. CASE opener' = [opener EXCEPT ![p] = "activate"] /\ openGen' = openGen
    BY <1>0, <2>1, <2>2, OpenerGoesOn DEF Working, Opening, OpenerPCs
  <2>3. CASE /\ opener' = [opener EXCEPT ![p] = "decide"] /\ openGen' = openGen
             /\ ready[openGen[p]] = "failed"
    <3>1. openGen[p] # connection
      BY <2>1, <2>3 DEF RoutineInv, FinishOrder, GatewayInv, CurrentIffUnfinished
    <3> QED
      BY <1>0, <2>1, <2>3, <3>1, OpenerGoesOn DEF Working, Opening, OpenerPCs
  <2>4. ASSUME NEW to \in {"idle", "exit"}, to = "exit" => p[1] = "reconnect",
               opener' = [opener EXCEPT ![p] = to], CtxDone(openGen[p])
        PROVE  RoutineInv'
    <3>1. openGen[p] # connection \/ owner[connection] \in cancelled
      BY <2>1, <2>4 DEF CtxDone, RoutineInv, FinishOrder, GatewayInv, CurrentIffUnfinished
    <3> QED
      BY <1>0, <2>1, <2>4, <3>1, OpenerGoesOn DEF Working, Opening, OpenerPCs
  <2>5. ready[openGen[p]] \in {"empty", "ok", "failed"} /\ p[1] \in {"open", "reconnect"}
    BY <1>0, <2>1, OpenerShape DEF TypeOK, GenType
  <2> QED
    BY <1>9, <2>2, <2>3, <2>4, <2>5 DEF AwaitReady, AwaitDoneReady, OpenerLeaves, OpenerStep
<1>10. ASSUME NEW to \in {"idle", "exit"}, to = "exit" => p[1] = "reconnect", quiet,
              opener' = [opener EXCEPT ![p] = to],
              opener[p] \in {"drain", "retry", "stop", "stopwait"}
       PROVE  RoutineInv'
  BY <1>0, <1>10, OpenerGoesOn DEF Working, Opening, OpenerPCs
<1>11. CASE StopTail(p) \/ OpenerDrains(p) \/ (StopLifecycle(p) /\ lifecycle # p[2])
  <2>1. quiet /\ opener[p] \in {"drain", "stop", "stopwait"} /\ p[1] \in {"open", "reconnect"}
    BY <1>0, <1>11, OpenerShape
       DEF StopTail, OpenerDrains, StopLifecycle, OpenerLeaves, lifeVars, connVars, genVars, finVars,
           openVars, TypeOK, OpenType
  <2>2. \/ UNCHANGED <<opener, openGen>>
        \/ \E to \in {"idle", "exit"} : /\ to = "exit" => p[1] = "reconnect"
                                        /\ opener' = [opener EXCEPT ![p] = to]
    BY <1>11, <2>1 DEF StopTail, OpenerDrains, StopLifecycle, OpenerLeaves, OpenerStep, openVars
  <2>3. CASE UNCHANGED <<opener, openGen>>
    BY <2>1, <2>3
       DEF RoutineInv, LivesBegun, OpenersOwn, FinishOrder, Connectors, MakerThere, Works, Opening
  <2> QED
    BY <1>10, <2>1, <2>2, <2>3
<1>12. CASE Decide(p)
  <2>1. /\ quiet /\ openGen' = openGen /\ opener[p] \in {"decide", "join"}
        /\ opener[p] = "join" => Finished(openGen[p])
    BY <1>12 DEF Decide, lifeVars, connVars, genVars, finVars
  <2>2. PICK to \in {"stop", "retry", "exit"} : /\ opener' = [opener EXCEPT ![p] = to]
                                                /\ to = "exit" => p[1] = "reconnect"
    BY <1>12, OpenerShape DEF Decide, OpenerStep
  <2>3. opener[p] = "join" => openGen[p] # connection \/ connection = 0
    BY <1>0, <2>1 DEF Finished, GatewayInv, CurrentIffUnfinished, TypeOK, ConnType, OpenType, Gens
  <2> QED
    BY <1>0, <2>1, <2>2, <2>3, OpenerGoesOn DEF Working, Opening, OpenerPCs
<1>13. CASE Retry(p)
  <2>1. quiet /\ opener[p] = "retry"
    BY <1>0, <1>13 DEF Retry, OpenerLeaves, lifeVars, connVars, genVars, finVars, TypeOK, OpenType
  <2>2. PICK to \in {"begin", "stop", "exit"} : /\ opener' = [opener EXCEPT ![p] = to]
                                                /\ to = "exit" => p[1] = "reconnect"
    BY <1>13, OpenerShape DEF Retry, OpenerLeaves, OpenerStep
  <2> QED
    BY <1>0, <2>1, <2>2, OpenerGoesOn DEF Working, Opening, OpenerPCs
<1>14. CASE ReconnectExits(p)
  <2>1. /\ frame /\ opener[p] = "exit" /\ opener' = [opener EXCEPT ![p] = "idle"]
        /\ reconnectRunning' = (reconnectRunning /\ lifecycle # p[2]) /\ ready' = ready
        /\ \A q \in Openers : q # p => openGen'[q] = openGen[q]
    BY <1>0, <1>14
       DEF ReconnectExits, OpenerLeaves, OpenerStep, connVars, genVars, finVars, TypeOK, OpenType
  <2>2. p[1] = "reconnect"
    <3>1. p = <<p[1], p[2]>> /\ p[1] \in {"open", "reconnect"} /\ p[2] \in Lives
      BY OpenerShape DEF Openers
    <3> QED
      BY <2>1, <3>1 DEF RoutineInv, OpenersOwn
  <2> QED
    BY <1>0, <2>1, <2>2, OpenerGoesOn DEF Working, Opening, OpenerPCs
<1> HIDE DEF frame, quiet, stays
<1> QED
  BY <1>1, <1>2, <1>3, <1>4, <1>5, <1>6, <1>8, <1>9, <1>11, <1>12, <1>13, <1>14 DEF OpenerNext


LEMMA RoutineStep == GatewayInv /\ RoutineInv /\ [Next]_vars => RoutineInv'
<1> SUFFICES ASSUME GatewayInv, RoutineInv, [Next]_vars PROVE RoutineInv'
  OBVIOUS
<1>0. TypeOK
  BY DEF GatewayInv
<1>1. CASE OpenWithContext
  BY <1>1, OpenRoutines
<1>2. CASE CancelParent
  BY <1>2, CancelRoutines
<1>3. ASSUME NEW c \in Closers, Close(c) PROVE RoutineInv'
  <2>1. /\ FinishWith(connection, StopResult) /\ StopResult.action = "stop"
        /\ UNCHANGED <<connection, owner, genCancelled, connected, ready, opener, openGen>>
    BY <1>3 DEF Close, connVars, genVars, openVars, StopResult, Result
  <2>2. CASE lifecycle # None
    BY <1>0, <1>3, <2>1, <2>2, EndRoutines DEF Close
  <2>3. CASE lifecycle = None
    <3>1. UNCHANGED <<lifecycle, lifecycleCounter, cancelled, reconnectRunning>>
      BY <1>3, <2>3 DEF Close, lifeVars
    <3>2. connection \in 0..MaxGens
      BY <1>0 DEF TypeOK, ConnType
    <3> QED
      BY <1>0, <2>1, <3>1, <3>2, StopResultType, EnterKeeps
  <2> QED
    BY <2>2, <2>3
<1>4. ASSUME NEW p \in Openers, OpenerNext(p) PROVE RoutineInv'
  BY <1>4, OpenerRoutines
<1>5. ASSUME NEW g \in Gens, ListenEnds(g) \/ HeartbeatFails(g) \/ WatchContext(g)
      PROVE  RoutineInv'
  <2>1. PICK res \in Results : FinishWith(g, res) /\ (res.retry \/ res.action = "stop")
    <3>1. CASE ListenEnds(g)
      <4>1. PICK a \in Actions : FinishWith(g, Result(a, a # "stop"))
        BY <3>1 DEF ListenEnds
      <4>2. /\ Result(a, a # "stop") \in Results
            /\ Result(a, a # "stop").retry \/ Result(a, a # "stop").action = "stop"
        BY ResultType DEF Result
      <4> QED
        BY <4>1, <4>2
    <3>2. CASE HeartbeatFails(g)
      BY <3>2, ResultType DEF HeartbeatFails, Result, Actions
    <3>3. CASE WatchContext(g)
      BY <3>3, StopResultType DEF WatchContext, StopResult, Result
    <3> QED
      BY <1>5, <3>1, <3>2, <3>3
  <2>2. UNCHANGED <<lifecycle, lifecycleCounter, cancelled, reconnectRunning, connection, owner,
                    genCancelled, connected, ready, opener, openGen>>
    BY <1>5 DEF ListenEnds, HeartbeatFails, WatchContext, lifeVars, connVars, genVars, openVars
  <2>3. g \in 0..MaxGens
    BY BoundsAssumption DEF Gens
  <2> QED
    BY <1>0, <2>1, <2>2, <2>3, EnterKeeps
<1>6. ASSUME UNCHANGED <<lifecycle, lifecycleCounter, cancelled, reconnectRunning, connection, owner,
                         genCancelled, connected, finish, finishRes, finishReconnects, opener, openGen>>,
             \A g \in Gens : ready'[g] = "failed" => ready[g] = "failed"
      PROVE  RoutineInv'
  <2>1. LivesBegun' /\ OpenersOwn' /\ FinishOrder'
    BY <1>6 DEF RoutineInv, LivesBegun, OpenersOwn, FinishOrder, Works
  <2>2. Connectors' /\ MakerThere'
    BY <1>6 DEF RoutineInv, Connectors, MakerThere, Opening
  <2> QED
    BY <2>1, <2>2 DEF RoutineInv
<1>7. ASSUME NEW g \in Gens, ListenReady(g) \/ ListenQuits(g) PROVE RoutineInv'
  <2>1. \A h \in Gens : ready'[h] = "failed" => ready[h] = "failed"
    BY <1>0, <1>7 DEF ListenReady, ListenQuits, genVars, TypeOK, GenType
  <2> QED
    BY <1>6, <1>7, <2>1 DEF ListenReady, ListenQuits, lifeVars, connVars, genVars, finVars, openVars
<1>8. ASSUME (\E c \in Closers : CloseTail(c)) \/ UNCHANGED vars PROVE RoutineInv'
  BY <1>6, <1>8 DEF CloseTail, vars, lifeVars, connVars, genVars, finVars, openVars
<1>9. ASSUME NEW g \in Gens, FinishNext(g) PROVE RoutineInv'
  BY <1>0, <1>9, FinishEnterRoutines, FinishDrainsRoutines, StartReconnectRoutines DEF FinishNext
<1> QED
  BY <1>1, <1>2, <1>3, <1>4, <1>5, <1>7, <1>8, <1>9 DEF Next, ListenNext

LEMMA RoutineInvariant == Spec => []RoutineInv
<1>1. Init => RoutineInv
  <2> SUFFICES ASSUME Init PROVE RoutineInv
    OBVIOUS
  <2>1. LivesBegun /\ MakerThere
    BY BoundsAssumption DEF Init, LivesBegun, MakerThere, None, Lives
  <2>2. OpenersOwn /\ FinishOrder
    BY OpenerShape DEF Init, OpenersOwn, FinishOrder, Works
  <2>3. Connectors
    BY OpenerShape DEF Init, Connectors, Opening
  <2> QED
    BY <2>1, <2>2, <2>3 DEF RoutineInv
<1> QED
  BY <1>1, RoutineStep, GatewayInvariant, PTL DEF Spec

(* However drops, cancellations, Close and OpenWithContext interleave, two routines *)
(* never connect for one lifecycle, and gatewayReconnectRunning is set for as long    *)
(* as the lifecycle's reconnect routine lives.                                    *)
THEOREM ConnectorsAlone == Spec => []OneConnector
<1>1. RoutineInv => OneConnector
  <2> SUFFICES ASSUME RoutineInv, NEW l \in Lives
               PROVE  /\ ~(Opening(<<"open", l>>) /\ Opening(<<"reconnect", l>>))
                      /\ (lifecycle = l /\ opener[<<"reconnect", l>>] # "idle") => reconnectRunning
    BY DEF OneConnector
  <2> QED
    BY DEF RoutineInv, Connectors, Opening
<1> QED
  BY <1>1, RoutineInvariant, PTL

-----------------------------------------------------------------------------
(* No event is left in the queue.                                            *)

LEMMA StuckKept ==
  ASSUME NoEventStuck, UNCHANGED <<events, dispatcher>>,
         \A p \in Openers : opener[p] = "drain" => opener'[p] = "drain",
         \A g \in Gens : finish[g] = "drain" => finish'[g] = "drain"
  PROVE  NoEventStuck'
  BY DEF NoEventStuck

(* A goroutine that enters finish.Do was not emitting events there.                *)
LEMMA EnteredDrains ==
  ASSUME TypeOK, NEW n \in 0..MaxGens, NEW res, FinishWith(n, res)
  PROVE  \A g \in Gens : finish[g] = "drain" => finish'[g] = "drain"
  BY DEF TypeOK, FinType, FinishWith, Entered

(* An opener that was not draining goes on.                                        *)
LEMMA OpenerDrainKept ==
  ASSUME TypeOK, NEW p \in Openers, NEW to, opener[p] # "drain",
         opener' = [opener EXCEPT ![p] = to]
  PROVE  \A q \in Openers : opener[q] = "drain" => opener'[q] = "drain"
  BY DEF TypeOK, OpenType

LEMMA EventsKept == GatewayInv /\ RoutineInv /\ NoEventStuck /\ [Next]_vars => NoEventStuck'
<1> SUFFICES ASSUME GatewayInv, RoutineInv, NoEventStuck, [Next]_vars PROVE NoEventStuck'
  OBVIOUS
<1> USE DEF None
<1>0. TypeOK
  BY DEF GatewayInv
<1>1. CASE OpenWithContext
  <2>1. lifecycleCounter + 1 \in Lives /\ lifecycleCounter \in Nat
    BY <1>0, <1>1, BoundsAssumption DEF OpenWithContext, TypeOK, LifeType, Lives
  <2>2. PICK p \in Openers : p = <<"open", lifecycleCounter + 1>>
    BY <2>1, OpenerShape
  <2>3. opener[p] = "idle" /\ opener' = [opener EXCEPT ![p] = "begin"]
    <3>1. opener[p] # "idle" => p[2] <= lifecycleCounter
      BY DEF RoutineInv, LivesBegun
    <3> QED
      BY <1>1, <2>1, <2>2, <3>1 DEF OpenWithContext, OpenerStep
  <2>4. UNCHANGED <<events, dispatcher, finish>>
    BY <1>1 DEF OpenWithContext, eventVars, finVars
  <2> QED
    BY <1>0, <2>3, <2>4, OpenerDrainKept, StuckKept
<1>2. CASE CancelParent \/ (\E c \in Closers : CloseTail(c)) \/ UNCHANGED vars
  BY <1>2, StuckKept DEF CancelParent, CloseTail, vars, finVars, openVars, eventVars
<1>3. ASSUME NEW c \in Closers, Close(c) PROVE NoEventStuck'
  <2>1. connection \in 0..MaxGens /\ FinishWith(connection, StopResult)
        /\ UNCHANGED <<events, dispatcher, opener>>
    BY <1>0, <1>3 DEF Close, TypeOK, ConnType, openVars, eventVars
  <2>2. \A g \in Gens : finish[g] = "drain" => finish'[g] = "drain"
    BY <1>0, <2>1, EnteredDrains
  <2> QED
    BY <2>1, <2>2, StuckKept
<1>4. ASSUME NEW p \in Openers, OpenerNext(p) PROVE NoEventStuck'
  <2>1. CASE OpenerDrains(p)
    <3>1. CASE Deliver(p)
      <4>1. p # Idle
        BY OpenerShape DEF Idle
      <4> QED
        BY <3>1, <4>1 DEF Deliver, NoEventStuck
    <3>2. CASE LeaveDrain(p)
      BY <3>2 DEF LeaveDrain, Draining, eventVars, NoEventStuck
    <3> QED
      BY <2>1, <3>1, <3>2 DEF OpenerDrains
  <2>2. CASE Activate(p)
    <3>1. opener'[p] = "drain"
      BY <1>0, <2>2 DEF Activate, OpenerStep, TypeOK, OpenType
    <3> QED
      BY <3>1 DEF NoEventStuck
  <2>3. CASE OpenerNext(p) /\ ~OpenerDrains(p) /\ ~Activate(p)
    <3>1. opener[p] # "drain"
      BY <2>3
         DEF OpenerNext, BeginGeneration, BeginFails, DialFails, Attach, AttachFails, Hello,
             HelloFails, Authenticate, AuthenticateFails, AwaitReady, AwaitDoneReady, AwaitDone,
             ActivateFails, Decide, Retry, StopLifecycle, StopTail, ReconnectExits
    <3>2. \E to : opener' = [opener EXCEPT ![p] = to]
      BY <2>3
         DEF OpenerNext, BeginGeneration, BeginFails, DialFails, Attach, AttachFails, Hello,
             HelloFails, Authenticate, AuthenticateFails, AwaitReady, AwaitDoneReady, AwaitDone,
             ActivateFails, Decide, Retry, StopLifecycle, StopTail, ReconnectExits,
             Abort, GiveUp, OpenerStep, OpenerLeaves
    <3>3. UNCHANGED <<events, dispatcher>>
      BY <2>3
         DEF OpenerNext, BeginGeneration, BeginFails, DialFails, Attach, AttachFails, Hello,
             HelloFails, Authenticate, AuthenticateFails, AwaitReady, AwaitDoneReady, AwaitDone,
             ActivateFails, Decide, Retry, StopLifecycle, StopTail, ReconnectExits,
             Abort, GiveUp, eventVars
    <3>4. \A g \in Gens : finish[g] = "drain" => finish'[g] = "drain"
      <4>1. \/ finish' = finish
            \/ \E n \in 0..MaxGens, res \in Results : FinishWith(n, res)
            \/ \E n \in Gens : finish[n] = "no" /\ finish' = [finish EXCEPT ![n] = "done"]
        <5>1. CASE HelloFails(p) \/ AuthenticateFails(p) \/ AwaitDone(p) \/ ActivateFails(p)
          <6>1. PICK res \in Results : FinishWith(openGen[p], res)
            BY <5>1, StopResultType, ResultType
               DEF HelloFails, AuthenticateFails, AwaitDone, ActivateFails, Actions, GiveUp
          <6>2. openGen[p] \in 0..MaxGens
            BY <1>0 DEF TypeOK, OpenType
          <6> QED
            BY <6>1, <6>2
        <5>2. CASE DialFails(p) \/ AttachFails(p)
          <6>1. openGen[p] \in Gens
            BY <5>2, WorksOnGen DEF Works, DialFails, AttachFails
          <6> QED
            BY <5>2, <6>1 DEF DialFails, AttachFails, Abort
        <5>3. CASE StopLifecycle(p)
          BY <1>0, <5>3, StopResultType DEF StopLifecycle, TypeOK, ConnType, finVars
        <5> QED
          BY <2>3, <5>1, <5>2, <5>3
             DEF OpenerNext, BeginGeneration, BeginFails, Attach, Hello, Authenticate, AwaitReady,
                 AwaitDoneReady, Decide, Retry, StopTail, ReconnectExits, finVars
      <4> QED
        BY <1>0, <4>1, EnteredDrains DEF TypeOK, FinType
    <3> QED
      BY <1>0, <3>1, <3>2, <3>3, <3>4, OpenerDrainKept, StuckKept
  <2> QED
    BY <1>4, <2>1, <2>2, <2>3
<1>5. ASSUME NEW g \in Gens, ListenNext(g) \/ HeartbeatFails(g) \/ WatchContext(g)
      PROVE  NoEventStuck'
  <2>1. UNCHANGED <<events, dispatcher, opener>>
    BY <1>5 DEF ListenNext, ListenReady, ListenEnds, ListenQuits, HeartbeatFails, WatchContext,
                openVars, eventVars
  <2>2. finish' = finish \/ \E res : FinishWith(g, res)
    BY <1>5 DEF ListenNext, ListenReady, ListenEnds, ListenQuits, HeartbeatFails, WatchContext,
                finVars
  <2>3. g \in 0..MaxGens
    BY BoundsAssumption DEF Gens
  <2> QED
    BY <1>0, <2>1, <2>2, <2>3, EnteredDrains, StuckKept
<1>6. ASSUME NEW g \in Gens, FinishNext(g) PROVE NoEventStuck'
  <2>1. CASE FinishEnter(g)
    <3>1. finish'[g] = "drain"
      BY <1>0, <2>1 DEF FinishEnter, TypeOK, FinType
    <3> QED
      BY <3>1 DEF NoEventStuck
  <2>2. CASE FinishDrains(g)
    <3>1. CASE Deliver(<<"finish", g>>)
      BY <3>1 DEF Deliver, NoEventStuck, Idle
    <3>2. CASE LeaveDrain(<<"finish", g>>)
      BY <3>2 DEF LeaveDrain, Draining, eventVars, NoEventStuck
    <3> QED
      BY <2>2, <3>1, <3>2 DEF FinishDrains
  <2>3. CASE StartReconnect(g)
    <3>1. UNCHANGED <<events, dispatcher>> /\ finish[g] = "reconnect" /\ finishReconnects[g]
      BY <2>3 DEF StartReconnect, eventVars, RoutineInv, FinishOrder
    <3>2. \A h \in Gens : finish[h] = "drain" => finish'[h] = "drain"
      BY <1>0, <2>3 DEF StartReconnect, Entered, TypeOK, FinType
    <3>3. CASE opener' = opener
      BY <3>1, <3>2, <3>3, StuckKept
    <3>4. CASE /\ lifecycle = owner[g] /\ lifecycle \in Lives /\ ~reconnectRunning
               /\ opener' = [opener EXCEPT ![<<"reconnect", owner[g]>>] = "retry"]
      <4>1. PICK p \in Openers : p = <<"reconnect", owner[g]>>
        BY <3>4, OpenerShape
      <4>2. opener[p] = "idle"
        BY <3>4, <4>1 DEF RoutineInv, Connectors
      <4> QED
        BY <1>0, <3>1, <3>2, <3>4, <4>1, <4>2, OpenerDrainKept, StuckKept
    <3>5. owner[g] \in Lives
      <4>1. g <= connectionCounter
        BY <3>1 DEF GatewayInv, BegunOnly
      <4>2. owner[g] # 0 /\ owner[g] \in 0..MaxLife
        BY <1>0, <4>1 DEF GatewayInv, BegunOnly, TypeOK, ConnType
      <4> QED
        BY <1>0, <4>1, <4>2, BoundsAssumption DEF Lives
    <3> QED
      BY <2>3, <3>3, <3>4, <3>5 DEF StartReconnect, OpenerStep, openVars
  <2> QED
    BY <1>6, <2>1, <2>2, <2>3 DEF FinishNext
<1> QED
  BY <1>1, <1>2, <1>3, <1>4, <1>5, <1>6 DEF Next

(* Whichever goroutines queue and dispatch Connect and Disconnect, a queued event    *)
(* always has one that dispatches it or is about to.                              *)
THEOREM EventsNotStuck == Spec => []NoEventStuck
<1>1. Init => NoEventStuck
  BY DEF Init, NoEventStuck
<1> QED
  BY <1>1, EventsKept, GatewayInvariant, RoutineInvariant, PTL DEF Spec

-----------------------------------------------------------------------------
(* A Session that wants a connection is attended.                            *)

(* A lifecycle that had somebody to connect it still has.                          *)
LEMMA StillAttended ==
  ASSUME NEW l \in Lives, Attended(l), owner' = owner,
         \A p \in Openers : (p[2] = l /\ Opening(p)) => Opening(p)',
         \A g \in Gens : (owner[g] = l /\ finishReconnects[g] /\ finish[g] \in {"drain", "reconnect"}) =>
            finishReconnects'[g] /\ finish'[g] \in {"drain", "reconnect"}
  PROVE  Attended(l)'
<1>1. CASE \E k \in {"open", "reconnect"} : Opening(<<k, l>>)
  <2>1. PICK k \in {"open", "reconnect"} : Opening(<<k, l>>)
    BY <1>1
  <2>2. Opening(<<k, l>>)'
    BY <2>1, OpenerShape
  <2> QED
    BY <2>2 DEF Attended
<1>2. CASE \E g \in Gens : /\ owner[g] = l /\ finishReconnects[g]
                           /\ finish[g] \in {"drain", "reconnect"}
  BY <1>2 DEF Attended
<1> QED
  BY <1>1, <1>2 DEF Attended

LEMMA OpeningAttends ==
  ASSUME NEW p \in Openers, Opening(p)' PROVE Attended(p[2])'
<1>1. PICK k \in {"open", "reconnect"}, l \in Lives : p = <<k, l>>
  BY DEF Openers
<1>2. Opening(<<k, l>>)'
  BY <1>1
<1>3. Attended(l)'
  BY <1>2 DEF Attended
<1> QED
  BY <1>1, <1>3

(* The lifecycle, its connection and what finish.Do decided stay, and an opener     *)
(* leaves its loop only when its lifecycle is no longer the Session's or is over.   *)
LEMMA OpenerAttends ==
  ASSUME TypeOK, StrandedOnlyByRace, NEW p \in Openers, NEW to \in OpenerPCs,
         opener' = [opener EXCEPT ![p] = to],
         Opening(p) => to \notin {"idle", "drain", "exit"} \/ p[2] # lifecycle \/ p[2] \in cancelled,
         lifecycle' = lifecycle, cancelled' = cancelled, connection' = connection, owner' = owner,
         finishReconnects' = finishReconnects, lost' = lost,
         \A g \in Gens : finish[g] \in {"drain", "reconnect"} => finish'[g] = finish[g]
  PROVE  StrandedOnlyByRace'
<1> SUFFICES ASSUME Stranded', ~lost' PROVE FALSE
  BY DEF StrandedOnlyByRace
<1>1. lifecycle # None /\ lifecycle \notin cancelled /\ connection = None /\ ~Attended(lifecycle)'
  BY DEF Stranded
<1>2. PICK l \in Lives : l = lifecycle
  BY <1>1, BoundsAssumption DEF TypeOK, LifeType, Lives, None
<1>3. Attended(l)
  BY <1>1, <1>2 DEF StrandedOnlyByRace, Stranded
<1>4. \A q \in Openers : (q[2] = l /\ Opening(q)) => Opening(q)'
  BY <1>1, <1>2 DEF TypeOK, OpenType, Opening
<1>5. Attended(l)'
  BY <1>3, <1>4, StillAttended
<1> QED
  BY <1>1, <1>2, <1>5

LEMMA StrandedKept ==
  ASSUME TypeOK, StrandedOnlyByRace, UNCHANGED <<lifecycle, connection, owner, opener, finishReconnects>>,
         cancelled \subseteq cancelled', lost => lost',
         \A g \in Gens : finish[g] \in {"drain", "reconnect"} =>
            finish'[g] \in {"drain", "reconnect"} \/ ~finishReconnects[g] \/ owner[g] # lifecycle
  PROVE  StrandedOnlyByRace'
<1> SUFFICES ASSUME Stranded', ~lost' PROVE FALSE
  BY DEF StrandedOnlyByRace
<1>1. lifecycle # None /\ lifecycle \notin cancelled /\ connection = None /\ ~Attended(lifecycle)'
  BY DEF Stranded
<1>2. PICK l \in Lives : l = lifecycle
  BY <1>1, BoundsAssumption DEF TypeOK, LifeType, Lives, None
<1>3. Attended(l)
  BY <1>1, <1>2 DEF StrandedOnlyByRace, Stranded
<1>4. Attended(l)'
  BY <1>2, <1>3, StillAttended DEF Opening
<1> QED
  BY <1>1, <1>2, <1>4

(* A goroutine that enters finish.Do was not about to reconnect.                   *)
LEMMA EnteredReconnects ==
  ASSUME TypeOK, NEW n \in 0..MaxGens, NEW res, FinishWith(n, res)
  PROVE  /\ \A g \in Gens : finish[g] \in {"drain", "reconnect"} => finish'[g] = finish[g]
         /\ finishReconnects' = finishReconnects
  BY DEF TypeOK, FinType, FinishWith, Entered

(* A generation that was not established is aborted: its opener goes on to decide.  *)
LEMMA AbortAttends ==
  ASSUME GatewayInv, RoutineInv, StrandedOnlyByRace, NEW p \in Openers, Works(p),
         NEW res \in Results, Abort(p, openGen[p], res)
  PROVE  StrandedOnlyByRace'
<1> DEFINE g == openGen[p]
<1>0. TypeOK /\ g \in Gens /\ owner[g] = p[2]
  BY WorksOnGen DEF GatewayInv, RoutineInv, OpenersOwn
<1>1. /\ opener' = [opener EXCEPT ![p] = "join"] /\ owner' = owner /\ cancelled' = cancelled
      /\ finishReconnects' = finishReconnects /\ lost' = lost
      /\ finish' = finish \/ (finish[g] = "no" /\ finish' = [finish EXCEPT ![g] = "done"])
      /\ connection' \in {connection, None} /\ lifecycle' \in {lifecycle, None}
      /\ connection' # connection => connection = g
  BY DEF Abort, OpenerStep
<1> HIDE DEF g
<1>2. \A h \in Gens : finish[h] \in {"drain", "reconnect"} => finish'[h] = finish[h]
  BY <1>0, <1>1 DEF TypeOK, FinType
<1>3. CASE lifecycle' = None
  BY <1>3 DEF StrandedOnlyByRace, Stranded
<1>4. CASE lifecycle' = lifecycle /\ connection' = connection
  BY <1>0, <1>1, <1>2, <1>4, OpenerAttends DEF OpenerPCs
<1>5. CASE lifecycle' = lifecycle /\ lifecycle # None /\ connection' # connection
  <2>1. lifecycle = p[2]
    BY <1>0, <1>1, <1>5 DEF RoutineInv, LivesBegun, Gens, None
  <2>2. Opening(p)'
    BY <1>0, <1>1 DEF Opening, TypeOK, OpenType
  <2>3. Attended(p[2])'
    BY <2>2, OpeningAttends
  <2> QED
    BY <1>5, <2>1, <2>3 DEF StrandedOnlyByRace, Stranded
<1> QED
  BY <1>1, <1>3, <1>4, <1>5


(* The last opener of the connection, or the reconnect finish.Do decides on.        *)
LEMMA FinishEnterAttends ==
  ASSUME GatewayInv, RoutineInv, StrandedOnlyByRace, NEW g \in Gens, FinishEnter(g)
  PROVE  StrandedOnlyByRace'
<1>0. TypeOK
  BY DEF GatewayInv
<1> SUFFICES ASSUME Stranded' PROVE FALSE
  BY DEF StrandedOnlyByRace
<1>1. finish[g] = "enter" /\ connection = g /\ g # None
  BY DEF FinishEnter, GatewayInv, CurrentIffUnfinished, BegunOnly, Gens, None
<1>2. /\ lifecycle' = lifecycle /\ lifecycle = owner[g] /\ owner[g] \notin cancelled
      /\ g \in connected => finishRes[g].action # "stop"
      /\ lifecycle # None
  BY <1>1 DEF FinishEnter, WasUp, Stranded, RoutineInv, LivesBegun
<1>3. PICK l \in Lives : l = owner[g]
  BY <1>0, <1>2, BoundsAssumption DEF TypeOK, ConnType, Lives, None
<1>4. ~Attended(l)'
  BY <1>2, <1>3 DEF Stranded
<1>5. opener' = opener /\ owner' = owner /\ finish'[g] = "drain"
  BY <1>0 DEF FinishEnter, openVars, TypeOK, FinType
<1>6. CASE g \in connected
  <2>1. finishRes[g].retry
    BY <1>1, <1>2, <1>6 DEF RoutineInv, FinishOrder
  <2>2. finishReconnects'[g]
    BY <1>0, <1>1, <1>2, <1>6, <2>1 DEF FinishEnter, WasUp, TypeOK, FinType, Stranded
  <2> QED
    BY <1>3, <1>4, <1>5, <2>2 DEF Attended
<1>7. CASE g \notin connected
  <2>1. PICK p \in Openers : p[2] = l /\ opener[p] \in Working \cup {"join"}
    BY <1>1, <1>2, <1>3, <1>7 DEF RoutineInv, MakerThere
  <2>2. Opening(p)'
    BY <1>5, <2>1 DEF Opening, Working
  <2>3. Attended(p[2])'
    BY <2>2, OpeningAttends
  <2> QED
    BY <1>4, <2>1, <2>3
<1> QED
  BY <1>6, <1>7

(* finish.Do starts a reconnect routine unless nobody wants one, or it is too late.  *)
LEMMA StartReconnectAttends ==
  ASSUME GatewayInv, RoutineInv, StrandedOnlyByRace, NEW g \in Gens, StartReconnect(g)
  PROVE  StrandedOnlyByRace'
<1>0. TypeOK
  BY DEF GatewayInv
<1>1. owner' = owner /\ connection' = connection /\ finishReconnects' = finishReconnects
  BY DEF StartReconnect, connVars
<1>2. CASE lifecycle' = None
  BY <1>2 DEF StrandedOnlyByRace, Stranded
<1>3. CASE /\ lifecycle = owner[g] /\ lifecycle' = lifecycle /\ lifecycle # None
           /\ opener' = [opener EXCEPT ![<<"reconnect", owner[g]>>] = "retry"]
  <2>1. owner[g] \in Lives
    BY <1>0, <1>3, BoundsAssumption DEF TypeOK, ConnType, Lives, None
  <2>2. PICK p \in Openers : p = <<"reconnect", owner[g]>>
    BY <2>1, OpenerShape
  <2>3. Opening(p)'
    BY <1>0, <1>3, <2>2 DEF Opening, TypeOK, OpenType
  <2>4. Attended(p[2])'
    BY <2>3, OpeningAttends
  <2> QED
    BY <1>3, <2>2, <2>4 DEF StrandedOnlyByRace, Stranded
<1>4. CASE /\ UNCHANGED <<lifecycle, cancelled, opener>> /\ finish' = [finish EXCEPT ![g] = "done"]
           /\ lost => lost'
           /\ lost' \/ lifecycle # owner[g] \/ lifecycle \in cancelled \/ connection # None
  <2>1. CASE lost' \/ lifecycle \in cancelled \/ connection # None
    BY <1>1, <1>4, <2>1 DEF StrandedOnlyByRace, Stranded
  <2>2. CASE lifecycle # owner[g]
    <3>1. \A h \in Gens : finish[h] \in {"drain", "reconnect"} =>
             finish'[h] \in {"drain", "reconnect"} \/ ~finishReconnects[h] \/ owner[h] # lifecycle
      BY <1>0, <1>4, <2>2 DEF TypeOK, FinType
    <3> QED
      BY <1>0, <1>1, <1>4, <3>1, StrandedKept
  <2> QED
    BY <1>4, <2>1, <2>2
<1>5. CASE ~shouldReconnect /\ lifecycle = owner[g] /\ EndLifecycle
  BY <1>2, <1>5 DEF EndLifecycle
<1> QED
  <2>1. CASE lifecycle = None
    BY <1>2, <2>1 DEF StartReconnect, EndLifecycle, lifeVars
  <2>2. CASE lifecycle # None
    <3>1. \/ /\ lifecycle = owner[g] /\ lifecycle' = lifecycle
             /\ opener' = [opener EXCEPT ![<<"reconnect", owner[g]>>] = "retry"]
          \/ /\ UNCHANGED <<lifecycle, cancelled, opener>> /\ finish' = [finish EXCEPT ![g] = "done"]
             /\ \/ lifecycle # owner[g] /\ lost' = lost
                \/ /\ lost' = (lost \/ (lifecycle = owner[g] /\ owner[g] \notin cancelled
                                        /\ connection = None /\ reconnectRunning))
                   /\ ~(lifecycle = owner[g] /\ owner[g] \notin cancelled
                        /\ connection = None /\ ~reconnectRunning)
          \/ ~shouldReconnect /\ lifecycle = owner[g] /\ EndLifecycle
      BY DEF StartReconnect, OpenerStep, lifeVars, openVars
    <3> QED
      BY <1>3, <1>4, <1>5, <2>2, <3>1, Zenon
  <2> QED
    BY <2>1, <2>2

LEMMA OpenerAttendsStep ==
  ASSUME GatewayInv, RoutineInv, StrandedOnlyByRace, NEW p \in Openers, OpenerNext(p)
  PROVE  StrandedOnlyByRace'
<1>0. TypeOK
  BY DEF GatewayInv
<1> DEFINE kept == /\ lifecycle' = lifecycle /\ cancelled' = cancelled /\ connection' = connection
                   /\ owner' = owner /\ finishReconnects' = finishReconnects /\ lost' = lost
           still == \A g \in Gens : finish[g] \in {"drain", "reconnect"} => finish'[g] = finish[g]
<1>1. CASE DialFails(p) \/ AttachFails(p)
  <2>1. PICK res \in Results : Works(p) /\ Abort(p, openGen[p], res)
    BY <1>1, StopResultType, ResultType DEF DialFails, AttachFails, Works, Actions
  <2> QED
    BY <2>1, AbortAttends
<1>2. CASE BeginGeneration(p) \/ Activate(p)
  <2>1. connection' # None
    <3>1. CASE BeginGeneration(p)
      BY <1>0, <3>1 DEF BeginGeneration, TypeOK, ConnType, None
    <3>2. CASE Activate(p)
      <4>1. openGen[p] \in Gens /\ connection = openGen[p] /\ connection' = connection
        BY <3>2, WorksOnGen DEF Activate, Works, Current, connVars
      <4> QED
        BY <4>1 DEF Gens, None
    <3> QED
      BY <1>2, <3>1, <3>2
  <2> QED
    BY <2>1 DEF StrandedOnlyByRace, Stranded
<1>3. CASE HelloFails(p) \/ AuthenticateFails(p) \/ AwaitDone(p) \/ ActivateFails(p)
  <2>1. PICK res \in Results : GiveUp(p, res)
    BY <1>3, StopResultType, ResultType
       DEF HelloFails, AuthenticateFails, AwaitDone, ActivateFails, Actions
  <2>2. FinishWith(openGen[p], res) /\ openGen[p] \in 0..MaxGens
    BY <1>0, <2>1 DEF GiveUp, TypeOK, OpenType
  <2>3. kept /\ still /\ opener' = [opener EXCEPT ![p] = "join"]
    BY <1>0, <2>1, <2>2, EnteredReconnects DEF GiveUp, OpenerStep, lifeVars, connVars
  <2> QED
    BY <1>0, <2>3, OpenerAttends DEF OpenerPCs
<1>4. CASE AwaitDoneReady(p)
  BY <1>4 DEF AwaitDoneReady, StrandedOnlyByRace
<1>5. CASE StopLifecycle(p) /\ lifecycle = p[2]
  BY <1>5 DEF StopLifecycle, EndLifecycle, StrandedOnlyByRace, Stranded
<1>6. CASE OpenerDrains(p)
  <2>1. kept /\ still /\ opener[p] = "drain" /\ p[1] \in {"open", "reconnect"}
    BY <1>6, OpenerShape DEF OpenerDrains, lifeVars, connVars, finVars
  <2>2. opener' = opener \/ \E to \in {"idle", "exit"} : opener' = [opener EXCEPT ![p] = to]
    BY <1>6 DEF OpenerDrains, OpenerLeaves, OpenerStep, openVars
  <2>3. CASE opener' = opener
    BY <1>0, <2>1, <2>3, StrandedKept
  <2> QED
    BY <1>0, <2>1, <2>2, <2>3, OpenerAttends DEF OpenerPCs, Opening
<1>7. ASSUME NEW to \in {"begin", "hello", "auth", "await", "activate", "join", "decide", "retry", "stop"},
             kept, still, opener' = [opener EXCEPT ![p] = to]
      PROVE  StrandedOnlyByRace'
  BY <1>0, <1>7, OpenerAttends DEF OpenerPCs
<1>8. CASE BeginFails(p) \/ Attach(p) \/ Hello(p) \/ Authenticate(p) \/ AwaitReady(p)
  <2>1. kept /\ still
    BY <1>8 DEF BeginFails, Attach, Hello, Authenticate, AwaitReady, lifeVars, connVars, finVars
  <2>2. \E to \in {"hello", "auth", "await", "activate", "join", "decide"} :
           opener' = [opener EXCEPT ![p] = to]
    BY <1>8 DEF BeginFails, Attach, Hello, Authenticate, AwaitReady, OpenerStep
  <2> QED
    BY <1>7, <2>1, <2>2
<1>9. CASE Decide(p) \/ Retry(p)
  <2>1. kept /\ still
    BY <1>9 DEF Decide, Retry, lifeVars, connVars, finVars
  <2>2. PICK to \in {"begin", "retry", "stop", "exit"} :
           opener' = [opener EXCEPT ![p] = to] /\ (to = "exit" => p[2] \in cancelled)
    BY <1>9 DEF Decide, Retry, OpenerStep, OpenerLeaves
  <2> QED
    BY <1>0, <1>7, <2>1, <2>2, OpenerAttends DEF OpenerPCs
<1>10. CASE StopTail(p) \/ ReconnectExits(p) \/ (StopLifecycle(p) /\ lifecycle # p[2])
  <2>1. kept /\ still /\ p[1] \in {"open", "reconnect"}
    BY <1>10, OpenerShape DEF StopTail, ReconnectExits, StopLifecycle, lifeVars, connVars, finVars
  <2>2. \/ opener[p] = "exit" \/ p[2] # lifecycle
        \/ opener[p] = "stopwait" /\ p[2] \in cancelled
    BY <1>10 DEF StopTail, ReconnectExits, StopLifecycle, RoutineInv, OpenersOwn
  <2>3. PICK to \in {"idle", "exit"} : opener' = [opener EXCEPT ![p] = to]
    BY <1>10, <2>1 DEF StopTail, ReconnectExits, StopLifecycle, OpenerStep, OpenerLeaves
  <2> QED
    BY <1>0, <2>1, <2>2, <2>3, OpenerAttends DEF OpenerPCs, Opening
<1> QED
  BY <1>1, <1>2, <1>3, <1>4, <1>5, <1>6, <1>8, <1>9, <1>10 DEF OpenerNext

LEMMA StrandedStep ==
  GatewayInv /\ RoutineInv /\ StrandedOnlyByRace /\ [Next]_vars => StrandedOnlyByRace'
<1> SUFFICES ASSUME GatewayInv, RoutineInv, StrandedOnlyByRace, [Next]_vars PROVE StrandedOnlyByRace'
  OBVIOUS
<1>0. TypeOK
  BY DEF GatewayInv
<1>1. CASE OpenWithContext
  <2>1. lifecycleCounter + 1 \in Lives
    BY <1>0, <1>1, BoundsAssumption DEF OpenWithContext, TypeOK, LifeType, Lives
  <2>2. PICK p \in Openers : p = <<"open", lifecycleCounter + 1>>
    BY <2>1, OpenerShape
  <2>3. Opening(p)' /\ lifecycle' = p[2]
    BY <1>0, <1>1, <2>2 DEF OpenWithContext, OpenerStep, Opening, TypeOK, OpenType
  <2>4. Attended(p[2])'
    BY <2>3, OpeningAttends
  <2> QED
    BY <2>3, <2>4 DEF StrandedOnlyByRace, Stranded
<1>2. CASE CancelParent \/ (\E c \in Closers : CloseTail(c)) \/ UNCHANGED vars
  BY <1>0, <1>2, StrandedKept
     DEF CancelParent, CloseTail, vars, lifeVars, connVars, finVars, openVars
<1>3. ASSUME NEW c \in Closers, Close(c) PROVE StrandedOnlyByRace'
  <2>1. lifecycle' = None
    BY <1>3 DEF Close, EndLifecycle, lifeVars
  <2> QED
    BY <2>1 DEF StrandedOnlyByRace, Stranded
<1>4. ASSUME NEW p \in Openers, OpenerNext(p) PROVE StrandedOnlyByRace'
  BY <1>4, OpenerAttendsStep
<1>5. ASSUME NEW g \in Gens, ListenNext(g) \/ HeartbeatFails(g) \/ WatchContext(g)
      PROVE  StrandedOnlyByRace'
  <2>1. UNCHANGED <<lifecycle, cancelled, connection, owner, opener, lost>>
    BY <1>5 DEF ListenNext, ListenReady, ListenEnds, ListenQuits, HeartbeatFails, WatchContext,
                lifeVars, connVars, openVars
  <2>2. UNCHANGED <<finish, finishReconnects>> \/ \E res : FinishWith(g, res)
    BY <1>5 DEF ListenNext, ListenReady, ListenEnds, ListenQuits, HeartbeatFails, WatchContext,
                finVars
  <2>3. g \in 0..MaxGens
    BY BoundsAssumption DEF Gens
  <2>4. /\ \A h \in Gens : finish[h] \in {"drain", "reconnect"} => finish'[h] = finish[h]
        /\ finishReconnects' = finishReconnects
    BY <1>0, <2>2, <2>3, EnteredReconnects
  <2> QED
    BY <1>0, <2>1, <2>4, StrandedKept
<1>6. ASSUME NEW g \in Gens, FinishNext(g) PROVE StrandedOnlyByRace'
  <2>1. CASE FinishDrains(g)
    <3>1. UNCHANGED <<lifecycle, cancelled, connection, owner, opener, finishReconnects, lost>>
      BY <2>1 DEF FinishDrains, lifeVars, connVars, openVars
    <3>2. \A h \in Gens : finish[h] \in {"drain", "reconnect"} =>
             finish'[h] \in {"drain", "reconnect"} \/ ~finishReconnects[h] \/ owner[h] # lifecycle
      BY <1>0, <2>1 DEF FinishDrains, TypeOK, FinType
    <3> QED
      BY <1>0, <3>1, <3>2, StrandedKept
  <2> QED
    BY <1>6, <2>1, FinishEnterAttends, StartReconnectAttends DEF FinishNext
<1> QED
  BY <1>1, <1>2, <1>3, <1>4, <1>5, <1>6 DEF Next

(* A Session whose lifecycle is alive but has no connection is always being          *)
(* reconnected by somebody, but for the two races the model records: a drop while    *)
(* the reconnect routine returns, and READY taken after its generation is over.     *)
THEOREM StrandedOnlyAfterRace == Spec => []StrandedOnlyByRace
<1>1. Init => StrandedOnlyByRace
  BY DEF Init, StrandedOnlyByRace, Stranded
<1> QED
  BY <1>1, StrandedStep, GatewayInvariant, RoutineInvariant, PTL DEF Spec

=============================================================================
