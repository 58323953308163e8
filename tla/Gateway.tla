------------------------------ MODULE Gateway ------------------------------
(***************************************************************************)
(* The life of a Session's Gateway connection (wsapi.go).                   *)
(*                                                                         *)
(* A Session has at most one lifecycle (one successful OpenWithContext and  *)
(* the automatic reconnects that follow it) and at most one current         *)
(* connection generation (one websocket).  Five kinds of goroutine share    *)
(* them: the caller of OpenWithContext, the reconnect routine of a          *)
(* lifecycle, the listener and the heartbeat of a generation, whichever     *)
(* goroutine runs a generation's finish.Do, and callers of Close.  A step   *)
(* is one critical section of gatewayLifecycleMu or gatewayEventMu, or one  *)
(* channel operation; what happens between two steps of a goroutine is any  *)
(* number of steps of the others.                                           *)
(*                                                                         *)
(* Not represented: the wall clock (backoff, jitter and heartbeat intervals *)
(* only decide when a step happens), URLs, tokens and payloads, and the     *)
(* resume state (session id, resume URL, sequence): it decides whether a    *)
(* generation sends Identify or Resume, and the lifecycle treats both alike.*)
(* gatewayState is only ever written.                                       *)
(***************************************************************************)
EXTENDS Naturals, Sequences

CONSTANTS
    MaxLife,    \* bound: lifecycles begun, gatewayLifecycleCounter
    MaxGens,    \* bound: generations begun, gatewayConnectionCounter
    NClosers    \* goroutines that may call Close

ASSUME BoundsAssumption ==
    MaxLife \in Nat \ {0} /\ MaxGens \in Nat \ {0} /\ NClosers \in Nat \ {0}

None    == 0
Lives   == 1..MaxLife
Gens    == 1..MaxGens
Closers == 1..NClosers
Openers == {"open", "reconnect"} \X Lives  \* OpenWithContext, reconnect routine
Idle    == <<"idle", None>>                \* gatewayEventDispatching = false

\* GatewayCloseRecovery, and the two fields of gatewayAttemptResult that steer.
Actions    == {"stop", "resume", "identify"}
Results    == [action : Actions, retry : BOOLEAN]
Result(action, retry) == [action |-> action, retry |-> retry]
StopResult == Result("stop", FALSE)

VARIABLES
    shouldReconnect,    \* ShouldReconnectOnError, set by the user before Open
    lifecycle,          \* gatewayLifecycle, None when nil
    lifecycleCounter,   \* gatewayLifecycleCounter
    cancelled,          \* lifecycles whose context is done
    connection,         \* gatewayConnection, None when nil
    connectionCounter,  \* gatewayConnectionCounter
    reconnectRunning,   \* gatewayReconnectRunning
    owner,              \* lifecycle of a generation
    sockets,            \* generations with an open websocket (conn.ws)
    genCancelled,       \* generations whose own context was cancelled
    connected,          \* generations with connected = true
    ready,              \* the one-slot channel ready: "empty", "ok" or "failed"
    asked,              \* generations whose Identify or Resume is unanswered
    listener,           \* the goroutine listen: "off", "on" or "done"
    finish,             \* the goroutine inside finish.Do, "no" before, "done" after
    finishRes,          \* the result finish.Do runs with
    finishReconnects,   \* finish.Do will call startGatewayReconnect
    opener,             \* where each opening goroutine is
    openGen,            \* the generation it works on
    openRes,            \* the result openGatewayGeneration gives it
    closing,            \* where each caller of Close is
    closeGen,           \* the generation it waits for
    events,             \* gatewayEvents
    dispatcher,         \* who is inside drainGatewayEvents' loop, Idle when nobody
    lastEvent,          \* the last event handed to handleEvent
    lost                \* history: a retryable drop found nobody to reconnect for it

lifeVars  == <<lifecycle, lifecycleCounter, cancelled, reconnectRunning>>
connVars  == <<connection, connectionCounter, owner, sockets>>
genVars   == <<genCancelled, connected, ready>>
readVars  == <<asked, listener>>
finVars   == <<finish, finishRes, finishReconnects>>
openVars  == <<opener, openGen, openRes>>
closeVars == <<closing, closeGen>>
eventVars == <<events, dispatcher, lastEvent>>
vars == <<shouldReconnect, lifeVars, connVars, genVars,
          readVars, finVars, openVars, closeVars, eventVars, lost>>

Init ==
    /\ shouldReconnect \in BOOLEAN
    /\ lifecycle = None /\ lifecycleCounter = 0 /\ cancelled = {}
    /\ connection = None /\ connectionCounter = 0
    /\ reconnectRunning = FALSE
    /\ owner = [g \in Gens |-> None]
    /\ sockets = {} /\ genCancelled = {} /\ connected = {}
    /\ ready = [g \in Gens |-> "empty"]
    /\ asked = {}
    /\ listener = [g \in Gens |-> "off"]
    /\ finish = [g \in Gens |-> "no"]
    /\ finishRes = [g \in Gens |-> StopResult]
    /\ finishReconnects = [g \in Gens |-> FALSE]
    /\ opener = [p \in Openers |-> "idle"]
    /\ openGen = [p \in Openers |-> None]
    /\ openRes = [p \in Openers |-> StopResult]
    /\ closing = [c \in Closers |-> "idle"]
    /\ closeGen = [c \in Closers |-> None]
    /\ events = <<>> /\ dispatcher = Idle /\ lastEvent = "Disconnect"
    /\ lost = FALSE

-----------------------------------------------------------------------------
(* Contexts, finish.Do and the shared critical sections.                    *)

\* conn.ctx is derived from lifecycle.ctx.
CtxDone(g) == g \in genCancelled \/ owner[g] \in cancelled

\* Mutant: the dialled websocket is installed without asking whether it is wanted.
CurrentUnchecked(l, g) == l \in Lives /\ g \in Gens

\* The test of attach and activate: conn is still the Session's generation.
Current(l, g) == lifecycle = l /\ connection = g /\ ~CtxDone(g)

Finished(g) == g # None => finish[g] = "done"

\* finish.Do: the first caller enters, a later one only waits (Finished).
Entered(g) ==
    IF g # None /\ finish[g] = "no" THEN [finish EXCEPT ![g] = "enter"] ELSE finish

EnteredRes(g, res) ==
    IF g # None /\ finish[g] = "no" THEN [finishRes EXCEPT ![g] = res] ELSE finishRes

FinishWith(g, res) ==
    /\ finish' = Entered(g)
    /\ finishRes' = EnteredRes(g, res)
    /\ UNCHANGED finishReconnects

\* The critical section stopGatewayLifecycle and closeGateway share.
EndLifecycle ==
    /\ cancelled' = cancelled \cup {lifecycle}
    /\ lifecycle' = None
    /\ reconnectRunning' = FALSE
    /\ UNCHANGED lifecycleCounter

OpenerStep(p, to) == opener' = [opener EXCEPT ![p] = to]

\* An opener leaves its loop; what it held is forgotten.
OpenerLeaves(p, to) ==
    /\ OpenerStep(p, to)
    /\ openGen' = [openGen EXCEPT ![p] = None]
    /\ openRes' = [openRes EXCEPT ![p] = StopResult]

-----------------------------------------------------------------------------
(* OpenWithContext, Close and the user's context.                           *)

\* OpenWithContext up to connectGatewayUntilReady.  Another Open fails with
\* ErrWSAlreadyOpen and changes nothing.  The caller does not open the Session
\* while a Close is still returning.
OpenWithContext ==
    /\ lifecycle = None /\ connection = None
    /\ lifecycleCounter < MaxLife
    /\ \A c \in Closers : closing[c] = "idle"
    /\ lifecycleCounter' = lifecycleCounter + 1
    /\ lifecycle' = lifecycleCounter'
    /\ OpenerStep(<<"open", lifecycleCounter'>>, "begin")
    /\ UNCHANGED <<shouldReconnect, cancelled, reconnectRunning, connVars, genVars, readVars, finVars, openGen, openRes, closeVars,
                   eventVars, lost>>

\* The context given to OpenWithContext is cancelled.
CancelParent ==
    /\ \E l \in Lives :
        /\ l <= lifecycleCounter /\ l \notin cancelled
        /\ cancelled' = cancelled \cup {l}
    /\ UNCHANGED <<shouldReconnect, lifecycle, lifecycleCounter, reconnectRunning,
                   connVars, genVars, readVars, finVars, openVars,
                   closeVars, eventVars, lost>>

\* Mutant: Close of a Session that is not open ends the nil lifecycle.
CloseNilLifecycle(c) ==
    /\ closing[c] = "idle"
    /\ EndLifecycle
    /\ FinishWith(connection, StopResult)
    /\ closeGen' = [closeGen EXCEPT ![c] = connection]
    /\ closing' = [closing EXCEPT ![c] = "wait"]
    /\ UNCHANGED <<shouldReconnect, connVars, genVars, readVars, openVars, eventVars, lost>>

\* Mutant: Close ends the lifecycle and leaves the generation to its context.
CloseLifecycleOnly(c) ==
    /\ closing[c] = "idle"
    /\ IF lifecycle # None THEN EndLifecycle ELSE UNCHANGED lifeVars
    /\ UNCHANGED <<shouldReconnect, connVars, genVars, readVars, finVars, openVars,
                   closeVars, eventVars, lost>>

\* closeGateway's first section and its call of finishGatewayGeneration.
Close(c) ==
    /\ closing[c] = "idle"
    /\ IF lifecycle # None THEN EndLifecycle ELSE UNCHANGED lifeVars
    /\ FinishWith(connection, StopResult)
    /\ closeGen' = [closeGen EXCEPT ![c] = connection]
    /\ closing' = [closing EXCEPT ![c] = "wait"]
    /\ UNCHANGED <<shouldReconnect, connVars, genVars, readVars, openVars,
                   eventVars, lost>>

CloseTail(c) ==
    /\ closing[c] = "wait" /\ Finished(closeGen[c])
    /\ closing' = [closing EXCEPT ![c] = "idle"]
    /\ closeGen' = [closeGen EXCEPT ![c] = None]
    /\ UNCHANGED <<shouldReconnect, lifeVars, connVars, genVars, readVars,
                   finVars, openVars, eventVars, lost>>

-----------------------------------------------------------------------------
(* openGatewayGeneration, run by an opener p = <<kind, lifecycle>>.          *)

\* beginGatewayGeneration
BeginGeneration(p) ==
    /\ opener[p] = "begin"
    /\ lifecycle = p[2] /\ p[2] \notin cancelled /\ connection = None
    /\ connectionCounter < MaxGens
    /\ connectionCounter' = connectionCounter + 1
    /\ connection' = connectionCounter'
    /\ owner' = [owner EXCEPT ![connectionCounter'] = p[2]]
    /\ openGen' = [openGen EXCEPT ![p] = connectionCounter']
    /\ OpenerStep(p, "dial")
    /\ UNCHANGED <<shouldReconnect, lifeVars, sockets, genVars, readVars,
                   finVars, openRes, closeVars, eventVars, lost>>

BeginFails(p) ==
    /\ opener[p] = "begin"
    /\ lifecycle # p[2] \/ p[2] \in cancelled \/ connection # None
    /\ openGen' = [openGen EXCEPT ![p] = None]
    /\ openRes' = [openRes EXCEPT ![p] = StopResult]
    /\ OpenerStep(p, "join")
    /\ UNCHANGED <<shouldReconnect, lifeVars, connVars, genVars,
                   readVars, finVars, closeVars, eventVars, lost>>

\* abortGatewayGeneration, for a generation with no routines yet: the whole
\* finish.Do is one critical section and nothing observes what follows it.
Abort(p, g, res) ==
    /\ openRes' = [openRes EXCEPT ![p] = res]
    /\ OpenerStep(p, "join")
    /\ IF finish[g] = "no"
       THEN /\ finish' = [finish EXCEPT ![g] = "done"]
            /\ genCancelled' = genCancelled \cup {g}
            /\ connection' = IF connection = g THEN None ELSE connection
            /\ IF lifecycle = owner[g] /\ lifecycle \in cancelled
               THEN lifecycle' = None /\ reconnectRunning' = FALSE
               ELSE UNCHANGED <<lifecycle, reconnectRunning>>
       ELSE UNCHANGED <<finish, genCancelled, connection, lifecycle, reconnectRunning>>
    /\ UNCHANGED <<shouldReconnect, lifecycleCounter, cancelled, connectionCounter,
                   owner, sockets, connected, ready, readVars, finishRes,
                   finishReconnects, openGen, closeVars, eventVars, lost>>

\* No URL from REST or no answer from the dialer ("resume"), an unsafe URL ("stop").
DialFails(p) ==
    /\ opener[p] = "dial"
    /\ \E action \in {"resume", "stop"} : Abort(p, openGen[p], Result(action, FALSE))

\* attachGatewayWebsocket; a generation that was closed meanwhile is aborted.
Attach(p) ==
    /\ opener[p] = "dial"
    /\ Current(p[2], openGen[p])
    /\ sockets' = sockets \cup {openGen[p]}
    /\ OpenerStep(p, "hello")
    /\ UNCHANGED <<shouldReconnect, lifeVars, connection, connectionCounter, owner,
                   genVars, readVars, finVars, openGen, openRes, closeVars,
                   eventVars, lost>>

AttachFails(p) ==
    /\ opener[p] = "dial"
    /\ ~Current(p[2], openGen[p])
    /\ Abort(p, openGen[p], StopResult)

\* Hello arrived: the heartbeat and the listener start.
Hello(p) ==
    /\ opener[p] = "hello"
    /\ listener' = [listener EXCEPT ![openGen[p]] = "on"]
    /\ OpenerStep(p, "auth")
    /\ UNCHANGED <<shouldReconnect, lifeVars, connVars, genVars, asked,
                   finVars, openGen, openRes, closeVars, eventVars, lost>>

\* The opener ends its own generation, waits for it and then decides.
GiveUp(p, res) ==
    /\ FinishWith(openGen[p], res)
    /\ openRes' = [openRes EXCEPT ![p] = res]
    /\ OpenerStep(p, "join")
    /\ UNCHANGED <<shouldReconnect, lifeVars, connVars, genVars,
                   readVars, openGen, closeVars, eventVars, lost>>

\* The first read fails (retry, classified by close code) or is no valid Hello.
HelloFails(p) ==
    /\ opener[p] = "hello"
    /\ \E res \in {Result(a, TRUE) : a \in Actions} \cup {StopResult} : GiveUp(p, res)

\* authenticateGatewayGeneration: Identify or Resume was written.
Authenticate(p) ==
    /\ opener[p] = "auth"
    /\ asked' = asked \cup {openGen[p]}
    /\ OpenerStep(p, "await")
    /\ UNCHANGED <<shouldReconnect, lifeVars, connVars, genVars, listener, finVars,
                   openGen, openRes, closeVars, eventVars, lost>>

\* The packet is not written, or the wait of the identify coordinator is cut.
AuthenticateFails(p) ==
    /\ opener[p] = "auth"
    /\ GiveUp(p, Result("resume", FALSE))

\* The select of openGatewayGeneration takes a result from ready.
AwaitReady(p) ==
    LET g == openGen[p] IN
    /\ opener[p] = "await" /\ ready[g] # "empty"
    /\ ready' = [ready EXCEPT ![g] = "empty"]
    /\ IF ready[g] = "ok"
       THEN OpenerStep(p, "activate") /\ UNCHANGED openRes
       ELSE OpenerStep(p, "decide") /\ openRes' = [openRes EXCEPT ![p] = finishRes[g]]
    /\ UNCHANGED <<shouldReconnect, lifeVars, connVars, genCancelled,
                   connected, readVars, finVars, openGen, closeVars, eventVars, lost>>

\* It takes ctx.Done, finds READY's result in ready and returns it as it is: no
\* error, so the caller believes the generation is up.
AwaitDoneReady(p) ==
    LET g == openGen[p] IN
    /\ opener[p] = "await" /\ CtxDone(g) /\ ready[g] = "ok"
    /\ ready' = [ready EXCEPT ![g] = "empty"]
    /\ OpenerLeaves(p, IF p[1] = "open" THEN "idle" ELSE "exit")
    /\ lost' = TRUE
    /\ UNCHANGED <<shouldReconnect, lifeVars, connVars, genCancelled,
                   connected, readVars, finVars, closeVars, eventVars>>

\* It takes ctx.Done and finds ready empty.
AwaitDone(p) ==
    /\ opener[p] = "await" /\ CtxDone(openGen[p]) /\ ready[openGen[p]] = "empty"
    /\ GiveUp(p, StopResult)

\* activateGatewayGeneration
Activate(p) ==
    /\ opener[p] = "activate" /\ Current(p[2], openGen[p])
    /\ connected' = connected \cup {openGen[p]}
    /\ events' = Append(events, "Connect")
    /\ OpenerStep(p, "drain")
    /\ UNCHANGED <<shouldReconnect, lifeVars, connVars, genCancelled, ready,
                   readVars, finVars, openGen, openRes, closeVars, dispatcher,
                   lastEvent, lost>>

ActivateFails(p) ==
    /\ opener[p] = "activate" /\ ~Current(p[2], openGen[p])
    /\ GiveUp(p, StopResult)

-----------------------------------------------------------------------------
(* What the callers of openGatewayGeneration do with its result:             *)
(* connectGatewayUntilReady and the loop of the reconnect routine.           *)

\* Mutant: the reconnect routine also takes an unretried result for an end, as
\* connectGatewayUntilReady does.
DecideStopsEarly(p) ==
    /\ \/ opener[p] = "decide"
       \/ opener[p] = "join" /\ Finished(openGen[p])
    /\ OpenerStep(p, IF p[2] \in cancelled \/ ~openRes[p].retry
                     THEN (IF p[1] = "open" THEN "stop" ELSE "exit") ELSE "retry")
    /\ UNCHANGED <<shouldReconnect, lifeVars, connVars, genVars, readVars, finVars,
                   openGen, openRes, closeVars, eventVars, lost>>

Decide(p) ==
    /\ \/ opener[p] = "decide"
       \/ opener[p] = "join" /\ Finished(openGen[p])
    /\ OpenerStep(p,
          IF p[1] = "open"
          THEN IF p[2] \in cancelled \/ ~openRes[p].retry \/ openRes[p].action = "stop"
               THEN "stop" ELSE "retry"
          ELSE IF p[2] \in cancelled THEN "exit"
               ELSE IF openRes[p].action = "stop" THEN "stop" ELSE "retry")
    /\ UNCHANGED <<shouldReconnect, lifeVars, connVars, genVars,
                   readVars, finVars, openGen, openRes, closeVars, eventVars, lost>>

\* waitGatewayContext: the delay passes, or the context is done.
Retry(p) ==
    /\ opener[p] = "retry"
    /\ OpenerLeaves(p, IF p[2] \notin cancelled THEN "begin"
                       ELSE IF p[1] = "open" THEN "stop" ELSE "exit")
    /\ UNCHANGED <<shouldReconnect, lifeVars, connVars, genVars, readVars, finVars,
                   closeVars, eventVars, lost>>

\* stopGatewayLifecycle, called by an opener.
StopLifecycle(p) ==
    /\ opener[p] = "stop"
    /\ IF lifecycle = p[2]
       THEN /\ EndLifecycle
            /\ FinishWith(connection, StopResult)
            /\ openGen' = [openGen EXCEPT ![p] = connection]
            /\ OpenerStep(p, "stopwait")
            /\ UNCHANGED openRes
       ELSE /\ OpenerLeaves(p, IF p[1] = "open" THEN "idle" ELSE "exit")
            /\ UNCHANGED <<lifeVars, finVars>>
    /\ UNCHANGED <<shouldReconnect, connVars, genVars, readVars, closeVars,
                   eventVars, lost>>

StopTail(p) ==
    /\ opener[p] = "stopwait" /\ Finished(openGen[p])
    /\ OpenerLeaves(p, IF p[1] = "open" THEN "idle" ELSE "exit")
    /\ UNCHANGED <<shouldReconnect, lifeVars, connVars, genVars, readVars,
                   finVars, closeVars, eventVars, lost>>

\* The deferred function of the reconnect routine.
ReconnectExits(p) ==
    /\ opener[p] = "exit"
    /\ reconnectRunning' = (reconnectRunning /\ lifecycle # p[2])
    /\ OpenerLeaves(p, "idle")
    /\ UNCHANGED <<shouldReconnect, lifecycle, lifecycleCounter, cancelled, connVars, genVars, readVars, finVars, closeVars, eventVars, lost>>

-----------------------------------------------------------------------------
(* The listener, the heartbeat and the context watcher of a generation.      *)

\* READY or RESUMED: the send on ready never blocks.
ListenReady(g) ==
    /\ listener[g] = "on" /\ ~CtxDone(g) /\ g \in asked
    /\ asked' = asked \ {g}
    /\ ready' = [ready EXCEPT ![g] = IF @ = "empty" THEN "ok" ELSE @]
    /\ UNCHANGED <<shouldReconnect, lifeVars, connVars, genCancelled, connected, listener,
                   finVars, openVars, closeVars, eventVars, lost>>

\* A read error (classified by gatewayReconnectActionForError), a reconnect request
\* ("resume") or an invalid session ("resume" or "identify").
ListenEnds(g) ==
    /\ listener[g] = "on" /\ ~CtxDone(g)
    /\ \E action \in Actions : FinishWith(g, Result(action, action # "stop"))
    /\ listener' = [listener EXCEPT ![g] = "done"]
    /\ UNCHANGED <<shouldReconnect, lifeVars, connVars, genVars, asked, openVars,
                   closeVars, eventVars, lost>>

\* The context is done: the read fails, or its message is dropped.
ListenQuits(g) ==
    /\ listener[g] = "on" /\ CtxDone(g)
    /\ listener' = [listener EXCEPT ![g] = "done"]
    /\ UNCHANGED <<shouldReconnect, lifeVars, connVars, genVars, asked, finVars,
                   openVars, closeVars, eventVars, lost>>

\* A heartbeat was not acknowledged, or could not be written.
HeartbeatFails(g) ==
    /\ listener[g] # "off" /\ finish[g] = "no"
    /\ FinishWith(g, Result("resume", TRUE))
    /\ UNCHANGED <<shouldReconnect, lifeVars, connVars, genVars,
                   readVars, openVars, closeVars, eventVars, lost>>

\* Mutant: the generation's context is not derived from the lifecycle's.
WatchOwnContext(g) ==
    /\ g \in sockets /\ g \in genCancelled /\ finish[g] = "no"
    /\ FinishWith(g, StopResult)
    /\ UNCHANGED <<shouldReconnect, lifeVars, connVars, genVars, readVars, openVars,
                   closeVars, eventVars, lost>>

\* The routine that waits for conn.ctx.Done or conn.stop.
WatchContext(g) ==
    /\ g \in sockets /\ CtxDone(g) /\ finish[g] = "no"
    /\ FinishWith(g, StopResult)
    /\ UNCHANGED <<shouldReconnect, lifeVars, connVars, genVars,
                   readVars, openVars, closeVars, eventVars, lost>>

-----------------------------------------------------------------------------
(* finishGatewayGeneration: the body of finish.Do, in whichever goroutine    *)
(* came first.                                                              *)

\* Mutant: every current generation emits Disconnect, connected or not.
WasCurrent(g) == connection = g

\* wasConnected
WasUp(g) == g \in connected

\* The critical section, the send on ready by a generation that was not connected,
\* conn.cancel and closing conn.stop and conn.ws.  Nobody tells these from one step: a reader of
\* ready needs the section, and what is read before the cancel is dropped after it.
FinishEnter(g) ==
    LET l       == owner[g]
        current == connection = g
        ends    == lifecycle = l /\ (l \in cancelled \/
                                     (WasUp(g) /\ finishRes[g].action = "stop"))
    IN
    /\ finish[g] = "enter"
    /\ finish' = [finish EXCEPT ![g] = "drain"]
    /\ genCancelled' = genCancelled \cup {g}
    /\ sockets' = sockets \ {g}
    /\ connection' = IF current THEN None ELSE connection
    /\ lifecycle' = IF ends THEN None ELSE lifecycle
    /\ reconnectRunning' = (reconnectRunning /\ ~ends)
    /\ cancelled' = IF ends THEN cancelled \cup {l} ELSE cancelled
    /\ connected' = connected \ {g}
    /\ events' = IF WasUp(g) THEN Append(events, "Disconnect") ELSE events
    /\ ready' = IF ~WasUp(g) /\ ready[g] = "empty" THEN [ready EXCEPT ![g] = "failed"]
                ELSE ready
    /\ finishReconnects' = [finishReconnects EXCEPT ![g] =
          WasUp(g) /\ current /\ lifecycle = l /\ ~ends /\ finishRes[g].retry]
    /\ UNCHANGED <<shouldReconnect, lifecycleCounter, connectionCounter, owner, readVars,
                   finishRes, openVars, closeVars, dispatcher, lastEvent, lost>>

\* Mutant: the flag is not set before the routine starts.
NoClaim == UNCHANGED reconnectRunning

\* The claim that keeps a second reconnect routine from starting.
Claim == reconnectRunning' = TRUE

\* startGatewayReconnect: its reconnect routine starts, or one is running already
\* and nothing happens, or the Session does not reconnect and the lifecycle stops.
StartReconnect(g) ==
    LET l    == owner[g]
        p    == <<"reconnect", l>>
        free == lifecycle = l /\ l \notin cancelled /\ connection = None
    IN
    /\ finish[g] = "reconnect"
    /\ \/ /\ shouldReconnect /\ free /\ ~reconnectRunning
          /\ Claim
          /\ OpenerStep(p, "retry")
          /\ openRes' = [openRes EXCEPT ![p] = finishRes[g]]
          /\ finish' = [finish EXCEPT ![g] = "done"]
          /\ UNCHANGED <<lifecycle, lifecycleCounter, cancelled, openGen, finishRes, lost>>
       \/ /\ shouldReconnect /\ ~(free /\ ~reconnectRunning)
          /\ lost' = (lost \/ (free /\ reconnectRunning))
          /\ finish' = [finish EXCEPT ![g] = "done"]
          /\ UNCHANGED <<lifeVars, openVars, finishRes>>
       \/ /\ ~shouldReconnect /\ lifecycle = l
          /\ EndLifecycle
          /\ finish' = [Entered(connection) EXCEPT ![g] = "done"]
          /\ finishRes' = EnteredRes(connection, StopResult)
          /\ UNCHANGED <<openVars, lost>>
       \/ /\ ~shouldReconnect /\ lifecycle # l
          /\ finish' = [finish EXCEPT ![g] = "done"]
          /\ UNCHANGED <<lifeVars, openVars, finishRes, lost>>
    /\ UNCHANGED <<shouldReconnect, connVars, genVars, readVars, finishReconnects,
                   closeVars, eventVars>>

-----------------------------------------------------------------------------
(* drainGatewayEvents, run by an opener or by a goroutine in finish.Do.      *)

\* One section of gatewayEventMu: take the next event, or find the queue empty.
\* The handlers run between two sections.
Draining(d) == dispatcher = Idle \/ dispatcher = d

Deliver(d) ==
    /\ Draining(d) /\ events # <<>>
    /\ dispatcher' = d
    /\ lastEvent' = Head(events)
    /\ events' = Tail(events)

\* Mutant: the loop ends after one event and does not look at the queue again.
LeaveDrainEarly(d) ==
    \/ /\ Draining(d) /\ (events = <<>> \/ dispatcher = d)
       /\ dispatcher' = Idle
       /\ UNCHANGED <<events, lastEvent>>
    \/ /\ ~Draining(d)
       /\ UNCHANGED eventVars

\* The queue is empty, or somebody else is dispatching.
LeaveDrain(d) ==
    \/ /\ Draining(d) /\ events = <<>>
       /\ dispatcher' = Idle
       /\ UNCHANGED <<events, lastEvent>>
    \/ /\ ~Draining(d)
       /\ UNCHANGED eventVars

OpenerDrains(p) ==
    /\ opener[p] = "drain"
    /\ \/ Deliver(p) /\ UNCHANGED openVars
       \/ LeaveDrain(p) /\ OpenerLeaves(p, IF p[1] = "open" THEN "idle" ELSE "exit")
    /\ UNCHANGED <<shouldReconnect, lifeVars, connVars, genVars, readVars,
                   finVars, closeVars, lost>>

FinishDrains(g) ==
    LET d == <<"finish", g>> IN
    /\ finish[g] = "drain"
    /\ \/ Deliver(d) /\ UNCHANGED finish
       \/ /\ LeaveDrain(d)
          /\ finish' = [finish EXCEPT ![g] =
                           IF finishReconnects[g] THEN "reconnect" ELSE "done"]
    /\ UNCHANGED <<shouldReconnect, lifeVars, connVars, genVars,
                   readVars, finishRes, finishReconnects, openVars, closeVars, lost>>

-----------------------------------------------------------------------------
OpenerNext(p) ==
    \/ BeginGeneration(p) \/ BeginFails(p)
    \/ DialFails(p) \/ Attach(p) \/ AttachFails(p)
    \/ Hello(p) \/ HelloFails(p)
    \/ Authenticate(p) \/ AuthenticateFails(p)
    \/ AwaitReady(p) \/ AwaitDoneReady(p) \/ AwaitDone(p)
    \/ Activate(p) \/ ActivateFails(p) \/ OpenerDrains(p)
    \/ Decide(p) \/ Retry(p)
    \/ StopLifecycle(p) \/ StopTail(p) \/ ReconnectExits(p)

FinishNext(g) ==
    FinishEnter(g) \/ FinishDrains(g) \/ StartReconnect(g)

ListenNext(g) == ListenReady(g) \/ ListenEnds(g) \/ ListenQuits(g)

Next ==
    \/ OpenWithContext
    \/ CancelParent
    \/ \E c \in Closers : Close(c) \/ CloseTail(c)
    \/ \E p \in Openers : OpenerNext(p)
    \/ \E g \in Gens : ListenNext(g) \/ HeartbeatFails(g) \/ WatchContext(g)
    \/ \E g \in Gens : FinishNext(g)

Spec == Init /\ [][Next]_vars

\* Steps that only need the scheduler (and handlers that return).
LocalStep(p) ==
    \/ BeginGeneration(p) \/ BeginFails(p) \/ AttachFails(p)
    \/ AwaitReady(p) \/ AwaitDoneReady(p) \/ AwaitDone(p)
    \/ Activate(p) \/ ActivateFails(p) \/ OpenerDrains(p)
    \/ Decide(p) \/ Retry(p)
    \/ StopLifecycle(p) \/ StopTail(p) \/ ReconnectExits(p)

\* Network calls return once the context they were given is done (DialContext,
\* the coordinator's wait) or the websocket was closed; before that the peer may
\* stay silent for ever, and nothing is assumed.
CutStep(p) ==
    /\ opener[p] \in {"hello", "auth"} /\ CtxDone(openGen[p])
    /\ HelloFails(p) \/ AuthenticateFails(p)

Fairness ==
    /\ \A p \in Openers : WF_vars(LocalStep(p)) /\ WF_vars(CutStep(p))
    /\ \A g \in Gens :
        /\ WF_vars(FinishNext(g)) /\ WF_vars(WatchContext(g))
        /\ WF_vars(ListenQuits(g))
    /\ \A c \in Closers : WF_vars(CloseTail(c))

FairSpec == Spec /\ Fairness

-----------------------------------------------------------------------------
OpenerPCs == {"idle", "begin", "dial", "hello", "auth", "await", "activate", "drain",
              "join", "decide", "retry", "stop", "stopwait", "exit"}
FinishPCs == {"no", "enter", "drain", "reconnect", "done"}
Events    == {"Connect", "Disconnect"}

LifeType ==
    /\ lifecycle \in 0..MaxLife /\ lifecycleCounter \in 0..MaxLife
    /\ cancelled \subseteq Lives /\ reconnectRunning \in BOOLEAN
ConnType ==
    /\ connection \in 0..MaxGens /\ connectionCounter \in 0..MaxGens
    /\ owner \in [Gens -> 0..MaxLife] /\ sockets \subseteq Gens
GenType ==
    /\ genCancelled \subseteq Gens /\ connected \subseteq Gens
    /\ ready \in [Gens -> {"empty", "ok", "failed"}]
ReadType ==
    asked \subseteq Gens /\ listener \in [Gens -> {"off", "on", "done"}]
FinType ==
    /\ finish \in [Gens -> FinishPCs] /\ finishRes \in [Gens -> Results]
    /\ finishReconnects \in [Gens -> BOOLEAN]
OpenType ==
    /\ opener \in [Openers -> OpenerPCs] /\ openGen \in [Openers -> 0..MaxGens]
    /\ openRes \in [Openers -> Results]
CloseType ==
    closing \in [Closers -> {"idle", "wait"}] /\ closeGen \in [Closers -> 0..MaxGens]
EventType ==
    /\ events \in Seq(Events) /\ lastEvent \in Events
    /\ dispatcher \in {Idle} \cup Openers \cup ({"finish"} \X Gens)

(* Every variable has the shape its Go counterpart has: counters stay within     *)
(* their bounds, and every goroutine of wsapi.go is somewhere.                   *)
TypeOK ==
    /\ shouldReconnect \in BOOLEAN /\ lost \in BOOLEAN
    /\ LifeType /\ ConnType /\ GenType /\ ReadType
    /\ FinType /\ OpenType /\ CloseType /\ EventType

(* No websocket is left behind: one that is open belongs to the Session's        *)
(* current generation, and nobody has left that generation's finish.Do, the only *)
(* place that closes it, whatever Close, reconnects and cancellations did while   *)
(* it was dialled.                                                              *)
NoLeakedSocket ==
    \A g \in sockets : connection = g /\ finish[g] \in {"no", "enter"}

(* A generation never outlives its lifecycle unnoticed: when the Session has no *)
(* lifecycle or another one, whoever ended the old one (Close,                  *)
(* stopGatewayLifecycle) is already closing the generation.                     *)
NoOrphanGeneration ==
    connection # None /\ lifecycle # owner[connection] => finish[connection] = "enter"

(* Handlers see Connect and Disconnect strictly alternate, starting with       *)
(* Connect, and what they have seen plus what is queued agrees with whether a   *)
(* generation is up: no drop or Close emits two Disconnects, none is swallowed. *)
EventsAlternate ==
    /\ \A i \in 1..Len(events) - 1 : events[i] # events[i + 1]
    /\ events # <<>> => events[1] # lastEvent
    /\ (IF events = <<>> THEN lastEvent ELSE events[Len(events)]) =
           IF connected = {} THEN "Disconnect" ELSE "Connect"

(* No lost wake-up in drainGatewayEvents: while an event is queued, somebody is *)
(* dispatching, or is about to try.                                             *)
NoEventStuck ==
    events # <<>> => \/ dispatcher # Idle
                     \/ \E p \in Openers : opener[p] = "drain"
                     \/ \E g \in Gens : finish[g] = "drain"

\* A goroutine between the start and the outcome of an attempt to connect.
Opening(p) == opener[p] \notin {"idle", "drain", "exit"}

(* At most one goroutine connects on behalf of a lifecycle, and the flag         *)
(* gatewayReconnectRunning is never clear while its reconnect routine lives.     *)
OneConnector ==
    \A l \in Lives :
        /\ ~(Opening(<<"open", l>>) /\ Opening(<<"reconnect", l>>))
        /\ lifecycle = l /\ opener[<<"reconnect", l>>] # "idle" => reconnectRunning

\* Somebody will connect the lifecycle again, or end it.
Attended(l) ==
    \/ \E k \in {"open", "reconnect"} : Opening(<<k, l>>)
    \/ \E g \in Gens : /\ owner[g] = l /\ finishReconnects[g]
                       /\ finish[g] \in {"drain", "reconnect"}

\* The Session is open and wants a connection, has none, and nobody makes one.
Stranded ==
    /\ lifecycle # None /\ lifecycle \notin cancelled /\ connection = None
    /\ ~Attended(lifecycle)

(* A Session without a connection is being reconnected, except after one of the *)
(* two races that `lost` records: a drop that arrived while the reconnect       *)
(* routine was still returning, or READY taken after the generation was over.   *)
StrandedOnlyByRace == Stranded => lost

(* A closed or cancelled lifecycle winds down: its generations are finished,     *)
(* their listeners have returned, and so have its openers.                       *)
Quiet(l) ==
    /\ \A k \in {"open", "reconnect"} : opener[<<k, l>>] = "idle"
    /\ \A g \in Gens : owner[g] = l => /\ finish[g] = "done"
                                       /\ listener[g] \in {"off", "done"}
CancelledWindsDown == \A l \in Lives : (l \in cancelled) ~> Quiet(l)
=============================================================================
