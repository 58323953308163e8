---------------------------- MODULE ShardManager ----------------------------
(***************************************************************************)
(* ShardManager (sharding.go): Open starts one Session per shard at once and  *)
(* closes all of them when one fails; Close cancels the lifetime they share   *)
(* and closes them too; both may run at the same time.  The Sessions call     *)
(* Acquire of the IdentifyCoordinator they share before each fresh Identify.  *)
(* A step is one critical section of m.mu, one wait, or one step of a shard.  *)
(*                                                                         *)
(* Of a Session (see Gateway) this module keeps whether it is closed, being   *)
(* opened or open.  A Resume passes the coordinator by and is not             *)
(* represented.  m.openDone is nil when no Open runs; m.cancel is not nil     *)
(* when Close uses it.                                                        *)
(***************************************************************************)
EXTENDS IdentifyCoordinator

CONSTANTS Closers  \* goroutines that call Close

VARIABLES
    state,             \* "closed", "opening", "open", "closing"
    lifetimeDone,      \* the context of the last Open is done
    cleanupCompleted,
    open,              \* where Open is: "idle", "join", "decide", "cleanup"
    openErr,           \* a shard's OpenWithContext failed; local to Open
    session,           \* of each shard: "closed", "opening", "open"
    orphan,            \* shards whose reconnect routine is still in Acquire
                       \* after the lifecycle it worked for has ended
    closer             \* where each caller of Close is

managerVars == <<state, lifetimeDone, cleanupCompleted, open, closer>>
shardVars   == <<openErr, session, orphan>>
vars == <<coordVars, managerVars, shardVars>>

TypeOK ==
    /\ CoordType
    /\ state \in {"closed", "opening", "open", "closing"}
    /\ lifetimeDone \in BOOLEAN /\ cleanupCompleted \in BOOLEAN
    /\ open \in {"idle", "join", "decide", "cleanup"}
    /\ openErr \in BOOLEAN /\ orphan \subseteq Shards
    /\ session \in [Shards -> {"closed", "opening", "open"}]
    /\ closer \in [Closers -> {"idle", "cancel", "join", "cleanup", "finish", "follow"}]

\* NewShardManagerWithConfig
Init ==
    /\ CoordInit
    /\ state = "closed" /\ lifetimeDone = TRUE /\ cleanupCompleted = FALSE
    /\ open = "idle" /\ openErr = FALSE /\ orphan = {}
    /\ session = [s \in Shards |-> "closed"]
    /\ closer = [c \in Closers |-> "idle"]

AllClosed == \A s \in Shards : session[s] = "closed"

-----------------------------------------------------------------------------
(* Open.  In any other state it returns ErrShardManagerAlreadyOpen.           *)

\* Mutant: the flag of the last cleanup is left as it is.
OpenKeepsFlag ==
    /\ state = "closed"
    /\ state' = "opening" /\ lifetimeDone' = FALSE
    /\ open' = "join" /\ openErr' = FALSE
    /\ session' = [s \in Shards |-> "opening"]
    /\ UNCHANGED <<coordVars, cleanupCompleted, orphan, closer>>

Open ==
    /\ state = "closed"
    /\ state' = "opening" /\ lifetimeDone' = FALSE /\ cleanupCompleted' = FALSE
    /\ open' = "join" /\ openErr' = FALSE
    /\ session' = [s \in Shards |-> "opening"]
    /\ UNCHANGED <<coordVars, orphan, closer>>

\* waitGroup.Wait, then the errors of the shards and lifetime.Err().
OpenJoins ==
    /\ open = "join" /\ \A s \in Shards : session[s] # "opening"
    /\ open' = IF openErr \/ lifetimeDone THEN "cleanup" ELSE "decide"
    /\ UNCHANGED <<coordVars, shardVars, state, lifetimeDone, cleanupCompleted, closer>>

OpenDecides ==
    /\ open = "decide"
    /\ IF state = "closing"
       THEN open' = "cleanup" /\ UNCHANGED state
       ELSE open' = "idle" /\ state' = "open"
    /\ UNCHANGED <<coordVars, shardVars, lifetimeDone, cleanupCompleted, closer>>

OpenFinishes ==
    /\ open = "cleanup" /\ AllClosed
    /\ open' = "idle" /\ openErr' = FALSE /\ cleanupCompleted' = TRUE
    /\ state' = IF state = "opening" THEN "closed" ELSE state
    /\ UNCHANGED <<coordVars, session, orphan, lifetimeDone, closer>>

\* The context given to Open is cancelled.
CancelParent ==
    /\ ~lifetimeDone /\ lifetimeDone' = TRUE
    /\ UNCHANGED <<coordVars, shardVars, state, cleanupCompleted, open, closer>>

-----------------------------------------------------------------------------
(* Close.  When the manager is closed it returns at once.                     *)

CloserStep(c, to) == closer' = [closer EXCEPT ![c] = to]

CloseBegins(c) ==
    /\ closer[c] = "idle" /\ state \in {"opening", "open"}
    /\ state' = "closing" /\ CloserStep(c, "cancel")
    /\ UNCHANGED <<coordVars, shardVars, lifetimeDone, cleanupCompleted, open>>

\* Another Close is running: wait for it.
CloseFollows(c) ==
    /\ closer[c] = "idle" /\ state = "closing"
    /\ CloserStep(c, "follow")
    /\ UNCHANGED <<coordVars, shardVars, state, lifetimeDone, cleanupCompleted, open>>

\* Mutant: Close waits for the Open it meets without cancelling it.
CancelNothing(c) ==
    /\ closer[c] = "cancel" /\ CloserStep(c, "join")
    /\ UNCHANGED <<coordVars, shardVars, state, lifetimeDone, cleanupCompleted, open>>

CloseCancels(c) ==
    /\ closer[c] = "cancel" /\ lifetimeDone' = TRUE /\ CloserStep(c, "join")
    /\ UNCHANGED <<coordVars, shardVars, state, cleanupCompleted, open>>

\* <-openDone, then whether Open has cleaned up.
CloseJoins(c) ==
    /\ closer[c] = "join" /\ open = "idle"
    /\ CloserStep(c, IF cleanupCompleted THEN "finish" ELSE "cleanup")
    /\ UNCHANGED <<coordVars, shardVars, state, lifetimeDone, cleanupCompleted, open>>

CloseCleansUp(c) ==
    /\ closer[c] = "cleanup" /\ AllClosed /\ CloserStep(c, "finish")
    /\ UNCHANGED <<coordVars, shardVars, state, lifetimeDone, cleanupCompleted, open>>

CloseFinishes(c) ==
    /\ closer[c] = "finish"
    /\ state' = "closed" /\ cleanupCompleted' = TRUE
    /\ closer' = [d \in Closers |->
                    IF d = c \/ closer[d] = "follow" THEN "idle" ELSE closer[d]]
    /\ UNCHANGED <<coordVars, shardVars, lifetimeDone, open>>

-----------------------------------------------------------------------------
(* A shard's Session: OpenWithContext and its reconnect routine.              *)

SessionStep(s, to) == session' = [session EXCEPT ![s] = to]

\* The Session begins no generation once the lifetime is done.  (One opened
\* again identifies when the Acquire of its past is over: see IdentifyCoordinator.)
ShardIdentifies(s) ==
    /\ session[s] # "closed" /\ ~lifetimeDone /\ Acquire(s)
    /\ UNCHANGED <<managerVars, shardVars>>

\* What Acquire returned is used, and the Session goes on: its generation is
\* lost or refused and is followed by another one, or a reconnect is through.
\* OpenWithContext does not go on without quota.
ShardGoesOn(s) ==
    /\ s \notin orphan /\ (session[s] = "open" \/ acquiring[s] # "exhausted")
    /\ AcquireReturns(s)
    /\ UNCHANGED <<managerVars, shardVars>>

\* The reconnect routine of a lifecycle that has ended exits.
OrphanExits(s) ==
    /\ s \in orphan /\ AcquireReturns(s) /\ orphan' = orphan \ {s}
    /\ UNCHANGED <<managerVars, openErr, session>>

\* OpenWithContext returns nil; the lifetime may be done by then (Gateway shows how).
ShardOpens(s) ==
    /\ session[s] = "opening" /\ s \notin orphan
    /\ acquiring[s] = "granted" /\ AcquireReturns(s)
    /\ SessionStep(s, "open")
    /\ UNCHANGED <<managerVars, openErr, orphan>>

\* OpenWithContext returns an error: the network, Discord, Acquire or the context.
OpenEnds(s) ==
    /\ session[s] = "opening"
    /\ \/ s \notin orphan /\ AcquireReturns(s)
       \/ (s \in orphan \/ acquiring[s] = "idle") /\ UNCHANGED coordVars
    /\ SessionStep(s, "closed")

\* The error is recorded, and the lifetime cancelled.
ShardFails(s) ==
    /\ OpenEnds(s) /\ openErr' = TRUE /\ lifetimeDone' = TRUE
    /\ UNCHANGED <<state, cleanupCompleted, open, closer, orphan>>

\* The Session's lifecycle ends; a reconnect routine may not have noticed yet.
SessionCloses(s) ==
    /\ session[s] = "open" /\ SessionStep(s, "closed")
    /\ orphan' = IF acquiring[s] = "idle" THEN orphan ELSE orphan \cup {s}
    /\ UNCHANGED <<coordVars, managerVars, openErr>>

\* It ends by itself: Discord refuses it for good, or the lifetime is done.
ShardEnds(s) ==
    /\ lifetimeDone \/ acquiring[s] = "idle"
    /\ SessionCloses(s)

\* closeSessions, of Open or of Close.
CloseSession(s) ==
    /\ open = "cleanup" \/ \E c \in Closers : closer[c] = "cleanup"
    /\ SessionCloses(s)

\* The context of an Acquire: the lifetime, and the lifecycle of its Session.
CtxDone(s) == lifetimeDone \/ s \in orphan

-----------------------------------------------------------------------------
ManagerStep == Open \/ OpenJoins \/ OpenDecides \/ OpenFinishes \/ CancelParent

CloseStep(c) ==
    CloseCancels(c) \/ CloseJoins(c) \/ CloseCleansUp(c) \/ CloseFinishes(c)

ShardStep(s) ==
    \/ ShardIdentifies(s) \/ ShardGoesOn(s) \/ OrphanExits(s) \/ ShardOpens(s)
    \/ ShardFails(s) \/ ShardEnds(s) \/ CloseSession(s)

\* A generation may lose its connection during Acquire: no guard on CtxDone.
CoordinatorStep ==
    /\ \/ \E s \in Shards : AcquireStep(s) \/ AcquireCancelled(s)
       \/ Refresh \/ Status \/ Tick
    /\ UNCHANGED <<managerVars, shardVars>>

Next ==
    \/ ManagerStep
    \/ \E c \in Closers : CloseBegins(c) \/ CloseFollows(c) \/ CloseStep(c)
    \/ \E s \in Shards : ShardStep(s)
    \/ CoordinatorStep

Spec == Init /\ [][Next]_vars

\* What goroutines do that can run: Open and Close go on, and of a shard only
\* what a done context forces on it, as nothing makes Discord answer and no one
\* has to call Open or Close.  To assume that one of them moves is enough, as
\* each of these steps brings the end of a lifetime nearer.
Runnable ==
    \/ OpenJoins \/ OpenDecides \/ OpenFinishes
    \/ \E c \in Closers : CloseStep(c)
    \/ \E s \in Shards :
        \/ lifetimeDone /\ ShardFails(s)
        \/ CloseSession(s)
        \/ CtxDone(s) /\ AcquireCancelled(s) /\ UNCHANGED <<managerVars, shardVars>>

FairSpec == Spec /\ WF_vars(Runnable)

-----------------------------------------------------------------------------
(* A manager that is closed has closed every shard, whichever of Open and     *)
(* Close did it and in whatever order: no Open still runs, no shard is open   *)
(* or opening, every Close has returned, and the context of the lifetime was  *)
(* released.                                                                  *)
ClosedIsQuiet ==
    state = "closed" =>
        open = "idle" /\ AllClosed /\ lifetimeDone /\ \A c \in Closers : closer[c] = "idle"

\* A Close that closes, and does not wait for another one to.
Working(c) == closer[c] \notin {"idle", "follow"}

(* One Close works at a time, the others wait for its closeDone: it is closed *)
(* once, and a manager is closing exactly while one Close works.              *)
OneCloser ==
    /\ \A c, d \in Closers : Working(c) /\ Working(d) => c = d
    /\ state = "closing" <=> \E c \in Closers : Working(c)

(* A manager that says it is open had all its shards opened: none failed, and  *)
(* none is still on its way when the caller of Open or of Close goes on.       *)
OpenIsWhole ==
    state = "open" => open = "idle" /\ ~openErr /\ \A s \in Shards : session[s] # "opening"

(* A Close, and an Open of which a shard failed, end with the manager closed: *)
(* also when shards sleep for a gate, wait for Discord or fail meanwhile, and  *)
(* when Open and Close meet.                                                  *)
ShutdownEnds ==
    state = "closing" \/ openErr ~> state = "closed"

=============================================================================
