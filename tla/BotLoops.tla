------------------------------ MODULE BotLoops ------------------------------
(***************************************************************************)
(* The task loops of the bot package and their owners: Loop (bot/loop.go),   *)
(* the Bot's StartLoop, StopLoop and CloseContext, and the commit and the    *)
(* unloading of an extension (bot/extension.go).  A step is one critical     *)
(* section of Loop.mu or Bot.mu, one receive, or one call of a task or hook. *)
(*                                                                         *)
(* Not represented: the commands, routes and event hooks of an extension,    *)
(* whose commit is one assignment under Bot.mu, its Setup and Teardown,      *)
(* ChangeInterval, and the Session that CloseContext closes.  The loops      *)
(* of one extension are taken in any order; the code takes them as staged.   *)
(***************************************************************************)
EXTENDS Naturals, FiniteSets

CONSTANTS
    Loops,       \* Loop values
    Extensions,  \* names of extensions
    Staged,      \* Staged[e]: the loops that e hands to AddLoops
    Callers,     \* goroutines that call methods which wait
    NoCaller,    \* Bot.mu is free between steps
    MaxRuns      \* bound: MaxRuns[l] runs of a Loop, aborted ones included

ASSUME BotLoopsAssumption ==
    /\ NoCaller \notin Callers
    /\ MaxRuns \in [Loops -> Nat \ {0}]
    /\ Staged \in [Extensions -> SUBSET Loops]

Runs == UNION {{l} \X (1..MaxRuns[l]) : l \in Loops}
NoRun == <<>>

VARIABLES
    running,            \* field of a Loop; its stopping says that the stop of done is closed
    done,               \* the run whose done, stop and wake channels it holds, or 0
    lastErr,            \* "nil", or "err", which stands for any error
    prepared,           \* number of runs prepareStart has made
    exec,               \* where the goroutine of a run is
    prev,               \* what abort gives back: done and lastErr before the run
    stopped, cancelled, \* live runs whose stop channel is closed, whose context is done
    owned,              \* live runs whose context is derived from lifecycleCtx
    result,             \* result of execute, forgotten when the Loop is prepared again
    watcher, watching,  \* the goroutine watchLoop started with a run; the run it waits for
    managed, reserved,  \* Bot.loops, Bot.reservedLoops
    loaded,             \* Bot.extensions
    botMu,              \* the caller inside commitExtension
    closed, lifecycleDone,
    at, onRun, todo,    \* a caller's place, the run it waits for, loops it still has to handle
    names, snapshot     \* extensions and loops CloseContext still has to handle

loopVars  == <<running, done, lastErr, prepared, prev>>
runVars   == <<exec, stopped, cancelled, owned, result>>
watchVars == <<watcher, watching>>
botVars   == <<managed, reserved, loaded, botMu, closed, lifecycleDone>>
callVars  == <<at, onRun, todo, names, snapshot>>
vars == <<loopVars, runVars, watchVars, botVars, callVars>>

Fresh == [done |-> 0, err |-> "nil"]

Init ==
    /\ running = [l \in Loops |-> FALSE]
    /\ done = [l \in Loops |-> 0] /\ lastErr = [l \in Loops |-> "nil"]
    /\ prepared = [l \in Loops |-> 0] /\ prev = [l \in Loops |-> Fresh]
    /\ exec = [r \in Runs |-> "none"] /\ result = [r \in Runs |-> "nil"]
    /\ stopped = {} /\ cancelled = {} /\ owned = {}
    /\ watcher = [r \in Runs |-> "none"] /\ watching = [r \in Runs |-> 0]
    /\ managed = {} /\ reserved = {} /\ loaded = {} /\ botMu = NoCaller
    /\ closed = FALSE /\ lifecycleDone = FALSE
    /\ at = [c \in Callers |-> "idle"] /\ onRun = [c \in Callers |-> NoRun]
    /\ todo = [c \in Callers |-> {}] /\ names = [c \in Callers |-> {}]
    /\ snapshot = [c \in Callers |-> {}]

Cur(l) == <<l, done[l]>>
Over(r) == exec[r] \in {"over", "aborted"}

-----------------------------------------------------------------------------
(* Loop: starting and aborting a run.                                       *)

\* Mutant: a running loop is started again.
PreparableAlways(l) == prepared[l] < MaxRuns[l]
Preparable(l) == ~running[l] /\ prepared[l] < MaxRuns[l]

\* prepareStart; the goroutine of the run is then at "to".
Prepare(l, to, parent) ==
    LET r == <<l, prepared[l] + 1>>
    IN  /\ Preparable(l)
        /\ prepared' = [prepared EXCEPT ![l] = @ + 1]
        /\ running' = [running EXCEPT ![l] = TRUE]
        /\ done' = [done EXCEPT ![l] = prepared[l] + 1]
        /\ lastErr' = [lastErr EXCEPT ![l] = "nil"]
        /\ prev' = [prev EXCEPT ![l] = IF to = "prepared"
                                       THEN [done |-> done[l], err |-> lastErr[l]] ELSE Fresh]
        /\ exec' = [exec EXCEPT ![r] = to]
        /\ owned' = IF parent = "bot" THEN owned \cup {r} ELSE owned
        /\ result' = [q \in Runs |-> IF q[1] = l THEN "nil" ELSE result[q]]
        /\ UNCHANGED <<stopped, cancelled>>

\* Loop.Start with a context of the user's.
Start(l) ==
    /\ Prepare(l, "launched", "user")
    /\ UNCHANGED <<watchVars, botVars, callVars>>

Abort(l) ==
    /\ running' = [running EXCEPT ![l] = FALSE]
    /\ done' = [done EXCEPT ![l] = prev[l].done]
    /\ lastErr' = [lastErr EXCEPT ![l] = prev[l].err]
    /\ prev' = [prev EXCEPT ![l] = Fresh]
    /\ exec' = [exec EXCEPT ![Cur(l)] = "aborted"]
    /\ stopped' = stopped \ {Cur(l)} /\ cancelled' = cancelled \ {Cur(l)}
    /\ owned' = owned \ {Cur(l)}
    /\ UNCHANGED prepared

-----------------------------------------------------------------------------
(* Loop: the goroutine of a run (execute, run, waitInterval).                *)

Moves(r, from, to) ==
    /\ exec[r] = from
    /\ exec' = [exec EXCEPT ![r] = to]
    /\ UNCHANGED <<loopVars, stopped, cancelled, owned, watchVars, botVars, callVars>>

\* run returns; the after hook may add its error to the result.
Returns(r, from, results) ==
    /\ Moves(r, from, "finish")
    /\ \E res \in results \cup {"err"} : result' = [result EXCEPT ![r] = res]

\* The look at stop and context, then the before hook, which may fail.  The first iteration
\* comes at once or after a wait.  A select that finds several channels ready takes any.
Enter(r) ==
    \/ /\ r \notin stopped \cup cancelled
       /\ \/ /\ \E to \in {"task", "wait"} : Moves(r, "launched", to)
             /\ UNCHANGED result
          \/ Returns(r, "launched", {})
    \/ r \in stopped /\ Returns(r, "launched", {"nil"})
    \/ r \in cancelled /\ Returns(r, "launched", {})

\* An iteration ends: another one is due, the count is reached, or its error ends the run.
Iterate(r) ==
    \/ Moves(r, "task", "wait") /\ UNCHANGED result
    \/ Returns(r, "task", {"nil"})

Timer(r) == Moves(r, "wait", "task") /\ UNCHANGED result

WaitStopped(r) == r \in stopped /\ Returns(r, "wait", {"nil"})
WaitCancelled(r) == r \in cancelled /\ Returns(r, "wait", {})

\* Mutant: the result is stored after done is closed, that is too late.
FinishSilently(r) ==
    /\ exec[r] = "finish"
    /\ exec' = [exec EXCEPT ![r] = "over"]
    /\ running' = [running EXCEPT ![r[1]] = FALSE]
    /\ stopped' = stopped \ {r} /\ cancelled' = cancelled \ {r} /\ owned' = owned \ {r}
    /\ UNCHANGED <<done, lastErr, prepared, prev, result, watchVars, botVars, callVars>>

\* The last section of execute, which closes done.
Finish(r) ==
    /\ exec[r] = "finish"
    /\ exec' = [exec EXCEPT ![r] = "over"]
    /\ lastErr' = [lastErr EXCEPT ![r[1]] = result[r]]
    /\ running' = [running EXCEPT ![r[1]] = FALSE]
    /\ stopped' = stopped \ {r} /\ cancelled' = cancelled \ {r} /\ owned' = owned \ {r}
    /\ UNCHANGED <<done, prepared, prev, result, watchVars, botVars, callVars>>

-----------------------------------------------------------------------------
(* Loop: methods of a caller.                                               *)

Goes(c, to, r) ==
    /\ at' = [at EXCEPT ![c] = to]
    /\ onRun' = [onRun EXCEPT ![c] = r]

\* The first section of Stop.
CloseStop(l) ==
    /\ stopped' = stopped \cup {Cur(l)}
    /\ UNCHANGED <<running, done, lastErr, prepared, prev, exec, cancelled, owned, result>>

Stop(c, l) ==
    /\ at[c] = "idle" /\ running[l]
    /\ CloseStop(l) /\ Goes(c, "waiting", Cur(l))
    /\ UNCHANGED <<watchVars, botVars, todo, names, snapshot>>

Wait(c, l) ==
    /\ at[c] = "idle" /\ done[l] # 0
    /\ Goes(c, "waiting", Cur(l))
    /\ UNCHANGED <<loopVars, runVars, watchVars, botVars, todo, names, snapshot>>

\* done is closed; waitLoopDone reads lastErr in a section of its own.
Return(c) ==
    /\ at[c] = "waiting" /\ Over(onRun[c])
    /\ Goes(c, "idle", NoRun)
    /\ UNCHANGED <<loopVars, runVars, watchVars, botVars, todo, names, snapshot>>

\* The caller's own context ends first.
GiveUp(c) ==
    /\ at[c] = "waiting"
    /\ Goes(c, "idle", NoRun)
    /\ UNCHANGED <<loopVars, runVars, watchVars, botVars, todo, names, snapshot>>

\* Cancel, or the user's context given to Start.
Cancel(l) ==
    /\ running[l]
    /\ cancelled' = cancelled \cup {Cur(l)}
    /\ UNCHANGED <<loopVars, exec, stopped, owned, result, watchVars, botVars, callVars>>

-----------------------------------------------------------------------------
(* Bot: managed loops.                                                      *)

BotFree == botMu = NoCaller

NotManaged(l) == l \notin managed /\ l \notin reserved

StartLoop(l) ==
    /\ BotFree /\ ~closed /\ NotManaged(l)
    /\ Prepare(l, "launched", "bot")
    /\ managed' = managed \cup {l}
    /\ watcher' = [watcher EXCEPT ![<<l, prepared[l] + 1>>] = "spawned"]
    /\ UNCHANGED <<watching, reserved, loaded, botMu, closed, lifecycleDone, callVars>>

\* watchLoop waits for the run the Loop has when the goroutine gets there.
Watch(r) ==
    /\ watcher[r] = "spawned"
    /\ watcher' = [watcher EXCEPT ![r] = "waiting"]
    /\ watching' = [watching EXCEPT ![r] = done[r[1]]]
    /\ UNCHANGED <<loopVars, runVars, botVars, callVars>>

WatchEnds(r) ==
    /\ watcher[r] = "waiting" /\ Over(<<r[1], watching[r]>>)
    /\ watcher' = [watcher EXCEPT ![r] = "forget"]
    /\ UNCHANGED <<watching, loopVars, runVars, botVars, callVars>>

Forget(r) ==
    /\ watcher[r] = "forget" /\ BotFree
    /\ watcher' = [watcher EXCEPT ![r] = "none"]
    /\ watching' = [watching EXCEPT ![r] = 0]
    /\ managed' = managed \ {r[1]}
    /\ UNCHANGED <<loopVars, runVars, reserved, loaded, botMu, closed, lifecycleDone, callVars>>

\* StopLoop finds the loop managed, ...
StopLoop(c, l) ==
    /\ at[c] = "idle" /\ BotFree /\ l \in managed
    /\ Goes(c, "stopLoop", <<l, 0>>)
    /\ UNCHANGED <<loopVars, runVars, watchVars, botVars, todo, names, snapshot>>

\* ... stops it, unless it is over already, ...
StopLoopStop(c) ==
    LET l == onRun[c][1]
    IN  /\ at[c] = "stopLoop"
        /\ \/ /\ running[l] /\ CloseStop(l) /\ Goes(c, "stopLoopWait", Cur(l))
           \/ /\ ~running[l] /\ Goes(c, "stopLoopCheck", onRun[c])
              /\ UNCHANGED <<loopVars, runVars>>
        /\ UNCHANGED <<watchVars, botVars, todo, names, snapshot>>

\* ... waits for the run or for its own context, ...
StopLoopWait(c) ==
    /\ at[c] = "stopLoopWait"
    /\ Goes(c, "stopLoopCheck", onRun[c])
    /\ UNCHANGED <<loopVars, runVars, watchVars, botVars, todo, names, snapshot>>

\* Mutant: StopLoop releases the loop also when its own deadline has passed.
StopLoopUnchecked(c) ==
    /\ at[c] = "stopLoopCheck"
    /\ Goes(c, "stopLoopForget", onRun[c])
    /\ UNCHANGED <<loopVars, runVars, watchVars, botVars, todo, names, snapshot>>

\* ... looks whether it runs, ...
StopLoopCheck(c) ==
    /\ at[c] = "stopLoopCheck"
    /\ IF running[onRun[c][1]] THEN Goes(c, "idle", NoRun) ELSE Goes(c, "stopLoopForget", onRun[c])
    /\ UNCHANGED <<loopVars, runVars, watchVars, botVars, todo, names, snapshot>>

\* ... and releases it.
StopLoopForget(c) ==
    /\ at[c] = "stopLoopForget" /\ BotFree
    /\ managed' = managed \ {onRun[c][1]}
    /\ Goes(c, "idle", NoRun)
    /\ UNCHANGED <<loopVars, runVars, watchVars, reserved, loaded, botMu, closed, lifecycleDone,
                   todo, names, snapshot>>

-----------------------------------------------------------------------------
(* Bot: loading an extension.  commitExtension holds Bot.mu throughout, and  *)
(* each Loop's mutex only while it prepares or aborts that loop.             *)

Load(c, e) ==
    /\ at[c] = "idle" /\ BotFree /\ ~closed /\ e \notin loaded
    /\ botMu' = c
    /\ at' = [at EXCEPT ![c] = "commit"]
    /\ todo' = [todo EXCEPT ![c] = Staged[e]]
    /\ names' = [names EXCEPT ![c] = {e}]
    /\ UNCHANGED <<loopVars, runVars, watchVars, managed, reserved, loaded, closed,
                   lifecycleDone, onRun, snapshot>>

CommitPrepare(c, l) ==
    /\ at[c] = "commit" /\ l \in todo[c] /\ NotManaged(l)
    /\ Prepare(l, "prepared", "bot")
    /\ todo' = [todo EXCEPT ![c] = @ \ {l}]
    /\ UNCHANGED <<watchVars, botVars, at, onRun, names, snapshot>>

\* A loop is managed, or runs on its owner's account (or MaxRuns is reached): the whole
\* extension is refused.
CommitRefuse(c, l) ==
    /\ at[c] = "commit" /\ l \in todo[c]
    /\ ~NotManaged(l) \/ ~Preparable(l)
    /\ at' = [at EXCEPT ![c] = "abort"]
    /\ todo' = [todo EXCEPT ![c] = {}]
    /\ UNCHANGED <<loopVars, runVars, watchVars, botVars, onRun, names, snapshot>>

PreparedLoops == {l \in Loops : done[l] # 0 /\ exec[Cur(l)] = "prepared"}

CommitAbort(c) ==
    /\ at[c] = "abort"
    /\ \/ /\ \E l \in PreparedLoops : Abort(l)
          /\ UNCHANGED <<botMu, at, names>>
       \/ /\ PreparedLoops = {}
          /\ botMu' = NoCaller
          /\ at' = [at EXCEPT ![c] = "idle"]
          /\ names' = [names EXCEPT ![c] = {}]
          /\ UNCHANGED <<loopVars, exec, stopped, cancelled, owned>>
    /\ UNCHANGED <<result, watchVars, managed, reserved, loaded, closed,
                   lifecycleDone, onRun, todo, snapshot>>

CommitPublish(c) ==
    /\ at[c] = "commit" /\ todo[c] = {}
    /\ loaded' = loaded \cup names[c]
    /\ managed' = managed \cup PreparedLoops
    /\ reserved' = reserved \cup PreparedLoops
    /\ exec' = [r \in Runs |-> IF exec[r] = "prepared" THEN "launched" ELSE exec[r]]
    /\ watcher' = [r \in Runs |-> IF exec[r] = "prepared" THEN "spawned" ELSE watcher[r]]
    /\ prev' = [l \in Loops |-> Fresh]
    /\ botMu' = NoCaller
    /\ at' = [at EXCEPT ![c] = "idle"]
    /\ names' = [names EXCEPT ![c] = {}]
    /\ UNCHANGED <<running, done, lastErr, prepared, stopped, cancelled, owned,
                   result, watching, closed, lifecycleDone, onRun, todo, snapshot>>

-----------------------------------------------------------------------------
(* Bot: unloading and closing.                                              *)

\* Mutant: the loops stay reserved.
DetachKeeps(e) ==
    /\ loaded' = loaded \ {e}
    /\ managed' = managed \ Staged[e]
    /\ UNCHANGED reserved

\* The critical section of UnloadExtension.
Detach(e) ==
    /\ loaded' = loaded \ {e}
    /\ managed' = managed \ Staged[e]
    /\ reserved' = reserved \ Staged[e]

Unload(c, e) ==
    /\ at[c] = "idle" /\ BotFree /\ e \in loaded
    /\ Detach(e)
    /\ at' = [at EXCEPT ![c] = "stopAll"]
    /\ todo' = [todo EXCEPT ![c] = Staged[e]]
    /\ UNCHANGED <<loopVars, runVars, watchVars, botMu, closed, lifecycleDone, onRun, names,
                   snapshot>>

\* Stop one of the loops; one that does not run is passed over.
StopNext(c, l) ==
    /\ at[c] \in {"stopAll", "closeAll"} /\ l \in todo[c]
    /\ todo' = [todo EXCEPT ![c] = @ \ {l}]
    /\ \/ /\ running[l] /\ CloseStop(l)
          /\ Goes(c, IF at[c] = "stopAll" THEN "stopAllWait" ELSE "closeAllWait", Cur(l))
       \/ /\ ~running[l]
          /\ UNCHANGED <<loopVars, runVars, at, onRun>>
    /\ UNCHANGED <<watchVars, botVars, names, snapshot>>

\* The run is over, or the deadline has passed.  A run with an error, and one that is not
\* over, leads to a Cancel if the loop runs.
StopNextEnds(c) ==
    LET l == onRun[c][1]
    IN  /\ at[c] \in {"stopAllWait", "closeAllWait"}
        /\ \/ /\ Over(onRun[c]) /\ (lastErr[l] = "nil" \/ ~running[l])
              /\ UNCHANGED cancelled
           \/ /\ ~Over(onRun[c]) \/ lastErr[l] # "nil"
              /\ cancelled' = IF running[l] THEN cancelled \cup {Cur(l)} ELSE cancelled
        /\ Goes(c, IF at[c] = "stopAllWait" THEN "stopAll" ELSE "closeAll", NoRun)
        /\ UNCHANGED <<loopVars, exec, stopped, owned, result, watchVars, botVars, todo,
                       names, snapshot>>

UnloadEnds(c) ==
    /\ at[c] = "stopAll" /\ todo[c] = {}
    /\ at' = [at EXCEPT ![c] = "idle"]
    /\ UNCHANGED <<loopVars, runVars, watchVars, botVars, onRun, todo, names, snapshot>>

\* The first section of CloseContext; a later call only waits for closeDone.
Close(c) ==
    /\ at[c] = "idle" /\ BotFree /\ ~closed
    /\ closed' = TRUE
    /\ at' = [at EXCEPT ![c] = "closeAll"]
    /\ names' = [names EXCEPT ![c] = loaded]
    /\ snapshot' = [snapshot EXCEPT ![c] = managed]
    /\ UNCHANGED <<loopVars, runVars, watchVars, managed, reserved, loaded, botMu,
                   lifecycleDone, onRun, todo>>

\* UnloadExtension for the next extension; another caller may have unloaded it.
CloseUnload(c, e) ==
    /\ at[c] = "closeAll" /\ todo[c] = {} /\ e \in names[c] /\ BotFree
    /\ names' = [names EXCEPT ![c] = @ \ {e}]
    /\ \/ /\ e \in loaded /\ Detach(e)
          /\ todo' = [todo EXCEPT ![c] = Staged[e]]
       \/ /\ e \notin loaded
          /\ UNCHANGED <<loaded, managed, reserved, todo>>
    /\ UNCHANGED <<loopVars, runVars, watchVars, botMu, closed, lifecycleDone, at, onRun,
                   snapshot>>

CloseLoops(c) ==
    /\ at[c] = "closeAll" /\ todo[c] = {} /\ names[c] = {} /\ snapshot[c] # {}
    /\ todo' = [todo EXCEPT ![c] = snapshot[c]]
    /\ snapshot' = [snapshot EXCEPT ![c] = {}]
    /\ UNCHANGED <<loopVars, runVars, watchVars, botVars, at, onRun, names>>

EndLifecycle == lifecycleDone' = TRUE /\ cancelled' = cancelled \cup owned

CloseEnds(c) ==
    /\ at[c] = "closeAll" /\ todo[c] = {} /\ names[c] = {} /\ snapshot[c] = {}
    /\ EndLifecycle
    /\ at' = [at EXCEPT ![c] = "idle"]
    /\ UNCHANGED <<loopVars, exec, stopped, owned, result, watchVars, managed, reserved,
                   loaded, botMu, closed, onRun, todo, names, snapshot>>

-----------------------------------------------------------------------------
RunStep(r) ==
    \/ Enter(r) \/ Iterate(r) \/ Timer(r) \/ WaitStopped(r) \/ WaitCancelled(r) \/ Finish(r)

WatchStep(r) == Watch(r) \/ WatchEnds(r) \/ Forget(r)

\* Steps with which a caller goes on with what it has begun.
CallStep(c) ==
    \/ Return(c)
    \/ StopLoopStop(c) \/ StopLoopWait(c) \/ StopLoopCheck(c) \/ StopLoopForget(c)
    \/ \E l \in Loops : CommitPrepare(c, l) \/ CommitRefuse(c, l) \/ StopNext(c, l)
    \/ CommitAbort(c) \/ CommitPublish(c)
    \/ StopNextEnds(c) \/ UnloadEnds(c)
    \/ \E e \in Extensions : CloseUnload(c, e)
    \/ CloseLoops(c) \/ CloseEnds(c)

Calls(c) ==
    \/ \E l \in Loops : Stop(c, l) \/ Wait(c, l) \/ StopLoop(c, l)
    \/ GiveUp(c)
    \/ \E e \in Extensions : Load(c, e) \/ Unload(c, e)
    \/ Close(c)

Next ==
    \/ \E r \in Runs : RunStep(r) \/ WatchStep(r)
    \/ \E c \in Callers : CallStep(c) \/ Calls(c)
    \/ \E l \in Loops : Start(l) \/ StartLoop(l) \/ Cancel(l)

Spec == Init /\ [][Next]_vars

-----------------------------------------------------------------------------
\* Types, and the goroutine of a run that is prepared or launched is the one of its Loop.
TypeOK ==
    /\ running \in [Loops -> BOOLEAN]
    /\ \A l \in Loops : done[l] \in 0..prepared[l] /\ prepared[l] \in 0..MaxRuns[l]
    /\ exec \in [Runs -> {"none", "prepared", "launched", "task", "wait", "finish", "over",
                          "aborted"}]
    /\ watcher \in [Runs -> {"none", "spawned", "waiting", "forget"}]
    /\ managed \cup reserved \subseteq Loops /\ loaded \subseteq Extensions
    /\ botMu \in Callers \cup {NoCaller}
    /\ \A r \in Runs : exec[r] \in {"prepared", "launched", "task", "wait", "finish"}
                           <=> running[r[1]] /\ Cur(r[1]) = r

\* LoadExtension "atomically publishes every staged registry entry" (extension.go:184-185): whenever
\* Bot.mu is free no loop is half started, the reserved loops are those of the loaded extensions,
\* and no loop belongs to two of them, whatever users do with the loops meanwhile.
LoadIsAtomic ==
    BotFree => /\ PreparedLoops = {}
               /\ reserved = UNION {Staged[e] : e \in loaded}
               /\ \A e, f \in loaded : e # f => Staged[e] \cap Staged[f] = {}

\* A caller of Wait or Stop that is told the end of a run gets that run's result
\* (loop.go:301), unless the run was aborted or the Loop has been started again in between.
WaiterGetsItsResult ==
    [][\A c \in Callers : Return(c) =>
          LET r == onRun[c] IN exec[r] = "aborted" \/ lastErr[r[1]] = result[r]
                                 \/ prepared[r[1]] > r[2]]_vars

\* The Bot gives up a loop whose run is live only when its extension is unloaded, or to a
\* watchLoop or a StopLoop that was about an earlier run of the loop: StartLoop's promise that
\* "Managed loops are stopped by CloseContext" (loop.go:400-401) can be lost in no other way.
ForgottenOnlyByOlderRun ==
    [][\A r \in owned : (r[1] \in managed /\ r[1] \notin managed') =>
          \/ \E e \in loaded : e \notin loaded' /\ r[1] \in Staged[e]
          \/ \E q \in Runs : q[1] = r[1] /\ q[2] < r[2] /\ watcher[q] = "forget"
                                /\ watcher'[q] = "none"
          \/ \E c \in Callers : at[c] = "stopLoopForget" /\ onRun[c][1] = r[1]
                                /\ onRun[c][2] < r[2] /\ at'[c] = "idle"]_vars

=============================================================================
