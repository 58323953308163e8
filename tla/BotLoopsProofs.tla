--------------------------- MODULE BotLoopsProofs ---------------------------
(***************************************************************************)
(* Theorems about the bot's task loops, for any loops, extensions that share  *)
(* loops, callers and number of runs: when Bot.mu is free every extension is  *)
(* loaded whole or not at all, a waiter gets the result of its run, and the    *)
(* Bot forgets a live run only as its methods and its watchers may.          *)
(***************************************************************************)
EXTENDS BotLoops, TLAPS

LiveExec == {"prepared", "launched", "task", "wait", "finish"}
Ended == {"over", "aborted"}

(* The runs of the loops.                                                   *)
RunTypes ==
    /\ running \in [Loops -> BOOLEAN]
    /\ done \in [Loops -> Nat] /\ prepared \in [Loops -> Nat]
    /\ \A l \in Loops : done[l] \in 0..prepared[l] /\ prepared[l] \in 0..MaxRuns[l]
    /\ lastErr \in [Loops -> {"nil", "err"}] /\ result \in [Runs -> {"nil", "err"}]
    /\ prev \in [Loops -> [done : Nat, err : {"nil", "err"}]]
    /\ exec \in [Runs -> LiveExec \cup Ended \cup {"none"}]
    /\ owned \subseteq Runs

\* A loop that runs is at its newest run, which is not over; no other run of it is live.
\* What abort gives back is an earlier run.
RunInv ==
    /\ \A r \in Runs : exec[r] = "none" <=> prepared[r[1]] < r[2]
    /\ \A r \in Runs : exec[r] \in LiveExec <=> running[r[1]] /\ Cur(r[1]) = r
    /\ \A l \in Loops : /\ running[l] => done[l] = prepared[l] /\ done[l] # 0
                        /\ prev[l].done <= prepared[l]
    /\ \A r \in owned : exec[r] \in LiveExec
    /\ \A r \in Runs : (exec[r] = "over" /\ r[2] = prepared[r[1]]) => lastErr[r[1]] = result[r]

(* The goroutines of watchLoop: each waits for its own run or a later one.      *)
WatchOf(r, place, waitsFor) ==
    /\ place = "spawned" =>
          /\ r[2] <= done[r[1]]
          /\ exec[Cur(r[1])] = "prepared" => r[2] <= prev[r[1]].done
    /\ place \in {"waiting", "forget"} => waitsFor \in r[2]..prepared[r[1]]
    /\ place = "forget" => Over(<<r[1], waitsFor>>)

WatchInv ==
    /\ watcher \in [Runs -> {"none", "spawned", "waiting", "forget"}]
    /\ watching \in [Runs -> Nat]
    /\ \A r \in Runs : WatchOf(r, watcher[r], watching[r])

(* The callers.                                                             *)
CallPlaces ==
    {"idle", "waiting", "stopLoop", "stopLoopWait", "stopLoopCheck", "stopLoopForget",
     "commit", "abort", "stopAll", "stopAllWait", "closeAll", "closeAllWait"}

HasRun ==
    {"waiting", "stopLoop", "stopLoopWait", "stopLoopCheck", "stopLoopForget", "stopAllWait",
     "closeAllWait"}

CallTypes ==
    /\ at \in [Callers -> CallPlaces] /\ onRun \in [Callers -> {NoRun} \cup (Loops \X Nat)]
    /\ todo \in [Callers -> SUBSET Loops] /\ names \in [Callers -> SUBSET Extensions]
    /\ snapshot \in [Callers -> SUBSET Loops]

\* A caller waits for a run that was made; StopLoop saw the run that it is about over.
CallOf(place, r) ==
    /\ place = "waiting" => r \in Runs
    /\ place \in HasRun => r \in Loops \X Nat /\ r[2] <= prepared[r[1]]
    /\ place = "stopLoopForget" => ~running[r[1]] \/ r[2] < prepared[r[1]]

CallInv == \A c \in Callers : CallOf(at[c], onRun[c])

(* The registry.                                                            *)
BotTypes ==
    /\ managed \subseteq Loops /\ reserved \subseteq Loops /\ loaded \subseteq Extensions
    /\ botMu \in Callers \cup {NoCaller}

\* Loops are reserved for the loaded extensions, one each.
Reservations ==
    /\ reserved = UNION {Staged[e] : e \in loaded}
    /\ \A e, f \in loaded : e # f => Staged[e] \cap Staged[f] = {}

\* A run is prepared only by the caller inside commitExtension, which has prepared the loops
\* of its extension that are not to do any more, and none that another one has reserved.
CommitInv ==
    /\ \A c \in Callers : at[c] \in {"commit", "abort"} <=> botMu = c
    /\ \A r \in Runs : exec[r] = "prepared" =>
          \E c \in Callers : botMu = c /\ r[1] \notin reserved
    /\ \A c \in Callers : at[c] = "commit" =>
          \E e \in Extensions \ loaded :
              /\ names[c] = {e} /\ todo[c] \subseteq Staged[e]
              /\ \A l \in Staged[e] \ todo[c] : running[l] /\ exec[Cur(l)] = "prepared"
              /\ \A r \in Runs : exec[r] = "prepared" => r[1] \in Staged[e]

BotInv ==
    /\ RunTypes /\ RunInv /\ WatchInv /\ CallTypes /\ CallInv
    /\ BotTypes /\ Reservations /\ CommitInv

-----------------------------------------------------------------------------
(* What a step does to the runs.                                            *)

LEMMA RunsAre ==
  /\ \A r \in Runs : /\ r[1] \in Loops /\ r[2] \in Nat \ {0} /\ r[2] <= MaxRuns[r[1]]
                     /\ r = <<r[1], r[2]>>
  /\ \A l \in Loops : \A i \in Nat \ {0} : i <= MaxRuns[l] => <<l, i>> \in Runs
  /\ \A l \in Loops : MaxRuns[l] \in Nat
BY BotLoopsAssumption DEF Runs

RunsKept == UNCHANGED <<loopVars, exec, owned, result>>

Advances(r) ==
    /\ exec[r] \in {"launched", "task", "wait"}
    /\ \E to \in {"task", "wait", "finish"} : exec' = [exec EXCEPT ![r] = to]
    /\ UNCHANGED <<loopVars, owned>>
    /\ result' = result \/ \E res \in {"nil", "err"} : result' = [result EXCEPT ![r] = res]

Finishes(r) ==
    /\ exec[r] = "finish"
    /\ exec' = [exec EXCEPT ![r] = "over"]
    /\ lastErr' = [lastErr EXCEPT ![r[1]] = result[r]]
    /\ running' = [running EXCEPT ![r[1]] = FALSE]
    /\ owned' = owned \ {r}
    /\ UNCHANGED <<done, prepared, prev, result>>

Publishes ==
    /\ exec' = [r \in Runs |-> IF exec[r] = "prepared" THEN "launched" ELSE exec[r]]
    /\ prev' = [l \in Loops |-> Fresh]
    /\ UNCHANGED <<running, done, lastErr, prepared, owned, result>>

Prepares ==
    \E l \in Loops, to \in {"launched", "prepared"}, parent \in {"bot", "user"} :
        Prepare(l, to, parent)

Aborts == \E l \in PreparedLoops : Abort(l) /\ UNCHANGED result

RunEffect ==
    \/ RunsKept \/ Prepares \/ Aborts \/ Publishes
    \/ \E r \in Runs : Advances(r) \/ Finishes(r)

LEMMA GoroutineEffect ==
  ASSUME NEW r \in Runs, RunStep(r)
  PROVE  Advances(r) \/ Finishes(r)
<1> USE DEF Moves, Returns, loopVars
<1>1. CASE Enter(r)
  BY <1>1 DEF Enter, Advances
<1>2. CASE Iterate(r)
  BY <1>2 DEF Iterate, Advances
<1>3. CASE Timer(r)
  BY <1>3 DEF Timer, Advances
<1>4. CASE WaitStopped(r) \/ WaitCancelled(r)
  BY <1>4 DEF WaitStopped, WaitCancelled, Advances
<1>5. CASE Finish(r)
  BY <1>5 DEF Finish, Finishes
<1>6. QED
  BY <1>1, <1>2, <1>3, <1>4, <1>5 DEF RunStep

LEMMA CallEffect ==
  ASSUME NEW c \in Callers, CallStep(c)
  PROVE  RunEffect
<1> USE DEF RunsKept, RunEffect, loopVars, runVars
<1>1. CASE Return(c) \/ StopLoopWait(c) \/ StopLoopCheck(c) \/ StopLoopForget(c)
  BY <1>1 DEF Return, StopLoopWait, StopLoopCheck, StopLoopForget
<1>2. CASE StopLoopStop(c)
  BY <1>2 DEF StopLoopStop, CloseStop
<1>3. ASSUME NEW l \in Loops, CommitPrepare(c, l) PROVE RunEffect
  BY <1>3 DEF CommitPrepare, Prepares
<1>4. ASSUME NEW l \in Loops, CommitRefuse(c, l) PROVE RunEffect
  BY <1>4 DEF CommitRefuse
<1>5. ASSUME NEW l \in Loops, StopNext(c, l) PROVE RunEffect
  BY <1>5 DEF StopNext, CloseStop
<1>6. CASE CommitAbort(c)
  BY <1>6 DEF CommitAbort, Aborts
<1>7. CASE CommitPublish(c)
  BY <1>7 DEF CommitPublish, Publishes
<1>8. CASE StopNextEnds(c) \/ UnloadEnds(c)
  BY <1>8 DEF StopNextEnds, UnloadEnds
<1>9. ASSUME NEW e \in Extensions, CloseUnload(c, e) PROVE RunEffect
  BY <1>9 DEF CloseUnload
<1>10. CASE CloseLoops(c) \/ CloseEnds(c)
  BY <1>10 DEF CloseLoops, CloseEnds
<1>11. QED
  BY <1>1, <1>2, <1>3, <1>4, <1>5, <1>6, <1>7, <1>8, <1>9, <1>10 DEF CallStep

LEMMA StepEffect ==
  ASSUME [Next]_vars
  PROVE  RunEffect
<1> USE DEF RunsKept, RunEffect, loopVars, runVars
<1>1. ASSUME NEW r \in Runs, RunStep(r) PROVE RunEffect
  BY <1>1, GoroutineEffect
<1>2. ASSUME NEW r \in Runs, WatchStep(r) PROVE RunEffect
  BY <1>2 DEF WatchStep, Watch, WatchEnds, Forget
<1>3. ASSUME NEW c \in Callers, CallStep(c) PROVE RunEffect
  BY <1>3, CallEffect
<1>4. ASSUME NEW c \in Callers, Calls(c) PROVE RunEffect
  BY <1>4 DEF Calls, Stop, Wait, StopLoop, GiveUp, Load, Unload, Close, CloseStop
<1>5. ASSUME NEW l \in Loops, Start(l) \/ StartLoop(l) PROVE RunEffect
  BY <1>5 DEF Start, StartLoop, Prepares
<1>6. ASSUME NEW l \in Loops, Cancel(l) PROVE RunEffect
  BY <1>6 DEF Cancel
<1>7. CASE UNCHANGED vars
  BY <1>7 DEF vars
<1>8. QED
  BY <1>1, <1>2, <1>3, <1>4, <1>5, <1>6, <1>7 DEF Next

-----------------------------------------------------------------------------
(* The runs.                                                                *)

LEMMA PrepareRun ==
  ASSUME RunTypes, RunInv, NEW l \in Loops, NEW to \in {"launched", "prepared"},
         NEW parent, Prepare(l, to, parent)
  PROVE  RunTypes' /\ RunInv'
<1> DEFINE n == prepared[l] + 1
           q == <<l, n>>
<1>1. /\ n \in Nat \ {0} /\ n <= MaxRuns[l] /\ q \in Runs /\ q[1] = l /\ q[2] = n
      /\ ~running[l] /\ exec[q] = "none" /\ MaxRuns[l] \in Nat
  BY RunsAre DEF Prepare, Preparable, RunTypes, RunInv
<1>2. /\ prepared' = [prepared EXCEPT ![l] = n] /\ done' = [done EXCEPT ![l] = n]
      /\ running' = [running EXCEPT ![l] = TRUE] /\ lastErr' = [lastErr EXCEPT ![l] = "nil"]
      /\ exec' = [exec EXCEPT ![q] = to]
      /\ owned' \subseteq owned \cup {q}
      /\ result' = [r \in Runs |-> IF r[1] = l THEN "nil" ELSE result[r]]
  BY DEF Prepare, RunTypes
<1>3. prev' \in [Loops -> [done : Nat, err : {"nil", "err"}]]
      /\ \A k \in Loops : prev'[k].done <= prepared'[k]
  <2>1. \/ prev' = [prev EXCEPT ![l] = Fresh]
        \/ prev' = [prev EXCEPT ![l] = [done |-> done[l], err |-> lastErr[l]]]
    BY DEF Prepare
  <2>2. /\ Fresh \in [done : Nat, err : {"nil", "err"}] /\ Fresh.done = 0
        /\ [done |-> done[l], err |-> lastErr[l]] \in [done : Nat, err : {"nil", "err"}]
        /\ done[l] <= n /\ done[l] \in Nat
    BY <1>1 DEF Fresh, RunTypes
  <2>3. \A k \in Loops : prev[k].done \in Nat /\ prev[k].done <= prepared[k]
                         /\ prepared[k] \in Nat
    BY DEF RunTypes, RunInv
  <2>4. \A k \in Loops : prepared'[k] = IF k = l THEN n ELSE prepared[k]
    BY <1>2 DEF RunTypes
  <2>5. CASE prev' = [prev EXCEPT ![l] = Fresh]
    BY <1>1, <2>2, <2>3, <2>4, <2>5 DEF RunTypes
  <2>6. CASE prev' = [prev EXCEPT ![l] = [done |-> done[l], err |-> lastErr[l]]]
    BY <1>1, <2>2, <2>3, <2>4, <2>6 DEF RunTypes
  <2>7. QED
    BY <2>1, <2>5, <2>6
<1> HIDE DEF n
<1>4. RunTypes'
  <2>1. /\ running' \in [Loops -> BOOLEAN] /\ done' \in [Loops -> Nat]
        /\ prepared' \in [Loops -> Nat] /\ lastErr' \in [Loops -> {"nil", "err"}]
        /\ result' \in [Runs -> {"nil", "err"}]
        /\ exec' \in [Runs -> LiveExec \cup Ended \cup {"none"}] /\ owned' \subseteq Runs
    BY <1>1, <1>2 DEF RunTypes, LiveExec
  <2>2. \A k \in Loops : done'[k] \in 0..prepared'[k] /\ prepared'[k] \in 0..MaxRuns[k]
    BY <1>1, <1>2, RunsAre DEF RunTypes
  <2>3. QED
    BY <1>3, <2>1, <2>2 DEF RunTypes
<1>5. ASSUME NEW r \in Runs
      PROVE  /\ exec'[r] = IF r = q THEN to ELSE exec[r]
             /\ r[1] \in Loops /\ r[2] \in Nat \ {0} /\ r = <<r[1], r[2]>>
             /\ prepared'[r[1]] = IF r[1] = l THEN n ELSE prepared[r[1]]
             /\ prepared[r[1]] \in Nat
             /\ running'[r[1]] = IF r[1] = l THEN TRUE ELSE running[r[1]]
             /\ Cur(r[1])' = IF r[1] = l THEN q ELSE Cur(r[1])
             /\ (r[1] = l /\ r[2] = n) <=> r = q
  BY <1>1, <1>2, RunsAre DEF RunTypes, Cur
<1> HIDE DEF q
<1>6. \A r \in Runs : exec'[r] = "none" <=> prepared'[r[1]] < r[2]
  <2> SUFFICES ASSUME NEW r \in Runs PROVE exec'[r] = "none" <=> prepared'[r[1]] < r[2]
    OBVIOUS
  <2>1. exec[r] = "none" <=> prepared[r[1]] < r[2]
    BY DEF RunInv
  <2>2. n = prepared[l] + 1
    BY DEF n
  <2>3. CASE r = q
    <3>1. exec'[r] = to /\ prepared'[r[1]] = n /\ r[2] = n /\ to # "none"
      BY <1>1, <1>5, <2>3
    <3>2. QED
      BY <1>1, <3>1
  <2>4. CASE r # q /\ r[1] = l
    <3>1. /\ r[2] # n /\ r[2] \in Nat /\ prepared[l] \in Nat
          /\ exec'[r] = exec[r] /\ prepared'[r[1]] = n
      BY <1>5, <2>4
    <3>2. prepared[l] < r[2] <=> n < r[2]
      BY <2>2, <3>1
    <3>3. QED
      BY <2>1, <2>4, <3>1, <3>2
  <2>5. CASE r[1] # l
    BY <1>1, <1>5, <2>1, <2>5
  <2>6. QED
    BY <2>3, <2>4, <2>5
<1>7. \A r \in Runs : exec'[r] \in LiveExec <=> running'[r[1]] /\ Cur(r[1])' = r
  <2> SUFFICES ASSUME NEW r \in Runs
               PROVE  exec'[r] \in LiveExec <=> running'[r[1]] /\ Cur(r[1])' = r
    OBVIOUS
  <2>1. exec[r] \in LiveExec <=> running[r[1]] /\ Cur(r[1]) = r
    BY DEF RunInv
  <2>2. to \in LiveExec
    BY DEF LiveExec
  <2>3. CASE r = q
    <3>1. exec'[r] = to /\ running'[r[1]] = TRUE /\ Cur(r[1])' = q
      BY <1>1, <1>5, <2>3
    <3>2. QED
      BY <2>2, <2>3, <3>1
  <2>4. CASE r # q /\ r[1] = l
    <3>1. exec'[r] = exec[r] /\ Cur(r[1])' = q /\ ~running[r[1]]
      BY <1>1, <1>5, <2>4
    <3>2. QED
      BY <2>1, <2>4, <3>1
  <2>5. CASE r[1] # l
    BY <1>1, <1>5, <2>1, <2>5
  <2>6. QED
    BY <2>3, <2>4, <2>5
<1>8. \A k \in Loops : running'[k] => done'[k] = prepared'[k] /\ done'[k] # 0
  BY <1>1, <1>2 DEF RunTypes, RunInv
<1>9. \A r \in owned' : exec'[r] \in LiveExec
  BY <1>1, <1>2, <1>5 DEF RunTypes, RunInv, LiveExec
<1>10. \A r \in Runs : (exec'[r] = "over" /\ r[2] = prepared'[r[1]]) => lastErr'[r[1]] = result'[r]
  <2> SUFFICES ASSUME NEW r \in Runs, exec'[r] = "over", r[2] = prepared'[r[1]]
               PROVE  lastErr'[r[1]] = result'[r]
    OBVIOUS
  <2>1. r # q /\ r[1] # l
    BY <1>5
  <2>2. QED
    BY <1>2, <1>5, <2>1 DEF RunTypes, RunInv
<1>11. QED
  BY <1>3, <1>4, <1>6, <1>7, <1>8, <1>9, <1>10 DEF RunInv

LEMMA AbortRun ==
  ASSUME RunTypes, RunInv, NEW l \in PreparedLoops, Abort(l), UNCHANGED result
  PROVE  RunTypes' /\ RunInv'
<1>1. /\ l \in Loops /\ done[l] # 0 /\ exec[Cur(l)] = "prepared"
      /\ done[l] \in Nat /\ prepared[l] \in Nat /\ done[l] <= prepared[l]
      /\ prepared[l] <= MaxRuns[l] /\ MaxRuns[l] \in Nat
  BY RunsAre DEF PreparedLoops, RunTypes
<1>2. Cur(l) \in Runs
  BY <1>1, RunsAre DEF Cur
<1>3. running[l] /\ done[l] = prepared[l]
  BY <1>1, <1>2, RunsAre DEF RunInv, LiveExec, Cur
<1> DEFINE q == Cur(l)
<1>4. /\ running' = [running EXCEPT ![l] = FALSE] /\ done' = [done EXCEPT ![l] = prev[l].done]
      /\ lastErr' = [lastErr EXCEPT ![l] = prev[l].err] /\ prev' = [prev EXCEPT ![l] = Fresh]
      /\ exec' = [exec EXCEPT ![q] = "aborted"] /\ owned' = owned \ {q}
      /\ UNCHANGED <<prepared, result>>
  BY DEF Abort
<1>5. /\ Fresh \in [done : Nat, err : {"nil", "err"}] /\ Fresh.done = 0
      /\ prev[l].done \in Nat /\ prev[l].err \in {"nil", "err"} /\ prev[l].done <= prepared[l]
  BY <1>1 DEF Fresh, RunTypes, RunInv
<1>6. RunTypes'
  <2>1. /\ running' \in [Loops -> BOOLEAN] /\ done' \in [Loops -> Nat]
        /\ lastErr' \in [Loops -> {"nil", "err"}]
        /\ prev' \in [Loops -> [done : Nat, err : {"nil", "err"}]]
    BY <1>4, <1>5 DEF RunTypes
  <2>2. exec' \in [Runs -> LiveExec \cup Ended \cup {"none"}]
    BY <1>4 DEF RunTypes, Ended
  <2>3. \A k \in Loops : done'[k] \in 0..prepared[k]
    BY <1>1, <1>4, <1>5 DEF RunTypes
  <2>4. QED
    BY <1>4, <2>1, <2>2, <2>3 DEF RunTypes
<1>7. ASSUME NEW r \in Runs
      PROVE  /\ exec'[r] = IF r = q THEN "aborted" ELSE exec[r]
             /\ r[1] \in Loops /\ r = <<r[1], r[2]>>
             /\ r[1] = l => running'[r[1]] = FALSE
             /\ r[1] # l => running'[r[1]] = running[r[1]] /\ Cur(r[1])' = Cur(r[1])
                            /\ lastErr'[r[1]] = lastErr[r[1]]
             /\ (r[1] = l /\ r[2] = prepared[l]) <=> r = q
  <2>1. r[1] \in Loops /\ r = <<r[1], r[2]>> /\ q = <<l, prepared[l]>>
    BY <1>3, RunsAre DEF Cur
  <2>2. exec'[r] = IF r = q THEN "aborted" ELSE exec[r]
    BY <1>2, <1>4 DEF RunTypes
  <2>3. r[1] = l => running'[r[1]] = FALSE
    BY <1>1, <1>4 DEF RunTypes
  <2>4. r[1] # l => running'[r[1]] = running[r[1]] /\ Cur(r[1])' = Cur(r[1])
                   /\ lastErr'[r[1]] = lastErr[r[1]]
    BY <1>1, <1>4, <2>1 DEF RunTypes, Cur
  <2> HIDE DEF q
  <2>5. (r[1] = l /\ r[2] = prepared[l]) <=> r = q
    BY <2>1
  <2>6. QED
    BY <2>1, <2>2, <2>3, <2>4, <2>5
<1>8. q \in Runs /\ q[1] = l
  BY <1>2 DEF Cur
<1> HIDE DEF q
<1>9. \A r \in Runs : exec'[r] = "none" <=> prepared'[r[1]] < r[2]
  <2> SUFFICES ASSUME NEW r \in Runs PROVE exec'[r] = "none" <=> prepared[r[1]] < r[2]
    BY <1>4
  <2>1. exec[q] = "prepared" /\ (exec[r] = "none" <=> prepared[r[1]] < r[2])
    BY <1>1 DEF RunInv, q
  <2>2. exec'[r] = "none" <=> exec[r] = "none"
    BY <1>7, <2>1
  <2>3. QED
    BY <2>1, <2>2
<1>10. \A r \in Runs : exec'[r] \in LiveExec <=> running'[r[1]] /\ Cur(r[1])' = r
  <2> SUFFICES ASSUME NEW r \in Runs
               PROVE  exec'[r] \in LiveExec <=> running'[r[1]] /\ Cur(r[1])' = r
    OBVIOUS
  <2>1. exec[r] \in LiveExec <=> running[r[1]] /\ Cur(r[1]) = r
    BY DEF RunInv
  <2>2. CASE r = q
    BY <1>7, <1>8, <2>2 DEF LiveExec
  <2>3. CASE r # q /\ r[1] = l
    <3>1. exec[r] \notin LiveExec
      BY <2>1, <2>3 DEF q
    <3>2. QED
      BY <1>7, <2>3, <3>1
  <2>4. CASE r[1] # l
    <3>1. exec'[r] = exec[r] /\ running'[r[1]] = running[r[1]] /\ Cur(r[1])' = Cur(r[1])
      BY <1>7, <1>8, <2>4
    <3>2. QED
      BY <2>1, <3>1
  <2>5. QED
    BY <2>2, <2>3, <2>4
<1>11. \A k \in Loops : /\ running'[k] => done'[k] = prepared'[k] /\ done'[k] # 0
                        /\ prev'[k].done <= prepared'[k]
  BY <1>1, <1>4, <1>5 DEF RunTypes, RunInv
<1>12. \A r \in owned' : exec'[r] \in LiveExec
  BY <1>4, <1>7 DEF RunTypes, RunInv
<1>13. \A r \in Runs : (exec'[r] = "over" /\ r[2] = prepared'[r[1]]) => lastErr'[r[1]] = result'[r]
  <2> SUFFICES ASSUME NEW r \in Runs, exec'[r] = "over", r[2] = prepared[r[1]]
               PROVE  lastErr'[r[1]] = result[r]
    BY <1>4
  <2>1. r # q /\ r[1] # l
    BY <1>7
  <2>2. QED
    BY <1>7, <2>1 DEF RunInv
<1>14. QED
  BY <1>6, <1>9, <1>10, <1>11, <1>12, <1>13 DEF RunInv

LEMMA AdvanceRun ==
  ASSUME RunTypes, RunInv, NEW q \in Runs, Advances(q)
  PROVE  RunTypes' /\ RunInv'
<1>1. PICK to \in {"task", "wait", "finish"} : exec' = [exec EXCEPT ![q] = to]
  BY DEF Advances
<1>2. /\ exec[q] \in LiveExec \ {"prepared"} /\ to \in LiveExec
      /\ UNCHANGED <<running, done, lastErr, prepared, prev, owned>>
      /\ result' = result \/ \E res \in {"nil", "err"} : result' = [result EXCEPT ![q] = res]
  BY <1>1 DEF Advances, LiveExec, loopVars
<1>3. \A r \in Runs : /\ exec'[r] = IF r = q THEN to ELSE exec[r]
                      /\ r # q => result'[r] = result[r]
  BY <1>1, <1>2 DEF RunTypes
<1>4. RunTypes'
  <2>1. exec' \in [Runs -> LiveExec \cup Ended \cup {"none"}]
        /\ result' \in [Runs -> {"nil", "err"}]
    BY <1>1, <1>2 DEF RunTypes
  <2>2. QED
    BY <1>2, <2>1 DEF RunTypes
<1>5. RunInv'
  <2>1. ASSUME NEW r \in Runs
        PROVE  /\ exec'[r] = "none" <=> exec[r] = "none"
               /\ exec'[r] \in LiveExec <=> exec[r] \in LiveExec
               /\ exec'[r] = "over" => exec[r] = "over" /\ result'[r] = result[r]
    <3>1. CASE r = q
      <4>1. exec'[r] = to /\ exec[r] \in LiveExec /\ to # "none" /\ to # "over"
        BY <1>2, <1>3, <3>1
      <4>2. QED
        BY <1>2, <4>1 DEF LiveExec
    <3>2. CASE r # q
      <4>1. exec'[r] = exec[r] /\ result'[r] = result[r]
        BY <1>3, <3>2
      <4>2. QED
        BY <4>1
    <3>3. QED
      BY <3>1, <3>2
  <2>2. \A l \in Loops : Cur(l)' = Cur(l)
    BY <1>2 DEF Cur
  <2>3. \A r \in Runs : /\ exec'[r] = "none" <=> prepared'[r[1]] < r[2]
                        /\ exec'[r] \in LiveExec <=> running'[r[1]] /\ Cur(r[1])' = r
    BY <1>2, <2>1, <2>2, RunsAre DEF RunInv
  <2>4. /\ \A r \in owned' : exec'[r] \in LiveExec
        /\ \A r \in Runs : (exec'[r] = "over" /\ r[2] = prepared'[r[1]])
                              => lastErr'[r[1]] = result'[r]
    BY <1>2, <2>1 DEF RunTypes, RunInv
  <2>5. \A l \in Loops : /\ running'[l] => done'[l] = prepared'[l] /\ done'[l] # 0
                         /\ prev'[l].done <= prepared'[l]
    BY <1>2 DEF RunInv
  <2>6. QED
    BY <2>3, <2>4, <2>5 DEF RunInv
<1>6. QED
  BY <1>4, <1>5

LEMMA FinishRun ==
  ASSUME RunTypes, RunInv, NEW q \in Runs, Finishes(q)
  PROVE  RunTypes' /\ RunInv'
<1>1. /\ exec[q] = "finish" /\ exec' = [exec EXCEPT ![q] = "over"]
      /\ lastErr' = [lastErr EXCEPT ![q[1]] = result[q]]
      /\ running' = [running EXCEPT ![q[1]] = FALSE] /\ owned' = owned \ {q}
      /\ UNCHANGED <<done, prepared, prev, result>>
  BY DEF Finishes
<1>2. /\ q[1] \in Loops /\ running[q[1]] /\ Cur(q[1]) = q
      /\ done[q[1]] = prepared[q[1]]
  BY <1>1, RunsAre DEF RunInv, LiveExec
<1>3. \A r \in Runs :
         /\ exec'[r] = IF r = q THEN "over" ELSE exec[r]
         /\ r[1] \in Loops /\ r = <<r[1], r[2]>>
         /\ r[1] = q[1] => running'[r[1]] = FALSE /\ lastErr'[r[1]] = result[q]
         /\ r[1] # q[1] => running'[r[1]] = running[r[1]] /\ lastErr'[r[1]] = lastErr[r[1]]
         /\ (r[1] = q[1] /\ r[2] = prepared[q[1]]) <=> r = q
  <2> TAKE r \in Runs
  <2>1. r[1] \in Loops /\ r = <<r[1], r[2]>> /\ q = <<q[1], prepared[q[1]]>>
    BY <1>2, RunsAre DEF Cur
  <2>2. exec'[r] = IF r = q THEN "over" ELSE exec[r]
    BY <1>1 DEF RunTypes
  <2>3. /\ r[1] = q[1] => running'[r[1]] = FALSE /\ lastErr'[r[1]] = result[q]
        /\ r[1] # q[1] => running'[r[1]] = running[r[1]] /\ lastErr'[r[1]] = lastErr[r[1]]
    BY <1>1, <1>2, <2>1 DEF RunTypes
  <2>4. (r[1] = q[1] /\ r[2] = prepared[q[1]]) <=> r = q
    BY <2>1
  <2>5. QED
    BY <2>1, <2>2, <2>3, <2>4
<1>4. RunTypes'
  <2>1. /\ exec' \in [Runs -> LiveExec \cup Ended \cup {"none"}] /\ owned' \subseteq Runs
        /\ running' \in [Loops -> BOOLEAN] /\ lastErr' \in [Loops -> {"nil", "err"}]
    BY <1>1 DEF RunTypes, Ended
  <2>2. QED
    BY <1>1, <2>1 DEF RunTypes
<1>5. \A r \in Runs : exec'[r] = "none" <=> prepared'[r[1]] < r[2]
  BY <1>1, <1>3 DEF RunInv
<1>6. \A r \in Runs : exec'[r] \in LiveExec <=> running'[r[1]] /\ Cur(r[1])' = r
  <2> SUFFICES ASSUME NEW r \in Runs
               PROVE  exec'[r] \in LiveExec <=> running'[r[1]] /\ Cur(r[1]) = r
    BY <1>1 DEF Cur
  <2>1. exec[r] \in LiveExec <=> running[r[1]] /\ Cur(r[1]) = r
    BY DEF RunInv
  <2>2. CASE r = q
    BY <1>3, <2>2 DEF LiveExec
  <2>3. CASE r # q /\ r[1] = q[1]
    BY <1>2, <1>3, <2>1, <2>3
  <2>4. CASE r[1] # q[1]
    <3>1. exec'[r] = exec[r] /\ running'[r[1]] = running[r[1]]
      BY <1>3, <2>4
    <3>2. QED
      BY <2>1, <3>1
  <2>5. QED
    BY <2>2, <2>3, <2>4
<1>7. \A k \in Loops : /\ running'[k] => done'[k] = prepared'[k] /\ done'[k] # 0
                       /\ prev'[k].done <= prepared'[k]
  BY <1>1 DEF RunTypes, RunInv
<1>8. \A r \in owned' : exec'[r] \in LiveExec
  BY <1>1, <1>3 DEF RunTypes, RunInv
<1>9. \A r \in Runs : (exec'[r] = "over" /\ r[2] = prepared'[r[1]]) => lastErr'[r[1]] = result'[r]
  <2> SUFFICES ASSUME NEW r \in Runs, exec'[r] = "over", r[2] = prepared[r[1]]
               PROVE  lastErr'[r[1]] = result[r]
    BY <1>1
  <2>1. CASE r[1] = q[1]
    <3>1. r = q /\ lastErr'[r[1]] = result[q]
      BY <1>3, <2>1
    <3>2. QED
      BY <3>1
  <2>2. CASE r[1] # q[1]
    <3>1. exec[r] = "over" /\ lastErr'[r[1]] = lastErr[r[1]]
      BY <1>3, <2>2
    <3>2. QED
      BY <3>1 DEF RunInv
  <2>3. QED
    BY <2>1, <2>2
<1>10. QED
  BY <1>4, <1>5, <1>6, <1>7, <1>8, <1>9 DEF RunInv

LEMMA PublishRuns ==
  ASSUME RunTypes, RunInv, Publishes
  PROVE  RunTypes' /\ RunInv'
<1>1. /\ \A r \in Runs : exec'[r] = IF exec[r] = "prepared" THEN "launched" ELSE exec[r]
      /\ exec' = [r \in Runs |-> IF exec[r] = "prepared" THEN "launched" ELSE exec[r]]
      /\ \A l \in Loops : prev'[l].done = 0
      /\ prev' \in [Loops -> [done : Nat, err : {"nil", "err"}]]
      /\ UNCHANGED <<running, done, lastErr, prepared, owned, result>>
  BY DEF Publishes, Fresh
<1>2. RunTypes'
  <2>1. exec' \in [Runs -> LiveExec \cup Ended \cup {"none"}]
    BY <1>1 DEF RunTypes, LiveExec
  <2>2. QED
    BY <1>1, <2>1 DEF RunTypes
<1>3. RunInv'
  <2>1. ASSUME NEW r \in Runs
        PROVE  /\ exec'[r] = "none" <=> exec[r] = "none"
               /\ exec'[r] \in LiveExec <=> exec[r] \in LiveExec
               /\ exec'[r] = "over" <=> exec[r] = "over"
    <3>1. CASE exec[r] = "prepared"
      BY <1>1, <3>1 DEF LiveExec
    <3>2. CASE exec[r] # "prepared"
      BY <1>1, <3>2
    <3>3. QED
      BY <3>1, <3>2
  <2>2. \A l \in Loops : Cur(l)' = Cur(l)
    BY <1>1 DEF Cur
  <2>3. \A r \in Runs : /\ exec'[r] = "none" <=> prepared'[r[1]] < r[2]
                        /\ exec'[r] \in LiveExec <=> running'[r[1]] /\ Cur(r[1])' = r
    BY <1>1, <2>1, <2>2, RunsAre DEF RunInv
  <2>4. /\ \A r \in owned' : exec'[r] \in LiveExec
        /\ \A r \in Runs : (exec'[r] = "over" /\ r[2] = prepared'[r[1]])
                              => lastErr'[r[1]] = result'[r]
    BY <1>1, <2>1 DEF RunTypes, RunInv
  <2>5. \A l \in Loops : /\ running'[l] => done'[l] = prepared'[l] /\ done'[l] # 0
                         /\ prev'[l].done <= prepared'[l]
    BY <1>1 DEF RunTypes, RunInv
  <2>6. QED
    BY <2>3, <2>4, <2>5 DEF RunInv
<1>4. QED
  BY <1>2, <1>3

LEMMA RunInvStep ==
  ASSUME RunTypes, RunInv, RunEffect
  PROVE  RunTypes' /\ RunInv'
<1>1. CASE RunsKept
  BY <1>1 DEF RunsKept, loopVars, RunTypes, RunInv, Cur
<1>2. CASE Prepares
  BY <1>2, PrepareRun DEF Prepares
<1>3. QED
  BY <1>1, <1>2, AbortRun, AdvanceRun, FinishRun, PublishRuns DEF RunEffect, Aborts

\* Runs are made one after the other and stay over, and a loop that runs without a new run
\* did so before.
Progress ==
    /\ \A l \in Loops : /\ prepared[l] <= prepared'[l]
                        /\ running'[l] /\ prepared'[l] = prepared[l] => running[l]
    /\ \A r \in Runs : Over(r) => Over(r)'

LEMMA RunProgress ==
  ASSUME RunTypes, RunInv, RunEffect
  PROVE  Progress
<1>1. CASE RunsKept
  BY <1>1 DEF RunsKept, loopVars, RunTypes, Progress, Over
<1>2. ASSUME NEW l \in Loops, NEW to \in {"launched", "prepared"}, NEW parent,
             Prepare(l, to, parent)
      PROVE  Progress
  <2>1. /\ prepared' = [prepared EXCEPT ![l] = @ + 1]
        /\ running' = [running EXCEPT ![l] = TRUE]
        /\ exec' = [exec EXCEPT ![<<l, prepared[l] + 1>>] = to]
    BY <1>2 DEF Prepare
  <2>2. /\ <<l, prepared[l] + 1>> \in Runs /\ exec[<<l, prepared[l] + 1>>] = "none"
    BY <1>2, RunsAre DEF Prepare, Preparable, RunTypes, RunInv
  <2>3. QED
    BY <2>1, <2>2 DEF RunTypes, Progress, Over
<1>3. ASSUME NEW l \in PreparedLoops, Abort(l) PROVE Progress
  <2>1. /\ running' = [running EXCEPT ![l] = FALSE] /\ prepared' = prepared
        /\ exec' = [exec EXCEPT ![Cur(l)] = "aborted"]
    BY <1>3 DEF Abort
  <2>2. QED
    BY <2>1 DEF RunTypes, Progress, Over, PreparedLoops
<1>4. ASSUME NEW q \in Runs, Advances(q) PROVE Progress
  BY <1>4 DEF Advances, loopVars, RunTypes, Progress, Over
<1>5. ASSUME NEW q \in Runs, Finishes(q) PROVE Progress
  <2>1. q[1] \in Loops
    BY RunsAre
  <2>2. QED
    BY <1>5, <2>1 DEF Finishes, RunTypes, Progress, Over
<1>6. CASE Publishes
  BY <1>6 DEF Publishes, RunTypes, Progress, Over
<1>7. QED
  BY <1>1, <1>2, <1>3, <1>4, <1>5, <1>6 DEF RunEffect, Prepares, Aborts

-----------------------------------------------------------------------------
(* The watchers.                                                            *)

LEMMA RunNumbers ==
  ASSUME RunTypes, NEW r \in Runs
  PROVE  /\ r[1] \in Loops /\ r[2] \in Nat \ {0} /\ r = <<r[1], r[2]>>
         /\ prepared[r[1]] \in Nat /\ MaxRuns[r[1]] \in Nat /\ prepared[r[1]] <= MaxRuns[r[1]]
         /\ done[r[1]] \in Nat /\ done[r[1]] <= prepared[r[1]]
<1>1. r[1] \in Loops /\ r[2] \in Nat \ {0} /\ r = <<r[1], r[2]>> /\ MaxRuns[r[1]] \in Nat
  BY RunsAre
<1>2. QED
  BY <1>1 DEF RunTypes

LEMMA WatchOfKept ==
  ASSUME RunTypes, RunInv, RunEffect, NEW r \in Runs, NEW place, NEW waitsFor \in Nat,
         WatchOf(r, place, waitsFor)
  PROVE  WatchOf(r, place, waitsFor)'
<1>1. Progress /\ RunTypes' /\ RunInv'
  BY RunProgress, RunInvStep
<1>3. ASSUME place = "spawned"
      PROVE  /\ r[2] <= done'[r[1]]
             /\ exec'[Cur(r[1])'] = "prepared" => r[2] <= prev'[r[1]].done
  <2> DEFINE k == r[1]
  <2>0. /\ k \in Loops /\ r[2] \in Nat \ {0} /\ r[2] <= done[k] /\ done[k] \in Nat
        /\ prepared[k] \in Nat /\ done[k] <= prepared[k]
        /\ exec[Cur(k)] = "prepared" => r[2] <= prev[k].done
        /\ Cur(k) = <<k, done[k]>> /\ Cur(k)' = <<k, done'[k]>> /\ Cur(k) \in Runs
    <3>1. r[2] <= done[k] /\ (exec[Cur(k)] = "prepared" => r[2] <= prev[k].done)
      BY <1>3 DEF WatchOf
    <3>2. /\ k \in Loops /\ r[2] \in Nat \ {0} /\ done[k] \in Nat /\ prepared[k] \in Nat
          /\ done[k] <= prepared[k] /\ prepared[k] <= MaxRuns[k] /\ MaxRuns[k] \in Nat
      BY RunNumbers
    <3>3. Cur(k) = <<k, done[k]>> /\ Cur(k)' = <<k, done'[k]>>
      BY DEF Cur
    <3>4. done[k] # 0 /\ done[k] <= MaxRuns[k]
      BY <3>1, <3>2
    <3>5. Cur(k) \in Runs
      BY <3>2, <3>3, <3>4, RunsAre
    <3>6. QED
      BY <3>1, <3>2, <3>3, <3>5
  <2>1. CASE RunsKept
    BY <2>0, <2>1 DEF RunsKept, loopVars
  <2>2. ASSUME NEW l \in Loops, NEW to \in {"launched", "prepared"}, NEW parent,
               Prepare(l, to, parent)
        PROVE  r[2] <= done'[k] /\ (exec'[Cur(k)'] = "prepared" => r[2] <= prev'[k].done)
    <3>1. /\ done' = [done EXCEPT ![l] = prepared[l] + 1]
          /\ exec' = [exec EXCEPT ![<<l, prepared[l] + 1>>] = to]
          /\ prev' = [prev EXCEPT ![l] = IF to = "prepared"
                                         THEN [done |-> done[l], err |-> lastErr[l]] ELSE Fresh]
      BY <2>2 DEF Prepare
    <3>2. CASE k = l
      <4>1. done'[k] = prepared[k] + 1 /\ r[2] <= done'[k]
        BY <2>0, <3>1, <3>2 DEF RunTypes
      <4>2. CASE to = "prepared"
        <5>1. prev'[k].done = done[k]
          BY <3>1, <3>2, <4>2 DEF RunTypes
        <5>2. QED
          BY <2>0, <4>1, <5>1
      <4>3. CASE to # "prepared"
        <5>1. <<l, prepared[l] + 1>> \in Runs
          <6>1. prepared[l] < MaxRuns[l] /\ prepared[l] \in Nat
            BY <2>2 DEF Prepare, Preparable, RunTypes
          <6>2. QED
            BY <6>1, RunsAre
        <5>2. exec'[Cur(k)'] = to
          BY <2>0, <3>1, <3>2, <4>1, <5>1 DEF RunTypes
        <5>3. QED
          BY <4>1, <4>3, <5>2
      <4>4. QED
        BY <4>2, <4>3
    <3>3. CASE k # l
      <4>1. done'[k] = done[k] /\ prev'[k] = prev[k]
        BY <3>1, <3>3, <2>0 DEF RunTypes
      <4>2. Cur(k)' = Cur(k) /\ Cur(k) # <<l, prepared[l] + 1>>
        BY <2>0, <3>3, <4>1
      <4>3. exec'[Cur(k)'] = exec[Cur(k)]
        BY <2>0, <3>1, <4>2 DEF RunTypes
      <4>4. QED
        BY <2>0, <4>1, <4>3
    <3>4. QED
      BY <3>2, <3>3
  <2>3. ASSUME NEW l \in PreparedLoops, Abort(l)
        PROVE  r[2] <= done'[k] /\ (exec'[Cur(k)'] = "prepared" => r[2] <= prev'[k].done)
    <3>1. /\ done' = [done EXCEPT ![l] = prev[l].done] /\ prev' = [prev EXCEPT ![l] = Fresh]
          /\ running' = [running EXCEPT ![l] = FALSE]
          /\ exec' = [exec EXCEPT ![Cur(l)] = "aborted"]
          /\ l \in Loops /\ exec[Cur(l)] = "prepared"
      BY <2>3 DEF Abort, PreparedLoops
    <3>2. CASE k = l
      <4>1. done'[k] = prev[k].done /\ r[2] <= done'[k] /\ ~running'[k]
        <5>1. done'[k] = prev[k].done /\ ~running'[k]
          BY <2>0, <3>1, <3>2 DEF RunTypes
        <5>2. QED
          BY <2>0, <3>1, <3>2, <5>1
      <4>2. <<k, done'[k]>> \in Runs
        <5>1. done'[k] \in 0..prepared'[k] /\ prepared'[k] \in 0..MaxRuns[k]
          BY <1>1, <2>0 DEF RunTypes
        <5>2. done'[k] \in Nat \ {0} /\ done'[k] <= MaxRuns[k]
          BY <2>0, <4>1, <5>1, RunsAre
        <5>3. QED
          BY <2>0, <5>2, RunsAre
      <4>3. exec'[Cur(k)'] \notin LiveExec
        <5>1. <<k, done'[k]>>[1] = k
          OBVIOUS
        <5>2. QED
          BY <1>1, <2>0, <4>1, <4>2, <5>1 DEF RunInv
      <4>4. QED
        BY <4>1, <4>3 DEF LiveExec
    <3>3. CASE k # l
      <4>1. done'[k] = done[k] /\ prev'[k] = prev[k]
        BY <3>1, <3>3, <2>0 DEF RunTypes
      <4>2. Cur(k)' = Cur(k) /\ Cur(k) # Cur(l)
        BY <2>0, <3>3, <4>1 DEF Cur
      <4>3. exec'[Cur(k)'] = exec[Cur(k)]
        BY <2>0, <3>1, <4>2 DEF RunTypes
      <4>4. QED
        BY <2>0, <4>1, <4>3
    <3>4. QED
      BY <3>2, <3>3
  <2>4. ASSUME NEW q \in Runs, Advances(q) \/ Finishes(q)
        PROVE  r[2] <= done'[k] /\ (exec'[Cur(k)'] = "prepared" => r[2] <= prev'[k].done)
    <3>1. /\ UNCHANGED <<done, prev>>
          /\ \E to \in {"task", "wait", "finish", "over"} : exec' = [exec EXCEPT ![q] = to]
      BY <2>4 DEF Advances, Finishes, loopVars
    <3>2. Cur(k) \in Runs /\ Cur(k)' = Cur(k)
      BY <2>0, <3>1
    <3>3. exec'[Cur(k)] = "prepared" => exec[Cur(k)] = "prepared"
      BY <3>1, <3>2 DEF RunTypes
    <3>4. QED
      BY <2>0, <3>1, <3>2, <3>3
  <2>5. CASE Publishes
    <3>1. done' = done /\ Cur(k)' = Cur(k) /\ Cur(k) \in Runs
      BY <2>0, <2>5 DEF Publishes
    <3>2. exec'[Cur(k)'] # "prepared"
      BY <2>5, <3>1 DEF Publishes
    <3>3. QED
      BY <2>0, <3>1, <3>2
  <2>6. QED
    BY <2>1, <2>2, <2>3, <2>4, <2>5 DEF RunEffect, Prepares, Aborts
<1>4. ASSUME place \in {"waiting", "forget"}
      PROVE  waitsFor \in r[2]..prepared'[r[1]]
  <2>1. waitsFor \in r[2]..prepared[r[1]]
    BY <1>4 DEF WatchOf
  <2>2. /\ prepared[r[1]] \in Nat /\ prepared'[r[1]] \in Nat /\ r[2] \in Nat
        /\ prepared[r[1]] <= prepared'[r[1]]
    BY <1>1, RunNumbers DEF Progress, RunTypes
  <2>3. QED
    BY <2>1, <2>2
<1>5. ASSUME place = "forget"
      PROVE  Over(<<r[1], waitsFor>>)'
  <2>1. /\ r[1] \in Loops /\ r[2] \in Nat \ {0} /\ waitsFor \in Nat
        /\ r[2] <= waitsFor /\ waitsFor <= prepared[r[1]]
        /\ prepared[r[1]] <= MaxRuns[r[1]] /\ prepared[r[1]] \in Nat
    <3>1. waitsFor \in r[2]..prepared[r[1]]
      BY <1>5 DEF WatchOf
    <3>2. QED
      BY <3>1, RunNumbers
  <2>2. <<r[1], waitsFor>> \in Runs
    BY <2>1, RunsAre
  <2>3. Over(<<r[1], waitsFor>>)
    BY <1>5 DEF WatchOf
  <2>4. QED
    BY <1>1, <2>2, <2>3 DEF Progress
<1>6. QED
  BY <1>3, <1>4, <1>5 DEF WatchOf

LEMMA WatchKept ==
  ASSUME RunTypes, RunInv, RunEffect, WatchInv, UNCHANGED watchVars
  PROVE  WatchInv'
<1>1. \A r \in Runs : watching[r] \in Nat /\ WatchOf(r, watcher[r], watching[r])
  BY DEF WatchInv
<1>2. \A r \in Runs : \A w, g : g \in Nat /\ WatchOf(r, w, g) => WatchOf(r, w, g)'
  BY WatchOfKept
<1>3. watcher' = watcher /\ watching' = watching
  BY DEF watchVars
<1>4. \A r \in Runs : WatchOf(r, watcher[r], watching[r])'
  BY <1>1, <1>2, <1>3
<1>5. QED
  BY <1>3, <1>4 DEF WatchInv

LEMMA OwnWatch ==
  ASSUME RunTypes, RunInv, WatchInv, NEW r \in Runs, WatchStep(r)
  PROVE  WatchInv'
<1>1. UNCHANGED <<loopVars, exec>>
  BY DEF WatchStep, Watch, WatchEnds, Forget, runVars
<1>2. \A q \in Runs \ {r} : watcher'[q] = watcher[q] /\ watching'[q] = watching[q]
  BY DEF WatchStep, Watch, WatchEnds, Forget, WatchInv
<1>3. /\ watcher' \in [Runs -> {"none", "spawned", "waiting", "forget"}]
      /\ watching' \in [Runs -> Nat]
  BY RunNumbers DEF WatchStep, Watch, WatchEnds, Forget, WatchInv
<1>4. WatchOf(r, watcher'[r], watching'[r])
  <2>1. CASE Watch(r)
    <3>1. watcher'[r] = "waiting" /\ watching'[r] = done[r[1]] /\ r[2] <= done[r[1]]
      BY <2>1 DEF Watch, WatchInv, WatchOf
    <3>2. QED
      BY <3>1, RunNumbers DEF WatchOf
  <2>2. CASE WatchEnds(r)
    <3>1. watcher'[r] = "forget" /\ watching'[r] = watching[r] /\ Over(<<r[1], watching[r]>>)
      BY <2>2 DEF WatchEnds, WatchInv
    <3>2. watching[r] \in r[2]..prepared[r[1]]
      BY <2>2 DEF WatchEnds, WatchInv, WatchOf
    <3>3. QED
      BY <3>1, <3>2 DEF WatchOf
  <2>3. CASE Forget(r)
    BY <2>3 DEF Forget, WatchInv, WatchOf
  <2>4. QED
    BY <2>1, <2>2, <2>3 DEF WatchStep
<1>5. ASSUME NEW q \in Runs PROVE WatchOf(q, watcher'[q], watching'[q])
  <2>1. CASE q = r
    BY <1>4, <2>1
  <2>2. CASE q # r
    BY <1>2, <2>2 DEF WatchInv
  <2>3. QED
    BY <2>1, <2>2
<1>6. ASSUME NEW q \in Runs
      PROVE  WatchOf(q, watcher[q], watching[q])' = WatchOf(q, watcher'[q], watching'[q])
  BY <1>1 DEF WatchOf, Over, Cur, loopVars
<1>7. QED
  BY <1>3, <1>5, <1>6 DEF WatchInv

\* A step that starts watchLoop for new runs, each the newest of its loop and launched.
LEMMA WatchStarted ==
  ASSUME RunTypes, RunInv, RunEffect, WatchInv, NEW S \in SUBSET Runs,
         watcher' = [r \in Runs |-> IF r \in S THEN "spawned" ELSE watcher[r]],
         watching' = watching,
         \A r \in S : r[2] = done'[r[1]] /\ exec'[r] # "prepared"
  PROVE  WatchInv'
<1>1. \A r \in Runs : watching[r] \in Nat /\ WatchOf(r, watcher[r], watching[r])
  BY DEF WatchInv
<1>2. \A r \in Runs : \A w, g : g \in Nat /\ WatchOf(r, w, g) => WatchOf(r, w, g)'
  BY WatchOfKept
<1>3. ASSUME NEW r \in S PROVE WatchOf(r, watcher[r], watching[r])'
  <2>1. /\ watcher'[r] = "spawned" /\ r[2] = done'[r[1]] /\ r[2] \in Nat
        /\ r = <<r[1], r[2]>> /\ exec'[r] # "prepared"
    BY RunsAre
  <2>2. Cur(r[1])' = r
    BY <2>1 DEF Cur
  <2>3. QED
    BY <2>1, <2>2 DEF WatchOf
<1>4. ASSUME NEW r \in Runs \ S PROVE WatchOf(r, watcher[r], watching[r])'
  <2>1. watcher'[r] = watcher[r] /\ watching'[r] = watching[r]
    OBVIOUS
  <2>2. QED
    BY <1>1, <1>2, <2>1
<1>5. watcher' \in [Runs -> {"none", "spawned", "waiting", "forget"}] /\ watching' \in [Runs -> Nat]
  BY DEF WatchInv
<1>6. QED
  BY <1>3, <1>4, <1>5 DEF WatchInv

LEMMA WatchersStep ==
  ASSUME RunTypes, RunInv, WatchInv, [Next]_vars
  PROVE  WatchInv'
<1>0. RunEffect
  BY StepEffect
<1>1. ASSUME NEW r \in Runs, WatchStep(r) PROVE WatchInv'
  BY <1>1, OwnWatch
<1>2. ASSUME NEW l \in Loops, StartLoop(l) PROVE WatchInv'
  <2>0. prepared[l] + 1 \in Nat \ {0} /\ prepared[l] + 1 <= MaxRuns[l]
    BY <1>2, RunsAre DEF StartLoop, Prepare, Preparable, RunTypes
  <2>1. PICK r \in Runs : r = <<l, prepared[l] + 1>> /\ r[1] = l /\ r[2] = prepared[l] + 1
    BY <2>0, RunsAre
  <2>2. PICK S \in SUBSET Runs : S = {r}
    OBVIOUS
  <2>a. /\ watching' = watching
        /\ watcher' = [q \in Runs |-> IF q \in S THEN "spawned" ELSE watcher[q]]
    BY <1>2, <2>1, <2>2 DEF StartLoop, WatchInv
  <2>3. r[2] = done'[r[1]] /\ exec'[r] # "prepared"
    <3>1. done' = [done EXCEPT ![l] = prepared[l] + 1] /\ exec' = [exec EXCEPT ![r] = "launched"]
      BY <1>2, <2>1 DEF StartLoop, Prepare
    <3>2. QED
      BY <2>1, <3>1 DEF RunTypes
  <2>4. QED
    BY <1>0, <2>2, <2>a, <2>3, WatchStarted
<1>3. ASSUME NEW c \in Callers, CommitPublish(c) PROVE WatchInv'
  <2> DEFINE S == {r \in Runs : exec[r] = "prepared"}
  <2>1. /\ watching' = watching /\ done' = done
        /\ watcher' = [r \in Runs |-> IF r \in S THEN "spawned" ELSE watcher[r]]
        /\ exec' = [r \in Runs |-> IF exec[r] = "prepared" THEN "launched" ELSE exec[r]]
    BY <1>3 DEF CommitPublish
  <2>2. ASSUME NEW r \in S PROVE r[2] = done'[r[1]] /\ exec'[r] # "prepared"
    <3>1. Cur(r[1]) = r
      BY DEF RunInv, LiveExec
    <3>2. QED
      BY <2>1, <3>1 DEF Cur
  <2>3. S \in SUBSET Runs
    OBVIOUS
  <2> HIDE DEF S
  <2>4. QED
    BY <1>0, <2>1, <2>2, <2>3, WatchStarted
<1>4. ASSUME NEW r \in Runs, RunStep(r) PROVE UNCHANGED watchVars
  BY <1>4 DEF RunStep, Enter, Iterate, Timer, WaitStopped, WaitCancelled, Finish, Moves, Returns
<1>5. ASSUME NEW c \in Callers, CallStep(c) PROVE CommitPublish(c) \/ UNCHANGED watchVars
  BY <1>5 DEF CallStep, Return, StopLoopStop, StopLoopWait, StopLoopCheck, StopLoopForget,
              CommitPrepare, CommitRefuse, StopNext, CommitAbort, StopNextEnds, UnloadEnds,
              CloseUnload, CloseLoops, CloseEnds
<1>6. ASSUME NEW c \in Callers, Calls(c) PROVE UNCHANGED watchVars
  BY <1>6 DEF Calls, Stop, Wait, StopLoop, GiveUp, Load, Unload, Close
<1>7. ASSUME NEW l \in Loops, Start(l) \/ Cancel(l) PROVE UNCHANGED watchVars
  BY <1>7 DEF Start, Cancel
<1>8. ASSUME UNCHANGED vars PROVE UNCHANGED watchVars
  BY <1>8 DEF vars
<1>9. QED
  BY <1>0, <1>1, <1>2, <1>3, <1>4, <1>5, <1>6, <1>7, <1>8, WatchKept DEF Next

-----------------------------------------------------------------------------
(* The callers.                                                             *)

LEMMA CallOfKept ==
  ASSUME RunTypes, RunInv, RunEffect, NEW place, NEW r, CallOf(place, r)
  PROVE  CallOf(place, r)'
<1>1. Progress /\ RunTypes'
  BY RunProgress, RunInvStep
<1>2. CASE place \in HasRun
  <2>1. r \in Loops \X Nat /\ r[2] <= prepared[r[1]]
    BY <1>2 DEF CallOf
  <2>2. /\ prepared[r[1]] \in Nat /\ prepared'[r[1]] \in Nat /\ prepared[r[1]] <= prepared'[r[1]]
        /\ running'[r[1]] /\ prepared'[r[1]] = prepared[r[1]] => running[r[1]]
        /\ r[2] \in Nat
    BY <1>1, <2>1 DEF Progress, RunTypes
  <2>3. r[2] <= prepared'[r[1]]
    BY <2>1, <2>2
  <2>4. place = "stopLoopForget" => ~running'[r[1]] \/ r[2] < prepared'[r[1]]
    BY <2>1, <2>2 DEF CallOf
  <2>5. QED
    BY <2>1, <2>3, <2>4 DEF CallOf
<1>3. CASE place \notin HasRun
  BY <1>3 DEF CallOf, HasRun
<1>4. QED
  BY <1>2, <1>3

LEMMA CallersKept ==
  ASSUME RunTypes, RunInv, RunEffect, CallTypes, CallInv, UNCHANGED callVars
  PROVE  CallTypes' /\ CallInv'
<1>1. \A c \in Callers : CallOf(at[c], onRun[c])'
  BY CallOfKept DEF CallInv, callVars
<1>2. QED
  BY <1>1 DEF CallTypes, CallInv, callVars

LEMMA CallerMoves ==
  ASSUME RunTypes, RunInv, RunEffect, CallTypes, CallInv, NEW c \in Callers,
         NEW place \in CallPlaces, NEW r \in {NoRun} \cup (Loops \X Nat), CallOf(place, r)',
         at' = [at EXCEPT ![c] = place], onRun' = [onRun EXCEPT ![c] = r]
  PROVE  /\ at' \in [Callers -> CallPlaces] /\ onRun' \in [Callers -> {NoRun} \cup (Loops \X Nat)]
         /\ CallInv'
<1>1. ASSUME NEW d \in Callers PROVE CallOf(at[d], onRun[d])'
  <2>1. CASE d = c
    BY <2>1 DEF CallTypes
  <2>2. CASE d # c
    <3>1. CallOf(at[d], onRun[d])
      BY DEF CallInv
    <3>2. at'[d] = at[d] /\ onRun'[d] = onRun[d]
      BY <2>2 DEF CallTypes
    <3>3. \A place_1, r_1 : CallOf(place_1, r_1) => CallOf(place_1, r_1)'
      BY CallOfKept
    <3>4. QED
      BY <3>1, <3>2, <3>3
  <2>3. QED
    BY <2>1, <2>2
<1>2. QED
  BY <1>1 DEF CallTypes, CallInv

\* The newest run of a loop that runs.
LEMMA NewestRun ==
  ASSUME RunTypes, RunInv, NEW l \in Loops
  PROVE  /\ Cur(l) \in Loops \X Nat /\ Cur(l)[1] = l /\ Cur(l)[2] = done[l]
         /\ done[l] <= prepared[l]
         /\ running[l] => done[l] # 0 /\ done[l] = prepared[l]
         /\ done[l] # 0 => Cur(l) \in Runs
<1>1. /\ done[l] \in Nat /\ prepared[l] \in Nat /\ done[l] <= prepared[l]
      /\ prepared[l] <= MaxRuns[l] /\ MaxRuns[l] \in Nat
  BY RunsAre DEF RunTypes
<1>2. done[l] # 0 => <<l, done[l]>> \in Runs
  BY <1>1, RunsAre
<1>3. QED
  BY <1>1, <1>2 DEF Cur, RunInv

\* A caller that then waits for no run.
LEMMA CallerRests ==
  ASSUME RunTypes, RunInv, RunEffect, CallTypes, CallInv, NEW c \in Callers,
         NEW place \in {"idle", "commit", "abort", "stopAll", "closeAll"},
         at' = [at EXCEPT ![c] = place], onRun' = onRun \/ onRun' = [onRun EXCEPT ![c] = NoRun]
  PROVE  /\ at' \in [Callers -> CallPlaces] /\ onRun' \in [Callers -> {NoRun} \cup (Loops \X Nat)]
         /\ CallInv'
<1>1. PICK r \in {NoRun} \cup (Loops \X Nat) : onRun' = [onRun EXCEPT ![c] = r]
  <2>1. onRun[c] \in {NoRun} \cup (Loops \X Nat) /\ onRun = [onRun EXCEPT ![c] = onRun[c]]
    BY DEF CallTypes
  <2>2. QED
    BY <2>1
<1>2. place \in CallPlaces /\ CallOf(place, r)'
  BY DEF CallPlaces, CallOf, HasRun
<1>3. QED
  BY <1>1, <1>2, CallerMoves

LEMMA CallStepCallers ==
  ASSUME RunTypes, RunInv, RunEffect, CallTypes, CallInv, BotTypes, NEW c \in Callers,
         CallStep(c) \/ Calls(c)
  PROVE  CallTypes' /\ CallInv'
<1>0. /\ onRun[c] \in {NoRun} \cup (Loops \X Nat) /\ at[c] \in CallPlaces
      /\ at = [at EXCEPT ![c] = at[c]] /\ CallOf(at[c], onRun[c])
  BY DEF CallTypes, CallInv
<1>b. BotLoopsAssumption
  BY BotLoopsAssumption
<1>1. CASE Return(c) \/ GiveUp(c) \/ StopLoopForget(c)
  <2>1. /\ at' = [at EXCEPT ![c] = "idle"] /\ onRun' = [onRun EXCEPT ![c] = NoRun]
        /\ UNCHANGED <<todo, names, snapshot>>
    BY <1>1 DEF Return, GiveUp, StopLoopForget, Goes
  <2>2. QED
    BY <2>1, CallerRests DEF CallTypes
<1>2. ASSUME NEW l \in Loops, Stop(c, l) \/ Wait(c, l) PROVE CallTypes' /\ CallInv'
  <2>1. /\ at' = [at EXCEPT ![c] = "waiting"] /\ onRun' = [onRun EXCEPT ![c] = Cur(l)]
        /\ UNCHANGED <<prepared, running, todo, names, snapshot>>
        /\ running[l] \/ done[l] # 0
    BY <1>2 DEF Stop, Wait, Goes, CloseStop, loopVars
  <2>2. PICK r \in Loops \X Nat : r = Cur(l) /\ r \in Runs /\ r[1] = l /\ r[2] <= prepared[l]
    BY <2>1, NewestRun
  <2>3. CallOf("waiting", r)' /\ "waiting" \in CallPlaces
    BY <2>1, <2>2 DEF CallOf, CallPlaces
  <2>4. QED
    BY <2>1, <2>2, <2>3, CallerMoves DEF CallTypes
<1>3. ASSUME NEW l \in Loops, StopLoop(c, l) PROVE CallTypes' /\ CallInv'
  <2>1. /\ at' = [at EXCEPT ![c] = "stopLoop"] /\ onRun' = [onRun EXCEPT ![c] = <<l, 0>>]
        /\ UNCHANGED <<prepared, todo, names, snapshot>>
    BY <1>3 DEF StopLoop, Goes, loopVars
  <2>2. PICK r \in Loops \X Nat : r = <<l, 0>>
    OBVIOUS
  <2>3. CallOf("stopLoop", r)' /\ "stopLoop" \in CallPlaces
    <3>1. prepared[l] \in Nat /\ 0 <= prepared[l] /\ r[1] = l /\ r[2] = 0
      BY <2>2 DEF RunTypes
    <3>2. QED
      BY <2>1, <2>2, <3>1 DEF CallOf, CallPlaces
  <2>4. QED
    BY <2>1, <2>2, <2>3, CallerMoves DEF CallTypes
<1>4. CASE StopLoopStop(c)
  <2>1. /\ onRun[c] \in Loops \X Nat /\ onRun[c][2] <= prepared[onRun[c][1]]
        /\ UNCHANGED <<prepared, todo, names, snapshot>>
    BY <1>0, <1>4 DEF StopLoopStop, CloseStop, CallOf, HasRun, loopVars
  <2>2. PICK place \in {"stopLoopWait", "stopLoopCheck"}, l \in Loops :
          \E r : /\ at' = [at EXCEPT ![c] = place] /\ onRun' = [onRun EXCEPT ![c] = r]
                 /\ r = Cur(l) \/ r = onRun[c]
    BY <1>4, <2>1 DEF StopLoopStop, Goes
  <2>3. PICK r : /\ at' = [at EXCEPT ![c] = place] /\ onRun' = [onRun EXCEPT ![c] = r]
                 /\ r = Cur(l) \/ r = onRun[c]
    BY <2>2
  <2>4. r \in Loops \X Nat /\ r[2] <= prepared[r[1]]
    BY <2>1, <2>3, NewestRun
  <2>5. CallOf(place, r)' /\ place \in CallPlaces
    BY <2>1, <2>2, <2>4 DEF CallOf, CallPlaces
  <2>6. QED
    BY <2>1, <2>3, <2>4, <2>5, CallerMoves DEF CallTypes
<1>5. CASE StopLoopWait(c) \/ StopLoopCheck(c)
  <2>1. PICK r \in Loops \X Nat : r = onRun[c] /\ r[2] <= prepared[r[1]]
    BY <1>0, <1>5 DEF StopLoopWait, StopLoopCheck, CallOf, HasRun
  <2>2. UNCHANGED <<prepared, running, todo, names, snapshot>>
    BY <1>5 DEF StopLoopWait, StopLoopCheck, loopVars
  <2>3. \/ at' = [at EXCEPT ![c] = "stopLoopCheck"] /\ onRun' = [onRun EXCEPT ![c] = r]
        \/ /\ at' = [at EXCEPT ![c] = "stopLoopForget"] /\ onRun' = [onRun EXCEPT ![c] = r]
           /\ ~running[r[1]]
        \/ at' = [at EXCEPT ![c] = "idle"] /\ onRun' = [onRun EXCEPT ![c] = NoRun]
    BY <1>5, <2>1 DEF StopLoopWait, StopLoopCheck, Goes
  <2>4. /\ CallOf("stopLoopCheck", r)'
        /\ ~running[r[1]] => CallOf("stopLoopForget", r)'
        /\ "stopLoopCheck" \in CallPlaces /\ "stopLoopForget" \in CallPlaces
    BY <2>1, <2>2 DEF CallOf, CallPlaces
  <2>5. /\ at' \in [Callers -> CallPlaces] /\ onRun' \in [Callers -> {NoRun} \cup (Loops \X Nat)]
        /\ CallInv'
    <3>1. CASE at' = [at EXCEPT ![c] = "stopLoopCheck"] /\ onRun' = [onRun EXCEPT ![c] = r]
      BY <2>1, <2>4, <3>1, CallerMoves
    <3>2. CASE /\ at' = [at EXCEPT ![c] = "stopLoopForget"] /\ onRun' = [onRun EXCEPT ![c] = r]
               /\ ~running[r[1]]
      BY <2>1, <2>4, <3>2, CallerMoves
    <3>3. CASE at' = [at EXCEPT ![c] = "idle"] /\ onRun' = [onRun EXCEPT ![c] = NoRun]
      BY <3>3, CallerRests
    <3>4. QED
      BY <2>3, <3>1, <3>2, <3>3
  <2>6. QED
    BY <2>2, <2>5 DEF CallTypes
<1>6. ASSUME NEW e \in Extensions, Load(c, e) \/ Unload(c, e) \/ CloseUnload(c, e)
      PROVE  CallTypes' /\ CallInv'
  <2>1. Staged[e] \subseteq Loops
    BY <1>b DEF BotLoopsAssumption
  <2>2. /\ todo' \in [Callers -> SUBSET Loops] /\ names' \in [Callers -> SUBSET Extensions]
        /\ snapshot' = snapshot /\ onRun' = onRun
    BY <1>6, <2>1 DEF Load, Unload, CloseUnload, CallTypes
  <2>3. \E place \in {"commit", "stopAll", "closeAll"} : at' = [at EXCEPT ![c] = place]
    BY <1>0, <1>6 DEF Load, Unload, CloseUnload
  <2>4. QED
    BY <2>2, <2>3, CallerRests DEF CallTypes
<1>7. ASSUME NEW l \in Loops, CommitPrepare(c, l) \/ CommitRefuse(c, l)
      PROVE  CallTypes' /\ CallInv'
  <2>1. /\ todo' \in [Callers -> SUBSET Loops] /\ UNCHANGED <<onRun, names, snapshot>>
    BY <1>7 DEF CommitPrepare, CommitRefuse, CallTypes
  <2>2. \E place \in {"commit", "abort"} : at' = [at EXCEPT ![c] = place]
    BY <1>0, <1>7 DEF CommitPrepare, CommitRefuse
  <2>3. QED
    BY <2>1, <2>2, CallerRests DEF CallTypes
<1>8. CASE CommitAbort(c) \/ CommitPublish(c) \/ UnloadEnds(c) \/ Close(c) \/ CloseLoops(c)
           \/ CloseEnds(c)
  <2>1. /\ todo' \in [Callers -> SUBSET Loops] /\ names' \in [Callers -> SUBSET Extensions]
        /\ snapshot' \in [Callers -> SUBSET Loops] /\ onRun' = onRun
    BY <1>8 DEF CommitAbort, CommitPublish, UnloadEnds, Close, CloseLoops, CloseEnds, CallTypes,
                BotTypes
  <2>2. \E place \in {"idle", "abort", "closeAll"} : at' = [at EXCEPT ![c] = place]
    BY <1>0, <1>8 DEF CommitAbort, CommitPublish, UnloadEnds, Close, CloseLoops, CloseEnds
  <2>3. QED
    BY <2>1, <2>2, CallerRests DEF CallTypes
<1>9. ASSUME NEW l \in Loops, StopNext(c, l) PROVE CallTypes' /\ CallInv'
  <2>1. /\ todo' \in [Callers -> SUBSET Loops] /\ UNCHANGED <<prepared, names, snapshot>>
    BY <1>9 DEF StopNext, CloseStop, CallTypes, loopVars
  <2>2. CASE at' = at /\ onRun' = onRun
    <3>1. at[c] \in {"stopAll", "closeAll"}
      BY <1>9 DEF StopNext
    <3>2. QED
      BY <1>0, <2>1, <2>2, <3>1, CallerRests DEF CallTypes
  <2>3. ASSUME NEW place \in {"stopAllWait", "closeAllWait"}, at' = [at EXCEPT ![c] = place],
               onRun' = [onRun EXCEPT ![c] = Cur(l)]
        PROVE  CallTypes' /\ CallInv'
    <3>1. PICK r \in Loops \X Nat : r = Cur(l) /\ r[1] = l /\ r[2] <= prepared[l]
      BY NewestRun
    <3>2. CallOf(place, r)' /\ place \in CallPlaces
      BY <2>1, <3>1 DEF CallOf, CallPlaces
    <3>3. QED
      BY <2>1, <2>3, <3>1, <3>2, CallerMoves DEF CallTypes
  <2>4. QED
    BY <1>9, <2>2, <2>3 DEF StopNext, Goes
<1>10. CASE StopNextEnds(c)
  <2>1. /\ onRun' = [onRun EXCEPT ![c] = NoRun] /\ UNCHANGED <<todo, names, snapshot>>
        /\ \E place \in {"stopAll", "closeAll"} : at' = [at EXCEPT ![c] = place]
    BY <1>10 DEF StopNextEnds, Goes
  <2>2. QED
    BY <2>1, CallerRests DEF CallTypes
<1>11. QED
  BY <1>1, <1>2, <1>3, <1>4, <1>5, <1>6, <1>7, <1>8, <1>9, <1>10 DEF CallStep, Calls

\* Steps of others leave the callers where they are.
LEMMA CallersStep ==
  ASSUME RunTypes, RunInv, CallTypes, CallInv, BotTypes, [Next]_vars
  PROVE  CallTypes' /\ CallInv'
<1>0. RunEffect
  BY StepEffect
<1>1. ASSUME NEW c \in Callers, CallStep(c) \/ Calls(c) PROVE CallTypes' /\ CallInv'
  BY <1>0, <1>1, CallStepCallers
<1>2. ASSUME NEW r \in Runs, RunStep(r) PROVE UNCHANGED callVars
  BY <1>2 DEF RunStep, Enter, Iterate, Timer, WaitStopped, WaitCancelled, Finish, Moves, Returns
<1>3. ASSUME NEW r \in Runs, WatchStep(r) PROVE UNCHANGED callVars
  BY <1>3 DEF WatchStep, Watch, WatchEnds, Forget
<1>4. ASSUME NEW l \in Loops, Start(l) \/ StartLoop(l) \/ Cancel(l) PROVE UNCHANGED callVars
  BY <1>4 DEF Start, StartLoop, Cancel
<1>5. ASSUME UNCHANGED vars PROVE UNCHANGED callVars
  BY <1>5 DEF vars
<1>6. QED
  BY <1>0, <1>1, <1>2, <1>3, <1>4, <1>5, CallersKept DEF Next

-----------------------------------------------------------------------------
(* The registry and the commit of an extension.                              *)

LEMMA BotTypesStep ==
  ASSUME CallTypes, BotTypes, [Next]_vars
  PROVE  BotTypes'
<1>1. ASSUME NEW l \in Loops, StartLoop(l) PROVE BotTypes'
  BY <1>1 DEF StartLoop, BotTypes
<1>2. ASSUME NEW r \in Runs, WatchStep(r) PROVE BotTypes'
  BY <1>2 DEF WatchStep, Watch, WatchEnds, Forget, BotTypes, botVars
<1>3. ASSUME NEW c \in Callers, CallStep(c) PROVE BotTypes'
  <2>1. CASE CommitPublish(c)
    BY <2>1 DEF CommitPublish, BotTypes, CallTypes, PreparedLoops
  <2>2. CASE CommitAbort(c)
    BY <2>2 DEF CommitAbort, BotTypes
  <2>3. ASSUME NEW e \in Extensions, CloseUnload(c, e) PROVE BotTypes'
    BY <2>3 DEF CloseUnload, Detach, BotTypes
  <2>4. CASE StopLoopForget(c) \/ CloseEnds(c)
    BY <2>4 DEF StopLoopForget, CloseEnds, BotTypes
  <2>5. ASSUME \/ Return(c) \/ StopLoopStop(c) \/ StopLoopWait(c) \/ StopLoopCheck(c)
               \/ \E l \in Loops : CommitPrepare(c, l) \/ CommitRefuse(c, l) \/ StopNext(c, l)
               \/ StopNextEnds(c) \/ UnloadEnds(c) \/ CloseLoops(c)
        PROVE  UNCHANGED botVars
    BY <2>5 DEF Return, StopLoopStop, StopLoopWait, StopLoopCheck, CommitPrepare, CommitRefuse,
                StopNext, StopNextEnds, UnloadEnds, CloseLoops
  <2>6. QED
    BY <1>3, <2>1, <2>2, <2>3, <2>4, <2>5 DEF CallStep, BotTypes, botVars
<1>4. ASSUME NEW c \in Callers, Calls(c) PROVE BotTypes'
  BY <1>4 DEF Calls, Stop, Wait, StopLoop, GiveUp, Load, Unload, Close, Detach, BotTypes, botVars
<1>5. ASSUME NEW r \in Runs, RunStep(r) PROVE UNCHANGED botVars
  BY <1>5 DEF RunStep, Enter, Iterate, Timer, WaitStopped, WaitCancelled, Finish, Moves, Returns
<1>6. ASSUME NEW l \in Loops, Start(l) \/ Cancel(l) PROVE UNCHANGED botVars
  BY <1>6 DEF Start, Cancel
<1>7. ASSUME UNCHANGED vars PROVE UNCHANGED botVars
  BY <1>7 DEF vars
<1>8. QED
  BY <1>1, <1>2, <1>3, <1>4, <1>5, <1>6, <1>7 DEF Next, BotTypes, botVars

\* At the commit the prepared loops are those of the extension.
LEMMA PreparedAreStaged ==
  ASSUME RunTypes, RunInv, CommitInv, NEW c \in Callers, at[c] = "commit", todo[c] = {}
  PROVE  \E e \in Extensions \ loaded :
           names[c] = {e} /\ PreparedLoops = Staged[e] /\ Staged[e] \cap reserved = {}
<1>1. PICK e \in Extensions \ loaded :
         /\ names[c] = {e}
         /\ \A l \in Staged[e] \ todo[c] : running[l] /\ exec[Cur(l)] = "prepared"
         /\ \A r \in Runs : exec[r] = "prepared" => r[1] \in Staged[e]
  BY DEF CommitInv
<1>2. Staged[e] \subseteq Loops
  BY BotLoopsAssumption DEF BotLoopsAssumption
<1>3. ASSUME NEW l \in Staged[e] PROVE l \in PreparedLoops /\ l \notin reserved
  <2>1. l \in Loops /\ running[l] /\ exec[Cur(l)] = "prepared"
    BY <1>1, <1>2
  <2>2. done[l] # 0 /\ Cur(l) \in Runs /\ Cur(l)[1] = l
    BY <2>1, NewestRun
  <2>3. QED
    BY <2>1, <2>2 DEF PreparedLoops, CommitInv
<1>4. ASSUME NEW l \in PreparedLoops PROVE l \in Staged[e]
  <2>1. l \in Loops /\ done[l] # 0 /\ exec[Cur(l)] = "prepared"
    BY DEF PreparedLoops
  <2>2. Cur(l) \in Runs /\ Cur(l)[1] = l
    BY <2>1, NewestRun
  <2>3. QED
    BY <1>1, <2>1, <2>2
<1>5. PreparedLoops = Staged[e]
  BY <1>3, <1>4
<1>6. Staged[e] \cap reserved = {}
  BY <1>3
<1>7. QED
  BY <1>1, <1>5, <1>6

LEMMA DetachReserves ==
  ASSUME Reservations, NEW e \in loaded, Detach(e)
  PROVE  Reservations'
<1>1. loaded' = loaded \ {e} /\ reserved' = reserved \ Staged[e]
  BY DEF Detach
<1>2. ASSUME NEW l PROVE l \in reserved' <=> \E f \in loaded' : l \in Staged[f]
  <2>1. l \in reserved <=> \E f \in loaded : l \in Staged[f]
    <3>1. reserved = UNION {Staged[f] : f \in loaded}
      BY DEF Reservations
    <3>2. QED
      BY <3>1
  <2>2. l \in Staged[e] => \A f \in loaded : l \in Staged[f] => f = e
    BY DEF Reservations
  <2>3. QED
    BY <1>1, <2>1, <2>2
<1>3. reserved' = UNION {Staged[f] : f \in loaded'}
  BY <1>2
<1>4. \A f, g \in loaded' : f # g => Staged[f] \cap Staged[g] = {}
  BY <1>1 DEF Reservations
<1>5. QED
  BY <1>3, <1>4 DEF Reservations

LEMMA ReservationsStep ==
  ASSUME RunTypes, RunInv, Reservations, CommitInv, [Next]_vars
  PROVE  Reservations'
<1>1. ASSUME NEW c \in Callers, CommitPublish(c) PROVE Reservations'
  <2>1. PICK e \in Extensions \ loaded :
          names[c] = {e} /\ PreparedLoops = Staged[e] /\ Staged[e] \cap reserved = {}
    BY <1>1, PreparedAreStaged DEF CommitPublish
  <2>2. loaded' = loaded \cup {e} /\ reserved' = reserved \cup Staged[e]
    BY <1>1, <2>1 DEF CommitPublish
  <2>3. \A f \in loaded : Staged[f] \cap Staged[e] = {}
    BY <2>1 DEF Reservations
  <2>4. reserved' = UNION {Staged[f] : f \in loaded'}
    BY <2>2 DEF Reservations
  <2>5. \A f, g \in loaded' : f # g => Staged[f] \cap Staged[g] = {}
    BY <2>2, <2>3 DEF Reservations
  <2>6. QED
    BY <2>4, <2>5 DEF Reservations
<1>2. ASSUME NEW c \in Callers, NEW e \in Extensions, Unload(c, e) \/ CloseUnload(c, e)
      PROVE  Reservations'
  BY <1>2, DetachReserves DEF Unload, CloseUnload, Reservations
<1>3. ASSUME NEW c \in Callers, CallStep(c)
      PROVE  \/ CommitPublish(c) \/ \E e \in Extensions : CloseUnload(c, e)
             \/ UNCHANGED <<loaded, reserved>>
  BY <1>3 DEF CallStep, Return, StopLoopStop, StopLoopWait, StopLoopCheck, StopLoopForget,
              CommitPrepare, CommitRefuse, StopNext, CommitAbort, StopNextEnds, UnloadEnds,
              CloseLoops, CloseEnds, botVars
<1>4. ASSUME NEW c \in Callers, Calls(c)
      PROVE  \/ \E e \in Extensions : Unload(c, e)
             \/ UNCHANGED <<loaded, reserved>>
  BY <1>4 DEF Calls, Stop, Wait, StopLoop, GiveUp, Load, Close, botVars
<1>5. ASSUME NEW r \in Runs, RunStep(r) PROVE UNCHANGED <<loaded, reserved>>
  BY <1>5 DEF RunStep, Enter, Iterate, Timer, WaitStopped, WaitCancelled, Finish, Moves, Returns,
              botVars
<1>6. ASSUME NEW r \in Runs, WatchStep(r) PROVE UNCHANGED <<loaded, reserved>>
  BY <1>6 DEF WatchStep, Watch, WatchEnds, Forget, botVars
<1>7. ASSUME NEW l \in Loops, Start(l) \/ StartLoop(l) \/ Cancel(l)
      PROVE  UNCHANGED <<loaded, reserved>>
  BY <1>7 DEF Start, StartLoop, Cancel, botVars
<1>8. ASSUME UNCHANGED vars PROVE UNCHANGED <<loaded, reserved>>
  BY <1>8 DEF vars, botVars
<1>9. QED
  BY <1>1, <1>2, <1>3, <1>4, <1>5, <1>6, <1>7, <1>8 DEF Next, Reservations

-----------------------------------------------------------------------------
(* A commit under way.                                                      *)

\* The prepared runs stay, and no other run is prepared.
PreparedSame ==
    /\ \A r \in Runs : exec'[r] = "prepared" <=> exec[r] = "prepared"
    /\ \A l \in Loops : (running[l] /\ exec[Cur(l)] = "prepared") => running'[l] /\ done'[l] = done[l]

LEMMA QuietRuns ==
  ASSUME RunTypes, RunInv,
         \/ RunsKept
         \/ \E l \in Loops, parent \in {"bot", "user"} : Prepare(l, "launched", parent)
         \/ \E r \in Runs : Advances(r) \/ Finishes(r)
  PROVE  PreparedSame
<1>1. CASE RunsKept
  BY <1>1 DEF RunsKept, loopVars, PreparedSame
<1>2. ASSUME NEW l \in Loops, NEW parent, Prepare(l, "launched", parent) PROVE PreparedSame
  <2>1. PICK r : r = <<l, prepared[l] + 1>>
    OBVIOUS
  <2>2. /\ r \in Runs /\ exec[r] = "none" /\ ~running[l]
    BY <1>2, <2>1, RunsAre DEF Prepare, Preparable, RunTypes, RunInv
  <2>3. /\ exec' = [exec EXCEPT ![r] = "launched"]
        /\ running' = [running EXCEPT ![l] = TRUE]
        /\ done' = [done EXCEPT ![l] = prepared[l] + 1]
    BY <1>2, <2>1 DEF Prepare
  <2>4. QED
    BY <2>2, <2>3 DEF PreparedSame, RunTypes
<1>3. ASSUME NEW r \in Runs, Advances(r) PROVE PreparedSame
  BY <1>3 DEF Advances, loopVars, PreparedSame, RunTypes
<1>4. ASSUME NEW r \in Runs, Finishes(r) PROVE PreparedSame
  <2>1. Cur(r[1]) = r /\ r[1] \in Loops
    BY <1>4, RunNumbers DEF Finishes, RunInv, LiveExec
  <2>2. \A l \in Loops : exec[Cur(l)] = "prepared" => l # r[1]
    BY <1>4, <2>1 DEF Finishes
  <2>3. /\ exec' = [exec EXCEPT ![r] = "over"] /\ exec[r] = "finish"
        /\ running' = [running EXCEPT ![r[1]] = FALSE] /\ done' = done
    BY <1>4 DEF Finishes
  <2>4. QED
    BY <2>2, <2>3 DEF PreparedSame, RunTypes
<1>5. QED
  BY <1>1, <1>2, <1>3, <1>4

\* A step outside of any commit.
LEMMA CommitKept ==
  ASSUME RunTypes, RunInv, CommitInv, PreparedSame, botMu' = botMu, loaded' \subseteq loaded,
         reserved' \subseteq reserved,
         \A c \in Callers :
            /\ at'[c] \in {"commit", "abort"} <=> at[c] \in {"commit", "abort"}
            /\ at'[c] = "commit" => at[c] = "commit" /\ names'[c] = names[c] /\ todo'[c] = todo[c]
  PROVE  CommitInv'
<1>1. \A c \in Callers : at'[c] \in {"commit", "abort"} <=> botMu' = c
  BY DEF CommitInv
<1>2. ASSUME NEW r \in Runs, exec'[r] = "prepared"
      PROVE  \E c \in Callers : botMu' = c /\ r[1] \notin reserved'
  BY <1>2 DEF CommitInv, PreparedSame
<1>3. ASSUME NEW c \in Callers, at'[c] = "commit"
      PROVE  \E e \in Extensions \ loaded' :
                 /\ names'[c] = {e} /\ todo'[c] \subseteq Staged[e]
                 /\ \A l \in Staged[e] \ todo'[c] : running'[l] /\ exec'[Cur(l)'] = "prepared"
                 /\ \A r \in Runs : exec'[r] = "prepared" => r[1] \in Staged[e]
  <2>1. at[c] = "commit" /\ names'[c] = names[c] /\ todo'[c] = todo[c]
    BY <1>3
  <2>2. PICK e \in Extensions \ loaded :
           /\ names[c] = {e} /\ todo[c] \subseteq Staged[e]
           /\ \A l \in Staged[e] \ todo[c] : running[l] /\ exec[Cur(l)] = "prepared"
           /\ \A r \in Runs : exec[r] = "prepared" => r[1] \in Staged[e]
    BY <2>1 DEF CommitInv
  <2>3. ASSUME NEW l \in Staged[e] \ todo[c]
        PROVE  running'[l] /\ exec'[Cur(l)'] = "prepared"
    <3>1. l \in Loops
      BY BotLoopsAssumption DEF BotLoopsAssumption
    <3>2. Cur(l)' = Cur(l) /\ running'[l] /\ Cur(l) \in Runs
      BY <2>2, <3>1, NewestRun DEF PreparedSame, Cur
    <3>3. QED
      BY <2>2, <3>2 DEF PreparedSame
  <2>4. \A r \in Runs : exec'[r] = "prepared" => r[1] \in Staged[e]
    BY <2>2 DEF PreparedSame
  <2>5. e \in Extensions \ loaded'
    OBVIOUS
  <2>6. QED
    BY <2>1, <2>2, <2>3, <2>4, <2>5
<1>4. QED
  BY <1>1, <1>2, <1>3 DEF CommitInv

LEMMA OutsideCommit ==
  ASSUME RunTypes, RunInv, CallTypes, CommitInv,
         \/ \E r \in Runs : RunStep(r) \/ WatchStep(r)
         \/ \E l \in Loops : Start(l) \/ StartLoop(l) \/ Cancel(l)
         \/ UNCHANGED vars
  PROVE  CommitInv'
<1>1. PreparedSame
  <2>1. ASSUME NEW r \in Runs, RunStep(r) PROVE PreparedSame
    BY <2>1, GoroutineEffect, QuietRuns
  <2>2. ASSUME NEW l \in Loops, Start(l) \/ StartLoop(l) PROVE PreparedSame
    BY <2>2, QuietRuns DEF Start, StartLoop
  <2>3. ASSUME NEW r \in Runs, WatchStep(r) PROVE RunsKept
    BY <2>3 DEF WatchStep, Watch, WatchEnds, Forget, RunsKept, loopVars, runVars
  <2>4. ASSUME NEW l \in Loops, Cancel(l) PROVE RunsKept
    BY <2>4 DEF Cancel, RunsKept, loopVars, runVars
  <2>5. ASSUME UNCHANGED vars PROVE RunsKept
    BY <2>5 DEF vars, RunsKept, loopVars, runVars
  <2>6. QED
    BY <2>1, <2>2, <2>3, <2>4, <2>5, QuietRuns
<1>2. UNCHANGED <<at, names, todo, botMu, loaded, reserved>>
  <2>1. ASSUME NEW r \in Runs, RunStep(r) PROVE UNCHANGED <<at, names, todo, botMu, loaded, reserved>>
    BY <2>1 DEF RunStep, Enter, Iterate, Timer, WaitStopped, WaitCancelled, Finish, Moves, Returns,
                botVars, callVars
  <2>2. ASSUME NEW r \in Runs, WatchStep(r) PROVE UNCHANGED <<at, names, todo, botMu, loaded, reserved>>
    BY <2>2 DEF WatchStep, Watch, WatchEnds, Forget, botVars, callVars
  <2>3. ASSUME NEW l \in Loops, Start(l) \/ StartLoop(l) \/ Cancel(l)
        PROVE  UNCHANGED <<at, names, todo, botMu, loaded, reserved>>
    BY <2>3 DEF Start, StartLoop, Cancel, botVars, callVars
  <2>4. ASSUME UNCHANGED vars PROVE UNCHANGED <<at, names, todo, botMu, loaded, reserved>>
    BY <2>4 DEF vars, botVars, callVars
  <2>5. QED
    BY <2>1, <2>2, <2>3, <2>4
<1>3. QED
  BY <1>1, <1>2, CommitKept

\* The other steps of the callers, among them those of Unload and CloseContext.
LEMMA CallersOutsideCommit ==
  ASSUME RunTypes, RunInv, CallTypes, CommitInv, NEW c \in Callers, CallStep(c) \/ Calls(c),
         \A e \in Extensions : ~Load(c, e), \A l \in Loops : ~CommitPrepare(c, l),
         \A l \in Loops : ~CommitRefuse(c, l), ~CommitAbort(c), ~CommitPublish(c)
  PROVE  CommitInv'
<1>1. RunsKept
  BY DEF CallStep, Calls, Stop, Wait, StopLoop, GiveUp, Unload, Close, CloseStop,
         Return, StopLoopStop, StopLoopWait, StopLoopCheck, StopLoopForget, StopNext,
         StopNextEnds, UnloadEnds, CloseUnload, CloseLoops, CloseEnds, RunsKept, loopVars, runVars
<1>2. botMu' = botMu /\ loaded' \subseteq loaded /\ reserved' \subseteq reserved
  BY DEF CallStep, Calls, Stop, Wait, StopLoop, GiveUp, Unload, Close, Detach,
         Return, StopLoopStop, StopLoopWait, StopLoopCheck, StopLoopForget, StopNext,
         StopNextEnds, UnloadEnds, CloseUnload, CloseLoops, CloseEnds, botVars
<1>3. PICK place \in CallPlaces \ {"commit", "abort"} :
         at[c] \notin {"commit", "abort"} /\ at' = [at EXCEPT ![c] = place]
  <2>1. at = [at EXCEPT ![c] = at[c]]
    BY DEF CallTypes
  <2>2. ASSUME Calls(c)
        PROVE  \E place \in CallPlaces \ {"commit", "abort"} :
                  at[c] \notin {"commit", "abort"} /\ at' = [at EXCEPT ![c] = place]
    BY <2>2 DEF Calls, Stop, Wait, StopLoop, GiveUp, Unload, Close, Goes, CallPlaces
  <2>3. ASSUME CallStep(c)
        PROVE  \E place \in CallPlaces \ {"commit", "abort"} :
                  at[c] \notin {"commit", "abort"} /\ at' = [at EXCEPT ![c] = place]
    <3>1. CASE StopLoopStop(c) \/ Return(c) \/ StopLoopWait(c) \/ StopLoopCheck(c)
                 \/ StopLoopForget(c)
      BY <3>1 DEF Return, StopLoopStop, StopLoopWait, StopLoopCheck, StopLoopForget, Goes, CallPlaces
    <3>2. CASE StopNextEnds(c) \/ UnloadEnds(c) \/ CloseEnds(c)
      BY <3>2 DEF StopNextEnds, UnloadEnds, CloseEnds, Goes, CallPlaces
    <3>3. CASE CloseLoops(c) \/ \E e \in Extensions : CloseUnload(c, e)
      BY <2>1, <3>3 DEF CloseUnload, CloseLoops, CallPlaces, callVars
    <3>4. ASSUME NEW l \in Loops, StopNext(c, l)
          PROVE  \E place \in CallPlaces \ {"commit", "abort"} :
                    at[c] \notin {"commit", "abort"} /\ at' = [at EXCEPT ![c] = place]
      BY <2>1, <3>4 DEF StopNext, Goes, CallPlaces
    <3>5. QED
      BY <2>3, <3>1, <3>2, <3>3, <3>4 DEF CallStep
  <2>4. QED
    BY <2>2, <2>3
<1>4. ASSUME NEW d \in Callers
      PROVE  /\ at'[d] \in {"commit", "abort"} <=> at[d] \in {"commit", "abort"}
             /\ at'[d] = "commit" => at[d] = "commit" /\ d # c
  BY <1>3 DEF CallTypes
<1>5. ASSUME NEW d \in Callers, d # c PROVE names'[d] = names[d] /\ todo'[d] = todo[d]
  BY <1>5 DEF CallStep, Calls, Stop, Wait, StopLoop, GiveUp, Unload, Close, CallTypes,
         Return, StopLoopStop, StopLoopWait, StopLoopCheck, StopLoopForget, StopNext,
         StopNextEnds, UnloadEnds, CloseUnload, CloseLoops, CloseEnds, callVars
<1>6. QED
  BY <1>1, <1>2, <1>4, <1>5, QuietRuns, CommitKept

\* While a caller is inside commitExtension no other one is.
LEMMA OneCommit ==
  ASSUME CommitInv, BotTypes, NEW c \in Callers
  PROVE  /\ at[c] \in {"commit", "abort"} => \A d \in Callers \ {c} : at[d] \notin {"commit", "abort"}
         /\ BotFree => /\ \A d \in Callers : at[d] \notin {"commit", "abort"}
                       /\ \A r \in Runs : exec[r] # "prepared"
<1>1. NoCaller \notin Callers
  BY BotLoopsAssumption DEF BotLoopsAssumption
<1>2. QED
  BY <1>1 DEF CommitInv, BotFree

LEMMA CommitStarts ==
  ASSUME RunTypes, RunInv, CallTypes, BotTypes, CommitInv, NEW c \in Callers, NEW e \in Extensions,
         Load(c, e)
  PROVE  CommitInv'
<1>1. /\ botMu' = c /\ at' = [at EXCEPT ![c] = "commit"] /\ todo'[c] = Staged[e]
      /\ names'[c] = {e} /\ e \notin loaded
      /\ UNCHANGED <<exec, running, done, loaded, reserved>>
  BY DEF Load, CallTypes, loopVars, runVars
<1>2. /\ \A d \in Callers : at[d] \notin {"commit", "abort"}
      /\ \A r \in Runs : exec[r] # "prepared"
  BY OneCommit DEF Load
<1>3. \A d \in Callers : at'[d] \in {"commit", "abort"} <=> botMu' = d
  BY <1>1, <1>2 DEF CallTypes
<1>4. ASSUME NEW d \in Callers, at'[d] = "commit"
      PROVE  \E f \in Extensions \ loaded' :
                 /\ names'[d] = {f} /\ todo'[d] \subseteq Staged[f]
                 /\ \A l \in Staged[f] \ todo'[d] : running'[l] /\ exec'[Cur(l)'] = "prepared"
                 /\ \A r \in Runs : exec'[r] = "prepared" => r[1] \in Staged[f]
  <2>1. d = c
    BY <1>3, <1>1, <1>4
  <2>2. e \in Extensions \ loaded' /\ names'[d] = {e} /\ todo'[d] = Staged[e]
    BY <1>1, <2>1
  <2>3. \A r \in Runs : exec'[r] = "prepared" => r[1] \in Staged[e]
    BY <1>1, <1>2
  <2>4. QED
    BY <2>2, <2>3
<1>5. \A r \in Runs : exec'[r] # "prepared"
  BY <1>1, <1>2
<1>6. QED
  BY <1>3, <1>4, <1>5 DEF CommitInv

LEMMA CommitPrepares ==
  ASSUME RunTypes, RunInv, CallTypes, BotTypes, CommitInv, NEW c \in Callers, NEW l \in Loops,
         CommitPrepare(c, l)
  PROVE  CommitInv'
<1>1. /\ UNCHANGED <<botMu, loaded, reserved, at, names>> /\ at[c] = "commit" /\ l \in todo[c]
      /\ l \notin reserved /\ todo' = [todo EXCEPT ![c] = todo[c] \ {l}]
  BY DEF CommitPrepare, NotManaged, botVars, CallTypes
<1>2. PICK q : q = <<l, prepared[l] + 1>>
  OBVIOUS
<1>3. q \in Runs /\ ~running[l] /\ q[1] = l
  <2>1. prepared[l] + 1 \in Nat \ {0} /\ prepared[l] + 1 <= MaxRuns[l] /\ ~running[l]
    BY RunsAre DEF CommitPrepare, Prepare, Preparable, RunTypes
  <2>2. QED
    BY <1>2, <2>1, RunsAre
<1>4. /\ exec' = [exec EXCEPT ![q] = "prepared"]
      /\ running' = [running EXCEPT ![l] = TRUE]
      /\ done' = [done EXCEPT ![l] = prepared[l] + 1]
  BY <1>2 DEF CommitPrepare, Prepare
<1>5. running'[l] /\ Cur(l)' = q /\ exec'[q] = "prepared"
  BY <1>2, <1>3, <1>4 DEF RunTypes, Cur
<1>6. botMu = c
  BY <1>1 DEF CommitInv
<1>7. PICK e \in Extensions \ loaded :
         /\ names[c] = {e} /\ todo[c] \subseteq Staged[e]
         /\ \A k \in Staged[e] \ todo[c] : running[k] /\ exec[Cur(k)] = "prepared"
         /\ \A r \in Runs : exec[r] = "prepared" => r[1] \in Staged[e]
  BY <1>1 DEF CommitInv
<1>8. ASSUME NEW r \in Runs, exec'[r] = "prepared"
      PROVE  r[1] \in Staged[e] /\ \E d \in Callers : botMu' = d /\ r[1] \notin reserved'
  <2>1. CASE r = q
    BY <1>1, <1>3, <1>6, <1>7, <2>1
  <2>2. CASE r # q
    <3>1. exec[r] = "prepared"
      BY <1>4, <1>8, <2>2 DEF RunTypes
    <3>2. QED
      BY <1>1, <1>7, <3>1 DEF CommitInv
  <2>3. QED
    BY <2>1, <2>2
<1>9. ASSUME NEW k \in Staged[e] \ todo'[c] PROVE running'[k] /\ exec'[Cur(k)'] = "prepared"
  <2>1. CASE k = l
    BY <1>5, <2>1
  <2>2. CASE k # l
    <3>1. k \in Staged[e] \ todo[c] /\ k \in Loops
      BY <1>1, <2>2, BotLoopsAssumption DEF BotLoopsAssumption, CallTypes
    <3>2. running[k] /\ exec[Cur(k)] = "prepared"
      BY <1>7, <3>1
    <3>3. Cur(k)' = Cur(k) /\ running'[k] /\ Cur(k)[1] = k
      BY <1>4, <2>2, <3>1, <3>2 DEF RunTypes, Cur
    <3>4. exec'[Cur(k)] = exec[Cur(k)]
      BY <1>3, <1>4, <2>2, <3>1, <3>2, <3>3, NewestRun DEF RunTypes
    <3>5. QED
      BY <3>2, <3>3, <3>4
  <2>3. QED
    BY <2>1, <2>2
<1>10. \A d \in Callers : at'[d] = "commit" => d = c
  BY <1>1, OneCommit
<1>11. todo'[c] \subseteq Staged[e]
  BY <1>1, <1>7 DEF CallTypes
<1>12. \A d \in Callers : at'[d] \in {"commit", "abort"} <=> botMu' = d
  BY <1>1 DEF CommitInv
<1>13. ASSUME NEW d \in Callers, at'[d] = "commit"
       PROVE  \E f \in Extensions \ loaded' :
                 /\ names'[d] = {f} /\ todo'[d] \subseteq Staged[f]
                 /\ \A k \in Staged[f] \ todo'[d] : running'[k] /\ exec'[Cur(k)'] = "prepared"
                 /\ \A r \in Runs : exec'[r] = "prepared" => r[1] \in Staged[f]
  <2>1. d = c
    BY <1>10, <1>13
  <2>2. e \in Extensions \ loaded' /\ names'[c] = {e}
    BY <1>1, <1>7
  <2>3. QED
    BY <1>8, <1>9, <1>11, <2>1, <2>2
<1>14. QED
  BY <1>8, <1>12, <1>13 DEF CommitInv

LEMMA CommitRefused ==
  ASSUME CallTypes, BotTypes, CommitInv, NEW c \in Callers, NEW l \in Loops, CommitRefuse(c, l)
  PROVE  CommitInv'
<1>1. /\ UNCHANGED <<botMu, reserved, exec>> /\ at[c] = "commit"
      /\ at' = [at EXCEPT ![c] = "abort"]
  BY DEF CommitRefuse, botVars, runVars
<1>2. \A d \in Callers : at'[d] # "commit"
  BY <1>1, OneCommit DEF CallTypes
<1>3. \A d \in Callers : at'[d] \in {"commit", "abort"} <=> botMu' = d
  BY <1>1 DEF CommitInv, CallTypes
<1>4. \A r \in Runs : exec'[r] = "prepared" => \E d \in Callers : botMu' = d /\ r[1] \notin reserved'
  BY <1>1 DEF CommitInv
<1>5. QED
  BY <1>2, <1>3, <1>4 DEF CommitInv


LEMMA CommitAborts ==
  ASSUME RunTypes, RunInv, CallTypes, BotTypes, CommitInv, NEW c \in Callers, CommitAbort(c)
  PROVE  CommitInv'
<1>1. at[c] = "abort" /\ botMu = c /\ reserved' = reserved
  BY DEF CommitAbort, CommitInv
<1>2. \A d \in Callers \ {c} : at[d] \notin {"commit", "abort"}
  BY <1>1, OneCommit
<1>3. CASE UNCHANGED <<botMu, at>> /\ \E l \in PreparedLoops : Abort(l)
  <2>1. PICK l \in PreparedLoops : exec' = [exec EXCEPT ![Cur(l)] = "aborted"]
    BY <1>3 DEF Abort
  <2>2. \A r \in Runs : exec'[r] = "prepared" => exec[r] = "prepared"
    BY <2>1 DEF RunTypes
  <2>3. \A d \in Callers : at'[d] # "commit"
    BY <1>1, <1>2, <1>3
  <2>4. \A d \in Callers : at'[d] \in {"commit", "abort"} <=> botMu' = d
    BY <1>3 DEF CommitInv
  <2>5. \A r \in Runs :
           exec'[r] = "prepared" => \E d \in Callers : botMu' = d /\ r[1] \notin reserved'
    BY <1>1, <1>3, <2>2 DEF CommitInv
  <2>6. QED
    BY <2>3, <2>4, <2>5 DEF CommitInv
<1>4. CASE /\ PreparedLoops = {} /\ botMu' = NoCaller /\ at' = [at EXCEPT ![c] = "idle"]
           /\ UNCHANGED exec
  <2>1. \A d \in Callers : at'[d] \notin {"commit", "abort"}
    BY <1>2, <1>4 DEF CallTypes
  <2>2. ASSUME NEW r \in Runs PROVE exec'[r] # "prepared"
    <3>1. exec[r] = "prepared" => Cur(r[1]) = r /\ running[r[1]]
      BY DEF RunInv, LiveExec
    <3>2. r[1] \in Loops /\ (running[r[1]] => done[r[1]] # 0)
      BY RunNumbers, NewestRun
    <3>3. QED
      BY <1>4, <3>1, <3>2 DEF PreparedLoops
  <2>3. NoCaller \notin Callers
    BY BotLoopsAssumption DEF BotLoopsAssumption
  <2>4. QED
    BY <1>4, <2>1, <2>2, <2>3 DEF CommitInv
<1>5. QED
  BY <1>3, <1>4 DEF CommitAbort, loopVars, runVars

LEMMA CommitPublishes ==
  ASSUME RunTypes, CallTypes, BotTypes, CommitInv, NEW c \in Callers, CommitPublish(c)
  PROVE  CommitInv'
<1>1. /\ botMu' = NoCaller /\ at' = [at EXCEPT ![c] = "idle"] /\ at[c] = "commit"
      /\ \A r \in Runs : exec'[r] # "prepared"
  BY DEF CommitPublish
<1>2. \A d \in Callers : at'[d] \notin {"commit", "abort"}
  BY <1>1, OneCommit DEF CallTypes
<1>3. NoCaller \notin Callers
  BY BotLoopsAssumption DEF BotLoopsAssumption
<1>4. QED
  BY <1>1, <1>2, <1>3 DEF CommitInv

LEMMA CommitStep ==
  ASSUME RunTypes, RunInv, CallTypes, BotTypes, CommitInv, [Next]_vars
  PROVE  CommitInv'
<1>1. ASSUME NEW c \in Callers, CallStep(c) \/ Calls(c) PROVE CommitInv'
  BY <1>1, CommitStarts, CommitPrepares, CommitRefused, CommitAborts, CommitPublishes,
     CallersOutsideCommit
<1>2. QED
  BY <1>1, OutsideCommit DEF Next

-----------------------------------------------------------------------------
(* The inductive invariant.                                                 *)

LEMMA InitInv ==
  ASSUME Init
  PROVE  BotInv
<1>1. RunTypes
  BY RunsAre DEF Init, RunTypes, Fresh
<1>2. RunInv
  BY RunsAre DEF Init, RunInv, LiveExec, Fresh
<1>3. WatchInv
  BY DEF Init, WatchInv, WatchOf
<1>4. CallTypes /\ CallInv
  BY DEF Init, CallTypes, CallPlaces, CallInv, CallOf, HasRun
<1>5. BotTypes /\ Reservations
  BY DEF Init, BotTypes, Reservations
<1>6. CommitInv
  BY BotLoopsAssumption DEF Init, CommitInv, BotLoopsAssumption
<1>7. QED
  BY <1>1, <1>2, <1>3, <1>4, <1>5, <1>6 DEF BotInv

LEMMA InvStep ==
  ASSUME BotInv, [Next]_vars
  PROVE  BotInv'
<1> USE DEF BotInv
<1>1. RunTypes' /\ RunInv'
  BY StepEffect, RunInvStep
<1>2. WatchInv' /\ CallTypes' /\ CallInv' /\ BotTypes' /\ Reservations' /\ CommitInv'
  BY WatchersStep, CallersStep, BotTypesStep, ReservationsStep, CommitStep
<1>3. QED
  BY <1>1, <1>2

LEMMA Invariance == Spec => []BotInv
<1>1. Init => BotInv
  BY InitInv
<1>2. BotInv /\ [Next]_vars => BotInv'
  BY InvStep
<1>3. QED
  BY <1>1, <1>2, PTL DEF Spec

\* The types of the runs and the loops' registry; a run that is prepared or launched is the one
\* that its Loop holds in done (Loop.prepareStart, abort and execute).
THEOREM TypeCorrect == Spec => []TypeOK
<1>1. BotInv => TypeOK
  BY DEF BotInv, RunTypes, RunInv, LiveExec, Ended, WatchInv, BotTypes, TypeOK
<1>2. QED
  BY <1>1, Invariance, PTL

\* Whatever users, watchers and callers do meanwhile, loadExtension publishes an extension's
\* loops together with it or not at all, and no loop belongs to two loaded extensions.
THEOREM LoadingIsAtomic == Spec => []LoadIsAtomic
<1>1. BotInv => LoadIsAtomic
  <2> SUFFICES ASSUME BotInv, BotFree PROVE PreparedLoops = {}
    BY DEF LoadIsAtomic, BotInv, Reservations
  <2>1. \A r \in Runs : exec[r] # "prepared"
    BY BotLoopsAssumption DEF BotInv, CommitInv, BotFree, BotLoopsAssumption
  <2>2. \A l \in Loops : done[l] # 0 => Cur(l) \in Runs
    BY NewestRun DEF BotInv
  <2>3. QED
    BY <2>1, <2>2 DEF PreparedLoops
<1>2. QED
  BY <1>1, Invariance, PTL


\* Whoever Loop.Wait or Loop.Stop tells the end of a run is given that run's result, unless
\* the run was aborted or the Loop has been started again.
THEOREM WaitersGetResults == Spec => WaiterGetsItsResult
<1>1. ASSUME BotInv, NEW c \in Callers, Return(c)
      PROVE  LET r == onRun[c] IN exec[r] = "aborted" \/ lastErr[r[1]] = result[r]
                                    \/ prepared[r[1]] > r[2]
  <2>1. PICK r \in Runs : r = onRun[c]
    BY <1>1 DEF BotInv, CallInv, CallOf, Return
  <2>2. r[2] <= prepared[r[1]] /\ prepared[r[1]] \in Nat /\ r[2] \in Nat
    BY <1>1, <2>1, RunNumbers DEF BotInv, CallInv, CallOf, HasRun, Return
  <2>3. exec[r] = "aborted" \/ exec[r] = "over"
    BY <1>1, <2>1 DEF Return, Over
  <2>4. (exec[r] = "over" /\ r[2] = prepared[r[1]]) => lastErr[r[1]] = result[r]
    BY <1>1 DEF BotInv, RunInv
  <2>5. QED
    BY <2>1, <2>2, <2>3, <2>4
<1>2. BotInv => \A c \in Callers : Return(c) =>
          LET r == onRun[c] IN exec[r] = "aborted" \/ lastErr[r[1]] = result[r]
                                 \/ prepared[r[1]] > r[2]
  BY <1>1
<1>3. QED
  BY <1>2, Invariance, PTL DEF WaiterGetsItsResult

LEMMA LiveRunIsNewest ==
  ASSUME BotInv, NEW r \in owned
  PROVE  /\ r \in Runs /\ ~Over(r) /\ r[1] \in Loops /\ r = <<r[1], r[2]>> /\ running[r[1]]
         /\ r[2] = prepared[r[1]] /\ r[2] \in Nat
<1>1. r \in Runs /\ exec[r] \in LiveExec /\ running[r[1]] /\ Cur(r[1]) = r
  BY DEF BotInv, RunTypes, RunInv
<1>2. r[1] \in Loops /\ r = <<r[1], r[2]>> /\ r[2] \in Nat
  BY <1>1, RunsAre
<1>3. done[r[1]] = prepared[r[1]]
  BY <1>1, <1>2 DEF BotInv, RunInv
<1>4. QED
  BY <1>1, <1>2, <1>3 DEF Cur, Over, LiveExec

\* The three ways in which a live managed loop is forgotten.
ForgottenAsPromised(r) ==
    \/ \E e \in loaded : e \notin loaded' /\ r[1] \in Staged[e]
    \/ \E q \in Runs : q[1] = r[1] /\ q[2] < r[2] /\ watcher[q] = "forget" /\ watcher'[q] = "none"
    \/ \E c \in Callers : at[c] = "stopLoopForget" /\ onRun[c][1] = r[1]
                             /\ onRun[c][2] < r[2] /\ at'[c] = "idle"

LEMMA ForgottenStep ==
  ASSUME BotInv, Next, NEW r \in owned, r[1] \in managed, r[1] \notin managed'
  PROVE  ForgottenAsPromised(r)
<1>0. /\ r \in Runs /\ ~Over(r) /\ r[1] \in Loops /\ r = <<r[1], r[2]>> /\ running[r[1]]
      /\ r[2] = prepared[r[1]] /\ r[2] \in Nat
  BY LiveRunIsNewest
<1>1. ASSUME NEW q \in Runs, Forget(q) PROVE ForgottenAsPromised(r)
  <2>1. q[1] = r[1] /\ watcher[q] = "forget" /\ watcher'[q] = "none"
    BY <1>1 DEF Forget, BotInv, WatchInv
  <2>2. watching[q] \in q[2]..prepared[q[1]] /\ Over(<<q[1], watching[q]>>)
    BY <2>1 DEF BotInv, WatchInv, WatchOf
  <2>3. watching[q] # r[2]
    BY <1>0, <2>1, <2>2
  <2>4. q[2] < r[2]
    BY <1>0, <2>1, <2>2, <2>3, RunNumbers DEF BotInv
  <2>5. QED
    BY <2>1, <2>4 DEF ForgottenAsPromised
<1>2. ASSUME NEW c \in Callers, StopLoopForget(c) PROVE ForgottenAsPromised(r)
  <2>1. /\ at[c] = "stopLoopForget" /\ onRun[c][1] = r[1] /\ at'[c] = "idle"
    BY <1>2 DEF StopLoopForget, Goes, BotInv, CallTypes
  <2>2. onRun[c][2] < prepared[onRun[c][1]]
    BY <1>0, <2>1 DEF BotInv, CallInv, CallOf
  <2>3. QED
    BY <1>0, <2>1, <2>2 DEF ForgottenAsPromised
<1>3. ASSUME NEW c \in Callers, NEW e \in Extensions, Unload(c, e) \/ CloseUnload(c, e)
      PROVE  ForgottenAsPromised(r)
  BY <1>3 DEF Unload, CloseUnload, Detach, ForgottenAsPromised
<1>4. ASSUME NEW q \in Runs, RunStep(q) PROVE UNCHANGED managed
  BY <1>4 DEF RunStep, Enter, Iterate, Timer, WaitStopped, WaitCancelled, Finish, Moves, Returns,
              botVars
<1>5. ASSUME NEW q \in Runs, WatchStep(q) PROVE Forget(q) \/ UNCHANGED managed
  BY <1>5 DEF WatchStep, Watch, WatchEnds, botVars
<1>6. ASSUME NEW l \in Loops, Start(l) \/ StartLoop(l) \/ Cancel(l) PROVE managed \subseteq managed'
  BY <1>6 DEF Start, StartLoop, Cancel, botVars
<1>7. ASSUME NEW c \in Callers, CallStep(c)
      PROVE  \/ StopLoopForget(c) \/ \E e \in Extensions : CloseUnload(c, e)
             \/ managed \subseteq managed'
  BY <1>7 DEF CallStep, Return, StopLoopStop, StopLoopWait, StopLoopCheck,
              CommitPrepare, CommitRefuse, StopNext, CommitAbort, CommitPublish, StopNextEnds,
              UnloadEnds, CloseLoops, CloseEnds, botVars
<1>8. ASSUME NEW c \in Callers, Calls(c)
      PROVE  (\E e \in Extensions : Unload(c, e)) \/ UNCHANGED managed
  BY <1>8 DEF Calls, Stop, Wait, StopLoop, GiveUp, Load, Close, botVars
<1>9. QED
  BY <1>1, <1>2, <1>3, <1>4, <1>5, <1>6, <1>7, <1>8 DEF Next

\* The Bot keeps a live loop of its own until its extension goes; a watchLoop or a StopLoop
\* takes it away only if it was about an earlier run.
THEOREM ForgottenOnlyAsPromised == Spec => ForgottenOnlyByOlderRun
<1>1. BotInv /\ Next => \A r \in owned : (r[1] \in managed /\ r[1] \notin managed')
                                            => ForgottenAsPromised(r)
  BY ForgottenStep
<1>2. (UNCHANGED vars) => managed' = managed
  BY DEF vars, botVars
<1>3. BotInv /\ [Next]_vars =>
        \A r \in owned : (r[1] \in managed /\ r[1] \notin managed') =>
          \/ \E e \in loaded : e \notin loaded' /\ r[1] \in Staged[e]
          \/ \E q \in Runs : q[1] = r[1] /\ q[2] < r[2] /\ watcher[q] = "forget"
                                /\ watcher'[q] = "none"
          \/ \E c \in Callers : at[c] = "stopLoopForget" /\ onRun[c][1] = r[1]
                                /\ onRun[c][2] < r[2] /\ at'[c] = "idle"
  BY <1>1, <1>2 DEF ForgottenAsPromised
<1>4. QED
  BY <1>3, Invariance, PTL DEF Spec, ForgottenOnlyByOlderRun

=============================================================================
