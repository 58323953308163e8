----------------------------- MODULE VoiceQueue -----------------------------
(***************************************************************************)
(* voice.Queue (voice/queue.go): the worker that plays PCM sources one after *)
(* another, and the goroutines that enqueue, drain, stop, skip, clear, pause *)
(* and resume it.  A step is one critical section of q.mu, one receive, or   *)
(* one call of a source, of the Player or of the track-end handler.          *)
(*                                                                         *)
(* A wake-up, a cancellation and the closing of sources that a caller does   *)
(* after it released q.mu are steps of their own.  Not represented: PCM and  *)
(* Opus data, the timer of a retry, and Wait, Drain's and Stop's wait, which *)
(* observe the end of a run and change nothing.                             *)
(***************************************************************************)
EXTENDS Naturals, SequencesExt

CONSTANTS
    Sources,    \* PCM sources; each is enqueued once
    Callers,    \* goroutines that call the Queue's methods
    NoSource,   \* nil
    MaxRuns     \* bound: calls of Start

ASSUME VoiceQueueAssumption ==
    NoSource \notin Sources /\ MaxRuns \in Nat \ {0}

VARIABLES
    continueOnError,  \* option of NewQueue
    pending, current, \* the queue and the source being played
    paused, running, draining,
    wake,             \* the one-slot channel wake of the run holds a token
    run,              \* number of the last run; hasRun is run > 0
    queueCause,       \* why the run's context is done: "none", "stopped", "parent"
    skipped,          \* the current track's own context was cancelled by Skip
    worker,           \* where the goroutine execute is
    stage,            \* what playSource does once it is not paused
    trackErr,         \* the error of the track: "nil", "skipped", "failed", "canceled"
    result,           \* the result of play
    dropped,          \* sources execute took out of pending to close them
    calling,          \* where each caller is
    callRun,          \* the run whose channel or context it captured
    held,             \* the sources it took to close
    accepted, closed  \* history: sources accepted, sources whose Close has run

queueVars == <<pending, current, paused, running, draining>>
runVars   == <<wake, run, queueCause, skipped>>
workVars  == <<worker, stage, trackErr, result, dropped>>
callVars  == <<calling, callRun, held>>
vars == <<continueOnError, queueVars, runVars, workVars, callVars, accepted, closed>>

Init ==
    /\ continueOnError \in BOOLEAN
    /\ pending = <<>> /\ current = NoSource
    /\ paused = FALSE /\ running = FALSE /\ draining = FALSE
    /\ wake = FALSE /\ run = 0 /\ queueCause = "none" /\ skipped = FALSE
    /\ worker = "off" /\ stage = "read" /\ trackErr = "nil" /\ result = "nil"
    /\ dropped = <<>>
    /\ calling = [c \in Callers |-> "idle"]
    /\ callRun = [c \in Callers |-> 0]
    /\ held = [c \in Callers |-> <<>>]
    /\ accepted = {} /\ closed = {}

-----------------------------------------------------------------------------
(* Contexts.  A track's context is derived from the run's.                   *)

QueueDone == queueCause # "none"
TrackDone == skipped \/ QueueDone

\* context.Cause of the track's context, as the error of the track.
TrackCause == IF skipped THEN "skipped" ELSE "failed"

\* What play returns once the run's context is done.
StopResult == IF queueCause = "stopped" THEN "nil" ELSE "failed"

-----------------------------------------------------------------------------
(* The callers.                                                             *)

Calls(c, to, sources) ==
    /\ calling' = [calling EXCEPT ![c] = to]
    /\ callRun' = [callRun EXCEPT ![c] = IF to = "idle" THEN 0 ELSE run]
    /\ held' = [held EXCEPT ![c] = sources]

\* Sources given to one Enqueue: one or two are enough to tell it is atomic.
Batches ==
    LET fresh == Sources \ accepted
    IN  {<<s>> : s \in fresh} \cup {b \in fresh \X fresh : b[1] # b[2]}

\* Mutant: the worker is not woken.
EnqueueQuietly(c, batch) ==
    /\ calling[c] = "idle" /\ ~draining
    /\ pending' = pending \o batch
    /\ accepted' = accepted \cup ToSet(batch)
    /\ UNCHANGED <<continueOnError, current, paused, running, draining, runVars, workVars,
                   callVars, closed>>

\* A nil source or another channel count is refused before anything changes.
Enqueue(c, batch) ==
    /\ calling[c] = "idle" /\ ~draining
    /\ pending' = pending \o batch
    /\ accepted' = accepted \cup ToSet(batch)
    /\ Calls(c, IF running THEN "notify" ELSE "idle", <<>>)
    /\ UNCHANGED <<continueOnError, current, paused, running, draining, runVars, workVars,
                   closed>>

Start ==
    /\ ~running /\ run < MaxRuns
    /\ running' = TRUE /\ draining' = FALSE /\ paused' = FALSE
    /\ run' = run + 1 /\ wake' = FALSE /\ queueCause' = "none"
    /\ worker' = "next" /\ result' = "nil"
    /\ UNCHANGED <<continueOnError, pending, current, skipped, stage, trackErr, dropped,
                   callVars, accepted, closed>>

\* The context given to Start is cancelled.
CancelParent ==
    /\ running /\ ~QueueDone
    /\ queueCause' = "parent"
    /\ UNCHANGED <<continueOnError, queueVars, wake, run, skipped, workVars, callVars,
                   accepted, closed>>

Drain(c) ==
    /\ calling[c] = "idle" /\ running
    /\ draining' = TRUE
    /\ Calls(c, "notify", <<>>)
    /\ UNCHANGED <<continueOnError, pending, current, paused, running, runVars, workVars,
                   accepted, closed>>

\* notifyQueue on the channel that was captured.
Notify(c) ==
    /\ calling[c] = "notify"
    /\ wake' = (wake \/ callRun[c] = run)
    /\ Calls(c, "idle", <<>>)
    /\ UNCHANGED <<continueOnError, queueVars, run, queueCause, skipped, workVars,
                   accepted, closed>>

OfCurrent == IF current = NoSource THEN <<>> ELSE <<current>>

\* Mutant: Stop forgets the pending sources it discards.
StopDiscards(c) ==
    /\ calling[c] = "idle" /\ running
    /\ draining' = TRUE /\ pending' = <<>>
    /\ Calls(c, "stop", OfCurrent)
    /\ UNCHANGED <<continueOnError, current, paused, running, runVars, workVars, accepted,
                   closed>>

Stop(c) ==
    /\ calling[c] = "idle" /\ running
    /\ draining' = TRUE /\ pending' = <<>>
    /\ Calls(c, "stop", OfCurrent \o pending)
    /\ UNCHANGED <<continueOnError, current, paused, running, runVars, workVars, accepted,
                   closed>>

\* cancel(ErrQueueStopped): the first cause stays, and a run that is over stays over.
StopCancel(c) ==
    /\ calling[c] = "stop"
    /\ queueCause' = IF running /\ callRun[c] = run /\ ~QueueDone THEN "stopped"
                     ELSE queueCause
    /\ calling' = [calling EXCEPT ![c] = "close"]
    /\ UNCHANGED <<continueOnError, queueVars, wake, run, skipped, workVars, callRun, held,
                   accepted, closed>>

Skip(c) ==
    /\ calling[c] = "idle" /\ running /\ current # NoSource
    /\ Calls(c, "skip", <<current>>)
    /\ UNCHANGED <<continueOnError, queueVars, runVars, workVars, accepted, closed>>

\* cancel(ErrTrackSkipped) of the track that was current.
SkipCancel(c) ==
    /\ calling[c] = "skip"
    /\ skipped' = (skipped \/ (current = Head(held[c]) /\ ~TrackDone))
    /\ calling' = [calling EXCEPT ![c] = "close"]
    /\ UNCHANGED <<continueOnError, queueVars, wake, run, queueCause, workVars, callRun,
                   held, accepted, closed>>

Clear(c) ==
    /\ calling[c] = "idle" /\ pending # <<>>
    /\ pending' = <<>>
    /\ Calls(c, "close", pending)
    /\ UNCHANGED <<continueOnError, current, paused, running, draining, runVars, workVars,
                   accepted, closed>>

\* queuedSource.close: the caller that comes second waits for the first.
CloseHeld(c) ==
    /\ calling[c] = "close"
    /\ IF held[c] = <<>>
       THEN Calls(c, "idle", <<>>) /\ UNCHANGED closed
       ELSE /\ closed' = closed \cup {Head(held[c])}
            /\ held' = [held EXCEPT ![c] = Tail(@)]
            /\ UNCHANGED <<calling, callRun>>
    /\ UNCHANGED <<continueOnError, queueVars, runVars, workVars, accepted>>

Pause ==
    /\ running /\ current # NoSource
    /\ paused' = TRUE
    /\ UNCHANGED <<continueOnError, pending, current, running, draining, runVars, workVars,
                   callVars, accepted, closed>>

Resume(c) ==
    /\ calling[c] = "idle" /\ running /\ current # NoSource /\ paused
    /\ paused' = FALSE
    /\ Calls(c, "notify", <<>>)
    /\ UNCHANGED <<continueOnError, pending, current, running, draining, runVars, workVars,
                   accepted, closed>>

-----------------------------------------------------------------------------
(* The worker: execute, play, next and playSource.                           *)

\* next: the head of the queue is taken.
Take ==
    /\ worker = "next" /\ pending # <<>>
    /\ current' = Head(pending) /\ pending' = Tail(pending)
    /\ paused' = FALSE /\ skipped' = FALSE
    /\ worker' = "gate" /\ stage' = "read" /\ trackErr' = "nil"
    /\ UNCHANGED <<continueOnError, running, draining, wake, run, queueCause, result,
                   dropped, callVars, accepted, closed>>

\* next: the queue is empty; a draining one ends (io.EOF), another one waits.
FindEmpty ==
    /\ worker = "next" /\ pending = <<>>
    /\ worker' = IF draining THEN "drop" ELSE "sleep"
    /\ UNCHANGED <<continueOnError, queueVars, runVars, stage, trackErr, result, dropped,
                   callVars, accepted, closed>>

Wakes(from, to) ==
    /\ worker = from /\ wake
    /\ wake' = FALSE
    /\ worker' = to
    /\ UNCHANGED <<continueOnError, queueVars, run, queueCause, skipped, stage, trackErr,
                   result, dropped, callVars, accepted, closed>>

SleepEnds ==
    /\ worker = "sleep" /\ QueueDone
    /\ worker' = "drop" /\ result' = StopResult
    /\ UNCHANGED <<continueOnError, queueVars, runVars, stage, trackErr, dropped,
                   callVars, accepted, closed>>

\* One test of q.paused in waitUntilResumed.
Gate ==
    /\ worker = "gate"
    /\ worker' = IF paused THEN "hold" ELSE stage
    /\ UNCHANGED <<continueOnError, queueVars, runVars, stage, trackErr, result, dropped,
                   callVars, accepted, closed>>

\* playSource goes on, or returns the error of the track.
Plays(from, to, next) ==
    /\ worker = from
    /\ worker' = to /\ stage' = next
    /\ UNCHANGED <<continueOnError, queueVars, runVars, trackErr, result, dropped,
                   callVars, accepted, closed>>

PlayReturns(from, err) ==
    /\ worker = from
    /\ worker' = "close" /\ trackErr' = err
    /\ UNCHANGED <<continueOnError, queueVars, runVars, stage, result, dropped, callVars,
                   accepted, closed>>

\* A select of waitUntilResumed or of the retry that sees a context done.
Cut(from) == \/ TrackDone /\ PlayReturns(from, TrackCause)
             \/ QueueDone /\ PlayReturns(from, "failed")

\* Mutant: a paused track waits for the run's context only.
HoldCutByRun == QueueDone /\ PlayReturns("hold", "failed")

HoldCut == Cut("hold")

\* ReadFrame: a frame, io.EOF, or an error, replaced by the cause when there is one.
ReadFrame == Plays("read", "gate", "write") \/ PlayReturns("read", "nil")
ReadCut   == TrackDone /\ PlayReturns("read", TrackCause)
ReadFails == ~TrackDone /\ PlayReturns("read", "failed")

\* WriteFrame: the frame is sent, the transport is not ready, an encoder error, or
\* the context is done: ctx.Err(), not its cause.
WriteFrame == Plays("write", "gate", "read") \/ Plays("write", "retry", "write")
WriteCut   == TrackDone /\ PlayReturns("write", "canceled")
WriteFails == PlayReturns("write", "failed")

\* The retry timer fires, or a context is done.
RetryWrite == Plays("retry", "write", "write")
RetryCut   == Cut("retry")

\* An error joins the one of the track; it does not hide a skip.
Joined(err) == IF err = "nil" THEN {"nil", "failed"} ELSE {err}

\* Mutant: the track is left open and the next one begins.
CloseNothing ==
    /\ worker = "close"
    /\ worker' = "unset"
    /\ UNCHANGED <<continueOnError, queueVars, runVars, stage, trackErr, result, dropped,
                   callVars, accepted, closed>>

CloseTrack ==
    /\ worker = "close"
    /\ closed' = closed \cup {current}
    /\ trackErr' \in Joined(trackErr)
    /\ worker' = "unset"
    /\ UNCHANGED <<continueOnError, queueVars, runVars, stage, result, dropped,
                   callVars, accepted>>

\* Mutant: q.current keeps the track that is over.
UnsetKeeps ==
    /\ worker = "unset"
    /\ paused' = FALSE /\ skipped' = FALSE
    /\ worker' = "handler"
    /\ UNCHANGED <<continueOnError, pending, current, running, draining, wake, run, queueCause,
                   stage, trackErr, result, dropped, callVars, accepted, closed>>

Unset ==
    /\ worker = "unset"
    /\ current' = NoSource /\ paused' = FALSE /\ skipped' = FALSE
    /\ worker' = "handler"
    /\ UNCHANGED <<continueOnError, pending, running, draining, wake, run, queueCause,
                   stage, trackErr, result, dropped, callVars, accepted, closed>>

\* The track-end handler returns, and play goes on or ends.
HandlerReturns ==
    /\ worker = "handler"
    /\ trackErr' \in Joined(trackErr)
    /\ IF QueueDone
       THEN worker' = "drop" /\ result' = StopResult
       ELSE IF trackErr' \in {"failed", "canceled"} /\ ~continueOnError
            THEN worker' = "drop" /\ result' = trackErr'
            ELSE worker' = "next" /\ UNCHANGED result
    /\ UNCHANGED <<continueOnError, queueVars, runVars, stage, dropped, callVars,
                   accepted, closed>>

\* Mutant: what is pending stays in the queue for another run.
DropNothing ==
    /\ worker = "drop"
    /\ draining' = TRUE
    /\ worker' = "sweep"
    /\ UNCHANGED <<continueOnError, pending, current, paused, running, runVars, stage,
                   trackErr, result, dropped, callVars, accepted, closed>>

\* execute: what is still pending is dropped, closed, and the run is over.
Drop ==
    /\ worker = "drop"
    /\ draining' = TRUE /\ pending' = <<>>
    /\ dropped' = pending
    /\ worker' = "sweep"
    /\ UNCHANGED <<continueOnError, current, paused, running, runVars, stage, trackErr,
                   result, callVars, accepted, closed>>

Sweep ==
    /\ worker = "sweep" /\ dropped # <<>>
    /\ closed' = closed \cup {Head(dropped)}
    /\ dropped' = Tail(dropped)
    /\ UNCHANGED <<continueOnError, queueVars, runVars, worker, stage, trackErr, result,
                   callVars, accepted>>

Finish ==
    /\ worker = "sweep" /\ dropped = <<>>
    /\ running' = FALSE /\ draining' = FALSE /\ paused' = FALSE
    /\ current' = NoSource /\ queueCause' = "none"
    /\ worker' = "off"
    /\ UNCHANGED <<continueOnError, pending, wake, run, skipped, stage, trackErr, result,
                   dropped, callVars, accepted, closed>>

-----------------------------------------------------------------------------
CallerNext(c) ==
    \/ \E batch \in Batches : Enqueue(c, batch)
    \/ Drain(c) \/ Stop(c) \/ Skip(c) \/ Clear(c) \/ Resume(c)
    \/ Notify(c) \/ StopCancel(c) \/ SkipCancel(c) \/ CloseHeld(c)

\* Steps that only need the scheduler, and sources and handlers that return.
WorkerStep ==
    \/ Take \/ FindEmpty \/ Wakes("sleep", "next") \/ SleepEnds
    \/ Gate \/ Wakes("hold", "gate")
    \/ CloseTrack \/ Unset \/ HandlerReturns \/ Drop \/ Sweep \/ Finish

\* What a done context makes the blocking calls return.
CutStep == HoldCut \/ ReadCut \/ WriteCut \/ RetryCut

PlayStep == ReadFrame \/ ReadFails \/ WriteFrame \/ WriteFails \/ RetryWrite

Next ==
    \/ Start \/ CancelParent \/ Pause
    \/ \E c \in Callers : CallerNext(c)
    \/ WorkerStep \/ CutStep \/ PlayStep

Spec == Init /\ [][Next]_vars

\* Strong fairness for a done context: a source honours it when it is asked often
\* enough (PCMSource), and a select does not pass it over for ever.
Fairness ==
    /\ WF_vars(WorkerStep) /\ SF_vars(CutStep)
    /\ \A c \in Callers : WF_vars(Notify(c) \/ StopCancel(c) \/ SkipCancel(c) \/ CloseHeld(c))

FairSpec == Spec /\ Fairness

-----------------------------------------------------------------------------
Playing == {"gate", "hold", "read", "write", "retry", "close", "unset"}

(* The variables have the shapes of the Queue's fields, and q.current is set       *)
(* exactly while the worker is inside a track.                                    *)
TypeOK ==
    /\ continueOnError \in BOOLEAN
    /\ pending \in Seq(Sources) /\ current \in Sources \cup {NoSource}
    /\ paused \in BOOLEAN /\ running \in BOOLEAN /\ draining \in BOOLEAN
    /\ wake \in BOOLEAN /\ run \in 0..MaxRuns /\ skipped \in BOOLEAN
    /\ queueCause \in {"none", "stopped", "parent"}
    /\ worker \in Playing \cup {"off", "next", "sleep", "handler", "drop", "sweep"}
    /\ stage \in {"read", "write"}
    /\ trackErr \in {"nil", "skipped", "failed", "canceled"}
    /\ result \in {"nil", "failed", "canceled"}
    /\ dropped \in Seq(Sources)
    /\ calling \in [Callers -> {"idle", "notify", "stop", "skip", "close"}]
    /\ callRun \in [Callers -> 0..MaxRuns] /\ held \in [Callers -> Seq(Sources)]
    /\ accepted \subseteq Sources /\ closed \subseteq Sources
    /\ running <=> worker # "off"
    /\ current # NoSource <=> worker \in Playing

(* No source is lost: one that was accepted and is not closed is in the queue, is   *)
(* the current track, or is in the hands of somebody who will close it. Stop, Clear *)
(* and the end of a run all take sources away from the worker.                     *)
NoSourceLost ==
    \A s \in accepted \ closed :
        \/ s = current
        \/ s \in ToSet(pending) \cup ToSet(dropped)
        \/ \E c \in Callers : s \in ToSet(held[c])

(* No lost wake-up: the one-slot channel serves enqueue, drain and resume, and a    *)
(* paused track may consume a token that was meant for the queue. Still, a worker  *)
(* that waits although it has something to do has a token, or gets one, or its run *)
(* is being cancelled.                                                            *)
HasWork ==
    \/ worker = "sleep" /\ (pending # <<>> \/ draining)
    \/ worker = "hold" /\ ~paused
NoLostWakeup ==
    HasWork => \/ wake \/ QueueDone
               \/ \E c \in Callers : /\ calling[c] \in {"notify", "stop"}
                                      /\ callRun[c] = run

(* Stop, and cancelling the context given to Start, close every source the queue    *)
(* has at that time, whatever the worker is doing and whoever else calls.          *)
SourcesReleased ==
    \A s \in Sources : (QueueDone /\ s \in accepted) ~> (s \in closed)

(* Skip ends the current track, also when it is paused or the transport is          *)
(* reconnecting.                                                                 *)
SkippedTrackEnds == skipped ~> ~skipped

Order == INSTANCE TrackOrder
         WITH waiting <- pending, playing <- current

(* The queue implements TrackOrder: first come first served, one track at a time,   *)
(* closed before the next begins.                                                 *)
KeepsTrackOrder == Order!Spec
=============================================================================
