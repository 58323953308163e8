-------------------------- MODULE VoiceQueueProofs --------------------------
(***************************************************************************)
(* Theorems about the voice queue, for any sources, callers and number of    *)
(* runs, and that it implements TrackOrder.                                 *)
(***************************************************************************)
EXTENDS VoiceQueue, SequenceTheorems, TLAPS

\* What is in the queue was accepted, is there once, and is nowhere else.
Distinct(s) == \A i, j \in DOMAIN s : s[i] = s[j] => i = j

Queued ==
    /\ ToSet(pending) \subseteq accepted /\ Distinct(pending)
    /\ \A s \in ToSet(pending) :
          /\ s # current /\ s \notin closed /\ s \notin ToSet(dropped)
          /\ \A c \in Callers : s \notin ToSet(held[c])

\* Whoever has a source has an accepted one.
InHand ==
    /\ current \in accepted \cup {NoSource}
    /\ closed \cup ToSet(dropped) \subseteq accepted
    /\ \A c \in Callers : ToSet(held[c]) \subseteq accepted

\* Nobody drops a source he holds: a caller that wakes the worker holds none, only a
\* worker that closes what it dropped has some of it, and a track is closed before it
\* stops to be the current one.
Handover ==
    /\ \A c \in Callers : calling[c] \in {"idle", "notify"} => held[c] = <<>>
    /\ worker # "sweep" => dropped = <<>>
    /\ worker = "unset" => current \in closed

QueueInv == TypeOK /\ Queued /\ InHand /\ Handover /\ NoSourceLost /\ NoLostWakeup

-----------------------------------------------------------------------------
(* Sequences as sets.                                                       *)

LEMMA ToSetEmpty == ToSet(<<>>) = {}
BY DEF ToSet

LEMMA ToSetOne == ASSUME NEW x PROVE ToSet(<<x>>) = {x} /\ Distinct(<<x>>)
BY DEF ToSet, Distinct

LEMMA ToSetTwo ==
  ASSUME NEW x, NEW y, x # y
  PROVE  ToSet(<<x, y>>) = {x, y} /\ Distinct(<<x, y>>)
BY DEF ToSet, Distinct

LEMMA ToSetType ==
  ASSUME NEW S, NEW s \in Seq(S)
  PROVE  ToSet(s) \subseteq S
BY LenProperties, ElementOfSeq DEF ToSet

LEMMA ToSetConcat ==
  ASSUME NEW S, NEW s \in Seq(S), NEW t \in Seq(S)
  PROVE  /\ s \o t \in Seq(S)
         /\ ToSet(s \o t) = ToSet(s) \cup ToSet(t)
<1>1. s \o t \in Seq(S) /\ Len(s \o t) = Len(s) + Len(t)
      /\ \A i \in 1 .. Len(s) + Len(t) :
            (s \o t)[i] = IF i <= Len(s) THEN s[i] ELSE t[i - Len(s)]
  BY ConcatProperties
<1>2. /\ Len(s) \in Nat /\ Len(t) \in Nat
      /\ DOMAIN s = 1 .. Len(s) /\ DOMAIN t = 1 .. Len(t)
      /\ DOMAIN (s \o t) = 1 .. Len(s) + Len(t)
  BY <1>1, LenProperties
<1>3. ASSUME NEW i \in 1 .. Len(s) + Len(t)
      PROVE  (s \o t)[i] \in ToSet(s) \cup ToSet(t)
  <2>1. CASE i <= Len(s)
    BY <1>1, <1>2, <2>1 DEF ToSet
  <2>2. CASE ~(i <= Len(s))
    <3>1. i - Len(s) \in 1 .. Len(t)
      BY <1>2, <2>2
    <3>2. QED
      BY <1>1, <1>2, <2>2, <3>1 DEF ToSet
  <2>3. QED
    BY <2>1, <2>2
<1>4. ASSUME NEW i \in 1 .. Len(s) PROVE s[i] \in ToSet(s \o t)
  <2>1. i \in 1 .. Len(s) + Len(t) /\ i <= Len(s)
    BY <1>2
  <2>2. QED
    BY <1>1, <1>2, <2>1 DEF ToSet
<1>5. ASSUME NEW i \in 1 .. Len(t) PROVE t[i] \in ToSet(s \o t)
  <2>1. /\ i + Len(s) \in 1 .. Len(s) + Len(t) /\ ~(i + Len(s) <= Len(s))
        /\ (i + Len(s)) - Len(s) = i
    BY <1>2
  <2>2. (s \o t)[i + Len(s)] = t[i]
    BY <1>1, <2>1
  <2>3. QED
    BY <1>2, <2>1, <2>2 DEF ToSet
<1>6. QED
  BY <1>1, <1>2, <1>3, <1>4, <1>5 DEF ToSet

LEMMA DistinctConcat ==
  ASSUME NEW S, NEW s \in Seq(S), NEW t \in Seq(S), Distinct(s), Distinct(t),
         ToSet(s) \cap ToSet(t) = {}
  PROVE  Distinct(s \o t)
<1>1. Len(s \o t) = Len(s) + Len(t)
      /\ s \o t \in Seq(S)
      /\ \A i \in 1 .. Len(s) + Len(t) :
            (s \o t)[i] = IF i <= Len(s) THEN s[i] ELSE t[i - Len(s)]
  BY ConcatProperties
<1>2. /\ Len(s) \in Nat /\ Len(t) \in Nat
      /\ DOMAIN s = 1 .. Len(s) /\ DOMAIN t = 1 .. Len(t)
      /\ DOMAIN (s \o t) = 1 .. Len(s) + Len(t)
  BY <1>1, LenProperties
<1>3. SUFFICES ASSUME NEW i \in 1 .. Len(s) + Len(t), NEW j \in 1 .. Len(s) + Len(t),
                      (s \o t)[i] = (s \o t)[j]
               PROVE  i = j
  BY <1>2 DEF Distinct
<1>4. \A k \in 1 .. Len(s) : s[k] \in ToSet(s)
  BY <1>2 DEF ToSet
<1>5. \A k \in 1 .. Len(t) : t[k] \in ToSet(t)
  BY <1>2 DEF ToSet
<1>6. \A k \in 1 .. Len(s) + Len(t) : ~(k <= Len(s)) => k - Len(s) \in 1 .. Len(t)
  BY <1>2
<1>7. CASE i <= Len(s) /\ j <= Len(s)
  <2>1. i \in 1 .. Len(s) /\ j \in 1 .. Len(s)
    BY <1>2, <1>7
  <2>2. s[i] = s[j]
    BY <1>1, <1>3, <1>7
  <2>3. QED
    BY <1>2, <2>1, <2>2 DEF Distinct
<1>8. CASE ~(i <= Len(s)) /\ ~(j <= Len(s))
  <2>1. i - Len(s) \in 1 .. Len(t) /\ j - Len(s) \in 1 .. Len(t)
    BY <1>6, <1>8
  <2>2. t[i - Len(s)] = t[j - Len(s)]
    BY <1>1, <1>3, <1>8
  <2>3. i - Len(s) = j - Len(s)
    BY <1>2, <2>1, <2>2 DEF Distinct
  <2>4. QED
    BY <1>2, <2>3
<1>9. CASE i <= Len(s) /\ ~(j <= Len(s))
  <2>1. i \in 1 .. Len(s) /\ j - Len(s) \in 1 .. Len(t)
    BY <1>2, <1>6, <1>9
  <2>2. s[i] = t[j - Len(s)]
    BY <1>1, <1>3, <1>9
  <2>3. QED
    BY <1>4, <1>5, <2>1, <2>2
<1>10. CASE ~(i <= Len(s)) /\ j <= Len(s)
  <2>1. j \in 1 .. Len(s) /\ i - Len(s) \in 1 .. Len(t)
    BY <1>2, <1>6, <1>10
  <2>2. s[j] = t[i - Len(s)]
    BY <1>1, <1>3, <1>10
  <2>3. QED
    BY <1>4, <1>5, <2>1, <2>2
<1>11. QED
  BY <1>7, <1>8, <1>9, <1>10

LEMMA ToSetTail ==
  ASSUME NEW S, NEW s \in Seq(S), s # <<>>
  PROVE  /\ Head(s) \in S /\ Tail(s) \in Seq(S)
         /\ ToSet(s) = {Head(s)} \cup ToSet(Tail(s))
<1>1. /\ Head(s) \in S /\ Tail(s) \in Seq(S) /\ Len(Tail(s)) = Len(s) - 1
      /\ \A i \in 1 .. Len(Tail(s)) : Tail(s)[i] = s[i + 1]
  BY HeadTailProperties
<1>2. /\ Len(s) \in Nat \ {0} /\ DOMAIN s = 1 .. Len(s)
      /\ DOMAIN Tail(s) = 1 .. Len(s) - 1 /\ Head(s) = s[1]
  BY <1>1, LenProperties, EmptySeq
<1>3. ASSUME NEW i \in 1 .. Len(s) PROVE s[i] \in {Head(s)} \cup ToSet(Tail(s))
  <2>1. CASE i = 1
    BY <1>2, <2>1
  <2>2. CASE i # 1
    <3>1. i - 1 \in 1 .. Len(s) - 1 /\ (i - 1) + 1 = i
      BY <1>2, <2>2
    <3>2. Tail(s)[i - 1] = s[i]
      BY <1>1, <3>1
    <3>3. QED
      BY <1>2, <3>1, <3>2 DEF ToSet
  <2>3. QED
    BY <2>1, <2>2
<1>4. ASSUME NEW i \in 1 .. Len(s) - 1 PROVE Tail(s)[i] \in ToSet(s)
  <2>1. i + 1 \in 1 .. Len(s)
    BY <1>2
  <2>2. QED
    BY <1>1, <1>2, <2>1 DEF ToSet
<1>5. Head(s) \in ToSet(s)
  BY <1>2 DEF ToSet
<1>6. QED
  BY <1>1, <1>2, <1>3, <1>4, <1>5 DEF ToSet

LEMMA DistinctTail ==
  ASSUME NEW S, NEW s \in Seq(S), s # <<>>, Distinct(s)
  PROVE  Distinct(Tail(s)) /\ Head(s) \notin ToSet(Tail(s))
<1>1. /\ Tail(s) \in Seq(S) /\ Len(Tail(s)) = Len(s) - 1
      /\ \A i \in 1 .. Len(Tail(s)) : Tail(s)[i] = s[i + 1]
  BY HeadTailProperties
<1>2. /\ Len(s) \in Nat \ {0} /\ DOMAIN s = 1 .. Len(s)
      /\ DOMAIN Tail(s) = 1 .. Len(s) - 1 /\ Head(s) = s[1]
  BY <1>1, LenProperties, EmptySeq
<1>3. ASSUME NEW i \in 1 .. Len(s) - 1, NEW j \in 1 .. Len(s) - 1, Tail(s)[i] = Tail(s)[j]
      PROVE  i = j
  <2>1. i + 1 \in 1 .. Len(s) /\ j + 1 \in 1 .. Len(s)
    BY <1>2
  <2>2. s[i + 1] = s[j + 1]
    BY <1>1, <1>3
  <2>3. i + 1 = j + 1
    BY <1>2, <2>1, <2>2 DEF Distinct
  <2>4. QED
    BY <1>2, <2>3
<1>4. ASSUME NEW i \in 1 .. Len(s) - 1 PROVE Tail(s)[i] # Head(s)
  <2>1. i + 1 \in 1 .. Len(s) /\ 1 \in 1 .. Len(s) /\ i + 1 # 1
    BY <1>2
  <2>2. s[i + 1] # s[1]
    BY <1>2, <2>1 DEF Distinct
  <2>3. QED
    BY <1>1, <1>2, <2>2
<1>5. QED
  BY <1>2, <1>3, <1>4 DEF Distinct, ToSet

-----------------------------------------------------------------------------
(* Types.                                                                   *)

LEMMA CallsType ==
  ASSUME TypeOK, NEW c \in Callers,
         NEW to \in {"idle", "notify", "stop", "skip", "close"}, NEW s \in Seq(Sources),
         Calls(c, to, s)
  PROVE  /\ calling' \in [Callers -> {"idle", "notify", "stop", "skip", "close"}]
         /\ callRun' \in [Callers -> 0..MaxRuns] /\ held' \in [Callers -> Seq(Sources)]
BY VoiceQueueAssumption DEF Calls, TypeOK

LEMMA BatchType ==
  ASSUME NEW batch \in Batches
  PROVE  /\ batch \in Seq(Sources) /\ Distinct(batch)
         /\ ToSet(batch) \subseteq Sources \ accepted
<1>1. CASE \E s \in Sources \ accepted : batch = <<s>>
  BY <1>1, ToSetOne
<1>2. CASE \E b \in (Sources \ accepted) \X (Sources \ accepted) : b[1] # b[2] /\ batch = b
  <2>1. PICK s \in Sources \ accepted, t \in Sources \ accepted : s # t /\ batch = <<s, t>>
    BY <1>2
  <2>2. QED
    BY <2>1, ToSetTwo
<1>3. QED
  BY <1>1, <1>2 DEF Batches

CallTypes ==
    /\ calling \in [Callers -> {"idle", "notify", "stop", "skip", "close"}]
    /\ callRun \in [Callers -> 0..MaxRuns] /\ held \in [Callers -> Seq(Sources)]

LEMMA CallerType ==
  ASSUME TypeOK, NEW c \in Callers, CallerNext(c)
  PROVE  TypeOK'
<1> USE DEF queueVars, runVars, workVars, callVars
<1>0. /\ <<>> \in Seq(Sources) /\ OfCurrent \in Seq(Sources) /\ pending \in Seq(Sources)
      /\ held[c] \in Seq(Sources)
  BY DEF OfCurrent, TypeOK
<1> DEFINE To == {"idle", "notify", "stop", "skip", "close"}
<1>t. ASSUME NEW to \in To, NEW s \in Seq(Sources), Calls(c, to, s)
      PROVE  CallTypes'
  BY <1>t, CallsType DEF CallTypes
<1>1. ASSUME NEW batch \in Batches, Enqueue(c, batch) PROVE TypeOK'
  <2>1. batch \in Seq(Sources) /\ ToSet(batch) \subseteq Sources
    BY BatchType
  <2>2. pending' \in Seq(Sources)
    BY <1>0, <1>1, <2>1, ToSetConcat DEF Enqueue
  <2>3. Calls(c, IF running THEN "notify" ELSE "idle", <<>>)
    BY <1>1 DEF Enqueue
  <2>4. CallTypes'
    BY <1>0, <1>t, <2>3
  <2>5. QED
    BY <1>1, <2>1, <2>2, <2>4 DEF Enqueue, TypeOK, CallTypes, Playing
<1>2. CASE Drain(c)
  <2>2. CallTypes'
    BY <1>0, <1>t, <1>2 DEF Drain
  <2>3. QED
    BY <1>2, <2>2 DEF Drain, TypeOK, CallTypes, Playing
<1>3. CASE Stop(c)
  <2>1. OfCurrent \o pending \in Seq(Sources)
    BY <1>0, ToSetConcat
  <2>2. CallTypes'
    BY <1>0, <1>t, <1>3, <2>1 DEF Stop
  <2>3. QED
    BY <1>0, <1>3, <2>2 DEF Stop, TypeOK, CallTypes, Playing
<1>4. CASE Skip(c)
  <2>1. <<current>> \in Seq(Sources)
    BY <1>4 DEF Skip, TypeOK
  <2>2. CallTypes'
    BY <1>0, <1>t, <1>4, <2>1 DEF Skip
  <2>3. QED
    BY <1>4, <2>2 DEF Skip, TypeOK, CallTypes, Playing
<1>5. CASE Clear(c)
  <2>2. CallTypes'
    BY <1>0, <1>t, <1>5 DEF Clear
  <2>3. QED
    BY <1>0, <1>5, <2>2 DEF Clear, TypeOK, CallTypes, Playing
<1>6. CASE Resume(c)
  <2>2. CallTypes'
    BY <1>0, <1>t, <1>6 DEF Resume
  <2>3. QED
    <3>1. /\ paused' \in BOOLEAN
          /\ UNCHANGED <<continueOnError, pending, current, running, draining, runVars,
                         workVars, accepted, closed>>
      BY <1>6 DEF Resume
    <3>2. QED
      BY <2>2, <3>1 DEF TypeOK, CallTypes, Playing
<1>7. CASE Notify(c)
  <2>1. wake' \in BOOLEAN
    BY <1>7 DEF Notify, TypeOK
  <2>2. CallTypes'
    BY <1>0, <1>t, <1>7 DEF Notify
  <2>3. QED
    BY <1>7, <2>1, <2>2 DEF Notify, TypeOK, CallTypes, Playing
<1>8. CASE StopCancel(c)
  BY <1>8 DEF StopCancel, TypeOK, Playing
<1>9. CASE SkipCancel(c)
  <2>1. skipped' \in BOOLEAN
    BY <1>9 DEF SkipCancel, TypeOK
  <2>2. QED
    BY <1>9, <2>1 DEF SkipCancel, TypeOK, Playing
<1>10. CASE CloseHeld(c) /\ held[c] = <<>>
  <2>2. CallTypes'
    BY <1>0, <1>t, <1>10 DEF CloseHeld
  <2>3. QED
    BY <1>10, <2>2 DEF CloseHeld, TypeOK, CallTypes, Playing
<1>11. CASE CloseHeld(c) /\ held[c] # <<>>
  <2>1. Head(held[c]) \in Sources /\ Tail(held[c]) \in Seq(Sources)
    BY <1>0, <1>11, ToSetTail
  <2>2. /\ closed' = closed \cup {Head(held[c])} /\ held' = [held EXCEPT ![c] = Tail(@)]
        /\ UNCHANGED <<calling, callRun, continueOnError, queueVars, runVars, workVars, accepted>>
    BY <1>11 DEF CloseHeld
  <2>3. QED
    BY <2>1, <2>2 DEF TypeOK, Playing
<1>12. QED
  BY <1>1, <1>2, <1>3, <1>4, <1>5, <1>6, <1>7, <1>8, <1>9, <1>10, <1>11 DEF CallerNext

LEMMA WorkerType ==
  ASSUME TypeOK, WorkerStep \/ CutStep \/ PlayStep
  PROVE  TypeOK'
<1> USE VoiceQueueAssumption DEF TypeOK, Playing, queueVars, runVars, workVars, callVars
<1>1. CASE Take
  <2>1. Head(pending) \in Sources /\ Tail(pending) \in Seq(Sources)
    BY <1>1, ToSetTail DEF Take
  <2>2. QED
    BY <1>1, <2>1 DEF Take
<1>2. CASE FindEmpty
  BY <1>2 DEF FindEmpty
<1>3. CASE Wakes("sleep", "next") \/ Wakes("hold", "gate")
  <2>1. /\ wake' \in BOOLEAN
        /\ UNCHANGED <<continueOnError, queueVars, run, queueCause, skipped, stage, trackErr,
                       result, dropped, callVars, accepted, closed>>
    BY <1>3 DEF Wakes
  <2>2. CASE worker = "sleep" /\ worker' = "next"
    BY <2>1, <2>2
  <2>3. CASE worker = "hold" /\ worker' = "gate"
    BY <2>1, <2>3
  <2>4. QED
    BY <1>3, <2>2, <2>3 DEF Wakes
<1>4. CASE SleepEnds
  BY <1>4 DEF SleepEnds, StopResult
<1>5. CASE Gate
  BY <1>5 DEF Gate
<1>6. CASE CloseTrack
  BY <1>6 DEF CloseTrack, Joined
<1>7. CASE Unset
  BY <1>7 DEF Unset
<1>8. CASE HandlerReturns
  BY <1>8 DEF HandlerReturns, Joined, StopResult
<1>9. CASE Drop
  BY <1>9 DEF Drop
<1>10. CASE Sweep
  <2>1. Head(dropped) \in Sources /\ Tail(dropped) \in Seq(Sources)
    BY <1>10, ToSetTail DEF Sweep
  <2>2. QED
    BY <1>10, <2>1 DEF Sweep
<1>11. CASE Finish
  BY <1>11 DEF Finish
<1>12. CASE CutStep
  BY <1>12 DEF CutStep, HoldCut, ReadCut, WriteCut, RetryCut, Cut, PlayReturns, TrackCause
<1>13. CASE PlayStep
  BY <1>13 DEF PlayStep, ReadFrame, ReadFails, WriteFrame, WriteFails, RetryWrite, Plays,
               PlayReturns
<1>14. QED
  BY <1>1, <1>2, <1>3, <1>4, <1>5, <1>6, <1>7, <1>8, <1>9, <1>10, <1>11, <1>12, <1>13
  DEF WorkerStep

LEMMA TypeStep == ASSUME TypeOK, [Next]_vars PROVE TypeOK'
<1> USE DEF Playing, queueVars, runVars, workVars, callVars
<1>1. CASE Start
  <2>1. run' \in 0..MaxRuns
    BY <1>1, VoiceQueueAssumption DEF Start, TypeOK
  <2>2. running' /\ worker' # "off" /\ worker' \notin Playing /\ current' = NoSource
    BY <1>1 DEF Start, TypeOK
  <2>3. QED
    BY <1>1, <2>1, <2>2 DEF Start, TypeOK
<1>2. CASE CancelParent
  <2>1. /\ queueCause' = "parent"
        /\ UNCHANGED <<continueOnError, queueVars, wake, run, skipped, workVars, callVars,
                       accepted, closed>>
    BY <1>2 DEF CancelParent
  <2>2. QED
    BY <2>1 DEF TypeOK
<1>3. CASE Pause
  <2>1. /\ paused' = TRUE
        /\ UNCHANGED <<continueOnError, pending, current, running, draining, runVars, workVars,
                       callVars, accepted, closed>>
    BY <1>3 DEF Pause
  <2>2. QED
    BY <2>1 DEF TypeOK
<1>4. CASE UNCHANGED vars
  BY <1>4 DEF vars, TypeOK
<1>5. QED
  BY <1>1, <1>2, <1>3, <1>4, CallerType, WorkerType DEF Next

-----------------------------------------------------------------------------
(* Where the sources are.                                                   *)

Places == Queued /\ InHand /\ Handover /\ NoSourceLost

CallTo(c, to, s) ==
    /\ \A d \in Callers : calling'[d] = IF d = c THEN to ELSE calling[d]
    /\ \A d \in Callers : held'[d] = IF d = c THEN s ELSE held[d]

LEMMA CallsTo ==
  ASSUME TypeOK, NEW c \in Callers, NEW to, NEW s, Calls(c, to, s)
  PROVE  CallTo(c, to, s)
BY DEF TypeOK, Calls, CallTo

\* A step that moves no source.
LEMMA PlacesKept ==
  ASSUME Places, UNCHANGED <<pending, current, dropped, accepted, closed>>,
         \A c \in Callers : held'[c] = held[c],
         \A c \in Callers : calling'[c] \in {"idle", "notify"} => held[c] = <<>>,
         worker' # "sweep" => dropped = <<>>,
         worker' = "unset" => current \in closed
  PROVE  Places'
BY DEF Places, Queued, InHand, Handover, NoSourceLost

LEMMA CallerPlaces ==
  ASSUME TypeOK, Places, NEW c \in Callers, CallerNext(c)
  PROVE  Places'
<1> USE DEF queueVars, runVars, workVars, callVars
<1>0. /\ <<>> \in Seq(Sources) /\ OfCurrent \in Seq(Sources) /\ pending \in Seq(Sources)
      /\ held[c] \in Seq(Sources)
      /\ ToSet(OfCurrent) \subseteq {current} \ {NoSource}
  <2>1. CASE current = NoSource
    BY <2>1, ToSetEmpty DEF OfCurrent, TypeOK
  <2>2. CASE current # NoSource
    BY <2>2, ToSetOne DEF OfCurrent, TypeOK
  <2>3. QED
    BY <2>1, <2>2
<1>1. ASSUME NEW batch \in Batches, Enqueue(c, batch) PROVE Places'
  <2>1. /\ batch \in Seq(Sources) /\ Distinct(batch)
        /\ ToSet(batch) \cap accepted = {} /\ ToSet(batch) \subseteq Sources
    BY BatchType
  <2>2. /\ pending' = pending \o batch /\ accepted' = accepted \cup ToSet(batch)
        /\ UNCHANGED <<current, dropped, closed, worker>>
        /\ calling[c] = "idle"
    BY <1>1 DEF Enqueue
  <2>3. \A d \in Callers : held'[d] = held[d]
                /\ (calling'[d] \in {"idle", "notify"} => held'[d] = <<>>)
    BY <1>1, CallsTo DEF Enqueue, CallTo, Places, Handover
  <2>4. ToSet(pending') = ToSet(pending) \cup ToSet(batch)
    BY <1>0, <2>1, <2>2, ToSetConcat
  <2>5. Distinct(pending')
    BY <1>0, <2>1, <2>2, DistinctConcat DEF Places, Queued
  <2>6. Queued'
    <3>1. current \notin ToSet(batch) /\ ToSet(batch) \cap (closed \cup ToSet(dropped)) = {}
      BY <2>1, VoiceQueueAssumption DEF Places, InHand
    <3>2. \A d \in Callers : ToSet(batch) \cap ToSet(held[d]) = {}
      BY <2>1 DEF Places, InHand
    <3>3. QED
      BY <2>2, <2>3, <2>4, <2>5, <3>1, <3>2 DEF Places, Queued
  <2>7. InHand' /\ Handover'
    BY <2>2, <2>3 DEF Places, InHand, Handover
  <2>8. NoSourceLost'
    BY <2>2, <2>3, <2>4 DEF Places, NoSourceLost
  <2>9. QED
    BY <2>6, <2>7, <2>8 DEF Places
<1>2. CASE Drain(c) \/ Resume(c) \/ Notify(c)
  <2>1. UNCHANGED <<pending, current, dropped, accepted, closed, worker>>
    BY <1>2 DEF Drain, Resume, Notify
  <2>2. calling[c] \in {"idle", "notify"} /\ \E to \in {"idle", "notify"} : CallTo(c, to, <<>>)
    BY <1>2, CallsTo DEF Drain, Resume, Notify
  <2>3. QED
    BY <2>1, <2>2, PlacesKept DEF Places, Handover, CallTo
<1>3. CASE StopCancel(c) \/ SkipCancel(c)
  <2>1. UNCHANGED <<pending, current, dropped, accepted, closed, worker, held>>
    BY <1>3 DEF StopCancel, SkipCancel
  <2>2. calling' = [calling EXCEPT ![c] = "close"]
    BY <1>3 DEF StopCancel, SkipCancel
  <2>3. \A d \in Callers : calling'[d] \in {"idle", "notify"} => held[d] = <<>>
    BY <2>2 DEF TypeOK, Places, Handover
  <2>4. QED
    BY <2>1, <2>3, PlacesKept DEF Places, Handover
<1>4. CASE Stop(c) \/ Clear(c)
  <2>1. /\ pending' = <<>> /\ calling[c] = "idle"
        /\ UNCHANGED <<current, dropped, accepted, closed, worker>>
    BY <1>4 DEF Stop, Clear
  <2>2. PICK s \in {OfCurrent \o pending, pending}, to \in {"stop", "close"} : CallTo(c, to, s)
    BY <1>4, CallsTo DEF Stop, Clear
  <2>3. /\ ToSet(pending) \subseteq ToSet(s)
        /\ ToSet(s) \subseteq ToSet(pending) \cup ToSet(OfCurrent)
    <3>1. ToSet(OfCurrent \o pending) = ToSet(OfCurrent) \cup ToSet(pending)
      BY <1>0, ToSetConcat
    <3>2. CASE s = pending
      BY <3>2
    <3>3. CASE s = OfCurrent \o pending
      BY <3>1, <3>3
    <3>4. QED
      BY <2>2, <3>2, <3>3
  <2>4. held[c] = <<>>
    BY <2>1 DEF Places, Handover
  <2>5. /\ \A d \in Callers : held'[d] = IF d = c THEN s ELSE held[d]
        /\ \A d \in Callers : calling'[d] \in {"idle", "notify"} => held'[d] = <<>>
    BY <2>2 DEF CallTo, Places, Handover
  <2>6. Queued'
    BY <2>1, ToSetEmpty DEF Queued, Distinct
  <2>7. InHand'
    BY <1>0, <2>1, <2>3, <2>5 DEF Places, Queued, InHand
  <2>8. Handover'
    BY <2>1, <2>5 DEF Places, Handover
  <2>9. NoSourceLost'
    BY <2>1, <2>3, <2>4, <2>5, ToSetEmpty DEF Places, NoSourceLost
  <2>10. QED
    BY <2>6, <2>7, <2>8, <2>9 DEF Places
<1>5. CASE Skip(c)
  <2>1. /\ current # NoSource /\ calling[c] = "idle"
        /\ UNCHANGED <<pending, current, dropped, accepted, closed, worker>>
        /\ CallTo(c, "skip", <<current>>)
    BY <1>5, CallsTo DEF Skip
  <2>2. ToSet(<<current>>) = {current} /\ held[c] = <<>> /\ current \in accepted
    BY <2>1, ToSetOne DEF Places, Handover, InHand
  <2>3. /\ \A d \in Callers : held'[d] = IF d = c THEN <<current>> ELSE held[d]
        /\ \A d \in Callers : calling'[d] \in {"idle", "notify"} => held'[d] = <<>>
    BY <2>1 DEF CallTo, Places, Handover
  <2>4. Queued'
    BY <2>1, <2>2, <2>3 DEF Places, Queued
  <2>5. InHand' /\ Handover'
    BY <2>1, <2>2, <2>3 DEF Places, InHand, Handover
  <2>6. NoSourceLost'
    BY <2>1, <2>2, <2>3, ToSetEmpty DEF Places, NoSourceLost
  <2>7. QED
    BY <2>4, <2>5, <2>6 DEF Places
<1>6. CASE CloseHeld(c) /\ held[c] = <<>>
  <2>1. UNCHANGED <<pending, current, dropped, accepted, closed, worker>>
        /\ CallTo(c, "idle", <<>>)
    BY <1>6, CallsTo DEF CloseHeld
  <2>2. QED
    BY <1>6, <2>1, PlacesKept DEF Places, Handover, CallTo
<1>7. CASE CloseHeld(c) /\ held[c] # <<>>
  <2> DEFINE h == Head(held[c])
  <2>1. /\ calling[c] = "close" /\ closed' = closed \cup {h}
        /\ held' = [held EXCEPT ![c] = Tail(@)]
        /\ UNCHANGED <<pending, current, dropped, accepted, worker, calling>>
    BY <1>7 DEF CloseHeld
  <2>2. /\ ToSet(held[c]) = {h} \cup ToSet(Tail(held[c]))
        /\ \A d \in Callers : held'[d] = IF d = c THEN Tail(held[c]) ELSE held[d]
    BY <1>0, <1>7, <2>1, ToSetTail DEF TypeOK
  <2> HIDE DEF h
  <2>3. Queued'
    BY <2>1, <2>2 DEF Places, Queued
  <2>4. InHand' /\ Handover'
    BY <2>1, <2>2 DEF Places, InHand, Handover
  <2>5. NoSourceLost'
    BY <2>1, <2>2 DEF Places, NoSourceLost
  <2>6. QED
    BY <2>3, <2>4, <2>5 DEF Places
<1>8. QED
  BY <1>1, <1>2, <1>3, <1>4, <1>5, <1>6, <1>7 DEF CallerNext

LEMMA WorkerPlaces ==
  ASSUME TypeOK, Places, WorkerStep \/ CutStep \/ PlayStep
  PROVE  Places'
<1> USE DEF queueVars, runVars, workVars, callVars
<1>1. CASE Take
  <2>1. /\ current' = Head(pending) /\ pending' = Tail(pending)
        /\ worker = "next" /\ worker' = "gate"
        /\ UNCHANGED <<dropped, callVars, accepted, closed>>
    BY <1>1 DEF Take
  <2>2. /\ ToSet(pending) = {Head(pending)} \cup ToSet(Tail(pending))
        /\ Distinct(Tail(pending)) /\ Head(pending) \notin ToSet(Tail(pending))
    BY <1>1, ToSetTail, DistinctTail DEF Take, TypeOK, Places, Queued
  <2>3. current = NoSource /\ NoSource \notin Sources
    BY <2>1, VoiceQueueAssumption DEF TypeOK, Playing
  <2>4. Queued'
    BY <2>1, <2>2 DEF Places, Queued
  <2>5. InHand' /\ Handover'
    BY <2>1, <2>2 DEF Places, Queued, InHand, Handover
  <2>6. NoSourceLost'
    BY <2>1, <2>2, <2>3 DEF Places, NoSourceLost, TypeOK
  <2>7. QED
    BY <2>4, <2>5, <2>6 DEF Places
<1>2. CASE CloseTrack
  <2>1. /\ closed' = closed \cup {current} /\ worker = "close" /\ worker' = "unset"
        /\ UNCHANGED <<pending, current, dropped, callVars, accepted>>
    BY <1>2 DEF CloseTrack
  <2>2. current # NoSource
    BY <2>1 DEF TypeOK, Playing
  <2>3. Queued' /\ InHand'
    BY <2>1, <2>2 DEF Places, Queued, InHand
  <2>4. Handover' /\ NoSourceLost'
    BY <2>1 DEF Places, Handover, NoSourceLost
  <2>5. QED
    BY <2>3, <2>4 DEF Places
<1>3. CASE Unset \/ Finish
  <2>1. /\ current' = NoSource
        /\ worker' \in {"handler", "off"} /\ (current \in closed \/ current = NoSource)
        /\ dropped = <<>>
        /\ UNCHANGED <<pending, dropped, callVars, accepted, closed>>
    BY <1>3 DEF Unset, Finish, Places, Handover, TypeOK, Playing
  <2>2. NoSource \notin ToSet(pending) /\ NoSource \notin accepted
    BY VoiceQueueAssumption DEF TypeOK, Places, Queued
  <2>3. Queued' /\ InHand'
    BY <2>1, <2>2 DEF Places, Queued, InHand
  <2>4. Handover' /\ NoSourceLost'
    BY <2>1, <2>2 DEF Places, Handover, NoSourceLost
  <2>5. QED
    BY <2>3, <2>4 DEF Places
<1>4. CASE Drop
  <2>1. /\ pending' = <<>> /\ dropped' = pending /\ dropped = <<>>
        /\ worker' = "sweep"
        /\ UNCHANGED <<current, callVars, accepted, closed>>
    BY <1>4 DEF Drop, Places, Handover
  <2>2. Queued' /\ InHand'
    BY <2>1, ToSetEmpty DEF Places, Queued, InHand, Distinct
  <2>3. Handover' /\ NoSourceLost'
    BY <2>1, ToSetEmpty DEF Places, Handover, NoSourceLost
  <2>4. QED
    BY <2>2, <2>3 DEF Places
<1>5. CASE Sweep
  <2>1. /\ closed' = closed \cup {Head(dropped)} /\ dropped' = Tail(dropped)
        /\ UNCHANGED <<pending, current, worker, callVars, accepted>> /\ worker = "sweep"
    BY <1>5 DEF Sweep
  <2>2. ToSet(dropped) = {Head(dropped)} \cup ToSet(Tail(dropped))
    BY <1>5, ToSetTail DEF Sweep, TypeOK
  <2>3. Queued' /\ InHand'
    BY <2>1, <2>2 DEF Places, Queued, InHand
  <2>4. Handover' /\ NoSourceLost'
    BY <2>1, <2>2 DEF Places, Handover, NoSourceLost
  <2>5. QED
    BY <2>3, <2>4 DEF Places
<1>6. CASE FindEmpty \/ Wakes("sleep", "next") \/ SleepEnds \/ Gate \/ Wakes("hold", "gate")
           \/ HandlerReturns \/ CutStep \/ PlayStep
  <2>1. /\ UNCHANGED <<pending, current, dropped, accepted, closed, callVars>>
        /\ worker # "sweep" /\ worker' # "unset"
    <3>1. CASE FindEmpty \/ Wakes("sleep", "next") \/ SleepEnds \/ Gate \/ Wakes("hold", "gate")
      BY <3>1 DEF FindEmpty, Wakes, SleepEnds, Gate, TypeOK
    <3>2. CASE HandlerReturns
      BY <3>2 DEF HandlerReturns
    <3>3. CASE CutStep
      BY <3>3 DEF CutStep, HoldCut, ReadCut, WriteCut, RetryCut, Cut, PlayReturns
    <3>4. CASE PlayStep
      BY <3>4 DEF PlayStep, ReadFrame, ReadFails, WriteFrame, WriteFails, RetryWrite, Plays,
                  PlayReturns
    <3>5. QED
      BY <1>6, <3>1, <3>2, <3>3, <3>4
  <2>2. QED
    BY <2>1, PlacesKept DEF Places, Handover
<1>7. QED
  BY <1>1, <1>2, <1>3, <1>4, <1>5, <1>6 DEF WorkerStep

LEMMA PlacesStep == ASSUME TypeOK, Places, [Next]_vars PROVE Places'
<1>1. CASE Start \/ CancelParent \/ Pause \/ UNCHANGED vars
  <2>1. /\ UNCHANGED <<pending, current, dropped, accepted, closed, callVars>>
        /\ worker' = worker \/ (worker = "off" /\ worker' = "next")
    BY <1>1 DEF Start, CancelParent, Pause, vars, queueVars, workVars, TypeOK
  <2>2. QED
    BY <2>1, PlacesKept DEF Places, Handover, callVars
<1>2. QED
  BY <1>1, CallerPlaces, WorkerPlaces DEF Next

-----------------------------------------------------------------------------
(* Wake-ups.                                                                *)

\* A caller that will put a token into the run's channel, or cancel the run.
Waker(d) == calling[d] \in {"notify", "stop"} /\ callRun[d] = run

LEMMA CallerWakes ==
  ASSUME TypeOK, NoLostWakeup, NEW c \in Callers, CallerNext(c)
  PROVE  NoLostWakeup'
<1> USE DEF queueVars, runVars, workVars, callVars
<1>0. HasWork => wake \/ QueueDone \/ \E d \in Callers : Waker(d)
  BY DEF NoLostWakeup, Waker
<1>1. SUFFICES ASSUME HasWork'
               PROVE  wake' \/ QueueDone' \/ \E d \in Callers : Waker(d)'
  BY DEF NoLostWakeup, Waker
<1>2. worker' = worker /\ run' = run /\ running /\ UNCHANGED running
  BY <1>1 DEF CallerNext, Enqueue, Drain, Stop, Skip, Clear, Resume, Notify, StopCancel,
              SkipCancel, CloseHeld, HasWork, TypeOK
<1>3. CASE calling'[c] \in {"notify", "stop"} /\ callRun'[c] = run
  BY <1>2, <1>3 DEF Waker
<1>4. CASE (\E batch \in Batches : Enqueue(c, batch)) \/ Drain(c) \/ Stop(c) \/ Resume(c)
  <2>1. \/ Calls(c, "notify", <<>>)
        \/ Calls(c, "stop", OfCurrent \o pending)
    <3>1. CASE \E batch \in Batches : Enqueue(c, batch)
      BY <1>2, <3>1 DEF Enqueue
    <3>2. CASE Drain(c) \/ Resume(c)
      BY <3>2 DEF Drain, Resume
    <3>3. CASE Stop(c)
      BY <3>3 DEF Stop
    <3>4. QED
      BY <1>4, <3>1, <3>2, <3>3
  <2>2. calling'[c] \in {"notify", "stop"} /\ callRun'[c] = run
    BY <2>1 DEF Calls, TypeOK
  <2>3. QED
    BY <1>3, <2>2
<1>5. CASE Notify(c)
  <2>1. HasWork /\ (QueueDone => QueueDone') /\ wake' = (wake \/ callRun[c] = run)
    BY <1>1, <1>5 DEF Notify, HasWork, QueueDone
  <2>2. \A d \in Callers \ {c} : Waker(d)' = Waker(d)
    BY <1>5 DEF Notify, Calls, Waker, TypeOK
  <2>3. Waker(c) => wake'
    BY <2>1 DEF Waker
  <2>4. QED
    BY <1>0, <2>1, <2>2, <2>3
<1>6. CASE StopCancel(c)
  <2>1. /\ HasWork /\ wake' = wake
        /\ queueCause' = IF callRun[c] = run /\ ~QueueDone THEN "stopped" ELSE queueCause
        /\ calling' = [calling EXCEPT ![c] = "close"] /\ callRun' = callRun
    BY <1>1, <1>2, <1>6 DEF StopCancel, HasWork
  <2>2. \A d \in Callers \ {c} : Waker(d)' = Waker(d)
    BY <1>2, <2>1 DEF Waker, TypeOK
  <2>3. Waker(c) => QueueDone'
    BY <2>1 DEF Waker, QueueDone
  <2>4. QueueDone => QueueDone'
    BY <2>1 DEF QueueDone
  <2>5. QED
    BY <1>0, <2>1, <2>2, <2>3, <2>4
<1>7. CASE Skip(c) \/ SkipCancel(c) \/ Clear(c) \/ CloseHeld(c)
  <2>1. /\ calling[c] \notin {"notify", "stop"}
        /\ wake' = wake /\ queueCause' = queueCause
    BY <1>7 DEF Skip, SkipCancel, Clear, CloseHeld
  <2>2. HasWork
    BY <1>1, <1>7 DEF HasWork, Skip, SkipCancel, Clear, CloseHeld
  <2>3. \A d \in Callers \ {c} : calling'[d] = calling[d] /\ callRun'[d] = callRun[d]
    BY <1>7 DEF Skip, SkipCancel, Clear, CloseHeld, Calls, TypeOK
  <2>4. \A d \in Callers : Waker(d) => Waker(d)'
    BY <1>2, <2>1, <2>3 DEF Waker
  <2>5. QED
    BY <1>0, <2>1, <2>2, <2>4 DEF QueueDone
<1>8. QED
  BY <1>4, <1>5, <1>6, <1>7 DEF CallerNext

LEMMA WakeStep ==
  ASSUME TypeOK, NoLostWakeup, [Next]_vars
  PROVE  NoLostWakeup'
<1> USE DEF queueVars, runVars, workVars, callVars
<1>1. CASE CancelParent
  BY <1>1 DEF CancelParent, NoLostWakeup, QueueDone
<1>2. CASE Pause
  BY <1>2 DEF Pause, NoLostWakeup, HasWork, QueueDone
<1>3. CASE Sweep \/ UNCHANGED vars
  BY <1>3 DEF Sweep, vars, NoLostWakeup, HasWork, QueueDone
<1>4. CASE FindEmpty
  BY <1>4 DEF FindEmpty, NoLostWakeup, HasWork, TypeOK
<1>5. CASE Gate
  BY <1>5 DEF Gate, NoLostWakeup, HasWork, TypeOK
<1>6. CASE Start \/ Take \/ Wakes("sleep", "next") \/ SleepEnds \/ Wakes("hold", "gate")
           \/ CloseTrack \/ Unset \/ HandlerReturns \/ Drop \/ Finish
  <2>1. worker' \notin {"sleep", "hold"}
    BY <1>6 DEF Start, Take, Wakes, SleepEnds, CloseTrack, Unset, HandlerReturns, Drop, Finish
  <2>2. QED
    BY <2>1 DEF NoLostWakeup, HasWork
<1>7. CASE CutStep \/ PlayStep
  <2>1. CASE CutStep
    BY <2>1 DEF CutStep, HoldCut, ReadCut, WriteCut, RetryCut, Cut, PlayReturns, NoLostWakeup,
                HasWork
  <2>2. CASE PlayStep
    BY <2>2 DEF PlayStep, ReadFrame, ReadFails, WriteFrame, WriteFails, RetryWrite, Plays,
                PlayReturns, NoLostWakeup, HasWork
  <2>3. QED
    BY <1>7, <2>1, <2>2
<1>8. QED
  BY <1>1, <1>2, <1>3, <1>4, <1>5, <1>6, <1>7, CallerWakes DEF Next, WorkerStep

-----------------------------------------------------------------------------
(* The invariant, and the refinement of TrackOrder.                          *)

LEMMA InitQueueInv == Init => QueueInv
<1> SUFFICES ASSUME Init PROVE QueueInv
  OBVIOUS
<1>1. TypeOK
  <2>1. /\ run \in 0..MaxRuns /\ callRun \in [Callers -> 0..MaxRuns]
        /\ held \in [Callers -> Seq(Sources)]
    BY VoiceQueueAssumption DEF Init
  <2>2. /\ paused \in BOOLEAN /\ running \in BOOLEAN /\ draining \in BOOLEAN
        /\ wake \in BOOLEAN /\ skipped \in BOOLEAN /\ ~running
    BY DEF Init
  <2>3. QED
    BY <2>1, <2>2 DEF Init, TypeOK, Playing
<1>2. Queued /\ InHand /\ Handover /\ NoSourceLost
  BY ToSetEmpty DEF Init, Queued, InHand, Handover, NoSourceLost, Distinct
<1>3. NoLostWakeup
  BY DEF Init, NoLostWakeup, HasWork
<1>4. QED
  BY <1>1, <1>2, <1>3 DEF QueueInv

LEMMA QueueInvStep == QueueInv /\ [Next]_vars => QueueInv'
<1> SUFFICES ASSUME QueueInv, [Next]_vars PROVE QueueInv'
  OBVIOUS
<1>1. Places'
  BY PlacesStep DEF QueueInv, Places
<1>2. QED
  BY <1>1, TypeStep, WakeStep DEF QueueInv, Places

LEMMA QueueInvHolds == Spec => []QueueInv
BY InitQueueInv, QueueInvStep, PTL DEF Spec

LEMMA ClosesOne ==
  ASSUME TypeOK, Places, NEW s \in accepted, s \notin ToSet(pending),
         closed' = closed \cup {s}, UNCHANGED <<accepted, pending, current>>
  PROVE  Order!Next
BY DEF TypeOK, Order!Next, Order!Close, Order!ToSet, ToSet

LEMMA OrderStep ==
  ASSUME TypeOK, Places, [Next]_vars
  PROVE  [Order!Next]_(Order!vars)
<1> USE DEF queueVars, runVars, workVars, callVars
<1>1. ASSUME NEW c \in Callers, NEW batch \in Batches, Enqueue(c, batch) PROVE Order!Next
  <2>1. ToSet(batch) \cap accepted = {}
    BY BatchType
  <2>2. Order!Accept(batch)
    BY <1>1, <2>1 DEF Enqueue, Order!Accept, Order!ToSet, ToSet
  <2>3. \E s, t \in Sources : batch = <<s>> \/ (s # t /\ batch = <<s, t>>)
    BY DEF Batches
  <2>4. QED
    BY <2>2, <2>3 DEF Order!Next
<1>2. ASSUME NEW c \in Callers, Stop(c) \/ Clear(c) PROVE Order!Next
  BY <1>2 DEF Stop, Clear, Order!Next, Order!Withdraw
<1>3. CASE Drop
  BY <1>3 DEF Drop, Order!Next, Order!Withdraw
<1>4. ASSUME NEW c \in Callers, CloseHeld(c), held[c] # <<>> PROVE Order!Next
  <2>1. /\ closed' = closed \cup {Head(held[c])}
        /\ UNCHANGED <<accepted, pending, current>>
    BY <1>4 DEF CloseHeld
  <2>2. Head(held[c]) \in ToSet(held[c])
    BY <1>4, ToSetTail DEF TypeOK
  <2>3. Head(held[c]) \in accepted /\ Head(held[c]) \notin ToSet(pending)
    BY <2>2 DEF Places, InHand, Queued
  <2>4. QED
    BY <2>1, <2>3, ClosesOne
<1>5. CASE CloseTrack
  <2>1. closed' = closed \cup {current} /\ UNCHANGED <<accepted, pending, current>>
    BY <1>5 DEF CloseTrack
  <2>2. current \in accepted /\ current \notin ToSet(pending)
    BY <1>5 DEF CloseTrack, Places, InHand, Queued, TypeOK, Playing
  <2>3. QED
    BY <2>1, <2>2, ClosesOne
<1>6. CASE Sweep
  <2>1. closed' = closed \cup {Head(dropped)} /\ UNCHANGED <<accepted, pending, current>>
    BY <1>6 DEF Sweep
  <2>2. Head(dropped) \in ToSet(dropped)
    BY <1>6, ToSetTail DEF Sweep, TypeOK
  <2>3. Head(dropped) \in accepted /\ Head(dropped) \notin ToSet(pending)
    BY <2>2 DEF Places, InHand, Queued
  <2>4. QED
    BY <2>1, <2>3, ClosesOne
<1>7. CASE Take
  <2>1. Head(pending) \in ToSet(pending)
    BY <1>7, ToSetTail DEF Take, TypeOK
  <2>2. current = NoSource /\ Head(pending) \notin closed
    BY <1>7, <2>1 DEF Take, TypeOK, Playing, Places, Queued
  <2>3. Order!Begin
    BY <1>7, <2>2 DEF Take, Order!Begin
  <2>4. QED
    BY <2>3 DEF Order!Next
<1>8. CASE Unset
  BY <1>8 DEF Unset, Places, Handover, Order!Next, Order!End
<1>9. CASE Finish
  BY <1>9 DEF Finish, TypeOK, Playing, Order!vars
<1>10. ASSUME NEW c \in Callers,
              \/ Drain(c) \/ Skip(c) \/ Resume(c) \/ Notify(c) \/ StopCancel(c)
              \/ SkipCancel(c) \/ (CloseHeld(c) /\ held[c] = <<>>)
       PROVE  UNCHANGED Order!vars
  BY <1>10 DEF Drain, Skip, Resume, Notify, StopCancel, SkipCancel, CloseHeld, Order!vars
<1>11. CASE Start \/ CancelParent \/ Pause \/ UNCHANGED vars \/ FindEmpty \/ SleepEnds \/ Gate
            \/ Wakes("sleep", "next") \/ Wakes("hold", "gate") \/ HandlerReturns
  BY <1>11 DEF Start, CancelParent, Pause, vars, FindEmpty, SleepEnds, Gate, Wakes, HandlerReturns,
               Order!vars
<1>12. CASE CutStep \/ PlayStep
  <2>1. CASE CutStep
    BY <2>1 DEF CutStep, HoldCut, ReadCut, WriteCut, RetryCut, Cut, PlayReturns, Order!vars
  <2>2. CASE PlayStep
    BY <2>2 DEF PlayStep, ReadFrame, ReadFails, WriteFrame, WriteFails, RetryWrite, Plays,
                PlayReturns, Order!vars
  <2>3. QED
    BY <1>12, <2>1, <2>2
<1>13. QED
  BY <1>1, <1>2, <1>3, <1>4, <1>5, <1>6, <1>7, <1>8, <1>9, <1>10, <1>11, <1>12
  DEF Next, CallerNext, WorkerStep

(* The fields of the queue keep their shapes, and q.current is set exactly while the worker is in *)
(* a track (voice/queue.go).                                                    *)
THEOREM TypeCorrect == Spec => []TypeOK
BY QueueInvHolds, PTL DEF QueueInv

(* However Stop, Clear, Skip, the end of a run and the worker interleave, every accepted source  *)
(* that is not closed is with somebody who will close it (voice/queue.go).         *)
THEOREM SourcesNotLost == Spec => []NoSourceLost
BY QueueInvHolds, PTL DEF QueueInv

(* A worker that waits with something to do has a token, or will get one, or is cancelled, though *)
(* one slot serves Enqueue, Drain and Resume (notifyQueue, voice/queue.go).       *)
THEOREM WakeupsNotLost == Spec => []NoLostWakeup
BY QueueInvHolds, PTL DEF QueueInv

(* The queue implements TrackOrder: Enqueue accepts, next begins, Stop, Clear and execute withdraw, *)
(* and every other step closes one source that has left the queue, ends the closed track, or *)
(* stutters.                                                                 *)
THEOREM ImplementsTrackOrder == Spec => KeepsTrackOrder
<1>1. Init => Order!Init
  BY DEF Init, Order!Init
<1>2. QueueInv /\ [Next]_vars => [Order!Next]_(Order!vars)
  BY OrderStep DEF QueueInv, Places
<1>3. QED
  BY <1>1, <1>2, QueueInvHolds, PTL DEF Spec, KeepsTrackOrder, Order!Spec

=============================================================================
