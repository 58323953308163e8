-------------------------- MODULE GatewayWriteProofs --------------------------
(***************************************************************************)
(* Theorems about the outbound packets of a Session, for any limit, window,   *)
(* queue size, cooldown, any callers and any number of generations.           *)
(***************************************************************************)
EXTENDS GatewayWriteQueue, SequenceTheorems, TLAPS

\* The heartbeat that is answered is one of a generation.
PingKnown == ping.at # "idle" => ping.gen \in Gens

\* A generation that has not begun has no run.
Fresh == \A g \in Gens : finish[g] = "new" => writer[g] = "off"

\* What run is about to write, or has not counted yet, has a slot.
Room ==
    \A g \in Gens :
        writer[g] \in {"lock", "write", "sent", "count"} => Len(sentAt[g]) < Limit

\* The packets that have left and that sentAt does not count yet.
Uncounted(g) == IF writer[g] \in {"sent", "count"} THEN 1 ELSE 0

\* The place in wire before the first packet that sentAt counts.
Base(g) == Limit - Len(sentAt[g]) - Uncounted(g)

\* The packets of w after the first n are covered one by one by those of s, which
\* stay in the window at least as long; the first n have left it.
Covers(w, s, n) ==
    /\ \A i \in 1..n : w[i] = 0
    /\ \A i \in 1..Len(s) : w[n + i] <= s[i]

\* sentAt counts every packet that has left in the window, until a write has
\* failed, after which none leaves.
Aligned(g) == Covers(wire[g], sentAt[g], Base(g))

Accounted == \A g \in Gens : g \in broken \/ Aligned(g)

\* A reservation that counts is the entry.
EntryAgrees ==
    \A c \in Callers : granted[c] > 0 => members.by = c /\ members.in = granted[c]

Holds(g, c) == inHand[g] = c \/ \E i \in 1..Len(requests[g]) : requests[g][i] = c

Waits(c) == call[c].at = "await" /\ call[c].gen \notin ctxDone

\* A caller that waits is held by its generation; run holds a caller only while it
\* works, and has gone only from a generation that is done.
Served ==
    /\ \A c \in Callers : Waits(c) => Holds(call[c].gen, c)
    /\ \A g \in Gens : writer[g] = "gone" => g \in ctxDone
    /\ \A g \in Gens : writer[g] \in {"off", "idle", "gone"} => inHand[g] = Nobody
    /\ \A c \in Callers : call[c].at \in {"send", "await"} => call[c].gen \in Gens

-----------------------------------------------------------------------------
(* The cooldown of all-members requests.                                      *)

LEMMA EntryUnchanged ==
  ASSUME [Next]_vars
  PROVE  \/ UNCHANGED memberVars \/ Tick
         \/ \E c \in Callers : Reserve(c) \/ Release(c)
<1>1. ASSUME NEW g \in Gens, GenStep(g) PROVE UNCHANGED memberVars
  BY <1>1 DEF GenStep, Attach, CtxEnds, Finish, FrameLocks, FrameReturns, SocketCloses
<1>2. ASSUME NEW g \in Gens, WriterStep(g) PROVE UNCHANGED memberVars
  BY <1>2 DEF WriterStep, Take, WriterEnds, Slot, Wakes, SleepCut, WriterLocks, PacketLeaves,
              WriteSucceeds, WriteFails, Counts
<1>3. ASSUME NEW c \in Callers, CallerStep(c) PROVE UNCHANGED memberVars \/ Release(c)
  BY <1>3 DEF CallerStep, Write, Enqueue, GivesUp, Returns
<1>4. CASE PingBegins \/ PingLocks \/ PingReturns
  BY <1>4 DEF PingBegins, PingLocks, PingReturns
<1>5. CASE UNCHANGED vars
  BY <1>5 DEF vars
<1> QED
  BY <1>1, <1>2, <1>3, <1>4, <1>5 DEF Next

LEMMA EntryStep ==
  ASSUME TypeOK, EntryAgrees, [Next]_vars PROVE EntryAgrees'
<1>1. CASE UNCHANGED memberVars
  BY <1>1 DEF EntryAgrees, memberVars
<1>2. CASE Tick
  <2>1. SUFFICES ASSUME NEW c \in Callers, granted'[c] > 0
                 PROVE  members'.by = c /\ members'.in = granted'[c]
    BY DEF EntryAgrees
  <2>2. granted'[c] = Pred(granted[c]) /\ granted[c] \in 0..Cooldown
    BY <1>2 DEF Tick, TypeOK
  <2>3. granted[c] > 1 /\ granted'[c] = granted[c] - 1
    BY <2>1, <2>2, WriteAssumption DEF Pred
  <2>4. members.by = c /\ members.in = granted[c]
    BY <2>3, <2>2, WriteAssumption DEF EntryAgrees
  <2>5. members' = [members EXCEPT !.in = @ - 1]
    BY <1>2, <2>3, <2>4, <2>2, WriteAssumption DEF Tick
  <2> QED
    BY <2>3, <2>4, <2>5 DEF TypeOK
<1>3. ASSUME NEW c \in Callers, Reserve(c) PROVE EntryAgrees'
  <2>1. \A d \in Callers : granted[d] = 0
    BY <1>3, WriteAssumption DEF Reserve, EntryAgrees, TypeOK
  <2> QED
    BY <1>3, <2>1 DEF Reserve, EntryAgrees, TypeOK
<1>4. ASSUME NEW c \in Callers, Release(c) PROVE EntryAgrees'
  BY <1>4 DEF Release, EntryAgrees, TypeOK
<1> QED
  BY <1>1, <1>2, <1>3, <1>4, EntryUnchanged

-----------------------------------------------------------------------------
(* Types                                                                     *)

LEMMA CallMoves ==
  ASSUME TypeOK, NEW c \in Callers, NEW p \in Places, NEW n \in 0..MaxGens
  PROVE  /\ [call[c] EXCEPT !.at = p] \in [at : Places, gen : 0..MaxGens, all : BOOLEAN]
         /\ [call[c] EXCEPT !.at = p, !.gen = n] \in [at : Places, gen : 0..MaxGens, all : BOOLEAN]
         /\ Idle \in [at : Places, gen : 0..MaxGens, all : BOOLEAN]
<1>1. call[c] \in [at : Places, gen : 0..MaxGens, all : BOOLEAN]
  BY DEF TypeOK
<1>2. [call[c] EXCEPT !.at = p] \in [at : Places, gen : 0..MaxGens, all : BOOLEAN]
  BY <1>1
<1>3. [call[c] EXCEPT !.at = p, !.gen = n] \in [at : Places, gen : 0..MaxGens, all : BOOLEAN]
  BY <1>1
<1>4. Idle \in [at : Places, gen : 0..MaxGens, all : BOOLEAN]
  BY WriteAssumption DEF Idle, Places
<1> QED
  BY <1>2, <1>3, <1>4

LEMMA AnsweredType ==
  ASSUME TypeOK, NEW who, NEW out \in Places, Answered(who, out)
  PROVE  call' \in [Callers -> [at : Places, gen : 0..MaxGens, all : BOOLEAN]]
<1>1. 0 \in 0..MaxGens
  BY WriteAssumption
<1>2. \A c \in Callers :
        /\ call[c] \in [at : Places, gen : 0..MaxGens, all : BOOLEAN]
        /\ [call[c] EXCEPT !.at = out] \in [at : Places, gen : 0..MaxGens, all : BOOLEAN]
  BY <1>1, CallMoves DEF TypeOK
<1> QED
  BY <1>2, Zenon DEF Answered

LEMMA AnswersType ==
  ASSUME TypeOK, NEW g \in Gens, NEW out \in Places, Answers(g, out)
  PROVE  /\ call' \in [Callers -> [at : Places, gen : 0..MaxGens, all : BOOLEAN]]
         /\ inHand' \in [Gens -> Callers \cup {Nobody}]
         /\ writer' = [writer EXCEPT ![g] = "idle"]
<1>1. call' \in [Callers -> [at : Places, gen : 0..MaxGens, all : BOOLEAN]]
  BY AnsweredType DEF Answers
<1>2. inHand' \in [Gens -> Callers \cup {Nobody}] /\ writer' = [writer EXCEPT ![g] = "idle"]
  BY DEF Answers, WriterGoes, TypeOK
<1> QED
  BY <1>1, <1>2

LEMMA SeqElements ==
  ASSUME NEW S, NEW s \in Seq(S)
  PROVE  Len(s) \in Nat /\ \A i \in 1..Len(s) : s[i] \in S
  OBVIOUS

LEMMA FrontDropped ==
  ASSUME NEW S, NEW s \in Seq(S), NEW n \in 0..Len(s)
  PROVE  /\ SubSeq(s, n + 1, Len(s)) \in Seq(S)
         /\ Len(SubSeq(s, n + 1, Len(s))) = Len(s) - n
         /\ \A i \in 1..Len(s) - n : SubSeq(s, n + 1, Len(s))[i] = s[i + n]
<1>1. Len(s) \in Nat /\ \A i \in n + 1..Len(s) : s[i] \in S
  BY SeqElements
<1>2. /\ SubSeq(s, n + 1, Len(s)) \in Seq(S)
      /\ Len(SubSeq(s, n + 1, Len(s))) =
           IF n + 1 <= Len(s) THEN Len(s) - (n + 1) + 1 ELSE 0
      /\ \A i \in 1..Len(s) - (n + 1) + 1 : SubSeq(s, n + 1, Len(s))[i] = s[n + 1 + i - 1]
  BY <1>1, SubSeqProperties
<1> QED
  BY <1>1, <1>2

LEMMA TrimShortens ==
  ASSUME TypeOK, NEW g \in Gens, Trim(g)
  PROVE  \E n \in 0..Len(sentAt[g]) :
           /\ \A i \in 1..n : sentAt[g][i] = 0
           /\ sentAt' \in [Gens -> Seq(0..Window)]
           /\ \A h \in Gens : h # g => sentAt'[h] = sentAt[h]
           /\ Len(sentAt'[g]) = Len(sentAt[g]) - n
           /\ \A i \in 1..Len(sentAt[g]) - n : sentAt'[g][i] = sentAt[g][i + n]
<1>1. PICK n \in 0..Len(sentAt[g]) :
        /\ \A i \in 1..n : sentAt[g][i] = 0
        /\ sentAt' = [sentAt EXCEPT ![g] = SubSeq(sentAt[g], n + 1, Len(sentAt[g]))]
  BY DEF Trim
<1>2. sentAt \in [Gens -> Seq(0..Window)]
  BY DEF TypeOK
<1>3. sentAt[g] \in Seq(0..Window)
  BY <1>2
<1>4. /\ SubSeq(sentAt[g], n + 1, Len(sentAt[g])) \in Seq(0..Window)
      /\ Len(SubSeq(sentAt[g], n + 1, Len(sentAt[g]))) = Len(sentAt[g]) - n
      /\ \A i \in 1..Len(sentAt[g]) - n :
           SubSeq(sentAt[g], n + 1, Len(sentAt[g]))[i] = sentAt[g][i + n]
  BY <1>3, FrontDropped
<1> QED
  BY <1>1, <1>2, <1>4

LEMMA GenType ==
  ASSUME TypeOK, Room, NEW g \in Gens, GenStep(g) PROVE TypeOK' /\ Room'
<1>1. CASE Attach(g)
  <2>1. conn' \in 0..MaxGens
    BY <1>1, WriteAssumption DEF Attach, Gens
  <2>2. /\ finish' \in [Gens -> {"new", "up", "frame", "write", "close", "closed"}]
        /\ writer' \in [Gens -> {"off", "idle", "slot", "sleep", "lock", "write", "sent",
                                 "count", "gone"}]
        /\ \A h \in Gens : writer'[h] # writer[h] => writer'[h] = "idle"
    BY <1>1 DEF Attach, TypeOK
  <2> QED
    BY <1>1, <2>1, <2>2 DEF Attach, TypeOK, Room, memberVars
<1>2. CASE CtxEnds(g)
  BY <1>2 DEF CtxEnds, TypeOK, Room, memberVars, writerVars
<1>3. CASE Finish(g)
  <2>1. conn' \in 0..MaxGens /\ ctxDone' \subseteq Gens
    BY <1>3, WriteAssumption DEF Finish, TypeOK
  <2>2. finish' \in [Gens -> {"new", "up", "frame", "write", "close", "closed"}]
    BY <1>3 DEF Finish, TypeOK
  <2> QED
    BY <1>3, <2>1, <2>2 DEF Finish, TypeOK, Room, memberVars, writerVars
<1>4. CASE FrameLocks(g)
  BY <1>4 DEF FrameLocks, TypeOK, Room, memberVars, writerVars
<1>5. CASE FrameReturns(g)
  BY <1>5 DEF FrameReturns, TypeOK, Room, memberVars, writerVars
<1>6. CASE SocketCloses(g)
  BY <1>6 DEF SocketCloses, TypeOK, Room, memberVars, writerVars
<1> QED
  BY <1>1, <1>2, <1>3, <1>4, <1>5, <1>6 DEF GenStep

LEMMA PingType ==
  ASSUME TypeOK, Room, PingKnown, PingBegins \/ PingLocks \/ PingReturns
  PROVE  TypeOK' /\ Room'
<1>1. CASE PingBegins
  <2>1. ping' \in [at : {"idle", "lock", "write"}, gen : 0..MaxGens]
    BY <1>1 DEF PingBegins, TypeOK
  <2> QED
    BY <1>1, <2>1 DEF PingBegins, TypeOK, Room, genVars, memberVars, writerVars
<1>2. CASE PingLocks
  <2>1. ping' \in [at : {"idle", "lock", "write"}, gen : 0..MaxGens]
    <3>1. ping \in [at : {"idle", "lock", "write"}, gen : 0..MaxGens] /\ 0 \in 0..MaxGens
      BY WriteAssumption DEF TypeOK
    <3>2. \/ ping' = [at |-> "idle", gen |-> 0]
          \/ ping' = [ping EXCEPT !.at = "write"]
      BY <1>2 DEF PingLocks
    <3> QED
      BY <3>1, <3>2
  <2> QED
    BY <1>2, <2>1 DEF PingLocks, TypeOK, Room, genVars, memberVars, writerVars
<1>3. CASE PingReturns
  <2>1. ping' \in [at : {"idle", "lock", "write"}, gen : 0..MaxGens]
    BY <1>3, WriteAssumption DEF PingReturns
  <2>2. broken' \subseteq Gens
    BY <1>3 DEF PingReturns, PingKnown, TypeOK
  <2> QED
    BY <1>3, <2>1, <2>2 DEF PingReturns, TypeOK, Room, genVars, memberVars, writerVars
<1> QED
  BY <1>1, <1>2, <1>3

\* A caller's request is forgotten: the others are where they were.
LEMMA ForgottenType ==
  ASSUME TypeOK, NEW c \in Callers, NEW g, Forgotten(c, g)
  PROVE  /\ requests' \in [Gens -> Seq(Callers \cup {Nobody})]
         /\ inHand' \in [Gens -> Callers \cup {Nobody}]
         /\ \A h \in Gens :
              /\ Len(requests'[h]) = Len(requests[h])
              /\ \A i \in 1..Len(requests[h]), d \in Callers :
                   requests[h][i] = d /\ d # c => requests'[h][i] = d
<1>1. SUFFICES ASSUME NEW h \in Gens
               PROVE  /\ requests'[h] \in Seq(Callers \cup {Nobody})
                      /\ Len(requests'[h]) = Len(requests[h])
                      /\ \A i \in 1..Len(requests[h]), d \in Callers :
                           requests[h][i] = d /\ d # c => requests'[h][i] = d
  BY DEF Forgotten, TypeOK
<1>2. CASE h # g
  BY <1>2 DEF Forgotten, TypeOK
<1>3. CASE h = g
  <2>1. requests'[h] = [i \in 1..Len(requests[h]) |->
                          IF requests[h][i] = c THEN Nobody ELSE requests[h][i]]
    BY <1>3 DEF Forgotten, TypeOK
  <2>2. requests[h] \in Seq(Callers \cup {Nobody}) /\ Len(requests[h]) \in Nat
    BY DEF TypeOK
  <2> QED
    BY <2>1, <2>2
<1> QED
  BY <1>2, <1>3

LEMMA FailsType ==
  ASSUME TypeOK, NEW c \in Callers, Fails(c)
  PROVE  call' \in [Callers -> [at : Places, gen : 0..MaxGens, all : BOOLEAN]]
<1>1. call \in [Callers -> [at : Places, gen : 0..MaxGens, all : BOOLEAN]]
  BY DEF TypeOK
<1>2. /\ [call[c] EXCEPT !.at = "release", !.gen = 0]
           \in [at : Places, gen : 0..MaxGens, all : BOOLEAN]
      /\ Idle \in [at : Places, gen : 0..MaxGens, all : BOOLEAN]
  <2>1. "release" \in Places /\ 0 \in 0..MaxGens
    BY WriteAssumption DEF Places
  <2> QED
    BY <2>1, CallMoves
<1> QED
  BY <1>1, <1>2 DEF Fails, Leaves

LEMMA CallerType ==
  ASSUME TypeOK, Room, NEW c \in Callers, Reserve(c) \/ CallerStep(c) PROVE TypeOK' /\ Room'
<1>1. CASE Reserve(c)
  <2>1. call' \in [Callers -> [at : Places, gen : 0..MaxGens, all : BOOLEAN]]
    BY <1>1, WriteAssumption DEF Reserve, TypeOK, Places
  <2>2. /\ members' \in [by : Callers \cup {Nobody}, in : 0..Cooldown]
        /\ granted' \in [Callers -> 0..Cooldown]
    BY <1>1, WriteAssumption DEF Reserve, TypeOK
  <2> QED
    BY <1>1, <2>1, <2>2 DEF Reserve, TypeOK, Room, genVars, writerVars
<1>2. CASE Write(c)
  <2>1. call' \in [Callers -> [at : Places, gen : 0..MaxGens, all : BOOLEAN]]
    BY <1>2 DEF Write, TypeOK, Places
  <2> QED
    BY <1>2, <2>1 DEF Write, TypeOK, Room, genVars, writerVars, memberVars
<1>3. CASE Enqueue(c)
  <2>1. call' \in [Callers -> [at : Places, gen : 0..MaxGens, all : BOOLEAN]]
    <3>1. /\ call \in [Callers -> [at : Places, gen : 0..MaxGens, all : BOOLEAN]]
          /\ "await" \in Places /\ 0 \in 0..MaxGens
      BY WriteAssumption DEF TypeOK, Places
    <3>2. call' = [call EXCEPT ![c] = [call[c] EXCEPT !.at = "await"]]
      BY <1>3 DEF Enqueue, Goes
    <3> QED
      BY <3>1, <3>2, CallMoves
  <2>2. /\ requests' \in [Gens -> Seq(Callers \cup {Nobody})]
        /\ \A g \in Gens : Len(requests'[g]) <= QueueSize
    <3>1. \A g \in Gens : requests[g] \in Seq(Callers \cup {Nobody}) /\ Len(requests[g]) \in Nat
      BY DEF TypeOK
    <3>2. \A g \in Gens : /\ Append(requests[g], c) \in Seq(Callers \cup {Nobody})
                          /\ Len(Append(requests[g], c)) = Len(requests[g]) + 1
      BY <3>1
    <3>3. /\ requests \in [Gens -> Seq(Callers \cup {Nobody})]
          /\ requests' = [requests EXCEPT ![call[c].gen] = Append(requests[call[c].gen], c)]
          /\ Len(requests[call[c].gen]) < QueueSize
          /\ \A g \in Gens : Len(requests[g]) <= QueueSize
      BY <1>3 DEF Enqueue, TypeOK
    <3>4. CASE call[c].gen \in Gens
      <4> DEFINE g == call[c].gen
      <4>1. Len(requests[g]) + 1 <= QueueSize
        BY <3>1, <3>3, <3>4, WriteAssumption
      <4> QED
        BY <3>2, <3>3, <3>4, <4>1
    <3>5. CASE call[c].gen \notin Gens
      BY <3>3, <3>5
    <3> QED
      BY <3>4, <3>5
  <2> QED
    BY <1>3, <2>1, <2>2 DEF Enqueue, TypeOK, Room, genVars, memberVars
<1>4. CASE GivesUp(c)
  <2>1. /\ requests' \in [Gens -> Seq(Callers \cup {Nobody})]
        /\ inHand' \in [Gens -> Callers \cup {Nobody}]
        /\ \A h \in Gens : Len(requests'[h]) = Len(requests[h])
    BY <1>4, ForgottenType DEF GivesUp
  <2>2. call' \in [Callers -> [at : Places, gen : 0..MaxGens, all : BOOLEAN]]
    BY <1>4, FailsType DEF GivesUp
  <2> QED
    BY <1>4, <2>1, <2>2 DEF GivesUp, TypeOK, Room, genVars, memberVars
<1>5. CASE Returns(c)
  <2>1. call' \in [Callers -> [at : Places, gen : 0..MaxGens, all : BOOLEAN]]
    <3>1. CASE Leaves(c)
      <4>1. "idle" \in Places /\ 0 \in 0..MaxGens
        BY WriteAssumption DEF Places
      <4>2. Idle \in [at : Places, gen : 0..MaxGens, all : BOOLEAN]
        BY <4>1, CallMoves
      <4> QED
        BY <3>1, <4>2 DEF Leaves, TypeOK
    <3> QED
      BY <1>5, <3>1, FailsType DEF Returns
  <2> QED
    BY <1>5, <2>1 DEF Returns, TypeOK, Room, genVars, writerVars, memberVars
<1>6. CASE Release(c)
  <2>1. call' \in [Callers -> [at : Places, gen : 0..MaxGens, all : BOOLEAN]]
    BY <1>6, WriteAssumption DEF Release, Leaves, Idle, TypeOK, Places
  <2>2. /\ members' \in [by : Callers \cup {Nobody}, in : 0..Cooldown]
        /\ granted' \in [Callers -> 0..Cooldown]
    BY <1>6, WriteAssumption DEF Release, NoEntry, TypeOK
  <2> QED
    BY <1>6, <2>1, <2>2 DEF Release, TypeOK, Room, genVars, writerVars
<1> QED
  BY <1>1, <1>2, <1>3, <1>4, <1>5, <1>6 DEF CallerStep

\* run answers the request in hand: nothing but the answer changes for callers.
LEMMA DoneType ==
  ASSUME TypeOK, Room, NEW g \in Gens, NEW out \in {"ok", "err"}, Answers(g, out),
         broken' \subseteq Gens, wsMutex' \in {"free", "locked"},
         sentAt' \in [Gens -> Seq(0..Window)], \A h \in Gens : Len(sentAt'[h]) <= Limit,
         \A h \in Gens : h # g => sentAt'[h] = sentAt[h],
         UNCHANGED <<genVars, requests, wire, memberVars, ping>>
  PROVE  TypeOK' /\ Room'
<1>1. /\ call' \in [Callers -> [at : Places, gen : 0..MaxGens, all : BOOLEAN]]
      /\ inHand' \in [Gens -> Callers \cup {Nobody}]
      /\ writer' = [writer EXCEPT ![g] = "idle"]
  <2>1. out \in Places
    BY DEF Places
  <2> QED
    BY <2>1, AnswersType
<1>2. TypeOK'
  BY <1>1 DEF TypeOK, genVars, memberVars
<1>3. Room'
  BY <1>1 DEF TypeOK, Room
<1> QED
  BY <1>2, <1>3

LEMMA TailType ==
  ASSUME TypeOK, NEW g \in Gens, requests[g] # <<>>
  PROVE  /\ Head(requests[g]) \in Callers \cup {Nobody}
         /\ Tail(requests[g]) \in Seq(Callers \cup {Nobody})
         /\ Len(Tail(requests[g])) = Len(requests[g]) - 1
         /\ \A i \in 2..Len(requests[g]) : Tail(requests[g])[i - 1] = requests[g][i]
         /\ Head(requests[g]) = requests[g][1]
         /\ Len(requests[g]) \in Nat
<1>1. requests[g] \in Seq(Callers \cup {Nobody})
  BY DEF TypeOK
<1> QED
  BY <1>1

LEMMA TickType == ASSUME TypeOK, Room, Tick PROVE TypeOK' /\ Room'
<1>1. \A n \in 0..Window : Pred(n) \in 0..Window
  BY WriteAssumption DEF Pred
<1>2. /\ sentAt' \in [Gens -> Seq(0..Window)]
      /\ \A g \in Gens : Len(sentAt'[g]) = Len(sentAt[g])
  <2>1. SUFFICES ASSUME NEW g \in Gens
                 PROVE  sentAt'[g] \in Seq(0..Window) /\ Len(sentAt'[g]) = Len(sentAt[g])
    BY DEF Tick
  <2>2. sentAt[g] \in Seq(0..Window)
    BY DEF TypeOK
  <2>3. /\ Len(sentAt[g]) \in Nat /\ DOMAIN sentAt[g] = 1..Len(sentAt[g])
        /\ \A i \in 1..Len(sentAt[g]) : Pred(sentAt[g][i]) \in 0..Window
    <3>1. Len(sentAt[g]) \in Nat /\ DOMAIN sentAt[g] = 1..Len(sentAt[g])
      BY <2>2
    <3>2. \A i \in 1..Len(sentAt[g]) : sentAt[g][i] \in 0..Window
      BY <2>2, SeqElements
    <3> QED
      BY <3>1, <3>2, <1>1
  <2>4. sentAt'[g] = [i \in 1..Len(sentAt[g]) |-> Pred(sentAt[g][i])]
    BY <2>3 DEF Tick
  <2> QED
    BY <2>3, <2>4
<1>3. wire' \in [Gens -> [1..Limit -> 0..Window]]
  BY <1>1 DEF Tick, TypeOK
<1>4. granted' \in [Callers -> 0..Cooldown]
  BY WriteAssumption DEF Tick, TypeOK, Pred
<1>5. members' \in [by : Callers \cup {Nobody}, in : 0..Cooldown]
  <2>1. members \in [by : Callers \cup {Nobody}, in : 0..Cooldown]
    BY DEF TypeOK
  <2>2. CASE members.in <= 1
    BY <2>2, WriteAssumption DEF Tick, NoEntry
  <2>3. CASE ~(members.in <= 1)
    <3>1. members.in - 1 \in 0..Cooldown
      BY <2>1, <2>3, WriteAssumption
    <3>2. members' = [members EXCEPT !.in = members.in - 1]
      BY <2>3 DEF Tick
    <3> QED
      BY <2>1, <3>1, <3>2
  <2> QED
    BY <2>2, <2>3
<1>6. TypeOK'
  BY <1>2, <1>3, <1>4, <1>5 DEF Tick, TypeOK, genVars
<1>7. Room'
  BY <1>2 DEF Tick, Room
<1> QED
  BY <1>6, <1>7

LEMMA WriterType ==
  ASSUME TypeOK, Room, NEW g \in Gens, WriterStep(g) PROVE TypeOK' /\ Room'
<1>1. CASE Take(g)
  <2>1. /\ Head(requests[g]) \in Callers \cup {Nobody}
        /\ requests' \in [Gens -> Seq(Callers \cup {Nobody})]
        /\ \A h \in Gens : Len(requests'[h]) <= QueueSize
    <3>1. /\ Head(requests[g]) \in Callers \cup {Nobody}
          /\ Tail(requests[g]) \in Seq(Callers \cup {Nobody})
          /\ Len(Tail(requests[g])) = Len(requests[g]) - 1 /\ Len(requests[g]) \in Nat
      BY <1>1, TailType DEF Take
    <3>2. /\ requests \in [Gens -> Seq(Callers \cup {Nobody})]
          /\ requests' = [requests EXCEPT ![g] = Tail(requests[g])]
          /\ \A h \in Gens : Len(requests[h]) <= QueueSize
      BY <1>1 DEF Take, TypeOK
    <3>3. Len(Tail(requests[g])) <= QueueSize
      BY <3>1, <3>2, WriteAssumption
    <3> QED
      BY <3>1, <3>2, <3>3
  <2>2. call' \in [Callers -> [at : Places, gen : 0..MaxGens, all : BOOLEAN]]
    BY <1>1, AnsweredType DEF Take, TypeOK, Places
  <2>3. inHand' \in [Gens -> Callers \cup {Nobody}]
    BY <1>1, <2>1 DEF Take, TypeOK
  <2>4. /\ writer' = [writer EXCEPT ![g] = "slot"] \/ writer' = writer
        /\ sentAt' = sentAt
    BY <1>1 DEF Take, WriterGoes
  <2>5. TypeOK'
    BY <1>1, <2>1, <2>2, <2>3, <2>4 DEF Take, TypeOK, genVars, memberVars
  <2> QED
    BY <2>4, <2>5 DEF TypeOK, Room
<1>2. CASE WriterEnds(g)
  <2>1. call' \in [Callers -> [at : Places, gen : 0..MaxGens, all : BOOLEAN]]
    BY <1>2, AnsweredType DEF WriterEnds, Places
  <2>2. /\ requests' \in [Gens -> Seq(Callers \cup {Nobody})]
        /\ \A h \in Gens : Len(requests'[h]) <= QueueSize
    <3>1. <<>> \in Seq(Callers \cup {Nobody}) /\ Len(<<>>) <= QueueSize
      BY WriteAssumption
    <3>2. requests \in [Gens -> Seq(Callers \cup {Nobody})] /\ requests' = [requests EXCEPT ![g] = <<>>]
      BY <1>2 DEF WriterEnds, TypeOK
    <3>3. \A h \in Gens : Len(requests[h]) <= QueueSize
      BY DEF TypeOK
    <3> QED
      BY <3>1, <3>2, <3>3
  <2>3. /\ sentAt' \in [Gens -> Seq(0..Window)]
        /\ \A h \in Gens : Len(sentAt'[h]) <= Limit
        /\ \A h \in Gens : h # g => sentAt'[h] = sentAt[h]
    BY <1>2, WriteAssumption DEF WriterEnds, TypeOK
  <2>4. wire' \in [Gens -> [1..Limit -> 0..Window]]
    BY <1>2, WriteAssumption, SMTT(30) DEF WriterEnds, TypeOK
  <2>5. TypeOK'
    BY <1>2, <2>1, <2>2, <2>3, <2>4 DEF WriterEnds, WriterGoes, TypeOK, genVars, memberVars
  <2> QED
    BY <1>2, <2>3, <2>5 DEF WriterEnds, WriterGoes, TypeOK, Room
<1>3. CASE Slot(g)
  <2>1. /\ sentAt' \in [Gens -> Seq(0..Window)]
        /\ \A h \in Gens : Len(sentAt'[h]) <= Limit
        /\ \A h \in Gens : h # g => sentAt'[h] = sentAt[h]
    <3>1. PICK n \in 0..Len(sentAt[g]) :
            /\ sentAt' \in [Gens -> Seq(0..Window)]
            /\ \A h \in Gens : h # g => sentAt'[h] = sentAt[h]
            /\ Len(sentAt'[g]) = Len(sentAt[g]) - n
      BY <1>3, TrimShortens DEF Slot
    <3>2. Len(sentAt[g]) \in Nat /\ \A h \in Gens : Len(sentAt[h]) <= Limit
      BY DEF TypeOK
    <3>3. Len(sentAt'[g]) <= Limit
      BY <3>1, <3>2, WriteAssumption
    <3> QED
      BY <3>1, <3>2, <3>3
  <2>2. CASE Len(sentAt'[g]) = Limit /\ g \in ctxDone /\ Answers(g, "err")
    BY <1>3, <2>1, <2>2, DoneType DEF Slot, TypeOK
  <2>3. CASE Len(sentAt'[g]) < Limit /\ WriterGoes(g, "lock") /\ UNCHANGED <<call, inHand>>
    BY <1>3, <2>1, <2>3 DEF Slot, WriterGoes, TypeOK, Room, genVars, memberVars
  <2>4. CASE WriterGoes(g, "sleep") /\ UNCHANGED <<call, inHand>>
    BY <1>3, <2>1, <2>4 DEF Slot, WriterGoes, TypeOK, Room, genVars, memberVars
  <2> QED
    BY <1>3, <2>2, <2>3, <2>4 DEF Slot
<1>4. CASE Wakes(g)
  BY <1>4 DEF Wakes, WriterGoes, TypeOK, Room, genVars, memberVars
<1>5. CASE SleepCut(g)
  BY <1>5, DoneType DEF SleepCut, TypeOK
<1>6. CASE WriterLocks(g)
  BY <1>6 DEF WriterLocks, WriterGoes, TypeOK, Room, genVars, memberVars
<1>7. CASE PacketLeaves(g)
  <2>1. wire' \in [Gens -> [1..Limit -> 0..Window]]
    <3>1. /\ wire \in [Gens -> [1..Limit -> 0..Window]] /\ Window \in 0..Window /\ Limit \in Nat
          /\ wire' = [wire EXCEPT ![g] =
                        [i \in 1..Limit |-> IF i < Limit THEN wire[g][i + 1] ELSE Window]]
      BY <1>7, WriteAssumption, SMTT(30) DEF PacketLeaves, TypeOK
    <3>2. \A i \in 1..Limit :
            (IF i < Limit THEN wire[g][i + 1] ELSE Window) \in 0..Window
      BY <3>1
    <3>3. [i \in 1..Limit |-> IF i < Limit THEN wire[g][i + 1] ELSE Window]
            \in [1..Limit -> 0..Window]
      BY <3>2
    <3> QED
      BY <3>1, <3>3
  <2> QED
    BY <1>7, <2>1 DEF PacketLeaves, WriterGoes, TypeOK, Room, genVars, memberVars
<1>8. CASE WriteSucceeds(g)
  BY <1>8 DEF WriteSucceeds, WriterGoes, TypeOK, Room, genVars, memberVars
<1>9. CASE WriteFails(g)
  BY <1>9, DoneType DEF WriteFails, TypeOK
<1>10. CASE Counts(g)
  <2>1. /\ sentAt' \in [Gens -> Seq(0..Window)]
        /\ \A h \in Gens : Len(sentAt'[h]) <= Limit
        /\ \A h \in Gens : h # g => sentAt'[h] = sentAt[h]
    <3>1. sentAt[g] \in Seq(0..Window) /\ Len(sentAt[g]) \in Nat /\ Window \in 0..Window
      BY WriteAssumption DEF TypeOK
    <3>2. /\ Append(sentAt[g], Window) \in Seq(0..Window)
          /\ Len(Append(sentAt[g], Window)) = Len(sentAt[g]) + 1
      BY <3>1
    <3>3. Len(sentAt[g]) + 1 <= Limit
      BY <1>10, <3>1, WriteAssumption DEF Counts, Room
    <3> QED
      BY <1>10, <3>2, <3>3 DEF Counts, TypeOK
  <2> QED
    BY <1>10, <2>1, DoneType DEF Counts, TypeOK
<1> QED
  BY <1>1, <1>2, <1>3, <1>4, <1>5, <1>6, <1>7, <1>8, <1>9, <1>10 DEF WriterStep

LEMMA BasicsStep ==
  ASSUME TypeOK, PingKnown, Fresh, [Next]_vars PROVE PingKnown' /\ Fresh'
<1>1. ASSUME NEW g \in Gens, GenStep(g) PROVE PingKnown' /\ Fresh'
  BY <1>1 DEF GenStep, Attach, CtxEnds, Finish, FrameLocks, FrameReturns, SocketCloses,
              PingKnown, Fresh, TypeOK, writerVars
<1>2. ASSUME NEW g \in Gens, WriterStep(g) PROVE PingKnown' /\ Fresh'
  <2>1. /\ UNCHANGED <<finish, ping>> /\ writer[g] # "off"
        /\ \A h \in Gens : h # g => writer'[h] = writer[h]
    BY <1>2 DEF WriterStep, Take, WriterEnds, Slot, Wakes, SleepCut, WriterLocks, PacketLeaves,
                WriteSucceeds, WriteFails, Counts, Answers, WriterGoes, TypeOK, genVars
  <2> QED
    BY <2>1 DEF PingKnown, Fresh
<1>3. ASSUME NEW c \in Callers, Reserve(c) \/ CallerStep(c) PROVE PingKnown' /\ Fresh'
  <2>1. UNCHANGED <<finish, ping, writer>>
    BY <1>3 DEF Reserve, CallerStep, Write, Enqueue, GivesUp, Returns, Release, genVars, writerVars
  <2> QED
    BY <2>1 DEF PingKnown, Fresh
<1>4. CASE PingBegins \/ PingLocks \/ PingReturns
  <2>1. UNCHANGED <<finish, writer>>
    BY <1>4 DEF PingBegins, PingLocks, PingReturns, genVars, writerVars
  <2>2. \/ ping' = [at |-> "lock", gen |-> conn] /\ conn # 0
        \/ ping' = [at |-> "idle", gen |-> 0]
        \/ ping' = [ping EXCEPT !.at = "write"] /\ ping.at = "lock"
    BY <1>4 DEF PingBegins, PingLocks, PingReturns
  <2>3. conn # 0 => conn \in Gens
    BY WriteAssumption DEF TypeOK, Gens
  <2>4. ping \in [at : {"idle", "lock", "write"}, gen : 0..MaxGens]
    BY DEF TypeOK
  <2> QED
    BY <2>1, <2>2, <2>3, <2>4 DEF PingKnown, Fresh
<1>5. CASE Tick
  BY <1>5 DEF Tick, PingKnown, Fresh, genVars
<1>6. CASE UNCHANGED vars
  BY <1>6 DEF vars, PingKnown, Fresh, genVars, writerVars
<1> QED
  BY <1>1, <1>2, <1>3, <1>4, <1>5, <1>6 DEF Next

LEMMA TypeStep ==
  ASSUME TypeOK, Room, PingKnown, [Next]_vars PROVE TypeOK' /\ Room'
<1>1. CASE UNCHANGED vars
  BY <1>1 DEF vars, genVars, writerVars, memberVars, TypeOK, Room
<1> QED
  BY <1>1, GenType, WriterType, CallerType, PingType, TickType DEF Next

-----------------------------------------------------------------------------
(* The window                                                                *)

LEMMA AlignedSame ==
  ASSUME NEW g \in Gens, g \in broken \/ Aligned(g), g \in broken => g \in broken',
         sentAt'[g] = sentAt[g], wire'[g] = wire[g], Uncounted(g)' = Uncounted(g)
  PROVE  g \in broken' \/ Aligned(g)'
  BY DEF Aligned, Base

\* What is known of the two records of a generation.
LEMMA RecordsType ==
  ASSUME TypeOK, NEW g \in Gens
  PROVE  /\ wire[g] \in [1..Limit -> 0..Window] /\ sentAt[g] \in Seq(0..Window)
         /\ Len(sentAt[g]) \in Nat /\ Len(sentAt[g]) <= Limit
         /\ Limit \in Nat \ {0} /\ Window \in Nat \ {0}
<1>1. sentAt[g] \in Seq(0..Window)
  BY DEF TypeOK
<1> QED
  BY <1>1, WriteAssumption DEF TypeOK

LEMMA CoversShift ==
  ASSUME NEW w \in [1..Limit -> 0..Window], NEW s \in Seq(0..Window), NEW n \in Nat \ {0},
         n + Len(s) = Limit, Covers(w, s, n)
  PROVE  Covers([i \in 1..Limit |-> IF i < Limit THEN w[i + 1] ELSE Window], s, n - 1)
<1> DEFINE v == [i \in 1..Limit |-> IF i < Limit THEN w[i + 1] ELSE Window]
<1>1. Len(s) \in Nat
  OBVIOUS
<1>2. \A i \in 1..n - 1 : v[i] = 0
  <2>1. SUFFICES ASSUME NEW i \in 1..n - 1 PROVE v[i] = 0
    OBVIOUS
  <2>2. i + 1 \in 1..n /\ i \in 1..Limit /\ i < Limit
    BY <1>1
  <2> QED
    BY <2>2 DEF Covers
<1>3. \A i \in 1..Len(s) : v[n - 1 + i] <= s[i]
  <2>1. SUFFICES ASSUME NEW i \in 1..Len(s) PROVE v[n - 1 + i] <= s[i]
    OBVIOUS
  <2>2. n - 1 + i \in 1..Limit /\ n - 1 + i < Limit /\ n - 1 + i + 1 = n + i
    BY <1>1
  <2>3. v[n - 1 + i] = w[n + i]
    BY <2>2
  <2> QED
    BY <2>3 DEF Covers
<1> QED
  BY <1>2, <1>3 DEF Covers

LEMMA CoversAppend ==
  ASSUME NEW w \in [1..Limit -> 0..Window], NEW s \in Seq(0..Window), NEW n \in Nat,
         n + Len(s) + 1 = Limit, Covers(w, s, n), Window \in Nat
  PROVE  Covers(w, Append(s, Window), n)
<1>1. /\ Len(s) \in Nat /\ Len(Append(s, Window)) = Len(s) + 1
      /\ \A i \in 1..Len(s) : Append(s, Window)[i] = s[i]
      /\ Append(s, Window)[Len(s) + 1] = Window
  OBVIOUS
<1>2. w[n + (Len(s) + 1)] <= Window
  <2>1. n + (Len(s) + 1) \in 1..Limit
    BY <1>1
  <2> QED
    BY <2>1
<1>3. \A i \in 1..Len(s) + 1 : i = Len(s) + 1 \/ i \in 1..Len(s)
  BY <1>1
<1> QED
  BY <1>1, <1>2, <1>3 DEF Covers

LEMMA CoversTrimmed ==
  ASSUME NEW w \in [1..Limit -> 0..Window], NEW s \in Seq(0..Window),
         NEW t \in Seq(0..Window), NEW n \in Nat, NEW k \in 0..Len(s),
         n + Len(s) = Limit, Covers(w, s, n), Limit \in Nat, Window \in Nat,
         \A i \in 1..k : s[i] = 0,
         Len(t) = Len(s) - k, \A i \in 1..Len(s) - k : t[i] = s[i + k]
  PROVE  Covers(w, t, n + k)
<1>1. Len(s) \in Nat
  OBVIOUS
<1>2. \A i \in 1..n + k : w[i] = 0
  <2>1. SUFFICES ASSUME NEW i \in 1..n + k PROVE w[i] = 0
    OBVIOUS
  <2>2. CASE i <= n
    BY <2>2 DEF Covers
  <2>3. CASE i > n
    <3>1. i - n \in 1..k /\ i - n \in 1..Len(s) /\ n + (i - n) = i /\ i \in 1..Limit
      BY <2>3, <1>1
    <3>2. w[n + (i - n)] <= s[i - n] /\ s[i - n] = 0
      BY <3>1 DEF Covers
    <3>3. w[i] \in 0..Window
      BY <3>1
    <3> QED
      BY <3>1, <3>2, <3>3
  <2> QED
    BY <2>2, <2>3
<1>3. \A i \in 1..Len(t) : w[n + k + i] <= t[i]
  <2>1. SUFFICES ASSUME NEW i \in 1..Len(s) - k PROVE w[n + k + i] <= t[i]
    OBVIOUS
  <2>2. i + k \in 1..Len(s) /\ n + (i + k) = n + k + i
    BY <1>1
  <2>3. w[n + (i + k)] <= s[i + k]
    BY <2>2 DEF Covers
  <2> QED
    BY <2>2, <2>3
<1> QED
  BY <1>2, <1>3 DEF Covers

LEMMA CoversTick ==
  ASSUME NEW w \in [1..Limit -> 0..Window], NEW s \in Seq(0..Window), NEW n \in Nat,
         n + Len(s) <= Limit, Covers(w, s, n), Limit \in Nat, Window \in Nat
  PROVE  Covers([i \in 1..Limit |-> Pred(w[i])], [i \in DOMAIN s |-> Pred(s[i])], n)
<1>1. /\ Len(s) \in Nat /\ DOMAIN s = 1..Len(s) /\ \A i \in 1..Len(s) : s[i] \in 0..Window
  BY SeqElements
<1>2. Len([i \in DOMAIN s |-> Pred(s[i])]) = Len(s)
  BY <1>1
<1>3. \A i \in 1..n : i \in 1..Limit /\ w[i] = 0
  BY <1>1 DEF Covers
<1>4. \A i \in 1..Len(s) : n + i \in 1..Limit /\ w[n + i] \in 0..Window /\ w[n + i] <= s[i]
  <2>1. \A i \in 1..Len(s) : n + i \in 1..Limit
    BY <1>1
  <2> QED
    BY <2>1 DEF Covers
<1>5. \A x, y \in 0..Window : x <= y => Pred(x) <= Pred(y)
  BY DEF Pred
<1> QED
  BY <1>1, <1>2, <1>3, <1>4, <1>5 DEF Covers, Pred

\* The Base of a generation whose run has a slot for what it has not counted.
LEMMA BaseType ==
  ASSUME TypeOK, Room, NEW g \in Gens
  PROVE  /\ Base(g) \in Nat /\ Base(g) = Limit - Len(sentAt[g]) - Uncounted(g)
         /\ Uncounted(g) \in {0, 1}
  BY RecordsType DEF Base, Uncounted, Room

LEMMA LeavingAligned ==
  ASSUME TypeOK, Room, NEW g \in Gens, Aligned(g), PacketLeaves(g)
  PROVE  wire[g][1] = 0 /\ Aligned(g)'
<1>1. /\ writer[g] = "write" /\ writer'[g] = "sent" /\ sentAt' = sentAt
      /\ wire'[g] = [i \in 1..Limit |-> IF i < Limit THEN wire[g][i + 1] ELSE Window]
  BY DEF PacketLeaves, WriterGoes, TypeOK
<1>2. Uncounted(g) = 0 /\ Uncounted(g)' = 1 /\ Len(sentAt[g]) < Limit
  BY <1>1 DEF Uncounted, Room
<1>3. Base(g) \in Nat \ {0} /\ Base(g) + Len(sentAt[g]) = Limit /\ Base(g)' = Base(g) - 1
  BY <1>1, <1>2, BaseType, RecordsType DEF Base
<1>4. wire[g][1] = 0
  BY <1>3 DEF Aligned, Covers
<1>5. Covers(wire'[g], sentAt[g], Base(g) - 1)
  <2>1. Covers(wire[g], sentAt[g], Base(g))
    BY DEF Aligned
  <2>2. wire[g] \in [1..Limit -> 0..Window] /\ sentAt[g] \in Seq(0..Window)
    BY RecordsType
  <2>3. Covers([i \in 1..Limit |-> IF i < Limit THEN wire[g][i + 1] ELSE Window],
               sentAt[g], Base(g) - 1)
    BY <1>3, <2>1, <2>2, CoversShift
  <2> QED
    BY <1>1, <2>3
<1> QED
  BY <1>1, <1>3, <1>4, <1>5 DEF Aligned

LEMMA CountingAligned ==
  ASSUME TypeOK, Room, NEW g \in Gens, Aligned(g), Counts(g) PROVE Aligned(g)'
<1>1. /\ writer[g] = "count" /\ writer'[g] = "idle" /\ wire' = wire
      /\ sentAt'[g] = Append(sentAt[g], Window)
  BY DEF Counts, Answers, WriterGoes, TypeOK
<1>2. Uncounted(g) = 1 /\ Uncounted(g)' = 0
  BY <1>1 DEF Uncounted
<1>3. Len(sentAt'[g]) = Len(sentAt[g]) + 1
  BY <1>1, RecordsType
<1>4. /\ Base(g) \in Nat /\ Base(g) + Len(sentAt[g]) + 1 = Limit /\ Base(g)' = Base(g)
  BY <1>2, <1>3, BaseType, RecordsType DEF Base
<1>5. Covers(wire[g], Append(sentAt[g], Window), Base(g))
  BY <1>4, CoversAppend, RecordsType DEF Aligned
<1> QED
  BY <1>1, <1>4, <1>5 DEF Aligned

LEMMA TrimmedAligned ==
  ASSUME TypeOK, Room, NEW g \in Gens, Aligned(g), Trim(g), wire' = wire, Uncounted(g) = 0,
         Uncounted(g)' = 0
  PROVE  Aligned(g)'
<1>1. PICK k \in 0..Len(sentAt[g]) :
        /\ \A i \in 1..k : sentAt[g][i] = 0
        /\ sentAt' \in [Gens -> Seq(0..Window)]
        /\ Len(sentAt'[g]) = Len(sentAt[g]) - k
        /\ \A i \in 1..Len(sentAt[g]) - k : sentAt'[g][i] = sentAt[g][i + k]
  BY TrimShortens
<1>2. Base(g) \in Nat /\ Base(g) + Len(sentAt[g]) = Limit /\ Base(g)' = Base(g) + k
  <2>1. /\ Base(g) \in Nat /\ Base(g) = Limit - Len(sentAt[g]) - 0
        /\ Limit \in Nat /\ Len(sentAt[g]) \in Nat
    BY BaseType, RecordsType
  <2>2. Base(g)' = Limit - Len(sentAt'[g]) - 0
    BY DEF Base
  <2>3. Len(sentAt'[g]) = Len(sentAt[g]) - k /\ k \in Int
    BY <1>1, <2>1
  <2>4. Base(g)' = Limit - (Len(sentAt[g]) - k) - 0
    BY <2>2, <2>3
  <2> QED
    BY <2>1, <2>3, <2>4
<1>3. Covers(wire[g], sentAt'[g], Base(g) + k)
  <2>1. /\ wire[g] \in [1..Limit -> 0..Window] /\ sentAt[g] \in Seq(0..Window)
        /\ Limit \in Nat /\ Window \in Nat
    BY RecordsType
  <2>2. Covers(wire[g], sentAt[g], Base(g)) /\ sentAt'[g] \in Seq(0..Window)
    BY <1>1 DEF Aligned
  <2> QED
    BY <1>1, <1>2, <2>1, <2>2, CoversTrimmed
<1> QED
  BY <1>2, <1>3 DEF Aligned

LEMMA TickAligned ==
  ASSUME TypeOK, Room, NEW g \in Gens, Aligned(g), Tick PROVE Aligned(g)'
<1>1. /\ wire'[g] = [i \in 1..Limit |-> Pred(wire[g][i])]
      /\ sentAt'[g] = [i \in DOMAIN sentAt[g] |-> Pred(sentAt[g][i])]
      /\ Uncounted(g)' = Uncounted(g)
  BY DEF Tick, Uncounted
<1>2. DOMAIN sentAt[g] = 1..Len(sentAt[g])
  BY RecordsType
<1>3. Len(sentAt'[g]) = Len(sentAt[g])
  BY <1>1, <1>2, RecordsType
<1>4. Base(g)' = Base(g) /\ Base(g) \in Nat /\ Base(g) + Len(sentAt[g]) <= Limit
  <2>1. Base(g)' = Base(g)
    BY <1>1, <1>3 DEF Base
  <2>2. Base(g) \in Nat /\ Base(g) = Limit - Len(sentAt[g]) - Uncounted(g)
        /\ Uncounted(g) \in {0, 1} /\ Limit \in Nat /\ Len(sentAt[g]) \in Nat
    BY BaseType, RecordsType
  <2> QED
    BY <2>1, <2>2
<1>5. /\ wire[g] \in [1..Limit -> 0..Window] /\ sentAt[g] \in Seq(0..Window)
      /\ Limit \in Nat /\ Window \in Nat
  BY RecordsType
<1>6. Covers(wire[g], sentAt[g], Base(g))
  BY DEF Aligned
<1>7. Covers([i \in 1..Limit |-> Pred(wire[g][i])],
             [i \in DOMAIN sentAt[g] |-> Pred(sentAt[g][i])], Base(g))
  BY <1>4, <1>5, <1>6, CoversTick
<1> QED
  BY <1>1, <1>4, <1>7 DEF Aligned

LEMMA WriterAligned ==
  ASSUME TypeOK, Room, Accounted, NEW g \in Gens, WriterStep(g) PROVE Accounted'
<1>1. /\ broken \subseteq broken'
      /\ \A h \in Gens : h # g => /\ writer'[h] = writer[h] /\ sentAt'[h] = sentAt[h]
                                  /\ wire'[h] = wire[h]
  <2>1. Trim(g) => \A h \in Gens : h # g => sentAt'[h] = sentAt[h]
    BY DEF Trim, TypeOK
  <2> QED
    BY <2>1 DEF WriterStep, Take, WriterEnds, Slot, Wakes, SleepCut, WriterLocks,
                PacketLeaves, WriteSucceeds, WriteFails, Counts, Answers, WriterGoes, TypeOK
<1>2. ASSUME NEW h \in Gens, h # g PROVE h \in broken' \/ Aligned(h)'
  BY <1>1, <1>2, AlignedSame DEF Accounted, Uncounted
<1>3. g \in broken' \/ Aligned(g)'
  <2>1. CASE g \in broken
    BY <2>1, <1>1
  <2>2. CASE g \notin broken
    <3>1. Aligned(g)
      BY <2>2 DEF Accounted
    <3>2. CASE Take(g) \/ Wakes(g) \/ SleepCut(g) \/ WriterLocks(g) \/ WriteSucceeds(g)
      <4>1. Uncounted(g)' = Uncounted(g) /\ sentAt' = sentAt /\ wire' = wire
        BY <3>2 DEF Take, Wakes, SleepCut, WriterLocks, WriteSucceeds, Answers, WriterGoes,
                    Uncounted, TypeOK
      <4> QED
        BY <4>1, <3>1, <1>1, AlignedSame
    <3>3. CASE Slot(g)
      <4>1. Uncounted(g)' = 0 /\ Uncounted(g) = 0
        BY <3>3 DEF Slot, Answers, WriterGoes, Uncounted, TypeOK
      <4> QED
        BY <4>1, <3>3, <3>1, TrimmedAligned DEF Slot
    <3>4. CASE WriteFails(g)
      <4>1. CASE writer[g] = "sent"
        BY <3>4, <4>1 DEF WriteFails
      <4>2. CASE writer[g] = "write"
        <5>1. Uncounted(g)' = Uncounted(g) /\ sentAt' = sentAt /\ wire' = wire
          BY <3>4, <4>2 DEF WriteFails, Answers, WriterGoes, Uncounted, TypeOK
        <5> QED
          BY <5>1, <3>1, <1>1, AlignedSame
      <4> QED
        BY <3>4, <4>1, <4>2 DEF WriteFails
    <3>5. CASE WriterEnds(g)
      <4>1. /\ wire'[g] = [i \in 1..Limit |-> 0] /\ sentAt'[g] = <<>> /\ Uncounted(g)' = 0
        BY <3>5 DEF WriterEnds, WriterGoes, Uncounted, TypeOK
      <4>2. Base(g)' = Limit
        BY <4>1, RecordsType DEF Base
      <4> QED
        BY <4>1, <4>2 DEF Aligned, Covers
    <3> QED
      BY <3>1, <3>2, <3>3, <3>4, <3>5, LeavingAligned, CountingAligned DEF WriterStep
  <2> QED
    BY <2>1, <2>2
<1> QED
  BY <1>2, <1>3 DEF Accounted

\* Nothing leaves, nothing is counted.
Apart ==
    /\ broken \subseteq broken' /\ sentAt' = sentAt /\ wire' = wire
    /\ \A g \in Gens : writer'[g] = writer[g] \/ (writer[g] = "off" /\ writer'[g] = "idle")

LEMMA AccountedApart ==
  ASSUME Accounted, Apart PROVE Accounted'
<1>1. ASSUME NEW g \in Gens PROVE g \in broken' \/ Aligned(g)'
  <2>1. Uncounted(g)' = Uncounted(g)
    BY DEF Uncounted, Apart
  <2>2. /\ g \in broken \/ Aligned(g)
        /\ g \in broken => g \in broken'
        /\ sentAt'[g] = sentAt[g] /\ wire'[g] = wire[g]
    BY DEF Accounted, Apart
  <2> QED
    BY <2>1, <2>2, AlignedSame
<1> QED
  BY <1>1 DEF Accounted

\* Only Attach moves run from outside.
LEMMA GenMovesWriter ==
  ASSUME TypeOK, Fresh, NEW g \in Gens, GenStep(g)
  PROVE  Apart
<1>1. CASE Attach(g)
  <2>1. writer' = [writer EXCEPT ![g] = "idle"] /\ writer[g] = "off"
    BY <1>1 DEF Attach, Fresh
  <2>2. \A h \in Gens : writer'[h] = IF h = g THEN "idle" ELSE writer[h]
    BY <2>1 DEF TypeOK
  <2> QED
    BY <1>1, <2>1, <2>2 DEF Attach, Apart
<1>2. CASE CtxEnds(g) \/ Finish(g) \/ FrameLocks(g) \/ FrameReturns(g) \/ SocketCloses(g)
  <2>1. broken \subseteq broken' /\ UNCHANGED <<writer, sentAt, wire>>
    BY <1>2 DEF CtxEnds, Finish, FrameLocks, FrameReturns, SocketCloses, writerVars
  <2> QED
    BY <2>1 DEF Apart
<1> QED
  BY <1>1, <1>2 DEF GenStep

LEMMA AccountedStep ==
  ASSUME TypeOK, Room, Fresh, Accounted, [Next]_vars PROVE Accounted'
<1>2. ASSUME NEW g \in Gens, GenStep(g) PROVE Accounted'
  BY <1>2, GenMovesWriter, AccountedApart
<1>3. ASSUME NEW c \in Callers, Reserve(c) \/ CallerStep(c) PROVE Accounted'
  <2>1. UNCHANGED <<broken, writer, sentAt, wire>>
    BY <1>3 DEF Reserve, CallerStep, Write, Enqueue, GivesUp, Returns, Release, writerVars
  <2> QED
    BY <2>1, AccountedApart DEF Apart
<1>4. CASE PingBegins \/ PingLocks \/ PingReturns
  <2>1. broken \subseteq broken' /\ UNCHANGED <<writer, sentAt, wire>>
    BY <1>4 DEF PingBegins, PingLocks, PingReturns, writerVars
  <2> QED
    BY <2>1, AccountedApart DEF Apart
<1>5. CASE Tick
  <2>1. broken' = broken
    BY <1>5 DEF Tick
  <2> QED
    BY <1>5, <2>1, TickAligned DEF Accounted
<1>6. CASE UNCHANGED vars
  BY <1>6, AccountedApart DEF vars, writerVars, Apart
<1> QED
  BY <1>2, <1>3, <1>4, <1>5, <1>6, WriterAligned DEF Next

-----------------------------------------------------------------------------
(* Callers that wait                                                         *)

\* Callers, queues and hands stay as they are.
Quiet ==
    /\ ctxDone \subseteq ctxDone' /\ call' = call /\ inHand' = inHand /\ requests' = requests
    /\ \A g \in Gens :
         \/ writer'[g] = writer[g]
         \/ writer[g] = "off" /\ writer'[g] = "idle"
         \/ writer'[g] \notin {"off", "idle", "gone"}

LEMMA ServedQuiet == ASSUME Served, Quiet PROVE Served'
  BY DEF Served, Quiet, Waits, Holds

LEMMA ServedGen ==
  ASSUME TypeOK, Fresh, Served, NEW g \in Gens, GenStep(g) PROVE Served'
<1>1. ctxDone \subseteq ctxDone' /\ UNCHANGED <<call, inHand, requests>>
  BY DEF GenStep, Attach, CtxEnds, Finish, FrameLocks, FrameReturns, SocketCloses, writerVars
<1>2. Apart
  BY GenMovesWriter
<1> QED
  BY <1>1, <1>2, ServedQuiet DEF Quiet, Apart

\* Run goes on, or answers the request in its hand.
LEMMA ServedWriter ==
  ASSUME TypeOK, Served, NEW g \in Gens, WriterStep(g) PROVE Served'
<1>1. ctxDone' = ctxDone
  BY DEF WriterStep, Take, WriterEnds, Slot, Wakes, SleepCut, WriterLocks, PacketLeaves,
         WriteSucceeds, WriteFails, Counts, genVars
<1>2. ASSUME NEW to \in {"slot", "sleep", "lock", "write", "sent", "count"}, WriterGoes(g, to),
             UNCHANGED <<call, inHand, requests>>
      PROVE  Served'
  BY <1>1, <1>2, ServedQuiet DEF Quiet, WriterGoes, TypeOK
<1>3. ASSUME NEW out \in {"ok", "err"}, Answers(g, out), requests' = requests PROVE Served'
  <2>1. /\ \A h \in Gens : h # g => writer'[h] = writer[h] /\ inHand'[h] = inHand[h]
        /\ writer'[g] = "idle" /\ inHand'[g] = Nobody
    BY <1>3 DEF Answers, WriterGoes, TypeOK
  <2>2. \A c \in Callers : \/ call'[c] = call[c] /\ c # inHand[g]
                           \/ call'[c].at = out
    BY <1>3 DEF Answers, Answered, TypeOK
  <2>3. ASSUME NEW c \in Callers, Waits(c)' PROVE Holds(call[c].gen, c)' /\ call'[c] = call[c]
    <3>1. call'[c] = call[c] /\ c # inHand[g] /\ Holds(call[c].gen, c) /\ call[c].gen \in Gens
      BY <1>1, <2>2, <2>3 DEF Waits, Served
    <3> QED
      BY <1>3, <2>1, <3>1 DEF Holds
  <2> QED
    BY <1>1, <2>1, <2>2, <2>3 DEF Served
<1>4. CASE Take(g)
  <2>1. /\ writer[g] = "idle" /\ inHand[g] = Nobody /\ requests[g] # <<>>
        /\ requests[g] \in Seq(Callers \cup {Nobody})
    BY <1>4 DEF Take, Served, TypeOK
  <2>2. /\ Head(requests[g]) = requests[g][1] /\ Len(requests[g]) \in Nat \ {0}
        /\ Len(Tail(requests[g])) = Len(requests[g]) - 1
        /\ \A i \in 1..Len(requests[g]) - 1 : Tail(requests[g])[i] = requests[g][i + 1]
    BY <2>1
  <2>3. /\ requests'[g] = Tail(requests[g])
        /\ \A h \in Gens : h # g => requests'[h] = requests[h]
    BY <1>4 DEF Take, TypeOK
  <2>4. CASE g \in ctxDone
    <3>1. writer' = writer /\ inHand' = inHand
      BY <1>4, <2>4 DEF Take
    <3>2. \A c \in Callers : call'[c] = call[c] \/ call'[c].at = "err"
      BY <1>4, <2>4 DEF Take, Answered, TypeOK
    <3>3. ASSUME NEW c \in Callers, Waits(c)' PROVE Holds(call[c].gen, c)' /\ call'[c] = call[c]
      <4>1. call'[c] = call[c] /\ call[c].gen \in Gens /\ call[c].gen # g
            /\ Holds(call[c].gen, c)
        BY <1>1, <2>4, <3>2, <3>3 DEF Waits, Served
      <4> QED
        BY <2>3, <3>1, <4>1 DEF Holds
    <3> QED
      BY <1>1, <3>1, <3>2, <3>3 DEF Served
  <2>5. CASE g \notin ctxDone
    <3>1. /\ call' = call /\ inHand'[g] = Head(requests[g]) /\ writer'[g] = "slot"
          /\ \A h \in Gens : h # g => writer'[h] = writer[h] /\ inHand'[h] = inHand[h]
      BY <1>4, <2>5 DEF Take, WriterGoes, TypeOK
    <3>2. ASSUME NEW c \in Callers, Holds(g, c) PROVE Holds(g, c)'
      <4>1. PICK i \in 1..Len(requests[g]) : requests[g][i] = c
        BY <3>2, <2>1, WriteAssumption DEF Holds
      <4>2. CASE i = 1
        BY <4>1, <4>2, <2>2, <3>1 DEF Holds
      <4>3. CASE i > 1
        <5>1. i - 1 \in 1..Len(requests[g]) - 1 /\ (i - 1) + 1 = i
          BY <4>3, <2>2
        <5>2. requests'[g][i - 1] = c /\ i - 1 \in 1..Len(requests'[g])
          BY <5>1, <4>1, <2>2, <2>3
        <5> QED
          BY <5>2 DEF Holds
      <4> QED
        BY <4>2, <4>3
    <3>3. ASSUME NEW c \in Callers, NEW h \in Gens, Holds(h, c) PROVE Holds(h, c)'
      <4>1. CASE h = g
        BY <3>2, <3>3, <4>1
      <4>2. CASE h # g
        BY <3>1, <3>3, <4>2, <2>3 DEF Holds
      <4> QED
        BY <4>1, <4>2
    <3> QED
      BY <1>1, <3>1, <3>3 DEF Served, Waits
  <2> QED
    BY <2>4, <2>5
<1>5. CASE WriterEnds(g)
  <2>1. /\ g \in ctxDone /\ inHand' = inHand /\ writer[g] = "idle"
        /\ \A h \in Gens : h # g => writer'[h] = writer[h] /\ requests'[h] = requests[h]
        /\ writer'[g] = "gone"
    BY <1>5 DEF WriterEnds, WriterGoes, TypeOK
  <2>2. \A c \in Callers : call'[c] = call[c] \/ call'[c].at = "err"
    BY <1>5 DEF WriterEnds, Answered, TypeOK
  <2>3. ASSUME NEW c \in Callers, Waits(c)' PROVE Holds(call[c].gen, c)' /\ call'[c] = call[c]
    <3>1. call'[c] = call[c] /\ call[c].gen \in Gens /\ call[c].gen # g
          /\ Holds(call[c].gen, c)
      BY <1>1, <2>1, <2>2, <2>3 DEF Waits, Served
    <3> QED
      BY <2>1, <3>1 DEF Holds
  <2> QED
    BY <1>1, <2>1, <2>2, <2>3 DEF Served
<1>6. CASE Slot(g) \/ Wakes(g) \/ WriterLocks(g) \/ PacketLeaves(g) \/ WriteSucceeds(g)
  <2>1. \/ /\ \E to \in {"slot", "sleep", "lock", "write", "sent", "count"} : WriterGoes(g, to)
           /\ UNCHANGED <<call, inHand, requests>>
        \/ Answers(g, "err") /\ requests' = requests
    BY <1>6 DEF Slot, Wakes, WriterLocks, PacketLeaves, WriteSucceeds
  <2> QED
    BY <2>1, <1>2, <1>3
<1>7. CASE SleepCut(g) \/ WriteFails(g) \/ Counts(g)
  BY <1>7, <1>3 DEF SleepCut, WriteFails, Counts
<1> QED
  BY <1>4, <1>5, <1>6, <1>7 DEF WriterStep

LEMMA FailsEnds ==
  ASSUME TypeOK, NEW c \in Callers, Fails(c) PROVE call'[c].at \notin {"send", "await"}
<1>1. call \in [Callers -> [at : Places, gen : 0..MaxGens, all : BOOLEAN]]
  BY DEF TypeOK
<1>2. \/ call' = [call EXCEPT ![c] = [call[c] EXCEPT !.at = "release", !.gen = 0]]
      \/ call' = [call EXCEPT ![c] = Idle]
  BY DEF Fails, Leaves
<1>3. [call[c] EXCEPT !.at = "release", !.gen = 0].at = "release"
  BY <1>1
<1>4. \/ call'[c] = [call[c] EXCEPT !.at = "release", !.gen = 0]
      \/ call'[c] = Idle
  <2>1. \A r : [call EXCEPT ![c] = r][c] = r
    BY <1>1
  <2> QED
    BY <1>2, <2>1
<1>5. CASE call'[c] = [call[c] EXCEPT !.at = "release", !.gen = 0]
  <2>1. call'[c].at = "release"
    BY <1>3, <1>5
  <2> QED
    BY <2>1
<1> QED
  BY <1>4, <1>5 DEF Idle

LEMMA ServedCaller ==
  ASSUME TypeOK, Served, NEW c \in Callers, Reserve(c) \/ CallerStep(c) PROVE Served'
<1>1. ctxDone' = ctxDone /\ writer' = writer
  BY DEF Reserve, CallerStep, Write, Enqueue, GivesUp, Returns, Release, genVars, writerVars
<1>2. \A d \in Callers : d # c => call'[d] = call[d]
  BY DEF Reserve, CallerStep, Write, Enqueue, GivesUp, Returns, Release, Goes, Leaves, Fails,
         TypeOK
<1>3. CASE Reserve(c) \/ Write(c) \/ Returns(c) \/ Release(c)
  <2>1. inHand' = inHand /\ requests' = requests
    BY <1>3 DEF Reserve, Write, Returns, Release, writerVars
  <2>2. \/ call'[c].at \notin {"send", "await"}
        \/ call'[c].at = "send" /\ call'[c].gen = conn /\ conn # 0
    <3>1. call \in [Callers -> [at : Places, gen : 0..MaxGens, all : BOOLEAN]]
      BY DEF TypeOK
    <3>2. CASE Reserve(c)
      BY <3>1, <3>2 DEF Reserve
    <3>3. CASE Write(c)
      BY <3>1, <3>3 DEF Write
    <3>4. CASE Returns(c)
      BY <3>1, <3>4, FailsEnds DEF Returns, Leaves, Idle
    <3>5. CASE Release(c)
      BY <3>1, <3>5 DEF Release, Leaves, Idle
    <3> QED
      BY <1>3, <3>2, <3>3, <3>4, <3>5
  <2>3. conn # 0 => conn \in Gens
    BY WriteAssumption DEF TypeOK, Gens
  <2> QED
    BY <1>1, <1>2, <2>1, <2>2, <2>3 DEF Served, Waits, Holds
<1>4. CASE Enqueue(c)
  <2> DEFINE g == call[c].gen
  <2>1. g \in Gens /\ requests[g] \in Seq(Callers \cup {Nobody})
    BY <1>4 DEF Enqueue, Served, TypeOK
  <2>2. /\ Len(Append(requests[g], c)) = Len(requests[g]) + 1 /\ Len(requests[g]) \in Nat
        /\ \A i \in 1..Len(requests[g]) : Append(requests[g], c)[i] = requests[g][i]
        /\ Append(requests[g], c)[Len(requests[g]) + 1] = c
    BY <2>1
  <2>3. /\ requests'[g] = Append(requests[g], c) /\ inHand' = inHand
        /\ \A h \in Gens : h # g => requests'[h] = requests[h]
        /\ call'[c].at = "await" /\ call'[c].gen = g
    BY <1>4, <2>1 DEF Enqueue, Goes, TypeOK
  <2>4. Holds(g, c)'
    <3>1. Len(requests[g]) + 1 \in 1..Len(requests'[g])
      BY <2>2, <2>3
    <3> QED
      BY <3>1, <2>2, <2>3 DEF Holds
  <2>5. ASSUME NEW d \in Callers, NEW h \in Gens, Holds(h, d) PROVE Holds(h, d)'
    <3>1. CASE h # g
      BY <3>1, <2>3, <2>5 DEF Holds
    <3>2. CASE h = g
      <4>1. \A i \in 1..Len(requests[g]) : i \in 1..Len(requests[g]) + 1
        BY <2>2
      <4> QED
        BY <3>2, <4>1, <2>2, <2>3, <2>5 DEF Holds
    <3> QED
      BY <3>1, <3>2
  <2> QED
    BY <1>1, <1>2, <2>1, <2>3, <2>4, <2>5 DEF Served, Waits
<1>5. CASE GivesUp(c)
  <2> DEFINE g == call[c].gen
  <2>1. Fails(c) /\ Forgotten(c, g)
    BY <1>5 DEF GivesUp
  <2>2. call'[c].at \notin {"send", "await"}
    BY <2>1, FailsEnds
  <2>3. \A h \in Gens : inHand'[h] = IF h = g /\ inHand[h] = c THEN Nobody ELSE inHand[h]
    BY <2>1 DEF Forgotten, TypeOK
  <2>4. \A h \in Gens : /\ Len(requests'[h]) = Len(requests[h])
                        /\ \A i \in 1..Len(requests[h]), d \in Callers :
                             requests[h][i] = d /\ d # c => requests'[h][i] = d
    BY <2>1, ForgottenType
  <2>5. \A h \in Gens, d \in Callers : d # c /\ Holds(h, d) => Holds(h, d)'
    BY <2>3, <2>4 DEF Holds
  <2> QED
    BY <1>1, <1>2, <2>2, <2>3, <2>5 DEF Served, Waits
<1> QED
  BY <1>3, <1>4, <1>5 DEF CallerStep

LEMMA ServedStep == ASSUME TypeOK, Fresh, Served, [Next]_vars PROVE Served'
<1>1. CASE PingBegins \/ PingLocks \/ PingReturns \/ Tick \/ UNCHANGED vars
  <2>1. UNCHANGED <<ctxDone, call, inHand, requests, writer>>
    BY <1>1 DEF PingBegins, PingLocks, PingReturns, Tick, vars, genVars, writerVars
  <2> QED
    BY <2>1, ServedQuiet DEF Quiet
<1> QED
  BY <1>1, ServedGen, ServedWriter, ServedCaller DEF Next

-----------------------------------------------------------------------------
(* The theorems                                                              *)

WriteInv == TypeOK /\ Room /\ PingKnown /\ Fresh /\ Accounted /\ EntryAgrees /\ Served

LEMMA InitHolds == ASSUME Init PROVE WriteInv
<1>1. TypeOK
  BY WriteAssumption DEF Init, TypeOK, Idle, NoEntry, Places
<1>2. Room /\ PingKnown /\ Fresh /\ EntryAgrees
  BY WriteAssumption DEF Init, Room, PingKnown, Fresh, EntryAgrees
<1>3. Accounted
  BY WriteAssumption DEF Init, Accounted, Aligned, Covers, Base, Uncounted
<1>4. Served
  BY DEF Init, Served, Waits, Idle
<1> QED
  BY <1>1, <1>2, <1>3, <1>4 DEF WriteInv

LEMMA StepKeeps == ASSUME WriteInv, [Next]_vars PROVE WriteInv'
  BY TypeStep, BasicsStep, AccountedStep, EntryStep, ServedStep DEF WriteInv

LEMMA WriteInvariant == Spec => []WriteInv
<1>1. Init => WriteInv
  BY InitHolds
<1>2. WriteInv /\ [Next]_vars => WriteInv'
  BY StepKeeps
<1> QED
  BY <1>1, <1>2, PTL DEF Spec

(* The state of queues, callers and locks keeps its types, and no channel and  *)
(* no sentAt outgrows its bound.                                              *)
THEOREM TypeCorrect == Spec => []TypeOK
<1>1. WriteInv => TypeOK
  BY DEF WriteInv
<1> QED
  BY <1>1, WriteInvariant, PTL

(* run keeps to gatewaySendLimit packets in gatewaySendWindow, whatever the     *)
(* limit and the window are.                                                  *)
THEOREM WindowKept == Spec => WindowHeld
<1>1. ASSUME WriteInv, [Next]_vars
      PROVE  \A g \in Gens : writer[g] = "write" /\ writer'[g] = "sent" => wire[g][1] = 0
  <2>1. SUFFICES ASSUME NEW g \in Gens, writer[g] = "write", writer'[g] = "sent"
                 PROVE  wire[g][1] = 0
    OBVIOUS
  <2>2. PacketLeaves(g)
    <3>1. ASSUME NEW h \in Gens, GenStep(h) PROVE FALSE
      BY <1>1, <3>1, <2>1, GenMovesWriter DEF Apart, WriteInv
    <3>2. ASSUME NEW h \in Gens, WriterStep(h) PROVE PacketLeaves(g)
      <4>1. PICK to : writer' = writer \/ writer' = [writer EXCEPT ![h] = to]
        BY <3>2 DEF WriterStep, Take, WriterEnds, Slot, Wakes, SleepCut, WriterLocks,
                    PacketLeaves, WriteSucceeds, WriteFails, Counts, Answers, WriterGoes
      <4>2. h = g
        BY <4>1, <2>1, <1>1 DEF WriteInv, TypeOK
      <4>3. writer'[g] \in {writer[g], "idle", "gone", "lock", "sleep", "slot", "write", "count"}
            \/ PacketLeaves(g)
        BY <3>2, <4>2, <1>1 DEF WriterStep, Take, WriterEnds, Slot, Wakes, SleepCut, WriterLocks,
                    WriteSucceeds, WriteFails, Counts, Answers, WriterGoes, WriteInv, TypeOK
      <4> QED
        BY <4>3, <2>1
    <3>3. CASE \E c \in Callers : Reserve(c) \/ CallerStep(c)
      BY <3>3, <2>1 DEF Reserve, CallerStep, Write, Enqueue, GivesUp, Returns, Release,
                        writerVars
    <3>4. CASE PingBegins \/ PingLocks \/ PingReturns \/ Tick \/ UNCHANGED vars
      BY <3>4, <2>1 DEF PingBegins, PingLocks, PingReturns, Tick, vars, writerVars
    <3> QED
      BY <1>1, <3>1, <3>2, <3>3, <3>4 DEF Next
  <2>3. Aligned(g)
    BY <1>1, <2>2 DEF WriteInv, Accounted, PacketLeaves
  <2> QED
    BY <1>1, <2>2, <2>3, LeavingAligned DEF WriteInv
<1>2. Spec => [][\A g \in Gens :
                   writer[g] = "write" /\ writer'[g] = "sent" => wire[g][1] = 0]_vars
  BY <1>1, WriteInvariant, PTL DEF Spec
<1> QED
  BY <1>2 DEF WindowHeld

(* No two requests for all members of a guild are accepted within the cooldown *)
(* unless one failed.                                                         *)
THEOREM CooldownKept == Spec => []CooldownHeld
<1>1. WriteInv => CooldownHeld
  BY DEF WriteInv, EntryAgrees, CooldownHeld
<1> QED
  BY <1>1, WriteInvariant, PTL

(* A caller that waits for its answer has a request that run will answer.      *)
THEOREM WaitersKept == Spec => []WaitersServed
<1>1. ASSUME WriteInv PROVE WaitersServed
  <2>1. SUFFICES ASSUME NEW c \in Callers, call[c].at = "await", call[c].gen \notin ctxDone
                 PROVE  /\ writer[call[c].gen] # "gone"
                        /\ \/ inHand[call[c].gen] = c
                           \/ \E i \in DOMAIN requests[call[c].gen] : requests[call[c].gen][i] = c
    BY DEF WaitersServed
  <2>2. call[c].gen \in Gens /\ Holds(call[c].gen, c)
    BY <1>1, <2>1 DEF WriteInv, Served, Waits
  <2>3. DOMAIN requests[call[c].gen] = 1..Len(requests[call[c].gen])
    BY <1>1, <2>2 DEF WriteInv, TypeOK
  <2> QED
    BY <1>1, <2>1, <2>2, <2>3 DEF WriteInv, Served, Holds
<1> QED
  BY <1>1, WriteInvariant, PTL
=============================================================================
