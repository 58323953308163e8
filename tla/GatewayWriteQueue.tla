-------------------------- MODULE GatewayWriteQueue --------------------------
(***************************************************************************)
(* Outbound packets of a Session (gateway_write.go and its callers in         *)
(* wsapi.go).  Each generation of the gateway connection has a queue and one  *)
(* goroutine, run, that paces what it writes; the heartbeat that Discord asks *)
(* for and the close frame go past the queue; all of them share wsMutex.      *)
(* A step is one critical section, one channel operation or one write.        *)
(*                                                                         *)
(* Instants are kept as what is left of them.  A caller is any goroutine that *)
(* writes through the queue, the heartbeat and the opener among them.  All    *)
(* callers pass the context of the generation.                               *)
(***************************************************************************)
EXTENDS Integers, Sequences

CONSTANTS
    MaxGens,    \* bound: generations of the connection
    Callers,
    Limit,      \* gatewaySendLimit
    Window,     \* gatewaySendWindow, in ticks
    QueueSize,  \* gatewayWriteQueueSize
    Cooldown    \* of all-members requests of a guild, in ticks

Nobody == "nobody"

ASSUME WriteAssumption ==
    /\ MaxGens \in Nat \ {0} /\ Limit \in Nat \ {0} /\ Window \in Nat \ {0}
    /\ QueueSize \in Nat \ {0} /\ Cooldown \in Nat \ {0}
    /\ Nobody \notin Callers

Gens == 1..MaxGens

VARIABLES
    conn,       \* the current generation, 0 for none
    ctxDone,    \* generations whose context is done
    finish,     \* where the goroutine in finishGatewayGeneration is
    broken,     \* websockets whose writes fail from now on
    wsMutex,    \* held by who is at "write" (run also at "sent")
    writer,     \* where run is, per generation
    inHand,     \* the caller whose request run works on; Nobody when it has gone
    requests,   \* the channel, as the callers
    sentAt,     \* what is left of the window of each packet that run counted
    call,       \* of each caller: where it is, on which generation, and
                \* whether it asks for all members
    members,    \* the entry of guildMembersRequests of one guild, while its
                \* cooldown lasts: whose it is, and what is left
    ping,       \* where the answer to a heartbeat request is
    wire,       \* history: what is left of the window of the last Limit packets
                \* of a queue when they left, the oldest first
    granted     \* history: what is left of the cooldown a caller was granted

genVars    == <<conn, ctxDone, finish>>
writerVars == <<writer, inHand, requests, sentAt, wire>>
memberVars == <<members, granted>>
vars == <<genVars, broken, wsMutex, writerVars, call, memberVars, ping>>

Idle == [at |-> "idle", gen |-> 0, all |-> FALSE]

NoEntry == [by |-> Nobody, in |-> 0]

Places == {"idle", "write", "send", "await", "ok", "err", "release"}

TypeOK ==
    /\ conn \in 0..MaxGens /\ ctxDone \subseteq Gens /\ broken \subseteq Gens
    /\ finish \in [Gens -> {"new", "up", "frame", "write", "close", "closed"}]
    /\ wsMutex \in {"free", "locked"}
    /\ writer \in [Gens -> {"off", "idle", "slot", "sleep", "lock", "write", "sent",
                            "count", "gone"}]
    /\ inHand \in [Gens -> Callers \cup {Nobody}]
    /\ requests \in [Gens -> Seq(Callers \cup {Nobody})]
    /\ \A g \in Gens : Len(requests[g]) <= QueueSize
    /\ sentAt \in [Gens -> Seq(0..Window)]
    /\ \A g \in Gens : Len(sentAt[g]) <= Limit
    /\ wire \in [Gens -> [1..Limit -> 0..Window]]
    /\ call \in [Callers -> [at : Places, gen : 0..MaxGens, all : BOOLEAN]]
    /\ members \in [by : Callers \cup {Nobody}, in : 0..Cooldown]
    /\ granted \in [Callers -> 0..Cooldown]
    /\ ping \in [at : {"idle", "lock", "write"}, gen : 0..MaxGens]

Init ==
    /\ conn = 0 /\ ctxDone = {} /\ broken = {}
    /\ finish = [g \in Gens |-> "new"]
    /\ wsMutex = "free"
    /\ writer = [g \in Gens |-> "off"]
    /\ inHand = [g \in Gens |-> Nobody]
    /\ requests = [g \in Gens |-> <<>>]
    /\ sentAt = [g \in Gens |-> <<>>]
    /\ wire = [g \in Gens |-> [i \in 1..Limit |-> 0]]
    /\ call = [c \in Callers |-> Idle]
    /\ members = NoEntry
    /\ granted = [c \in Callers |-> 0]
    /\ ping = [at |-> "idle", gen |-> 0]

-----------------------------------------------------------------------------
(* Generations, as far as the queues can tell (see Gateway).                  *)

\* beginGatewayGeneration and attachGatewayWebsocket, which starts run: a writer that
\* comes between the two finds no websocket, as before the first.
Attach(g) ==
    /\ conn = 0 /\ finish[g] = "new" /\ \A h \in Gens : h < g => finish[h] # "new"
    /\ conn' = g /\ finish' = [finish EXCEPT ![g] = "up"]
    /\ writer' = [writer EXCEPT ![g] = "idle"]
    /\ UNCHANGED <<ctxDone, broken, wsMutex, inHand, requests, sentAt, wire, call,
                   memberVars, ping>>

\* The lifecycle ends.
CtxEnds(g) ==
    /\ finish[g] = "up" /\ g \notin ctxDone /\ ctxDone' = ctxDone \cup {g}
    /\ UNCHANGED <<conn, finish, broken, wsMutex, writerVars, call, memberVars, ping>>

\* Whoever enters finish.Do, with or without a close frame to send, until conn.cancel:
\* who looked at conn before its critical section works on as long as the context lasts.
Finish(g) ==
    /\ finish[g] = "up"
    /\ \E to \in {"frame", "close"} : finish' = [finish EXCEPT ![g] = to]
    /\ conn' = IF conn = g THEN 0 ELSE conn
    /\ ctxDone' = ctxDone \cup {g}
    /\ UNCHANGED <<broken, wsMutex, writerVars, call, memberVars, ping>>

FrameLocks(g) ==
    /\ finish[g] = "frame" /\ wsMutex = "free"
    /\ finish' = [finish EXCEPT ![g] = "write"] /\ wsMutex' = "locked"
    /\ UNCHANGED <<conn, ctxDone, broken, writerVars, call, memberVars, ping>>

\* The frame was written or the write failed: no write succeeds after either.
FrameReturns(g) ==
    /\ finish[g] = "write"
    /\ finish' = [finish EXCEPT ![g] = "close"] /\ wsMutex' = "free"
    /\ broken' = broken \cup {g}
    /\ UNCHANGED <<conn, ctxDone, writerVars, call, memberVars, ping>>

SocketCloses(g) ==
    /\ finish[g] = "close"
    /\ finish' = [finish EXCEPT ![g] = "closed"] /\ broken' = broken \cup {g}
    /\ UNCHANGED <<conn, ctxDone, wsMutex, writerVars, call, memberVars, ping>>

-----------------------------------------------------------------------------
(* Callers: GatewayWriteStruct, requestGuildMembers, heartbeat, identify.     *)

Goes(c, to) == call' = [call EXCEPT ![c].at = to]

Leaves(c) == call' = [call EXCEPT ![c] = Idle]

\* reserveAllGuildMembersRequest; a caller that is refused returns.
Reserve(c) ==
    /\ call[c].at = "idle" /\ members.in = 0
    /\ members' = [by |-> c, in |-> Cooldown]
    /\ granted' = [granted EXCEPT ![c] = Cooldown]
    /\ call' = [call EXCEPT ![c] = [at |-> "write", gen |-> 0, all |-> TRUE]]
    /\ UNCHANGED <<genVars, broken, wsMutex, writerVars, ping>>

\* writeGatewayCurrent finds a generation, or ErrWSNotFound.
Write(c) ==
    /\ \/ call[c].at = "write"
       \/ call[c].at = "idle" /\ conn # 0
    /\ call' = [call EXCEPT ![c] =
                  [at |-> IF conn = 0 THEN "release" ELSE "send", gen |-> conn,
                   all |-> call[c].at = "write"]]
    /\ UNCHANGED <<genVars, broken, wsMutex, writerVars, memberVars, ping>>

\* enqueue: the request is in the channel.
Enqueue(c) ==
    LET g == call[c].gen IN
    /\ call[c].at = "send" /\ Len(requests[g]) < QueueSize
    /\ requests' = [requests EXCEPT ![g] = Append(@, c)]
    /\ Goes(c, "await")
    /\ UNCHANGED <<genVars, broken, wsMutex, writer, inHand, sentAt, wire, memberVars, ping>>

\* Its request stays where it is, and nobody will read the answer.
Forgotten(c, g) ==
    /\ requests' = [requests EXCEPT ![g] =
                      [i \in DOMAIN @ |-> IF @[i] = c THEN Nobody ELSE @[i]]]
    /\ inHand' = [inHand EXCEPT ![g] = IF @ = c THEN Nobody ELSE @]

Fails(c) ==
    IF call[c].all
    THEN call' = [call EXCEPT ![c] = [@ EXCEPT !.at = "release", !.gen = 0]]
    ELSE Leaves(c)

\* Mutant: a caller that waits for its answer does not look at the contexts.
WaitsForAnswer(c) ==
    LET g == call[c].gen IN
    /\ call[c].at = "send" /\ g \in ctxDone
    /\ Fails(c) /\ Forgotten(c, g)
    /\ UNCHANGED <<genVars, broken, wsMutex, writer, sentAt, wire, memberVars, ping>>

\* The context is done: at the head of enqueue, or in one of its selects, which
\* may choose it also when there is an answer.
GivesUp(c) ==
    LET g == call[c].gen IN
    /\ call[c].at \in {"send", "await", "ok", "err"} /\ g \in ctxDone
    /\ Fails(c) /\ Forgotten(c, g)
    /\ UNCHANGED <<genVars, broken, wsMutex, writer, sentAt, wire, memberVars, ping>>

Returns(c) ==
    /\ \/ call[c].at = "ok" /\ Leaves(c)
       \/ call[c].at = "err" /\ Fails(c)
    /\ UNCHANGED <<genVars, broken, wsMutex, writerVars, memberVars, ping>>

\* Mutant: the entry is deleted whosever it is.
ReleasesAny(c) ==
    /\ call[c].at = "release" /\ Leaves(c)
    /\ members' = NoEntry
    /\ granted' = [granted EXCEPT ![c] = 0]
    /\ UNCHANGED <<genVars, broken, wsMutex, writerVars, ping>>

\* releaseAllGuildMembersRequest
Release(c) ==
    /\ call[c].at = "release" /\ Leaves(c)
    /\ members' = IF members.by = c THEN NoEntry ELSE members
    /\ granted' = [granted EXCEPT ![c] = 0]
    /\ UNCHANGED <<genVars, broken, wsMutex, writerVars, ping>>

-----------------------------------------------------------------------------
(* run                                                                       *)

WriterGoes(g, to) == writer' = [writer EXCEPT ![g] = to]

\* Callers with a request among these get this answer.
Answered(who, out) ==
    call' = [c \in Callers |-> IF c \in who THEN [call[c] EXCEPT !.at = out] ELSE call[c]]

\* The request in hand is done with.
Answers(g, out) ==
    /\ WriterGoes(g, "idle")
    /\ Answered({inHand[g]}, out) /\ inHand' = [inHand EXCEPT ![g] = Nobody]

\* A request that comes when the context is done is refused.
Take(g) ==
    /\ writer[g] = "idle" /\ requests[g] # <<>>
    /\ requests' = [requests EXCEPT ![g] = Tail(@)]
    /\ IF g \in ctxDone
       THEN Answered({Head(requests[g])}, "err") /\ UNCHANGED <<writer, inHand>>
       ELSE /\ inHand' = [inHand EXCEPT ![g] = Head(requests[g])]
            /\ WriterGoes(g, "slot") /\ UNCHANGED call
    /\ UNCHANGED <<genVars, broken, wsMutex, sentAt, wire, memberVars, ping>>

\* failPending, and done is closed; who comes later finds the context done.
\* The history of the queue ends with it.
WriterEnds(g) ==
    /\ writer[g] = "idle" /\ g \in ctxDone
    /\ WriterGoes(g, "gone")
    /\ Answered({requests[g][i] : i \in DOMAIN requests[g]}, "err")
    /\ requests' = [requests EXCEPT ![g] = <<>>]
    /\ sentAt' = [sentAt EXCEPT ![g] = <<>>]
    /\ wire' = [wire EXCEPT ![g] = [i \in 1..Limit |-> 0]]
    /\ UNCHANGED <<genVars, broken, wsMutex, inHand, memberVars, ping>>

\* The packets that have left the window are dropped from the front of sentAt.
Trim(g) ==
    \E n \in 0..Len(sentAt[g]) :
        /\ \A i \in 1..n : sentAt[g][i] = 0
        /\ n < Len(sentAt[g]) => sentAt[g][n + 1] > 0
        /\ sentAt' = [sentAt EXCEPT ![g] = SubSeq(@, n + 1, Len(@))]

\* Mutant: one packet more than the limit.
SlotOffByOne(g) ==
    /\ writer[g] = "slot" /\ Trim(g)
    /\ \/ Len(sentAt'[g]) <= Limit /\ WriterGoes(g, "lock") /\ UNCHANGED <<call, inHand>>
       \/ Len(sentAt'[g]) > Limit /\ g \notin ctxDone
          /\ WriterGoes(g, "sleep") /\ UNCHANGED <<call, inHand>>
       \/ Len(sentAt'[g]) > Limit /\ g \in ctxDone /\ Answers(g, "err")
    /\ UNCHANGED <<genVars, broken, wsMutex, requests, wire, memberVars, ping>>

\* waitForSlot
Slot(g) ==
    /\ writer[g] = "slot" /\ Trim(g)
    /\ \/ Len(sentAt'[g]) < Limit /\ WriterGoes(g, "lock") /\ UNCHANGED <<call, inHand>>
       \/ Len(sentAt'[g]) = Limit /\ g \notin ctxDone
          /\ WriterGoes(g, "sleep") /\ UNCHANGED <<call, inHand>>
       \/ Len(sentAt'[g]) = Limit /\ g \in ctxDone /\ Answers(g, "err")
    /\ UNCHANGED <<genVars, broken, wsMutex, requests, wire, memberVars, ping>>

\* The delay is what is left of the oldest packet's window.
Wakes(g) ==
    /\ writer[g] = "sleep" /\ Head(sentAt[g]) = 0 /\ WriterGoes(g, "slot")
    /\ UNCHANGED <<genVars, broken, wsMutex, inHand, requests, sentAt, wire, call,
                   memberVars, ping>>

SleepCut(g) ==
    /\ writer[g] = "sleep" /\ g \in ctxDone /\ Answers(g, "err")
    /\ UNCHANGED <<genVars, broken, wsMutex, requests, sentAt, wire, memberVars, ping>>

WriterLocks(g) ==
    /\ writer[g] = "lock" /\ wsMutex = "free"
    /\ WriterGoes(g, "write") /\ wsMutex' = "locked"
    /\ UNCHANGED <<genVars, broken, inHand, requests, sentAt, wire, call, memberVars, ping>>

\* The packet leaves, at some instant of WriteJSON.
PacketLeaves(g) ==
    /\ writer[g] = "write" /\ g \notin broken /\ WriterGoes(g, "sent")
    /\ wire' = [wire EXCEPT ![g] =
                  [i \in 1..Limit |-> IF i < Limit THEN @[i + 1] ELSE Window]]
    /\ UNCHANGED <<genVars, broken, wsMutex, inHand, requests, sentAt, call, memberVars, ping>>

WriteSucceeds(g) ==
    /\ writer[g] = "sent" /\ WriterGoes(g, "count") /\ wsMutex' = "free"
    /\ UNCHANGED <<genVars, broken, inHand, requests, sentAt, wire, call, memberVars, ping>>

\* Mutant: after an error the lock is kept.
FailsLocked(g) ==
    /\ writer[g] \in {"write", "sent"} /\ Answers(g, "err")
    /\ broken' = broken \cup {g}
    /\ UNCHANGED <<genVars, wsMutex, requests, sentAt, wire, memberVars, ping>>

\* Mutant: after an error run goes on without an answer.
FailsSilently(g) ==
    /\ writer[g] \in {"write", "sent"} /\ wsMutex' = "free"
    /\ WriterGoes(g, "idle") /\ inHand' = [inHand EXCEPT ![g] = Nobody]
    /\ broken' \in {broken, broken \cup {g}}
    /\ UNCHANGED <<genVars, requests, sentAt, wire, call, memberVars, ping>>

\* The websocket fails, also when the packet has left, or had failed before; or
\* the data cannot be encoded, which leaves the websocket as it is.
WriteFails(g) ==
    /\ writer[g] \in {"write", "sent"} /\ Answers(g, "err") /\ wsMutex' = "free"
    /\ \/ broken' = broken \cup {g}
       \/ writer[g] = "write" /\ UNCHANGED broken
    /\ UNCHANGED <<genVars, requests, sentAt, wire, memberVars, ping>>

Counts(g) ==
    /\ writer[g] = "count" /\ Answers(g, "ok")
    /\ sentAt' = [sentAt EXCEPT ![g] = Append(@, Window)]
    /\ UNCHANGED <<genVars, broken, wsMutex, requests, wire, memberVars, ping>>

-----------------------------------------------------------------------------
(* writeGatewayPriorityCurrent, called by the listener of any generation.     *)

PingBegins ==
    /\ ping.at = "idle" /\ conn # 0 /\ conn \notin ctxDone
    /\ ping' = [at |-> "lock", gen |-> conn]
    /\ UNCHANGED <<genVars, broken, wsMutex, writerVars, call, memberVars>>

PingLocks ==
    /\ ping.at = "lock" /\ wsMutex = "free"
    /\ IF ping.gen \in ctxDone
       THEN ping' = [at |-> "idle", gen |-> 0] /\ UNCHANGED wsMutex
       ELSE ping' = [ping EXCEPT !.at = "write"] /\ wsMutex' = "locked"
    /\ UNCHANGED <<genVars, broken, writerVars, call, memberVars>>

PingReturns ==
    /\ ping.at = "write" /\ ping' = [at |-> "idle", gen |-> 0] /\ wsMutex' = "free"
    /\ broken' \in {broken, broken \cup {ping.gen}}
    /\ UNCHANGED <<genVars, writerVars, call, memberVars>>

-----------------------------------------------------------------------------
Pred(n) == IF n = 0 THEN 0 ELSE n - 1

Tick ==
    /\ sentAt' = [g \in Gens |-> [i \in DOMAIN sentAt[g] |-> Pred(sentAt[g][i])]]
    /\ wire' = [g \in Gens |-> [i \in 1..Limit |-> Pred(wire[g][i])]]
    /\ members' = IF members.in <= 1 THEN NoEntry ELSE [members EXCEPT !.in = @ - 1]
    /\ granted' = [c \in Callers |-> Pred(granted[c])]
    /\ UNCHANGED <<genVars, broken, wsMutex, writer, inHand, requests, call, ping>>

CallerStep(c) ==
    Write(c) \/ Enqueue(c) \/ GivesUp(c) \/ Returns(c) \/ Release(c)

WriterStep(g) ==
    \/ Take(g) \/ WriterEnds(g) \/ Slot(g) \/ Wakes(g) \/ SleepCut(g) \/ WriterLocks(g)
    \/ PacketLeaves(g) \/ WriteSucceeds(g) \/ WriteFails(g) \/ Counts(g)

GenStep(g) ==
    Attach(g) \/ CtxEnds(g) \/ Finish(g) \/ FrameLocks(g) \/ FrameReturns(g) \/ SocketCloses(g)

Next ==
    \/ \E g \in Gens : GenStep(g) \/ WriterStep(g)
    \/ \E c \in Callers : Reserve(c) \/ CallerStep(c)
    \/ PingBegins \/ PingLocks \/ PingReturns
    \/ Tick

Spec == Init /\ [][Next]_vars

-----------------------------------------------------------------------------
(* Goroutines that can run do; sync.Mutex hands itself over to one that waits *)
(* long.  A write returns when its websocket is closed or has failed: a peer  *)
(* that does not read may hold it up for ever, as there is no write deadline. *)

LocalStep(g) ==
    \/ Take(g) \/ WriterEnds(g) \/ Slot(g) \/ Wakes(g) \/ SleepCut(g) \/ Counts(g)
    \/ writer[g] = "sent" /\ WriteSucceeds(g)
    \/ g \in broken /\ WriteFails(g)

CloseStep(g) ==
    \/ g \in ctxDone /\ Finish(g)
    \/ g \in broken /\ FrameReturns(g)
    \/ SocketCloses(g)

FairSpec ==
    /\ Spec
    /\ \A g \in Gens :
        /\ WF_vars(LocalStep(g)) /\ WF_vars(CloseStep(g))
        /\ SF_vars(WriterLocks(g)) /\ SF_vars(FrameLocks(g))
    /\ \A c \in Callers :
        WF_vars(call[c].at # "idle" /\ CallerStep(c))
    /\ WF_vars(ping.gen \in broken /\ PingReturns) /\ SF_vars(PingLocks)

\* No peer holds a write up for ever.
PeersRead ==
    /\ \A g \in Gens :
        WF_vars(PacketLeaves(g) \/ WriteFails(g)) /\ WF_vars(FrameReturns(g))
    /\ WF_vars(PingReturns)

-----------------------------------------------------------------------------
(* run never writes more than gatewaySendLimit packets in gatewaySendWindow:  *)
(* when a packet leaves, the one Limit packets before it is a window old,     *)
(* however long writes and their accounting take.                             *)
WindowHeld ==
    [][\A g \in Gens :
         writer[g] = "write" /\ writer'[g] = "sent" => wire[g][1] = 0]_vars

(* A caller that waits while the generation lasts has its request in the      *)
(* channel or in the hands of run: nobody waits for an answer that was        *)
(* dropped.                                                                  *)
WaitersServed ==
    \A c \in Callers :
        LET g == call[c].gen IN
        call[c].at = "await" /\ g \notin ctxDone =>
            writer[g] # "gone" /\ (inHand[g] = c \/ \E i \in DOMAIN requests[g] : requests[g][i] = c)

(* Two requests for all members of a guild are accepted no closer together    *)
(* than the cooldown, unless the earlier one failed; a failure that comes late *)
(* leaves the reservation of the next request in place.                       *)
CooldownHeld ==
    \A c, d \in Callers : granted[c] > 0 /\ granted[d] > 0 => c = d

(* Nobody is kept in a write to a generation that has ended, also when its    *)
(* websocket is stuck and run never comes back.                               *)
CallersReleased ==
    \A c \in Callers : call[c].at \in {"send", "await"} /\ call[c].gen \in ctxDone
        ~> call[c].at \notin {"send", "await"}

(* While peers read, a generation whose context is done ends: run returns and *)
(* the websocket is closed, whoever competes for the lock.                     *)
GenerationEnds ==
    PeersRead => \A g \in Gens :
        g \in ctxDone ~> writer[g] = "gone" /\ finish[g] = "closed"

=============================================================================
