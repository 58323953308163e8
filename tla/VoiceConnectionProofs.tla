----------------------- MODULE VoiceConnectionProofs -----------------------
(***************************************************************************)
(* Theorems about the voice connection of a guild, for any number of         *)
(* objects, generations, opening goroutines, joins, moves and leaves.        *)
(***************************************************************************)
EXTENDS VoiceConnection, TLAPS

\* The listener of a generation reads or handles a message; it has ended.
Live  == {"reading", "ready", "udp", "handshake", "key", "resumed"}
Ended == {"resume", "fresh", "wait", "terminal", "waiting", "remove", "done"}
Stages == {"opened", "greeted", "selected", "served"}

Writes(o, g) == opener[o].pc = "write" /\ opener[o].gen = g

\* Every reference leads to an object or a generation that exists.
Links ==
    /\ \A g \in Gens : gen[g].conn = None <=> g > opened
    /\ \A g \in Gens : g > opened => ~gen[g].resume
    /\ \A o \in Openers : /\ opener[o].pc # "idle" => opener[o].conn # None
                          /\ opener[o].pc = "write" =>
                                /\ opener[o].gen # None /\ opener[o].gen <= opened
                                /\ gen[opener[o].gen].conn = opener[o].conn
                                /\ gen[opener[o].gen].resume = opener[o].resume
                                /\ gen[opener[o].gen].pc = "none"
    /\ \A o, q \in Openers : o # q /\ opener[o].pc = "write" /\ opener[q].pc = "write"
                                => opener[o].gen # opener[q].gen
    /\ \A d \in Conns : loop[d].pc = "wait" => loop[d].target # None
    /\ user.pc # "idle" => user.handle # None
    /\ user.pc \in {"close", "delete"} => ~user.wants

\* What Discord has sent and the listener has done go together.
Stage(g) ==
    /\ gen[g].pc # "none" => gen[g].conn # None
    /\ gen[g].pc = "none" => gen[g].stage = "opened"
    /\ gen[g].pc \in {"ready", "udp", "handshake"} => ~gen[g].resume /\ gen[g].stage # "opened"
    /\ gen[g].pc = "key" => ~gen[g].resume /\ gen[g].stage = "served"
    /\ gen[g].pc = "resumed" => gen[g].resume /\ gen[g].stage = "served"
    /\ gen[g].resume => gen[g].stage \in {"opened", "served"}
    /\ gen[g].pc \in {"udp", "handshake"} =>
          gen[g].over # None /\ gen[gen[g].over].conn = gen[g].conn
    /\ gen[g].resumed => gen[g].resume /\ gen[g].stage = "served"

\* The websocket of an object.
WsInv(c) ==
    LET g == conn[c].ws IN
    g # None =>
        /\ gen[g].conn = c /\ \A k \in Gens : k > g => gen[k].conn # c
        /\ gen[g].pc = "none" => \E o \in Openers : Writes(o, g)
        /\ gen[g].pc \notin Ended
        /\ ~gen[g].resume => conn[c].channel
        /\ gen[g].resume /\ ~conn[c].channel => "revived" \in faults[c]
        /\ gen[g].pc \in {"udp", "handshake"} => gen[g].over = g
        /\ gen[g].stage = "greeted" /\ gen[g].pc = "reading" => "noUDP" \in faults[c]
        /\ gen[g].resume /\ gen[g].stage = "served" =>
              \E h \in Gens : Session(c, h) /\ gen[h].stage = "served"
        /\ gen[g].resumed => conn[c].ready

\* The UDP socket of an object, and the cipher it has.
UdpInv(c) ==
    /\ conn[c].udp # None =>
          /\ gen[conn[c].udp].conn = c /\ gen[conn[c].udp].stage # "opened"
          /\ gen[conn[c].udp].pc \notin {"none", "ready", "udp"}
          /\ gen[conn[c].udp].over # conn[c].udp => "overtaken" \in faults[c]
    /\ conn[c].key # None =>
          /\ gen[conn[c].key].stage = "served"
          /\ gen[conn[c].key].pc \notin {"none", "ready", "udp", "handshake"}

Whole(c) == faults[c] \intersect {"overtaken", "revived", "noKey"} = {}

\* The session of an object that has not been closed since: its websocket is current until
\* it fails, the session description was asked for on a UDP socket that stays, and it has
\* made the object ready.
SessionInv(c, h) ==
    conn[c].channel /\ Session(c, h) =>
        /\ gen[h].pc \in Live \/ (\E o \in Openers : Writes(o, h)) => conn[c].ws = h
        /\ gen[h].stage \in {"selected", "served"} =>
              conn[c].udp # None /\ gen[conn[c].udp].pc # "handshake"
        /\ gen[h].stage = "served" /\ gen[h].pc # "key" => conn[c].ready \/ "noKey" \in faults[c]
        /\ Whole(c) =>
              /\ gen[h].stage \in {"selected", "served"} =>
                    conn[c].udp = h /\ gen[h].pc \notin {"ready", "udp", "handshake"}
              /\ gen[h].stage = "served" /\ gen[h].pc # "key" => conn[c].key = h

ReadyInv(c) == conn[c].ready /\ Whole(c) => conn[c].udp # None /\ conn[c].key = conn[c].udp

TransportInv ==
    /\ \A g \in Gens : Stage(g)
    /\ \A c \in Conns : WsInv(c) /\ UdpInv(c) /\ ReadyInv(c)
    /\ \A c \in Conns, h \in Gens : SessionInv(c, h)

\* Something will open a websocket for c, or take c out of the map.
Working(c) ==
    \/ news.server > 0
    \/ due[c] > 0
    \/ \E d \in Conns : loop[d].pc \in {"close", "sleep"}
    \/ \E o \in Openers : opener[o].conn = c /\ opener[o].pc \in {"session", "dial"}
    \/ \E g \in Gens : gen[g].conn = c /\ gen[g].pc \in Ended \ {"done"}

WorkInv ==
    \A c \in Conns :
        user.wants /\ user.handle = c /\ guild = c /\ conn[c].ws = None /\ ~Working(c)
            => faults[c] \intersect {"notOpened", "notReconnected"} # {}

-----------------------------------------------------------------------------
(* Types and references.                                                     *)

ConnType == [ready : BOOLEAN, ws : Gens \union {None}, udp : Gens \union {None},
             channel : BOOLEAN, sessionID : BOOLEAN, attempts : 0 .. 1,
             reconnecting : BOOLEAN, key : Gens \union {None}, receiver : Gens \union {None}]
GenType == [conn : Conns \union {None}, resume : BOOLEAN, resumed : BOOLEAN,
            over : Gens \union {None}, stage : Stages, pc : {"none"} \union Live \union Ended]
OpenerType == [pc : {"idle", "session", "dial", "write"}, conn : Conns \union {None},
               resume : BOOLEAN, gen : Gens \union {None}]
LoopType == [pc : {"idle", "close", "sleep", "wait", "ending"}, target : Conns \union {None}]
UserType == [pc : {"idle", "wait", "close", "delete"}, handle : Conns \union {None},
             wants : BOOLEAN]

Types ==
    /\ conn \in [Conns -> ConnType] /\ gen \in [Gens -> GenType]
    /\ opener \in [Openers -> OpenerType] /\ loop \in [Conns -> LoopType]
    /\ user \in UserType /\ due \in [Conns -> Nat] /\ faults \in [Conns -> SUBSET Faults]
    /\ guild \in Conns \union {None} /\ made \in 0 .. MaxConns /\ opened \in 0 .. MaxGens
    /\ news \in [state : Nat, server : Nat]
    /\ spent \in [joins : 0 .. MaxJoins, moves : 0 .. MaxMoves, leaves : 0 .. MaxLeaves]

Flags == \A c \in Conns : /\ conn[c].ws # None => gen[conn[c].ws].conn = c
                          /\ conn[c].reconnecting <=> loop[c].pc # "idle"

LEMMA TypeForm == TypeOK <=> Types /\ Flags
<1>1. {"opened", "greeted", "selected", "served"} = Stages
  BY DEF Stages
<1>2. {"none", "reading", "ready", "udp", "handshake", "key", "resumed", "resume", "fresh", "wait",
       "terminal", "waiting", "remove", "done"} = {"none"} \union Live \union Ended
  BY DEF Live, Ended
<1> QED
  BY <1>1, <1>2 DEF TypeOK, Types, Flags, ConnType, GenType, OpenerType, LoopType, UserType

LEMMA Bounds ==
  /\ MaxConns \in Nat \ {0} /\ MaxGens \in Nat \ {0}
  /\ MaxJoins \in Nat /\ MaxMoves \in Nat /\ MaxLeaves \in Nat
  /\ 0 \notin Conns /\ 0 \notin Gens /\ Conns \subseteq Nat /\ Gens \subseteq Nat
  BY BoundsAssumption DEF Conns, Gens

(* The fields of an object that is closed.                                      *)
LEMMA ClosedFields ==
  ASSUME NEW r \in ConnType
  PROVE  Closed(r) = [ready |-> FALSE, ws |-> None, udp |-> None, channel |-> FALSE,
                      sessionID |-> r.sessionID, attempts |-> 0,
                      reconnecting |-> r.reconnecting, key |-> r.key, receiver |-> r.receiver]
<1>1. PICK r1 : r1 = [r EXCEPT !.ready = FALSE]
  OBVIOUS
<1>2. r1 = [ready |-> FALSE, ws |-> r.ws, udp |-> r.udp, channel |-> r.channel,
            sessionID |-> r.sessionID, attempts |-> r.attempts,
            reconnecting |-> r.reconnecting, key |-> r.key, receiver |-> r.receiver]
  BY <1>1 DEF ConnType
<1>3. PICK r2 : r2 = [r1 EXCEPT !.channel = FALSE]
  OBVIOUS
<1>4. r2 = [ready |-> FALSE, ws |-> r.ws, udp |-> r.udp, channel |-> FALSE,
            sessionID |-> r.sessionID, attempts |-> r.attempts,
            reconnecting |-> r.reconnecting, key |-> r.key, receiver |-> r.receiver]
  BY <1>2, <1>3
<1>5. PICK r3 : r3 = [r2 EXCEPT !.attempts = 0]
  OBVIOUS
<1>6. r3 = [ready |-> FALSE, ws |-> r.ws, udp |-> r.udp, channel |-> FALSE,
            sessionID |-> r.sessionID, attempts |-> 0,
            reconnecting |-> r.reconnecting, key |-> r.key, receiver |-> r.receiver]
  BY <1>4, <1>5
<1>7. PICK r4 : r4 = [r3 EXCEPT !.ws = None]
  OBVIOUS
<1>8. r4 = [ready |-> FALSE, ws |-> None, udp |-> r.udp, channel |-> FALSE,
            sessionID |-> r.sessionID, attempts |-> 0,
            reconnecting |-> r.reconnecting, key |-> r.key, receiver |-> r.receiver]
  BY <1>6, <1>7
<1>9. PICK r5 : r5 = [r4 EXCEPT !.udp = None]
  OBVIOUS
<1>10. r5 = [ready |-> FALSE, ws |-> None, udp |-> None, channel |-> FALSE,
             sessionID |-> r.sessionID, attempts |-> 0,
             reconnecting |-> r.reconnecting, key |-> r.key, receiver |-> r.receiver]
  BY <1>8, <1>9
<1>11. Closed(r) = r5
  BY <1>1, <1>3, <1>5, <1>7, <1>9 DEF Closed
<1> QED
  BY <1>10, <1>11

(* What a closed object is left with.                                            *)
LEMMA ClosedForm ==
  ASSUME NEW r \in ConnType
  PROVE  /\ Closed(r) \in ConnType
         /\ ~Closed(r).ready /\ Closed(r).ws = None /\ Closed(r).udp = None /\ ~Closed(r).channel
         /\ Closed(r).key = r.key /\ Closed(r).reconnecting = r.reconnecting
<1>1. PICK q : q = [ready |-> FALSE, ws |-> None, udp |-> None, channel |-> FALSE,
                    sessionID |-> r.sessionID, attempts |-> 0,
                    reconnecting |-> r.reconnecting, key |-> r.key, receiver |-> r.receiver]
  OBVIOUS
<1>2. /\ q \in ConnType /\ ~q.ready /\ q.ws = None /\ q.udp = None /\ ~q.channel
      /\ q.key = r.key /\ q.reconnecting = r.reconnecting
  BY <1>1 DEF ConnType
<1>3. Closed(r) = q
  BY <1>1, ClosedFields
<1> QED
  BY <1>2, <1>3

(* What a step may do to the transport of an object: nothing but note a fault, or *)
(* take all of it.                                                              *)
SameConn(c) == /\ conn'[c].ready = conn[c].ready /\ conn'[c].ws = conn[c].ws
               /\ conn'[c].udp = conn[c].udp /\ conn'[c].channel = conn[c].channel
               /\ conn'[c].key = conn[c].key /\ faults[c] \subseteq faults'[c]
ShutConn(c) == /\ ~conn'[c].ready /\ conn'[c].ws = None /\ conn'[c].udp = None
               /\ ~conn'[c].channel /\ conn'[c].key = conn[c].key

\* To a generation: move its ended listener on.
SameGen(g) == /\ gen'[g].conn = gen[g].conn /\ gen'[g].resume = gen[g].resume
              /\ gen'[g].resumed = gen[g].resumed /\ gen'[g].over = gen[g].over
              /\ gen'[g].stage = gen[g].stage
              /\ gen'[g].pc = gen[g].pc \/ (gen[g].pc \in Ended /\ gen'[g].pc \in Ended)

SameWriters == \A o \in Openers : /\ opener[o].pc = "write" <=> opener'[o].pc = "write"
                                  /\ opener[o].pc = "write" => opener'[o].gen = opener[o].gen

Marked == \A c \in Conns : conn[c].reconnecting <=> loop[c].pc # "idle"

Calm == /\ \A c \in Conns : SameConn(c) \/ ShutConn(c)
        /\ \A g \in Gens : SameGen(g)
        /\ SameWriters

(* closeTransport, of one object.                                                *)
LEMMA CloseEffect ==
  ASSUME Types, NEW c \in Conns, CloseTransport(c)
  PROVE  /\ conn' \in [Conns -> ConnType] /\ faults' \in [Conns -> SUBSET Faults]
         /\ \A d \in Conns : d # c => conn'[d] = conn[d] /\ faults'[d] = faults[d]
         /\ ShutConn(c) /\ conn'[c].reconnecting = conn[c].reconnecting /\ faults'[c] = {}
         /\ \A d \in Conns : SameConn(d) \/ ShutConn(d)
         /\ \A d \in Conns : conn'[d].reconnecting = conn[d].reconnecting
<1>1. PICK r : r = Closed(conn[c])
  OBVIOUS
<1>2. conn[c] \in ConnType
  BY DEF Types
<1>3. /\ r \in ConnType /\ ~r.ready /\ r.ws = None /\ r.udp = None /\ ~r.channel
      /\ r.key = conn[c].key /\ r.reconnecting = conn[c].reconnecting
  BY <1>1, <1>2, ClosedForm
<1>4. conn' = [conn EXCEPT ![c] = r] /\ faults' = [faults EXCEPT ![c] = {}]
  BY <1>1 DEF CloseTransport
<1>5. conn'[c] = r /\ faults'[c] = {}
      /\ \A d \in Conns : d # c => conn'[d] = conn[d] /\ faults'[d] = faults[d]
  BY <1>4 DEF Types
<1>6. conn' \in [Conns -> ConnType] /\ faults' \in [Conns -> SUBSET Faults]
  BY <1>3, <1>4 DEF Types
<1>7. ShutConn(c) /\ conn'[c].reconnecting = conn[c].reconnecting
  BY <1>3, <1>5 DEF ShutConn
<1>8. \A d \in Conns : d # c => SameConn(d)
  BY <1>5 DEF SameConn
<1> QED
  BY <1>5, <1>6, <1>7, <1>8

LEMMA LinksKept ==
  ASSUME Types, Links, Types', \A g \in Gens : SameGen(g), opened' = opened,
         \A o \in Openers : \/ opener'[o] = opener[o]
                            \/ /\ opener'[o].pc # "write"
                               /\ opener'[o].pc # "idle" => opener'[o].conn # None,
         \A d \in Conns : loop'[d].pc = "wait" => loop'[d].target # None,
         user'.pc # "idle" => user'.handle # None,
         user'.pc \in {"close", "delete"} => ~user'.wants
  PROVE  Links'
<1>1. \A g \in Gens : /\ gen'[g].conn = gen[g].conn /\ gen'[g].resume = gen[g].resume
                      /\ gen[g].pc = "none" => gen'[g].pc = "none"
  BY DEF SameGen, Ended
<1>2. (\A g \in Gens : gen[g].conn = None <=> g > opened)'
  BY <1>1 DEF Links
<1>3. (\A g \in Gens : g > opened => ~gen[g].resume)'
  BY <1>1 DEF Links
<1>4. ASSUME NEW o \in Openers
      PROVE  /\ opener'[o].pc # "idle" => opener'[o].conn # None
             /\ opener'[o].pc = "write" =>
                    /\ opener'[o].gen # None /\ opener'[o].gen <= opened'
                    /\ gen'[opener'[o].gen].conn = opener'[o].conn
                    /\ gen'[opener'[o].gen].resume = opener'[o].resume
                    /\ gen'[opener'[o].gen].pc = "none"
  <2>1. CASE opener'[o] = opener[o]
    <3>1. opener[o].pc = "write" => opener[o].gen \in Gens
      BY DEF Links, Types, OpenerType
    <3> QED
      BY <1>1, <2>1, <3>1 DEF Links
  <2>2. CASE opener'[o] # opener[o]
    BY <2>2
  <2> QED
    BY <2>1, <2>2
<1>5. (\A o, q \in Openers : o # q /\ opener[o].pc = "write" /\ opener[q].pc = "write"
                                => opener[o].gen # opener[q].gen)'
  BY DEF Links
<1> QED
  BY <1>2, <1>3, <1>4, <1>5 DEF Links

(* A step that opens nothing and hears nothing.                                    *)
Kept == Types' /\ Marked' /\ Calm /\ Links'

LEMMA SameKept == ASSUME Types, NEW c \in Conns, conn'[c] = conn[c],
                         faults[c] \subseteq faults'[c]
                  PROVE  SameConn(c)
  BY DEF SameConn

LEMMA ConnUpdate ==
  ASSUME Types, NEW c \in Conns, NEW r \in ConnType, conn' = [conn EXCEPT ![c] = r]
  PROVE  /\ conn' \in [Conns -> ConnType] /\ conn'[c] = r
         /\ \A d \in Conns : d # c => conn'[d] = conn[d]
  BY DEF Types

LEMMA CalmGens == ASSUME gen' = gen PROVE \A g \in Gens : SameGen(g)
  BY DEF SameGen

LEMMA ApplicationKept ==
  ASSUME Types, Marked, Links, Application
  PROVE  Kept
<1> USE Bounds
<1>1. /\ gen' = gen /\ opener' = opener /\ opened' = opened /\ loop' = loop /\ due' = due
  BY DEF Application, Join, Joined, JoinTimesOut, Disconnect, DisconnectCloses, DisconnectDeletes,
         Close
<1>2. (\A g \in Gens : SameGen(g)) /\ SameWriters
  BY <1>1, CalmGens DEF SameWriters
<1>3. \A d \in Conns : loop'[d].pc = "wait" => loop'[d].target # None
  BY <1>1 DEF Links
<1>4. SUFFICES /\ Types' /\ \A c \in Conns : conn'[c].reconnecting = conn[c].reconnecting
               /\ \A c \in Conns : SameConn(c) \/ ShutConn(c)
               /\ user'.pc # "idle" => user'.handle # None
               /\ user'.pc \in {"close", "delete"} => ~user'.wants
  <2>1. Marked'
    BY <1>1, <1>4 DEF Marked
  <2>2. Links'
    BY <1>1, <1>2, <1>3, <1>4, LinksKept
  <2> QED
    BY <1>2, <1>4, <2>1, <2>2 DEF Kept, Calm
<1>5. CASE Join
  <2>1. conn' = conn /\ faults' = faults
    BY <1>5 DEF Join
  <2>2. Entry \in Conns /\ guild' = Entry /\ user' = [pc |-> "wait", handle |-> Entry, wants |-> TRUE]
        /\ spent.joins < MaxJoins /\ spent' = [spent EXCEPT !.joins = @ + 1]
        /\ news' = [state |-> news.state + 1, server |-> news.server + 1]
        /\ made' = IF guild = None THEN made + 1 ELSE made
    BY <1>5 DEF Join, JoinChannel
  <2>3. spent' \in [joins : 0 .. MaxJoins, moves : 0 .. MaxMoves, leaves : 0 .. MaxLeaves]
        /\ news' \in [state : Nat, server : Nat]
    BY <2>2 DEF Types
  <2>4. made' \in 0 .. MaxConns
    BY <2>2 DEF Types, Entry, Conns
  <2>5. Types'
    BY <1>1, <2>1, <2>2, <2>3, <2>4 DEF Types, UserType
  <2> QED
    BY <2>1, <2>2, <2>5 DEF SameConn, None
<1>6. CASE Joined
  BY <1>1, <1>6 DEF Joined, Types, UserType, SameConn, Links
<1>7. CASE JoinTimesOut
  <2>1. user.handle \in Conns
    BY <1>7 DEF JoinTimesOut, Links, Types, UserType
  <2>2. CloseTransport(user.handle) /\ user' = [user EXCEPT !.pc = "idle", !.wants = FALSE]
        /\ UNCHANGED <<guild, made, news, spent>>
    BY <1>7 DEF JoinTimesOut
  <2>3. user' \in UserType /\ user'.pc = "idle"
    BY <2>2 DEF Types, UserType
  <2> QED
    BY <1>1, <2>1, <2>2, <2>3, CloseEffect DEF Types
<1>8. CASE Disconnect
  <2>1. user.handle \in Conns
    BY <1>8 DEF Disconnect, Links, Types, UserType
  <2>2. conn' = [conn EXCEPT ![user.handle].sessionID = FALSE] /\ faults' = faults
        /\ user' = [user EXCEPT !.pc = "close", !.wants = FALSE] /\ UNCHANGED <<guild, made, news>>
        /\ spent.leaves < MaxLeaves /\ spent' = [spent EXCEPT !.leaves = @ + 1]
        /\ user.handle # None
    BY <1>8 DEF Disconnect
  <2>3. spent' \in [joins : 0 .. MaxJoins, moves : 0 .. MaxMoves, leaves : 0 .. MaxLeaves]
    BY <2>2 DEF Types
  <2>4. user' \in UserType /\ user'.pc = "close" /\ ~user'.wants /\ user'.handle = user.handle
    BY <2>2 DEF Types, UserType
  <2>5. PICK r : r = [conn[user.handle] EXCEPT !.sessionID = FALSE]
    OBVIOUS
  <2>6. conn[user.handle] \in ConnType
    BY <2>1 DEF Types
  <2>7. /\ r \in ConnType /\ r.ready = conn[user.handle].ready /\ r.ws = conn[user.handle].ws
        /\ r.udp = conn[user.handle].udp /\ r.channel = conn[user.handle].channel
        /\ r.key = conn[user.handle].key /\ r.reconnecting = conn[user.handle].reconnecting
    BY <2>5, <2>6 DEF ConnType
  <2>8. conn' = [conn EXCEPT ![user.handle] = r]
    BY <2>2, <2>5
  <2>9. conn' \in [Conns -> ConnType] /\ conn'[user.handle] = r
        /\ \A d \in Conns : d # user.handle => conn'[d] = conn[d]
    BY <2>1, <2>7, <2>8, ConnUpdate
  <2>10. \A c \in Conns : SameConn(c) /\ conn'[c].reconnecting = conn[c].reconnecting
    BY <2>2, <2>7, <2>9 DEF SameConn
  <2> QED
    BY <1>1, <2>2, <2>3, <2>4, <2>9, <2>10 DEF Types
<1>9. CASE DisconnectCloses
  <2>1. user.handle \in Conns
    BY <1>9 DEF DisconnectCloses, Links, Types, UserType
  <2>2. CloseTransport(user.handle) /\ user' = [user EXCEPT !.pc = "delete"]
        /\ UNCHANGED <<guild, made, news, spent>> /\ ~user.wants /\ user.handle # None
    BY <1>9 DEF DisconnectCloses, Links
  <2>3. user' \in UserType /\ ~user'.wants /\ user'.handle = user.handle
    BY <2>2 DEF Types, UserType
  <2> QED
    BY <1>1, <2>1, <2>2, <2>3, CloseEffect DEF Types
<1>10. CASE DisconnectDeletes
  <2>1. conn' = conn /\ faults' = faults /\ user' = [user EXCEPT !.pc = "idle"]
        /\ UNCHANGED <<made, news, spent>> /\ guild' \in {guild, None}
    BY <1>10 DEF DisconnectDeletes, Remove
  <2>2. user' \in UserType /\ user'.pc = "idle"
    BY <2>1 DEF Types, UserType
  <2> QED
    BY <1>1, <2>1, <2>2 DEF Types, SameConn
<1>11. CASE Close
  <2>1. user.handle \in Conns
    BY <1>11 DEF Close, Links, Types, UserType
  <2>2. CloseTransport(user.handle) /\ user' = [user EXCEPT !.wants = FALSE]
        /\ UNCHANGED <<guild, made, news>> /\ user.pc = "idle"
        /\ spent.leaves < MaxLeaves /\ spent' = [spent EXCEPT !.leaves = @ + 1]
    BY <1>11 DEF Close
  <2>3. user' \in UserType /\ user'.pc = "idle"
    BY <2>2 DEF Types, UserType
  <2>4. spent' \in [joins : 0 .. MaxJoins, moves : 0 .. MaxMoves, leaves : 0 .. MaxLeaves]
    BY <2>2 DEF Types
  <2> QED
    BY <1>1, <2>1, <2>2, <2>3, <2>4, CloseEffect DEF Types
<1> QED
  BY <1>5, <1>6, <1>7, <1>8, <1>9, <1>10, <1>11 DEF Application

(* The same, where calls of openVoiceWebsocket may begin and end, and loops move on. *)
LEMMA KeptWhen ==
  ASSUME Types, Marked, Links, Types', opened' = opened, user' = user,
         \A g \in Gens : SameGen(g),
         \A c \in Conns : SameConn(c) \/ ShutConn(c),
         \A o \in Openers : \/ opener'[o] = opener[o]
                            \/ /\ opener[o].pc # "write" /\ opener'[o].pc # "write"
                               /\ opener'[o].pc # "idle" => opener'[o].conn # None,
         \A d \in Conns : /\ loop'[d].pc = "wait" => loop'[d].target # None
                          /\ conn'[d].reconnecting <=> loop'[d].pc # "idle"
  PROVE  Kept
<1>1. SameWriters
  BY DEF SameWriters
<1>2. Marked'
  BY DEF Marked
<1>3. (user'.pc # "idle" => user'.handle # None) /\ (user'.pc \in {"close", "delete"} => ~user'.wants)
  BY DEF Links
<1>4. Links'
  BY <1>3, LinksKept
<1> QED
  BY <1>1, <1>2, <1>4 DEF Kept, Calm

LEMMA SameLoop ==
  ASSUME Marked, Links, loop' = loop, \A d \in Conns : conn'[d].reconnecting = conn[d].reconnecting
  PROVE  \A d \in Conns : /\ loop'[d].pc = "wait" => loop'[d].target # None
                          /\ conn'[d].reconnecting <=> loop'[d].pc # "idle"
  BY DEF Marked, Links

LEMMA UpdatesKept ==
  ASSUME Types, Marked, Links, Updates
  PROVE  Kept
<1> USE Bounds
<1>1. /\ gen' = gen /\ opened' = opened /\ loop' = loop /\ due' = due /\ user' = user
      /\ guild' = guild /\ made' = made
  BY DEF Updates, Move, VoiceStateUpdate, VoiceServerUpdate
<1>2. \A g \in Gens : SameGen(g)
  BY <1>1, CalmGens
<1>3. CASE Move
  <2>1. conn' = conn /\ faults' = faults /\ opener' = opener
        /\ spent.moves < MaxMoves /\ spent' = [spent EXCEPT !.moves = @ + 1]
        /\ news' = [news EXCEPT !.server = @ + 1]
    BY <1>3 DEF Move
  <2>2. spent' \in [joins : 0 .. MaxJoins, moves : 0 .. MaxMoves, leaves : 0 .. MaxLeaves]
        /\ news' \in [state : Nat, server : Nat]
    BY <2>1 DEF Types
  <2>3. Types'
    BY <1>1, <2>1, <2>2 DEF Types
  <2> QED
    BY <1>1, <1>2, <2>1, <2>3, KeptWhen, SameLoop DEF SameConn
<1>4. CASE VoiceStateUpdate
  <2>1. /\ faults' = faults /\ opener' = opener /\ spent' = spent /\ news.state > 0
        /\ news' = [news EXCEPT !.state = @ - 1]
        /\ conn' = IF guild = None THEN conn ELSE [conn EXCEPT ![guild].sessionID = TRUE]
    BY <1>4 DEF VoiceStateUpdate
  <2>2. news' \in [state : Nat, server : Nat]
    BY <2>1 DEF Types
  <2>3. /\ conn' \in [Conns -> ConnType]
        /\ \A c \in Conns : SameConn(c) /\ conn'[c].reconnecting = conn[c].reconnecting
    <3>1. CASE guild = None
      BY <2>1, <3>1 DEF Types, SameConn
    <3>2. CASE guild # None
      <4>1. guild \in Conns /\ conn[guild] \in ConnType
        BY <3>2 DEF Types
      <4>2. PICK r : r = [conn[guild] EXCEPT !.sessionID = TRUE]
        OBVIOUS
      <4>3. /\ r \in ConnType /\ r.ready = conn[guild].ready /\ r.ws = conn[guild].ws
            /\ r.udp = conn[guild].udp /\ r.channel = conn[guild].channel
            /\ r.key = conn[guild].key /\ r.reconnecting = conn[guild].reconnecting
        BY <4>1, <4>2 DEF ConnType
      <4>4. conn' \in [Conns -> ConnType] /\ conn'[guild] = r
            /\ \A d \in Conns : d # guild => conn'[d] = conn[d]
        BY <2>1, <3>2, <4>1, <4>2, <4>3, ConnUpdate
      <4> QED
        BY <2>1, <4>3, <4>4 DEF SameConn
    <3> QED
      BY <3>1, <3>2
  <2>4. Types'
    BY <1>1, <2>1, <2>2, <2>3 DEF Types
  <2> QED
    BY <1>1, <1>2, <2>1, <2>3, <2>4, KeptWhen, SameLoop
<1>5. ASSUME NEW o \in Openers, VoiceServerUpdate(o)
      PROVE  Kept
  <2>1. /\ spent' = spent /\ news.server > 0 /\ news' = [news EXCEPT !.server = @ - 1]
        /\ opener[o].pc = "idle"
    BY <1>5 DEF VoiceServerUpdate
  <2>2. news' \in [state : Nat, server : Nat]
    BY <2>1 DEF Types
  <2>3. CASE guild = None
    <3>1. conn' = conn /\ opener' = opener /\ faults' = faults
      BY <1>5, <2>3 DEF VoiceServerUpdate
    <3>2. Types'
      BY <1>1, <2>1, <2>2, <3>1 DEF Types
    <3> QED
      BY <1>1, <1>2, <3>1, <3>2, KeptWhen, SameLoop DEF SameConn
  <2>4. CASE guild # None
    <3>1. guild \in Conns /\ CloseTransport(guild)
          /\ opener' = [opener EXCEPT ![o] = [Idle EXCEPT !.pc = "session", !.conn = guild]]
      BY <1>5, <2>4 DEF VoiceServerUpdate, Types
    <3>2. PICK r : r = [pc |-> "session", conn |-> guild, resume |-> FALSE, gen |-> None]
      OBVIOUS
    <3>3. [Idle EXCEPT !.pc = "session", !.conn = guild] = r
      <4>1. PICK q : q = [Idle EXCEPT !.pc = "session"]
        OBVIOUS
      <4>2. q = [pc |-> "session", conn |-> None, resume |-> FALSE, gen |-> None]
        BY <4>1 DEF Idle
      <4>3. PICK p : p = [q EXCEPT !.conn = guild]
        OBVIOUS
      <4>4. p = [pc |-> "session", conn |-> guild, resume |-> FALSE, gen |-> None]
        BY <4>2, <4>3
      <4> QED
        BY <3>2, <4>1, <4>3, <4>4
    <3>4. r \in OpenerType /\ r.pc = "session" /\ r.conn # None
      BY <2>4, <3>1, <3>2 DEF OpenerType
    <3>5. opener' \in [Openers -> OpenerType] /\ opener'[o] = r
          /\ \A q \in Openers : q # o => opener'[q] = opener[q]
      BY <3>1, <3>3, <3>4 DEF Types
    <3>6. /\ conn' \in [Conns -> ConnType] /\ faults' \in [Conns -> SUBSET Faults]
          /\ \A d \in Conns : SameConn(d) \/ ShutConn(d)
          /\ \A d \in Conns : conn'[d].reconnecting = conn[d].reconnecting
      BY <3>1, CloseEffect
    <3>7. Types'
      BY <1>1, <2>1, <2>2, <3>5, <3>6 DEF Types
    <3>8. \A q \in Openers : \/ opener'[q] = opener[q]
                             \/ /\ opener[q].pc # "write" /\ opener'[q].pc # "write"
                                /\ opener'[q].pc # "idle" => opener'[q].conn # None
      BY <2>1, <3>4, <3>5
    <3> QED
      BY <1>1, <1>2, <3>6, <3>7, <3>8, KeptWhen, SameLoop
  <2> QED
    BY <2>3, <2>4
<1> QED
  BY <1>3, <1>4, <1>5 DEF Updates

(* An open that fails.                                                           *)
LEMMA OpenFailsEffect ==
  ASSUME Types, NEW o \in Openers, opener[o].conn # None, OpenFails(o)
  PROVE  /\ opener' \in [Openers -> OpenerType] /\ opener'[o] = Idle
         /\ \A q \in Openers : q # o => opener'[q] = opener[q]
         /\ due' \in [Conns -> Nat] /\ faults' \in [Conns -> SUBSET Faults]
         /\ \A c \in Conns : faults[c] \subseteq faults'[c] /\ due[c] <= due'[c]
         /\ opener[o].resume => due'[opener[o].conn] > 0
         /\ ~opener[o].resume => "notOpened" \in faults'[opener[o].conn]
<1>1. PICK c : c = opener[o].conn
  OBVIOUS
<1>2. c \in Conns
  BY <1>1 DEF Types, OpenerType
<1>3. opener' = [opener EXCEPT ![o] = Idle]
  BY DEF OpenFails
<1>4. Idle \in OpenerType
  BY DEF Idle, OpenerType
<1>5. opener' \in [Openers -> OpenerType] /\ opener'[o] = Idle
      /\ \A q \in Openers : q # o => opener'[q] = opener[q]
  BY <1>3, <1>4 DEF Types
<1>6. CASE opener[o].resume
  <2>1. due' = [due EXCEPT ![c] = @ + 1] /\ faults' = faults
    BY <1>1, <1>6 DEF OpenFails, ScheduleReconnect
  <2>2. due' \in [Conns -> Nat] /\ due'[c] = due[c] + 1
        /\ \A d \in Conns : due[d] \in Nat /\ (d # c => due'[d] = due[d])
    BY <1>2, <2>1 DEF Types
  <2> QED
    BY <1>1, <1>2, <1>5, <1>6, <2>1, <2>2 DEF Types
<1>7. CASE ~opener[o].resume
  <2>1. due' = due /\ faults' = [faults EXCEPT ![c] = @ \union {"notOpened"}]
    BY <1>1, <1>7 DEF OpenFails, Blame
  <2>2. faults' \in [Conns -> SUBSET Faults] /\ \A d \in Conns : faults[d] \subseteq faults'[d]
        /\ "notOpened" \in faults'[c]
    BY <1>2, <2>1 DEF Types, Faults
  <2>3. \A d \in Conns : due[d] \in Nat
    BY DEF Types
  <2> QED
    BY <1>1, <1>5, <1>7, <2>1, <2>2, <2>3 DEF Types
<1>8. opener[o].resume \in BOOLEAN
  BY DEF Types, OpenerType
<1> QED
  BY <1>6, <1>7

(* Opening, up to the websocket.                                                   *)
LEMMA OpeningKept ==
  ASSUME Types, Marked, Links, NEW o \in Openers,
         HasSession(o) \/ NoSessionInTime(o) \/ DialFails(o) \/ (Install(o) /\ opened' = opened)
  PROVE  Kept
<1> USE Bounds
<1>1. opener[o].pc \in {"session", "dial"} /\ opener[o].conn # None /\ opener[o].conn \in Conns
  BY DEF HasSession, NoSessionInTime, DialFails, Install, Links, Types, OpenerType
<1>2. /\ gen' = gen /\ conn' = conn /\ opened' = opened /\ loop' = loop /\ user' = user
      /\ guild' = guild /\ made' = made /\ news' = news /\ spent' = spent
      /\ \/ OpenFails(o)
         \/ /\ opener' = [opener EXCEPT ![o].pc = "dial"]
            /\ due' = due /\ faults' = faults
  <2>1. CASE HasSession(o)
    BY <2>1 DEF HasSession
  <2>2. CASE NoSessionInTime(o)
    BY <2>2 DEF NoSessionInTime
  <2>3. CASE DialFails(o)
    BY <2>3 DEF DialFails
  <2>4. CASE Install(o) /\ opened' = opened
    <3>1. opened' # opened + 1
      BY <2>4 DEF Types
    <3> QED
      BY <2>4, <3>1 DEF Install
  <2> QED
    BY <2>1, <2>2, <2>3, <2>4
<1>3. /\ opener' \in [Openers -> OpenerType] /\ due' \in [Conns -> Nat]
      /\ faults' \in [Conns -> SUBSET Faults] /\ \A c \in Conns : faults[c] \subseteq faults'[c]
      /\ \A q \in Openers : q # o => opener'[q] = opener[q]
      /\ opener'[o].pc # "write" /\ (opener'[o].pc # "idle" => opener'[o].conn # None)
  <2>1. CASE OpenFails(o)
    BY <1>1, <2>1, OpenFailsEffect DEF Idle
  <2>2. CASE opener' = [opener EXCEPT ![o].pc = "dial"] /\ due' = due /\ faults' = faults
    <3>1. PICK r : r = [opener[o] EXCEPT !.pc = "dial"]
      OBVIOUS
    <3>2. r \in OpenerType /\ r.pc = "dial" /\ r.conn = opener[o].conn
      BY <3>1 DEF Types, OpenerType
    <3>3. opener' = [opener EXCEPT ![o] = r]
      BY <2>2, <3>1
    <3> QED
      BY <1>1, <2>2, <3>2, <3>3 DEF Types
  <2> QED
    BY <1>2, <2>1, <2>2
<1>4. Types'
  BY <1>2, <1>3 DEF Types
<1>5. (\A g \in Gens : SameGen(g)) /\ \A c \in Conns : SameConn(c)
  BY <1>2, <1>3, CalmGens DEF SameConn
<1>6. \A q \in Openers : \/ opener'[q] = opener[q]
                         \/ /\ opener[q].pc # "write" /\ opener'[q].pc # "write"
                            /\ opener'[q].pc # "idle" => opener'[q].conn # None
  BY <1>1, <1>3
<1> QED
  BY <1>2, <1>4, <1>5, <1>6, KeptWhen, SameLoop

(* One entry of gen is replaced.                                                   *)
LEMMA GenUpdate ==
  ASSUME Types, NEW g \in Gens, NEW r \in GenType, gen' = [gen EXCEPT ![g] = r]
  PROVE  /\ gen' \in [Gens -> GenType] /\ gen'[g] = r
         /\ \A h \in Gens : h # g => gen'[h] = gen[h]
  BY DEF Types

LEMMA GotoEffect ==
  ASSUME Types, NEW g \in Gens, NEW p \in {"none"} \union Live \union Ended, Goto(g, p)
  PROVE  /\ gen' \in [Gens -> GenType] /\ gen'[g].pc = p
         /\ \A h \in Gens : h # g => gen'[h] = gen[h]
         /\ gen'[g].conn = gen[g].conn /\ gen'[g].resume = gen[g].resume
         /\ gen'[g].resumed = gen[g].resumed /\ gen'[g].over = gen[g].over
         /\ gen'[g].stage = gen[g].stage
<1>1. PICK r : r = [gen[g] EXCEPT !.pc = p]
  OBVIOUS
<1>2. gen[g] \in GenType
  BY DEF Types
<1>3. /\ r \in GenType /\ r.pc = p /\ r.conn = gen[g].conn /\ r.resume = gen[g].resume
      /\ r.resumed = gen[g].resumed /\ r.over = gen[g].over /\ r.stage = gen[g].stage
  BY <1>1, <1>2 DEF GenType
<1>4. gen' = [gen EXCEPT ![g] = r]
  BY <1>1 DEF Goto
<1> QED
  BY <1>3, <1>4, GenUpdate

LEMMA GotoEnded ==
  ASSUME Types, NEW g \in Gens, gen[g].pc \in Ended, NEW p \in Ended, Goto(g, p)
  PROVE  gen' \in [Gens -> GenType] /\ \A h \in Gens : SameGen(h)
  BY GotoEffect DEF SameGen

LEMMA DueEffect ==
  ASSUME Types, NEW c \in Conns, ScheduleReconnect(c)
  PROVE  due' \in [Conns -> Nat] /\ due'[c] > 0 /\ \A d \in Conns : due[d] <= due'[d]
<1>1. due' = [due EXCEPT ![c] = due[c] + 1] /\ due \in [Conns -> Nat]
  BY DEF Types, ScheduleReconnect
<1> QED
  BY <1>1

(* A listener has ended, and what follows.                                          *)
Winding(g) == \/ \E o \in Openers : ResumeOnce(g, o)
              \/ StartAfresh(g) \/ Terminate(g) \/ AwaitServerUpdate(g)
              \/ ServerUpdateSeen(g) \/ NoServerUpdate(g) \/ RemoveAndClose(g)

LEMMA WindingKept ==
  ASSUME Types, Marked, Links, \A k \in Gens : Stage(k), NEW g \in Gens, Winding(g)
  PROVE  Kept
<1> USE Bounds
<1>1. /\ opened' = opened /\ loop' = loop /\ user' = user /\ made' = made /\ news' = news
      /\ spent' = spent /\ guild' \in {guild, None}
      /\ gen[g].pc \in Ended \ {"done"} /\ \E p \in Ended : Goto(g, p)
  BY DEF Winding, ResumeOnce, StartAfresh, Terminate, AwaitServerUpdate, ServerUpdateSeen,
         NoServerUpdate, RemoveAndClose, Remove, Ended
<1>2. gen[g].conn # None /\ gen[g].conn \in Conns
  <2>1. gen[g].pc # "none"
    BY <1>1 DEF Ended
  <2> QED
    BY <2>1 DEF Stage, Types, GenType
<1>3. gen' \in [Gens -> GenType] /\ \A h \in Gens : SameGen(h)
  BY <1>1, GotoEnded
<1>4. SUFFICES /\ conn' \in [Conns -> ConnType] /\ faults' \in [Conns -> SUBSET Faults]
               /\ opener' \in [Openers -> OpenerType] /\ due' \in [Conns -> Nat]
               /\ \A d \in Conns : SameConn(d) \/ ShutConn(d)
               /\ \A d \in Conns : conn'[d].reconnecting = conn[d].reconnecting
               /\ \A o \in Openers :
                      \/ opener'[o] = opener[o]
                      \/ /\ opener[o].pc # "write" /\ opener'[o].pc # "write"
                         /\ opener'[o].pc # "idle" => opener'[o].conn # None
  <2>1. Types'
    BY <1>1, <1>3, <1>4 DEF Types
  <2> QED
    BY <1>1, <1>3, <1>4, <2>1, KeptWhen, SameLoop
<1>5. CASE Terminate(g) \/ AwaitServerUpdate(g) \/ RemoveAndClose(g)
  <2>1. opener' = opener /\ due' = due /\ CloseTransport(gen[g].conn)
    BY <1>5 DEF Terminate, AwaitServerUpdate, RemoveAndClose
  <2>2. opener \in [Openers -> OpenerType] /\ due \in [Conns -> Nat]
    BY DEF Types
  <2> QED
    BY <1>2, <2>1, <2>2, CloseEffect
<1>6. CASE StartAfresh(g) \/ ServerUpdateSeen(g) \/ NoServerUpdate(g)
  <2>1. opener' = opener /\ conn' = conn /\ faults' = faults
        /\ (due' = due \/ ScheduleReconnect(gen[g].conn))
    BY <1>6 DEF StartAfresh, ServerUpdateSeen, NoServerUpdate
  <2>2. due' \in [Conns -> Nat]
    BY <1>2, <2>1, DueEffect DEF Types
  <2> QED
    BY <2>1, <2>2 DEF Types, SameConn
<1>7. ASSUME NEW o \in Openers, ResumeOnce(g, o)
      PROVE  /\ conn' \in [Conns -> ConnType] /\ faults' \in [Conns -> SUBSET Faults]
             /\ opener' \in [Openers -> OpenerType] /\ due' \in [Conns -> Nat]
             /\ \A d \in Conns : SameConn(d) \/ ShutConn(d)
             /\ \A d \in Conns : conn'[d].reconnecting = conn[d].reconnecting
             /\ \A q \in Openers :
                    \/ opener'[q] = opener[q]
                    \/ /\ opener[q].pc # "write" /\ opener'[q].pc # "write"
                       /\ opener'[q].pc # "idle" => opener'[q].conn # None
  <2>1. PICK c \in Conns : c = gen[g].conn
    BY <1>2
  <2>2. faults' = faults /\ faults \in [Conns -> SUBSET Faults]
    BY <1>7 DEF ResumeOnce, Types
  <2>3. CASE conn[c].attempts # 0
    <3>1. ScheduleReconnect(c) /\ conn' = conn /\ opener' = opener
      BY <1>7, <2>1, <2>3 DEF ResumeOnce
    <3> QED
      BY <2>2, <3>1, DueEffect DEF Types, SameConn
  <2>4. CASE conn[c].attempts = 0
    <3>1. /\ opener[o].pc = "idle" /\ due' = due
          /\ conn' = [conn EXCEPT ![c].attempts = @ + 1]
          /\ opener' = [opener EXCEPT ![o] = [pc |-> "session", conn |-> c,
                                              resume |-> TRUE, gen |-> None]]
      BY <1>7, <2>1, <2>4 DEF ResumeOnce
    <3>2. PICK q : q = [pc |-> "session", conn |-> c, resume |-> TRUE, gen |-> None]
      OBVIOUS
    <3>3. q \in OpenerType /\ q.pc = "session" /\ q.conn # None
      BY <3>2 DEF OpenerType, None
    <3>4. opener' \in [Openers -> OpenerType] /\ opener'[o] = q
          /\ \A p \in Openers : p # o => opener'[p] = opener[p]
      BY <3>1, <3>2, <3>3 DEF Types
    <3>5. PICK r : r = [conn[c] EXCEPT !.attempts = 1]
      OBVIOUS
    <3>6. conn[c] \in ConnType
      BY DEF Types
    <3>7. /\ r \in ConnType /\ r.ready = conn[c].ready /\ r.ws = conn[c].ws
          /\ r.udp = conn[c].udp /\ r.channel = conn[c].channel
          /\ r.key = conn[c].key /\ r.reconnecting = conn[c].reconnecting
      BY <3>5, <3>6 DEF ConnType
    <3>8. conn' = [conn EXCEPT ![c] = r]
      BY <2>4, <3>1, <3>5
    <3>9. conn' \in [Conns -> ConnType] /\ conn'[c] = r
          /\ \A d \in Conns : d # c => conn'[d] = conn[d]
      BY <3>7, <3>8, ConnUpdate
    <3>10. \A d \in Conns : SameConn(d) /\ conn'[d].reconnecting = conn[d].reconnecting
      BY <2>2, <3>7, <3>9 DEF SameConn
    <3> QED
      BY <2>2, <3>1, <3>3, <3>4, <3>9, <3>10 DEF Types
  <2> QED
    BY <2>3, <2>4
<1> QED
  BY <1>5, <1>6, <1>7 DEF Winding

LEMMA ReconnectingKept ==
  ASSUME Types, Marked, Links, NEW c \in Conns, Reconnecting(c)
  PROVE  Kept
<1> USE Bounds
<1>1. /\ gen' = gen /\ opener' = opener /\ opened' = opened /\ user' = user
  BY DEF Reconnecting, ReceiverFails, Reconnect, ReconnectCloses, Rejoin, Rejoined, RejoinTimesOut,
         ReconnectEnds
<1>2. \A g \in Gens : SameGen(g)
  BY <1>1, CalmGens
<1>3. SUFFICES /\ Types' /\ \A d \in Conns : SameConn(d) \/ ShutConn(d)
               /\ \A d \in Conns : /\ loop'[d].pc = "wait" => loop'[d].target # None
                                   /\ conn'[d].reconnecting <=> loop'[d].pc # "idle"
  BY <1>1, <1>2, <1>3, KeptWhen
<1>4. CASE ReceiverFails(c)
  <2>1. /\ ScheduleReconnect(c) /\ conn' = [conn EXCEPT ![c].receiver = None]
        /\ UNCHANGED <<guild, made, loop, news, spent, faults>>
    BY <1>4 DEF ReceiverFails
  <2>2. PICK r : r = [conn[c] EXCEPT !.receiver = None]
    OBVIOUS
  <2>3. conn[c] \in ConnType
    BY DEF Types
  <2>4. /\ r \in ConnType /\ r.ready = conn[c].ready /\ r.ws = conn[c].ws
        /\ r.udp = conn[c].udp /\ r.channel = conn[c].channel
        /\ r.key = conn[c].key /\ r.reconnecting = conn[c].reconnecting
    BY <2>2, <2>3 DEF ConnType
  <2>5. conn' \in [Conns -> ConnType] /\ conn'[c] = r
        /\ \A d \in Conns : d # c => conn'[d] = conn[d]
    BY <2>1, <2>2, <2>4, ConnUpdate
  <2>6. \A d \in Conns : SameConn(d) /\ conn'[d].reconnecting = conn[d].reconnecting
    BY <2>1, <2>4, <2>5 DEF SameConn
  <2>7. due' \in [Conns -> Nat]
    BY <2>1, DueEffect
  <2>8. Types'
    BY <1>1, <2>1, <2>5, <2>7 DEF Types
  <2> QED
    BY <2>1, <2>6, <2>8, SameLoop
<1>5. CASE Reconnect(c)
  <2>1. /\ due[c] > 0 /\ due' = [due EXCEPT ![c] = due[c] - 1]
        /\ UNCHANGED <<guild, made, news, spent>>
    BY <1>5 DEF Reconnect
  <2>2. due' \in [Conns -> Nat]
    <3>1. due \in [Conns -> Nat] /\ due[c] - 1 \in Nat
      BY <2>1 DEF Types
    <3> QED
      BY <2>1, <3>1
  <2>3. CASE conn[c].reconnecting
    <3>1. Blame(c, "notReconnected") /\ conn' = conn /\ loop' = loop
      BY <1>5, <2>3 DEF Reconnect
    <3>2. faults' \in [Conns -> SUBSET Faults] /\ \A d \in Conns : faults[d] \subseteq faults'[d]
      BY <3>1 DEF Blame, Types, Faults
    <3>3. Types'
      BY <1>1, <2>1, <2>2, <3>1, <3>2 DEF Types
    <3> QED
      BY <3>1, <3>2, <3>3, SameLoop DEF SameConn
  <2>4. CASE ~conn[c].reconnecting
    <3>1. /\ conn' = [conn EXCEPT ![c].reconnecting = TRUE]
          /\ faults' = faults /\ loop' = [loop EXCEPT ![c].pc = "close"]
      BY <1>5, <2>4 DEF Reconnect
    <3>2. PICK r : r = [conn[c] EXCEPT !.reconnecting = TRUE]
      OBVIOUS
    <3>3. conn[c] \in ConnType
      BY DEF Types
    <3>4. /\ r \in ConnType /\ r.ready = conn[c].ready /\ r.ws = conn[c].ws
          /\ r.udp = conn[c].udp /\ r.channel = conn[c].channel
          /\ r.key = conn[c].key /\ r.reconnecting
      BY <3>2, <3>3 DEF ConnType
    <3>7. conn' \in [Conns -> ConnType] /\ conn'[c] = r
          /\ \A d \in Conns : d # c => conn'[d] = conn[d]
      BY <3>1, <3>2, <3>4, ConnUpdate
    <3>8. faults' \in [Conns -> SUBSET Faults]
      BY <3>1 DEF Types
    <3>9. \A d \in Conns : SameConn(d)
      BY <3>1, <3>4, <3>7 DEF SameConn
    <3>10. PICK p : p = [loop[c] EXCEPT !.pc = "close"]
      OBVIOUS
    <3>11. p \in LoopType /\ p.pc = "close"
      BY <3>10 DEF Types, LoopType
    <3>12. loop' \in [Conns -> LoopType] /\ loop'[c] = p
           /\ \A d \in Conns : d # c => loop'[d] = loop[d]
      BY <3>1, <3>10, <3>11 DEF Types
    <3>13. Types'
      BY <1>1, <2>1, <2>2, <3>7, <3>8, <3>12 DEF Types
    <3>14. \A d \in Conns : /\ loop'[d].pc = "wait" => loop'[d].target # None
                            /\ conn'[d].reconnecting <=> loop'[d].pc # "idle"
      <4>1. conn'[c].reconnecting /\ loop'[c].pc = "close"
        BY <3>4, <3>7, <3>11, <3>12
      <4>2. ASSUME NEW d \in Conns, d # c
            PROVE  /\ loop'[d].pc = "wait" => loop'[d].target # None
                   /\ conn'[d].reconnecting <=> loop'[d].pc # "idle"
        <5>1. loop'[d] = loop[d] /\ conn'[d] = conn[d]
          BY <3>7, <3>12, <4>2
        <5> QED
          BY <5>1 DEF Links, Marked
      <4>3. /\ loop'[c].pc = "wait" => loop'[c].target # None
            /\ conn'[c].reconnecting <=> loop'[c].pc # "idle"
        BY <4>1
      <4> QED
        BY <4>2, <4>3
    <3> QED
      BY <3>9, <3>13, <3>14
  <2> QED
    BY <2>3, <2>4
<1>6. CASE Rejoin(c)
  <2>1. /\ loop[c].pc = "sleep" /\ JoinChannel /\ conn' = conn /\ due' = due /\ faults' = faults
        /\ loop' = [loop EXCEPT ![c] = [pc |-> "wait", target |-> Entry]]
    BY <1>6 DEF Rejoin
  <2>2. Entry \in Conns /\ guild' = Entry
        /\ spent.joins < MaxJoins /\ spent' = [spent EXCEPT !.joins = @ + 1]
        /\ news' = [state |-> news.state + 1, server |-> news.server + 1]
        /\ made' = IF guild = None THEN made + 1 ELSE made
    BY <2>1 DEF JoinChannel
  <2>3. spent' \in [joins : 0 .. MaxJoins, moves : 0 .. MaxMoves, leaves : 0 .. MaxLeaves]
        /\ news' \in [state : Nat, server : Nat]
    BY <2>2 DEF Types
  <2>4. made' \in 0 .. MaxConns
    BY <2>2 DEF Types, Entry, Conns
  <2>5. PICK p : p = [pc |-> "wait", target |-> Entry]
    OBVIOUS
  <2>6. p \in LoopType /\ p.pc = "wait" /\ p.target # None
    BY <2>2, <2>5 DEF LoopType, None
  <2>7. loop' \in [Conns -> LoopType] /\ loop'[c] = p /\ \A d \in Conns : d # c => loop'[d] = loop[d]
    BY <2>1, <2>5, <2>6 DEF Types
  <2>8. Types'
    BY <1>1, <2>1, <2>2, <2>3, <2>4, <2>7 DEF Types
  <2>9. \A d \in Conns : /\ loop'[d].pc = "wait" => loop'[d].target # None
                         /\ conn'[d].reconnecting <=> loop'[d].pc # "idle"
    BY <2>1, <2>6, <2>7 DEF Links, Marked
  <2> QED
    BY <2>1, <2>8, <2>9 DEF SameConn
<1>7. CASE Rejoined(c)
  <2>1. /\ loop[c].pc = "wait" /\ conn' = conn /\ faults' = faults
        /\ UNCHANGED <<guild, made, due, news, spent>>
        /\ loop' = [loop EXCEPT ![c] = [pc |-> "ending", target |-> None]]
    BY <1>7 DEF Rejoined
  <2>2. PICK p : p = [pc |-> "ending", target |-> None]
    OBVIOUS
  <2>3. p \in LoopType /\ p.pc = "ending"
    BY <2>2 DEF LoopType
  <2>4. loop' \in [Conns -> LoopType] /\ loop'[c] = p /\ \A d \in Conns : d # c => loop'[d] = loop[d]
    BY <2>1, <2>2, <2>3 DEF Types
  <2>5. Types'
    BY <1>1, <2>1, <2>4 DEF Types
  <2>6. \A d \in Conns : /\ loop'[d].pc = "wait" => loop'[d].target # None
                         /\ conn'[d].reconnecting <=> loop'[d].pc # "idle"
    BY <2>1, <2>3, <2>4 DEF Links, Marked
  <2> QED
    BY <2>1, <2>5, <2>6 DEF SameConn
<1>8. CASE RejoinTimesOut(c)
  <2>1. /\ loop[c].pc = "wait" /\ CloseTransport(loop[c].target)
        /\ UNCHANGED <<guild, made, due, news, spent>>
        /\ loop' = [loop EXCEPT ![c] = [pc |-> "sleep", target |-> None]]
    BY <1>8 DEF RejoinTimesOut
  <2>2. loop[c].target \in Conns
    BY <2>1 DEF Links, Types, LoopType
  <2>3. /\ conn' \in [Conns -> ConnType] /\ faults' \in [Conns -> SUBSET Faults]
        /\ \A d \in Conns : SameConn(d) \/ ShutConn(d)
        /\ \A d \in Conns : conn'[d].reconnecting = conn[d].reconnecting
    BY <2>1, <2>2, CloseEffect
  <2>4. PICK p : p = [pc |-> "sleep", target |-> None]
    OBVIOUS
  <2>5. p \in LoopType /\ p.pc = "sleep"
    BY <2>4 DEF LoopType
  <2>6. loop' \in [Conns -> LoopType] /\ loop'[c] = p /\ \A d \in Conns : d # c => loop'[d] = loop[d]
    BY <2>1, <2>4, <2>5 DEF Types
  <2>7. Types'
    BY <1>1, <2>1, <2>3, <2>6 DEF Types
  <2>8. \A d \in Conns : /\ loop'[d].pc = "wait" => loop'[d].target # None
                         /\ conn'[d].reconnecting <=> loop'[d].pc # "idle"
    BY <2>1, <2>3, <2>5, <2>6 DEF Links, Marked
  <2> QED
    BY <2>3, <2>7, <2>8
<1>10. CASE ReconnectCloses(c)
  <2>1. /\ loop[c].pc = "close" /\ CloseTransport(c)
        /\ UNCHANGED <<guild, made, due, news, spent>>
        /\ loop' = [loop EXCEPT ![c].pc = "sleep"]
    BY <1>10 DEF ReconnectCloses
  <2>2. /\ conn' \in [Conns -> ConnType] /\ faults' \in [Conns -> SUBSET Faults]
        /\ \A d \in Conns : SameConn(d) \/ ShutConn(d)
        /\ \A d \in Conns : conn'[d].reconnecting = conn[d].reconnecting
    BY <2>1, CloseEffect
  <2>3. PICK p : p = [loop[c] EXCEPT !.pc = "sleep"]
    OBVIOUS
  <2>4. p \in LoopType /\ p.pc = "sleep"
    BY <2>3 DEF Types, LoopType
  <2>5. loop' \in [Conns -> LoopType] /\ loop'[c] = p /\ \A d \in Conns : d # c => loop'[d] = loop[d]
    BY <2>1, <2>3, <2>4 DEF Types
  <2>6. Types'
    BY <1>1, <2>1, <2>2, <2>5 DEF Types
  <2>7. \A d \in Conns : /\ loop'[d].pc = "wait" => loop'[d].target # None
                         /\ conn'[d].reconnecting <=> loop'[d].pc # "idle"
    BY <2>1, <2>2, <2>4, <2>5 DEF Links, Marked
  <2> QED
    BY <2>2, <2>6, <2>7
<1>9. CASE ReconnectEnds(c)
  <2>1. /\ loop[c].pc = "ending" /\ loop' = [loop EXCEPT ![c].pc = "idle"]
        /\ conn' = [conn EXCEPT ![c].reconnecting = FALSE]
        /\ UNCHANGED <<guild, made, due, news, spent, faults>>
    BY <1>9 DEF ReconnectEnds
  <2>2. PICK r : r = [conn[c] EXCEPT !.reconnecting = FALSE]
    OBVIOUS
  <2>3. conn[c] \in ConnType
    BY DEF Types
  <2>4. /\ r \in ConnType /\ r.ready = conn[c].ready /\ r.ws = conn[c].ws
        /\ r.udp = conn[c].udp /\ r.channel = conn[c].channel
        /\ r.key = conn[c].key /\ ~r.reconnecting
    BY <2>2, <2>3 DEF ConnType
  <2>5. conn' \in [Conns -> ConnType] /\ conn'[c] = r
        /\ \A d \in Conns : d # c => conn'[d] = conn[d]
    BY <2>1, <2>2, <2>4, ConnUpdate
  <2>6. \A d \in Conns : SameConn(d)
    BY <2>1, <2>4, <2>5 DEF SameConn
  <2>7. PICK p : p = [loop[c] EXCEPT !.pc = "idle"]
    OBVIOUS
  <2>8. p \in LoopType /\ p.pc = "idle"
    BY <2>7 DEF Types, LoopType
  <2>9. loop' \in [Conns -> LoopType] /\ loop'[c] = p /\ \A d \in Conns : d # c => loop'[d] = loop[d]
    BY <2>1, <2>7, <2>8 DEF Types
  <2>10. Types'
    BY <1>1, <2>1, <2>5, <2>9 DEF Types
  <2>11. \A d \in Conns : /\ loop'[d].pc = "wait" => loop'[d].target # None
                          /\ conn'[d].reconnecting <=> loop'[d].pc # "idle"
    <3>1. ~conn'[c].reconnecting /\ loop'[c].pc = "idle"
      BY <2>4, <2>5, <2>8, <2>9
    <3>2. ASSUME NEW d \in Conns, d # c
          PROVE  /\ loop'[d].pc = "wait" => loop'[d].target # None
                 /\ conn'[d].reconnecting <=> loop'[d].pc # "idle"
      <4>1. loop'[d] = loop[d] /\ conn'[d] = conn[d]
        BY <2>5, <2>9, <3>2
      <4> QED
        BY <4>1 DEF Links, Marked
    <3>3. /\ loop'[c].pc = "wait" => loop'[c].target # None
          /\ conn'[c].reconnecting <=> loop'[c].pc # "idle"
      BY <3>1
    <3> QED
      BY <3>2, <3>3
  <2> QED
    BY <2>6, <2>10, <2>11
<1> QED
  BY <1>4, <1>5, <1>6, <1>7, <1>8, <1>9, <1>10 DEF Reconnecting

-----------------------------------------------------------------------------
(* The transport.                                                             *)

\* Nothing about the generations of other objects, or about the order in which they were
\* made, has changed.
SameSessions(c) == \A h \in Gens : /\ gen'[h].conn = c <=> gen[h].conn = c
                                   /\ gen[h].conn = c => gen'[h].resume = gen[h].resume

LEMMA SessionSame ==
  ASSUME Types, NEW c \in Conns, SameSessions(c)
  PROVE  \A h \in Gens : Session(c, h)' <=> Session(c, h)
  BY DEF Session, SameSessions

LEMMA CalmTransport ==
  ASSUME Types, TransportInv, Calm
  PROVE  TransportInv'
<1>1. \A g \in Gens : /\ gen'[g].conn = gen[g].conn /\ gen'[g].resume = gen[g].resume
                      /\ gen'[g].resumed = gen[g].resumed /\ gen'[g].over = gen[g].over
                      /\ gen'[g].stage = gen[g].stage
                      /\ gen'[g].pc = gen[g].pc \/ (gen[g].pc \in Ended /\ gen'[g].pc \in Ended)
  BY DEF Calm, SameGen
<1>2. \A c \in Conns, h \in Gens : Session(c, h)' <=> Session(c, h)
  BY <1>1, SessionSame DEF SameSessions
<1>3. \A o \in Openers, g \in Gens : Writes(o, g)' <=> Writes(o, g)
  BY DEF Calm, SameWriters, Writes
<1>4. ASSUME NEW g \in Gens
      PROVE  Stage(g)'
  <2>1. Stage(g)
    BY DEF TransportInv
  <2>2. gen[g].over \in Gens \union {None}
    BY DEF Types, GenType
  <2> QED
    BY <1>1, <2>1, <2>2 DEF Stage, Ended
<1>5. ASSUME NEW c \in Conns, ShutConn(c)
      PROVE  (WsInv(c) /\ UdpInv(c) /\ ReadyInv(c))'
  <2>1. UdpInv(c) /\ conn[c].key \in Gens \union {None}
    BY DEF TransportInv, Types, ConnType
  <2> QED
    BY <1>1, <1>5, <2>1 DEF ShutConn, WsInv, UdpInv, ReadyInv, Ended
<1>6. ASSUME NEW c \in Conns, SameConn(c)
      PROVE  (WsInv(c) /\ UdpInv(c) /\ ReadyInv(c))'
  <2>1. WsInv(c) /\ UdpInv(c) /\ ReadyInv(c)
        /\ {conn[c].key, conn[c].ws, conn[c].udp} \subseteq Gens \union {None}
    BY DEF TransportInv, Types, ConnType
  <2>2. WsInv(c)'
    <3>1. SUFFICES ASSUME conn[c].ws # None PROVE WsInv(c)'
      BY <1>6 DEF SameConn, WsInv
    <3>2. PICK g \in Gens : g = conn[c].ws
      BY <2>1, <3>1
    <3>3. conn'[c].ws = g /\ gen'[g].pc = gen[g].pc
      BY <1>1, <1>6, <2>1, <3>1, <3>2 DEF SameConn, WsInv
    <3>4. (\E h \in Gens : Session(c, h) /\ gen[h].stage = "served")
             => (\E h \in Gens : Session(c, h) /\ gen[h].stage = "served")'
      BY <1>1, <1>2
    <3> QED
      BY <1>1, <1>3, <1>6, <2>1, <3>1, <3>2, <3>3, <3>4 DEF SameConn, WsInv
  <2>3. UdpInv(c)'
    BY <1>1, <1>6, <2>1 DEF SameConn, UdpInv, Ended
  <2>4. ReadyInv(c)'
    BY <1>6, <2>1 DEF SameConn, ReadyInv, Whole
  <2> QED
    BY <2>2, <2>3, <2>4
<1>7. ASSUME NEW c \in Conns, NEW h \in Gens
      PROVE  SessionInv(c, h)'
  <2>1. CASE ShutConn(c)
    BY <2>1 DEF ShutConn, SessionInv
  <2>2. CASE SameConn(c)
    <3>1. SessionInv(c, h) /\ conn[c].udp \in Gens \union {None}
      BY DEF TransportInv, Types, ConnType
    <3>2. /\ gen'[h].pc \in Live => gen[h].pc \in Live
          /\ gen[h].pc = "key" <=> gen'[h].pc = "key"
          /\ gen[h].pc \in {"ready", "udp", "handshake"} <=> gen'[h].pc \in {"ready", "udp", "handshake"}
          /\ conn[c].udp # None =>
                (gen[conn[c].udp].pc = "handshake" <=> gen'[conn[c].udp].pc = "handshake")
      BY <1>1, <3>1 DEF Live, Ended
    <3>3. Whole(c)' => Whole(c)
      BY <2>2 DEF SameConn, Whole
    <3> QED
      BY <1>1, <1>2, <1>3, <2>2, <3>1, <3>2, <3>3 DEF SameConn, SessionInv
  <2> QED
    BY <2>1, <2>2 DEF Calm
<1> QED
  BY <1>4, <1>5, <1>6, <1>7 DEF TransportInv, Calm

-----------------------------------------------------------------------------
(* The steps that change the transport: what each of them does to it.             *)

Still == UNCHANGED <<opener, opened, loop, user, guild, made, due, news, spent>>

\* Generation g moves to pc p and stage s.
Moves(g, p, s) == /\ gen'[g].pc = p /\ gen'[g].stage = s
                  /\ \A h \in Gens : h # g => gen'[h] = gen[h]
                  /\ \A h \in Gens : gen'[h].conn = gen[h].conn /\ gen'[h].resume = gen[h].resume

LEMMA HeardLinks ==
  ASSUME Types, Marked, Links, Still,
         \A h \in Gens : /\ gen'[h].conn = gen[h].conn /\ gen'[h].resume = gen[h].resume
                         /\ gen[h].pc = "none" => gen'[h].pc = "none",
         \A d \in Conns : conn'[d].reconnecting = conn[d].reconnecting
  PROVE  Marked' /\ Links'
<1>1. opener' = opener /\ opened' = opened /\ loop' = loop /\ user' = user
  BY DEF Still
<1>2. Marked'
  BY <1>1 DEF Marked
<1>3. \A o \in Openers : opener[o].pc = "write" => opener[o].gen \in Gens
  BY DEF Links, Types, OpenerType
<1>4. (\A g \in Gens : gen[g].conn = None <=> g > opened)'
  BY <1>1 DEF Links
<1>5. (\A g \in Gens : g > opened => ~gen[g].resume)'
  BY <1>1 DEF Links
<1>6. (\A o \in Openers : /\ opener[o].pc # "idle" => opener[o].conn # None
                          /\ opener[o].pc = "write" =>
                                /\ opener[o].gen # None /\ opener[o].gen <= opened
                                /\ gen[opener[o].gen].conn = opener[o].conn
                                /\ gen[opener[o].gen].resume = opener[o].resume
                                /\ gen[opener[o].gen].pc = "none")'
  BY <1>1, <1>3 DEF Links
<1> QED
  BY <1>1, <1>2, <1>4, <1>5, <1>6 DEF Links

\* A listener's object.
LEMMA ListenerConn ==
  ASSUME Types, \A k \in Gens : Stage(k), NEW g \in Gens, gen[g].pc # "none"
  PROVE  gen[g].conn \in Conns /\ gen[g].conn # None /\ gen[g] \in GenType
  BY Bounds DEF Stage, Types, GenType

LEMMA ReadEffect ==
  ASSUME Types, Marked, Links, \A k \in Gens : Stage(k), NEW g \in Gens, Read(g)
  PROVE  /\ Types' /\ Marked' /\ Links' /\ Still
         /\ conn' = conn /\ faults' = faults /\ gen[g].pc = "reading" /\ Current(g)
         /\ gen'[g].over = gen[g].over /\ gen'[g].resumed = gen[g].resumed
         /\ \/ /\ gen[g].resume /\ gen[g].stage = "opened" /\ Described(gen[g].conn)
               /\ Moves(g, "resumed", "served")
            \/ ~gen[g].resume /\ gen[g].stage = "opened" /\ Moves(g, "ready", "greeted")
            \/ ~gen[g].resume /\ gen[g].stage = "selected" /\ Moves(g, "key", "served")
<1>1. /\ gen[g].pc = "reading" /\ Current(g) /\ conn' = conn /\ faults' = faults /\ Still
      /\ Sends(g) # "nothing"
      /\ gen' = [gen EXCEPT ![g].pc = Sends(g),
                            ![g].stage = IF Sends(g) = "ready" THEN "greeted" ELSE "served"]
  BY DEF Read, Still
<1>2. PICK p : p = Sends(g)
  OBVIOUS
<1>3. PICK s : s = IF p = "ready" THEN "greeted" ELSE "served"
  OBVIOUS
<1>4. gen[g] \in GenType /\ Stage(g)
  BY DEF Types
<1>5. \/ p = "resumed" /\ s = "served" /\ gen[g].resume /\ gen[g].stage = "opened"
         /\ Described(gen[g].conn)
      \/ p = "ready" /\ s = "greeted" /\ ~gen[g].resume /\ gen[g].stage = "opened"
      \/ p = "key" /\ s = "served" /\ ~gen[g].resume /\ gen[g].stage = "selected"
  BY <1>1, <1>2, <1>3, <1>4 DEF Sends, Stage
<1>6. PICK r1 : r1 = [gen[g] EXCEPT !.pc = p]
  OBVIOUS
<1>7. /\ r1 \in GenType /\ r1.pc = p /\ r1.conn = gen[g].conn /\ r1.resume = gen[g].resume
      /\ r1.resumed = gen[g].resumed /\ r1.over = gen[g].over
  BY <1>4, <1>5, <1>6 DEF GenType, Live
<1>8. PICK r : r = [r1 EXCEPT !.stage = s]
  OBVIOUS
<1>9. /\ r \in GenType /\ r.pc = p /\ r.stage = s /\ r.conn = gen[g].conn /\ r.resume = gen[g].resume
      /\ r.resumed = gen[g].resumed /\ r.over = gen[g].over
  BY <1>5, <1>7, <1>8 DEF GenType, Stages
<1>10. gen' = [gen EXCEPT ![g] = r]
  <2>1. PICK gen1 : gen1 = [gen EXCEPT ![g].pc = p]
    OBVIOUS
  <2>2. gen1 = [gen EXCEPT ![g] = r1]
    BY <1>6, <2>1
  <2>3. gen' = [gen1 EXCEPT ![g].stage = s]
    BY <1>1, <1>2, <1>3, <2>1
  <2>4. gen1[g] = r1
    BY <2>2 DEF Types
  <2>5. gen' = [gen1 EXCEPT ![g] = r]
    BY <1>8, <2>3, <2>4
  <2> QED
    BY <2>2, <2>5 DEF Types
<1>11. /\ gen' \in [Gens -> GenType] /\ gen'[g] = r
       /\ \A h \in Gens : h # g => gen'[h] = gen[h]
  BY <1>9, <1>10, GenUpdate
<1>12. Types'
  BY <1>1, <1>11 DEF Types, Still
<1>13. \A h \in Gens : /\ gen'[h].conn = gen[h].conn /\ gen'[h].resume = gen[h].resume
                       /\ gen[h].pc = "none" => gen'[h].pc = "none"
  BY <1>1, <1>9, <1>11
<1>14. Marked' /\ Links'
  BY <1>1, <1>13, HeardLinks
<1>15. Moves(g, p, s)
  BY <1>9, <1>11, <1>13 DEF Moves
<1> QED
  BY <1>1, <1>5, <1>9, <1>11, <1>12, <1>14, <1>15

\* A step of g that moves only its pc.
LEMMA PcEffect ==
  ASSUME Types, Marked, Links, Still, NEW g \in Gens, gen[g].pc # "none",
         NEW p \in Live \union Ended, Goto(g, p),
         conn' \in [Conns -> ConnType], faults' \in [Conns -> SUBSET Faults],
         \A d \in Conns : conn'[d].reconnecting = conn[d].reconnecting
  PROVE  /\ Types' /\ Marked' /\ Links' /\ Moves(g, p, gen[g].stage)
         /\ gen'[g].over = gen[g].over /\ gen'[g].resumed = gen[g].resumed
<1>1. /\ gen' \in [Gens -> GenType] /\ gen'[g].pc = p
      /\ \A h \in Gens : h # g => gen'[h] = gen[h]
      /\ gen'[g].conn = gen[g].conn /\ gen'[g].resume = gen[g].resume
      /\ gen'[g].resumed = gen[g].resumed /\ gen'[g].over = gen[g].over
      /\ gen'[g].stage = gen[g].stage
  BY GotoEffect
<1>2. Types'
  BY <1>1 DEF Types, Still
<1>3. Marked' /\ Links'
  <2>1. \A h \in Gens : /\ gen'[h].conn = gen[h].conn /\ gen'[h].resume = gen[h].resume
                        /\ gen[h].pc = "none" => gen'[h].pc = "none"
    BY <1>1
  <2> QED
    BY <2>1, HeardLinks
<1> QED
  BY <1>1, <1>2, <1>3 DEF Moves

LEMMA BlameEffect ==
  ASSUME Types, NEW c \in Conns, NEW x \in Faults, Blame(c, x) \/ faults' = faults
  PROVE  /\ faults' \in [Conns -> SUBSET Faults] /\ \A d \in Conns : faults[d] \subseteq faults'[d]
         /\ Blame(c, x) => x \in faults'[c]
  BY DEF Blame, Types, Faults

LEMMA ListenEndsEffect ==
  ASSUME Types, Marked, Links, \A k \in Gens : Stage(k), NEW g \in Gens, ListenEnds(g)
  PROVE  /\ Types' /\ Marked' /\ Links' /\ Still
         /\ conn' = conn /\ faults' = faults /\ gen[g].pc = "reading" /\ ~Current(g)
         /\ Moves(g, "done", gen[g].stage)
         /\ gen'[g].over = gen[g].over /\ gen'[g].resumed = gen[g].resumed
<1>1. Goto(g, "done") /\ gen[g].pc = "reading" /\ ~Current(g) /\ conn' = conn /\ faults' = faults
      /\ Still
  BY DEF ListenEnds, Still
<1>2. "done" \in Live \union Ended
  BY DEF Ended
<1>3. conn' \in [Conns -> ConnType] /\ faults' \in [Conns -> SUBSET Faults]
  BY <1>1 DEF Types
<1> QED
  BY <1>1, <1>2, <1>3, PcEffect

LEMMA ReadFailsEffect ==
  ASSUME Types, Marked, Links, \A k \in Gens : Stage(k), NEW g \in Gens, NEW class \in Classes,
         ReadFails(g, class)
  PROVE  \E p \in Ended :
         /\ Types' /\ Marked' /\ Links' /\ Still
         /\ faults' = faults /\ gen[g].pc = "reading" /\ Current(g) /\ p # "done"
         /\ Moves(g, p, gen[g].stage)
         /\ gen'[g].over = gen[g].over /\ gen'[g].resumed = gen[g].resumed
         /\ conn'[gen[g].conn].ws = None
         /\ \A d \in Conns : /\ d # gen[g].conn => conn'[d].ws = conn[d].ws
                             /\ conn'[d].ready = conn[d].ready /\ conn'[d].udp = conn[d].udp
                             /\ conn'[d].channel = conn[d].channel /\ conn'[d].key = conn[d].key
<1>1. PICK c \in Conns : c = gen[g].conn
  BY ListenerConn DEF ReadFails
<1>2. PICK p : p = CloseAction(g, class)
  OBVIOUS
<1>3. p \in {"resume", "fresh", "wait", "terminal"}
  BY <1>2 DEF CloseAction, Classes
<1>4. /\ Goto(g, p) /\ gen[g].pc = "reading" /\ Current(g) /\ faults' = faults /\ Still
      /\ conn' = [conn EXCEPT ![c] = Detached(@)]
  BY <1>1, <1>2 DEF ReadFails, Still
<1>5. PICK r : r = [conn[c] EXCEPT !.ws = None]
  OBVIOUS
<1>6. conn[c] \in ConnType
  BY DEF Types
<1>7. /\ r \in ConnType /\ r.ready = conn[c].ready /\ r.ws = None
      /\ r.udp = conn[c].udp /\ r.channel = conn[c].channel
      /\ r.key = conn[c].key /\ r.reconnecting = conn[c].reconnecting
  BY <1>5, <1>6 DEF ConnType
<1>8. conn' = [conn EXCEPT ![c] = r]
  BY <1>4, <1>5 DEF Detached
<1>9. conn' \in [Conns -> ConnType] /\ conn'[c] = r
      /\ \A d \in Conns : d # c => conn'[d] = conn[d]
  BY <1>7, <1>8, ConnUpdate
<1>10. p \in Live \union Ended /\ p \in Ended /\ p # "done"
  BY <1>3 DEF Ended
<1>11. \A d \in Conns : conn'[d].reconnecting = conn[d].reconnecting
  BY <1>7, <1>9
<1>12. faults' \in [Conns -> SUBSET Faults]
  BY <1>4 DEF Types
<1>13. /\ Types' /\ Marked' /\ Links' /\ Moves(g, p, gen[g].stage)
       /\ gen'[g].over = gen[g].over /\ gen'[g].resumed = gen[g].resumed
  BY <1>4, <1>9, <1>10, <1>11, <1>12, PcEffect
<1>14. \A d \in Conns : /\ d # c => conn'[d].ws = conn[d].ws
                        /\ conn'[d].ready = conn[d].ready /\ conn'[d].udp = conn[d].udp
                        /\ conn'[d].channel = conn[d].channel /\ conn'[d].key = conn[d].key
  BY <1>7, <1>9
<1> QED
  BY <1>1, <1>4, <1>7, <1>9, <1>10, <1>13, <1>14

LEMMA OpenUDPEffect ==
  ASSUME Types, Marked, Links, \A k \in Gens : Stage(k), NEW g \in Gens, OpenUDP(g)
  PROVE  /\ Types' /\ Marked' /\ Links' /\ Still /\ conn' = conn /\ gen[g].pc = "ready"
         /\ gen'[g].resumed = gen[g].resumed
         /\ \A d \in Conns : faults[d] \subseteq faults'[d]
         /\ \/ /\ Moves(g, "reading", gen[g].stage) /\ gen'[g].over = gen[g].over
               /\ Current(g) => "noUDP" \in faults'[gen[g].conn]
            \/ /\ Moves(g, "udp", gen[g].stage) /\ gen'[g].over = conn[gen[g].conn].ws
               /\ conn[gen[g].conn].ws # None
<1>1. PICK c \in Conns : c = gen[g].conn
  BY ListenerConn DEF OpenUDP
<1>2. /\ gen[g].pc = "ready" /\ conn' = conn /\ Still
      /\ IF conn[c].ws = None \/ conn[c].udp # None \/ ~conn[c].channel
         THEN /\ Goto(g, "reading")
              /\ IF Current(g) THEN Blame(c, "noUDP") ELSE UNCHANGED faults
         ELSE /\ gen' = [gen EXCEPT ![g].pc = "udp", ![g].over = conn[c].ws]
              /\ UNCHANGED faults
  BY <1>1 DEF OpenUDP, Still
<1>3. conn' \in [Conns -> ConnType] /\ \A d \in Conns : conn'[d].reconnecting = conn[d].reconnecting
  BY <1>2 DEF Types
<1>4. CASE conn[c].ws = None \/ conn[c].udp # None \/ ~conn[c].channel
  <2>1. Goto(g, "reading") /\ "reading" \in Live \union Ended
    BY <1>2, <1>4 DEF Live
  <2>2. /\ faults' \in [Conns -> SUBSET Faults] /\ \A d \in Conns : faults[d] \subseteq faults'[d]
        /\ Current(g) => "noUDP" \in faults'[c]
    <3>1. (Current(g) => Blame(c, "noUDP")) /\ (~Current(g) => faults' = faults)
      BY <1>2, <1>4
    <3>2. "noUDP" \in Faults
      BY DEF Faults
    <3> QED
      BY <3>1, <3>2, BlameEffect
  <2>3. /\ Types' /\ Marked' /\ Links' /\ Moves(g, "reading", gen[g].stage)
        /\ gen'[g].over = gen[g].over /\ gen'[g].resumed = gen[g].resumed
    BY <1>2, <1>3, <2>1, <2>2, PcEffect
  <2> QED
    BY <1>1, <1>2, <2>2, <2>3
<1>5. CASE ~(conn[c].ws = None \/ conn[c].udp # None \/ ~conn[c].channel)
  <2>1. gen' = [gen EXCEPT ![g].pc = "udp", ![g].over = conn[c].ws] /\ faults' = faults
        /\ conn[c].ws # None
    BY <1>2, <1>5
  <2>2. gen[g] \in GenType /\ conn[c].ws \in Gens \union {None}
    BY DEF Types, ConnType
  <2>3. PICK r1 : r1 = [gen[g] EXCEPT !.pc = "udp"]
    OBVIOUS
  <2>4. /\ r1 \in GenType /\ r1.pc = "udp" /\ r1.conn = gen[g].conn /\ r1.resume = gen[g].resume
        /\ r1.resumed = gen[g].resumed /\ r1.stage = gen[g].stage
    BY <2>2, <2>3 DEF GenType, Live
  <2>5. PICK r : r = [r1 EXCEPT !.over = conn[c].ws]
    OBVIOUS
  <2>6. /\ r \in GenType /\ r.pc = "udp" /\ r.conn = gen[g].conn /\ r.resume = gen[g].resume
        /\ r.resumed = gen[g].resumed /\ r.stage = gen[g].stage /\ r.over = conn[c].ws
    BY <2>2, <2>4, <2>5 DEF GenType
  <2>7. gen' = [gen EXCEPT ![g] = r]
    <3>1. PICK gen1 : gen1 = [gen EXCEPT ![g].pc = "udp"]
      OBVIOUS
    <3>2. gen1 = [gen EXCEPT ![g] = r1]
      BY <2>3, <3>1
    <3>3. gen' = [gen1 EXCEPT ![g].over = conn[c].ws]
      BY <2>1, <3>1
    <3>4. gen1[g] = r1
      BY <3>2 DEF Types
    <3>5. gen' = [gen1 EXCEPT ![g] = r]
      BY <2>5, <3>3, <3>4
    <3> QED
      BY <3>2, <3>5 DEF Types
  <2>8. gen' \in [Gens -> GenType] /\ gen'[g] = r /\ \A h \in Gens : h # g => gen'[h] = gen[h]
    BY <2>6, <2>7, GenUpdate
  <2>9. \A h \in Gens : /\ gen'[h].conn = gen[h].conn /\ gen'[h].resume = gen[h].resume
                        /\ gen[h].pc = "none" => gen'[h].pc = "none"
    BY <1>2, <2>6, <2>8
  <2>10. Types'
    BY <1>2, <2>1, <2>8 DEF Types, Still
  <2>11. Marked' /\ Links'
    BY <1>2, <1>3, <2>9, HeardLinks
  <2> QED
    BY <1>1, <1>2, <2>1, <2>6, <2>8, <2>9, <2>10, <2>11 DEF Moves
<1> QED
  BY <1>4, <1>5

LEMMA InstallUDPEffect ==
  ASSUME Types, Marked, Links, \A k \in Gens : Stage(k), NEW g \in Gens, InstallUDP(g)
  PROVE  /\ Types' /\ Marked' /\ Links' /\ Still /\ gen[g].pc = "udp"
         /\ gen'[g].resumed = gen[g].resumed /\ gen'[g].over = gen[g].over
         /\ Moves(g, "handshake", gen[g].stage)
         /\ conn[gen[g].conn].ws = gen[g].over /\ conn[gen[g].conn].udp = None
         /\ \A d \in Conns : faults[d] \subseteq faults'[d]
         /\ ~Current(g) => "overtaken" \in faults'[gen[g].conn]
         /\ conn'[gen[g].conn].udp = g
         /\ \A d \in Conns : /\ d # gen[g].conn => conn'[d].udp = conn[d].udp
                             /\ conn'[d].ready = conn[d].ready /\ conn'[d].ws = conn[d].ws
                             /\ conn'[d].channel = conn[d].channel /\ conn'[d].key = conn[d].key
<1>1. PICK c \in Conns : c = gen[g].conn
  BY ListenerConn DEF InstallUDP
<1>2. /\ gen[g].pc = "udp" /\ Still /\ conn[c].ws = gen[g].over /\ conn[c].udp = None
      /\ conn' = [conn EXCEPT ![c].udp = g] /\ Goto(g, "handshake")
      /\ IF Current(g) THEN UNCHANGED faults ELSE Blame(c, "overtaken")
  BY <1>1 DEF InstallUDP, Still
<1>3. PICK r : r = [conn[c] EXCEPT !.udp = g]
  OBVIOUS
<1>4. conn[c] \in ConnType
  BY DEF Types
<1>5. /\ r \in ConnType /\ r.ready = conn[c].ready /\ r.ws = conn[c].ws
      /\ r.udp = g /\ r.channel = conn[c].channel
      /\ r.key = conn[c].key /\ r.reconnecting = conn[c].reconnecting
  BY <1>3, <1>4 DEF ConnType
<1>6. conn' = [conn EXCEPT ![c] = r]
  BY <1>2, <1>3
<1>7. conn' \in [Conns -> ConnType] /\ conn'[c] = r
      /\ \A d \in Conns : d # c => conn'[d] = conn[d]
  BY <1>5, <1>6, ConnUpdate
<1>8. \A d \in Conns : conn'[d].reconnecting = conn[d].reconnecting
  BY <1>5, <1>7
<1>9. /\ faults' \in [Conns -> SUBSET Faults] /\ \A d \in Conns : faults[d] \subseteq faults'[d]
      /\ ~Current(g) => "overtaken" \in faults'[c]
  <2>1. (~Current(g) => Blame(c, "overtaken")) /\ (Current(g) => faults' = faults)
    BY <1>2
  <2>2. "overtaken" \in Faults
    BY DEF Faults
  <2> QED
    BY <2>1, <2>2, BlameEffect
<1>10. /\ Types' /\ Marked' /\ Links' /\ Moves(g, "handshake", gen[g].stage)
       /\ gen'[g].over = gen[g].over /\ gen'[g].resumed = gen[g].resumed
  <2>1. "handshake" \in Live \union Ended /\ gen[g].pc # "none"
    BY <1>2 DEF Live
  <2> QED
    BY <1>2, <1>7, <1>8, <1>9, <2>1, PcEffect
<1>11. \A d \in Conns : /\ d # c => conn'[d].udp = conn[d].udp
                        /\ conn'[d].ready = conn[d].ready /\ conn'[d].ws = conn[d].ws
                        /\ conn'[d].channel = conn[d].channel /\ conn'[d].key = conn[d].key
  BY <1>5, <1>7
<1> QED
  BY <1>1, <1>2, <1>5, <1>7, <1>9, <1>10, <1>11

LEMMA UDPAnswersEffect ==
  ASSUME Types, Marked, Links, \A k \in Gens : Stage(k), NEW g \in Gens, UDPAnswers(g)
  PROVE  \E over \in Gens :
         /\ Types' /\ Marked' /\ Links' /\ Still /\ conn' = conn /\ faults' = faults
         /\ gen[g].pc = "handshake" /\ gen[g].over = over /\ gen[over].conn = gen[g].conn
         /\ conn[gen[g].conn].udp = g /\ conn[gen[g].conn].ws = over
         /\ gen'[g].pc = "reading" /\ \A h \in Gens : h # g => gen'[h].pc = gen[h].pc
         /\ gen'[over].stage = IF gen[over].stage = "greeted" THEN "selected" ELSE gen[over].stage
         /\ \A h \in Gens : h # over => gen'[h].stage = gen[h].stage
         /\ \A h \in Gens : /\ gen'[h].conn = gen[h].conn /\ gen'[h].resume = gen[h].resume
                            /\ gen'[h].over = gen[h].over /\ gen'[h].resumed = gen[h].resumed
<1>1. gen[g].pc = "handshake"
  BY DEF UDPAnswers
<1>2. PICK over \in Gens : over = gen[g].over /\ gen[over].conn = gen[g].conn
  BY <1>1 DEF Stage, Types, GenType
<1>3. /\ Still /\ conn' = conn /\ faults' = faults
      /\ conn[gen[g].conn].udp = g /\ conn[gen[g].conn].ws = over
      /\ gen' = [gen EXCEPT ![g].pc = "reading",
                            ![over].stage = IF gen[over].stage = "greeted"
                                            THEN "selected" ELSE @]
  BY <1>2 DEF UDPAnswers, Still
<1>4. gen[g] \in GenType /\ gen[over] \in GenType
  BY DEF Types
<1>5. PICK r1 : r1 = [gen[g] EXCEPT !.pc = "reading"]
  OBVIOUS
<1>6. /\ r1 \in GenType /\ r1.pc = "reading" /\ r1.conn = gen[g].conn /\ r1.resume = gen[g].resume
      /\ r1.resumed = gen[g].resumed /\ r1.stage = gen[g].stage /\ r1.over = gen[g].over
  BY <1>4, <1>5 DEF GenType, Live
<1>7. PICK gen1 : gen1 = [gen EXCEPT ![g] = r1]
  OBVIOUS
<1>8. gen1 \in [Gens -> GenType] /\ gen1[g] = r1 /\ \A h \in Gens : h # g => gen1[h] = gen[h]
  BY <1>6, <1>7 DEF Types
<1>9. /\ gen1[over] \in GenType /\ gen1[over].stage = gen[over].stage
      /\ gen1[over].conn = gen[over].conn /\ gen1[over].resume = gen[over].resume
      /\ gen1[over].resumed = gen[over].resumed /\ gen1[over].over = gen[over].over
  BY <1>6, <1>8
<1>10. PICK s : s = IF gen[over].stage = "greeted" THEN "selected" ELSE gen[over].stage
  OBVIOUS
<1>11. s \in Stages
  BY <1>4, <1>10 DEF GenType, Stages
<1>12. PICK r2 : r2 = [gen1[over] EXCEPT !.stage = s]
  OBVIOUS
<1>13. /\ r2 \in GenType /\ r2.stage = s /\ r2.pc = gen1[over].pc
       /\ r2.conn = gen[over].conn /\ r2.resume = gen[over].resume
       /\ r2.resumed = gen[over].resumed /\ r2.over = gen[over].over
  BY <1>9, <1>11, <1>12 DEF GenType
<1>14. gen' = [gen1 EXCEPT ![over] = r2]
  <2>1. gen1 = [gen EXCEPT ![g].pc = "reading"]
    BY <1>5, <1>7
  <2>2. gen' = [gen1 EXCEPT ![over].stage = IF gen[over].stage = "greeted"
                                            THEN "selected" ELSE gen1[over].stage]
    BY <1>3, <2>1
  <2>3. gen' = [gen1 EXCEPT ![over].stage = s]
    BY <1>9, <1>10, <2>2
  <2> QED
    BY <1>12, <2>3
<1>15. gen' \in [Gens -> GenType] /\ gen'[over] = r2 /\ \A h \in Gens : h # over => gen'[h] = gen1[h]
  BY <1>8, <1>13, <1>14
<1>16. /\ gen'[g].pc = "reading" /\ \A h \in Gens : h # g => gen'[h].pc = gen[h].pc
  BY <1>6, <1>8, <1>13, <1>15
<1>17. \A h \in Gens : h # over => gen'[h].stage = gen[h].stage
  BY <1>6, <1>8, <1>15
<1>18. \A h \in Gens : /\ gen'[h].conn = gen[h].conn /\ gen'[h].resume = gen[h].resume
                       /\ gen'[h].over = gen[h].over /\ gen'[h].resumed = gen[h].resumed
  BY <1>6, <1>8, <1>13, <1>15
<1>19. Types'
  BY <1>3, <1>15 DEF Types, Still
<1>20. Marked' /\ Links'
  <2>1. \A h \in Gens : gen[h].pc = "none" => gen'[h].pc = "none"
    BY <1>1, <1>16
  <2> QED
    BY <1>3, <1>18, <2>1, HeardLinks
<1> WITNESS over \in Gens
<1>21. gen'[over].stage = IF gen[over].stage = "greeted" THEN "selected" ELSE gen[over].stage
  BY <1>10, <1>13, <1>15
<1> QED
  BY <1>1, <1>2, <1>3, <1>16, <1>17, <1>18, <1>19, <1>20, <1>21

LEMMA UDPFailsEffect ==
  ASSUME Types, Marked, Links, \A k \in Gens : Stage(k), NEW g \in Gens, UDPFails(g)
  PROVE  /\ Types' /\ Marked' /\ Links' /\ Still /\ gen[g].pc \in {"udp", "handshake"}
         /\ gen'[g].resumed = gen[g].resumed /\ gen'[g].over = gen[g].over
         /\ Moves(g, "reading", gen[g].stage)
         /\ \A d \in Conns : faults[d] \subseteq faults'[d]
         /\ Current(g) => "noUDP" \in faults'[gen[g].conn]
         /\ conn'[gen[g].conn].udp = IF gen[g].pc = "handshake" /\ conn[gen[g].conn].udp = g
                                     THEN None ELSE conn[gen[g].conn].udp
         /\ \A d \in Conns : /\ d # gen[g].conn => conn'[d].udp = conn[d].udp
                             /\ conn'[d].ready = conn[d].ready /\ conn'[d].ws = conn[d].ws
                             /\ conn'[d].channel = conn[d].channel /\ conn'[d].key = conn[d].key
<1>1. PICK c \in Conns : c = gen[g].conn
  BY ListenerConn DEF UDPFails
<1>2. /\ gen[g].pc \in {"udp", "handshake"} /\ Still /\ Goto(g, "reading")
      /\ conn' = IF gen[g].pc = "handshake" /\ conn[c].udp = g
                 THEN [conn EXCEPT ![c].udp = None] ELSE conn
      /\ IF Current(g) THEN Blame(c, "noUDP") ELSE UNCHANGED faults
  BY <1>1 DEF UDPFails, Still
<1>3. PICK u : u = IF gen[g].pc = "handshake" /\ conn[c].udp = g THEN None ELSE conn[c].udp
  OBVIOUS
<1>4. /\ conn' \in [Conns -> ConnType] /\ conn'[c].udp = u
      /\ \A d \in Conns : /\ d # c => conn'[d].udp = conn[d].udp
                          /\ conn'[d].ready = conn[d].ready /\ conn'[d].ws = conn[d].ws
                          /\ conn'[d].channel = conn[d].channel /\ conn'[d].key = conn[d].key
                          /\ conn'[d].reconnecting = conn[d].reconnecting
  <2>1. CASE gen[g].pc = "handshake" /\ conn[c].udp = g
    <3>1. conn' = [conn EXCEPT ![c].udp = None] /\ u = None
      BY <1>2, <1>3, <2>1
    <3>2. PICK r : r = [conn[c] EXCEPT !.udp = None]
      OBVIOUS
    <3>3. conn[c] \in ConnType
      BY DEF Types
    <3>4. /\ r \in ConnType /\ r.ready = conn[c].ready /\ r.ws = conn[c].ws
          /\ r.udp = None /\ r.channel = conn[c].channel
          /\ r.key = conn[c].key /\ r.reconnecting = conn[c].reconnecting
      BY <3>2, <3>3 DEF ConnType
    <3>5. conn' \in [Conns -> ConnType] /\ conn'[c] = r
          /\ \A d \in Conns : d # c => conn'[d] = conn[d]
      BY <3>1, <3>2, <3>4, ConnUpdate
    <3> QED
      BY <3>1, <3>4, <3>5
  <2>2. CASE ~(gen[g].pc = "handshake" /\ conn[c].udp = g)
    <3>1. conn' = conn /\ u = conn[c].udp
      BY <1>2, <1>3, <2>2
    <3> QED
      BY <3>1 DEF Types
  <2> QED
    BY <2>1, <2>2
<1>5. /\ faults' \in [Conns -> SUBSET Faults] /\ \A d \in Conns : faults[d] \subseteq faults'[d]
      /\ Current(g) => "noUDP" \in faults'[c]
  <2>1. (Current(g) => Blame(c, "noUDP")) /\ (~Current(g) => faults' = faults)
    BY <1>2
  <2>2. "noUDP" \in Faults
    BY DEF Faults
  <2> QED
    BY <2>1, <2>2, BlameEffect
<1>6. /\ Types' /\ Marked' /\ Links' /\ Moves(g, "reading", gen[g].stage)
      /\ gen'[g].over = gen[g].over /\ gen'[g].resumed = gen[g].resumed
  <2>1. "reading" \in Live \union Ended /\ gen[g].pc # "none"
    BY <1>2 DEF Live
  <2> QED
    BY <1>2, <1>4, <1>5, <2>1, PcEffect
<1> QED
  BY <1>1, <1>2, <1>3, <1>4, <1>5, <1>6

LEMMA TakeKeyEffect ==
  ASSUME Types, Marked, Links, \A k \in Gens : Stage(k), NEW g \in Gens, TakeKey(g)
  PROVE  /\ Types' /\ Marked' /\ Links' /\ Still /\ gen[g].pc = "key"
         /\ gen'[g].resumed = gen[g].resumed /\ gen'[g].over = gen[g].over
         /\ Moves(g, "reading", gen[g].stage)
         /\ \A d \in Conns : faults[d] \subseteq faults'[d]
         /\ ~Current(g) => "overtaken" \in faults'[gen[g].conn]
         /\ conn'[gen[g].conn].key = g /\ conn'[gen[g].conn].ready = TRUE
         /\ \A d \in Conns : /\ d # gen[g].conn => conn'[d].key = conn[d].key
                                                  /\ conn'[d].ready = conn[d].ready
                             /\ conn'[d].ws = conn[d].ws /\ conn'[d].udp = conn[d].udp
                             /\ conn'[d].channel = conn[d].channel
<1>1. PICK c \in Conns : c = gen[g].conn
  BY ListenerConn DEF TakeKey
<1>2. PICK u : u = IF conn[c].channel THEN conn[c].udp ELSE conn[c].receiver
  OBVIOUS
<1>3. conn[c] \in ConnType
  BY DEF Types
<1>4. u \in Gens \union {None}
  BY <1>2, <1>3 DEF ConnType
<1>5. /\ gen[g].pc = "key" /\ Still /\ Goto(g, "reading")
      /\ conn' = [conn EXCEPT ![c].key = g, ![c].ready = TRUE,
                              ![c].receiver = IF conn[c].channel THEN conn[c].udp ELSE @]
      /\ IF Current(g) THEN UNCHANGED faults ELSE Blame(c, "overtaken")
  BY <1>1 DEF TakeKey, Still
<1>6. PICK r1 : r1 = [conn[c] EXCEPT !.key = g]
  OBVIOUS
<1>7. /\ r1 \in ConnType /\ r1.ready = conn[c].ready /\ r1.ws = conn[c].ws
      /\ r1.udp = conn[c].udp /\ r1.channel = conn[c].channel /\ r1.receiver = conn[c].receiver
      /\ r1.key = g /\ r1.reconnecting = conn[c].reconnecting
  BY <1>3, <1>6 DEF ConnType
<1>8. PICK r2 : r2 = [r1 EXCEPT !.ready = TRUE]
  OBVIOUS
<1>9. /\ r2 \in ConnType /\ r2.ready = TRUE /\ r2.ws = conn[c].ws
      /\ r2.udp = conn[c].udp /\ r2.channel = conn[c].channel /\ r2.receiver = conn[c].receiver
      /\ r2.key = g /\ r2.reconnecting = conn[c].reconnecting
  BY <1>7, <1>8 DEF ConnType
<1>10. PICK r : r = [r2 EXCEPT !.receiver = u]
  OBVIOUS
<1>11. /\ r \in ConnType /\ r.ready = TRUE /\ r.ws = conn[c].ws
       /\ r.udp = conn[c].udp /\ r.channel = conn[c].channel
       /\ r.key = g /\ r.reconnecting = conn[c].reconnecting
  BY <1>4, <1>9, <1>10 DEF ConnType
<1>12. conn' = [conn EXCEPT ![c] = r]
  <2>1. PICK c1 : c1 = [conn EXCEPT ![c].key = g]
    OBVIOUS
  <2>2. PICK c2 : c2 = [c1 EXCEPT ![c].ready = TRUE]
    OBVIOUS
  <2>3. conn' = [c2 EXCEPT ![c].receiver = IF conn[c].channel THEN conn[c].udp ELSE c2[c].receiver]
    BY <1>5, <2>1, <2>2
  <2>4. c1 = [conn EXCEPT ![c] = r1]
    BY <1>6, <2>1
  <2>5. c1[c] = r1
    BY <2>4 DEF Types
  <2>6. c2 = [c1 EXCEPT ![c] = r2]
    BY <1>8, <2>2, <2>5
  <2>7. c2 = [conn EXCEPT ![c] = r2]
    BY <2>4, <2>6 DEF Types
  <2>8. c2[c] = r2
    BY <2>7 DEF Types
  <2>9. conn' = [c2 EXCEPT ![c].receiver = u]
    BY <1>2, <1>9, <2>3, <2>8
  <2>10. conn' = [c2 EXCEPT ![c] = r]
    BY <1>10, <2>8, <2>9
  <2> QED
    BY <2>7, <2>10 DEF Types
<1>13. conn' \in [Conns -> ConnType] /\ conn'[c] = r
       /\ \A d \in Conns : d # c => conn'[d] = conn[d]
  BY <1>11, <1>12, ConnUpdate
<1>14. \A d \in Conns : conn'[d].reconnecting = conn[d].reconnecting
  BY <1>11, <1>13
<1>15. /\ faults' \in [Conns -> SUBSET Faults] /\ \A d \in Conns : faults[d] \subseteq faults'[d]
       /\ ~Current(g) => "overtaken" \in faults'[c]
  <2>1. (~Current(g) => Blame(c, "overtaken")) /\ (Current(g) => faults' = faults)
    BY <1>5
  <2>2. "overtaken" \in Faults
    BY DEF Faults
  <2> QED
    BY <2>1, <2>2, BlameEffect
<1>16. /\ Types' /\ Marked' /\ Links' /\ Moves(g, "reading", gen[g].stage)
       /\ gen'[g].over = gen[g].over /\ gen'[g].resumed = gen[g].resumed
  <2>1. "reading" \in Live \union Ended /\ gen[g].pc # "none"
    BY <1>5 DEF Live
  <2> QED
    BY <1>5, <1>13, <1>14, <1>15, <2>1, PcEffect
<1>17. \A d \in Conns : /\ d # c => conn'[d].key = conn[d].key /\ conn'[d].ready = conn[d].ready
                        /\ conn'[d].ws = conn[d].ws /\ conn'[d].udp = conn[d].udp
                        /\ conn'[d].channel = conn[d].channel
  BY <1>11, <1>13
<1> QED
  BY <1>1, <1>5, <1>11, <1>13, <1>15, <1>16, <1>17

\* A message that is dropped, or an OP4 that fails: the listener reads on.
Refused(g) == MessageDropped(g) \/ KeyFails(g)

LEMMA RefusedEffect ==
  ASSUME Types, Marked, Links, \A k \in Gens : Stage(k), NEW g \in Gens, Refused(g)
  PROVE  /\ Types' /\ Marked' /\ Links' /\ Still /\ gen[g].pc \in {"ready", "key", "resumed"}
         /\ gen'[g].resumed = gen[g].resumed /\ gen'[g].over = gen[g].over
         /\ Moves(g, "reading", gen[g].stage)
         /\ \A d \in Conns : faults[d] \subseteq faults'[d]
         /\ gen[g].pc = "ready" /\ Current(g) => "noUDP" \in faults'[gen[g].conn]
         /\ gen[g].pc = "key" /\ Current(g) => "noKey" \in faults'[gen[g].conn]
         /\ \A d \in Conns : /\ conn'[d].ws = conn[d].ws /\ conn'[d].udp = conn[d].udp
                             /\ conn'[d].channel = conn[d].channel
                             /\ conn'[d].ready = conn[d].ready
                             /\ \/ conn'[d].key = conn[d].key
                                \/ /\ d = gen[g].conn /\ gen[g].pc = "key"
                                   /\ conn'[d].key \in {None, g} /\ ~Whole(d)'
<1>1. PICK c \in Conns : c = gen[g].conn
  BY ListenerConn DEF Refused, MessageDropped, KeyFails
<1>2. /\ gen[g].pc \in {"ready", "key", "resumed"} /\ Still /\ Goto(g, "reading")
  BY DEF Refused, MessageDropped, KeyFails, Still
<1>3. PICK x \in Faults : /\ x = "noUDP" \/ x = "noKey" \/ x = "overtaken"
                          /\ (Blame(c, x) \/ faults' = faults)
                          /\ (gen[g].pc = "ready" /\ Current(g)) => (x = "noUDP" /\ Blame(c, x))
                          /\ (gen[g].pc = "key" /\ Current(g)) => (x = "noKey" /\ Blame(c, x))
                          /\ KeyFails(g) => (x \in {"noKey", "overtaken"} /\ Blame(c, x))
  <2>1. {"noUDP", "noKey", "overtaken"} \subseteq Faults
    BY DEF Faults
  <2>2. CASE KeyFails(g)
    <3>1. gen[g].pc = "key" /\ Blame(c, IF Current(g) THEN "noKey" ELSE "overtaken")
      BY <1>1, <2>2 DEF KeyFails
    <3>2. CASE Current(g)
      BY <2>1, <3>1, <3>2
    <3>3. CASE ~Current(g)
      BY <2>1, <3>1, <3>3
    <3> QED
      BY <3>2, <3>3
  <2>3. CASE ~KeyFails(g)
    <3>1. IF Current(g)
          THEN faults' = [faults EXCEPT ![c] =
                   CASE gen[g].pc = "ready"   -> @ \union {"noUDP"}
                     [] gen[g].pc = "key"     -> @ \union {"noKey"}
                     [] gen[g].pc = "resumed" -> @]
          ELSE faults' = faults
      BY <1>1, <2>3 DEF Refused, MessageDropped
    <3>2. CASE ~Current(g)
      BY <2>1, <2>3, <3>1, <3>2
    <3>3. CASE Current(g) /\ gen[g].pc = "ready"
      BY <2>1, <2>3, <3>1, <3>3 DEF Blame
    <3>4. CASE Current(g) /\ gen[g].pc = "key"
      BY <2>1, <2>3, <3>1, <3>4 DEF Blame
    <3>5. CASE Current(g) /\ gen[g].pc = "resumed"
      <4>1. faults' = [faults EXCEPT ![c] = @]
        BY <3>1, <3>5
      <4>2. faults' = faults
        BY <4>1 DEF Types
      <4> QED
        BY <2>1, <2>3, <3>5, <4>2
    <3> QED
      BY <1>2, <3>2, <3>3, <3>4, <3>5
  <2> QED
    BY <2>2, <2>3
<1>4. /\ faults' \in [Conns -> SUBSET Faults] /\ \A d \in Conns : faults[d] \subseteq faults'[d]
      /\ Blame(c, x) => x \in faults'[c]
  BY <1>3, BlameEffect
<1>5. conn[c] \in ConnType
  BY DEF Types
<1>6. PICK k \in Gens \union {None} : /\ conn' = [conn EXCEPT ![c].key = k] \/ conn' = conn
                                      /\ k # conn[c].key => KeyFails(g) /\ k \in {None, g}
  <2>1. CASE KeyFails(g)
    <3>1. PICK k \in {conn[c].key, None, g} : conn' = [conn EXCEPT ![c].key = k]
      BY <1>1, <2>1 DEF KeyFails
    <3>2. k \in Gens \union {None}
      BY <1>5, <3>1 DEF ConnType
    <3> QED
      BY <2>1, <3>1, <3>2
  <2>2. CASE ~KeyFails(g)
    <3>1. conn' = conn /\ conn[c].key \in Gens \union {None}
      BY <1>5, <2>2 DEF Refused, MessageDropped, ConnType
    <3> QED
      BY <3>1
  <2> QED
    BY <2>1, <2>2
<1>7. /\ conn' \in [Conns -> ConnType] /\ conn'[c].key \in {k, conn[c].key}
      /\ \A d \in Conns : /\ d # c => conn'[d].key = conn[d].key
                          /\ conn'[d].ws = conn[d].ws /\ conn'[d].udp = conn[d].udp
                          /\ conn'[d].channel = conn[d].channel
                          /\ conn'[d].ready = conn[d].ready
                          /\ conn'[d].reconnecting = conn[d].reconnecting
  <2>1. CASE conn' = conn
    BY <1>6, <2>1 DEF Types
  <2>2. CASE conn' = [conn EXCEPT ![c].key = k]
    <3>1. PICK r : r = [conn[c] EXCEPT !.key = k]
      OBVIOUS
    <3>2. /\ r \in ConnType /\ r.ready = conn[c].ready /\ r.ws = conn[c].ws
          /\ r.udp = conn[c].udp /\ r.channel = conn[c].channel
          /\ r.key = k /\ r.reconnecting = conn[c].reconnecting
      BY <1>5, <3>1 DEF ConnType
    <3>3. conn' \in [Conns -> ConnType] /\ conn'[c] = r
          /\ \A d \in Conns : d # c => conn'[d] = conn[d]
      BY <2>2, <3>1, <3>2, ConnUpdate
    <3> QED
      BY <3>2, <3>3
  <2> QED
    BY <1>6, <2>1, <2>2
<1>8. conn'[c].key = conn[c].key \/ (gen[g].pc = "key" /\ conn'[c].key \in {None, g} /\ ~Whole(c)')
  <2>1. SUFFICES ASSUME conn'[c].key # conn[c].key
                 PROVE  gen[g].pc = "key" /\ conn'[c].key \in {None, g} /\ ~Whole(c)'
    OBVIOUS
  <2>2. KeyFails(g) /\ conn'[c].key \in {None, g}
    BY <1>6, <1>7, <2>1
  <2>3. gen[g].pc = "key"
    BY <2>2 DEF KeyFails
  <2>4. x \in {"noKey", "overtaken"} /\ x \in faults'[c]
    BY <1>3, <1>4, <2>2
  <2> QED
    BY <2>2, <2>3, <2>4 DEF Whole
<1>9. /\ Types' /\ Marked' /\ Links' /\ Moves(g, "reading", gen[g].stage)
      /\ gen'[g].over = gen[g].over /\ gen'[g].resumed = gen[g].resumed
  <2>1. "reading" \in Live \union Ended /\ gen[g].pc # "none"
    BY <1>2 DEF Live
  <2> QED
    BY <1>2, <1>4, <1>7, <2>1, PcEffect
<1>10. /\ gen[g].pc = "ready" /\ Current(g) => "noUDP" \in faults'[c]
       /\ gen[g].pc = "key" /\ Current(g) => "noKey" \in faults'[c]
  BY <1>3, <1>4
<1> QED
  BY <1>1, <1>2, <1>4, <1>7, <1>8, <1>9, <1>10

LEMMA TakeResumedEffect ==
  ASSUME Types, Marked, Links, \A k \in Gens : Stage(k), NEW g \in Gens, TakeResumed(g)
  PROVE  /\ Types' /\ Marked' /\ Links' /\ Still /\ faults' = faults /\ gen[g].pc = "resumed"
         /\ gen'[g].resumed <=> gen[g].resumed \/ Current(g)
         /\ gen'[g].over = gen[g].over
         /\ Moves(g, "reading", gen[g].stage)
         /\ conn'[gen[g].conn].ready <=> conn[gen[g].conn].ready \/ Current(g)
         /\ \A d \in Conns : /\ d # gen[g].conn => conn'[d].ready = conn[d].ready
                             /\ conn'[d].ws = conn[d].ws /\ conn'[d].udp = conn[d].udp
                             /\ conn'[d].channel = conn[d].channel /\ conn'[d].key = conn[d].key
<1>1. PICK c \in Conns : c = gen[g].conn
  BY ListenerConn DEF TakeResumed
<1>2. PICK b \in BOOLEAN : b <=> gen[g].resumed \/ Current(g)
  OBVIOUS
<1>3. gen[g] \in GenType /\ conn[c] \in ConnType
  BY DEF Types
<1>4. /\ gen[g].pc = "resumed" /\ Still /\ faults' = faults
      /\ gen' = [gen EXCEPT ![g].pc = "reading", ![g].resumed = @ \/ Current(g)]
      /\ conn' = IF Current(g)
                 THEN [conn EXCEPT ![c].ready = TRUE, ![c].attempts = 0]
                 ELSE conn
  BY <1>1 DEF TakeResumed, Still
<1>5. PICK r1 : r1 = [gen[g] EXCEPT !.pc = "reading"]
  OBVIOUS
<1>6. /\ r1 \in GenType /\ r1.pc = "reading" /\ r1.conn = gen[g].conn /\ r1.resume = gen[g].resume
      /\ r1.resumed = gen[g].resumed /\ r1.stage = gen[g].stage /\ r1.over = gen[g].over
  BY <1>3, <1>5 DEF GenType, Live
<1>7. PICK r : r = [r1 EXCEPT !.resumed = @ \/ Current(g)]
  OBVIOUS
<1>8. /\ r \in GenType /\ r.pc = "reading" /\ r.conn = gen[g].conn /\ r.resume = gen[g].resume
      /\ r.stage = gen[g].stage /\ r.over = gen[g].over
      /\ r.resumed <=> gen[g].resumed \/ Current(g)
  <2>1. (gen[g].resumed \/ Current(g)) \in BOOLEAN
    OBVIOUS
  <2>2. PICK v \in BOOLEAN : v = (gen[g].resumed \/ Current(g))
    BY <2>1
  <2>3. r = [r1 EXCEPT !.resumed = v]
    BY <1>6, <1>7, <2>2
  <2>4. r \in GenType /\ r.pc = "reading" /\ r.conn = gen[g].conn /\ r.resume = gen[g].resume
        /\ r.stage = gen[g].stage /\ r.over = gen[g].over /\ r.resumed = v
    BY <1>6, <2>3 DEF GenType
  <2> QED
    BY <2>2, <2>4
<1>9. gen' = [gen EXCEPT ![g] = r]
  <2>1. PICK gen1 : gen1 = [gen EXCEPT ![g].pc = "reading"]
    OBVIOUS
  <2>2. gen1 = [gen EXCEPT ![g] = r1]
    BY <1>5, <2>1
  <2>3. gen' = [gen1 EXCEPT ![g].resumed = @ \/ Current(g)]
    BY <1>4, <2>1
  <2>4. gen1[g] = r1
    BY <2>2 DEF Types
  <2>5. gen' = [gen1 EXCEPT ![g] = r]
    BY <1>7, <2>3, <2>4
  <2> QED
    BY <2>2, <2>5 DEF Types
<1>10. gen' \in [Gens -> GenType] /\ gen'[g] = r /\ \A h \in Gens : h # g => gen'[h] = gen[h]
  BY <1>8, <1>9, GenUpdate
<1>11. \A h \in Gens : /\ gen'[h].conn = gen[h].conn /\ gen'[h].resume = gen[h].resume
                       /\ gen[h].pc = "none" => gen'[h].pc = "none"
  BY <1>4, <1>8, <1>10
<1>12. /\ conn' \in [Conns -> ConnType]
       /\ conn'[c].ready <=> conn[c].ready \/ Current(g)
       /\ \A d \in Conns : /\ d # c => conn'[d].ready = conn[d].ready
                           /\ conn'[d].ws = conn[d].ws /\ conn'[d].udp = conn[d].udp
                           /\ conn'[d].channel = conn[d].channel /\ conn'[d].key = conn[d].key
                           /\ conn'[d].reconnecting = conn[d].reconnecting
  <2>1. CASE Current(g)
    <3>1. conn' = [conn EXCEPT ![c].ready = TRUE, ![c].attempts = 0]
      BY <1>4, <2>1
    <3>2. PICK q1 : q1 = [conn[c] EXCEPT !.ready = TRUE]
      OBVIOUS
    <3>3. /\ q1 \in ConnType /\ q1.ready = TRUE /\ q1.ws = conn[c].ws
          /\ q1.udp = conn[c].udp /\ q1.channel = conn[c].channel
          /\ q1.key = conn[c].key /\ q1.reconnecting = conn[c].reconnecting
      BY <1>3, <3>2 DEF ConnType
    <3>4. PICK q : q = [q1 EXCEPT !.attempts = 0]
      OBVIOUS
    <3>5. /\ q \in ConnType /\ q.ready = TRUE /\ q.ws = conn[c].ws
          /\ q.udp = conn[c].udp /\ q.channel = conn[c].channel
          /\ q.key = conn[c].key /\ q.reconnecting = conn[c].reconnecting
      BY <3>3, <3>4 DEF ConnType
    <3>6. conn' = [conn EXCEPT ![c] = q]
      <4>1. PICK c1 : c1 = [conn EXCEPT ![c].ready = TRUE]
        OBVIOUS
      <4>2. c1 = [conn EXCEPT ![c] = q1]
        BY <3>2, <4>1
      <4>3. conn' = [c1 EXCEPT ![c].attempts = 0]
        BY <3>1, <4>1
      <4>4. c1[c] = q1
        BY <4>2 DEF Types
      <4>5. conn' = [c1 EXCEPT ![c] = q]
        BY <3>4, <4>3, <4>4
      <4> QED
        BY <4>2, <4>5 DEF Types
    <3>7. conn' \in [Conns -> ConnType] /\ conn'[c] = q
          /\ \A d \in Conns : d # c => conn'[d] = conn[d]
      BY <3>5, <3>6, ConnUpdate
    <3> QED
      BY <2>1, <3>5, <3>7
  <2>2. CASE ~Current(g)
    <3>1. conn' = conn
      BY <1>4, <2>2
    <3> QED
      BY <2>2, <3>1 DEF Types
  <2> QED
    BY <2>1, <2>2
<1>13. Types'
  BY <1>4, <1>10, <1>12 DEF Types, Still
<1>14. Marked' /\ Links'
  BY <1>4, <1>11, <1>12, HeardLinks
<1>15. Moves(g, "reading", gen[g].stage)
  BY <1>8, <1>10, <1>11 DEF Moves
<1> QED
  BY <1>1, <1>4, <1>8, <1>10, <1>12, <1>13, <1>14, <1>15

\* The websocket is installed.
LEMMA InstallEffect ==
  ASSUME Types, Marked, Links, \A k \in Gens : Stage(k), NEW o \in Openers, Install(o),
         opened' # opened
  PROVE  \E c \in Conns, g \in Gens :
         /\ Types' /\ Marked' /\ Links'
         /\ UNCHANGED <<loop, user, guild, made, due, news, spent>>
         /\ opener[o].pc = "dial" /\ opener[o].conn = c /\ g = opened + 1
         /\ gen[g].conn = None /\ conn[c].ws = None
         /\ opener'[o].pc = "write" /\ opener'[o].gen = g /\ opener'[o].conn = c
         /\ \A q \in Openers : q # o => opener'[q] = opener[q]
         /\ gen'[g].conn = c /\ gen'[g].resume = opener[o].resume /\ gen'[g].pc = "none"
         /\ gen[g].pc = "none" /\ gen'[g].stage = "opened" /\ ~gen'[g].resumed
         /\ \A h \in Gens : /\ h # g => gen'[h] = gen[h]
                            /\ h > g => gen'[h].conn = None
         /\ conn'[c].ws = g
         /\ IF opener[o].resume
            THEN /\ conn'[c].channel = conn[c].channel
                 /\ ~conn[c].channel => "revived" \in faults'[c]
            ELSE conn'[c].channel
         /\ \A d \in Conns : /\ d # c => conn'[d].ws = conn[d].ws /\ conn'[d].channel = conn[d].channel
                             /\ conn'[d].ready = conn[d].ready /\ conn'[d].udp = conn[d].udp
                             /\ conn'[d].key = conn[d].key
                             /\ faults[d] \subseteq faults'[d]
<1> USE Bounds
<1>1. opener[o] \in OpenerType /\ opened \in Nat
  BY DEF Types
<1>2. opener[o].pc = "dial" /\ opener[o].conn # None
  BY DEF Install, Links
<1>3. PICK c \in Conns : c = opener[o].conn
  BY <1>1, <1>2 DEF OpenerType
<1>4. PICK g \in Gens : g = opened + 1
  BY DEF Install
<1>5. PICK b \in BOOLEAN : b = opener[o].resume
  BY <1>1 DEF OpenerType
<1>6. /\ conn[c].ws = None /\ g \in Gens /\ opened' = g /\ due' = due
      /\ conn' = [conn EXCEPT ![c].ws = g,
                              ![c].channel = b => @,
                              ![c].attempts = IF b THEN @ ELSE 0]
      /\ gen' = [gen EXCEPT ![g] = [@ EXCEPT !.conn = c, !.resume = b]]
      /\ opener' = [opener EXCEPT ![o].pc = "write", ![o].gen = g]
      /\ IF b /\ ~conn[c].channel THEN Blame(c, "revived") ELSE faults' = faults
      /\ UNCHANGED <<guild, made, loop, user, news, spent>>
  <2>1. /\ opener[o].pc = "dial"
        /\ IF conn[c].ws # None
           THEN OpenFails(o) /\ UNCHANGED <<conn, gen, opened>>
           ELSE /\ g \in Gens
                /\ opened' = g
                /\ conn' = [conn EXCEPT ![c].ws = g,
                                        ![c].channel = b => @,
                                        ![c].attempts = IF b THEN @ ELSE 0]
                /\ gen' = [gen EXCEPT ![g] = [@ EXCEPT !.conn = c, !.resume = b]]
                /\ opener' = [opener EXCEPT ![o].pc = "write", ![o].gen = g]
                /\ IF b /\ ~conn[c].channel
                   THEN Blame(c, "revived")
                   ELSE UNCHANGED faults
                /\ UNCHANGED due
        /\ UNCHANGED <<guild, made, loop, user, news, spent>>
    BY <1>3, <1>4, <1>5 DEF Install
  <2> QED
    BY <2>1
<1>7. gen[g].conn = None /\ gen[g].pc = "none" /\ gen[g].stage = "opened" /\ ~gen[g].resumed
  <2>1. gen[g].conn = None /\ ~gen[g].resume
    BY <1>1, <1>4, <1>6 DEF Links
  <2>2. Stage(g)
    BY <1>6
  <2> QED
    BY <2>1, <2>2 DEF Stage
<1>8. gen[g] \in GenType /\ conn[c] \in ConnType
  BY <1>6 DEF Types
<1>9. /\ gen' \in [Gens -> GenType]
      /\ gen'[g].conn = c /\ gen'[g].resume = b /\ gen'[g].pc = "none"
      /\ gen'[g].stage = "opened" /\ ~gen'[g].resumed
      /\ \A h \in Gens : h # g => gen'[h] = gen[h]
  <2>1. PICK r1 : r1 = [gen[g] EXCEPT !.conn = c]
    OBVIOUS
  <2>2. r1 \in GenType /\ r1.conn = c /\ r1.pc = "none" /\ r1.stage = "opened" /\ ~r1.resumed
    BY <1>7, <1>8, <2>1 DEF GenType
  <2>3. PICK r : r = [r1 EXCEPT !.resume = b]
    OBVIOUS
  <2>4. r \in GenType /\ r.conn = c /\ r.resume = b /\ r.pc = "none" /\ r.stage = "opened"
        /\ ~r.resumed
    BY <2>2, <2>3 DEF GenType
  <2>5. gen' = [gen EXCEPT ![g] = r]
    BY <1>6, <2>1, <2>3
  <2> QED
    BY <1>6, <2>4, <2>5, GenUpdate
<1>10. /\ opener' \in [Openers -> OpenerType]
       /\ opener'[o].pc = "write" /\ opener'[o].gen = g /\ opener'[o].conn = c /\ opener'[o].resume = b
       /\ \A q \in Openers : q # o => opener'[q] = opener[q]
  <2>1. PICK r1 : r1 = [opener[o] EXCEPT !.pc = "write"]
    OBVIOUS
  <2>2. r1 \in OpenerType /\ r1.pc = "write" /\ r1.conn = c /\ r1.resume = b
    BY <1>1, <1>3, <1>5, <2>1 DEF OpenerType
  <2>3. PICK r : r = [r1 EXCEPT !.gen = g]
    OBVIOUS
  <2>4. r \in OpenerType /\ r.pc = "write" /\ r.conn = c /\ r.resume = b /\ r.gen = g
    BY <1>6, <2>2, <2>3 DEF OpenerType
  <2>5. PICK op1 : op1 = [opener EXCEPT ![o].pc = "write"]
    OBVIOUS
  <2>6. op1 = [opener EXCEPT ![o] = r1]
    BY <2>1, <2>5
  <2>7. opener' = [op1 EXCEPT ![o].gen = g]
    BY <1>6, <2>5
  <2>8. op1[o] = r1
    BY <2>6 DEF Types
  <2>9. opener' = [op1 EXCEPT ![o] = r]
    BY <2>3, <2>7, <2>8
  <2>10. opener' = [opener EXCEPT ![o] = r]
    BY <2>6, <2>9 DEF Types
  <2> QED
    BY <2>4, <2>10 DEF Types
<1>11. /\ conn' \in [Conns -> ConnType] /\ conn'[c].ws = g
       /\ conn'[c].channel <=> (b => conn[c].channel)
       /\ conn'[c].ready = conn[c].ready /\ conn'[c].udp = conn[c].udp
       /\ conn'[c].key = conn[c].key /\ conn'[c].reconnecting = conn[c].reconnecting
       /\ \A d \in Conns : d # c => conn'[d] = conn[d]
  <2>1. PICK r1 : r1 = [conn[c] EXCEPT !.ws = g]
    OBVIOUS
  <2>2. /\ r1 \in ConnType /\ r1.ready = conn[c].ready /\ r1.ws = g
        /\ r1.udp = conn[c].udp /\ r1.channel = conn[c].channel
        /\ r1.key = conn[c].key /\ r1.reconnecting = conn[c].reconnecting
    BY <1>6, <1>8, <2>1 DEF ConnType
  <2>3. PICK v \in BOOLEAN : v = (b => conn[c].channel)
    OBVIOUS
  <2>4. PICK r2 : r2 = [r1 EXCEPT !.channel = v]
    OBVIOUS
  <2>5. /\ r2 \in ConnType /\ r2.ready = conn[c].ready /\ r2.ws = g
        /\ r2.udp = conn[c].udp /\ r2.channel = v
        /\ r2.key = conn[c].key /\ r2.reconnecting = conn[c].reconnecting
    BY <2>2, <2>4 DEF ConnType
  <2>6. PICK n : n = IF b THEN r2.attempts ELSE 0
    OBVIOUS
  <2>7. PICK r : r = [r2 EXCEPT !.attempts = n]
    OBVIOUS
  <2>8. n \in 0 .. 1
    BY <2>5, <2>6 DEF ConnType
  <2>9. /\ r \in ConnType /\ r.ready = conn[c].ready /\ r.ws = g
        /\ r.udp = conn[c].udp /\ r.channel = v
        /\ r.key = conn[c].key /\ r.reconnecting = conn[c].reconnecting
    BY <2>5, <2>7, <2>8 DEF ConnType
  <2>10. conn' = [conn EXCEPT ![c] = r]
    <3>1. PICK c1 : c1 = [conn EXCEPT ![c].ws = g]
      OBVIOUS
    <3>2. PICK c2 : c2 = [c1 EXCEPT ![c].channel = b => @]
      OBVIOUS
    <3>3. conn' = [c2 EXCEPT ![c].attempts = IF b THEN @ ELSE 0]
      BY <1>6, <3>1, <3>2
    <3>4. c1 = [conn EXCEPT ![c] = r1]
      BY <2>1, <3>1
    <3>5. c1[c] = r1
      BY <3>4 DEF Types
    <3>6. c2 = [c1 EXCEPT ![c].channel = v]
      BY <2>2, <2>3, <3>2, <3>5
    <3>7. c2 = [c1 EXCEPT ![c] = r2]
      BY <2>4, <3>5, <3>6
    <3>8. c2 = [conn EXCEPT ![c] = r2]
      BY <3>4, <3>7 DEF Types
    <3>9. c2[c] = r2
      BY <3>8 DEF Types
    <3>10. conn' = [c2 EXCEPT ![c].attempts = n]
      BY <2>6, <3>3, <3>9
    <3>11. conn' = [c2 EXCEPT ![c] = r]
      BY <2>7, <3>9, <3>10
    <3> QED
      BY <3>8, <3>11 DEF Types
  <2>11. conn' \in [Conns -> ConnType] /\ conn'[c] = r
         /\ \A d \in Conns : d # c => conn'[d] = conn[d]
    BY <2>9, <2>10, ConnUpdate
  <2> QED
    BY <2>3, <2>9, <2>11
<1>12. /\ faults' \in [Conns -> SUBSET Faults] /\ \A d \in Conns : faults[d] \subseteq faults'[d]
       /\ b /\ ~conn[c].channel => "revived" \in faults'[c]
  <2>1. (b /\ ~conn[c].channel => Blame(c, "revived"))
        /\ (~(b /\ ~conn[c].channel) => faults' = faults)
    BY <1>6
  <2>2. "revived" \in Faults
    BY DEF Faults
  <2> QED
    BY <2>1, <2>2, BlameEffect
<1>13. opened' \in 0 .. MaxGens
  BY <1>6 DEF Gens
<1>14. Types'
  BY <1>6, <1>9, <1>10, <1>11, <1>12, <1>13 DEF Types
<1>15. Marked'
  BY <1>6, <1>11 DEF Marked
<1>16. /\ \A h \in Gens : h > g => gen'[h].conn = None
       /\ (\A h \in Gens : gen[h].conn = None <=> h > opened)'
       /\ (\A h \in Gens : h > opened => ~gen[h].resume)'
  <2>1. ASSUME NEW h \in Gens
        PROVE  /\ h > g => gen'[h].conn = None
               /\ gen'[h].conn = None <=> h > g
               /\ h > g => ~gen'[h].resume
    <3>1. CASE h = g
      <4>1. ~(h > g) /\ gen'[h].conn = c /\ c # None
        BY <1>9, <3>1 DEF None
      <4> QED
        BY <4>1
    <3>2. CASE h # g
      <4>1. gen'[h] = gen[h] /\ (h > g <=> h > opened)
        BY <1>1, <1>4, <1>9, <3>2
      <4> QED
        BY <1>1, <1>4, <4>1 DEF Links
    <3> QED
      BY <3>1, <3>2
  <2> QED
    BY <1>6, <2>1
<1>17. ASSUME NEW q \in Openers
       PROVE  /\ opener'[q].pc # "idle" => opener'[q].conn # None
              /\ opener'[q].pc = "write" =>
                    /\ opener'[q].gen # None /\ opener'[q].gen <= opened'
                    /\ gen'[opener'[q].gen].conn = opener'[q].conn
                    /\ gen'[opener'[q].gen].resume = opener'[q].resume
                    /\ gen'[opener'[q].gen].pc = "none"
              /\ q # o /\ opener'[q].pc = "write" => opener'[q].gen # g
  <2>1. CASE q = o
    <3>1. g <= opened' /\ g # None /\ c # None
      BY <1>6 DEF None
    <3> QED
      BY <1>9, <1>10, <2>1, <3>1
  <2>2. CASE q # o
    <3>1. opener'[q] = opener[q] /\ opener[q] \in OpenerType
      BY <1>10, <2>2 DEF Types
    <3>2. /\ opener[q].pc # "idle" => opener[q].conn # None
          /\ opener[q].pc = "write" =>
                /\ opener[q].gen \in Gens /\ opener[q].gen <= opened
                /\ gen[opener[q].gen].conn = opener[q].conn
                /\ gen[opener[q].gen].resume = opener[q].resume
                /\ gen[opener[q].gen].pc = "none"
      BY <3>1 DEF Links, OpenerType
    <3>3. opener[q].pc = "write" => opener[q].gen # g /\ opener[q].gen <= g
      <4>1. SUFFICES ASSUME opener[q].pc = "write" PROVE opener[q].gen # g /\ opener[q].gen <= g
        OBVIOUS
      <4>2. opener[q].gen \in Nat /\ opener[q].gen <= opened
        BY <3>2, <4>1
      <4> QED
        BY <1>1, <1>4, <4>2
    <3>4. opener[q].pc = "write" => gen'[opener[q].gen] = gen[opener[q].gen]
      BY <1>9, <3>2, <3>3
    <3>5. opener[q].pc = "write" => opener[q].gen # None
      BY <3>2 DEF None
    <3> QED
      BY <1>6, <3>1, <3>2, <3>3, <3>4, <3>5
  <2> QED
    BY <2>1, <2>2
<1>18. Links'
  <2>1. (\A p, q \in Openers : p # q /\ opener[p].pc = "write" /\ opener[q].pc = "write"
                                => opener[p].gen # opener[q].gen)'
    <3>1. SUFFICES ASSUME NEW p \in Openers, NEW q \in Openers, p # q, opener'[p].pc = "write",
                          opener'[q].pc = "write"
                   PROVE  opener'[p].gen # opener'[q].gen
      OBVIOUS
    <3>2. CASE p = o
      BY <1>10, <1>17, <3>1, <3>2
    <3>3. CASE q = o
      BY <1>10, <1>17, <3>1, <3>3
    <3>4. CASE p # o /\ q # o
      BY <1>10, <3>1, <3>4 DEF Links
    <3> QED
      BY <3>2, <3>3, <3>4
  <2>2. (\A d \in Conns : loop[d].pc = "wait" => loop[d].target # None)'
        /\ (user.pc # "idle" => user.handle # None)'
        /\ (user.pc \in {"close", "delete"} => ~user.wants)'
    BY <1>6 DEF Links
  <2> QED
    BY <1>16, <1>17, <2>1, <2>2 DEF Links
<1> WITNESS c \in Conns, g \in Gens
<1>19. IF opener[o].resume
       THEN /\ conn'[c].channel = conn[c].channel
            /\ ~conn[c].channel => "revived" \in faults'[c]
       ELSE conn'[c].channel
  <2>1. conn'[c].channel \in BOOLEAN /\ conn[c].channel \in BOOLEAN
    BY <1>11 DEF Types, ConnType
  <2> QED
    BY <1>5, <1>11, <1>12, <2>1
<1>20. \A d \in Conns : /\ d # c => conn'[d].ws = conn[d].ws /\ conn'[d].channel = conn[d].channel
                        /\ conn'[d].ready = conn[d].ready /\ conn'[d].udp = conn[d].udp
                        /\ conn'[d].key = conn[d].key
                        /\ faults[d] \subseteq faults'[d]
  BY <1>11, <1>12
<1> QED
  BY <1>2, <1>3, <1>4, <1>5, <1>6, <1>7, <1>9, <1>10, <1>11, <1>14, <1>15, <1>16, <1>18, <1>19, <1>20

\* A call of openVoiceWebsocket that has installed its websocket ends, and the others go on.
LEMMA WriterLinks ==
  ASSUME Types, Links, NEW o \in Openers, opener'[o].pc = "idle", opened' = opened, loop' = loop,
         user' = user,
         \A q \in Openers : q # o => opener'[q] = opener[q],
         \A h \in Gens : /\ gen'[h].conn = gen[h].conn /\ gen'[h].resume = gen[h].resume
                         /\ (h # opener[o].gen) => gen'[h] = gen[h],
         opener[o].pc = "write"
  PROVE  Links'
<1>1. (\A g \in Gens : gen[g].conn = None <=> g > opened)'
      /\ (\A g \in Gens : g > opened => ~gen[g].resume)'
      /\ (\A d \in Conns : loop[d].pc = "wait" => loop[d].target # None)'
      /\ (user.pc # "idle" => user.handle # None)'
      /\ (user.pc \in {"close", "delete"} => ~user.wants)'
  BY DEF Links
<1>2. ASSUME NEW q \in Openers
      PROVE  /\ opener'[q].pc # "idle" => opener'[q].conn # None
             /\ opener'[q].pc = "write" =>
                   /\ opener'[q].gen # None /\ opener'[q].gen <= opened'
                   /\ gen'[opener'[q].gen].conn = opener'[q].conn
                   /\ gen'[opener'[q].gen].resume = opener'[q].resume
                   /\ gen'[opener'[q].gen].pc = "none"
  <2>1. CASE q = o
    BY <2>1
  <2>2. CASE q # o
    <3>1. opener'[q] = opener[q] /\ opener[q] \in OpenerType
      BY <2>2 DEF Types
    <3>2. /\ opener[q].pc # "idle" => opener[q].conn # None
          /\ opener[q].pc = "write" =>
                /\ opener[q].gen \in Gens /\ opener[q].gen # None /\ opener[q].gen <= opened
                /\ gen[opener[q].gen].conn = opener[q].conn
                /\ gen[opener[q].gen].resume = opener[q].resume
                /\ gen[opener[q].gen].pc = "none" /\ opener[q].gen # opener[o].gen
      BY <2>2, <3>1 DEF Links, OpenerType
    <3> QED
      BY <3>1, <3>2
  <2> QED
    BY <2>1, <2>2
<1>3. (\A p, q \in Openers : p # q /\ opener[p].pc = "write" /\ opener[q].pc = "write"
                                => opener[p].gen # opener[q].gen)'
  BY DEF Links
<1> QED
  BY <1>1, <1>2, <1>3 DEF Links

LEMMA StartEffect ==
  ASSUME Types, Marked, Links, \A k \in Gens : Stage(k), NEW o \in Openers, Start(o)
  PROVE  \E g \in Gens :
         /\ Types' /\ Marked' /\ Links'
         /\ UNCHANGED <<conn, guild, made, opened, due, loop, user, news, spent, faults>>
         /\ opener[o].pc = "write" /\ opener[o].gen = g /\ opener[o].conn = gen[g].conn
         /\ gen[g].pc = "none" /\ gen[g].conn # None
         /\ opener'[o] = Idle /\ \A q \in Openers : q # o => opener'[q] = opener[q]
         /\ Moves(g, "reading", gen[g].stage)
         /\ gen'[g].over = gen[g].over /\ gen'[g].resumed = gen[g].resumed
<1>1. opener[o] \in OpenerType /\ Idle \in OpenerType /\ Idle.pc = "idle"
  BY DEF Types, OpenerType, Idle
<1>2. opener[o].pc = "write"
  BY DEF Start
<1>3. PICK g \in Gens : g = opener[o].gen
  BY <1>1, <1>2 DEF Links, OpenerType
<1>4. /\ Goto(g, "reading") /\ opener' = [opener EXCEPT ![o] = Idle]
      /\ UNCHANGED <<conn, guild, made, opened, due, loop, user, news, spent, faults>>
  BY <1>3 DEF Start
<1>5. gen[g].pc = "none" /\ gen[g].conn = opener[o].conn /\ gen[g].conn # None
  BY <1>2, <1>3 DEF Links
<1>6. /\ opener' \in [Openers -> OpenerType] /\ opener'[o] = Idle
      /\ \A q \in Openers : q # o => opener'[q] = opener[q]
  BY <1>1, <1>4 DEF Types
<1>7. /\ gen' \in [Gens -> GenType] /\ gen'[g].pc = "reading"
      /\ \A h \in Gens : h # g => gen'[h] = gen[h]
      /\ gen'[g].conn = gen[g].conn /\ gen'[g].resume = gen[g].resume
      /\ gen'[g].resumed = gen[g].resumed /\ gen'[g].over = gen[g].over
      /\ gen'[g].stage = gen[g].stage
  <2>1. "reading" \in {"none"} \union Live \union Ended
    BY DEF Live
  <2> QED
    BY <1>4, <2>1, GotoEffect
<1>8. Types' /\ Marked'
  BY <1>4, <1>6, <1>7 DEF Types, Marked
<1>9. \A h \in Gens : gen'[h].conn = gen[h].conn /\ gen'[h].resume = gen[h].resume
  BY <1>7
<1>10. Links'
  BY <1>1, <1>2, <1>3, <1>4, <1>6, <1>7, <1>9, WriterLinks
<1> WITNESS g \in Gens
<1> QED
  BY <1>2, <1>3, <1>4, <1>5, <1>6, <1>7, <1>8, <1>9, <1>10 DEF Moves

LEMMA WriteFailsEffect ==
  ASSUME Types, Marked, Links, \A k \in Gens : Stage(k), NEW o \in Openers, WriteFails(o)
  PROVE  \E g \in Gens :
         /\ Types' /\ Marked' /\ Links'
         /\ UNCHANGED <<guild, made, gen, opened, loop, user, news, spent>>
         /\ opener[o].pc = "write" /\ opener[o].gen = g /\ opener[o].conn = gen[g].conn
         /\ gen[g].pc = "none" /\ gen[g].conn # None
         /\ opener'[o] = Idle /\ \A q \in Openers : q # o => opener'[q] = opener[q]
         /\ \A d \in Conns : /\ conn'[d].ws = IF conn[d].ws = g /\ gen[g].conn = d
                                              THEN None ELSE conn[d].ws
                             /\ conn'[d].ready = conn[d].ready /\ conn'[d].udp = conn[d].udp
                             /\ conn'[d].channel = conn[d].channel /\ conn'[d].key = conn[d].key
                             /\ faults[d] \subseteq faults'[d] /\ due[d] <= due'[d]
         /\ due'[gen[g].conn] > 0 \/ "notOpened" \in faults'[gen[g].conn]
<1>1. opener[o] \in OpenerType /\ Idle.pc = "idle"
  BY DEF Types, OpenerType, Idle
<1>2. opener[o].pc = "write"
  BY DEF WriteFails
<1>3. PICK g \in Gens : g = opener[o].gen
  BY <1>1, <1>2 DEF Links, OpenerType
<1>4. gen[g].pc = "none" /\ gen[g].conn = opener[o].conn /\ gen[g].conn # None
  BY <1>2, <1>3 DEF Links
<1>5. PICK c \in Conns : c = gen[g].conn
  BY <1>4 DEF Types, GenType
<1>6. /\ conn' = IF Current(g) THEN [conn EXCEPT ![c] = Detached(@)] ELSE conn
      /\ OpenFails(o) /\ UNCHANGED <<guild, made, gen, opened, loop, user, news, spent>>
  BY <1>3, <1>5 DEF WriteFails
<1>7. Current(g) <=> conn[c].ws = g
  BY <1>4, <1>5 DEF Current
<1>8. /\ opener' \in [Openers -> OpenerType] /\ opener'[o] = Idle
      /\ \A q \in Openers : q # o => opener'[q] = opener[q]
      /\ due' \in [Conns -> Nat] /\ faults' \in [Conns -> SUBSET Faults]
      /\ \A d \in Conns : faults[d] \subseteq faults'[d] /\ due[d] <= due'[d]
      /\ opener[o].resume => due'[opener[o].conn] > 0
      /\ ~opener[o].resume => "notOpened" \in faults'[opener[o].conn]
  BY <1>4, <1>6, OpenFailsEffect
<1>9. /\ conn' \in [Conns -> ConnType]
      /\ \A d \in Conns : /\ conn'[d].ws = IF conn[d].ws = g /\ c = d THEN None ELSE conn[d].ws
                          /\ conn'[d].ready = conn[d].ready /\ conn'[d].udp = conn[d].udp
                          /\ conn'[d].channel = conn[d].channel /\ conn'[d].key = conn[d].key
                          /\ conn'[d].reconnecting = conn[d].reconnecting
  <2>1. CASE Current(g)
    <3>1. PICK r : r = [conn[c] EXCEPT !.ws = None]
      OBVIOUS
    <3>2. conn[c] \in ConnType
      BY DEF Types
    <3>3. /\ r \in ConnType /\ r.ready = conn[c].ready /\ r.ws = None
          /\ r.udp = conn[c].udp /\ r.channel = conn[c].channel
          /\ r.key = conn[c].key /\ r.reconnecting = conn[c].reconnecting
      BY <3>1, <3>2 DEF ConnType
    <3>4. conn' = [conn EXCEPT ![c] = r]
      BY <1>6, <2>1, <3>1 DEF Detached
    <3>5. conn' \in [Conns -> ConnType] /\ conn'[c] = r
          /\ \A d \in Conns : d # c => conn'[d] = conn[d]
      BY <3>3, <3>4, ConnUpdate
    <3> QED
      BY <1>7, <2>1, <3>3, <3>5
  <2>2. CASE ~Current(g)
    <3>1. conn' = conn
      BY <1>6, <2>2
    <3> QED
      BY <1>7, <2>2, <3>1 DEF Types
  <2> QED
    BY <2>1, <2>2
<1>10. Types' /\ Marked'
  BY <1>6, <1>8, <1>9 DEF Types, Marked
<1>11. Links'
  BY <1>1, <1>2, <1>6, <1>8, WriterLinks
<1> WITNESS g \in Gens
<1>12. due'[gen[g].conn] > 0 \/ "notOpened" \in faults'[gen[g].conn]
  BY <1>4, <1>8
<1>13. \A d \in Conns : /\ conn'[d].ws = IF conn[d].ws = g /\ gen[g].conn = d
                                         THEN None ELSE conn[d].ws
                        /\ conn'[d].ready = conn[d].ready /\ conn'[d].udp = conn[d].udp
                        /\ conn'[d].channel = conn[d].channel /\ conn'[d].key = conn[d].key
                        /\ faults[d] \subseteq faults'[d] /\ due[d] <= due'[d]
  BY <1>5, <1>8, <1>9
<1> QED
  BY <1>2, <1>3, <1>4, <1>6, <1>8, <1>10, <1>11, <1>12, <1>13

-----------------------------------------------------------------------------
(* The steps that change the transport keep TransportInv.                           *)

Lineage == \A h \in Gens : gen'[h].conn = gen[h].conn /\ gen'[h].resume = gen[h].resume

LEMMA LineageSessions ==
  ASSUME Types, Lineage
  PROVE  \A c \in Conns, h \in Gens : Session(c, h)' <=> Session(c, h)
  BY SessionSame DEF Lineage, SameSessions

\* The websocket of an object a step does not touch.
LEMMA WsKept ==
  ASSUME Types, TransportInv, Lineage, NEW c \in Conns,
         conn'[c].ws = conn[c].ws, conn'[c].channel = conn[c].channel,
         conn[c].ready => conn'[c].ready, faults[c] \subseteq faults'[c],
         \A h \in Gens : gen[h].stage = "served" => gen'[h].stage = "served",
         conn[c].ws # None =>
             /\ gen'[conn[c].ws] = gen[conn[c].ws]
             /\ \A o \in Openers : Writes(o, conn[c].ws) => Writes(o, conn[c].ws)'
  PROVE  WsInv(c)'
<1>1. SUFFICES ASSUME conn[c].ws # None PROVE WsInv(c)'
  BY DEF WsInv
<1>2. PICK g \in Gens : g = conn[c].ws
  BY <1>1 DEF Types, ConnType
<1>3. WsInv(c)
  BY DEF TransportInv
<1>4. (\E h \in Gens : Session(c, h) /\ gen[h].stage = "served")
         => (\E h \in Gens : Session(c, h) /\ gen[h].stage = "served")'
  BY LineageSessions
<1>5. gen'[g] = gen[g] /\ conn'[c].ws = g
      /\ ((\E o \in Openers : Writes(o, g)) => (\E o \in Openers : Writes(o, g)'))
  <2>1. \A o \in Openers : Writes(o, g) => Writes(o, g)'
    BY <1>1, <1>2 DEF Writes
  <2> QED
    BY <1>1, <1>2, <2>1
<1>6. /\ gen[g].conn = c /\ \A k \in Gens : k > g => gen[k].conn # c
      /\ gen[g].pc = "none" => \E o \in Openers : Writes(o, g)
      /\ gen[g].pc \notin Ended
      /\ ~gen[g].resume => conn[c].channel
      /\ gen[g].resume /\ ~conn[c].channel => "revived" \in faults[c]
      /\ gen[g].pc \in {"udp", "handshake"} => gen[g].over = g
      /\ gen[g].stage = "greeted" /\ gen[g].pc = "reading" => "noUDP" \in faults[c]
      /\ gen[g].resume /\ gen[g].stage = "served" =>
            \E h \in Gens : Session(c, h) /\ gen[h].stage = "served"
      /\ gen[g].resumed => conn[c].ready
  BY <1>1, <1>2, <1>3 DEF WsInv
<1> QED
  BY <1>4, <1>5, <1>6 DEF WsInv, Lineage

\* The UDP socket and the cipher.
LEMMA UdpKept ==
  ASSUME Types, TransportInv, Lineage, NEW c \in Conns,
         conn'[c].udp = conn[c].udp, conn'[c].key = conn[c].key, faults[c] \subseteq faults'[c],
         \A h \in Gens : /\ gen[h].stage = "served" => gen'[h].stage = "served"
                         /\ gen[h].stage # "opened" => gen'[h].stage # "opened",
         conn[c].udp # None => /\ gen'[conn[c].udp].pc \notin {"none", "ready", "udp"}
                               /\ gen'[conn[c].udp].over = gen[conn[c].udp].over,
         conn[c].key # None => gen'[conn[c].key].pc \notin {"none", "ready", "udp", "handshake"}
  PROVE  UdpInv(c)'
<1>1. UdpInv(c) /\ {conn[c].udp, conn[c].key} \subseteq Gens \union {None}
  BY DEF TransportInv, Types, ConnType
<1> QED
  BY <1>1 DEF UdpInv, Lineage

\* The websocket of an object, by name.
LEMMA WsFacts ==
  ASSUME Types, TransportInv, NEW c \in Conns, NEW g \in Gens, conn[c].ws = g
  PROVE  /\ gen[g].conn = c /\ \A k \in Gens : k > g => gen[k].conn # c
         /\ gen[g].pc = "none" => \E o \in Openers : Writes(o, g)
         /\ gen[g].pc \notin Ended
         /\ ~gen[g].resume => conn[c].channel
         /\ gen[g].resume /\ ~conn[c].channel => "revived" \in faults[c]
         /\ gen[g].pc \in {"udp", "handshake"} => gen[g].over = g
         /\ gen[g].stage = "greeted" /\ gen[g].pc = "reading" => "noUDP" \in faults[c]
         /\ gen[g].resume /\ gen[g].stage = "served" =>
               \E h \in Gens : Session(c, h) /\ gen[h].stage = "served"
         /\ gen[g].resumed => conn[c].ready
<1>1. WsInv(c) /\ g # None
  BY Bounds DEF TransportInv, None
<1> QED
  BY <1>1 DEF WsInv

LEMMA ReadTransport ==
  ASSUME Types, Marked, Links, TransportInv, NEW g \in Gens, Read(g)
  PROVE  TransportInv'
<1>1. /\ Still /\ conn' = conn /\ faults' = faults /\ gen[g].pc = "reading" /\ Current(g)
      /\ gen'[g].over = gen[g].over /\ gen'[g].resumed = gen[g].resumed
      /\ \/ /\ gen[g].resume /\ gen[g].stage = "opened" /\ Described(gen[g].conn)
            /\ Moves(g, "resumed", "served")
         \/ ~gen[g].resume /\ gen[g].stage = "opened" /\ Moves(g, "ready", "greeted")
         \/ ~gen[g].resume /\ gen[g].stage = "selected" /\ Moves(g, "key", "served")
  BY ReadEffect DEF TransportInv
<1>2. PICK c \in Conns : c = gen[g].conn /\ conn[c].ws = g
  BY <1>1, ListenerConn DEF TransportInv, Current
<1>3. Lineage /\ \A h \in Gens : h # g => gen'[h] = gen[h]
  BY <1>1 DEF Lineage, Moves
<1>4. \A d \in Conns, h \in Gens : Session(d, h)' <=> Session(d, h)
  BY <1>3, LineageSessions
<1>5. \A o \in Openers, h \in Gens : Writes(o, h)' <=> Writes(o, h)
  BY <1>1 DEF Still, Writes
<1>6. /\ gen'[g].pc \in {"resumed", "ready", "key"}
      /\ gen'[g].pc = "resumed" => gen[g].resume /\ gen[g].stage = "opened" /\ gen'[g].stage = "served"
                                   /\ Described(c)
      /\ gen'[g].pc = "ready" => ~gen[g].resume /\ gen[g].stage = "opened" /\ gen'[g].stage = "greeted"
      /\ gen'[g].pc = "key" => ~gen[g].resume /\ gen[g].stage = "selected" /\ gen'[g].stage = "served"
  BY <1>1, <1>2 DEF Moves
<1>7. \A h \in Gens : /\ gen[h].stage = "served" => gen'[h].stage = "served"
                      /\ gen[h].stage # "opened" => gen'[h].stage # "opened"
  BY <1>3, <1>6
<1>8. /\ Stage(g) /\ \A k \in Gens : k > g => gen[k].conn # c
      /\ (~gen[g].resume => conn[c].channel)
      /\ (gen[g].resume /\ ~conn[c].channel => "revived" \in faults[c])
  BY <1>2, WsFacts DEF TransportInv
<1>9. ASSUME NEW h \in Gens
      PROVE  Stage(h)'
  <2>1. Stage(h) /\ gen[h].over \in Gens \union {None}
    BY DEF TransportInv, Types, GenType
  <2>2. CASE h = g
    BY <1>1, <1>2, <1>3, <1>6, <1>8, <2>2 DEF Stage, Lineage
  <2>3. CASE h # g
    BY <1>3, <2>1, <2>3 DEF Stage, Lineage
  <2> QED
    BY <2>2, <2>3
<1>10. ASSUME NEW d \in Conns
       PROVE  WsInv(d)'
  <2>1. CASE d = c
    <3>1. conn'[c].ws = g /\ gen'[g].conn = c /\ gen'[g].resume = gen[g].resume
          /\ \A k \in Gens : k > g => gen'[k].conn # c
      BY <1>1, <1>2, <1>3, <1>8 DEF Lineage
    <3>2. gen'[g].resume /\ gen'[g].stage = "served" =>
              (\E h \in Gens : Session(c, h) /\ gen[h].stage = "served")'
      <4>1. SUFFICES ASSUME gen[g].resume PROVE (\E h \in Gens : Session(c, h) /\ gen[h].stage = "served")'
        BY <3>1
      <4>2. PICK h \in Gens : Session(c, h) /\ gen[h].stage = "served"
        BY <1>6, <4>1 DEF Described
      <4> QED
        BY <1>4, <1>7, <4>2
    <3>3. ~gen'[g].resumed
      BY <1>1, <1>6, <1>8 DEF Stage
    <3>4. gen'[g].pc \notin Ended \union {"none", "udp", "handshake", "reading"}
      BY <1>6 DEF Ended
    <3>5. gen'[g].resume => gen'[g].pc = "resumed"
      BY <1>6, <3>1
    <3>6. (~gen'[g].resume => conn'[c].channel)
          /\ (gen'[g].resume /\ ~conn'[c].channel => "revived" \in faults'[c])
      BY <1>1, <1>2, <1>8, <3>1
    <3> QED
      BY <2>1, <3>1, <3>2, <3>3, <3>4, <3>5, <3>6 DEF WsInv
  <2>2. CASE d # c
    <3>1. conn[d].ws # None => conn[d].ws # g /\ conn[d].ws \in Gens
      BY <1>2, <2>2 DEF TransportInv, WsInv, Types, ConnType
    <3>2. \A o \in Openers : Writes(o, conn[d].ws) => Writes(o, conn[d].ws)'
      BY <1>1 DEF Writes, Still
    <3> QED
      BY <1>1, <1>3, <1>7, <3>1, <3>2, WsKept
  <2> QED
    BY <2>1, <2>2
<1>11. ASSUME NEW d \in Conns
       PROVE  UdpInv(d)'
  <2>1. UdpInv(d) /\ {conn[d].udp, conn[d].key} \subseteq Gens \union {None}
    BY DEF TransportInv, Types, ConnType
  <2>2. conn[d].key # None => conn[d].key # g
    BY <1>6, <2>1 DEF UdpInv
  <2>3. conn[d].udp # None => /\ gen'[conn[d].udp].pc \notin {"none", "ready", "udp"}
                              /\ gen'[conn[d].udp].over = gen[conn[d].udp].over
    <3>1. CASE conn[d].udp = g
      BY <1>1, <1>6, <2>1, <3>1 DEF UdpInv
    <3>2. CASE conn[d].udp # g
      BY <1>3, <2>1, <3>2 DEF UdpInv
    <3> QED
      BY <3>1, <3>2
  <2>4. conn[d].key # None => gen'[conn[d].key].pc \notin {"none", "ready", "udp", "handshake"}
    BY <1>3, <2>1, <2>2 DEF UdpInv
  <2> QED
    BY <1>1, <1>3, <1>7, <2>3, <2>4, UdpKept
<1>12. ASSUME NEW d \in Conns
       PROVE  ReadyInv(d)'
  BY <1>1 DEF TransportInv, ReadyInv, Whole
<1>13. ASSUME NEW d \in Conns, NEW h \in Gens
       PROVE  SessionInv(d, h)'
  <2>1. SessionInv(d, h) /\ conn[d].udp \in Gens \union {None}
    BY DEF TransportInv, Types, ConnType
  <2>2. conn[d].udp # None => (gen[conn[d].udp].pc # "handshake" => gen'[conn[d].udp].pc # "handshake")
    BY <1>3, <1>6, <2>1
  <2>3. Whole(d)' <=> Whole(d)
    BY <1>1 DEF Whole
  <2>4. CASE h # g
    <3>1. gen'[h] = gen[h]
      BY <1>3, <2>4
    <3> QED
      BY <1>1, <1>4, <1>5, <2>1, <2>2, <2>3, <3>1 DEF SessionInv
  <2>5. CASE h = g
    <3>1. SUFFICES ASSUME conn[d].channel, Session(d, g) PROVE SessionInv(d, h)'
      BY <1>1, <1>4, <2>5 DEF SessionInv
    <3>2. d = c /\ ~gen[g].resume
      BY <1>2, <3>1 DEF Session
    <3>3. gen'[g].pc = "key" => gen[g].stage = "selected"
      BY <1>6
    <3>4. gen'[g].pc = "ready" => gen'[g].stage = "greeted"
      BY <1>6
    <3>5. gen'[g].pc \in {"ready", "key"}
      BY <1>6, <3>2
    <3> QED
      BY <1>1, <1>2, <1>4, <1>5, <2>1, <2>2, <2>3, <2>5, <3>1, <3>2, <3>3, <3>4, <3>5 DEF SessionInv
  <2> QED
    BY <2>4, <2>5
<1> QED
  BY <1>9, <1>10, <1>11, <1>12, <1>13 DEF TransportInv

LEMMA ListenEndsTransport ==
  ASSUME Types, Marked, Links, TransportInv, NEW g \in Gens, ListenEnds(g)
  PROVE  TransportInv'
<1>1. /\ Still /\ conn' = conn /\ faults' = faults /\ gen[g].pc = "reading" /\ ~Current(g)
      /\ Moves(g, "done", gen[g].stage)
      /\ gen'[g].over = gen[g].over /\ gen'[g].resumed = gen[g].resumed
  BY ListenEndsEffect DEF TransportInv
<1>2. PICK c \in Conns : c = gen[g].conn /\ c # None /\ conn[c].ws # g
  BY <1>1, ListenerConn DEF TransportInv, Current
<1>3. /\ Lineage /\ (\A h \in Gens : h # g => gen'[h] = gen[h])
      /\ gen'[g].pc = "done" /\ gen'[g].stage = gen[g].stage
  BY <1>1 DEF Lineage, Moves
<1>4. \A d \in Conns, h \in Gens : Session(d, h)' <=> Session(d, h)
  BY <1>3, LineageSessions
<1>5. \A o \in Openers, h \in Gens : Writes(o, h)' <=> Writes(o, h)
  BY <1>1 DEF Still, Writes
<1>6. \A h \in Gens : gen'[h].stage = gen[h].stage
  BY <1>3
<1>7. ASSUME NEW h \in Gens
      PROVE  Stage(h)'
  <2>1. Stage(h) /\ gen[h].over \in Gens \union {None}
    BY DEF TransportInv, Types, GenType
  <2>2. CASE h = g
    BY <1>1, <1>2, <1>3, <2>1, <2>2 DEF Stage, Lineage
  <2>3. CASE h # g
    BY <1>3, <2>1, <2>3 DEF Stage, Lineage
  <2> QED
    BY <2>2, <2>3
<1>8. ASSUME NEW d \in Conns
      PROVE  WsInv(d)'
  <2>1. conn[d].ws # g
    BY <1>2, WsFacts
  <2>2. conn[d].ws # None => gen'[conn[d].ws] = gen[conn[d].ws]
    BY <1>3, <2>1 DEF Types, ConnType
  <2>3. \A o \in Openers : Writes(o, conn[d].ws) => Writes(o, conn[d].ws)'
    BY <1>1 DEF Writes, Still
  <2> QED
    BY <1>1, <1>3, <1>6, <2>2, <2>3, WsKept
<1>9. ASSUME NEW d \in Conns
      PROVE  UdpInv(d)'
  <2>1. UdpInv(d) /\ {conn[d].udp, conn[d].key} \subseteq Gens \union {None}
    BY DEF TransportInv, Types, ConnType
  <2>2. conn[d].udp # None => /\ gen'[conn[d].udp].pc \notin {"none", "ready", "udp"}
                              /\ gen'[conn[d].udp].over = gen[conn[d].udp].over
    BY <1>1, <1>3, <2>1 DEF UdpInv
  <2>3. conn[d].key # None => gen'[conn[d].key].pc \notin {"none", "ready", "udp", "handshake"}
    BY <1>3, <2>1 DEF UdpInv
  <2> QED
    BY <1>1, <1>3, <1>6, <2>2, <2>3, UdpKept
<1>10. ASSUME NEW d \in Conns
       PROVE  ReadyInv(d)'
  BY <1>1 DEF TransportInv, ReadyInv, Whole
<1>11. ASSUME NEW d \in Conns, NEW h \in Gens
       PROVE  SessionInv(d, h)'
  <2>1. SessionInv(d, h) /\ conn[d].udp \in Gens \union {None}
    BY DEF TransportInv, Types, ConnType
  <2>2. conn[d].udp # None => (gen[conn[d].udp].pc # "handshake" => gen'[conn[d].udp].pc # "handshake")
    BY <1>3, <2>1
  <2>3. Whole(d)' <=> Whole(d)
    BY <1>1 DEF Whole
  <2>4. CASE h # g
    <3>1. gen'[h] = gen[h]
      BY <1>3, <2>4
    <3> QED
      BY <1>1, <1>4, <1>5, <2>1, <2>2, <2>3, <3>1 DEF SessionInv
  <2>5. CASE h = g
    <3>1. ~(conn[d].channel /\ Session(d, g))
      BY <1>1, <1>2, <2>1, <2>5 DEF SessionInv, Session, Live
    <3> QED
      BY <1>1, <1>4, <2>5, <3>1 DEF SessionInv
  <2> QED
    BY <2>4, <2>5
<1> QED
  BY <1>7, <1>8, <1>9, <1>10, <1>11 DEF TransportInv

LEMMA ReadFailsTransport ==
  ASSUME Types, Marked, Links, TransportInv, NEW g \in Gens, NEW class \in Classes,
         ReadFails(g, class)
  PROVE  TransportInv'
<1>1. PICK p \in Ended :
         /\ Still
         /\ faults' = faults /\ gen[g].pc = "reading" /\ Current(g) /\ p # "done"
         /\ Moves(g, p, gen[g].stage)
         /\ gen'[g].over = gen[g].over /\ gen'[g].resumed = gen[g].resumed
         /\ conn'[gen[g].conn].ws = None
         /\ \A d \in Conns : /\ d # gen[g].conn => conn'[d].ws = conn[d].ws
                             /\ conn'[d].ready = conn[d].ready /\ conn'[d].udp = conn[d].udp
                             /\ conn'[d].channel = conn[d].channel /\ conn'[d].key = conn[d].key
  BY ReadFailsEffect DEF TransportInv
<1>2. PICK c \in Conns : c = gen[g].conn /\ conn[c].ws = g
  BY <1>1, ListenerConn DEF TransportInv, Current
<1>3. /\ Lineage /\ (\A h \in Gens : h # g => gen'[h] = gen[h])
      /\ gen'[g].pc = p /\ gen'[g].stage = gen[g].stage
  BY <1>1 DEF Lineage, Moves
<1>4. \A d \in Conns, h \in Gens : Session(d, h)' <=> Session(d, h)
  BY <1>3, LineageSessions
<1>5. \A o \in Openers, h \in Gens : Writes(o, h)' <=> Writes(o, h)
  BY <1>1 DEF Still, Writes
<1>6. \A h \in Gens : gen'[h].stage = gen[h].stage
  BY <1>3
<1>7. p \notin Live \union {"none"}
  BY DEF Live, Ended
<1>8. ASSUME NEW h \in Gens
      PROVE  Stage(h)'
  <2>1. Stage(h) /\ gen[h].over \in Gens \union {None}
    BY DEF TransportInv, Types, GenType
  <2>2. CASE h = g
    BY <1>1, <1>2, <1>3, <1>7, <2>1, <2>2 DEF Stage, Lineage, Live
  <2>3. CASE h # g
    BY <1>3, <2>1, <2>3 DEF Stage, Lineage
  <2> QED
    BY <2>2, <2>3
<1>9. ASSUME NEW d \in Conns
      PROVE  WsInv(d)'
  <2>1. CASE d = c
    BY <1>1, <1>2, <2>1 DEF WsInv
  <2>2. CASE d # c
    <3>1. conn[d].ws # g
      BY <1>2, <2>2, WsFacts
    <3>2. conn[d].ws # None => gen'[conn[d].ws] = gen[conn[d].ws]
      BY <1>3, <3>1 DEF Types, ConnType
    <3>3. \A o \in Openers : Writes(o, conn[d].ws) => Writes(o, conn[d].ws)'
      <4>1. conn'[d].ws = conn[d].ws
        BY <1>1, <1>2, <2>2
      <4> QED
        BY <1>1, <4>1 DEF Writes, Still
    <3> QED
      BY <1>1, <1>2, <1>3, <1>6, <2>2, <3>2, <3>3, WsKept
  <2> QED
    BY <2>1, <2>2
<1>10. ASSUME NEW d \in Conns
       PROVE  UdpInv(d)'
  <2>1. UdpInv(d) /\ {conn[d].udp, conn[d].key} \subseteq Gens \union {None}
    BY DEF TransportInv, Types, ConnType
  <2>2. conn[d].udp # None => /\ gen'[conn[d].udp].pc \notin {"none", "ready", "udp"}
                              /\ gen'[conn[d].udp].over = gen[conn[d].udp].over
    BY <1>1, <1>3, <1>7, <2>1 DEF UdpInv, Live
  <2>3. conn[d].key # None => gen'[conn[d].key].pc \notin {"none", "ready", "udp", "handshake"}
    BY <1>3, <1>7, <2>1 DEF UdpInv, Live
  <2> QED
    BY <1>1, <1>3, <1>6, <2>2, <2>3, UdpKept
<1>11. ASSUME NEW d \in Conns
       PROVE  ReadyInv(d)'
  BY <1>1 DEF TransportInv, ReadyInv, Whole
<1>12. ASSUME NEW d \in Conns, NEW h \in Gens
       PROVE  SessionInv(d, h)'
  <2>1. SessionInv(d, h) /\ conn[d].udp \in Gens \union {None}
    BY DEF TransportInv, Types, ConnType
  <2>2. conn[d].udp # None => (gen[conn[d].udp].pc # "handshake" => gen'[conn[d].udp].pc # "handshake")
    BY <1>3, <1>7, <2>1 DEF Live
  <2>3. Whole(d)' <=> Whole(d)
    BY <1>1 DEF Whole
  <2>4. /\ conn'[d].udp = conn[d].udp /\ conn'[d].channel = conn[d].channel
        /\ conn'[d].ready = conn[d].ready /\ conn'[d].key = conn[d].key
        /\ faults'[d] = faults[d]
    BY <1>1
  <2>5. CASE h # g
    <3>1. gen'[h] = gen[h]
      BY <1>3, <2>5
    <3>2. d = c /\ conn[d].channel /\ Session(d, h) =>
              ~(gen[h].pc \in Live \/ (\E o \in Openers : Writes(o, h)))
      BY <1>2, <2>1, <2>5 DEF SessionInv
    <3>3. d # c => conn'[d].ws = conn[d].ws
      BY <1>1, <1>2
    <3> QED
      BY <1>4, <1>5, <2>1, <2>2, <2>3, <2>4, <3>1, <3>2, <3>3 DEF SessionInv
  <2>6. CASE h = g
    <3>1. gen'[g].pc \notin Live /\ gen'[g].pc \notin {"ready", "udp", "handshake", "key"}
          /\ gen[g].pc # "key"
      BY <1>1, <1>3, <1>7 DEF Live
    <3>2. ~\E o \in Openers : Writes(o, g)'
      BY <1>1, <1>5 DEF Writes, Links
    <3> QED
      BY <1>3, <1>4, <2>1, <2>2, <2>3, <2>4, <2>6, <3>1, <3>2 DEF SessionInv
  <2> QED
    BY <2>5, <2>6
<1> QED
  BY <1>8, <1>9, <1>10, <1>11, <1>12 DEF TransportInv

LEMMA OpenUDPTransport ==
  ASSUME Types, Marked, Links, TransportInv, NEW g \in Gens, OpenUDP(g)
  PROVE  TransportInv'
<1>1. /\ Still /\ conn' = conn /\ gen[g].pc = "ready" /\ gen'[g].resumed = gen[g].resumed
      /\ \A d \in Conns : faults[d] \subseteq faults'[d]
      /\ \/ /\ Moves(g, "reading", gen[g].stage) /\ gen'[g].over = gen[g].over
            /\ Current(g) => "noUDP" \in faults'[gen[g].conn]
         \/ /\ Moves(g, "udp", gen[g].stage) /\ gen'[g].over = conn[gen[g].conn].ws
            /\ conn[gen[g].conn].ws # None
  BY OpenUDPEffect DEF TransportInv
<1>2. PICK c \in Conns : c = gen[g].conn /\ c # None
  BY <1>1, ListenerConn DEF TransportInv
<1>3. /\ Lineage /\ (\A h \in Gens : h # g => gen'[h] = gen[h])
      /\ gen'[g].stage = gen[g].stage
      /\ \/ gen'[g].pc = "reading" /\ (conn[c].ws = g => "noUDP" \in faults'[c])
         \/ gen'[g].pc = "udp" /\ gen'[g].over = conn[c].ws /\ conn[c].ws # None
  BY <1>1, <1>2 DEF Lineage, Moves, Current
<1>4. \A d \in Conns, h \in Gens : Session(d, h)' <=> Session(d, h)
  BY <1>3, LineageSessions
<1>5. \A o \in Openers, h \in Gens : Writes(o, h)' <=> Writes(o, h)
  BY <1>1 DEF Still, Writes
<1>6. \A h \in Gens : gen'[h].stage = gen[h].stage
  BY <1>3
<1>7. Stage(g) /\ ~gen[g].resume /\ gen[g].stage # "opened"
  BY <1>1 DEF TransportInv, Stage
<1>8. ASSUME NEW h \in Gens
      PROVE  Stage(h)'
  <2>1. Stage(h) /\ gen[h].over \in Gens \union {None}
    BY DEF TransportInv, Types, GenType
  <2>2. CASE h = g
    <3>1. CASE gen'[g].pc = "reading"
      BY <1>1, <1>2, <1>3, <1>7, <2>2, <3>1 DEF Stage, Lineage
    <3>2. CASE gen'[g].pc = "udp"
      <4>1. gen'[g].over = conn[c].ws /\ conn[c].ws # None /\ conn[c].ws \in Gens
        BY <1>3, <3>2 DEF Types, ConnType
      <4>2. gen[conn[c].ws].conn = c
        BY <4>1, WsFacts
      <4> QED
        BY <1>1, <1>2, <1>3, <1>7, <2>2, <3>2, <4>1, <4>2 DEF Stage, Lineage
    <3> QED
      BY <1>3, <3>1, <3>2
  <2>3. CASE h # g
    BY <1>3, <2>1, <2>3 DEF Stage, Lineage
  <2> QED
    BY <2>2, <2>3
<1>9. ASSUME NEW d \in Conns
      PROVE  WsInv(d)'
  <2>1. CASE conn[d].ws = g
    <3>1. d = c /\ (\A k \in Gens : k > g => gen[k].conn # c) /\ conn[c].channel
          /\ (gen[g].resumed => conn[c].ready)
      BY <1>2, <1>7, <2>1, WsFacts
    <3>2. gen'[g].pc = "udp" \/ (gen'[g].pc = "reading" /\ "noUDP" \in faults'[c])
      BY <1>3, <2>1, <3>1
    <3>3. gen'[g].pc = "udp" => gen'[g].over = g
      BY <1>3, <2>1, <3>1
    <3>4. gen'[g].conn = c /\ ~gen'[g].resume /\ \A k \in Gens : k > g => gen'[k].conn # c
      BY <1>2, <1>3, <1>7, <3>1 DEF Lineage
    <3>5. gen'[g].pc \notin Ended
      BY <3>2 DEF Ended
    <3> QED
      BY <1>1, <2>1, <3>1, <3>2, <3>3, <3>4, <3>5 DEF WsInv
  <2>2. CASE conn[d].ws # g
    <3>2. conn[d].ws # None => gen'[conn[d].ws] = gen[conn[d].ws]
      BY <1>3, <2>2 DEF Types, ConnType
    <3>3. \A o \in Openers : Writes(o, conn[d].ws) => Writes(o, conn[d].ws)'
      BY <1>1 DEF Writes, Still
    <3> QED
      BY <1>1, <1>3, <1>6, <3>2, <3>3, WsKept
  <2> QED
    BY <2>1, <2>2
<1>10. ASSUME NEW d \in Conns
       PROVE  UdpInv(d)'
  <2>1. UdpInv(d) /\ {conn[d].udp, conn[d].key} \subseteq Gens \union {None}
    BY DEF TransportInv, Types, ConnType
  <2>2. conn[d].udp # None => /\ gen'[conn[d].udp].pc \notin {"none", "ready", "udp"}
                              /\ gen'[conn[d].udp].over = gen[conn[d].udp].over
    BY <1>1, <1>3, <2>1 DEF UdpInv
  <2>3. conn[d].key # None => gen'[conn[d].key].pc \notin {"none", "ready", "udp", "handshake"}
    BY <1>1, <1>3, <2>1 DEF UdpInv
  <2> QED
    BY <1>1, <1>3, <1>6, <2>2, <2>3, UdpKept
<1>11. ASSUME NEW d \in Conns
       PROVE  ReadyInv(d)'
  BY <1>1 DEF TransportInv, ReadyInv, Whole
<1>12. ASSUME NEW d \in Conns, NEW h \in Gens
       PROVE  SessionInv(d, h)'
  <2>1. SessionInv(d, h) /\ UdpInv(d) /\ conn[d].udp \in Gens \union {None}
    BY DEF TransportInv, Types, ConnType
  <2>2. conn[d].udp # None => (gen[conn[d].udp].pc # "handshake" => gen'[conn[d].udp].pc # "handshake")
    BY <1>3, <2>1
  <2>3. Whole(d)' => Whole(d)
    BY <1>1 DEF Whole
  <2>4. CASE h # g
    <3>1. gen'[h] = gen[h]
      BY <1>3, <2>4
    <3> QED
      BY <1>1, <1>4, <1>5, <2>1, <2>2, <2>3, <3>1 DEF SessionInv
  <2>5. CASE h = g
    <3>1. gen[g].pc \in Live /\ gen[g].pc # "key"
      BY <1>1 DEF Live
    <3>2. conn[d].udp # g
      BY <1>1, <2>1, Bounds DEF UdpInv, None
    <3> QED
      BY <1>1, <1>3, <1>4, <1>5, <2>1, <2>2, <2>3, <2>5, <3>1, <3>2 DEF SessionInv
  <2> QED
    BY <2>4, <2>5
<1> QED
  BY <1>8, <1>9, <1>10, <1>11, <1>12 DEF TransportInv

LEMMA InstallUDPTransport ==
  ASSUME Types, Marked, Links, TransportInv, NEW g \in Gens, InstallUDP(g)
  PROVE  TransportInv'
<1>1. /\ Still /\ gen[g].pc = "udp"
      /\ gen'[g].resumed = gen[g].resumed /\ gen'[g].over = gen[g].over
      /\ Moves(g, "handshake", gen[g].stage)
      /\ conn[gen[g].conn].ws = gen[g].over /\ conn[gen[g].conn].udp = None
      /\ \A d \in Conns : faults[d] \subseteq faults'[d]
      /\ ~Current(g) => "overtaken" \in faults'[gen[g].conn]
      /\ conn'[gen[g].conn].udp = g
      /\ \A d \in Conns : /\ d # gen[g].conn => conn'[d].udp = conn[d].udp
                          /\ conn'[d].ready = conn[d].ready /\ conn'[d].ws = conn[d].ws
                          /\ conn'[d].channel = conn[d].channel /\ conn'[d].key = conn[d].key
  BY InstallUDPEffect DEF TransportInv
<1>2. PICK c \in Conns : c = gen[g].conn /\ c # None
  BY <1>1, ListenerConn DEF TransportInv
<1>3. /\ Lineage /\ (\A h \in Gens : h # g => gen'[h] = gen[h])
      /\ gen'[g].stage = gen[g].stage /\ gen'[g].pc = "handshake"
  BY <1>1, <1>2 DEF Lineage, Moves
<1>4. \A d \in Conns, h \in Gens : Session(d, h)' <=> Session(d, h)
  BY <1>3, LineageSessions
<1>5. \A o \in Openers, h \in Gens : Writes(o, h)' <=> Writes(o, h)
  BY <1>1 DEF Still, Writes
<1>6. \A h \in Gens : gen'[h].stage = gen[h].stage
  BY <1>3
<1>7. Stage(g) /\ ~gen[g].resume /\ gen[g].stage # "opened"
  BY <1>1 DEF TransportInv, Stage
<1>8. ASSUME NEW h \in Gens
      PROVE  Stage(h)'
  <2>1. Stage(h) /\ gen[h].over \in Gens \union {None}
    BY DEF TransportInv, Types, GenType
  <2>2. CASE h = g
    BY <1>1, <1>2, <1>3, <1>7, <2>1, <2>2 DEF Stage, Lineage
  <2>3. CASE h # g
    BY <1>3, <2>1, <2>3 DEF Stage, Lineage
  <2> QED
    BY <2>2, <2>3
<1>9. ASSUME NEW d \in Conns
      PROVE  WsInv(d)'
  <2>1. CASE conn[d].ws = g
    <3>1. d = c /\ (\A k \in Gens : k > g => gen[k].conn # c) /\ conn[c].channel
          /\ (gen[g].resumed => conn[c].ready) /\ gen[g].over = g
      BY <1>1, <1>2, <1>7, <2>1, WsFacts
    <3>2. gen'[g].conn = c /\ ~gen'[g].resume /\ \A k \in Gens : k > g => gen'[k].conn # c
      BY <1>2, <1>3, <1>7, <3>1 DEF Lineage
    <3>3. gen'[g].pc \notin Ended
      BY <1>3 DEF Ended
    <3> QED
      BY <1>1, <1>3, <2>1, <3>1, <3>2, <3>3 DEF WsInv
  <2>2. CASE conn[d].ws # g
    <3>1. conn'[d].ws = conn[d].ws
      BY <1>1
    <3>2. conn[d].ws # None => gen'[conn[d].ws] = gen[conn[d].ws]
      BY <1>3, <2>2 DEF Types, ConnType
    <3>3. \A o \in Openers : Writes(o, conn[d].ws) => Writes(o, conn[d].ws)'
      BY <1>1, <3>1 DEF Writes, Still
    <3> QED
      BY <1>1, <1>3, <1>6, <3>2, <3>3, WsKept
  <2> QED
    BY <2>1, <2>2
<1>10. ASSUME NEW d \in Conns
       PROVE  UdpInv(d)'
  <2>1. UdpInv(d) /\ {conn[d].udp, conn[d].key} \subseteq Gens \union {None}
    BY DEF TransportInv, Types, ConnType
  <2>2. conn[d].key # None => gen'[conn[d].key].pc \notin {"none", "ready", "udp", "handshake"}
    BY <1>1, <1>3, <2>1 DEF UdpInv
  <2>3. CASE d = c
    <3>1. conn'[c].udp = g /\ conn'[c].key = conn[c].key
      BY <1>1, <1>2
    <3>2. gen[g].over # g => "overtaken" \in faults'[c]
      BY <1>1, <1>2 DEF Current
    <3>3. gen'[g].conn = c /\ gen'[g].stage # "opened" /\ gen'[g].pc \notin {"none", "ready", "udp"}
          /\ gen'[g].over = gen[g].over
      BY <1>1, <1>2, <1>3, <1>7 DEF Lineage
    <3>4. conn[c].key # None => gen'[conn[c].key].stage = "served"
      BY <1>6, <2>1, <2>3 DEF UdpInv
    <3> QED
      BY <2>2, <2>3, <3>1, <3>2, <3>3, <3>4 DEF UdpInv
  <2>4. CASE d # c
    <3>1. conn[d].udp # None => /\ gen'[conn[d].udp].pc \notin {"none", "ready", "udp"}
                                /\ gen'[conn[d].udp].over = gen[conn[d].udp].over
      BY <1>1, <1>3, <2>1 DEF UdpInv
    <3>2. conn'[d].udp = conn[d].udp /\ conn'[d].key = conn[d].key
      BY <1>1, <1>2, <2>4
    <3> QED
      BY <1>1, <1>3, <1>6, <2>2, <3>1, <3>2, UdpKept
  <2> QED
    BY <2>3, <2>4
<1>11. ASSUME NEW d \in Conns
       PROVE  ReadyInv(d)'
  <2>1. ReadyInv(d) /\ (Whole(d)' => Whole(d))
    BY <1>1 DEF TransportInv, Whole
  <2> QED
    BY <1>1, <1>2, <2>1 DEF ReadyInv
<1>12. ASSUME NEW d \in Conns, NEW h \in Gens
       PROVE  SessionInv(d, h)'
  <2>1. SessionInv(d, h) /\ UdpInv(d) /\ conn[d].udp \in Gens \union {None}
    BY DEF TransportInv, Types, ConnType
  <2>2. Whole(d)' => Whole(d)
    BY <1>1 DEF Whole
  <2>3. /\ conn'[d].ws = conn[d].ws /\ conn'[d].channel = conn[d].channel
        /\ conn'[d].ready = conn[d].ready /\ conn'[d].key = conn[d].key
        /\ d # c => conn'[d].udp = conn[d].udp
    BY <1>1, <1>2
  <2>4. gen'[h].pc \in Live => gen[h].pc \in Live
    BY <1>1, <1>3 DEF Live
  <2>5. CASE d = c
    <3>1. conn[c].channel /\ Session(c, h) => gen[h].stage \notin {"selected", "served"}
      BY <1>1, <1>2, <2>1, <2>5 DEF SessionInv
    <3> QED
      BY <1>4, <1>5, <1>6, <2>1, <2>3, <2>4, <2>5, <3>1 DEF SessionInv
  <2>6. CASE d # c
    <3>1. conn[d].udp # None => conn[d].udp # g
      BY <1>1, <2>1 DEF UdpInv
    <3>2. conn[d].udp # None => gen'[conn[d].udp] = gen[conn[d].udp]
      BY <1>3, <2>1, <3>1
    <3>3. Session(d, h) => gen'[h] = gen[h]
      BY <1>2, <1>3, <2>6 DEF Session
    <3>99. "noKey" \in faults[d] => "noKey" \in faults'[d]
      BY <1>1
    <3> QED
      BY <1>4, <1>5, <2>1, <2>2, <2>3, <2>6, <3>2, <3>3, <3>99 DEF SessionInv
  <2> QED
    BY <2>5, <2>6
<1> QED
  BY <1>8, <1>9, <1>10, <1>11, <1>12 DEF TransportInv

LEMMA UDPAnswersTransport ==
  ASSUME Types, Marked, Links, TransportInv, NEW g \in Gens, UDPAnswers(g)
  PROVE  TransportInv'
<1>1. PICK over \in Gens :
         /\ Still /\ conn' = conn /\ faults' = faults
         /\ gen[g].pc = "handshake" /\ gen[g].over = over /\ gen[over].conn = gen[g].conn
         /\ conn[gen[g].conn].udp = g /\ conn[gen[g].conn].ws = over
         /\ gen'[g].pc = "reading" /\ \A h \in Gens : h # g => gen'[h].pc = gen[h].pc
         /\ gen'[over].stage = IF gen[over].stage = "greeted" THEN "selected" ELSE gen[over].stage
         /\ \A h \in Gens : h # over => gen'[h].stage = gen[h].stage
         /\ \A h \in Gens : /\ gen'[h].conn = gen[h].conn /\ gen'[h].resume = gen[h].resume
                            /\ gen'[h].over = gen[h].over /\ gen'[h].resumed = gen[h].resumed
  BY UDPAnswersEffect DEF TransportInv
<1>2. PICK c \in Conns : c = gen[g].conn /\ c # None
  BY <1>1, ListenerConn DEF TransportInv
<1>3. Lineage
  BY <1>1 DEF Lineage
<1>4. \A d \in Conns, h \in Gens : Session(d, h)' <=> Session(d, h)
  BY <1>3, LineageSessions
<1>5. \A o \in Openers, h \in Gens : Writes(o, h)' <=> Writes(o, h)
  BY <1>1 DEF Still, Writes
<1>6. \A h \in Gens : /\ gen[h].stage = "served" <=> gen'[h].stage = "served"
                      /\ gen[h].stage # "opened" <=> gen'[h].stage # "opened"
                      /\ gen'[h].stage # gen[h].stage =>
                            h = over /\ gen[h].stage = "greeted" /\ gen'[h].stage = "selected"
  BY <1>1
<1>7. ~gen[g].resume /\ gen[g].stage # "opened"
  BY <1>1 DEF TransportInv, Stage
<1>8. ASSUME NEW h \in Gens
      PROVE  Stage(h)'
  <2>1. Stage(h) /\ gen[h].over \in Gens \union {None}
    BY DEF TransportInv, Types, GenType
  <2>2. gen'[h].pc = gen[h].pc \/ (h = g /\ gen'[h].pc = "reading")
    BY <1>1
  <2>3. gen'[h].over # None => gen'[gen'[h].over].conn = gen[gen[h].over].conn
    BY <1>1, <2>1
  <2> QED
    BY <1>1, <1>2, <1>6, <1>7, <2>1, <2>2, <2>3 DEF Stage
<1>9. ASSUME NEW d \in Conns
      PROVE  WsInv(d)'
  <2>1. SUFFICES ASSUME conn[d].ws # None PROVE WsInv(d)'
    BY <1>1 DEF WsInv
  <2>2. PICK k \in Gens : k = conn[d].ws
    BY <2>1 DEF Types, ConnType
  <2>3. /\ gen[k].conn = d /\ \A j \in Gens : j > k => gen[j].conn # d
        /\ gen[k].pc = "none" => \E o \in Openers : Writes(o, k)
        /\ gen[k].pc \notin Ended
        /\ ~gen[k].resume => conn[d].channel
        /\ gen[k].resume /\ ~conn[d].channel => "revived" \in faults[d]
        /\ gen[k].pc \in {"udp", "handshake"} => gen[k].over = k
        /\ gen[k].stage = "greeted" /\ gen[k].pc = "reading" => "noUDP" \in faults[d]
        /\ gen[k].resume /\ gen[k].stage = "served" =>
              \E h \in Gens : Session(d, h) /\ gen[h].stage = "served"
        /\ gen[k].resumed => conn[d].ready
    BY <2>2, WsFacts
  <2>4. gen[k].pc # "resumed" \/ k # g
    BY <1>1
  <2>5. gen'[k].stage = "greeted" /\ gen'[k].pc = "reading" => "noUDP" \in faults[d]
    <3>1. CASE k = g
      <4>1. over = g
        BY <1>1, <1>2, <2>2, <2>3, <3>1
      <4> QED
        BY <1>1, <3>1, <4>1
    <3>2. CASE k # g
      BY <1>1, <1>6, <2>3, <3>2
    <3> QED
      BY <3>1, <3>2
  <2>6. gen'[k].pc = "none" => \E o \in Openers : Writes(o, k)'
    BY <1>1, <1>5, <2>3
  <2>7. gen'[k].pc \notin Ended /\ (gen'[k].pc \in {"udp", "handshake"} => gen'[k].over = k)
    BY <1>1, <2>3 DEF Ended
  <2>8. gen'[k].resume /\ gen'[k].stage = "served" =>
          (\E h \in Gens : Session(d, h) /\ gen[h].stage = "served")'
    BY <1>1, <1>4, <1>6, <1>7, <2>3
  <2>9. /\ conn'[d].ws = k /\ gen'[k].conn = d /\ \A j \in Gens : j > k => gen'[j].conn # d
        /\ ~gen'[k].resume => conn'[d].channel
        /\ gen'[k].resume /\ ~conn'[d].channel => "revived" \in faults'[d]
        /\ gen'[k].resumed => conn'[d].ready
    BY <1>1, <2>2, <2>3
  <2> QED
    BY <1>1, <2>5, <2>6, <2>7, <2>8, <2>9 DEF WsInv
<1>10. ASSUME NEW d \in Conns
       PROVE  UdpInv(d)'
  <2>1. UdpInv(d) /\ {conn[d].udp, conn[d].key} \subseteq Gens \union {None}
    BY DEF TransportInv, Types, ConnType
  <2>2. conn[d].key # None => gen'[conn[d].key].pc \notin {"none", "ready", "udp", "handshake"}
    BY <1>1, <2>1 DEF UdpInv
  <2>3. conn[d].udp # None => /\ gen'[conn[d].udp].pc \notin {"none", "ready", "udp"}
                              /\ gen'[conn[d].udp].over = gen[conn[d].udp].over
    BY <1>1, <2>1 DEF UdpInv
  <2> QED
    BY <1>1, <1>3, <1>6, <2>2, <2>3, UdpKept
<1>11. ASSUME NEW d \in Conns
       PROVE  ReadyInv(d)'
  BY <1>1 DEF TransportInv, ReadyInv, Whole
<1>12. ASSUME NEW d \in Conns, NEW h \in Gens
       PROVE  SessionInv(d, h)'
  <2>1. SessionInv(d, h) /\ UdpInv(d) /\ conn[d].udp \in Gens \union {None}
    BY DEF TransportInv, Types, ConnType
  <2>2. Whole(d)' <=> Whole(d)
    BY <1>1 DEF Whole
  <2>3. gen'[h].pc \in Live => gen[h].pc \in Live
    BY <1>1 DEF Live
  <2>4. CASE d = c
    <3>1. conn[c].udp = g /\ g # None /\ gen'[g].pc = "reading"
      BY <1>1, <1>2, Bounds DEF None
    <3>2. SUFFICES ASSUME conn[c].channel, Session(c, h) PROVE SessionInv(d, h)'
      BY <1>1, <1>4, <2>4 DEF SessionInv
    <3>3. gen[h].stage \notin {"selected", "served"}
      BY <1>1, <2>1, <2>4, <3>1, <3>2 DEF SessionInv
    <3>4. gen'[h].stage \in {"selected", "served"} => h = over
      BY <1>6, <3>3
    <3>5. Whole(c) => over = g
      BY <1>1, <2>1, <2>4, <3>1 DEF UdpInv, Whole
    <3>6. gen'[h].stage # "served"
      BY <1>6, <3>3
    <3>7. gen[h].pc \in Live \/ (\E o \in Openers : Writes(o, h)) => conn[c].ws = h
      BY <2>1, <2>4, <3>2 DEF SessionInv
    <3> QED
      BY <1>1, <1>4, <1>5, <2>2, <2>3, <2>4, <3>1, <3>4, <3>5, <3>6, <3>7 DEF SessionInv
  <2>5. CASE d # c
    <3>1. conn[d].udp # None => conn[d].udp # g
      BY <1>2, <2>1, <2>5 DEF UdpInv
    <3>2. conn[d].udp # None => gen'[conn[d].udp].pc = gen[conn[d].udp].pc
      BY <1>1, <2>1, <3>1
    <3>3. Session(d, h) => gen'[h].pc = gen[h].pc /\ gen'[h].stage = gen[h].stage
      BY <1>1, <1>2, <2>5 DEF Session
    <3> QED
      BY <1>1, <1>4, <1>5, <2>1, <2>2, <2>5, <3>2, <3>3 DEF SessionInv
  <2> QED
    BY <2>4, <2>5
<1> QED
  BY <1>8, <1>9, <1>10, <1>11, <1>12 DEF TransportInv

LEMMA UDPFailsTransport ==
  ASSUME Types, Marked, Links, TransportInv, NEW g \in Gens, UDPFails(g)
  PROVE  TransportInv'
<1>1. /\ Still /\ gen[g].pc \in {"udp", "handshake"}
      /\ gen'[g].resumed = gen[g].resumed /\ gen'[g].over = gen[g].over
      /\ Moves(g, "reading", gen[g].stage)
      /\ \A d \in Conns : faults[d] \subseteq faults'[d]
      /\ Current(g) => "noUDP" \in faults'[gen[g].conn]
      /\ conn'[gen[g].conn].udp = IF gen[g].pc = "handshake" /\ conn[gen[g].conn].udp = g
                                  THEN None ELSE conn[gen[g].conn].udp
      /\ \A d \in Conns : /\ d # gen[g].conn => conn'[d].udp = conn[d].udp
                          /\ conn'[d].ready = conn[d].ready /\ conn'[d].ws = conn[d].ws
                          /\ conn'[d].channel = conn[d].channel /\ conn'[d].key = conn[d].key
  BY UDPFailsEffect DEF TransportInv
<1>2. PICK c \in Conns : c = gen[g].conn /\ c # None
  BY <1>1, ListenerConn DEF TransportInv
<1>3. /\ Lineage /\ (\A h \in Gens : h # g => gen'[h] = gen[h])
      /\ gen'[g].stage = gen[g].stage /\ gen'[g].pc = "reading"
  BY <1>1, <1>2 DEF Lineage, Moves
<1>4. \A d \in Conns, h \in Gens : Session(d, h)' <=> Session(d, h)
  BY <1>3, LineageSessions
<1>5. \A o \in Openers, h \in Gens : Writes(o, h)' <=> Writes(o, h)
  BY <1>1 DEF Still, Writes
<1>6. \A h \in Gens : gen'[h].stage = gen[h].stage
  BY <1>3
<1>7. Stage(g) /\ ~gen[g].resume /\ gen[g].stage # "opened"
  BY <1>1 DEF TransportInv, Stage
<1>8. ASSUME NEW d \in Conns
      PROVE  /\ conn[d].key # g
             /\ conn'[d].udp # conn[d].udp => d = c /\ conn[d].udp = g /\ conn'[d].udp = None
             /\ conn'[d].udp = g /\ g # None => gen[g].pc = "udp" \/ d # c
  <2>1. UdpInv(d)
    BY DEF TransportInv
  <2>2. g # None
    BY Bounds DEF None
  <2> QED
    BY <1>1, <1>2, <2>1, <2>2 DEF UdpInv
<1>9. ASSUME NEW h \in Gens
      PROVE  Stage(h)'
  <2>1. Stage(h) /\ gen[h].over \in Gens \union {None}
    BY DEF TransportInv, Types, GenType
  <2>2. CASE h = g
    BY <1>1, <1>2, <1>3, <1>7, <2>1, <2>2 DEF Stage, Lineage
  <2>3. CASE h # g
    BY <1>3, <2>1, <2>3 DEF Stage, Lineage
  <2> QED
    BY <2>2, <2>3
<1>10. ASSUME NEW d \in Conns
      PROVE  WsInv(d)'
  <2>1. CASE conn[d].ws = g
    <3>1. d = c /\ (\A k \in Gens : k > g => gen[k].conn # c) /\ conn[c].channel
          /\ (gen[g].resumed => conn[c].ready)
      BY <1>1, <1>2, <1>7, <2>1, WsFacts
    <3>2. gen'[g].conn = c /\ ~gen'[g].resume /\ \A k \in Gens : k > g => gen'[k].conn # c
      BY <1>2, <1>3, <1>7, <3>1 DEF Lineage
    <3>3. gen'[g].pc \notin Ended
      BY <1>3 DEF Ended
    <3>4. "noUDP" \in faults'[c]
      BY <1>1, <1>2, <2>1, <3>1 DEF Current
    <3> QED
      BY <1>1, <1>3, <2>1, <3>1, <3>2, <3>3, <3>4 DEF WsInv
  <2>2. CASE conn[d].ws # g
    <3>1. conn'[d].ws = conn[d].ws
      BY <1>1
    <3>2. conn[d].ws # None => gen'[conn[d].ws] = gen[conn[d].ws]
      BY <1>3, <2>2 DEF Types, ConnType
    <3>3. \A o \in Openers : Writes(o, conn[d].ws) => Writes(o, conn[d].ws)'
      BY <1>1, <3>1 DEF Writes, Still
    <3> QED
      BY <1>1, <1>3, <1>6, <3>2, <3>3, WsKept
  <2> QED
    BY <2>1, <2>2
<1>11. ASSUME NEW d \in Conns
       PROVE  UdpInv(d)'
  <2>1. UdpInv(d) /\ {conn[d].udp, conn[d].key} \subseteq Gens \union {None}
    BY DEF TransportInv, Types, ConnType
  <2>2. conn[d].key # None => gen'[conn[d].key].pc \notin {"none", "ready", "udp", "handshake"}
    BY <1>3, <2>1 DEF UdpInv
  <2>3. conn[d].udp # None => /\ gen'[conn[d].udp].pc \notin {"none", "ready", "udp"}
                              /\ gen'[conn[d].udp].over = gen[conn[d].udp].over
    BY <1>1, <1>3, <2>1 DEF UdpInv
  <2>4. conn'[d].key = conn[d].key
    BY <1>1
  <2>5. CASE conn'[d].udp = conn[d].udp
    BY <1>1, <1>3, <1>6, <2>2, <2>3, <2>4, <2>5, UdpKept
  <2>6. CASE conn'[d].udp # conn[d].udp
    <3>1. conn'[d].udp = None
      BY <1>8, <2>6
    <3>2. conn[d].key # None => gen'[conn[d].key].stage = "served"
      BY <1>6, <2>1 DEF UdpInv
    <3> QED
      BY <2>2, <2>4, <3>1, <3>2 DEF UdpInv
  <2> QED
    BY <2>5, <2>6
<1>12. ASSUME NEW d \in Conns
       PROVE  ReadyInv(d)'
  <2>1. ReadyInv(d) /\ (Whole(d)' => Whole(d))
    BY <1>1 DEF TransportInv, Whole
  <2> QED
    BY <1>1, <1>8, <2>1 DEF ReadyInv
<1>13. ASSUME NEW d \in Conns, NEW h \in Gens
       PROVE  SessionInv(d, h)'
  <2>1. SessionInv(d, h) /\ UdpInv(d) /\ conn[d].udp \in Gens \union {None}
    BY DEF TransportInv, Types, ConnType
  <2>2. Whole(d)' => Whole(d)
    BY <1>1 DEF Whole
  <2>3. /\ conn'[d].ws = conn[d].ws /\ conn'[d].channel = conn[d].channel
        /\ conn'[d].ready = conn[d].ready /\ conn'[d].key = conn[d].key
    BY <1>1
  <2>4. /\ gen'[h].pc \in Live => gen[h].pc \in Live
        /\ gen'[h].pc # "key" => gen[h].pc # "key"
        /\ gen'[h].pc \in {"ready", "udp", "handshake"} => gen[h].pc \in {"ready", "udp", "handshake"}
    BY <1>1, <1>3 DEF Live
  <2>5. SUFFICES ASSUME conn[d].channel, Session(d, h) PROVE SessionInv(d, h)'
    BY <1>4, <2>3 DEF SessionInv
  <2>6. gen[h].stage \in {"selected", "served"} =>
           conn'[d].udp = conn[d].udp /\ conn[d].udp # None /\ gen'[conn[d].udp].pc # "handshake"
    <3>1. SUFFICES ASSUME gen[h].stage \in {"selected", "served"}
                   PROVE  conn'[d].udp = conn[d].udp /\ conn[d].udp # None
                          /\ gen'[conn[d].udp].pc # "handshake"
      OBVIOUS
    <3>2. conn[d].udp # None /\ gen[conn[d].udp].pc # "handshake"
      BY <2>1, <2>5, <3>1 DEF SessionInv
    <3>3. conn'[d].udp = conn[d].udp
      <4>1. conn[d].udp = g => gen[g].pc # "handshake"
        BY <3>2
      <4>2. d = c /\ conn[d].udp = g => conn'[d].udp = conn[d].udp
        BY <1>1, <1>2, <4>1
      <4> QED
        BY <1>8, <4>2
    <3>4. gen'[conn[d].udp].pc # "handshake"
      BY <1>3, <2>1, <3>2
    <3> QED
      BY <3>2, <3>3, <3>4
  <2>99. "noKey" \in faults[d] => "noKey" \in faults'[d]
    BY <1>1
  <2> QED
    BY <1>4, <1>5, <1>6, <2>1, <2>2, <2>3, <2>4, <2>5, <2>6, <2>99 DEF SessionInv
<1> QED
  BY <1>9, <1>10, <1>11, <1>12, <1>13 DEF TransportInv

LEMMA TakeKeyTransport ==
  ASSUME Types, Marked, Links, TransportInv, NEW g \in Gens, TakeKey(g)
  PROVE  TransportInv'
<1>1. /\ Still /\ gen[g].pc = "key"
      /\ gen'[g].resumed = gen[g].resumed /\ gen'[g].over = gen[g].over
      /\ Moves(g, "reading", gen[g].stage)
      /\ \A d \in Conns : faults[d] \subseteq faults'[d]
      /\ ~Current(g) => "overtaken" \in faults'[gen[g].conn]
      /\ conn'[gen[g].conn].key = g /\ conn'[gen[g].conn].ready = TRUE
      /\ \A d \in Conns : /\ d # gen[g].conn => conn'[d].key = conn[d].key
                                               /\ conn'[d].ready = conn[d].ready
                          /\ conn'[d].ws = conn[d].ws /\ conn'[d].udp = conn[d].udp
                          /\ conn'[d].channel = conn[d].channel
  BY TakeKeyEffect DEF TransportInv
<1>2. PICK c \in Conns : c = gen[g].conn /\ c # None
  BY <1>1, ListenerConn DEF TransportInv
<1>3. /\ Lineage /\ (\A h \in Gens : h # g => gen'[h] = gen[h])
      /\ gen'[g].stage = gen[g].stage /\ gen'[g].pc = "reading"
  BY <1>1, <1>2 DEF Lineage, Moves
<1>4. \A d \in Conns, h \in Gens : Session(d, h)' <=> Session(d, h)
  BY <1>3, LineageSessions
<1>5. \A o \in Openers, h \in Gens : Writes(o, h)' <=> Writes(o, h)
  BY <1>1 DEF Still, Writes
<1>6. \A h \in Gens : gen'[h].stage = gen[h].stage
  BY <1>3
<1>7. Stage(g) /\ ~gen[g].resume /\ gen[g].stage = "served"
  BY <1>1 DEF TransportInv, Stage
<1>8. conn[c].ws = g => conn[c].channel /\ Session(c, g)
  BY <1>2, <1>7, WsFacts DEF Session
<1>9. ~(conn[c].ws = g) => "overtaken" \in faults'[c]
  BY <1>1, <1>2 DEF Current
<1>10. ASSUME NEW h \in Gens
       PROVE  Stage(h)'
  <2>1. Stage(h) /\ gen[h].over \in Gens \union {None}
    BY DEF TransportInv, Types, GenType
  <2>2. CASE h = g
    BY <1>1, <1>2, <1>3, <1>7, <2>1, <2>2 DEF Stage, Lineage
  <2>3. CASE h # g
    BY <1>3, <2>1, <2>3 DEF Stage, Lineage
  <2> QED
    BY <2>2, <2>3
<1>11. ASSUME NEW d \in Conns
       PROVE  WsInv(d)'
  <2>1. CASE conn[d].ws = g
    <3>1. d = c /\ (\A k \in Gens : k > g => gen[k].conn # c) /\ conn[c].channel
      BY <1>1, <1>2, <1>7, <2>1, WsFacts
    <3>2. gen'[g].conn = c /\ ~gen'[g].resume /\ \A k \in Gens : k > g => gen'[k].conn # c
      BY <1>2, <1>3, <1>7, <3>1 DEF Lineage
    <3>3. gen'[g].pc \notin Ended
      BY <1>3 DEF Ended
    <3> QED
      BY <1>1, <1>2, <1>3, <1>7, <2>1, <3>1, <3>2, <3>3 DEF WsInv
  <2>2. CASE conn[d].ws # g
    <3>1. conn'[d].ws = conn[d].ws /\ (conn[d].ready => conn'[d].ready)
      BY <1>1, <1>2
    <3>2. conn[d].ws # None => gen'[conn[d].ws] = gen[conn[d].ws]
      BY <1>3, <2>2 DEF Types, ConnType
    <3>3. \A o \in Openers : Writes(o, conn[d].ws) => Writes(o, conn[d].ws)'
      BY <1>1, <3>1 DEF Writes, Still
    <3> QED
      BY <1>1, <1>3, <1>6, <3>1, <3>2, <3>3, WsKept
  <2> QED
    BY <2>1, <2>2
<1>12. ASSUME NEW d \in Conns
       PROVE  UdpInv(d)'
  <2>1. UdpInv(d) /\ {conn[d].udp, conn[d].key} \subseteq Gens \union {None}
    BY DEF TransportInv, Types, ConnType
  <2>2. conn[d].key # None => gen'[conn[d].key].pc \notin {"none", "ready", "udp", "handshake"}
    BY <1>3, <2>1 DEF UdpInv
  <2>3. conn[d].udp # None => /\ gen'[conn[d].udp].pc \notin {"none", "ready", "udp"}
                              /\ gen'[conn[d].udp].over = gen[conn[d].udp].over
    BY <1>1, <1>3, <2>1 DEF UdpInv
  <2>4. conn'[d].udp = conn[d].udp
    BY <1>1
  <2>5. CASE d # c
    BY <1>1, <1>2, <1>3, <1>6, <2>2, <2>3, <2>5, UdpKept
  <2>6. CASE d = c
    <3>1. conn'[c].key = g /\ gen'[g].stage = "served" /\ gen'[g].pc = "reading"
      BY <1>1, <1>2, <1>3, <1>7
    <3>2. conn[c].udp # None => /\ gen'[conn[c].udp].conn = c /\ gen'[conn[c].udp].stage # "opened"
                                /\ gen[conn[c].udp].over # conn[c].udp => "overtaken" \in faults'[c]
      BY <1>1, <1>3, <1>6, <2>1, <2>6 DEF UdpInv, Lineage
    <3> QED
      BY <2>3, <2>4, <2>6, <3>1, <3>2 DEF UdpInv
  <2> QED
    BY <2>5, <2>6
<1>13. ASSUME NEW d \in Conns
       PROVE  ReadyInv(d)'
  <2>1. ReadyInv(d) /\ SessionInv(c, g) /\ (Whole(d)' => Whole(d))
    BY <1>1 DEF TransportInv, Whole
  <2>2. CASE d # c
    BY <1>1, <1>2, <2>1, <2>2 DEF ReadyInv
  <2>3. CASE d = c
    <3>1. SUFFICES ASSUME Whole(c)' PROVE conn'[c].udp # None /\ conn'[c].key = conn'[c].udp
      BY <2>3 DEF ReadyInv
    <3>2. conn[c].ws = g
      BY <1>9, <3>1 DEF Whole
    <3>3. conn[c].udp = g /\ g # None
      BY <1>7, <1>8, <2>1, <2>3, <3>1, <3>2, Bounds DEF SessionInv, None
    <3> QED
      BY <1>1, <1>2, <3>3
  <2> QED
    BY <2>2, <2>3
<1>14. ASSUME NEW d \in Conns, NEW h \in Gens
       PROVE  SessionInv(d, h)'
  <2>1. SessionInv(d, h) /\ UdpInv(d) /\ conn[d].udp \in Gens \union {None}
    BY DEF TransportInv, Types, ConnType
  <2>2. Whole(d)' => Whole(d)
    BY <1>1 DEF Whole
  <2>3. /\ conn'[d].ws = conn[d].ws /\ conn'[d].channel = conn[d].channel
        /\ conn'[d].udp = conn[d].udp /\ (conn[d].ready => conn'[d].ready)
        /\ d # c => conn'[d].key = conn[d].key
    BY <1>1, <1>2
  <2>4. /\ gen'[h].pc \in Live => gen[h].pc \in Live
        /\ gen'[h].pc \in {"ready", "udp", "handshake"} <=> gen[h].pc \in {"ready", "udp", "handshake"}
    BY <1>1, <1>3 DEF Live
  <2>5. conn[d].udp # None /\ gen[conn[d].udp].pc # "handshake" => gen'[conn[d].udp].pc # "handshake"
    BY <1>3, <2>1
  <2>6. CASE d # c
    <3>1. Session(d, h) => gen'[h] = gen[h]
      BY <1>2, <1>3, <2>6 DEF Session
    <3>99. "noKey" \in faults[d] => "noKey" \in faults'[d]
      BY <1>1
    <3> QED
      BY <1>4, <1>5, <2>1, <2>2, <2>3, <2>5, <2>6, <3>1, <3>99 DEF SessionInv
  <2>7. CASE d = c /\ h = g
    <3>1. conn'[c].key = g /\ conn'[c].ready
      BY <1>1, <1>2
    <3> QED
      BY <1>4, <1>5, <1>6, <2>1, <2>2, <2>3, <2>4, <2>5, <2>7, <3>1 DEF SessionInv
  <2>8. CASE d = c /\ h # g
    <3>1. conn'[c].ready
      BY <1>1, <1>2
    <3>2. gen'[h] = gen[h]
      BY <1>3, <2>8
    <3>3. Session(c, h) => ~Whole(c)'
      <4>1. SUFFICES ASSUME Session(c, h), conn[c].ws = g PROVE FALSE
        BY <1>9 DEF Whole
      <4>2. Session(c, g)
        BY <1>8, <4>1
      <4>3. g > h \/ h > g
        BY <2>8, Bounds
      <4> QED
        BY <4>1, <4>2, <4>3 DEF Session
    <3> QED
      BY <1>4, <1>5, <2>1, <2>3, <2>5, <2>8, <3>1, <3>2, <3>3 DEF SessionInv
  <2> QED
    BY <2>6, <2>7, <2>8
<1> QED
  BY <1>10, <1>11, <1>12, <1>13, <1>14 DEF TransportInv

LEMMA RefusedTransport ==
  ASSUME Types, Marked, Links, TransportInv, NEW g \in Gens, Refused(g)
  PROVE  TransportInv'
<1>1. /\ Still /\ gen[g].pc \in {"ready", "key", "resumed"}
      /\ gen'[g].resumed = gen[g].resumed /\ gen'[g].over = gen[g].over
      /\ Moves(g, "reading", gen[g].stage)
      /\ \A d \in Conns : faults[d] \subseteq faults'[d]
      /\ gen[g].pc = "ready" /\ Current(g) => "noUDP" \in faults'[gen[g].conn]
      /\ gen[g].pc = "key" /\ Current(g) => "noKey" \in faults'[gen[g].conn]
      /\ \A d \in Conns : /\ conn'[d].ws = conn[d].ws /\ conn'[d].udp = conn[d].udp
                          /\ conn'[d].channel = conn[d].channel
                          /\ conn'[d].ready = conn[d].ready
                          /\ \/ conn'[d].key = conn[d].key
                             \/ /\ d = gen[g].conn /\ gen[g].pc = "key"
                                /\ conn'[d].key \in {None, g} /\ ~Whole(d)'
  BY RefusedEffect DEF TransportInv
<1>2. PICK c \in Conns : c = gen[g].conn /\ c # None
  BY <1>1, ListenerConn DEF TransportInv
<1>3. /\ Lineage /\ (\A h \in Gens : h # g => gen'[h] = gen[h])
      /\ gen'[g].stage = gen[g].stage /\ gen'[g].pc = "reading"
  BY <1>1, <1>2 DEF Lineage, Moves
<1>4. \A d \in Conns, h \in Gens : Session(d, h)' <=> Session(d, h)
  BY <1>3, LineageSessions
<1>5. \A o \in Openers, h \in Gens : Writes(o, h)' <=> Writes(o, h)
  BY <1>1 DEF Still, Writes
<1>6. \A h \in Gens : gen'[h].stage = gen[h].stage
  BY <1>3
<1>7. Stage(g) /\ g # None
  BY Bounds DEF TransportInv, None
<1>8. gen[g].pc \in {"key", "resumed"} => gen[g].stage = "served"
  BY <1>7 DEF Stage
<1>9. ASSUME NEW h \in Gens
      PROVE  Stage(h)'
  <2>1. Stage(h) /\ gen[h].over \in Gens \union {None}
    BY DEF TransportInv, Types, GenType
  <2>2. CASE h = g
    BY <1>1, <1>2, <1>3, <1>7, <2>1, <2>2 DEF Stage, Lineage
  <2>3. CASE h # g
    BY <1>3, <2>1, <2>3 DEF Stage, Lineage
  <2> QED
    BY <2>2, <2>3
<1>10. ASSUME NEW d \in Conns
       PROVE  WsInv(d)'
  <2>1. CASE conn[d].ws = g
    <3>1. /\ gen[g].conn = d /\ (\A k \in Gens : k > g => gen[k].conn # d)
          /\ ~gen[g].resume => conn[d].channel
          /\ gen[g].resume /\ ~conn[d].channel => "revived" \in faults[d]
          /\ gen[g].resume /\ gen[g].stage = "served" =>
                \E h \in Gens : Session(d, h) /\ gen[h].stage = "served"
          /\ gen[g].resumed => conn[d].ready
      BY <2>1, WsFacts
    <3>2. d = c /\ Current(g)
      BY <1>2, <2>1, <3>1 DEF Current
    <3>3. gen[g].stage = "greeted" => "noUDP" \in faults'[d]
      BY <1>1, <1>2, <1>8, <3>2
    <3>4. gen'[g].conn = d /\ gen'[g].resume = gen[g].resume /\ \A k \in Gens : k > g => gen'[k].conn # d
      BY <1>3, <3>1 DEF Lineage
    <3>5. gen'[g].resume /\ gen'[g].stage = "served" =>
             \E h \in Gens : Session(d, h)' /\ gen'[h].stage = "served"
      BY <1>3, <1>4, <1>6, <3>1, <3>4
    <3>6. gen'[g].pc \notin Ended
      BY <1>3 DEF Ended
    <3> QED
      BY <1>1, <1>3, <2>1, <3>1, <3>3, <3>4, <3>5, <3>6 DEF WsInv
  <2>2. CASE conn[d].ws # g
    <3>1. conn[d].ws # None => gen'[conn[d].ws] = gen[conn[d].ws]
      BY <1>3, <2>2 DEF Types, ConnType
    <3>2. \A o \in Openers : Writes(o, conn[d].ws) => Writes(o, conn[d].ws)'
      BY <1>1 DEF Writes, Still
    <3> QED
      BY <1>1, <1>3, <1>6, <3>1, <3>2, WsKept
  <2> QED
    BY <2>1, <2>2
<1>11. ASSUME NEW d \in Conns
       PROVE  UdpInv(d)'
  <2>1. UdpInv(d) /\ {conn[d].udp, conn[d].key} \subseteq Gens \union {None}
    BY DEF TransportInv, Types, ConnType
  <2>2. conn[d].key # None => gen'[conn[d].key].pc \notin {"none", "ready", "udp", "handshake"}
    BY <1>3, <2>1 DEF UdpInv
  <2>3. conn[d].udp # None => /\ gen'[conn[d].udp].pc \notin {"none", "ready", "udp"}
                              /\ gen'[conn[d].udp].over = gen[conn[d].udp].over
    BY <1>1, <1>3, <2>1 DEF UdpInv
  <2>4. CASE conn'[d].key = conn[d].key
    BY <1>1, <1>3, <1>6, <2>2, <2>3, <2>4, UdpKept
  <2>5. CASE conn'[d].key # conn[d].key
    <3>1. conn'[d].key \in {None, g} /\ gen'[g].stage = "served" /\ gen'[g].pc = "reading"
      BY <1>1, <1>3, <1>8, <2>5
    <3>2. conn[d].udp # None => /\ gen'[conn[d].udp].conn = d /\ gen'[conn[d].udp].stage # "opened"
                                /\ gen[conn[d].udp].over # conn[d].udp => "overtaken" \in faults'[d]
      BY <1>1, <1>3, <1>6, <2>1 DEF UdpInv, Lineage
    <3> QED
      BY <1>1, <2>3, <3>1, <3>2 DEF UdpInv
  <2> QED
    BY <2>4, <2>5
<1>12. ASSUME NEW d \in Conns
       PROVE  ReadyInv(d)'
  BY <1>1 DEF TransportInv, ReadyInv, Whole
<1>13. ASSUME NEW d \in Conns, NEW h \in Gens
       PROVE  SessionInv(d, h)'
  <2>1. SessionInv(d, h) /\ UdpInv(d) /\ conn[d].udp \in Gens \union {None}
    BY DEF TransportInv, Types, ConnType
  <2>2. /\ Whole(d)' => (Whole(d) /\ conn'[d].key = conn[d].key)
        /\ (conn[d].ready \/ "noKey" \in faults[d]) => (conn'[d].ready \/ "noKey" \in faults'[d])
    BY <1>1 DEF Whole
  <2>3. /\ conn'[d].ws = conn[d].ws /\ conn'[d].channel = conn[d].channel
        /\ conn'[d].udp = conn[d].udp
    BY <1>1
  <2>4. conn[d].udp # None /\ gen[conn[d].udp].pc # "handshake" => gen'[conn[d].udp].pc # "handshake"
    BY <1>3, <2>1
  <2>5. CASE h # g
    <3>1. gen'[h] = gen[h]
      BY <1>3, <2>5
    <3> QED
      BY <1>4, <1>5, <2>1, <2>2, <2>3, <2>4, <3>1 DEF SessionInv
  <2>6. CASE h = g
    <3>1. gen[g].pc \in Live
      BY <1>1 DEF Live
    <3>2. SUFFICES ASSUME conn[d].channel, Session(d, g)
                   PROVE  SessionInv(d, g)'
      BY <1>4, <2>3, <2>6 DEF SessionInv
    <3>3. conn[d].ws = g /\ gen[g].conn = d /\ Current(g) /\ d = c
      BY <1>2, <2>1, <2>6, <3>1, <3>2 DEF SessionInv, Session, Current
    <3>4. gen[g].pc = "key" => "noKey" \in faults'[d] /\ ~Whole(d)'
      BY <1>1, <3>3 DEF Whole
    <3> QED
      BY <1>1, <1>3, <1>4, <1>5, <2>1, <2>2, <2>3, <2>4, <2>6, <3>2, <3>3, <3>4 DEF SessionInv
  <2> QED
    BY <2>5, <2>6
<1> QED
  BY <1>9, <1>10, <1>11, <1>12, <1>13 DEF TransportInv

LEMMA TakeResumedTransport ==
  ASSUME Types, Marked, Links, TransportInv, NEW g \in Gens, TakeResumed(g)
  PROVE  TransportInv'
<1>1. /\ Still /\ faults' = faults /\ gen[g].pc = "resumed"
      /\ gen'[g].resumed <=> gen[g].resumed \/ Current(g)
      /\ gen'[g].over = gen[g].over
      /\ Moves(g, "reading", gen[g].stage)
      /\ conn'[gen[g].conn].ready <=> conn[gen[g].conn].ready \/ Current(g)
      /\ \A d \in Conns : /\ d # gen[g].conn => conn'[d].ready = conn[d].ready
                          /\ conn'[d].ws = conn[d].ws /\ conn'[d].udp = conn[d].udp
                          /\ conn'[d].channel = conn[d].channel /\ conn'[d].key = conn[d].key
  BY TakeResumedEffect DEF TransportInv
<1>2. PICK c \in Conns : c = gen[g].conn /\ c # None
  BY <1>1, ListenerConn DEF TransportInv
<1>3. /\ Lineage /\ (\A h \in Gens : h # g => gen'[h] = gen[h])
      /\ gen'[g].stage = gen[g].stage /\ gen'[g].pc = "reading"
  BY <1>1, <1>2 DEF Lineage, Moves
<1>4. \A d \in Conns, h \in Gens : Session(d, h)' <=> Session(d, h)
  BY <1>3, LineageSessions
<1>5. \A o \in Openers, h \in Gens : Writes(o, h)' <=> Writes(o, h)
  BY <1>1 DEF Still, Writes
<1>6. \A h \in Gens : gen'[h].stage = gen[h].stage
  BY <1>3
<1>7. Stage(g) /\ gen[g].resume /\ gen[g].stage = "served"
  BY <1>1 DEF TransportInv, Stage
<1>8. Current(g) <=> conn[c].ws = g
  BY <1>2 DEF Current
<1>9. \A d \in Conns : conn[d].ready => conn'[d].ready
  BY <1>1, <1>2
<1>10. ASSUME NEW h \in Gens
       PROVE  Stage(h)'
  <2>1. Stage(h) /\ gen[h].over \in Gens \union {None}
    BY DEF TransportInv, Types, GenType
  <2>2. CASE h = g
    BY <1>1, <1>2, <1>3, <1>7, <2>1, <2>2 DEF Stage, Lineage
  <2>3. CASE h # g
    BY <1>3, <2>1, <2>3 DEF Stage, Lineage
  <2> QED
    BY <2>2, <2>3
<1>11. ASSUME NEW d \in Conns
       PROVE  WsInv(d)'
  <2>1. CASE conn[d].ws = g
    <3>1. d = c /\ (\A k \in Gens : k > g => gen[k].conn # c)
          /\ (~conn[c].channel => "revived" \in faults[c])
          /\ \E h \in Gens : Session(c, h) /\ gen[h].stage = "served"
      BY <1>1, <1>2, <1>7, <2>1, WsFacts
    <3>2. gen'[g].conn = c /\ gen'[g].resume /\ \A k \in Gens : k > g => gen'[k].conn # c
      BY <1>2, <1>3, <1>7, <3>1 DEF Lineage
    <3>3. gen'[g].pc \notin Ended /\ gen'[g].resumed /\ conn'[c].ready
      BY <1>1, <1>2, <1>3, <1>8, <2>1, <3>1 DEF Ended
    <3>4. (\E h \in Gens : Session(c, h) /\ gen[h].stage = "served")'
      BY <1>4, <1>6, <3>1
    <3>5. conn'[c].channel = conn[c].channel /\ faults' = faults /\ conn'[c].ws = g
      BY <1>1, <2>1, <3>1
    <3> QED
      BY <1>3, <1>7, <2>1, <3>1, <3>2, <3>3, <3>4, <3>5 DEF WsInv
  <2>2. CASE conn[d].ws # g
    <3>1. conn'[d].ws = conn[d].ws
      BY <1>1
    <3>2. conn[d].ws # None => gen'[conn[d].ws] = gen[conn[d].ws]
      BY <1>3, <2>2 DEF Types, ConnType
    <3>3. \A o \in Openers : Writes(o, conn[d].ws) => Writes(o, conn[d].ws)'
      BY <1>1, <3>1 DEF Writes, Still
    <3> QED
      BY <1>1, <1>3, <1>6, <1>9, <3>2, <3>3, WsKept
  <2> QED
    BY <2>1, <2>2
<1>12. ASSUME NEW d \in Conns
       PROVE  UdpInv(d)'
  <2>1. UdpInv(d) /\ {conn[d].udp, conn[d].key} \subseteq Gens \union {None}
    BY DEF TransportInv, Types, ConnType
  <2>2. conn[d].key # None => gen'[conn[d].key].pc \notin {"none", "ready", "udp", "handshake"}
    BY <1>3, <2>1 DEF UdpInv
  <2>3. conn[d].udp # None => /\ gen'[conn[d].udp].pc \notin {"none", "ready", "udp"}
                              /\ gen'[conn[d].udp].over = gen[conn[d].udp].over
    BY <1>1, <1>3, <2>1 DEF UdpInv
  <2> QED
    BY <1>1, <1>3, <1>6, <2>2, <2>3, UdpKept
<1>13. ASSUME NEW d \in Conns
       PROVE  ReadyInv(d)'
  <2>1. ReadyInv(d) /\ (Whole(d)' <=> Whole(d))
    BY <1>1 DEF TransportInv, Whole
  <2>2. CASE d # c \/ ~Current(g)
    BY <1>1, <1>2, <2>1, <2>2 DEF ReadyInv
  <2>3. CASE d = c /\ Current(g)
    <3>1. SUFFICES ASSUME Whole(c) PROVE conn[c].udp # None /\ conn[c].key = conn[c].udp
      BY <1>1, <2>1, <2>3 DEF ReadyInv
    <3>2. PICK h \in Gens : Session(c, h) /\ gen[h].stage = "served"
      BY <1>2, <1>7, <1>8, <2>3, WsFacts
    <3>3. conn[c].channel
      BY <1>2, <1>7, <1>8, <2>3, <3>1, WsFacts DEF Whole
    <3>4. SessionInv(c, h)
      BY DEF TransportInv
    <3>5. gen[h].pc # "key"
      <4>1. h # g
        BY <1>7, <3>2 DEF Session
      <4>2. gen[h].pc \notin Live
        BY <1>8, <2>3, <3>2, <3>3, <3>4, <4>1 DEF SessionInv
      <4> QED
        BY <4>2 DEF Live
    <3>6. conn[c].udp = h /\ conn[c].key = h
      BY <3>1, <3>2, <3>3, <3>4, <3>5 DEF SessionInv
    <3> QED
      BY <3>6, Bounds DEF None
  <2> QED
    BY <2>2, <2>3
<1>14. ASSUME NEW d \in Conns, NEW h \in Gens
       PROVE  SessionInv(d, h)'
  <2>1. SessionInv(d, h) /\ conn[d].udp \in Gens \union {None}
    BY DEF TransportInv, Types, ConnType
  <2>2. Whole(d)' <=> Whole(d)
    BY <1>1 DEF Whole
  <2>3. /\ conn'[d].ws = conn[d].ws /\ conn'[d].channel = conn[d].channel
        /\ conn'[d].udp = conn[d].udp /\ conn'[d].key = conn[d].key
    BY <1>1
  <2>4. conn[d].udp # None /\ gen[conn[d].udp].pc # "handshake" => gen'[conn[d].udp].pc # "handshake"
    BY <1>3, <2>1
  <2>5. Session(d, h) => gen'[h] = gen[h]
    BY <1>3, <1>7 DEF Session
  <2>99. "noKey" \in faults[d] => "noKey" \in faults'[d]
    BY <1>1
  <2> QED
    BY <1>4, <1>5, <1>9, <2>1, <2>2, <2>3, <2>4, <2>5, <2>99 DEF SessionInv
<1> QED
  BY <1>10, <1>11, <1>12, <1>13, <1>14 DEF TransportInv

LEMMA StartTransport ==
  ASSUME Types, Marked, Links, TransportInv, NEW o \in Openers, Start(o)
  PROVE  TransportInv'
<1>1. PICK g \in Gens :
         /\ UNCHANGED <<conn, guild, made, opened, due, loop, user, news, spent, faults>>
         /\ opener[o].pc = "write" /\ opener[o].gen = g /\ opener[o].conn = gen[g].conn
         /\ gen[g].pc = "none" /\ gen[g].conn # None
         /\ opener'[o] = Idle /\ \A q \in Openers : q # o => opener'[q] = opener[q]
         /\ Moves(g, "reading", gen[g].stage)
         /\ gen'[g].over = gen[g].over /\ gen'[g].resumed = gen[g].resumed
  BY StartEffect DEF TransportInv
<1>2. PICK c \in Conns : c = gen[g].conn /\ c # None
  BY <1>1 DEF Types, GenType
<1>3. /\ Lineage /\ (\A h \in Gens : h # g => gen'[h] = gen[h])
      /\ gen'[g].stage = gen[g].stage /\ gen'[g].pc = "reading"
  BY <1>1, <1>2 DEF Lineage, Moves
<1>4. \A d \in Conns, h \in Gens : Session(d, h)' <=> Session(d, h)
  BY <1>3, LineageSessions
<1>5. /\ \A q \in Openers, h \in Gens : Writes(q, h)' => Writes(q, h)
      /\ \A q \in Openers, h \in Gens : h # g /\ Writes(q, h) => Writes(q, h)'
  BY <1>1 DEF Writes, Idle
<1>6. \A h \in Gens : gen'[h].stage = gen[h].stage
  BY <1>3
<1>7. Stage(g) /\ gen[g].stage = "opened" /\ ~gen[g].resumed /\ Writes(o, g)
  BY <1>1 DEF TransportInv, Stage, Writes
<1>8. ASSUME NEW h \in Gens
      PROVE  Stage(h)'
  <2>1. Stage(h) /\ gen[h].over \in Gens \union {None}
    BY DEF TransportInv, Types, GenType
  <2>2. CASE h = g
    BY <1>1, <1>2, <1>3, <1>7, <2>1, <2>2 DEF Stage, Lineage
  <2>3. CASE h # g
    BY <1>3, <2>1, <2>3 DEF Stage, Lineage
  <2> QED
    BY <2>2, <2>3
<1>9. ASSUME NEW d \in Conns
      PROVE  WsInv(d)'
  <2>1. CASE conn[d].ws = g
    <3>1. d = c /\ (\A k \in Gens : k > g => gen[k].conn # c)
          /\ (~gen[g].resume => conn[c].channel)
          /\ (gen[g].resume /\ ~conn[c].channel => "revived" \in faults[c])
      BY <1>1, <1>2, <2>1, WsFacts
    <3>2. gen'[g].conn = c /\ gen'[g].resume = gen[g].resume /\ \A k \in Gens : k > g => gen'[k].conn # c
      BY <1>2, <1>3, <3>1 DEF Lineage
    <3>3. gen'[g].pc \notin Ended
      BY <1>3 DEF Ended
    <3>4. gen'[g].stage = "opened" /\ ~gen'[g].resumed
      BY <1>1, <1>3, <1>7
    <3>5. conn'[d].ws = g /\ conn'[c].channel = conn[c].channel /\ faults' = faults
      BY <1>1, <2>1
    <3> QED
      BY <1>3, <2>1, <3>1, <3>2, <3>3, <3>4, <3>5 DEF WsInv
  <2>2. CASE conn[d].ws # g
    <3>1. conn'[d].ws = conn[d].ws /\ conn[d].ws \in Gens \union {None}
      BY <1>1 DEF Types, ConnType
    <3>2. conn[d].ws # None =>
             /\ gen'[conn[d].ws] = gen[conn[d].ws]
             /\ \A q \in Openers : Writes(q, conn[d].ws) => Writes(q, conn[d].ws)'
      <4>1. SUFFICES ASSUME conn[d].ws # None
                     PROVE  /\ gen'[conn[d].ws] = gen[conn[d].ws]
                            /\ \A q \in Openers : Writes(q, conn[d].ws) => Writes(q, conn[d].ws)'
        OBVIOUS
      <4>2. PICK k \in Gens : k = conn[d].ws /\ k = conn'[d].ws /\ k # g
        BY <2>2, <3>1, <4>1
      <4>3. \A q \in Openers : Writes(q, k) => Writes(q, k)'
        BY <1>5, <4>2
      <4> QED
        BY <1>3, <4>2, <4>3 DEF Writes
    <3> QED
      BY <1>1, <1>3, <1>6, <3>1, <3>2, WsKept
  <2> QED
    BY <2>1, <2>2
<1>10. ASSUME NEW d \in Conns
       PROVE  UdpInv(d)'
  <2>1. UdpInv(d) /\ {conn[d].udp, conn[d].key} \subseteq Gens \union {None}
    BY DEF TransportInv, Types, ConnType
  <2>2. conn[d].key # None => gen'[conn[d].key].pc \notin {"none", "ready", "udp", "handshake"}
    BY <1>3, <2>1 DEF UdpInv
  <2>3. conn[d].udp # None => /\ gen'[conn[d].udp].pc \notin {"none", "ready", "udp"}
                              /\ gen'[conn[d].udp].over = gen[conn[d].udp].over
    BY <1>1, <1>3, <2>1 DEF UdpInv
  <2> QED
    BY <1>1, <1>3, <1>6, <2>2, <2>3, UdpKept
<1>11. ASSUME NEW d \in Conns
       PROVE  ReadyInv(d)'
  BY <1>1 DEF TransportInv, ReadyInv, Whole
<1>12. ASSUME NEW d \in Conns, NEW h \in Gens
       PROVE  SessionInv(d, h)'
  <2>1. SessionInv(d, h) /\ conn[d].udp \in Gens \union {None}
    BY DEF TransportInv, Types, ConnType
  <2>2. Whole(d)' <=> Whole(d)
    BY <1>1 DEF Whole
  <2>3. conn[d].udp # None /\ gen[conn[d].udp].pc # "handshake" => gen'[conn[d].udp].pc # "handshake"
    BY <1>3, <2>1
  <2>4. CASE h # g
    <3>1. gen'[h] = gen[h]
      BY <1>3, <2>4
    <3> QED
      BY <1>1, <1>4, <1>5, <2>1, <2>2, <2>3, <3>1 DEF SessionInv
  <2>5. CASE h = g
    <3>1. conn[d].channel /\ Session(d, g) => conn[d].ws = g
      BY <1>7, <2>1, <2>5 DEF SessionInv
    <3>2. gen'[g].stage = "opened"
      BY <1>3, <1>7
    <3> QED
      BY <1>1, <1>4, <2>5, <3>1, <3>2 DEF SessionInv
  <2> QED
    BY <2>4, <2>5
<1> QED
  BY <1>8, <1>9, <1>10, <1>11, <1>12 DEF TransportInv

LEMMA WriteFailsTransport ==
  ASSUME Types, Marked, Links, TransportInv, NEW o \in Openers, WriteFails(o)
  PROVE  TransportInv'
<1>1. PICK g \in Gens :
         /\ UNCHANGED <<guild, made, gen, opened, loop, user, news, spent>>
         /\ opener[o].pc = "write" /\ opener[o].gen = g /\ opener[o].conn = gen[g].conn
         /\ gen[g].pc = "none" /\ gen[g].conn # None
         /\ opener'[o] = Idle /\ \A q \in Openers : q # o => opener'[q] = opener[q]
         /\ \A d \in Conns : /\ conn'[d].ws = IF conn[d].ws = g /\ gen[g].conn = d
                                              THEN None ELSE conn[d].ws
                             /\ conn'[d].ready = conn[d].ready /\ conn'[d].udp = conn[d].udp
                             /\ conn'[d].channel = conn[d].channel /\ conn'[d].key = conn[d].key
                             /\ faults[d] \subseteq faults'[d] /\ due[d] <= due'[d]
  BY WriteFailsEffect DEF TransportInv
<1>2. gen' = gen /\ Lineage
  BY <1>1 DEF Lineage
<1>3. \A d \in Conns, h \in Gens : Session(d, h)' <=> Session(d, h)
  BY <1>2, LineageSessions
<1>4. /\ \A q \in Openers, h \in Gens : Writes(q, h)' => Writes(q, h) /\ h # g
      /\ \A q \in Openers, h \in Gens : h # g /\ Writes(q, h) => Writes(q, h)'
  <2>1. ASSUME NEW q \in Openers, NEW h \in Gens
        PROVE  /\ Writes(q, h)' => Writes(q, h) /\ h # g
               /\ h # g /\ Writes(q, h) => Writes(q, h)'
    <3>1. CASE q = o
      BY <1>1, <3>1 DEF Writes, Idle
    <3>2. CASE q # o
      BY <1>1, <3>2 DEF Writes, Links
    <3> QED
      BY <3>1, <3>2
  <2> QED
    BY <2>1
<1>5. \A d \in Conns : conn[d].ws = g => gen[g].conn = d
  BY WsFacts
<1>6. \A d \in Conns : conn'[d].ws = IF conn[d].ws = g THEN None ELSE conn[d].ws
  BY <1>1, <1>5
<1>7. \A h \in Gens : Stage(h)'
  BY <1>2 DEF TransportInv, Stage
<1>8. ASSUME NEW d \in Conns
      PROVE  WsInv(d)'
  <2>1. CASE conn[d].ws = g
    BY <1>6, <2>1 DEF WsInv
  <2>2. CASE conn[d].ws # g
    <3>1. conn'[d].ws = conn[d].ws /\ conn[d].ws \in Gens \union {None}
      BY <1>6, <2>2 DEF Types, ConnType
    <3>2. conn[d].ws # None =>
             /\ gen'[conn[d].ws] = gen[conn[d].ws]
             /\ \A q \in Openers : Writes(q, conn[d].ws) => Writes(q, conn[d].ws)'
      <4>1. SUFFICES ASSUME conn[d].ws # None
                     PROVE  /\ gen'[conn[d].ws] = gen[conn[d].ws]
                            /\ \A q \in Openers : Writes(q, conn[d].ws) => Writes(q, conn[d].ws)'
        OBVIOUS
      <4>2. PICK k \in Gens : k = conn[d].ws /\ k = conn'[d].ws /\ k # g
        BY <2>2, <3>1, <4>1
      <4>3. \A q \in Openers : Writes(q, k) => Writes(q, k)'
        BY <1>4, <4>2
      <4> QED
        BY <1>2, <4>2, <4>3 DEF Writes
    <3>3. \A h \in Gens : gen[h].stage = "served" => gen'[h].stage = "served"
      BY <1>2
    <3> QED
      BY <1>1, <1>2, <3>1, <3>2, <3>3, WsKept
  <2> QED
    BY <2>1, <2>2
<1>9. ASSUME NEW d \in Conns
       PROVE  UdpInv(d)'
  <2>1. UdpInv(d)
    BY DEF TransportInv
  <2> QED
    BY <1>1, <1>2, <2>1 DEF UdpInv
<1>10. ASSUME NEW d \in Conns
       PROVE  ReadyInv(d)'
  <2>1. ReadyInv(d) /\ (Whole(d)' => Whole(d))
    BY <1>1 DEF TransportInv, Whole
  <2> QED
    BY <1>1, <2>1 DEF ReadyInv
<1>11. ASSUME NEW d \in Conns, NEW h \in Gens
       PROVE  SessionInv(d, h)'
  <2>1. SessionInv(d, h) /\ (Whole(d)' => Whole(d))
    BY <1>1 DEF TransportInv, Whole
  <2>2. gen'[h].pc \in Live => h # g
    BY <1>1, <1>2 DEF Live
  <2>3. /\ conn'[d].udp = conn[d].udp /\ conn'[d].channel = conn[d].channel
        /\ conn'[d].ready = conn[d].ready /\ conn'[d].key = conn[d].key
        /\ conn[d].ws = h /\ h # g => conn'[d].ws = h
    BY <1>1, <1>6
  <2>4. gen'[h].pc \in Live \/ (\E q \in Openers : Writes(q, h)') =>
            h # g /\ (gen[h].pc \in Live \/ (\E q \in Openers : Writes(q, h)))
    BY <1>2, <1>4, <2>2
  <2>99. "noKey" \in faults[d] => "noKey" \in faults'[d]
    BY <1>1
  <2> QED
    BY <1>2, <1>3, <2>1, <2>3, <2>4, <2>99 DEF SessionInv
<1> QED
  BY <1>7, <1>8, <1>9, <1>10, <1>11 DEF TransportInv

LEMMA InstallTransport ==
  ASSUME Types, Marked, Links, TransportInv, NEW o \in Openers, Install(o), opened' # opened
  PROVE  TransportInv'
<1>1. PICK c \in Conns, g \in Gens :
         /\ opener[o].pc = "dial" /\ opener[o].conn = c /\ g = opened + 1
         /\ gen[g].conn = None /\ conn[c].ws = None
         /\ opener'[o].pc = "write" /\ opener'[o].gen = g /\ opener'[o].conn = c
         /\ \A q \in Openers : q # o => opener'[q] = opener[q]
         /\ gen'[g].conn = c /\ gen'[g].resume = opener[o].resume /\ gen'[g].pc = "none"
         /\ gen[g].pc = "none" /\ gen'[g].stage = "opened" /\ ~gen'[g].resumed
         /\ \A h \in Gens : /\ h # g => gen'[h] = gen[h]
                            /\ h > g => gen'[h].conn = None
         /\ conn'[c].ws = g
         /\ IF opener[o].resume
            THEN /\ conn'[c].channel = conn[c].channel
                 /\ ~conn[c].channel => "revived" \in faults'[c]
            ELSE conn'[c].channel
         /\ \A d \in Conns : /\ d # c => conn'[d].ws = conn[d].ws /\ conn'[d].channel = conn[d].channel
                             /\ conn'[d].ready = conn[d].ready /\ conn'[d].udp = conn[d].udp
                             /\ conn'[d].key = conn[d].key
                             /\ faults[d] \subseteq faults'[d]
  BY InstallEffect DEF TransportInv
<1>2. c # None /\ g # None
  BY Bounds DEF None
<1>3. /\ gen[g].stage = "opened" /\ ~gen[g].resume
      /\ \A h \in Gens : gen[h].conn # None => h # g /\ h < g
  <2>1. Stage(g)
    BY DEF TransportInv
  <2>2. \A h \in Gens : gen[h].conn # None => ~(h > opened)
    BY DEF Links
  <2>3. ~gen[g].resume
    <3>1. g > opened
      BY <1>1 DEF Types
    <3> QED
      BY <3>1 DEF Links
  <2>4. opened \in Nat
    BY DEF Types
  <2> QED
    BY <1>1, <2>1, <2>2, <2>3, <2>4, Bounds DEF Stage
<1>4. \A h \in Gens : gen[h].conn # None => gen'[h] = gen[h]
  BY <1>1, <1>3
<1>5. \A d \in Conns, h \in Gens : d # c => (Session(d, h)' <=> Session(d, h))
  <2>1. \A d \in Conns : d # c => SameSessions(d)
    <3>1. \A d \in Conns : d # None
      BY Bounds DEF None
    <3> QED
      BY <1>1, <3>1 DEF SameSessions
  <2> QED
    BY <2>1, SessionSame
<1>6. \A h \in Gens : Session(c, h)' =>
         \/ h = g /\ ~opener[o].resume
         \/ h # g /\ opener[o].resume /\ Session(c, h)
  <2>1. SUFFICES ASSUME NEW h \in Gens, Session(c, h)'
                 PROVE  \/ h = g /\ ~opener[o].resume
                        \/ h # g /\ opener[o].resume /\ Session(c, h)
    OBVIOUS
  <2>2. CASE h = g
    BY <1>1, <2>1, <2>2 DEF Session
  <2>3. CASE h # g
    <3>1. gen[h].conn = c /\ ~gen[h].resume /\ gen'[h] = gen[h] /\ h < g
      BY <1>1, <1>2, <1>3, <2>1, <2>3 DEF Session
    <3>2. opener[o].resume
      BY <1>1, <2>1, <3>1, Bounds DEF Session
    <3>3. \A k \in Gens : k > h /\ gen[k].conn = c => gen[k].resume
      BY <1>1, <1>2, <1>4, <2>1 DEF Session
    <3> QED
      BY <2>3, <3>1, <3>2, <3>3 DEF Session
  <2> QED
    BY <2>2, <2>3
<1>7. /\ Writes(o, g)'
      /\ \A q \in Openers, h \in Gens : h # g => (Writes(q, h)' <=> Writes(q, h))
  <2>1. Writes(o, g)'
    BY <1>1 DEF Writes
  <2>2. ASSUME NEW q \in Openers, NEW h \in Gens, h # g
        PROVE  Writes(q, h)' <=> Writes(q, h)
    <3>1. CASE q = o
      BY <1>1, <2>2, <3>1 DEF Writes
    <3>2. CASE q # o
      BY <1>1, <3>2 DEF Writes
    <3> QED
      BY <3>1, <3>2
  <2> QED
    BY <2>1, <2>2
<1>8. ASSUME NEW h \in Gens
      PROVE  Stage(h)'
  <2>1. Stage(h) /\ gen[h].over \in Gens \union {None}
    BY DEF TransportInv, Types, GenType
  <2>2. CASE h = g
    BY <1>1, <1>2, <2>2 DEF Stage
  <2>3. CASE h # g
    <3>1. gen'[h] = gen[h]
      BY <1>1, <2>3
    <3>2. gen[h].pc \in {"udp", "handshake"} =>
              gen[h].over # None /\ gen'[gen[h].over].conn = gen[h].conn
      BY <1>4, <2>1 DEF Stage
    <3> QED
      BY <2>1, <3>1, <3>2 DEF Stage
  <2> QED
    BY <2>2, <2>3
<1>9. ASSUME NEW d \in Conns
      PROVE  UdpInv(d)'
  <2>1. UdpInv(d) /\ {conn[d].udp, conn[d].key} \subseteq Gens \union {None}
    BY DEF TransportInv, Types, ConnType
  <2>2. conn[d].udp # None => gen'[conn[d].udp] = gen[conn[d].udp]
    <3>1. conn[d].udp # None => conn[d].udp # g
      BY <1>3, <2>1 DEF UdpInv
    <3> QED
      BY <1>1, <2>1, <3>1
  <2>3. conn[d].key # None => gen'[conn[d].key] = gen[conn[d].key]
    <3>1. conn[d].key # None => conn[d].key # g
      BY <1>3, <2>1 DEF UdpInv
    <3> QED
      BY <1>1, <2>1, <3>1
  <2>4. conn'[d].udp = conn[d].udp /\ conn'[d].key = conn[d].key /\ faults[d] \subseteq faults'[d]
    BY <1>1
  <2> QED
    BY <2>1, <2>2, <2>3, <2>4 DEF UdpInv
<1>10. ASSUME NEW d \in Conns
       PROVE  ReadyInv(d)'
  <2>1. ReadyInv(d) /\ (Whole(d)' => Whole(d))
    BY <1>1 DEF TransportInv, Whole
  <2> QED
    BY <1>1, <2>1 DEF ReadyInv
<1>11. ASSUME NEW d \in Conns
       PROVE  WsInv(d)'
  <2>1. CASE d = c
    <3>1. conn'[c].ws = g /\ gen'[g].conn = c /\ \A k \in Gens : k > g => gen'[k].conn # c
      BY <1>1, <1>2
    <3>2. \E q \in Openers : Writes(q, g)'
      BY <1>7
    <3>3. gen'[g].pc = "none" /\ gen'[g].pc \notin Ended /\ gen'[g].stage = "opened" /\ ~gen'[g].resumed
      BY <1>1 DEF Ended
    <3>4. (~gen'[g].resume => conn'[c].channel)
          /\ (gen'[g].resume /\ ~conn'[c].channel => "revived" \in faults'[c])
      BY <1>1
    <3> QED
      BY <2>1, <3>1, <3>2, <3>3, <3>4 DEF WsInv
  <2>2. CASE d # c
    <3>1. SUFFICES ASSUME conn[d].ws # None PROVE WsInv(d)'
      BY <1>1, <2>2 DEF WsInv
    <3>2. PICK k \in Gens : k = conn[d].ws
      BY <3>1 DEF Types, ConnType
    <3>3. /\ gen[k].conn = d /\ \A j \in Gens : j > k => gen[j].conn # d
          /\ gen[k].pc = "none" => \E q \in Openers : Writes(q, k)
          /\ gen[k].pc \notin Ended
          /\ ~gen[k].resume => conn[d].channel
          /\ gen[k].resume /\ ~conn[d].channel => "revived" \in faults[d]
          /\ gen[k].pc \in {"udp", "handshake"} => gen[k].over = k
          /\ gen[k].stage = "greeted" /\ gen[k].pc = "reading" => "noUDP" \in faults[d]
          /\ gen[k].resume /\ gen[k].stage = "served" =>
                \E h \in Gens : Session(d, h) /\ gen[h].stage = "served"
          /\ gen[k].resumed => conn[d].ready
      BY <3>2, WsFacts
    <3>4. k # g /\ gen'[k] = gen[k]
      BY <1>1, <3>3, Bounds DEF None
    <3>5. \A j \in Gens : j > k => gen'[j].conn # d
      <4>1. \A j \in Gens : j # g => gen'[j] = gen[j]
        BY <1>1
      <4> QED
        BY <1>1, <2>2, <3>3, <4>1
    <3>6. (\E q \in Openers : Writes(q, k)) => (\E q \in Openers : Writes(q, k)')
      BY <1>7, <3>4
    <3>7. (\E h \in Gens : Session(d, h) /\ gen[h].stage = "served")
              => (\E h \in Gens : Session(d, h) /\ gen[h].stage = "served")'
      <4>1. SUFFICES ASSUME NEW h \in Gens, Session(d, h), gen[h].stage = "served"
                     PROVE  Session(d, h)' /\ gen'[h].stage = "served"
        OBVIOUS
      <4>2. gen'[h] = gen[h]
        BY <1>1, <1>3, <4>1
      <4> QED
        BY <1>5, <2>2, <4>1, <4>2
    <3>8. /\ conn'[d].ws = k /\ conn'[d].channel = conn[d].channel /\ conn'[d].ready = conn[d].ready
          /\ faults[d] \subseteq faults'[d]
      BY <1>1, <2>2, <3>2
    <3> QED
      BY <3>3, <3>4, <3>5, <3>6, <3>7, <3>8 DEF WsInv
  <2> QED
    BY <2>1, <2>2
<1>12. ASSUME NEW d \in Conns, NEW h \in Gens
       PROVE  SessionInv(d, h)'
  <2>1. SessionInv(d, h) /\ UdpInv(d) /\ (Whole(d)' => Whole(d)) /\ conn[d].udp \in Gens \union {None}
    BY <1>1 DEF TransportInv, Whole, Types, ConnType
  <2>2. SUFFICES ASSUME conn'[d].channel, Session(d, h)' PROVE SessionInv(d, h)'
    BY DEF SessionInv
  <2>3. CASE h = g /\ d = c
    <3>1. gen'[h].stage = "opened" /\ conn'[d].ws = h
      BY <1>1, <2>3
    <3> QED
      BY <2>2, <3>1 DEF SessionInv
  <2>4. CASE ~(h = g /\ d = c)
    <3>1. h # g /\ Session(d, h) /\ conn[d].channel /\ (d = c => opener[o].resume)
      <4>1. CASE d = c
        <5>1. h # g
          BY <2>4, <4>1
        <5>2. opener[o].resume /\ Session(c, h)
          BY <1>6, <2>2, <4>1, <5>1
        <5> QED
          BY <1>1, <2>2, <4>1, <5>1, <5>2
      <4>2. CASE d # c
        <5>1. Session(d, h) /\ conn[d].channel
          BY <1>1, <1>5, <2>2, <4>2
        <5>2. h # g
          BY <1>1, <5>1, Bounds DEF Session, None
        <5> QED
          BY <4>2, <5>1, <5>2
      <4> QED
        BY <4>1, <4>2
    <3>2. gen'[h] = gen[h]
      BY <1>1, <3>1
    <3>3. gen[h].pc \in Live \/ (\E q \in Openers : Writes(q, h)) => conn[d].ws = h
      BY <2>1, <3>1 DEF SessionInv
    <3>4. (\E q \in Openers : Writes(q, h)') => (\E q \in Openers : Writes(q, h))
      BY <1>7, <3>1
    <3>5. conn[d].ws = h => conn'[d].ws = h
      BY <1>1, Bounds DEF None
    <3>6. conn[d].udp # None => gen'[conn[d].udp] = gen[conn[d].udp]
      <4>1. conn[d].udp # None => conn[d].udp # g
        BY <1>3, <2>1 DEF UdpInv
      <4> QED
        BY <1>1, <2>1, <4>1
    <3>7. conn'[d].udp = conn[d].udp /\ conn'[d].ready = conn[d].ready /\ conn'[d].key = conn[d].key
      BY <1>1
    <3>99. "noKey" \in faults[d] => "noKey" \in faults'[d]
      BY <1>1
    <3> QED
      BY <2>1, <2>2, <3>1, <3>2, <3>3, <3>4, <3>5, <3>6, <3>7, <3>99 DEF SessionInv
  <2> QED
    BY <2>3, <2>4
<1> QED
  BY <1>8, <1>9, <1>10, <1>11, <1>12 DEF TransportInv


-----------------------------------------------------------------------------
(* The transport is sound in every reachable state.                             *)

CoreInv == Types /\ Marked /\ Links /\ TransportInv

LEMMA CoreInit ==
  ASSUME Init
  PROVE  CoreInv
<1> USE Bounds
<1>1. /\ \A c \in Conns : conn[c] = NewConn /\ loop[c].pc = "idle" /\ faults[c] = {}
      /\ \A g \in Gens : gen[g] = [conn |-> None, resume |-> FALSE, resumed |-> FALSE,
                                   over |-> None, stage |-> "opened", pc |-> "none"]
      /\ \A o \in Openers : opener[o] = Idle
      /\ opened = 0 /\ user = [pc |-> "idle", handle |-> None, wants |-> FALSE]
  BY DEF Init
<1>2. NewConn \in ConnType
  BY DEF NewConn, ConnType, None
<1>3. [conn |-> None, resume |-> FALSE, resumed |-> FALSE, over |-> None, stage |-> "opened",
       pc |-> "none"] \in GenType
  BY DEF GenType, Stages, None
<1>4. Idle \in OpenerType /\ [pc |-> "idle", target |-> None] \in LoopType
      /\ [pc |-> "idle", handle |-> None, wants |-> FALSE] \in UserType
  BY DEF Idle, OpenerType, LoopType, UserType, None
<1>5. Types
  BY <1>2, <1>3, <1>4 DEF Types, Init
<1>6. Marked
  BY <1>1 DEF Marked, NewConn
<1>7. /\ \A g \in Gens : g > opened /\ gen[g].conn = None /\ ~gen[g].resume
      /\ \A o \in Openers : opener[o].pc = "idle"
  BY <1>1 DEF Gens, Idle
<1>8. Links
  BY <1>1, <1>7 DEF Links
<1>9. /\ \A c \in Conns : /\ conn[c].ws = None /\ conn[c].udp = None /\ conn[c].key = None
                          /\ ~conn[c].ready /\ ~conn[c].channel
      /\ \A g \in Gens : /\ gen[g].pc = "none" /\ gen[g].stage = "opened"
                         /\ ~gen[g].resume /\ ~gen[g].resumed
  BY <1>1 DEF NewConn
<1>10. \A g \in Gens : Stage(g)
  BY <1>9 DEF Stage
<1>11. \A c \in Conns : WsInv(c) /\ UdpInv(c) /\ ReadyInv(c)
  BY <1>9 DEF WsInv, UdpInv, ReadyInv
<1>12. \A c \in Conns, h \in Gens : SessionInv(c, h)
  BY <1>9 DEF SessionInv
<1> QED
  BY <1>5, <1>6, <1>8, <1>10, <1>11, <1>12 DEF CoreInv, TransportInv

(* A step that keeps the transport or takes all of it.                            *)
LEMMA CoreKept ==
  ASSUME CoreInv, Kept
  PROVE  CoreInv'
  BY CalmTransport DEF CoreInv, Kept

LEMMA CoreOpening ==
  ASSUME CoreInv, NEW o \in Openers, Opening(o)
  PROVE  CoreInv'
<1>1. Types /\ Marked /\ Links /\ TransportInv /\ \A k \in Gens : Stage(k)
  BY DEF CoreInv, TransportInv
<1>2. CASE HasSession(o) \/ NoSessionInTime(o) \/ DialFails(o) \/ (Install(o) /\ opened' = opened)
  <2>1. Kept
    BY <1>1, <1>2, OpeningKept
  <2> QED
    BY <2>1, CoreKept
<1>3. CASE Install(o) /\ opened' # opened
  <2>1. Types' /\ Marked' /\ Links'
    BY <1>1, <1>3, InstallEffect
  <2>2. TransportInv'
    BY <1>1, <1>3, InstallTransport
  <2> QED
    BY <2>1, <2>2 DEF CoreInv
<1>4. CASE Start(o)
  <2>1. Types' /\ Marked' /\ Links'
    BY <1>1, <1>4, StartEffect
  <2>2. TransportInv'
    BY <1>1, <1>4, StartTransport
  <2> QED
    BY <2>1, <2>2 DEF CoreInv
<1>5. CASE WriteFails(o)
  <2>1. Types' /\ Marked' /\ Links'
    BY <1>1, <1>5, WriteFailsEffect
  <2>2. TransportInv'
    BY <1>1, <1>5, WriteFailsTransport
  <2> QED
    BY <2>1, <2>2 DEF CoreInv
<1> QED
  BY <1>2, <1>3, <1>4, <1>5 DEF Opening

LEMMA CoreListening ==
  ASSUME CoreInv, NEW g \in Gens, Listening(g)
  PROVE  CoreInv'
<1>1. Types /\ Marked /\ Links /\ TransportInv /\ \A k \in Gens : Stage(k)
  BY DEF CoreInv, TransportInv
<1>2. SUFFICES Types' /\ Marked' /\ Links' /\ TransportInv'
  BY DEF CoreInv
<1>3. CASE Winding(g)
  <2>1. Kept
    BY <1>1, <1>3, WindingKept
  <2>2. CoreInv'
    BY <2>1, CoreKept
  <2> QED
    BY <2>2 DEF CoreInv
<1>4. CASE Read(g)
  BY <1>1, <1>4, ReadEffect, ReadTransport
<1>5. CASE ListenEnds(g)
  BY <1>1, <1>5, ListenEndsEffect, ListenEndsTransport
<1>6. CASE OpenUDP(g)
  BY <1>1, <1>6, OpenUDPEffect, OpenUDPTransport
<1>7. CASE InstallUDP(g)
  BY <1>1, <1>7, InstallUDPEffect, InstallUDPTransport
<1>8. CASE UDPAnswers(g)
  <2>1. Types' /\ Marked' /\ Links'
    BY <1>1, <1>8, UDPAnswersEffect
  <2> QED
    BY <1>1, <1>8, <2>1, UDPAnswersTransport
<1>9. CASE UDPFails(g)
  BY <1>1, <1>9, UDPFailsEffect, UDPFailsTransport
<1>10. CASE TakeKey(g)
  BY <1>1, <1>10, TakeKeyEffect, TakeKeyTransport
<1>11. CASE TakeResumed(g)
  BY <1>1, <1>11, TakeResumedEffect, TakeResumedTransport
<1>13. CASE Refused(g)
  BY <1>1, <1>13, RefusedEffect, RefusedTransport
<1>12. ASSUME NEW class \in Classes, ReadFails(g, class)
       PROVE  Types' /\ Marked' /\ Links' /\ TransportInv'
  <2>1. Types' /\ Marked' /\ Links'
    BY <1>1, <1>12, ReadFailsEffect
  <2> QED
    BY <1>1, <1>12, <2>1, ReadFailsTransport
<1> QED
  BY <1>3, <1>4, <1>5, <1>6, <1>7, <1>8, <1>9, <1>10, <1>11, <1>12, <1>13
  DEF Listening, Winding, Refused

LEMMA CoreStutters ==
  ASSUME CoreInv, UNCHANGED vars
  PROVE  CoreInv'
<1>1. /\ conn' = conn /\ gen' = gen /\ opener' = opener /\ loop' = loop /\ user' = user /\ due' = due
      /\ faults' = faults /\ guild' = guild /\ made' = made /\ opened' = opened /\ news' = news
      /\ spent' = spent
  BY DEF vars
<1>2. Types' /\ Marked' /\ Links'
  BY <1>1 DEF CoreInv, Types, Marked, Links
<1>3. Calm
  BY <1>1 DEF Calm, SameConn, SameGen, SameWriters
<1> QED
  BY <1>2, <1>3, CoreKept DEF Kept

LEMMA CoreStep ==
  ASSUME CoreInv, [Next]_vars
  PROVE  CoreInv'
<1>1. Types /\ Marked /\ Links /\ TransportInv
  BY DEF CoreInv
<1>2. CASE Application
  BY <1>1, <1>2, ApplicationKept, CoreKept
<1>3. CASE Updates
  BY <1>1, <1>3, UpdatesKept, CoreKept
<1>4. ASSUME NEW o \in Openers, Opening(o)
      PROVE  CoreInv'
  BY <1>4, CoreOpening
<1>5. ASSUME NEW g \in Gens, Listening(g)
      PROVE  CoreInv'
  BY <1>5, CoreListening
<1>6. ASSUME NEW c \in Conns, Reconnecting(c)
      PROVE  CoreInv'
  BY <1>1, <1>6, ReconnectingKept, CoreKept
<1>7. CASE UNCHANGED vars
  BY <1>7, CoreStutters
<1> QED
  BY <1>2, <1>3, <1>4, <1>5, <1>6, <1>7 DEF Next

LEMMA CoreAlways == Spec => []CoreInv
<1>1. Init => CoreInv
  BY CoreInit
<1>2. CoreInv /\ [Next]_vars => CoreInv'
  BY CoreStep
<1> QED
  BY <1>1, <1>2, PTL DEF Spec

LEMMA CoreTypes ==
  ASSUME CoreInv
  PROVE  TypeOK
<1>1. \A c \in Conns : conn[c].ws # None => gen[conn[c].ws].conn = c
  BY DEF CoreInv, TransportInv, WsInv
<1>2. Types /\ Flags
  BY <1>1 DEF CoreInv, Marked, Flags
<1> QED
  BY <1>2, TypeForm

(* Every field keeps its type, a websocket is that of the object whose wsConn it  *)
(* is, and an object is marked as reconnecting exactly while a reconnect call     *)
(* runs its loop (voice.go, reconnect).                                           *)
THEOREM TypeCorrect == Spec => []TypeOK
<1>1. CoreInv => TypeOK
  BY CoreTypes
<1> QED
  BY <1>1, CoreAlways, PTL

(* Ready is set only on an object with a UDP socket and the cipher of the         *)
(* generation that opened it, unless a message of an older generation was         *)
(* handled after a Close, a resume was installed after one, or OP4 could not be   *)
(* handled (onEventForGeneration's OP4 and OP9, openVoiceWebsocket).              *)
THEOREM ReadyOnlyIfUsable == Spec => []ReadyIsUsable
<1>1. CoreInv => ReadyIsUsable
  BY DEF CoreInv, TransportInv, ReadyInv, ReadyIsUsable, Whole
<1> QED
  BY <1>1, CoreAlways, PTL


-----------------------------------------------------------------------------
(* A connection that is wanted and has no websocket is being worked on, or its    *)
(* last attempt has failed.                                                       *)

WorkOf(c) ==
    user.wants /\ user.handle = c /\ guild = c /\ conn[c].ws = None /\ ~Working(c)
        => faults[c] \intersect {"notOpened", "notReconnected"} # {}

\* What the work on c rests on stays: calls to come, the loop, the opener, a listener that
\* has ended.
SameWork(c) ==
    /\ conn'[c].ws = conn[c].ws /\ faults[c] \subseteq faults'[c]
    /\ news.server > 0 => news'.server > 0
    /\ due[c] > 0 => due'[c] > 0
    /\ \A d \in Conns : loop[d].pc \in {"close", "sleep"} => loop'[d].pc \in {"close", "sleep"}
    /\ \A o \in Openers : opener[o].conn = c /\ opener[o].pc \in {"session", "dial"}
          => opener'[o].conn = c /\ opener'[o].pc \in {"session", "dial"}
    /\ \A g \in Gens : gen[g].conn = c /\ gen[g].pc \in Ended \ {"done"}
          => gen'[g].conn = c /\ gen'[g].pc \in Ended \ {"done"}

SameWish == (user'.wants => user.wants /\ user'.handle = user.handle) /\ guild' \in {guild, None}

LEMMA WorkSame ==
  ASSUME WorkInv, SameWish, NEW c \in Conns, SameWork(c)
  PROVE  WorkOf(c)'
<1> USE Bounds
<1>1. SUFFICES ASSUME user'.wants, user'.handle = c, guild' = c, conn'[c].ws = None, ~Working(c)'
               PROVE  faults'[c] \intersect {"notOpened", "notReconnected"} # {}
  BY DEF WorkOf
<1>2. user.wants /\ user.handle = c /\ guild = c /\ conn[c].ws = None
  BY <1>1 DEF SameWish, SameWork, None
<1>3. ~Working(c)
  <2>1. ~(news.server > 0) /\ ~(due[c] > 0)
    BY <1>1 DEF Working, SameWork
  <2>2. ~\E d \in Conns : loop[d].pc \in {"close", "sleep"}
    BY <1>1 DEF Working, SameWork
  <2>3. ~\E o \in Openers : opener[o].conn = c /\ opener[o].pc \in {"session", "dial"}
    BY <1>1 DEF Working, SameWork
  <2>4. ~\E g \in Gens : gen[g].conn = c /\ gen[g].pc \in Ended \ {"done"}
    BY <1>1 DEF Working, SameWork
  <2> QED
    BY <2>1, <2>2, <2>3, <2>4 DEF Working
<1>4. faults[c] \intersect {"notOpened", "notReconnected"} # {}
  BY <1>2, <1>3 DEF WorkInv
<1> QED
  BY <1>4 DEF SameWork

LEMMA ApplicationWork ==
  ASSUME CoreInv, WorkInv, Application, NEW c \in Conns
  PROVE  WorkOf(c)'
<1>1. Types /\ Links
  BY DEF CoreInv
<1>2. CASE Join
  <2>1. news'.server > 0
    BY <1>1, <1>2 DEF Join, JoinChannel, Types
  <2> QED
    BY <2>1 DEF WorkOf, Working
<1>3. CASE Joined
  <2>1. /\ conn' = conn /\ faults' = faults /\ news' = news /\ due' = due /\ loop' = loop
        /\ opener' = opener /\ gen' = gen /\ guild' = guild
        /\ user' = [user EXCEPT !.pc = "idle"]
    BY <1>3 DEF Joined
  <2>2. user'.wants = user.wants /\ user'.handle = user.handle
    BY <1>1, <2>1 DEF Types, UserType
  <2> QED
    BY <2>1, <2>2, WorkSame DEF SameWork, SameWish
<1>4. CASE JoinTimesOut \/ Disconnect \/ Close
  <2>1. ~user'.wants
    BY <1>1, <1>4 DEF JoinTimesOut, Disconnect, Close, Types, UserType
  <2> QED
    BY <2>1 DEF WorkOf
<1>5. CASE DisconnectCloses \/ DisconnectDeletes
  <2>1. ~user.wants
    BY <1>1, <1>5 DEF DisconnectCloses, DisconnectDeletes, Links
  <2>2. ~user'.wants
    BY <1>1, <1>5, <2>1 DEF DisconnectCloses, DisconnectDeletes, Types, UserType
  <2> QED
    BY <2>2 DEF WorkOf
<1> QED
  BY <1>2, <1>3, <1>4, <1>5 DEF Application

LEMMA UpdatesWork ==
  ASSUME CoreInv, WorkInv, Updates, NEW c \in Conns
  PROVE  WorkOf(c)'
<1>1. Types
  BY DEF CoreInv
<1>2. CASE Move
  <2>1. news'.server > 0
    BY <1>1, <1>2 DEF Move, Types
  <2> QED
    BY <2>1 DEF WorkOf, Working
<1>3. CASE VoiceStateUpdate
  <2>1. /\ faults' = faults /\ due' = due /\ loop' = loop /\ opener' = opener /\ gen' = gen
        /\ guild' = guild /\ user' = user /\ news' = [news EXCEPT !.state = @ - 1]
        /\ conn' = IF guild = None THEN conn ELSE [conn EXCEPT ![guild].sessionID = TRUE]
    BY <1>3 DEF VoiceStateUpdate
  <2>2. news'.server = news.server
    BY <1>1, <2>1 DEF Types
  <2>3. conn'[c].ws = conn[c].ws
    BY <1>1, <2>1 DEF Types, ConnType
  <2> QED
    BY <2>1, <2>2, <2>3, WorkSame DEF SameWork, SameWish
<1>4. ASSUME NEW o \in Openers, VoiceServerUpdate(o)
      PROVE  WorkOf(c)'
  <2>1. guild' = guild
    BY <1>4 DEF VoiceServerUpdate
  <2>2. CASE guild # c
    BY <2>1, <2>2 DEF WorkOf
  <2>3. CASE guild = c
    <3>1. opener' = [opener EXCEPT ![o] = [Idle EXCEPT !.pc = "session", !.conn = c]]
      BY <1>4, <2>3, Bounds DEF VoiceServerUpdate, None
    <3>2. opener'[o].conn = c /\ opener'[o].pc = "session"
      BY <1>1, <3>1 DEF Types, Idle
    <3> QED
      BY <3>2 DEF WorkOf, Working
  <2> QED
    BY <2>2, <2>3
<1> QED
  BY <1>2, <1>3, <1>4 DEF Updates

\* An open that fails without touching the websocket of its object.
LEMMA OpenFailsWork ==
  ASSUME CoreInv, WorkInv, NEW o \in Openers, OpenFails(o), opener[o].conn # None,
         UNCHANGED <<gen, guild, loop, user, news>>, NEW c \in Conns,
         conn'[c].ws = conn[c].ws \/ opener[o].conn = c
  PROVE  WorkOf(c)'
<1>1. Types
  BY DEF CoreInv
<1>2. /\ \A q \in Openers : q # o => opener'[q] = opener[q]
      /\ faults[c] \subseteq faults'[c] /\ due[c] <= due'[c] /\ due[c] \in Nat /\ due'[c] \in Nat
      /\ opener[o].resume => due'[opener[o].conn] > 0
      /\ ~opener[o].resume => "notOpened" \in faults'[opener[o].conn]
  BY <1>1, OpenFailsEffect DEF Types
<1>3. CASE opener[o].conn = c
  BY <1>2, <1>3 DEF WorkOf, Working
<1>4. CASE opener[o].conn # c
  <2>1. due[c] > 0 => due'[c] > 0
    BY <1>2
  <2>2. \A q \in Openers : opener[q].conn = c /\ opener[q].pc \in {"session", "dial"}
          => opener'[q].conn = c /\ opener'[q].pc \in {"session", "dial"}
    BY <1>2, <1>4
  <2>3. SameWork(c)
    BY <1>2, <1>4, <2>1, <2>2 DEF SameWork
  <2> QED
    BY <2>3, WorkSame DEF SameWish
<1> QED
  BY <1>3, <1>4

LEMMA OpeningWork ==
  ASSUME CoreInv, WorkInv, NEW o \in Openers, Opening(o), NEW c \in Conns
  PROVE  WorkOf(c)'
<1>1. Types /\ Marked /\ Links /\ TransportInv /\ \A k \in Gens : Stage(k)
  BY DEF CoreInv, TransportInv
<1>2. UNCHANGED <<guild, loop, user, news>> /\ opener[o].conn # None
  BY <1>1 DEF Opening, HasSession, NoSessionInTime, DialFails, Install, Start, WriteFails, Links
<1>3. CASE HasSession(o) \/ NoSessionInTime(o) \/ DialFails(o) \/ (Install(o) /\ opened' = opened)
  <2>1. /\ conn' = conn /\ gen' = gen
        /\ \/ OpenFails(o)
           \/ /\ opener' = [opener EXCEPT ![o].pc = "dial"] /\ opener[o].pc = "session"
              /\ due' = due /\ faults' = faults
    <3>1. CASE Install(o) /\ opened' = opened
      <4>1. opened' # opened + 1
        BY <1>1, <3>1 DEF Types
      <4> QED
        BY <3>1, <4>1 DEF Install
    <3> QED
      BY <1>3, <3>1 DEF HasSession, NoSessionInTime, DialFails
  <2>2. CASE OpenFails(o)
    BY <1>2, <2>1, <2>2, OpenFailsWork
  <2>3. CASE opener' = [opener EXCEPT ![o].pc = "dial"] /\ opener[o].pc = "session"
             /\ due' = due /\ faults' = faults
    <3>1. /\ \A q \in Openers : q # o => opener'[q] = opener[q]
          /\ opener'[o].pc = "dial" /\ opener'[o].conn = opener[o].conn
      BY <1>1, <2>3 DEF Types, OpenerType
    <3>2. SameWork(c)
      BY <1>2, <2>1, <2>3, <3>1 DEF SameWork
    <3> QED
      BY <1>2, <3>2, WorkSame DEF SameWish
  <2> QED
    BY <2>1, <2>2, <2>3
<1>4. CASE Install(o) /\ opened' # opened
  <2>1. PICK b \in Conns, g \in Gens :
           /\ opener[o].conn = b /\ conn'[b].ws = g /\ gen[g].pc = "none" /\ due' = due
           /\ \A q \in Openers : q # o => opener'[q] = opener[q]
           /\ \A h \in Gens : h # g => gen'[h] = gen[h]
           /\ \A d \in Conns : /\ d # b => conn'[d].ws = conn[d].ws
                               /\ faults[d] \subseteq faults'[d]
    BY <1>1, <1>4, InstallEffect
  <2>2. CASE b = c
    BY <2>1, <2>2, Bounds DEF WorkOf, None
  <2>3. CASE b # c
    <3>1. SameWork(c)
      BY <1>2, <2>1, <2>3 DEF SameWork, Ended
    <3> QED
      BY <1>2, <3>1, WorkSame DEF SameWish
  <2> QED
    BY <2>2, <2>3
<1>5. CASE Start(o)
  <2>1. PICK g \in Gens :
           /\ UNCHANGED <<conn, due, faults>> /\ opener[o].pc = "write" /\ gen[g].pc = "none"
           /\ \A q \in Openers : q # o => opener'[q] = opener[q]
           /\ Moves(g, "reading", gen[g].stage)
    BY <1>1, <1>5, StartEffect
  <2>2. SameWork(c)
    BY <1>2, <2>1 DEF SameWork, Moves, Ended
  <2> QED
    BY <1>2, <2>2, WorkSame DEF SameWish
<1>6. CASE WriteFails(o)
  <2>1. PICK g \in Gens :
           /\ opener[o].conn = gen[g].conn
           /\ \A d \in Conns : conn'[d].ws = IF conn[d].ws = g /\ gen[g].conn = d
                                             THEN None ELSE conn[d].ws
    BY <1>1, <1>6, WriteFailsEffect
  <2>2. OpenFails(o) /\ gen' = gen
    BY <1>6 DEF WriteFails
  <2> QED
    BY <1>2, <2>1, <2>2, OpenFailsWork
<1> QED
  BY <1>3, <1>4, <1>5, <1>6 DEF Opening


\* A listener that reads or handles a message.
LEMMA HeardWork ==
  ASSUME CoreInv, WorkInv, Still, NEW g \in Gens, gen[g].pc \in Live, NEW c \in Conns,
         conn'[c].ws = conn[c].ws, faults[c] \subseteq faults'[c],
         \A h \in Gens : gen'[h].conn = gen[h].conn /\ (h # g => gen'[h].pc = gen[h].pc)
  PROVE  WorkOf(c)'
<1>1. \A h \in Gens : gen[h].pc \in Ended \ {"done"} => gen'[h].pc = gen[h].pc
  BY DEF Live, Ended
<1>2. SameWork(c)
  BY <1>1 DEF SameWork, Still
<1> QED
  BY <1>2, WorkSame DEF SameWish, Still

LEMMA HearingWork ==
  ASSUME CoreInv, WorkInv, NEW g \in Gens, Listening(g), ~Winding(g), NEW c \in Conns
  PROVE  WorkOf(c)'
<1>1. Types /\ Marked /\ Links /\ TransportInv /\ \A k \in Gens : Stage(k)
  BY DEF CoreInv, TransportInv
<1>2. CASE Read(g)
  <2>1. /\ Still /\ conn' = conn /\ faults' = faults /\ gen[g].pc \in Live
        /\ \A h \in Gens : gen'[h].conn = gen[h].conn /\ (h # g => gen'[h].pc = gen[h].pc)
    BY <1>1, <1>2, ReadEffect DEF Moves, Live
  <2> QED
    BY <2>1, HeardWork
<1>3. CASE ListenEnds(g)
  <2>1. /\ Still /\ conn' = conn /\ faults' = faults /\ gen[g].pc \in Live
        /\ \A h \in Gens : gen'[h].conn = gen[h].conn /\ (h # g => gen'[h].pc = gen[h].pc)
    BY <1>1, <1>3, ListenEndsEffect DEF Moves, Live
  <2> QED
    BY <2>1, HeardWork
<1>4. CASE OpenUDP(g)
  <2>1. /\ Still /\ conn' = conn /\ gen[g].pc \in Live /\ faults[c] \subseteq faults'[c]
        /\ \A h \in Gens : gen'[h].conn = gen[h].conn /\ (h # g => gen'[h].pc = gen[h].pc)
    BY <1>1, <1>4, OpenUDPEffect DEF Moves, Live
  <2> QED
    BY <2>1, HeardWork
<1>5. CASE InstallUDP(g)
  <2>1. /\ Still /\ conn'[c].ws = conn[c].ws /\ gen[g].pc \in Live /\ faults[c] \subseteq faults'[c]
        /\ \A h \in Gens : gen'[h].conn = gen[h].conn /\ (h # g => gen'[h].pc = gen[h].pc)
    BY <1>1, <1>5, InstallUDPEffect DEF Moves, Live
  <2> QED
    BY <2>1, HeardWork
<1>6. CASE UDPAnswers(g)
  <2>1. /\ Still /\ conn' = conn /\ faults' = faults /\ gen[g].pc \in Live
        /\ \A h \in Gens : gen'[h].conn = gen[h].conn /\ (h # g => gen'[h].pc = gen[h].pc)
    BY <1>1, <1>6, UDPAnswersEffect DEF Live
  <2> QED
    BY <2>1, HeardWork
<1>7. CASE UDPFails(g)
  <2>1. /\ Still /\ conn'[c].ws = conn[c].ws /\ gen[g].pc \in Live /\ faults[c] \subseteq faults'[c]
        /\ \A h \in Gens : gen'[h].conn = gen[h].conn /\ (h # g => gen'[h].pc = gen[h].pc)
    BY <1>1, <1>7, UDPFailsEffect DEF Moves, Live
  <2> QED
    BY <2>1, HeardWork
<1>8. CASE TakeKey(g)
  <2>1. /\ Still /\ gen[g].pc = "key" /\ Moves(g, "reading", gen[g].stage)
        /\ \A d \in Conns : faults[d] \subseteq faults'[d] /\ conn'[d].ws = conn[d].ws
    BY <1>1, <1>8, TakeKeyEffect
  <2>2. /\ gen[g].pc \in Live
        /\ \A h \in Gens : gen'[h].conn = gen[h].conn /\ (h # g => gen'[h].pc = gen[h].pc)
    BY <2>1 DEF Moves, Live
  <2> QED
    BY <2>1, <2>2, HeardWork
<1>9. CASE TakeResumed(g)
  <2>1. /\ Still /\ conn'[c].ws = conn[c].ws /\ gen[g].pc \in Live /\ faults' = faults
        /\ \A h \in Gens : gen'[h].conn = gen[h].conn /\ (h # g => gen'[h].pc = gen[h].pc)
    BY <1>1, <1>9, TakeResumedEffect DEF Moves, Live
  <2> QED
    BY <2>1, HeardWork
<1>11. CASE Refused(g)
  <2>1. /\ Still /\ conn'[c].ws = conn[c].ws /\ gen[g].pc \in Live /\ faults[c] \subseteq faults'[c]
        /\ \A h \in Gens : gen'[h].conn = gen[h].conn /\ (h # g => gen'[h].pc = gen[h].pc)
    BY <1>1, <1>11, RefusedEffect DEF Moves, Live
  <2> QED
    BY <2>1, HeardWork
<1>10. ASSUME NEW class \in Classes, ReadFails(g, class)
       PROVE  WorkOf(c)'
  <2>1. PICK p \in Ended :
           /\ Still /\ faults' = faults /\ gen[g].pc = "reading" /\ p # "done"
           /\ Moves(g, p, gen[g].stage)
           /\ \A d \in Conns : d # gen[g].conn => conn'[d].ws = conn[d].ws
    BY <1>1, <1>10, ReadFailsEffect
  <2>2. CASE gen[g].conn = c
    <3>1. gen'[g].conn = c /\ gen'[g].pc \in Ended \ {"done"}
      BY <2>1, <2>2 DEF Moves
    <3> QED
      BY <3>1 DEF WorkOf, Working
  <2>3. CASE gen[g].conn # c
    BY <2>1, <2>3, HeardWork DEF Moves, Live
  <2> QED
    BY <2>2, <2>3
<1> QED
  BY <1>2, <1>3, <1>4, <1>5, <1>6, <1>7, <1>8, <1>9, <1>10, <1>11
  DEF Listening, Winding, Refused

LEMMA WindingWork ==
  ASSUME CoreInv, WorkInv, NEW g \in Gens, Winding(g), NEW c \in Conns
  PROVE  WorkOf(c)'
<1> USE Bounds
<1>1. Types /\ \A k \in Gens : Stage(k)
  BY DEF CoreInv, TransportInv
<1>2. /\ UNCHANGED <<loop, user, news>> /\ guild' \in {guild, None}
      /\ gen[g].pc \in Ended \ {"done"} /\ \E p \in Ended : Goto(g, p)
  BY DEF Winding, ResumeOnce, StartAfresh, Terminate, AwaitServerUpdate, ServerUpdateSeen,
         NoServerUpdate, RemoveAndClose, Remove, Ended
<1>3. PICK b \in Conns : b = gen[g].conn
  <2>1. gen[g].pc # "none"
    BY <1>2 DEF Ended
  <2> QED
    BY <1>1, <2>1, ListenerConn
<1>4. gen'[g].conn = b /\ \A h \in Gens : h # g => gen'[h] = gen[h]
  BY <1>1, <1>2, <1>3, GotoEffect
\* What the step does to other objects.
<1>5. CASE b # c
  <2>1. conn'[c].ws = conn[c].ws /\ faults'[c] = faults[c]
    <3>1. CASE Terminate(g) \/ AwaitServerUpdate(g) \/ RemoveAndClose(g)
      <4>1. CloseTransport(b)
        BY <1>3, <3>1 DEF Terminate, AwaitServerUpdate, RemoveAndClose
      <4> QED
        BY <1>1, <1>5, <4>1, CloseEffect
    <3>2. CASE StartAfresh(g) \/ ServerUpdateSeen(g) \/ NoServerUpdate(g)
      BY <3>2 DEF StartAfresh, ServerUpdateSeen, NoServerUpdate
    <3>3. ASSUME NEW o \in Openers, ResumeOnce(g, o)
          PROVE  conn'[c].ws = conn[c].ws /\ faults'[c] = faults[c]
      <4>1. faults' = faults /\ (conn' = conn \/ conn' = [conn EXCEPT ![b].attempts = @ + 1])
        BY <1>3, <3>3 DEF ResumeOnce
      <4> QED
        BY <1>1, <1>5, <4>1 DEF Types
    <3> QED
      BY <3>1, <3>2, <3>3 DEF Winding
  <2>2. due[c] > 0 => due'[c] > 0
    <3>1. due' = due \/ ScheduleReconnect(b)
      BY <1>3 DEF Winding, ResumeOnce, StartAfresh, Terminate, AwaitServerUpdate, ServerUpdateSeen,
         NoServerUpdate, RemoveAndClose
    <3> QED
      BY <1>1, <1>5, <3>1 DEF ScheduleReconnect, Types
  <2>3. \A o \in Openers : opener[o].pc \in {"session", "dial"} => opener'[o] = opener[o]
    <3>1. \/ opener' = opener
          \/ \E o \in Openers : /\ opener[o].pc = "idle"
                                /\ opener' = [opener EXCEPT ![o] = [pc |-> "session", conn |-> gen[g].conn,
                                                                    resume |-> TRUE, gen |-> None]]
      BY DEF Winding, ResumeOnce, StartAfresh, Terminate, AwaitServerUpdate, ServerUpdateSeen,
         NoServerUpdate, RemoveAndClose
    <3> QED
      BY <1>1, <3>1 DEF Types
  <2>4. \A h \in Gens : gen[h].conn = c => gen'[h] = gen[h]
    BY <1>3, <1>4, <1>5
  <2>5. SameWork(c)
    BY <1>2, <2>1, <2>2, <2>3, <2>4 DEF SameWork
  <2> QED
    BY <1>2, <2>5, WorkSame DEF SameWish
<1>6. CASE b = c
  <2>1. CASE Terminate(g) \/ RemoveAndClose(g)
    <3>1. guild' # c
      BY <1>3, <1>6, <2>1 DEF Terminate, RemoveAndClose, Remove, None
    <3> QED
      BY <3>1 DEF WorkOf
  <2>2. CASE AwaitServerUpdate(g) \/ NoServerUpdate(g)
    <3>1. Goto(g, "waiting") \/ Goto(g, "remove")
      BY <2>2 DEF AwaitServerUpdate, NoServerUpdate
    <3>2. gen'[g].pc \in Ended \ {"done"}
      BY <1>1, <3>1, GotoEffect DEF Ended
    <3> QED
      BY <1>4, <1>6, <3>2 DEF WorkOf, Working
  <2>3. CASE ServerUpdateSeen(g)
    <3>1. conn'[c].ws # None
      BY <1>3, <1>6, <2>3 DEF ServerUpdateSeen
    <3> QED
      BY <3>1 DEF WorkOf, None
  <2>4. CASE ScheduleReconnect(c)
    <3>1. due'[c] > 0
      BY <1>1, <2>4, DueEffect
    <3> QED
      BY <3>1 DEF WorkOf, Working
  <2>5. CASE StartAfresh(g)
    BY <1>3, <1>6, <2>4, <2>5 DEF StartAfresh
  <2>6. ASSUME NEW o \in Openers, ResumeOnce(g, o)
        PROVE  WorkOf(c)'
    <3>1. CASE conn[c].attempts # 0
      BY <1>3, <1>6, <2>4, <2>6, <3>1 DEF ResumeOnce
    <3>2. CASE conn[c].attempts = 0
      <4>1. opener' = [opener EXCEPT ![o] = [pc |-> "session", conn |-> c, resume |-> TRUE,
                                             gen |-> None]]
        BY <1>3, <1>6, <2>6, <3>2 DEF ResumeOnce
      <4>2. opener'[o].conn = c /\ opener'[o].pc = "session"
        BY <1>1, <4>1 DEF Types
      <4> QED
        BY <4>2 DEF WorkOf, Working
    <3> QED
      BY <3>1, <3>2
  <2> QED
    BY <2>1, <2>2, <2>3, <2>5, <2>6 DEF Winding
<1> QED
  BY <1>5, <1>6

LEMMA ReconnectingWork ==
  ASSUME CoreInv, WorkInv, NEW b \in Conns, Reconnecting(b), NEW c \in Conns
  PROVE  WorkOf(c)'
<1>1. Types
  BY DEF CoreInv
<1>2. CASE ReceiverFails(b)
  <2>1. /\ UNCHANGED <<guild, gen, opener, loop, user, news, faults>> /\ ScheduleReconnect(b)
        /\ conn' = [conn EXCEPT ![b].receiver = None]
    BY <1>2 DEF ReceiverFails
  <2>2. due' \in [Conns -> Nat] /\ (\A d \in Conns : due[d] <= due'[d]) /\ due \in [Conns -> Nat]
    BY <1>1, <2>1, DueEffect DEF Types
  <2>3. due[c] > 0 => due'[c] > 0
    BY <2>2
  <2>4. conn'[c].ws = conn[c].ws
    BY <1>1, <2>1 DEF Types, ConnType
  <2> QED
    BY <2>1, <2>3, <2>4, WorkSame DEF SameWork, SameWish
<1>3. CASE Reconnect(b)
  <2>1. /\ due' = [due EXCEPT ![b] = @ - 1]
        /\ UNCHANGED <<guild, gen, opener, user, news>>
    BY <1>3 DEF Reconnect
  <2>2. CASE conn[b].reconnecting
    <3>1. conn' = conn /\ loop' = loop /\ faults' = [faults EXCEPT ![b] = @ \union {"notReconnected"}]
      BY <1>3, <2>2 DEF Reconnect, Blame
    <3>2. CASE b = c
      <4>1. "notReconnected" \in faults'[c]
        BY <1>1, <3>1, <3>2 DEF Types
      <4> QED
        BY <4>1 DEF WorkOf
    <3>3. CASE b # c
      <4>1. due'[c] = due[c] /\ faults'[c] = faults[c]
        BY <1>1, <2>1, <3>1, <3>3 DEF Types
      <4> QED
        BY <2>1, <3>1, <4>1, WorkSame DEF SameWork, SameWish
    <3> QED
      BY <3>2, <3>3
  <2>3. CASE ~conn[b].reconnecting
    <3>1. loop' = [loop EXCEPT ![b].pc = "close"]
      BY <1>3, <2>3 DEF Reconnect
    <3>2. loop'[b].pc = "close"
      BY <1>1, <3>1 DEF Types, LoopType
    <3> QED
      BY <3>2 DEF WorkOf, Working
  <2> QED
    BY <2>2, <2>3
<1>4. CASE Rejoin(b)
  <2>1. news'.server > 0
    BY <1>1, <1>4 DEF Rejoin, JoinChannel, Types
  <2> QED
    BY <2>1 DEF WorkOf, Working
<1>5. CASE Rejoined(b)
  <2>1. /\ UNCHANGED <<conn, guild, gen, opener, due, user, news, faults>> /\ loop[b].pc = "wait"
        /\ loop' = [loop EXCEPT ![b] = [pc |-> "ending", target |-> None]]
    BY <1>5 DEF Rejoined
  <2>2. \A d \in Conns : loop[d].pc \in {"close", "sleep"} => loop'[d].pc \in {"close", "sleep"}
    BY <1>1, <2>1 DEF Types
  <2> QED
    BY <2>1, <2>2, WorkSame DEF SameWork, SameWish
<1>6. CASE RejoinTimesOut(b)
  <2>1. loop'[b].pc = "sleep"
    BY <1>1, <1>6 DEF RejoinTimesOut, Types
  <2> QED
    BY <2>1 DEF WorkOf, Working
<1>8. CASE ReconnectCloses(b)
  <2>1. loop'[b].pc = "sleep"
    BY <1>1, <1>8 DEF ReconnectCloses, Types, LoopType
  <2> QED
    BY <2>1 DEF WorkOf, Working
<1>7. CASE ReconnectEnds(b)
  <2>1. /\ UNCHANGED <<guild, gen, opener, due, user, news, faults>> /\ loop[b].pc = "ending"
        /\ loop' = [loop EXCEPT ![b].pc = "idle"]
        /\ conn' = [conn EXCEPT ![b].reconnecting = FALSE]
    BY <1>7 DEF ReconnectEnds
  <2>2. \A d \in Conns : loop[d].pc \in {"close", "sleep"} => loop'[d].pc \in {"close", "sleep"}
    BY <1>1, <2>1 DEF Types
  <2>3. conn'[c].ws = conn[c].ws
    BY <1>1, <2>1 DEF Types, ConnType
  <2> QED
    BY <2>1, <2>2, <2>3, WorkSame DEF SameWork, SameWish
<1> QED
  BY <1>2, <1>3, <1>4, <1>5, <1>6, <1>7, <1>8 DEF Reconnecting

LEMMA WorkStep ==
  ASSUME CoreInv, WorkInv, [Next]_vars
  PROVE  WorkInv'
<1>1. SUFFICES ASSUME NEW c \in Conns
               PROVE  WorkOf(c)'
  BY DEF WorkInv, WorkOf
<1>2. CASE Application
  BY <1>2, ApplicationWork
<1>3. CASE Updates
  BY <1>3, UpdatesWork
<1>4. ASSUME NEW o \in Openers, Opening(o)
      PROVE  WorkOf(c)'
  BY <1>4, OpeningWork
<1>5. ASSUME NEW g \in Gens, Listening(g)
      PROVE  WorkOf(c)'
  BY <1>5, HearingWork, WindingWork
<1>6. ASSUME NEW b \in Conns, Reconnecting(b)
      PROVE  WorkOf(c)'
  BY <1>6, ReconnectingWork
<1>7. CASE UNCHANGED vars
  <2>1. SameWork(c) /\ SameWish
    BY <1>7 DEF vars, SameWork, SameWish
  <2> QED
    BY <2>1, WorkSame
<1> QED
  BY <1>2, <1>3, <1>4, <1>5, <1>6, <1>7 DEF Next

LEMMA WorkAlways == Spec => [](CoreInv /\ WorkInv)
<1>1. Init => WorkInv
  BY DEF Init, WorkInv
<1>2. CoreInv /\ WorkInv /\ [Next]_vars => WorkInv'
  BY WorkStep
<1> QED
  BY <1>1, <1>2, CoreAlways, PTL DEF Spec


\* The websocket in place has a listener that waits for the next message.
LEMMA WaitingListener ==
  ASSUME CoreInv, WorkInv, NEW c \in Conns, user.wants, user.handle = c, guild = c, ~Attended(c),
         faults[c] \intersect {"notOpened", "noUDP", "noKey", "notReconnected", "revived"} = {},
         ~\E g \in Gens : gen[g].conn = c /\ gen[g].pc = "handshake"
  PROVE  \E g \in Gens : /\ conn[c].ws = g /\ gen[g].conn = c /\ gen[g].pc = "reading"
                         /\ Sends(g) = "nothing" /\ (gen[g].resume => gen[g].resumed)
<1> USE Bounds
<1>1. Types /\ Links /\ TransportInv
  BY DEF CoreInv
<1>2. ~(news.server > 0) /\ ~(due[c] > 0)
  <2>1. news.state \in Nat /\ news.server \in Nat
    BY <1>1 DEF Types
  <2> QED
    BY <2>1 DEF Attended
<1>3. ~\E d \in Conns : loop[d].pc \in {"close", "sleep"}
  BY DEF Attended
<1>4. ~\E o \in Openers : opener[o].conn = c
  BY DEF Attended
<1>5. \A g \in Gens : gen[g].conn = c => gen[g].pc \in {"none", "reading", "done"}
  <2>1. \A g \in Gens : gen[g].conn = c => gen[g].pc \in {"none", "reading", "handshake", "done"}
    BY DEF Attended
  <2> QED
    BY <2>1
<1>6. ~Working(c)
  BY <1>2, <1>3, <1>4, <1>5 DEF Working, Ended
<1>7. conn[c].ws # None
  BY <1>6 DEF WorkInv
<1>8. PICK g \in Gens : conn[c].ws = g
  BY <1>1, <1>7 DEF Types, ConnType
<1>9. /\ gen[g].conn = c /\ gen[g].pc \notin Ended
      /\ gen[g].pc = "none" => \E o \in Openers : Writes(o, g)
  BY <1>1, <1>8, WsFacts
<1>10. gen[g].pc # "none"
  <2>1. \A o \in Openers : Writes(o, g) => opener[o].conn = c
    BY <1>1, <1>9 DEF Writes, Links
  <2> QED
    BY <1>4, <1>9, <2>1
<1>11. gen[g].pc = "reading"
  BY <1>5, <1>9, <1>10 DEF Ended
<1>12. Current(g)
  BY <1>8, <1>9 DEF Current, None
<1>13. Sends(g) = "nothing" /\ (gen[g].resume => gen[g].resumed)
  BY <1>9, <1>11, <1>12 DEF Attended
<1> QED
  BY <1>8, <1>9, <1>11, <1>13

LEMMA UpUnlessFault ==
  ASSUME CoreInv, WorkInv
  PROVE  DownOnlyByFault
<1> USE Bounds
<1>1. SUFFICES ASSUME NEW c \in Conns, user.wants, user.handle = c, guild = c, ~Attended(c),
                      faults[c] \intersect {"notOpened", "noUDP", "noKey", "notReconnected", "revived"} = {},
                      ~\E g \in Gens : gen[g].conn = c /\ gen[g].pc = "handshake"
               PROVE  Up(c)
  BY DEF DownOnlyByFault
<1>2. Types /\ TransportInv /\ \A k \in Gens : Stage(k)
  BY DEF CoreInv, TransportInv
<1>3. PICK g \in Gens : /\ conn[c].ws = g /\ gen[g].conn = c /\ gen[g].pc = "reading"
                        /\ Sends(g) = "nothing" /\ (gen[g].resume => gen[g].resumed)
  BY <1>1, WaitingListener
<1>4. /\ \A k \in Gens : k > g => gen[k].conn # c
      /\ ~gen[g].resume => conn[c].channel
      /\ gen[g].resume /\ ~conn[c].channel => "revived" \in faults[c]
      /\ gen[g].stage = "greeted" /\ gen[g].pc = "reading" => "noUDP" \in faults[c]
      /\ gen[g].resumed => conn[c].ready
  <2>1. WsInv(c) /\ g # None
    BY <1>2 DEF TransportInv, None
  <2> QED
    BY <1>3, <2>1 DEF WsInv
<1>5. gen[g].resume /\ gen[g].stage = "served" =>
          \E h \in Gens : Session(c, h) /\ gen[h].stage = "served"
  <2>1. WsInv(c) /\ g # None
    BY <1>2 DEF TransportInv, None
  <2> QED
    BY <1>3, <2>1 DEF WsInv
<1>6. \A h \in Gens : SessionInv(c, h)
  BY <1>2 DEF TransportInv
<1>7. conn[c].channel
  BY <1>1, <1>4
<1>8. CASE ~gen[g].resume
  <2>1. Session(c, g)
    BY <1>3, <1>4, <1>8 DEF Session
  <2>2. gen[g].stage \in {"opened", "greeted", "selected", "served"}
    BY <1>2 DEF Types, GenType, Stages
  <2>3. gen[g].stage # "opened"
    BY <1>3, <1>8 DEF Sends
  <2>4. gen[g].stage # "selected"
    BY <1>3, <1>8 DEF Sends
  <2>5. gen[g].stage # "greeted"
    BY <1>1, <1>3, <1>4
  <2>6. gen[g].stage = "served"
    BY <2>2, <2>3, <2>4, <2>5
  <2>7. conn[c].udp # None /\ conn[c].ready
    BY <1>1, <1>3, <1>6, <1>7, <2>1, <2>6 DEF SessionInv
  <2> QED
    BY <1>3, <2>7 DEF Up, None
<1>9. CASE gen[g].resume
  <2>1. gen[g].resumed /\ gen[g].stage = "served"
    BY <1>2, <1>3, <1>9 DEF Stage
  <2>2. PICK h \in Gens : Session(c, h) /\ gen[h].stage = "served"
    BY <1>9, <1>5, <2>1
  <2>3. conn[c].udp # None
    BY <1>6, <1>7, <2>2 DEF SessionInv
  <2> QED
    BY <1>3, <1>4, <2>1, <2>3 DEF Up, None
<1> QED
  BY <1>8, <1>9

(* A connection the application has joined, has not left and still finds in the   *)
(* map is up or something works on it, unless one of the faults the code does not *)
(* repair has hit it (voice.go: onEventForGeneration, whose failed OP4 nobody asks *)
(* for again, udpOpen, handleVoiceWebsocketClose, reconnect).                     *)
THEOREM DownOnlyAfterFault == Spec => []DownOnlyByFault
<1>1. CoreInv /\ WorkInv => DownOnlyByFault
  BY UpUnlessFault
<1> QED
  BY <1>1, WorkAlways, PTL

=============================================================================
