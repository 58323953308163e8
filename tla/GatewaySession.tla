-------------------------- MODULE GatewaySession --------------------------
(***************************************************************************)
(* The event path of a Session (onEvent, authenticateGatewayGeneration,        *)
(* invalidateGatewaySession and heartbeat in wsapi.go, onReady in event.go)     *)
(* into its cache (StateCache), over several connections and the Gateway       *)
(* sessions they identify or resume.                                        *)
(*                                                                         *)
(* Generations are opened one after the other, as Gateway.tla shows; what that  *)
(* module leaves open is taken up here: a generation ends whatever its listener  *)
(* is doing, and that listener still finishes the message it has in hand while    *)
(* the next generations connect.  A listener checks its context once it has read,  *)
(* then stores the sequence, then applies the event: three steps.             *)
(*                                                                         *)
(* The server numbers the events of a session from 1, READY, sends a            *)
(* resumed connection what follows the sequence it names, and may forget a       *)
(* session.  It knows the truth: the one guild of StateCache.                  *)
(***************************************************************************)
EXTENDS StateCache

CONSTANTS
    Exercised,       \* the ids there are events of, for each part that a behaviour may exercise
    Overtaken,       \* those in which a listener may be behind when a generation begins
    MaxGenerations,  \* bounds: connections, changes of the guild while a part is exercised,
    MaxChanges,
    BeatingConnections,  \* connections of a behaviour with heartbeats and without events,
    MaxBeats         \* heartbeats of a connection

ASSUME GatewaySessionAssumption ==
    /\ DOMAIN Exercised \subseteq Parts /\ \A p \in DOMAIN Exercised : Exercised[p] \subseteq Ids
    /\ Overtaken \subseteq DOMAIN Exercised
    /\ {MaxGenerations, BeatingConnections, MaxBeats} \subseteq Nat
    /\ MaxChanges \in [DOMAIN Exercised -> Nat]
    /\ BeatingConnections <= MaxGenerations

Generations == 1..MaxGenerations
None == 0

VARIABLES
    part,            \* what this behaviour exercises
    truth,           \* server: [guild, items] as they are
    session,         \* server: the newest session: its number, whether it is live, its events
    changes,         \* server: changes made, for the bound
    link,            \* server: for each connection its state, its session and the next event
    generation,      \* the newest generation
    loaded,          \* the sequence that authenticateGatewayGeneration loaded, or None
    sessionID,       \* Session.sessionID, None for ""
    sequence,        \* Session.sequence
    listener,        \* for each generation its place and the event in hand, with its number
    cache,           \* Session.State
    beat,            \* for each generation the place of its heartbeat
    beats,           \* and the heartbeats it has sent, for the bound
    unacked,         \* heartbeatAckPending(LastHeartbeatAck, LastHeartbeatSent)
    owed,            \* server: for each connection whether it still owes an acknowledgement
    taken,           \* for the properties: the events of the session a listener has read,
    late,            \*   an event was stored or applied after a newer generation began,
    crossed,         \*   one of them was of another session than the Session's, from which
                     \*   on the behaviour is of no interest and nothing new happens,
    gap,             \*   a READY was applied to a cache that was not new,
    meddled          \*   an older generation wrote a heartbeat time since the last Hello

serverVars == <<part, truth, session, changes>>
clientVars == <<sessionID, sequence, cache>>
beatVars   == <<beat, beats, unacked, owed, meddled>>
pastVars   == <<taken, late, crossed, gap>>
eventVars  == <<serverVars, generation, loaded, clientVars, pastVars>>
vars == <<eventVars, link, listener, beatVars>>

\* A listener with nothing in hand.
Hand(pc) == [pc |-> pc, number |-> 0, event |-> [type |-> "none"]]

Beating == part = "heartbeat"

Init ==
    /\ part \in DOMAIN Exercised \cup {"heartbeat"}
    /\ truth = [guild |-> TRUE, items |-> NoItems, gone |-> {}, left |-> FALSE]
    /\ session = [number |-> None, live |-> FALSE, log |-> <<>>]
    /\ changes = 0
    /\ link = [g \in Generations |-> [state |-> "off", session |-> None, next |-> 0]]
    /\ generation = 0
    /\ loaded = None
    /\ sessionID = None
    /\ sequence = 0
    /\ listener = [g \in Generations |-> Hand("off")]
    /\ cache = NewState
    /\ beat = [g \in Generations |-> "off"]
    /\ beats = [g \in Generations |-> 0]
    /\ unacked = FALSE
    /\ owed = [g \in Generations |-> FALSE]
    /\ taken = {}
    /\ late = FALSE
    /\ crossed = FALSE
    /\ gap = FALSE
    /\ meddled = FALSE

-----------------------------------------------------------------------------
\* The server.

Present(items) == Cardinality({i \in Ids : items[i] # 0})

\* A member of the guild is the bot.
GuildCreate(items) ==
    [type |-> "GUILD_CREATE", given |-> TRUE, items |-> items,
     count |-> IF part = "member" THEN Present(items) + 1 ELSE 1]

GuildUpdate(items) ==
    [type |-> "GUILD_UPDATE", given |-> part \in InGuildUpdate, items |-> items, count |-> 0]

\* Messages are in no payload.
Payload == IF part = "message" THEN NoItems ELSE truth.items

\* A session begins with READY and, if the bot is in the guild, GUILD_CREATE.
Opening ==
    LET ready == [type |-> "READY", listed |-> truth.guild]
    IN  IF truth.guild /\ ~Beating THEN <<ready, GuildCreate(Payload)>> ELSE <<ready>>

Unread(g) == link[g].state = "up" /\ link[g].next <= Len(session.log)

\* The guild changes, and the session is told while it lives.  It changes when what was sent
\* has been read: whatever a connection did not read of a change, the next one is sent.
Tell(e, t) ==
    /\ ~Beating
    /\ ~crossed
    /\ changes < MaxChanges[part]
    /\ session.number # None
    /\ \A g \in Generations : ~Unread(g)
    /\ changes' = changes + 1
    /\ truth' = t
    /\ session' = IF session.live THEN [session EXCEPT !.log = Append(@, e)] ELSE session
    /\ UNCHANGED <<part, link, generation, loaded, clientVars, listener, beatVars, pastVars>>

Used == IF Beating THEN {} ELSE Exercised[part]

UsedItems == {items \in Items : \A i \in Ids \ Used : items[i] = 0}

\* Members, voice states and threads that were hidden come back; the ids of the rest, and
\* those of deleted threads, are not used again.
MayReturn == {"member", "voice"}

SetItem(i, v) ==
    /\ truth.guild
    /\ v = truth.items[i] + 1
    /\ part # "emoji"
    /\ i \notin truth.gone
    /\ Tell([type |-> "SET", id |-> i, version |-> v, old |-> truth.items[i]],
            [truth EXCEPT !.items[i] = v])

RemoveItem(i) ==
    /\ truth.guild
    /\ truth.items[i] # 0
    /\ part # "emoji"
    /\ Tell([type |-> "REMOVE", id |-> i],
            [truth EXCEPT !.items[i] = 0,
                          !.gone = IF part \in MayReturn THEN @ ELSE @ \cup {i}])

\* THREAD_LIST_SYNC may be about some channels only.
Syncs == IF part = "thread" THEN SUBSET Used ELSE {Used}

\* Threads change in the channels that the bot has come to see.
ReplaceItems(items, synced) ==
    /\ truth.guild
    /\ part \in InOneEvent
    /\ \A i \in Ids \ synced : items[i] = truth.items[i]
    /\ items # truth.items
    /\ \A i \in truth.gone : items[i] = 0
    /\ Tell([type |-> "REPLACE", synced |-> synced, items |-> items],
            [truth EXCEPT !.items = items])

UpdateGuild == truth.guild /\ Tell(GuildUpdate(truth.items), truth)

\* The bot leaves the guild, which goes on without it.
LeaveGuild ==
    /\ truth.guild
    /\ Tell([type |-> "GUILD_DELETE"], [truth EXCEPT !.guild = FALSE, !.left = TRUE])

JoinGuild(items) ==
    /\ ~truth.guild
    /\ \A i \in truth.gone : items[i] = 0
    /\ Tell(GuildCreate(IF part = "message" THEN NoItems ELSE items),
            [guild |-> TRUE, items |-> items, left |-> TRUE,
             gone |-> IF part \in MayReturn \cup {"thread"} THEN truth.gone
                      ELSE truth.gone \cup {i \in Ids : truth.items[i] # 0 /\ items[i] = 0}])

-----------------------------------------------------------------------------
\* Connecting.

Ended(g) == link[g].state = "down"

InHand == {"store", "apply", "closed", "invalid"}

\* Mutant: what the last connection left of its heartbeats stays.
OpenKeepsAck ==
    /\ generation < IF Beating THEN BeatingConnections ELSE MaxGenerations
    /\ part \notin Overtaken \cup {"heartbeat"} =>
           \A g \in Generations : listener[g].pc \notin InHand
    /\ loaded = None
    /\ ~crossed
    /\ generation # 0 => Ended(generation)
    /\ generation' = generation + 1
    /\ loaded' = sequence + 1
    /\ link' = [link EXCEPT ![generation'].state = "hello"]
    /\ listener' = [listener EXCEPT ![generation'] = Hand("read")]
    /\ beat' = IF Beating THEN [beat EXCEPT ![generation'] = "wait"] ELSE beat
    /\ meddled' = FALSE
    /\ UNCHANGED <<serverVars, clientVars, beats, unacked, owed, pastVars>>

\* Hello: the listener and the heartbeat start, the acknowledgement is reset, and
\* authenticateGatewayGeneration loads the sequence.
Open ==
    /\ generation < IF Beating THEN BeatingConnections ELSE MaxGenerations
    /\ part \notin Overtaken \cup {"heartbeat"} =>
           \A g \in Generations : listener[g].pc \notin InHand
    /\ loaded = None
    /\ ~crossed
    /\ generation # 0 => Ended(generation)
    /\ generation' = generation + 1
    /\ loaded' = sequence + 1
    /\ link' = [link EXCEPT ![generation'].state = "hello"]
    /\ listener' = [listener EXCEPT ![generation'] = Hand("read")]
    /\ beat' = IF Beating THEN [beat EXCEPT ![generation'] = "wait"] ELSE beat
    /\ unacked' = FALSE
    /\ meddled' = FALSE
    /\ UNCHANGED <<serverVars, clientVars, beats, owed, pastVars>>

\* It identifies for want of a session id, and the server opens a session;
Identify ==
    /\ loaded # None
    /\ ~Ended(generation)
    /\ sessionID = None
    /\ session' = [number |-> session.number + 1, live |-> TRUE, log |-> Opening]
    /\ taken' = {}
    /\ link' = [link EXCEPT ![generation] =
                    [state |-> "up", session |-> session'.number, next |-> 1]]
    /\ loaded' = None
    /\ UNCHANGED <<part, truth, changes, generation, clientVars, listener, beatVars, late, crossed, gap>>

\* or it resumes the one it has.  The server sends what follows the sequence,
Resume ==
    /\ loaded # None
    /\ ~Ended(generation)
    /\ sessionID = session.number
    /\ session.live
    /\ loaded - 1 <= Len(session.log)
    /\ link' = [link EXCEPT ![generation] =
                    [state |-> "up", session |-> sessionID, next |-> loaded]]
    /\ loaded' = None
    /\ UNCHANGED <<serverVars, generation, clientVars, listener, beatVars, pastVars>>

\* or INVALID_SESSION: it has forgotten the session, or forgets it now.
Refuse ==
    /\ loaded # None
    /\ ~Ended(generation)
    /\ sessionID # None
    /\ session' = IF sessionID = session.number THEN [session EXCEPT !.live = FALSE] ELSE session
    /\ link' = [link EXCEPT ![generation] =
                    [state |-> "refused", session |-> sessionID, next |-> 0]]
    /\ loaded' = None
    /\ UNCHANGED <<part, truth, changes, generation, clientVars, listener, beatVars, pastVars>>

\* or the write fails, for the generation has ended.
AuthenticateFails ==
    /\ loaded # None
    /\ Ended(generation)
    /\ loaded' = None
    /\ UNCHANGED <<serverVars, link, generation, clientVars, listener, beatVars, pastVars>>

\* finishGatewayGeneration: what was not read yet is lost.
Finish(g) == link' = [link EXCEPT ![g] = [@ EXCEPT !.state = "down", !.next = 0]]

\* Another goroutine ends the generation, or the peer does: its listener may be anywhere.
Drop(g) ==
    /\ link[g].state \notin {"off", "down"}
    /\ Finish(g)
    /\ UNCHANGED <<eventVars, listener, beatVars>>

-----------------------------------------------------------------------------
\* listen and onEvent.

Step(g, pc) == listener' = [listener EXCEPT ![g].pc = pc]

Drops(g, pc) == listener' = [listener EXCEPT ![g] = Hand(pc)]

\* Mutant: -1 for no sequence.
InvalidateToMinusOne == sessionID' = None /\ sequence' = -1

\* Clears the session id, the resume URL and the sequence.
InvalidateGatewaySession == sessionID' = None /\ sequence' = 0

\* A close code after which the session is not to be resumed: the listener sees that its
\* context is not done, and tells the handlers, before it invalidates the session.
ReadClose(g) ==
    /\ ~Beating
    /\ listener[g].pc = "read"
    /\ link[g].state \in {"up", "refused"}
    /\ Step(g, "closed")
    /\ UNCHANGED <<eventVars, link, beatVars>>

Read(g) ==
    /\ ~Beating
    /\ listener[g].pc = "read"
    /\ Unread(g)
    /\ listener' = [listener EXCEPT ![g] = [pc |-> "store", number |-> link[g].next,
                                            event |-> session.log[link[g].next]]]
    /\ link' = [link EXCEPT ![g].next = @ + 1]
    /\ taken' = taken \cup {link[g].next}
    /\ UNCHANGED <<serverVars, generation, loaded, clientVars, beatVars, late, crossed, gap>>

ReadInvalidSession(g) ==
    /\ listener[g].pc = "read"
    /\ link[g].state = "refused"
    /\ Step(g, "invalid")
    /\ UNCHANGED <<eventVars, link, beatVars>>

ListenEnds(g) ==
    /\ listener[g].pc = "read"
    /\ Ended(g)
    /\ Step(g, "ended")
    /\ UNCHANGED <<eventVars, link, beatVars>>

\* For the properties: what listener g does is late once a newer generation has begun.
Past(g) ==
    /\ late' = (late \/ g # generation)
    /\ crossed' = (crossed \/ (g # generation /\ sessionID # link[g].session))

\* Mutant: the number of the event that comes next.
StoreNext(g) ==
    /\ listener[g].pc = "store"
    /\ sequence' = listener[g].number + 1
    /\ Step(g, "apply")
    /\ Past(g)
    /\ UNCHANGED <<serverVars, link, generation, loaded, sessionID, cache, beatVars, taken, gap>>

StoreSequence(g) ==
    /\ listener[g].pc = "store"
    /\ sequence' = listener[g].number
    /\ Step(g, "apply")
    /\ Past(g)
    /\ UNCHANGED <<serverVars, link, generation, loaded, sessionID, cache, beatVars, taken, gap>>

\* onInterface: READY gives the Session its id, and every event goes to the cache.
Apply(g) ==
    /\ listener[g].pc = "apply"
    /\ cache' = OnInterface(part, cache, listener[g].event)
    /\ IF listener[g].event.type = "READY"
       THEN sessionID' = link[g].session /\ gap' = (cache # NewState)
       ELSE UNCHANGED <<sessionID, gap>>
    /\ Drops(g, "read")
    /\ Past(g)
    /\ UNCHANGED <<serverVars, link, generation, loaded, sequence, beatVars, taken>>

\* The server may keep a session that the listener of its connection gives up, but nobody will
\* resume it.
InvalidSession(g) ==
    /\ listener[g].pc \in {"closed", "invalid"}
    /\ InvalidateGatewaySession
    /\ Finish(g)
    /\ Drops(g, "ended")
    /\ IF g = generation
       THEN session' = [session EXCEPT !.live = FALSE, !.log = <<>>] /\ taken' = {}
       ELSE UNCHANGED <<session, taken>>
    /\ UNCHANGED <<part, truth, changes, generation, loaded, cache, beatVars, late, crossed, gap>>

-----------------------------------------------------------------------------
\* heartbeat, and the acknowledgements the listener reads (op 11).

Beat(g, from, to) == beat[g] = from /\ beat' = [beat EXCEPT ![g] = to]

Meddles(g) == meddled' = (meddled \/ g # generation)

\* The interval is over.  The context may be done as well: the select takes either.
Tick(g) ==
    /\ Beat(g, "wait", "check")
    /\ beats[g] <= MaxBeats
    /\ UNCHANGED <<eventVars, link, listener, beats, unacked, owed, meddled>>

BeatEnds(g) ==
    /\ Beat(g, "wait", "ended")
    /\ Ended(g)
    /\ UNCHANGED <<eventVars, link, listener, beats, unacked, owed, meddled>>

\* Was the last heartbeat acknowledged?
CheckAck(g) ==
    /\ Beat(g, "check", "stamp")
    /\ ~unacked
    /\ UNCHANGED <<eventVars, link, listener, beats, unacked, owed, meddled>>

MissedAck(g) ==
    /\ Beat(g, "check", "ended")
    /\ unacked
    /\ Finish(g)
    /\ UNCHANGED <<eventVars, listener, beats, unacked, owed, meddled>>

Stamp(g) ==
    /\ Beat(g, "stamp", "write")
    /\ unacked' = TRUE
    /\ Meddles(g)
    /\ UNCHANGED <<eventVars, link, listener, beats, owed>>

Write(g) ==
    /\ Beat(g, "write", "wait")
    /\ ~Ended(g)
    /\ beats' = [beats EXCEPT ![g] = @ + 1]
    /\ owed' = [owed EXCEPT ![g] = TRUE]
    /\ UNCHANGED <<eventVars, link, listener, unacked, meddled>>

WriteFails(g) ==
    /\ Beat(g, "write", "ended")
    /\ Finish(g)
    /\ UNCHANGED <<eventVars, listener, beats, unacked, owed, meddled>>

\* The listener reads the acknowledgement and stamps LastHeartbeatAck.
ReadAck(g) ==
    /\ listener[g].pc = "read"
    /\ ~Ended(g)
    /\ owed[g]
    /\ owed' = [owed EXCEPT ![g] = FALSE]
    /\ Step(g, "ack")
    /\ UNCHANGED <<eventVars, link, beat, beats, unacked, meddled>>

StoreAck(g) ==
    /\ listener[g].pc = "ack"
    /\ Step(g, "read")
    /\ unacked' = FALSE
    /\ Meddles(g)
    /\ UNCHANGED <<eventVars, link, beat, beats, owed>>

-----------------------------------------------------------------------------
ServerNext ==
    \/ \E i \in Used : (\E v \in 1..MaxVersion : SetItem(i, v)) \/ RemoveItem(i)
    \/ \E items \in UsedItems, synced \in Syncs : ReplaceItems(items, synced)
    \/ UpdateGuild \/ LeaveGuild
    \/ \E items \in UsedItems : (\A i \in Ids : items[i] <= 1) /\ JoinGuild(items)

OpenNext == Open \/ Identify \/ Resume \/ Refuse \/ AuthenticateFails

ListenNext(g) ==
    \/ Drop(g) \/ Read(g) \/ ReadClose(g) \/ ReadInvalidSession(g) \/ ListenEnds(g)
    \/ StoreSequence(g) \/ Apply(g) \/ InvalidSession(g) \/ ReadAck(g) \/ StoreAck(g)

BeatNext(g) ==
    \/ Tick(g) \/ BeatEnds(g) \/ CheckAck(g) \/ MissedAck(g) \/ Stamp(g) \/ Write(g)
    \/ WriteFails(g)

Next == ServerNext \/ OpenNext \/ \E g \in Generations : ListenNext(g) \/ BeatNext(g)

Spec == Init /\ [][Next]_vars

-----------------------------------------------------------------------------
TypeOK ==
    /\ part \in Parts \cup {"heartbeat"}
    /\ truth \in [guild : BOOLEAN, items : Items, gone : SUBSET Ids, left : BOOLEAN]
    /\ changes \in Nat
    /\ link \in [Generations -> [state : {"off", "hello", "up", "refused", "down"},
                                 session : 0..session.number, next : Nat]]
    /\ generation \in 0..MaxGenerations
    /\ loaded \in Nat
    /\ sessionID \in 0..session.number
    /\ sequence \in Nat
    /\ \A g \in Generations : listener[g].pc \in InHand \cup {"off", "read", "ack", "ended"}
    /\ cache \in CacheType
    /\ beat \in [Generations -> {"off", "wait", "check", "stamp", "write", "ended"}]
    /\ beats \in [Generations -> Nat]
    /\ owed \in [Generations -> BOOLEAN]
    /\ taken \subseteq DOMAIN session.log
    /\ {unacked, late, crossed, gap, meddled} \subseteq BOOLEAN

\* No event of a session is skipped: whatever a resumed connection is not sent again has been
\* read by a listener of that session, unless a listener left over from an older session has
\* stored its sequence or its session id over those of a newer one.
NothingSkipped ==
    ~crossed => \A g \in Generations : link[g].state = "up" =>
                    1..link[g].next - 1 \subseteq taken

\* All that was sent has been applied.
Quiet ==
    /\ generation # 0
    /\ link[generation].state = "up"
    /\ ~Unread(generation)
    /\ \A g \in Generations : listener[g].pc \notin InHand

\* Something of the guild may have gone without an event for it: with a session that was not
\* resumed, or while the bot was not in the guild, whose channels GUILD_DELETE leaves alone.
Unseen == gap \/ (truth.left /\ part \in InChannelMap)

SliceInSync ==
    part # "message" =>
        /\ cache.guildMap
        /\ \A i \in Ids : \/ cache.slice[i] = truth.items[i]
                         \/ (part = "thread" /\ Unseen /\ cache.slice[i] = 0)

IndexInSync ==
    part \in {"channel", "thread", "member", "role"} =>
        \A i \in Ids : IF truth.items[i] # 0 THEN cache.index[i] = truth.items[i]
                       ELSE cache.index[i] = 0 \/ (part \in InChannelMap /\ Unseen)

MessagesInSync ==
    \A n \in DOMAIN cache.messages : truth.items[cache.messages[n][1]] = cache.messages[n][2]

\* Once all events are applied the cache agrees with the server, through resumptions, new
\* sessions and the guild left and joined again, as long as no listener applies an event after
\* a newer generation has begun.  Three things may be off, and only when something has gone
\* unseen: channelMap and guildMap keep what is gone; a thread that was hidden meanwhile is
\* not in the slice again; a guild joined again is not in Ready.Guilds again.  emojiMap is
\* left out: GUILD_EMOJIS_UPDATE does not touch it.
InSync ==
    Quiet /\ ~late =>
        /\ cache.guilds => truth.guild
        /\ ~gap => cache.guilds = truth.guild /\ cache.guildMap = truth.guild
        /\ truth.guild => SliceInSync /\ IndexInSync /\ MessagesInSync
        /\ truth.guild /\ part = "member" => cache.count = Present(truth.items) + 1

\* A connection is ended for a missing acknowledgement only if the server did not give one, and
\* goes on only if it did, unless a goroutine of an older generation wrote the time of its own
\* heartbeat or acknowledgement into the Session after Hello.
JudgedByItsOwn ==
    [][\A g \in Generations : g = generation /\ ~meddled =>
          /\ MissedAck(g) => owed[g] \/ listener[g].pc = "ack"
          /\ CheckAck(g) => ~owed[g]]_vars

=============================================================================
