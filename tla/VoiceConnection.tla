--------------------------- MODULE VoiceConnection ---------------------------
(***************************************************************************)
(* The voice connection of one guild (voice.go, wsapi.go 1673-1815): the   *)
(* VoiceConnection objects the session keeps under the guild's key, the    *)
(* voice websockets ("generations") and the UDP socket each of them owns,  *)
(* and everything that works on them at once: the calls of the             *)
(* application (ChannelVoiceJoin, Disconnect, Close), the goroutines the   *)
(* Gateway starts for a voice state and a voice server update, the listener*)
(* of each websocket, the resume, the reconnect loop, the receiver.        *)
(*                                                                         *)
(* A generation is current while its object's wsConn is its websocket:     *)
(* generation and wsConn are set and cleared together, and whoever clears  *)
(* them cancels its context.  What a listener has read is handled in a     *)
(* step of its own, because a Close may come in between.  A timer may fire *)
(* at any time.  Discord answers a join with one voice state and one voice *)
(* server update, handled in any order, may move the guild to another      *)
(* voice server, and may close a websocket with any code.                  *)
(***************************************************************************)
EXTENDS Integers, FiniteSets

CONSTANTS MaxConns,   \* VoiceConnection objects made for the guild
          MaxGens,    \* voice websockets opened
          Openers,    \* goroutines that can be in openVoiceWebsocket at once
          MaxJoins,   \* OP4 requests to join, of the application and of reconnects
          MaxMoves,   \* voice server updates Discord sends unasked
          MaxLeaves   \* calls of Disconnect and Close by the application

ASSUME BoundsAssumption ==
    /\ MaxConns \in Nat \ {0} /\ MaxGens \in Nat \ {0}
    /\ MaxJoins \in Nat /\ MaxMoves \in Nat /\ MaxLeaves \in Nat
    /\ IsFiniteSet(Openers)

None == 0
Conns == 1 .. MaxConns
Gens == 1 .. MaxGens

VARIABLES
    conn,     \* the fields of each VoiceConnection
    guild,    \* session.VoiceConnections[guildID], None when absent
    made,     \* how many objects exist
    gen,      \* each generation and its listener
    opened,   \* how many generations exist: voice server and all
    opener,   \* the calls of openVoiceWebsocket
    due,      \* started calls of reconnect that have not reached the flag
    loop,     \* the reconnect call past the flag, of each object
    user,     \* the application
    news,     \* voice updates the Gateway has still to dispatch
    spent,    \* the bounded events that have happened
    faults    \* what has gone wrong with an object since its last Close

vars == <<conn, guild, made, gen, opened, opener, due, loop, user, news, spent,
          faults>>

Faults == {"notOpened",   \* an open for a voice server update failed
           "noUDP",       \* the UDP handshake failed, or Discord's answer is lost
           "noKey",       \* OP4 could not be handled: logged, and nobody asks again
           "notReconnected", \* a reconnect found another one still under way
           "overtaken",   \* a message read from an older generation was handled
           "revived"}     \* a resume was installed after a Close

NewConn == [ready |-> FALSE, ws |-> None, udp |-> None, channel |-> FALSE,
            sessionID |-> FALSE, attempts |-> 0, reconnecting |-> FALSE,
            key |-> None, receiver |-> None]

TypeOK ==
    /\ conn \in [Conns -> [ready : BOOLEAN, ws : Gens \union {None},
                           udp : Gens \union {None}, channel : BOOLEAN,
                           sessionID : BOOLEAN, attempts : 0 .. 1,
                           reconnecting : BOOLEAN, key : Gens \union {None},
                           receiver : Gens \union {None}]]
    /\ guild \in Conns \union {None}
    /\ made \in 0 .. MaxConns
    /\ gen \in [Gens -> [conn : Conns \union {None}, resume : BOOLEAN,
                         resumed : BOOLEAN, over : Gens \union {None},
                         stage : {"opened", "greeted", "selected", "served"},
                         pc : {"none", "reading", "ready", "udp", "handshake", "key",
                               "resumed", "resume", "fresh", "wait", "terminal",
                               "waiting", "remove", "done"}]]
    /\ opened \in 0 .. MaxGens
    /\ opener \in [Openers -> [pc : {"idle", "session", "dial", "write"},
                               conn : Conns \union {None}, resume : BOOLEAN,
                               gen : Gens \union {None}]]
    /\ due \in [Conns -> Nat]
    /\ loop \in [Conns -> [pc : {"idle", "close", "sleep", "wait", "ending"},
                           target : Conns \union {None}]]
    /\ user \in [pc : {"idle", "wait", "close", "delete"},
                 handle : Conns \union {None}, wants : BOOLEAN]
    /\ news \in [state : Nat, server : Nat]
    /\ spent \in [joins : 0 .. MaxJoins, moves : 0 .. MaxMoves,
                  leaves : 0 .. MaxLeaves]
    /\ faults \in [Conns -> SUBSET Faults]
    /\ \A c \in Conns : /\ conn[c].ws # None => gen[conn[c].ws].conn = c
                        /\ conn[c].reconnecting <=> loop[c].pc # "idle"

Idle == [pc |-> "idle", conn |-> None, resume |-> FALSE, gen |-> None]

Init ==
    /\ conn = [c \in Conns |-> NewConn]
    /\ guild = None
    /\ made = 0
    /\ gen = [g \in Gens |-> [conn |-> None, resume |-> FALSE, resumed |-> FALSE,
                              over |-> None, stage |-> "opened", pc |-> "none"]]
    /\ opened = 0
    /\ opener = [o \in Openers |-> Idle]
    /\ due = [c \in Conns |-> 0]
    /\ loop = [c \in Conns |-> [pc |-> "idle", target |-> None]]
    /\ user = [pc |-> "idle", handle |-> None, wants |-> FALSE]
    /\ news = [state |-> 0, server |-> 0]
    /\ spent = [joins |-> 0, moves |-> 0, leaves |-> 0]
    /\ faults = [c \in Conns |-> {}]

-----------------------------------------------------------------------------
(* Operators shared by the actions *)

Current(g) == gen[g].conn # None /\ conn[gen[g].conn].ws = g

\* closeTransport: every field of the transport goes at once; the context of
\* the generation and the close channel go with it, the websocket and the UDP
\* socket are closed.  sessionID stays.
Closed(r) == [r EXCEPT !.ready = FALSE, !.channel = FALSE, !.attempts = 0,
                       !.ws = None, !.udp = None]
CloseTransport(c) ==
    /\ conn' = [conn EXCEPT ![c] = Closed(@)]
    /\ faults' = [faults EXCEPT ![c] = {}]

\* detachVoiceGeneration, of the current generation of c: the UDP socket, the
\* close channel and Ready stay.
Detached(r) == [r EXCEPT !.ws = None]

Blame(c, what) == faults' = [faults EXCEPT ![c] = @ \union {what}]

Goto(g, pc) == gen' = [gen EXCEPT ![g].pc = pc]

ScheduleReconnect(c) == due' = [due EXCEPT ![c] = @ + 1]

\* removeVoiceConnection: only the entry that is still this object.
Remove(c) == guild' = IF guild = c THEN None ELSE guild

\* The object ChannelVoiceJoin works on: the guild's, or a new one.
Entry == IF guild = None THEN made + 1 ELSE guild

\* ChannelVoiceJoin up to waitUntilConnected; Discord will answer the OP4.
JoinChannel ==
    /\ spent.joins < MaxJoins
    /\ Entry \in Conns
    /\ guild' = Entry
    /\ made' = IF guild = None THEN made + 1 ELSE made
    /\ spent' = [spent EXCEPT !.joins = @ + 1]
    /\ news' = [state |-> news.state + 1, server |-> news.server + 1]

-----------------------------------------------------------------------------
(* The application *)

Join ==
    /\ user.pc = "idle"
    /\ JoinChannel
    /\ user' = [pc |-> "wait", handle |-> Entry, wants |-> TRUE]
    /\ UNCHANGED <<conn, gen, opened, opener, due, loop, faults>>

\* waitUntilConnected sees Ready ...
Joined ==
    /\ user.pc = "wait"
    /\ conn[user.handle].ready
    /\ user' = [user EXCEPT !.pc = "idle"]
    /\ UNCHANGED <<conn, guild, made, gen, opened, opener, due, loop, news, spent,
                   faults>>

\* ... or eleven seconds have passed, and ChannelVoiceJoin closes the connection
\* and returns an error.
JoinTimesOut ==
    /\ user.pc = "wait"
    /\ CloseTransport(user.handle)
    /\ user' = [user EXCEPT !.pc = "idle", !.wants = FALSE]
    /\ UNCHANGED <<guild, made, gen, opened, opener, due, loop, news, spent>>

\* Disconnect: OP4 without a channel, then Close, then the entry is deleted.
Disconnect ==
    /\ user.pc = "idle"
    /\ user.handle # None
    /\ spent.leaves < MaxLeaves
    /\ spent' = [spent EXCEPT !.leaves = @ + 1]
    /\ user' = [user EXCEPT !.pc = "close", !.wants = FALSE]
    /\ conn' = [conn EXCEPT ![user.handle].sessionID = FALSE]
    /\ UNCHANGED <<guild, made, gen, opened, opener, due, loop, news, faults>>

DisconnectCloses ==
    /\ user.pc = "close"
    /\ CloseTransport(user.handle)
    /\ user' = [user EXCEPT !.pc = "delete"]
    /\ UNCHANGED <<guild, made, gen, opened, opener, due, loop, news, spent>>

DisconnectDeletes ==
    /\ user.pc = "delete"
    /\ Remove(user.handle)
    /\ user' = [user EXCEPT !.pc = "idle"]
    /\ UNCHANGED <<conn, made, gen, opened, opener, due, loop, news, spent, faults>>

\* Close, which leaves the object in the map.
Close ==
    /\ user.pc = "idle"
    /\ user.handle # None
    /\ spent.leaves < MaxLeaves
    /\ spent' = [spent EXCEPT !.leaves = @ + 1]
    /\ CloseTransport(user.handle)
    /\ user' = [user EXCEPT !.wants = FALSE]
    /\ UNCHANGED <<guild, made, gen, opened, opener, due, loop, news>>

-----------------------------------------------------------------------------
(* Voice updates from the Gateway, each handled by a goroutine of its own *)

Move ==
    /\ spent.moves < MaxMoves
    /\ guild # None
    /\ conn[guild].ws # None
    /\ spent' = [spent EXCEPT !.moves = @ + 1]
    /\ news' = [news EXCEPT !.server = @ + 1]
    /\ UNCHANGED <<conn, guild, made, gen, opened, opener, due, loop, user, faults>>

VoiceStateUpdate ==
    /\ news.state > 0
    /\ news' = [news EXCEPT !.state = @ - 1]
    /\ conn' = IF guild = None THEN conn
               ELSE [conn EXCEPT ![guild].sessionID = TRUE]
    /\ UNCHANGED <<guild, made, gen, opened, opener, due, loop, user, spent, faults>>

VoiceServerUpdate(o) ==
    /\ news.server > 0
    /\ opener[o].pc = "idle"
    /\ news' = [news EXCEPT !.server = @ - 1]
    /\ IF guild = None
       THEN UNCHANGED <<conn, opener, faults>>
       ELSE /\ CloseTransport(guild)
            /\ opener' = [opener EXCEPT ![o] = [Idle EXCEPT !.pc = "session",
                                                            !.conn = guild]]
    /\ UNCHANGED <<guild, made, gen, opened, due, loop, user, spent>>

-----------------------------------------------------------------------------
(* openVoiceWebsocket *)

\* Mutant: a resume that fails is only logged.
OpenFailsSilently(o) ==
    /\ opener' = [opener EXCEPT ![o] = Idle]
    /\ UNCHANGED due
    /\ IF opener[o].resume THEN UNCHANGED faults ELSE Blame(opener[o].conn, "notOpened")

\* An open that fails is logged when a voice server update asked for it; a
\* resume that fails becomes a reconnect.
OpenFails(o) ==
    LET c == opener[o].conn IN
    /\ opener' = [opener EXCEPT ![o] = Idle]
    /\ IF opener[o].resume
       THEN ScheduleReconnect(c) /\ UNCHANGED faults
       ELSE Blame(c, "notOpened") /\ UNCHANGED due

\* The session id is there: a websocket that is in place is not overwritten.
HasSession(o) ==
    LET c == opener[o].conn IN
    /\ opener[o].pc = "session"
    /\ conn[c].sessionID
    /\ IF conn[c].ws # None
       THEN OpenFails(o)
       ELSE /\ opener' = [opener EXCEPT ![o].pc = "dial"]
            /\ UNCHANGED <<due, faults>>
    /\ UNCHANGED <<conn, guild, made, gen, opened, loop, user, news, spent>>

NoSessionInTime(o) ==
    /\ opener[o].pc = "session"
    /\ ~conn[opener[o].conn].sessionID
    /\ OpenFails(o)
    /\ UNCHANGED <<conn, guild, made, gen, opened, loop, user, news, spent>>

DialFails(o) ==
    /\ opener[o].pc = "dial"
    /\ OpenFails(o)
    /\ UNCHANGED <<conn, guild, made, gen, opened, loop, user, news, spent>>

\* The websocket is dialled without the lock and looked at again under it.  A
\* resume keeps the close channel, which a Close has taken away meanwhile.
Install(o) ==
    LET c == opener[o].conn
        resume == opener[o].resume
        g == opened + 1 IN
    /\ opener[o].pc = "dial"
    /\ IF conn[c].ws # None
       THEN OpenFails(o) /\ UNCHANGED <<conn, gen, opened>>
       ELSE /\ g \in Gens
            /\ opened' = g
            /\ conn' = [conn EXCEPT ![c].ws = g,
                                    ![c].channel = resume => @,
                                    ![c].attempts = IF resume THEN @ ELSE 0]
            /\ gen' = [gen EXCEPT ![g] = [@ EXCEPT !.conn = c, !.resume = resume]]
            /\ opener' = [opener EXCEPT ![o].pc = "write", ![o].gen = g]
            /\ IF resume /\ ~conn[c].channel
               THEN Blame(c, "revived")
               ELSE UNCHANGED faults
            /\ UNCHANGED due
    /\ UNCHANGED <<guild, made, loop, user, news, spent>>

\* The identify or resume packet is written and the listener started.
Start(o) ==
    /\ opener[o].pc = "write"
    /\ Goto(opener[o].gen, "reading")
    /\ opener' = [opener EXCEPT ![o] = Idle]
    /\ UNCHANGED <<conn, guild, made, opened, due, loop, user, news, spent, faults>>

WriteFails(o) ==
    LET g == opener[o].gen IN
    /\ opener[o].pc = "write"
    /\ conn' = IF Current(g) THEN [conn EXCEPT ![gen[g].conn] = Detached(@)] ELSE conn
    /\ OpenFails(o)
    /\ UNCHANGED <<guild, made, gen, opened, loop, user, news, spent>>

-----------------------------------------------------------------------------
(* wsListen and the messages it handles *)

\* The session a resume asks for: that of the last websocket that was identified.
Session(c, h) ==
    /\ gen[h].conn = c /\ ~gen[h].resume
    /\ \A k \in Gens : k > h /\ gen[k].conn = c => gen[k].resume

\* What Discord sends next on g: READY, the session description once the
\* protocol is selected, RESUMED for a session that had been described.
Described(c) == \E h \in Gens : Session(c, h) /\ gen[h].stage = "served"
Sends(g) ==
    CASE gen[g].resume /\ gen[g].stage = "opened" /\ Described(gen[g].conn) -> "resumed"
      [] ~gen[g].resume /\ gen[g].stage = "opened" -> "ready"
      [] gen[g].stage = "selected" -> "key"
      [] OTHER -> "nothing"

Read(g) ==
    /\ gen[g].pc = "reading"
    /\ Current(g)
    /\ Sends(g) # "nothing"
    /\ gen' = [gen EXCEPT ![g].pc = Sends(g),
                          ![g].stage = IF Sends(g) = "ready" THEN "greeted" ELSE "served"]
    /\ UNCHANGED <<conn, guild, made, opened, opener, due, loop, user, news, spent,
                   faults>>

\* A read fails on the websocket of a generation that is no longer current.
ListenEnds(g) ==
    /\ gen[g].pc = "reading"
    /\ ~Current(g)
    /\ Goto(g, "done")
    /\ UNCHANGED <<conn, guild, made, opened, opener, due, loop, user, news, spent,
                   faults>>

\* OP2: udpOpen takes the websocket that is current now, and refuses without
\* one, without a close channel, or when there is a UDP socket.
OpenUDP(g) ==
    LET c == gen[g].conn IN
    /\ gen[g].pc = "ready"
    /\ IF conn[c].ws = None \/ conn[c].udp # None \/ ~conn[c].channel
       THEN /\ Goto(g, "reading")
            /\ IF Current(g) THEN Blame(c, "noUDP") ELSE UNCHANGED faults
       ELSE /\ gen' = [gen EXCEPT ![g].pc = "udp", ![g].over = conn[c].ws]
            /\ UNCHANGED faults
    /\ UNCHANGED <<conn, guild, made, opened, opener, due, loop, user, news, spent>>

InstallUDP(g) ==
    LET c == gen[g].conn IN
    /\ gen[g].pc = "udp"
    /\ conn[c].ws = gen[g].over
    /\ conn[c].udp = None
    /\ conn' = [conn EXCEPT ![c].udp = g]
    /\ Goto(g, "handshake")
    /\ IF Current(g) THEN UNCHANGED faults ELSE Blame(c, "overtaken")
    /\ UNCHANGED <<guild, made, opened, opener, due, loop, user, news, spent>>

\* The discovery packet is answered and OP1 written to the websocket: Discord
\* will send the session description on it.
UDPAnswers(g) ==
    LET c == gen[g].conn
        over == gen[g].over IN
    /\ gen[g].pc = "handshake"
    /\ conn[c].udp = g
    /\ conn[c].ws = over
    /\ gen' = [gen EXCEPT ![g].pc = "reading",
                          ![over].stage = IF gen[over].stage = "greeted"
                                          THEN "selected" ELSE @]
    /\ UNCHANGED <<conn, guild, made, opened, opener, due, loop, user, news, spent,
                   faults>>

\* Any error of udpOpen: its own socket is dropped, the websocket stays.
UDPFails(g) ==
    LET c == gen[g].conn IN
    /\ gen[g].pc \in {"udp", "handshake"}
    /\ conn' = IF gen[g].pc = "handshake" /\ conn[c].udp = g
               THEN [conn EXCEPT ![c].udp = None] ELSE conn
    /\ Goto(g, "reading")
    /\ IF Current(g) THEN Blame(c, "noUDP") ELSE UNCHANGED faults
    /\ UNCHANGED <<guild, made, opened, opener, due, loop, user, news, spent>>

\* A message that cannot be decoded, or whose sequence number is refused, is logged and
\* dropped.
MessageDropped(g) ==
    LET c == gen[g].conn IN
    /\ gen[g].pc \in {"ready", "key", "resumed"}
    /\ IF Current(g)
       THEN faults' = [faults EXCEPT ![c] =
                CASE gen[g].pc = "ready"   -> @ \union {"noUDP"}
                  [] gen[g].pc = "key"     -> @ \union {"noKey"}
                  [] gen[g].pc = "resumed" -> @]
       ELSE UNCHANGED faults
    /\ Goto(g, "reading")
    /\ UNCHANGED <<conn, guild, made, opened, opener, due, loop, user, news, spent>>

\* OP4, whichever generation it was read from: the cipher, Ready, and the audio
\* routines on the socket that is there now.
TakeKey(g) ==
    LET c == gen[g].conn IN
    /\ gen[g].pc = "key"
    /\ Goto(g, "reading")
    /\ conn' = [conn EXCEPT ![c].key = g, ![c].ready = TRUE,
                            ![c].receiver = IF conn[c].channel THEN conn[c].udp ELSE @]
    /\ IF Current(g) THEN UNCHANGED faults ELSE Blame(c, "overtaken")
    /\ UNCHANGED <<guild, made, opened, opener, due, loop, user, news, spent>>

\* OP4 fails: on an unknown mode, on the secret key, which leaves the cipher as it was or
\* none, or in DAVE, when the cipher is set.  Ready and the sockets stay as they are.
KeyFails(g) ==
    LET c == gen[g].conn IN
    /\ gen[g].pc = "key"
    /\ Goto(g, "reading")
    /\ \E k \in {conn[c].key, None, g} : conn' = [conn EXCEPT ![c].key = k]
    /\ Blame(c, IF Current(g) THEN "noKey" ELSE "overtaken")
    /\ UNCHANGED <<guild, made, opened, opener, due, loop, user, news, spent>>

\* Mutant: OP9 of any generation.
TakeResumedOfAny(g) ==
    /\ gen[g].pc = "resumed"
    /\ gen' = [gen EXCEPT ![g].pc = "reading", ![g].resumed = TRUE]
    /\ conn' = [conn EXCEPT ![gen[g].conn].ready = TRUE, ![gen[g].conn].attempts = 0]
    /\ UNCHANGED <<guild, made, opened, opener, due, loop, user, news, spent, faults>>

\* OP9, of the current generation only.
TakeResumed(g) ==
    LET c == gen[g].conn IN
    /\ gen[g].pc = "resumed"
    /\ gen' = [gen EXCEPT ![g].pc = "reading", ![g].resumed = @ \/ Current(g)]
    /\ conn' = IF Current(g)
               THEN [conn EXCEPT ![c].ready = TRUE, ![c].attempts = 0]
               ELSE conn
    /\ UNCHANGED <<guild, made, opened, opener, due, loop, user, news, spent, faults>>

-----------------------------------------------------------------------------
(* handleVoiceWebsocketClose *)

\* classifyVoiceCloseCode, and a resume that was not answered starts afresh.
CloseAction(g, class) == IF gen[g].resume /\ ~gen[g].resumed THEN "fresh" ELSE class

\* The websocket fails or is closed with a code: the generation is detached.
ReadFails(g, class) ==
    LET c == gen[g].conn IN
    /\ gen[g].pc = "reading"
    /\ Current(g)
    /\ conn' = [conn EXCEPT ![c] = Detached(@)]
    /\ Goto(g, CloseAction(g, class))
    /\ UNCHANGED <<guild, made, opened, opener, due, loop, user, news, spent, faults>>

\* A transport is resumed once; the next failure reconnects.
ResumeOnce(g, o) ==
    LET c == gen[g].conn IN
    /\ gen[g].pc = "resume"
    /\ Goto(g, "done")
    /\ IF conn[c].attempts # 0
       THEN ScheduleReconnect(c) /\ UNCHANGED <<conn, opener>>
       ELSE /\ opener[o].pc = "idle"
            /\ conn' = [conn EXCEPT ![c].attempts = @ + 1]
            /\ opener' = [opener EXCEPT ![o] = [pc |-> "session", conn |-> c,
                                                resume |-> TRUE, gen |-> None]]
            /\ UNCHANGED due
    /\ UNCHANGED <<guild, made, opened, loop, user, news, spent, faults>>

StartAfresh(g) ==
    /\ gen[g].pc = "fresh"
    /\ Goto(g, "done")
    /\ ScheduleReconnect(gen[g].conn)
    /\ UNCHANGED <<conn, guild, made, opened, opener, loop, user, news, spent, faults>>

Terminate(g) ==
    /\ gen[g].pc = "terminal"
    /\ Goto(g, "done")
    /\ CloseTransport(gen[g].conn)
    /\ Remove(gen[g].conn)
    /\ UNCHANGED <<made, opened, opener, due, loop, user, news, spent>>

\* 4014: close, and give a voice server update five seconds.
AwaitServerUpdate(g) ==
    /\ gen[g].pc = "wait"
    /\ Goto(g, "waiting")
    /\ CloseTransport(gen[g].conn)
    /\ UNCHANGED <<guild, made, opened, opener, due, loop, user, news, spent>>

ServerUpdateSeen(g) ==
    /\ gen[g].pc = "waiting"
    /\ conn[gen[g].conn].ws # None
    /\ Goto(g, "done")
    /\ UNCHANGED <<conn, guild, made, opened, opener, due, loop, user, news, spent,
                   faults>>

NoServerUpdate(g) ==
    /\ gen[g].pc = "waiting"
    /\ conn[gen[g].conn].ws = None
    /\ Goto(g, "remove")
    /\ UNCHANGED <<conn, guild, made, opened, opener, due, loop, user, news, spent,
                   faults>>

RemoveAndClose(g) ==
    /\ gen[g].pc = "remove"
    /\ Goto(g, "done")
    /\ Remove(gen[g].conn)
    /\ CloseTransport(gen[g].conn)
    /\ UNCHANGED <<made, opened, opener, due, loop, user, news, spent>>

-----------------------------------------------------------------------------
(* opusReceiver and reconnect *)

\* The UDP socket fails under the receiver and is still the connection's.
ReceiverFails(c) ==
    /\ conn[c].receiver # None
    /\ conn[c].receiver = conn[c].udp
    /\ conn' = [conn EXCEPT ![c].receiver = None]
    /\ ScheduleReconnect(c)
    /\ UNCHANGED <<guild, made, gen, opened, opener, loop, user, news, spent, faults>>

Reconnect(c) ==
    /\ due[c] > 0
    /\ due' = [due EXCEPT ![c] = @ - 1]
    /\ IF conn[c].reconnecting
       THEN Blame(c, "notReconnected") /\ UNCHANGED <<conn, loop>>
       ELSE /\ conn' = [conn EXCEPT ![c].reconnecting = TRUE]
            /\ loop' = [loop EXCEPT ![c].pc = "close"]
            /\ UNCHANGED faults
    /\ UNCHANGED <<guild, made, gen, opened, opener, user, news, spent>>

ReconnectCloses(c) ==
    /\ loop[c].pc = "close"
    /\ CloseTransport(c)
    /\ loop' = [loop EXCEPT ![c].pc = "sleep"]
    /\ UNCHANGED <<guild, made, gen, opened, opener, due, user, news, spent>>

\* After the pause, when the session is ready: join as the application would.
Rejoin(c) ==
    /\ loop[c].pc = "sleep"
    /\ JoinChannel
    /\ loop' = [loop EXCEPT ![c] = [pc |-> "wait", target |-> Entry]]
    /\ UNCHANGED <<conn, gen, opened, opener, due, user, faults>>

Rejoined(c) ==
    /\ loop[c].pc = "wait"
    /\ conn[loop[c].target].ready
    /\ loop' = [loop EXCEPT ![c] = [pc |-> "ending", target |-> None]]
    /\ UNCHANGED <<conn, guild, made, gen, opened, opener, due, user, news, spent,
                   faults>>

\* ChannelVoiceJoin closes what it waited for, OP4 without a channel is sent,
\* and the loop pauses again.
RejoinTimesOut(c) ==
    /\ loop[c].pc = "wait"
    /\ CloseTransport(loop[c].target)
    /\ loop' = [loop EXCEPT ![c] = [pc |-> "sleep", target |-> None]]
    /\ UNCHANGED <<guild, made, gen, opened, opener, due, user, news, spent>>

\* Mutant: the flag is left set.
ReconnectEndsFlagged(c) ==
    /\ loop[c].pc = "ending"
    /\ loop' = [loop EXCEPT ![c].pc = "idle"]
    /\ UNCHANGED <<conn, guild, made, gen, opened, opener, due, user, news, spent, faults>>

ReconnectEnds(c) ==
    /\ loop[c].pc = "ending"
    /\ loop' = [loop EXCEPT ![c].pc = "idle"]
    /\ conn' = [conn EXCEPT ![c].reconnecting = FALSE]
    /\ UNCHANGED <<guild, made, gen, opened, opener, due, user, news, spent, faults>>

-----------------------------------------------------------------------------
Classes == {"resume", "fresh", "wait", "terminal"}

Application == Join \/ Joined \/ JoinTimesOut \/ Disconnect \/ DisconnectCloses
               \/ DisconnectDeletes \/ Close

Updates == Move \/ VoiceStateUpdate \/ \E o \in Openers : VoiceServerUpdate(o)

Opening(o) == HasSession(o) \/ NoSessionInTime(o) \/ DialFails(o) \/ Install(o)
              \/ Start(o) \/ WriteFails(o)

Listening(g) ==
    \/ Read(g) \/ ListenEnds(g)
    \/ OpenUDP(g) \/ InstallUDP(g) \/ UDPAnswers(g) \/ UDPFails(g)
    \/ MessageDropped(g) \/ TakeKey(g) \/ KeyFails(g) \/ TakeResumed(g)
    \/ \E class \in Classes : ReadFails(g, class)
    \/ \E o \in Openers : ResumeOnce(g, o)
    \/ StartAfresh(g) \/ Terminate(g) \/ AwaitServerUpdate(g)
    \/ ServerUpdateSeen(g) \/ NoServerUpdate(g) \/ RemoveAndClose(g)

Reconnecting(c) == ReceiverFails(c) \/ Reconnect(c) \/ ReconnectCloses(c)
                   \/ Rejoin(c) \/ Rejoined(c)
                   \/ RejoinTimesOut(c) \/ ReconnectEnds(c)

Next ==
    \/ Application
    \/ Updates
    \/ \E o \in Openers : Opening(o)
    \/ \E g \in Gens : Listening(g)
    \/ \E c \in Conns : Reconnecting(c)

Spec == Init /\ [][Next]_vars

-----------------------------------------------------------------------------
(* Properties *)

\* Ready, which tells senders and joiners that audio can flow, is true only
\* while the connection has a UDP socket and the cipher of the generation that
\* opened that socket; the exceptions are a message of an older generation
\* handled after a Close, a resume installed after one, and an OP4 that could not be
\* handled: Discord resumes its session all the same, and OP9 does not look at the cipher.
ReadyIsUsable ==
    \A c \in Conns :
        conn[c].ready =>
            \/ conn[c].udp # None /\ conn[c].key = conn[c].udp
            \/ faults[c] \intersect {"overtaken", "revived", "noKey"} # {}

\* Something will go on for c without Discord doing more than it owes: a call
\* under way, an update or a message on its way, a resume that waitForVoiceResume
\* will end.
Attended(c) ==
    \/ due[c] > 0
    \/ news.state + news.server > 0
    \/ user.pc # "idle"
    \/ \E d \in Conns : loop[d].pc # "idle"
    \/ \E o \in Openers : opener[o].conn = c
    \/ \E g \in Gens : /\ gen[g].conn = c
                       /\ \/ gen[g].pc \notin {"none", "reading", "handshake", "done"}
                          \/ /\ gen[g].pc = "reading" /\ Current(g)
                             /\ \/ Sends(g) # "nothing"
                                \/ gen[g].resume /\ ~gen[g].resumed
                          \/ gen[g].pc = "handshake" /\ conn[c].udp # g

Up(c) == conn[c].ready /\ conn[c].ws # None /\ conn[c].udp # None

\* A connection the application has joined, has not left and still finds in the
\* map is up or is being worked on, unless one of the faults the code does not
\* repair has hit it: nobody retries an open that a voice server update asked
\* for, nor a UDP handshake (whose answer the listener awaits without a
\* deadline), nor asks for another OP4 when one could not be handled, a reconnect gives
\* way to one that is ending, and a resume that is installed after a Close has no UDP
\* socket and stops the wait for an update.
DownOnlyByFault ==
    \A c \in Conns :
        user.wants /\ user.handle = c /\ guild = c /\ ~Attended(c) /\ ~Up(c)
            => \/ faults[c] \intersect {"notOpened", "noUDP", "noKey", "notReconnected",
                                         "revived"} # {}
               \/ \E g \in Gens : gen[g].conn = c /\ gen[g].pc = "handshake"
=============================================================================
