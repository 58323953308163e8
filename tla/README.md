# Verification of discord.go

TLA+ models of the concurrent parts of discord.go, the TLC runs that check them, and
theorems about them that TLAPS checks. The reference is the code: every definition of a
module stands for the lines that `PROJECT.json` ("map") names.

    cd tla
    tlc -workers 2 -config GatewayReopen.cfg Gateway   # any run of PROJECT.json
    tlapm GatewayProofs.tla                            # the proofs, in each *Proofs.tla

## 1. The system

discord.go is a client library: a program that uses it calls its methods from any
goroutine and is called back by its event handlers. There is no persistent state, and
nothing survives the process. What makes it hard is inside the process: many
goroutines, several locks, a websocket that ends at any time, and callbacks that call
back in.

| Component | State | Operations | Hard because |
|---|---|---|---|
| Gateway lifecycle (`wsapi.go`) | `gatewayLifecycle`, `gatewayConnection`, their contexts, `gatewayReconnectRunning`, the event queue | `OpenWithContext`, `Close`, the opener, listener, heartbeat and context watcher of a generation, the reconnect routine | five kinds of goroutine end a generation; the websocket is dialled outside the lock; retries race `Close` |
| Gateway writes (`gateway_write.go`) | one queue and one rate window per generation, `wsMutex` | `enqueue`, `run`, priority write | sliding window, contexts that end while a request is queued, a write that blocks |
| Resume state, heartbeat (`wsapi.go`) | session id, resume URL, sequence, heartbeat times | `onEvent`, `heartbeat`, `authenticateGatewayGeneration`, `invalidateGatewaySession` | shared by generations, which overlap |
| Events (`event.go`) | handler lists | `AddHandler`, `AddHandlerOnce`, removal, `handle` | removal and dispatch at once; panics |
| State cache (`state.go`) | guilds and the maps that index them | one per event | slices and maps must agree |
| Sharding (`sharding.go`) | quota, bucket gates, manager state | `Acquire`, `Refresh`, `Open`, `Close` | waits outside the lock; one shard of several fails; `Close` inside `Open` |
| REST (`ratelimit.go`, `restapi.go`) | buckets, hash mappings, global window, invalid-request window | lock, release, retry | eviction of what is in use, two bucket locks, checks before a wait |
| Voice connection (`voice.go`) | websocket generation, UDP, sequence, flags | join, resume, reconnect, close | updates arrive in goroutines of their own |
| DAVE (`dave.go`), MLS (`mls/`) | epoch, pending transition, ratchets | one per opcode | transitions out of order, reset in between |
| Voice queue (`voice/queue.go`) | `pending`, `current`, flags, one wake channel per run | `Enqueue`, `Start`, `Drain`, `Stop`, `Skip`, `Clear`, `Pause`, `Resume`, the worker | a one-slot channel with three meanings; sources change hands |
| Voice receiver, player (`voice/`) | decoder per SSRC, encoder generation | `Decode`, `WriteFrame` | sequence arithmetic mod 2^16 |
| Bot (`bot/`) | commands, loops, extensions | register, dispatch, load, unload, start and stop a loop | a finished run is forgotten by a goroutine of its own |

How they interact. A `Session` owns the gateway lifecycle, the REST client, the event
handlers, the state cache and the voice connections. The listener of a generation calls
`onEvent`, which updates the resume state, hands voice updates to new goroutines,
updates the cache and calls the handlers; handlers call any method of the Session.
`Connect` and `Disconnect` do not go through the listener but through a queue of their
own, drained by whoever put something in. A `ShardManager` opens several Sessions, which
share an `IdentifyCoordinator`. A `voice.Queue` pulls frames out of a source and pushes
them into a `Player`, which writes to a voice connection that may be reconnecting. The
bot framework registers handlers on a Session and runs loops under its own context.

What makes each component correct is listed with its hazards, at their lines, in
`PROJECT.json` ("hazards"): the properties below are aimed at them, and a hazard that
no property covers yet says in which module it is planned.

## 2. Modules

    Gateway.tla                   lifecycle of a Session's gateway connection
    GatewayProofs.tla             its theorems
    GatewayWriteQueue.tla         what a Session writes: the queue of a generation, and what passes it by
    GatewayWriteProofs.tla        its theorems
    GatewaySession.tla            sequence, resume, heartbeat, and the events into the cache
    StateCache.tla                the cache of one guild, one operator per event; used by GatewaySession
    GatewaySessionProofs.tla      theorems of both
    IdentifyCoordinator.tla       quota and gates of the Identifies of several shards
    ShardManager.tla              Open and Close over Sessions; composed with the coordinator
    ShardManagerProofs.tla        theorems of both, and that it implements the coordinator
    RateLimiter.tla               buckets, breaker and retries of the REST client
    RateLimiterProofs.tla         its theorems
    VoiceConnection.tla           websockets, UDP socket and calls of a guild's voice connection
    VoiceConnectionProofs.tla     its theorems
    TrackOrder.tla                what a voice queue promises, abstractly
    VoiceQueue.tla                the voice queue; implements TrackOrder
    VoiceQueueProofs.tla          its theorems, and that it implements TrackOrder
    BotLoops.tla                  loops of the bot, and the extensions that stage them
    BotLoopsProofs.tla            its theorems
    MC*.tla                       the instances that need definitions: limits, staging, changes,
                                  symmetry, state constraints

Where numbers and model values are all a module needs, its configuration checks the module
itself; functions, records, views and constraints are defined in an MC module. Comments that begin with
`Mutant:` mark definitions that are not used: plausible mistakes, each of which
breaks the property that `PROJECT.json` ("mutants") pairs it with.

### Gateway

A step is one critical section of `gatewayLifecycleMu` or `gatewayEventMu`, or one channel
operation; everything else may come in between. Generations and lifecycles are the
numbers the code's counters give them.

| Variable | Code |
|---|---|
| `lifecycle`, `cancelled` | `s.gatewayLifecycle`; lifecycles whose `ctx` is done |
| `connection`, `owner`, `genCancelled` | `s.gatewayConnection`; `conn.lifecycle`; generations with `conn.cancel()` called |
| `sockets` | generations with a websocket that is open |
| `connected`, `ready` | `conn.connected`; the one-slot channel `conn.ready` |
| `finish`, `finishRes`, `finishReconnects` | where the goroutine inside `conn.finish.Do` is, and with which `gatewayAttemptResult` |
| `opener`, `openGen`, `openRes` | a goroutine in `openGatewayGeneration` and its two callers, `connectGatewayUntilReady` ("open") and the reconnect routine ("reconnect") |
| `closing`, `closeGen` | a goroutine in `closeGateway` |
| `events`, `dispatcher`, `lastEvent` | `s.gatewayEvents`, who runs the loop of `drainGatewayEvents`, the last event handlers saw |
| `asked`, `listener` | Identify or Resume was written and not answered; the goroutine `listen` |
| `lost` | no code: records that one of the two races below happened |

`sync.Once` is modelled as it works: the first caller enters (`FinishWith`), the others
wait (`Finished`). The network is nondeterministic: a dial, a read or a write may fail or
never return, and a close code may ask for any recovery. Delays are left out: a timer may
fire at any time. Contexts form the tree of the code: a generation is done when its own
context or its lifecycle's is.

### GatewayWriteQueue

A step is one critical section of `wsMutex` or `guildMembersRequestMu`, one channel
operation, or one write. Of `Gateway` it keeps what the queues can tell: which generation
is current (`conn`), whether its context is done (`ctxDone`), and where the goroutine in its
`finish.Do` is, as far as the close frame and the end of the websocket (`finish`).

| Variable | Code |
|---|---|
| `writer`, `inHand` | where the goroutine `run` of a generation is; whose request it works on |
| `requests` | the channel `q.requests`, as callers; `Nobody` for a request whose caller has gone |
| `sentAt` | `run`'s slice of instants, each as what is left of its window |
| `call` | of each caller, where in `enqueue`, and whether it asks for all members |
| `members` | the entry of `s.guildMembersRequests` of one guild, while it forbids anything |
| `wsMutex`, `ping` | the lock; a listener in `writeGatewayPriorityCurrent` |
| `broken` | websockets closed or failed: no write succeeds any more |
| `wire`, `granted` | history: when the last `Limit` packets left; the cooldown a caller was granted |

`WriteJSON` is two steps, because that is where the time goes: the packet leaves
(`PacketLeaves`), and later the call returns (`WriteSucceeds`, or `WriteFails` also when the
packet did leave). `run` counts the packet after that, and looks for a slot before it waits
for the lock, so between the instant that is counted and the one that matters any time may
pass, in either place. `GivesUp` stands for the contexts in `enqueue`; all callers pass the
context of the generation, so there is one. A select that can take a result or a done
context may take either. Callers may put a request into a channel nobody reads any more, as
the select in `enqueue` may; they find the context done.

What the module shows beside its properties: the heartbeat that Discord asks for
is not counted (its comment says so; the comment of `gatewayWriteQueue` calls it "the only
data-writer"), so the limit is the queue's, not the websocket's; a call that failed may have
been sent; and reservations of all-members requests are a cooldown apart when they are
accepted, not when they are written.

### VoiceQueue and TrackOrder

A step of `VoiceQueue` is one critical section of `q.mu`, one receive, or one call of a
source, the player or the handler. What a caller does after it unlocked, a wake-up, a
cancellation, the closing of sources one by one, are steps of their own (`calling`,
`held`), and each caller keeps the channel and the context of the run it saw (`callRun`),
so a caller of an old run can meet a new one. `worker` is where the goroutine `execute`
is; `stage` is what `playSource` does after `waitUntilResumed`. Reading a frame and
`Player.WriteFrame` are their outcomes. `accepted` and `closed` are history.

`TrackOrder` says what the queue promises to somebody who hands over sources: they are
begun in order, one at a time, each is closed before the next begins, and one that was
closed or withdrawn is never begun. `VoiceQueue` implements it under the mapping
`waiting <- pending, playing <- current`.

### IdentifyCoordinator and ShardManager

A step of `IdentifyCoordinator` is one critical section of `c.mu`, one look at a context, or
the end of a wait. The code keeps instants (`resetAt`, `bucketReadyAt`, the timer of a
caller); the module keeps what is left of them (`resetIn`, `readyIn`, `wakeIn`), which `Tick`
lowers, so that time needs no bound. `resetQuotaLocked` runs at the head of `Acquire` and
`Status`, and is part of their actions (`ResetQuota`, `Left`). `spent` and `since` are
history: how many Identifies were granted since the quota was last set, and how long ago a
bucket granted one. There is no queue at a gate: callers that wake at once contend for
`c.mu`, the losers sleep again, and nothing keeps one from losing for ever; so no property
says that an `Acquire` is granted.

| Variable of `ShardManager` | Code |
|---|---|
| `state` | `m.state` |
| `lifetimeDone` | the context that `m.cancel` cancels, derived from the one given to `Open` |
| `cleanupCompleted` | `m.cleanupCompleted` |
| `open`, `openErr` | where the goroutine in `Open` is (`m.openDone` is closed exactly when it is "idle"); whether a shard put an error into `errorsByShard` |
| `closer` | where each goroutine in `Close` is; "follow" waits for `m.closeDone` |
| `session` | of each shard's `Session`, closed, being opened or open |
| `orphan` | a reconnect routine whose lifecycle has ended while it was in `Acquire` |

`ShardManager` EXTENDS the coordinator, and its shards take the coordinator's steps: a
Session that is opening or open calls `Acquire`, uses what it returned (`ShardOpens`,
`ShardGoesOn`, `ShardFails`), or is closed under it (`SessionCloses`). A Session is kept only
as far as the manager can tell: `Gateway` models the rest, and a fresh Identify is possible
in it whenever a generation begins. A Session has one `Acquire` at a time here.

What the coordinator leaves to Discord: `resetQuotaLocked` begins the next window at the
instant the last one ended, with the length that the response told of the last one
(`resetWindow` is what was left of it). Discord's next window begins with its first
Identify, so the `RetryAfter` of an `IdentifyQuotaExhaustedError` may be too short. The
model has the coordinator's window only; this is listed as a hazard.

### GatewaySession and StateCache

A listener takes three steps per event, as `onEvent` does: it reads (and looks at its
context), stores the sequence, applies the event. A generation may end between any two of
them, and the next may already be connecting: the listener of the older one still finishes
the event it has in hand. `StateCache` says what each event does to the Guild's slices and
to the maps that index them, for one part of the guild (roles, emojis, sounds, channels,
threads, members, messages, voice states) at a time, since the parts do not meet.

| Variable | Code |
|---|---|
| `sessionID`, `sequence`, `cache` | `s.sessionID`, `s.sequence`, `s.State` |
| `generation`, `loaded` | the newest generation; the sequence `authenticateGatewayGeneration` loaded before it wrote Resume |
| `listener` | where each generation's `listen` is, and the event in its hand |
| `beat`, `beats`, `unacked` | each heartbeat goroutine; `heartbeatAckPending` of the two times the Session keeps |
| `truth`, `session`, `changes`, `link`, `owed` | Discord: the guild as it is, the session and its events, each connection |
| `part`, `taken`, `late`, `crossed`, `gap`, `meddled` | no code: what the behaviour exercises, and history for the properties |

`NothingSkipped`: whatever the server has passed on a live connection, or does not send again
because of the sequence it was given, was read by a listener of that session, unless a
left-over listener of another session stored over it. `InSync`: when nothing is under way
the cache is what Discord knows, across resumes, fresh sessions and a guild that is left and
joined, unless an older generation's listener came late. `JudgedByItsOwn`: a heartbeat that
finds its acknowledgement missing ends a connection that did miss it, unless an older
generation wrote one of the two times. What `InSync` has to except, and does so by name:
after a gap `guildMap` keeps a guild the bot has left, and `channelMap` the channels that
went with a guild or in the gap, although state.go:223-225 says that the caches of an
earlier READY are discarded; a guild that is joined again is not put back into
`Ready.Guilds`, nor a thread that was hidden into `Guild.Threads`; GUILD_EMOJIS_UPDATE
(state.go:1223) leaves `emojiMap` as it was. The heartbeat times belong to the Session and
not to a connection, so a stale stamp may end a healthy one.

### RateLimiter

A step is one critical section of the limiter's or of a bucket's mutex, or one move of
the server, which counts the requests of each hash. There is no clock: a bucket's reset names
the window whose end it is, or is past.

| Variable | Code |
|---|---|
| `buckets`, `bucketHashes` | the maps of the same names |
| `invalid` | `invalidRequests` in the rolling window |
| `bucket`, `holder` | the `Bucket` objects, and the request that has each one's mutex |
| `pc`, `obj`, `route`, `retries`, `resp` | a request in `requestWithLockedBucket`: its place, bucket, route, retries, answer |
| `hashOf`, `moves`, `accepted` | Discord: the hash of each route, how often it changed, the requests accepted in the window |
| `by` | no code: the one object the requests of a window went through, or that there were several |

### VoiceConnection

A guild's `VoiceConnection` objects, the websockets (generations) and UDP socket of each,
and everything that works on them at once. A generation is current while its object's
`wsConn` is its websocket: `v.generation` and `v.wsConn` are set and cleared together. What a
listener has read is handled in a step of its own, because a `Close` may come in between.

| Variable | Code |
|---|---|
| `conn` | fields of each object: `Ready`, `wsConn`, `udpConn`, `close` channel, `sessionID`, resume attempts, `reconnecting`, cipher (by generation), the receiver's socket |
| `guild`, `made` | `s.VoiceConnections[guildID]`; how many objects exist |
| `gen`, `opened` | each generation: its object, whether it resumes, what Discord has sent on it, where its `wsListen` is |
| `opener` | a goroutine in `openVoiceWebsocket` |
| `due`, `loop` | calls of `reconnect` before the flag is taken, and the one past it |
| `user` | the application in `ChannelVoiceJoin`, `Disconnect` or `Close`; whether it wants to be connected |
| `news` | voice state and voice server updates whose goroutines have still to run |
| `spent` | the bounded events that have happened |
| `faults` | no code: what has gone wrong with an object since its last Close: an open, the UDP handshake or an OP4 that failed, a reconnect that gave way, a message of an older generation, a resume installed late |

A missed heartbeat, a resume that is not answered (`waitForVoiceResume`) and a network error
are all `ReadFails`. A listener in the UDP handshake reads nothing, and has no deadline there.
Discord resumes the session of the last Identify, and only if it has described it. What the
model shows beside its properties: an open for a voice server update that fails is not
tried again; a `reconnect` gives way to one that is just ending; a late OP2 or OP4 of an older
generation is handled (only OP9 asks whether its generation is current); a resume whose dial
was under way may be installed after a `Close`; `Disconnect` during the pause of a reconnect
is followed by a new join (voice.go:1780).

A message that cannot be decoded or whose sequence number is refused is dropped
(`MessageDropped`), and an OP4 may fail on its mode, its key or DAVE (`KeyFails`): the code logs
and returns, `Ready`, websocket and UDP socket stay as they are, and nobody asks for another. A
server move that ends so leaves the connection down, with nothing that works on it (`noKey`
in `faults`). If the websocket fails later, Discord may resume the session it has described,
and OP9 sets `Ready` without a cipher. In `reconnect` the flag is taken in one step
(`Reconnect`) and the transport closed in another (`ReconnectCloses`).

### BotLoops

A step is one critical section of `Loop.mu` or `Bot.mu`, one receive, or one call of a task or
hook. A run is a loop and a number.

| Variable | Code |
|---|---|
| `running`, `done`, `lastErr`, `prepared`, `prev` | the fields of each `Loop`; `prev` is what `abort` restores |
| `exec`, `stopped`, `cancelled`, `owned`, `result` | the goroutine `execute` of each run, its stop channel, its context and where that comes from |
| `watcher`, `watching` | the goroutine `watchLoop`, and the run it waits for |
| `managed`, `reserved`, `loaded`, `botMu`, `closed`, `lifecycleDone` | the fields of `Bot` |
| `at`, `onRun`, `todo`, `names`, `snapshot` | a caller of `Start`, `Stop`, `Wait`, `StartLoop`, `StopLoop`, `LoadExtension`, `UnloadExtension` or `CloseContext` |

## 3. Runs

| Run | Bounds | Shows |
|---|---|---|
| `gateway_reopen` | 2 lifecycles, 2 generations, 1 closer | `NoLeakedSocket`, `NoOrphanGeneration`, `EventsAlternate`, `NoEventStuck`, `OneConnector`, `StrandedOnlyByRace` |
| `gateway_winddown` | 1 lifecycle, 2 generations, 1 closer, `FairSpec` | `CancelledWindsDown` |
| `write_queue` | 1 generation, 2 callers, limit 2 in a window of 2 ticks, channel of 1, cooldown of 1 | `WindowHeld`, `WaitersServed`, `CooldownHeld` |
| `write_ends` | 1 generation, 1 caller, limit 1 in a window of 1, `FairSpec` | `CallersReleased`, `GenerationEnds` |
| `shard_manager` | 2 shards, gate of 2 ticks, 2 closers, `FairSpec` | `QuotaHeld`, `GateHeld`, `ClosedIsQuiet`, `ShutdownEnds` |
| `voice_queue` | 2 sources, 2 callers, 2 runs | `NoSourceLost`, `NoLostWakeup`, `KeepsTrackOrder` (refinement) |
| `voice_queue_ends` | 2 sources, 1 caller, 2 runs, `FairSpec` | `SourcesReleased`, `SkippedTrackEnds` |
| `gateway_session` | 3 generations, 2 with heartbeats of 2 beats; one thing of each part (two messages, of which one is kept, two threads, of which one only comes and goes in syncs), 2 changes (1 of roles, which alone meet a listener that is overtaken) | `NothingSkipped`, `InSync`, `JudgedByItsOwn` |
| `rate_limiter` | 2 requests, 2 routes that begin with one hash of 2, 1 move, 2 buckets, 1 request per window, breaker at 1, 1 retry | `BreakerOvershoot`, `LockCycleOnlyAfterMove`, `RejectedOnlyWhenSplit` |
| `rate_limiter_deadlock` | the same, and a retry may still be under way when a route moves | violated: `NoLockCycle` |
| `voice_connection` | 2 objects, 3 generations, 2 openers, two of the joins, moves and leaves | `ReadyIsUsable`, `DownOnlyByFault` |
| `bot_loops` | 2 loops with 2 runs and 1, 2 extensions that share a loop, 1 caller | `LoadIsAtomic`, `WaiterGetsItsResult`, `ForgottenOnlyByOlderRun` |

Why the bounds are enough to be interesting. Two generations are a connection and the one
that replaces it, or one of an old and one of a new lifecycle; the closer can close any
number of times; with two lifecycles `Close` or a failure ends the first and the second is
opened while goroutines of the first are still running. The theorems of section 5 show that
the safety part does not depend on these numbers: the runs are what found the counterexamples and what checks the mutants. For the queue, two
callers are needed for `Stop` against `Skip`, `Clear` or `Enqueue`, two runs for a caller
of the first run that wakes or cancels in the second, two sources for an order and for a
`Clear` that leaves nothing; a source is enqueued once, because `Enqueue` wraps it anew
each time. For the writes, two callers fill a channel of one, hold up each other and compete
for the reservation; a limit and a window of two let a packet be trimmed while another is
still counted; one generation is what the check can afford, and the theorems hold for any
number. Liveness needs one caller that waits while the heartbeat and the close frame compete
with `run` for the lock. For the shards, the two limits of `MCShardManager` put both in one bucket, where
one waits for the gate of the other, or each in its own with one Identify for both, where
the second is refused; a `Refresh` goes from one to the other at any time, so buckets change
while a shard sleeps; the quota is reset before a gate opens, so a sleeper wakes into another
quota; two closers are one that works and one that follows, and there is no bound on how
often the manager is opened, closed or fails. Three generations
of a voice connection are the fewest that show a session that was described, a second one that
was not, and a resume: with two, a resume always finds the last session described, and a
weaker rule passed (the proof found it). Two openers are a resume and a voice server
update at once. For the loops, a watcher of the first run is late for the second. In
`gateway_session` two changes are a removal and a return, or two that one resume brings; two
threads are one whose channel is synced and one whose channel is not. Deadlock is
not checked: a Session that was closed, or a queue, a manager or a loop that nobody starts
again, rightly stops.

The constraints of the MC modules keep a run short and leave out combinations, not cases:
`TwoCalls` (the application's calls and moves of a voice connection, two at a time),
`SharedOrRestarted` (the extension that shares a loop has gone before any loop runs again),
`NoRetryAfterMove` (a request that is retried is not under way when a route moves),
`SecondIsSynced` (the second thread meets syncs, the first all events). In
`rate_limiter` requests and routes are symmetric, and a state is seen by reference
(`ByReference`): which object a `Bucket` is does not matter, only who refers to it. Every
invariant and action property of these runs is a theorem for all values of the
constants, without the constraint.

What the violated run shows: `rate_limiter_deadlock`. `Bucket.Release` locks the bucket that
is canonical for the hash of the answer while it holds its own. `registerBucketHash` files the
hash under the route key of the bucket and not of the request, so after Discord has moved
a route to another hash two requests can each hold what the other wants, and both wait for ever,
although `LockBucketContext` "locks until a request can be made or context is cancelled"
(ratelimit.go:337). `LockCycleOnlyAfterMove` shows that it needs such a move.

Deviations that the passing properties name as their exceptions, because the code has them:

* `StrandedOnlyByRace`, first race. `openGatewayGeneration` waits for `conn.ready` or
  `conn.ctx.Done()`. When it takes the second and then finds READY's result in the
  channel, it returns that result; its `err` is nil, so `OpenWithContext` or the reconnect
  routine reports success. The generation was not connected when it ended, so its `finish.Do`
  does not reconnect: the Session is open, has no connection, and nobody makes one.
* `StrandedOnlyByRace`, second race. The reconnect routine activates a generation and returns;
  its deferred function clears `gatewayReconnectRunning` a moment later. A drop in between
  is refused by `startGatewayReconnect`, because the flag is set. The property shows that
  there is no third way.
* `SkippedTrackEnds` says no more than that a skipped track ends. `Player.WriteFrame` returns
  `ctx.Err()`, which is `context.Canceled`, and not `context.Cause(ctx)`, which is
  `ErrTrackSkipped`; a Skip that meets it is reported to the handler as an error, and ends the
  run of a queue with `WithQueueContinueOnError(false)`.
* `ForgottenOnlyByOlderRun`: a loop that is started again before the `watchLoop` of its
  earlier run has forgotten it is managed no more, and `CloseContext` does not stop it.
* `DownOnlyByFault` and `ReadyIsUsable`: the faults of section 2, a failed OP4 and the two
  races (a late message, a late resume) among them.
* `ReadyIsUsable`, at its simplest: a listener reads OP4; `ChannelVoiceJoin` times out and closes
  the connection; OP4 is handled and sets `Ready` (voice.go:1014) of a connection without
  websocket and UDP socket, which the next join finds in the map and takes for connected,
  although `Ready` means "voice is ready to send/receive audio" (voice.go:45).
* `WaiterGetsItsResult`: a `Wait` that reads `lastErr` after the loop has been started again may
  get the result of the later run (bot/loop.go:320). `InSync`: what section 2 names.
  `JudgedByItsOwn`: a heartbeat of an older generation. For these cases the properties
  say that nothing else leads to the deviation; they do not rule out the case itself.

## 4. Fairness

`Gateway!FairSpec`: goroutines that can run do (weak fairness of every local step, of
`finish.Do`, of the context watcher, of `Close`); a handler returns. Network calls are only
assumed to return once their context is done or their websocket was closed, as
`DialContext`, the coordinator's wait and a read of a closed websocket do: a silent peer
may stay silent for ever. `Close`, `CancelParent`, READY and every failure need not happen.

`ShardManager!FairSpec` assumes one thing: while a step of `Runnable` is possible, one is
taken in the end. These are what goroutines do that can run: `Open` and `Close` go on, a
Session in `closeSessions` closes, a shard whose lifetime is done stops opening, an `Acquire`
whose context is done returns. (One condition for all of them is weaker than one for each,
and enough.) That a Session closes, and stops opening when its context is done, is what
`CancelledWindsDown` shows of `Gateway`. Time need not pass, Discord need not answer, an
`Acquire` need not be granted, and nobody has to call `Open` or `Close`.

`GatewayWriteQueue!FairSpec`: callers and `run` go on when they can. Who waits for `wsMutex` gets
it in the end (strong fairness: a `sync.Mutex` is handed to one that has waited for long). A
write returns once its websocket is closed or has failed. It need not return before, as the
code sets no write deadline: a peer that stops reading keeps `wsMutex`, and the close frame,
which would end it, waits for that lock. `GenerationEnds` therefore has the premise
`PeersRead`; `CallersReleased` needs none, because callers look at their context.
(`Gateway!FairSpec` makes the same assumption as `PeersRead` of the close frame.)

`VoiceQueue!FairSpec`: the worker and the callers run. A blocking call whose context is done
returns, if it is asked often enough (strong fairness of `CutStep`: `PCMSource` must honour
its context, and a select between a done context and a ready channel does not choose the
channel for ever). Playing itself is not assumed to progress: a source may block and the
transport may reconnect for ever while nobody cancels.

## 5. Proofs

`GatewayProofs` proves, for all values of `MaxLife`, `MaxGens` and `NClosers`:

| Theorem | Statement |
|---|---|
| `TypeCorrect` | `Spec => []TypeOK` |
| `SocketsNotLeaked` | `Spec => []NoLeakedSocket` |
| `GenerationsNotOrphaned` | `Spec => []NoOrphanGeneration` |
| `EventsAlternating` | `Spec => []EventsAlternate` |
| `ConnectorsAlone` | `Spec => []OneConnector` |
| `EventsNotStuck` | `Spec => []NoEventStuck` |
| `StrandedOnlyAfterRace` | `Spec => []StrandedOnlyByRace` |

The only assumption is `BoundsAssumption` (the bounds are positive integers). None of the
safety properties is inductive. The strengthening, `GatewayInv`, rests on one fact,
`CurrentIffUnfinished`: a generation is the Session's connection exactly from
`beginGatewayGeneration` to the critical section of its `finish.Do`. It makes "the
websocket is attached only if the generation is current" mean "only if finish has not
closed it yet", which is `NoLeakedSocket`. `OpenersApart` is needed because two openers (an
`OpenWithContext` and a reconnect routine, of the same or of two lifecycles) may be in
flight: they never work on the same generation, so none of them attaches to or aborts a
generation that another one connected. `GatewayStep` shows
`GatewayInv /\ [Next]_vars => GatewayInv'`, one step per action. `EventsAlternating` uses
the invariant for one fact, `NobodyUp`: a generation that is activated is the only one that
can be connected.

The last three rest on a second invariant, `RoutineInv`, about who works for a lifecycle.
`LivesBegun`: lifecycles come one after the other, an earlier one is cancelled. `OpenersOwn`: an
opener works on a generation of its own lifecycle. `FinishOrder`: what `finish.Do` does comes
in its order. `Connectors`: while `OpenWithContext` connects there is no reconnect routine and
nothing that could start one; `gatewayReconnectRunning` is set while the current lifecycle has
one. `MakerThere`: until a generation is connected the opener that began it is there. A step
that leaves an open Session without a connection and without anybody who makes one
is then one of the two that record a race.

`ShardManagerProofs` proves, of the coordinator and of the manager, for any number of shards, any gate,
any set of valid limits and any set of closers:

| Theorem | Statement |
|---|---|
| `CoordSafe` | `CoordSpec => [](CoordType /\ QuotaHeld)` |
| `CoordGates` | `CoordSpec => GateHeld` |
| `ImplementsCoordinator` | `Spec => CoordSpec` |
| `TypeCorrect` | `Spec => []TypeOK` |
| `ShardsWithinQuota` | `Spec => []QuotaHeld` |
| `ShardsRespectGates` | `Spec => GateHeld` |
| `ManagerSafe` | `Spec => [](ClosedIsQuiet /\ OneCloser /\ OpenIsWhole)` |

`CoordinatorAssumption` says what `validateSessionStartLimit` checks, and that there is a shard
and a gate. `CoordInv` strengthens `QuotaHeld` by `GatesApart`: what is left of a gate and the
time since the last grant of its bucket add up to the gate at least, over ticks, waits,
resets and refreshes; when the gate is open, the whole of it has passed. `UsesCoordinator` shows
that every step of the manager is a step of the coordinator or leaves it alone, so that
what is proved of the coordinator holds of the shards too. `ManagerInv` strengthens the
manager's properties by `OpenAgrees` (`Open` runs exactly while the manager is opening, or
closing before the closer has joined it) and `CloseAgrees` (what a `Close` may rely on at
each of its steps: after `<-openDone` no `Open` runs, after the cleanup, whoever made it, all
Sessions are closed, and the flag it read tells which).

`GatewayWriteProofs` proves, for any limit, window, channel, cooldown, any callers and any number
of generations:

| Theorem | Statement |
|---|---|
| `TypeCorrect` | `Spec => []TypeOK` |
| `WindowKept` | `Spec => WindowHeld` |
| `CooldownKept` | `Spec => []CooldownHeld` |
| `WaitersKept` | `Spec => []WaitersServed` |

`WriteAssumption` says that the numbers are positive and that nobody is not a caller.
`WindowKept` rests on two facts. `Room`: from the slot it was given until it has counted,
`run` has fewer than `Limit` packets in `sentAt`. `Accounted`: the packets that left (`wire`)
are covered by `sentAt`, in order: the last `Len(sentAt)` of them, except one that has left and
is not counted yet, stay in the window no longer than their entries in `sentAt`, and all
before them (`Base`) have left it. With `Room`, the oldest of `Limit` packets is always one
of these, and so is out of the window when the next leaves. A failed write may leave an
uncounted packet, after which nothing leaves any more: `Accounted` ends when the websocket
is broken. `CooldownKept` rests on `EntryAgrees`: a reservation that counts is the entry, so
a late release of another's finds that the entry is not its own. `WaitersKept` needs that
`run` holds no request when it takes one, and is gone only from a generation that is done
(`Served`).

`VoiceQueueProofs` proves, for any sources, callers and number of runs:

| Theorem | Statement |
|---|---|
| `TypeCorrect` | `Spec => []TypeOK` |
| `SourcesNotLost` | `Spec => []NoSourceLost` |
| `WakeupsNotLost` | `Spec => []NoLostWakeup` |
| `ImplementsTrackOrder` | `Spec => KeepsTrackOrder` |

`QueueInv` strengthens the two invariants by three parts. `Queued`: what is in the queue was
accepted, is there once, and is nowhere else. `InHand`: whoever has a source has an accepted one.
`Handover`: nobody drops a source he holds; a caller that wakes the worker holds none, only a
worker that sweeps has some of what it dropped, and a track is closed before it stops to be
the current one. The refinement goes step by step: a step of the queue is the one step of
`TrackOrder` that moves the source it moves, and a stutter otherwise; `QueueInv` shows that
the source `TrackOrder` begins is not closed, and that the one before it is.

`BotLoopsProofs` proves, for any loops, extensions, callers and runs:

| Theorem | Statement |
|---|---|
| `TypeCorrect` | `Spec => []TypeOK` |
| `LoadingIsAtomic` | `Spec => []LoadIsAtomic` |
| `WaitersGetResults` | `Spec => WaiterGetsItsResult` |
| `ForgottenOnlyAsPromised` | `Spec => ForgottenOnlyByOlderRun` |

`BotInv` has a part for each kind of actor: runs (`RunInv`: which of them is the Loop's, what
an aborted one leaves), watchers (`WatchInv`: a watcher waits for a run that began), callers
(`CallInv`: what a caller may rely on at each of its steps while it holds `Bot.mu`), and the
extensions: `Reservations` (reserved loops are those of the loaded extensions and of the one
being loaded, and of one extension each) and `CommitInv` (a load that holds `Bot.mu` has
prepared exactly the loops it has gone through, and is ready to abort each of them), which
makes `LoadIsAtomic` inductive.

`RateLimiterProofs` proves, for any routes, hashes, requests, buckets, limits and retries:

| Theorem | Statement |
|---|---|
| `TypeCorrect` | `Spec => []TypeOK` |
| `BreakerBounded` | `Spec => []BreakerOvershoot` |
| `LockedOutOnlyAfterMove` | `Spec => []LockCycleOnlyAfterMove` |
| `RejectedOnlyIfSplit` | `Spec => RejectedOnlyWhenSplit` |

`BreakerBounded` counts: `BreakerInv` bounds the invalid responses by the limit and the requests
that have passed the breaker and are not counted yet, by the cardinality of a set that
every step changes by one request at most. `LockedOutOnlyAfterMove` is `MoveInv`: until a
route moves, every mapping, bucket and answer agrees with the hash the route began with, so a
request that wants a second bucket finds itself at the one canonical for its hash or is
the copier of another, whose own bucket nobody else wants. `RejectedOnlyIfSplit` is `ExhaustedInv`: when a
hash is used up and went through one bucket only, that bucket knows, or the request that is going to tell
it holds its lock.

`VoiceConnectionProofs` proves, for any number of objects, generations, openers and calls:

| Theorem | Statement |
|---|---|
| `TypeCorrect` | `Spec => []TypeOK` |
| `ReadyOnlyIfUsable` | `Spec => []ReadyIsUsable` |
| `DownOnlyAfterFault` | `Spec => []DownOnlyByFault` |

`CoreInv` says what belongs together: `Links` (a websocket is its object's, a generation has
one opener or one listener), `Stage` (how far the handshake of a generation is), and
`TransportInv`, for each object what its websocket (`WsInv`), UDP socket (`UdpInv`),
Discord's session (`SessionInv`) and `Ready` (`ReadyInv`) may be together. Most actions are
`Calm`: they keep an object's transport or shut it, and one lemma serves them all.
`ReadyIsUsable` is a part of it: a session that Discord has described comes with a cipher, or
with an OP4 that failed (`SessionInv`), and a resume finds such a session. `DownOnlyByFault` needs `WorkInv` besides: an object that
is wanted and has no websocket is in the hands of an opener, a reconnect loop, an update or a call of
the application, or its last attempt has failed, which is a fault. The proof changed the model:
with two generations a resume always finds the session that Discord described last, and both
properties passed without saying so; with three they did not, and the module now states which
session a resume finds (`Session`, `Described`).

`GatewaySessionProofs` proves, for any ids and versions, any parts that are exercised or
overtaken, and any number of generations, changes and heartbeats:

| Theorem | Statement |
|---|---|
| `TypeCorrect` | `Spec => []TypeOK` |
| `NothingIsSkipped` | `Spec => []NothingSkipped` |
| `JudgesItsOwn` | `Spec => JudgedByItsOwn` |
| `CacheInSync` | `Spec => []InSync` |

from `StateCacheAssumption` (ids are a finite set of positive integers, which stand for
snowflakes; the bounds are positive) and `GatewaySessionAssumption` (the parts and their ids
exist). `TypeCorrect` rests on one lemma per operator of the cache, up to `OnInterfaceType`:
whatever event of its part is applied to a well-typed cache leaves one. `PathInv` is inductive. `LinkInv`
says whose connection lives: only the newest generation's, it is the newest session's once
it is up, a listener has in hand an event of the log of its connection's session, and a live
session is the one whose id the Session has or will have. `ReadInv` carries `NothingSkipped` along the
five places where a sequence number is kept: the connection's position, the event in hand, `Session.sequence`,
what `authenticateGatewayGeneration` loaded, and the READY that is stored and not
applied, when `sequence` is already of the new session while `sessionID` is of none. A
listener that is behind stores a smaller number of the same session, or what it stores is
of another one, which `crossed` records. `JudgedByItsOwn` is `BeatInv`: while no older
generation writes, the acknowledgement is pending exactly while the server owes it, the listener
holds it, or the heartbeat is stamped and not written.

`CacheInSync` is `SyncInv`. `InSync` speaks only of moments when nothing is under way; the
invariant says what holds in between, with a history of the guild. `History`: what the guild
was after each event of the live session, the last of which it still is. `Stands`: the cache
agrees (`At`) with a known point of that history, the one before the event in the newest
listener's hand, before the one it will read, or at the sequence a resumption will name. So
a resume goes on where the cache is, although the sequence is stored before the event
is applied. One lemma per event, put together in `ChangeAgrees` and `ApplyAgrees`, takes the
cache from agreement with what the guild was to agreement with what it has become. `Old`
goes along with it: every channel in `channelMap` is or was the guild's,
which holds even for what a gap leaves there. While a session is not live, only `Old` holds,
and the READY of the next one starts from it; `SilentInv` covers the behaviours that
exercise no events.

Only model-checked: the liveness properties `CancelledWindsDown`, `ShutdownEnds`,
`CallersReleased`, `GenerationEnds`, `SourcesReleased` and `SkippedTrackEnds`, since TLAPS
does not prove liveness. Every invariant and every action property of the passing runs is a theorem.

## 6. Not modelled, and why

Data: packets, URLs, PCM, cryptography (`mls/`, the ciphers of `dave_crypto.go`), JSON. The
REST wrappers, API types and builders keep no state. Whole components that are not modelled:
DAVE and its MLS group (transitions are planned; the cryptography is data), the dispatch of events
to handlers (`event.go`), commands and interactions of the bot and their synchronisation with
Discord (sequential), and the sequence arithmetic of the voice receiver.

What the modules leave out of the code they model:

* `Gateway` assumes that the Session is not opened again while a `Close` is still returning:
  `closeGateway`'s cleanup of a Session assembled by hand could then close the new websocket
  (listed as a hazard).
* `GatewayWriteQueue`: the direct write of a Session whose websocket was put in by hand (no
  connection, `s.wsConn` set), two listeners that answer a heartbeat request at once, what a
  packet contains, and the reservations of other guilds, which are entries of their own.
* `GatewaySession` and `StateCache`: lookups of `State` that read twice (`RLock`, then `Lock`), which
  only handlers of another goroutine can come between; presences, stickers, private channels,
  `GuildMembersChunk` and `ThreadMembersUpdate` (state.go:807); archived threads, which
  `ThreadListSync` drops also when their channel is not synced (state.go:771), and the
  members it sets; a Session with
  `StateEnabled` false or one of the `Track` flags off; colours of members; compression.
* `ShardManager`: the discovery and creation of the Sessions (`NewShardManagerWithConfig`,
  sequential, before any of them runs), a Session its user opens or closes behind the manager's
  back, Resumes (they pass the coordinator by), and a second `Acquire` of a Session whose
  lifecycle was replaced during the first one.
* `RateLimiter`: limits of the whole bot (`X-RateLimit-Global`), the warning before the breaker opens,
  malformed headers, buckets dropped for their age, and in which order buckets are evicted.
* `VoiceConnection`: heartbeats of the websocket, which numbers its messages have (a refused
  one is dropped), `ChangeChannel`, `Speaking`, a Gateway OP4 (the request to join) whose write
  fails, the Session's own `Close`, audio.
* `VoiceQueue`: the waits of `Drain`, `Stop` and `Wait`, so the deadlock of a handler that
  waits for its own worker is listed, not checked.
* `BotLoops`: `Setup` and `Teardown` of extensions beyond their outcome, their commands, routes and
  hooks, `ChangeInterval`, and the Session that `CloseContext` closes.

## 7. Plan

What is left, in this order.

1. DAVE transitions beside `VoiceConnection`: the pending transition, the reset for a new
   Welcome, and the transition number that outlives it (dave.go:205).
2. The receiver's sequence arithmetic mod 2^16, against a reference definition.
3. Event dispatch: removal of a handler during a dispatch, handlers that wait for their
   own worker (voice/queue.go:479, wsapi.go:1874).
