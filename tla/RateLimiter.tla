---------------------------- MODULE RateLimiter ----------------------------
(***************************************************************************)
(* RateLimiter and Bucket (ratelimit.go), the request loop of the REST client *)
(* (requestWithLockedBucket in restapi.go), and a server that counts requests *)
(* per hash.  A step is one critical section of RateLimiter.Mutex or of a     *)
(* Bucket, or one move of the server.                                       *)
(*                                                                         *)
(* There is no clock.  A bucket's reset is the hash whose window it is the end *)
(* of, or "past" once the server has ended that window; the client, whose clock *)
(* starts when the response arrives, may notice later.  Not represented: the    *)
(* bot-wide limits, which only delay a request further, the warning threshold    *)
(* of the breaker, malformed headers, major parameters (a route stands for a    *)
(* route with its parameter), buckets dropped for their age, and which bucket     *)
(* was used least recently: any may be.                                       *)
(***************************************************************************)
EXTENDS Naturals, Integers, FiniteSets, Functions

CONSTANTS
    Requests,         \* goroutines that call RequestWithBucketID
    Routes,           \* normalized routes, keys of the buckets not discovered yet
    Hashes,           \* values of X-RateLimit-Bucket, keys of the discovered ones
    FirstHash,        \* the hash the server gives a route at first
    ServerLimit,      \* requests the server accepts for a hash in a window
    MaxBuckets,       \* fields of RateLimiter
    InvalidRequestLimit,
    MaxRestRetries,   \* field of RequestConfig
    MaxMoves          \* bound: times the server gives a route another hash

ASSUME RateLimiterAssumption ==
    /\ Routes \cap Hashes = {}
    /\ {ServerLimit, MaxBuckets, InvalidRequestLimit} \subseteq Nat \ {0}
    /\ {MaxRestRetries, MaxMoves} \subseteq Nat
    /\ FirstHash \in [Routes -> Hashes]
    /\ IsFiniteSet(Requests) /\ "none" \notin Requests \cup Routes \cup Hashes
    /\ "past" \notin Hashes

\* Bucket objects.  One that nothing refers to any more is used again.
Objects == 1..(MaxBuckets + 2 * Cardinality(Requests))

VARIABLES
    buckets,         \* RateLimiter.buckets: key -> object
    bucketHashes,    \* RateLimiter.bucketHashes: route -> hash
    invalid,         \* number of invalidRequests in the rolling window
    bucket,          \* object -> Bucket
    holder,          \* object -> the request that has its mutex, or None
    pc, obj, route,  \* a request's place, its bucket, its route
    retries, resp,   \* retries it made; what the server answered it
    hashOf,          \* server: the hash of each route
    moves,           \* server: changes of hash it has made
    accepted,        \* server: requests of a hash accepted in its window
    by               \* for the property: the object through which the requests were accepted
                     \* in the window of a hash; Several if more than one was, an answer was
                     \* lost, or that to another bucket's request was copied into it

limiterVars == <<buckets, bucketHashes, invalid>>
bucketVars  == <<bucket, holder>>
requestVars == <<pc, obj, route, retries, resp>>
serverVars  == <<hashOf, moves, accepted, by>>
vars == <<limiterVars, bucketVars, requestVars, serverVars>>

None == "none"
Several == -1
NewBucket(r) == [route |-> r, remaining |-> 1, reset |-> "past"]
NoResponse ==
    [status |-> None, remaining |-> 0, reset |-> "past", hash |-> None, canonical |-> 0]

Init ==
    /\ buckets = <<>> /\ bucketHashes = <<>>
    /\ invalid = 0
    /\ bucket = [o \in Objects |-> NewBucket(None)]
    /\ holder = [o \in Objects |-> None]
    /\ pc = [p \in Requests |-> "idle"] /\ obj = [p \in Requests |-> 0]
    /\ route = [p \in Requests |-> None] /\ retries = [p \in Requests |-> 0]
    /\ resp = [p \in Requests |-> NoResponse]
    /\ hashOf = FirstHash /\ moves = 0
    /\ accepted = [h \in Hashes |-> 0]
    /\ by = [h \in Hashes |-> 0]

\* Mutant: off by one.
BlockedLate == invalid > InvalidRequestLimit
Blocked == invalid >= InvalidRequestLimit

-----------------------------------------------------------------------------
(* The maps.                                                                *)

\* Mutant: the mappings of a deleted bucket stay.
DanglingKept(map, hashes) == hashes

\* removeDanglingBucketHashesLocked
Dangling(map, hashes) == RestrictDomain(hashes, LAMBDA r : hashes[r] \in DOMAIN map)

Without(map, keys) == RestrictDomain(map, LAMBDA k : k \notin keys)

With(map, k, x) == [j \in DOMAIN map \cup {k} |-> IF j = k THEN x ELSE map[j]]

\* makeBucketRoomLocked(1): the keys it may delete.
Evictable(map) ==
    {keys \in SUBSET DOMAIN map :
        Cardinality(keys) = IF Cardinality(DOMAIN map) >= MaxBuckets
                            THEN Cardinality(DOMAIN map) + 1 - MaxBuckets ELSE 0}

Free(o) ==
    /\ \A k \in DOMAIN buckets : buckets[k] # o
    /\ \A p \in Requests : o \notin {obj[p], resp[p].canonical}

Fresh == CHOOSE o \in Objects : Free(o)

\* getBucket: the maps and the bucket it leaves for a route.
Lookup(p, r) ==
    LET hit == r \in DOMAIN bucketHashes /\ bucketHashes[r] \in DOMAIN buckets
        own == ~hit /\ r \in DOMAIN buckets
    IN  \/ /\ hit
           /\ obj' = [obj EXCEPT ![p] = buckets[bucketHashes[r]]]
           /\ UNCHANGED <<buckets, bucketHashes, bucket, by>>
        \/ /\ own
           /\ obj' = [obj EXCEPT ![p] = buckets[r]]
           /\ bucketHashes' = Without(bucketHashes, {r})
           /\ UNCHANGED <<buckets, bucket, by>>
        \/ /\ ~hit /\ ~own
           /\ \E keys \in Evictable(buckets) :
                LET kept == Without(buckets, keys)
                IN  /\ buckets' = With(kept, r, Fresh)
                    /\ bucketHashes' = Dangling(kept, Without(bucketHashes, {r}))
           /\ bucket' = [bucket EXCEPT ![Fresh] = NewBucket(r)]
           /\ by' = [h \in Hashes |-> IF by[h] = Fresh THEN Several ELSE by[h]]
           /\ obj' = [obj EXCEPT ![p] = Fresh]

-----------------------------------------------------------------------------
(* A request up to its departure.                                           *)

\* LockBucketRouteContext: the breaker, then the bucket of the route.
Begin(p, r) ==
    /\ pc[p] = "idle" /\ ~Blocked
    /\ Lookup(p, r)
    /\ pc' = [pc EXCEPT ![p] = "lock"]
    /\ route' = [route EXCEPT ![p] = r]
    /\ UNCHANGED <<invalid, holder, retries, resp, hashOf, moves, accepted>>

Lock(p) ==
    /\ pc[p] = "lock" /\ holder[obj[p]] = None
    /\ holder' = [holder EXCEPT ![obj[p]] = p]
    /\ pc' = [pc EXCEPT ![p] = "wait"]
    /\ UNCHANGED <<limiterVars, bucket, obj, route, retries, resp, serverVars>>

\* GetWaitTime finds nothing to wait for.
MayGo(b) == b.remaining >= 1 \/ b.reset = "past"

\* The end of LockBucketObjectContext; requestWithLockedBucket looks at the breaker before its
\* first attempt, not before a retry.  What would be less than zero is zero: both are less than
\* one.
Send(p) ==
    /\ pc[p] = "wait" /\ MayGo(bucket[obj[p]])
    /\ retries[p] = 0 => ~Blocked
    /\ bucket' = [bucket EXCEPT ![obj[p]].remaining = IF @ > 0 THEN @ - 1 ELSE 0]
    /\ pc' = [pc EXCEPT ![p] = "sent"]
    /\ UNCHANGED <<limiterVars, holder, obj, route, retries, resp, serverVars>>

Ends(p) ==
    /\ pc' = [pc EXCEPT ![p] = "idle"] /\ obj' = [obj EXCEPT ![p] = 0]
    /\ route' = [route EXCEPT ![p] = None] /\ retries' = [retries EXCEPT ![p] = 0]
    /\ resp' = [resp EXCEPT ![p] = NoResponse]

Unlock(o) == holder' = [holder EXCEPT ![o] = None]

\* The context ends the wait, which holds the bucket.
CancelWait(p) ==
    /\ pc[p] = "wait"
    /\ Unlock(obj[p]) /\ Ends(p)
    /\ UNCHANGED <<limiterVars, bucket, serverVars>>

Refuse(p) ==
    /\ pc[p] = "wait" /\ MayGo(bucket[obj[p]]) /\ retries[p] = 0 /\ Blocked
    /\ bucket' = [bucket EXCEPT ![obj[p]].remaining = IF @ > 0 THEN @ - 1 ELSE 0]
    /\ Unlock(obj[p]) /\ Ends(p)
    /\ UNCHANGED <<limiterVars, serverVars>>

-----------------------------------------------------------------------------
(* The server.                                                              *)

Answers(p, s, left, until, h) ==
    /\ pc' = [pc EXCEPT ![p] = "answered"]
    /\ resp' = [resp EXCEPT ![p] = [status |-> s, remaining |-> left, reset |-> until,
                                    hash |-> h, canonical |-> 0]]
    /\ UNCHANGED <<limiterVars, bucketVars, obj, route, retries, hashOf, moves>>

\* A request counts for its hash.
Counted(p, h, lost) ==
    /\ accepted[h] < ServerLimit
    /\ accepted' = [accepted EXCEPT ![h] = @ + 1]
    /\ by' = [by EXCEPT ![h] = IF lost \/ @ \notin {0, obj[p]} THEN Several ELSE obj[p]]

\* 2xx, and 401 or 403.
Accepts(p) ==
    LET h == hashOf[route[p]]
    IN  /\ pc[p] = "sent"
        /\ Counted(p, h, FALSE)
        /\ \E s \in {"ok", "invalid"} : Answers(p, s, ServerLimit - accepted[h] - 1, h, h)

\* 429 of the bucket.
Rejects(p) ==
    LET h == hashOf[route[p]]
    IN  /\ pc[p] = "sent" /\ accepted[h] = ServerLimit
        /\ Answers(p, "limited", 0, h, h)
        /\ UNCHANGED <<accepted, by>>

\* An answer of a proxy, without headers; a failure of the network before the server has
\* seen the request is like it.  Or the request is counted and its answer lost.
Fails(p) ==
    /\ pc[p] = "sent"
    /\ \/ /\ Answers(p, "transient", 0, "past", None)
          /\ UNCHANGED <<accepted, by>>
       \/ /\ Counted(p, hashOf[route[p]], TRUE)
          /\ Answers(p, "network", 0, "past", None)

\* The window of a hash ends, and with it the deadlines that are its end.
WindowEnds(h) ==
    /\ accepted[h] > 0
    /\ accepted' = [accepted EXCEPT ![h] = 0]
    /\ by' = [by EXCEPT ![h] = 0]
    /\ bucket' = [o \in Objects |-> IF bucket[o].reset = h
                                    THEN [bucket[o] EXCEPT !.reset = "past"] ELSE bucket[o]]
    /\ resp' = [p \in Requests |-> IF resp[p].reset = h
                                   THEN [resp[p] EXCEPT !.reset = "past"] ELSE resp[p]]
    /\ UNCHANGED <<limiterVars, holder, pc, obj, route, retries, hashOf, moves>>

\* Discord may put a route into another bucket.
Move(r, h) ==
    /\ moves < MaxMoves /\ hashOf[r] # h
    /\ hashOf' = [hashOf EXCEPT ![r] = h]
    /\ moves' = moves + 1
    /\ UNCHANGED <<limiterVars, bucketVars, requestVars, accepted, by>>

\* The oldest invalid request leaves its window.
InvalidLeaves ==
    /\ invalid > 0 /\ invalid' = invalid - 1
    /\ UNCHANGED <<buckets, bucketHashes, bucketVars, requestVars,
                   serverVars>>

-----------------------------------------------------------------------------
(* A request from its answer on.                                            *)

\* registerBucketHash: a bucket takes the key of its hash, unless another has it.
Register(o, h) ==
    LET r == bucket[o].route
        left == IF r \in DOMAIN buckets /\ buckets[r] = o THEN Without(buckets, {r}) ELSE buckets
    IN  IF h \in DOMAIN buckets
        THEN /\ bucketHashes' = With(bucketHashes, r, h)
             /\ buckets' = IF buckets[h] = o THEN buckets ELSE left
        ELSE \E keys \in Evictable(left) :
               LET kept == Without(left, keys)
               IN  /\ buckets' = With(kept, h, o)
                   /\ bucketHashes' = With(Dangling(kept, bucketHashes), r, h)

Canonical(o, h) == IF h \in DOMAIN buckets THEN buckets[h] ELSE o

\* Mutant: a bucket that is the canonical one is locked a second time.
NeverCanonical(o, h) == FALSE
IsCanonical(o, h) == Canonical(o, h) = o

\* Mutant: the time of the reset is not taken over.
FromHeadersNoReset(b, a) == [b EXCEPT !.remaining = a.remaining]

\* What Release takes from the headers of a bucket's own limit.
FromHeaders(b, a) == [b EXCEPT !.remaining = a.remaining, !.reset = a.reset]

\* Release.  Headers of another bucket's hash are copied into it in a further section.
Release(p) ==
    LET o == obj[p]
        a == resp[p]
    IN  /\ pc[p] = "answered"
        /\ IF a.hash # None
           THEN /\ bucket' = [bucket EXCEPT ![o] = FromHeaders(@, a)]
                /\ Register(o, a.hash)
                /\ \/ /\ IsCanonical(o, a.hash)
                      /\ Unlock(o)
                      /\ pc' = [pc EXCEPT ![p] = "decide"]
                      /\ resp' = [resp EXCEPT ![p] = [NoResponse EXCEPT !.status = a.status]]
                   \/ /\ ~IsCanonical(o, a.hash)
                      /\ UNCHANGED holder
                      /\ pc' = [pc EXCEPT ![p] = "copy"]
                      /\ resp' = [resp EXCEPT ![p] =
                                    [NoResponse EXCEPT !.status = a.status,
                                                       !.canonical = Canonical(o, a.hash)]]
           ELSE /\ Unlock(o) /\ pc' = [pc EXCEPT ![p] = "decide"]
                /\ UNCHANGED <<buckets, bucketHashes, bucket, resp>>
        /\ UNCHANGED <<invalid, obj, route, retries, serverVars>>

\* canonical.Lock() with the request's own bucket still locked.
Copy(p) ==
    LET o == obj[p]
        c == resp[p].canonical
    IN  /\ pc[p] = "copy" /\ holder[c] = None
        /\ bucket' = [bucket EXCEPT ![c].remaining = bucket[o].remaining,
                                    ![c].reset = bucket[o].reset]
        /\ Unlock(o)
        /\ pc' = [pc EXCEPT ![p] = "decide"]
        /\ resp' = [resp EXCEPT ![p].canonical = 0]
        /\ by' = [h \in Hashes |-> IF by[h] = c THEN Several ELSE by[h]]
        /\ UNCHANGED <<limiterVars, obj, route, retries, hashOf, moves, accepted>>

\* RecordResponse and the decision to retry.
Decide(p) ==
    LET s == resp[p].status
        count == IF s \in {"invalid", "limited"} THEN invalid + 1 ELSE invalid
    IN  /\ pc[p] = "decide"
        /\ invalid' = count
        /\ \/ /\ s \in {"limited", "network", "transient"}
              /\ count >= InvalidRequestLimit => s = "network"
              /\ retries[p] < MaxRestRetries
              /\ pc' = [pc EXCEPT ![p] = "backoff"]
              /\ resp' = [resp EXCEPT ![p] = NoResponse]
              /\ UNCHANGED <<obj, route, retries>>
           \/ Ends(p)
        /\ UNCHANGED <<buckets, bucketHashes, bucketVars, serverVars>>

\* relockRESTBucket, after waitForRESTRetry: by the route of the bucket, not of the request.
Relock(p) ==
    /\ pc[p] = "backoff"
    /\ \/ /\ ~Blocked
          /\ Lookup(p, bucket[obj[p]].route)
          /\ pc' = [pc EXCEPT ![p] = "lock"]
          /\ retries' = [retries EXCEPT ![p] = @ + 1]
          /\ UNCHANGED <<route, resp>>
       \/ Ends(p) /\ UNCHANGED <<buckets, bucketHashes, bucket, by>>
    /\ UNCHANGED <<invalid, holder, hashOf, moves, accepted>>

-----------------------------------------------------------------------------
ClientNext ==
    \E p \in Requests :
        \/ \E r \in Routes : Begin(p, r)
        \/ Lock(p) \/ CancelWait(p) \/ Send(p) \/ Refuse(p)
        \/ Release(p) \/ Copy(p) \/ Decide(p) \/ Relock(p)

ServerNext ==
    \/ \E p \in Requests : Accepts(p) \/ Rejects(p) \/ Fails(p)
    \/ \E h \in Hashes : WindowEnds(h) \/ \E r \in Routes : Move(r, h)

Next == ClientNext \/ ServerNext \/ InvalidLeaves

Spec == Init /\ [][Next]_vars

-----------------------------------------------------------------------------
\* Types; every mapping leads to a bucket, and a request holds the mutex of its bucket from the
\* end of LockBucketObjectContext to the end of Release.
TypeOK ==
    /\ DOMAIN buckets \subseteq Routes \cup Hashes /\ Cardinality(DOMAIN buckets) <= MaxBuckets
    /\ \A k \in DOMAIN buckets : buckets[k] \in Objects
    /\ DOMAIN bucketHashes \subseteq Routes
    /\ \A r \in DOMAIN bucketHashes : bucketHashes[r] \in DOMAIN buckets \cap Hashes
    /\ holder \in [Objects -> Requests \cup {None}]
    /\ \A p \in Requests :
          \A o \in Objects : (holder[o] = p) <=>
             (obj[p] = o /\ pc[p] \in {"wait", "sent", "answered", "copy"})

\* The server turns a request away for its bucket's limit only if, in that window, the requests
\* of the hash went through several Bucket objects (it was not discovered yet, or evicted in
\* use), an answer was lost, or an answer to another bucket's request was copied into it.
RejectedOnlyWhenSplit ==
    [][\A p \in Requests : Rejects(p) => by[hashOf[route[p]]] # obj[p]]_vars

\* "Requests are blocked until the rolling invalid-request window has room again"
\* (ratelimit.go:35): whatever requests wait, are under way or are retried when the limit is
\* reached, each goroutine adds at most one invalid response to it.
BreakerOvershoot == invalid <= InvalidRequestLimit + Cardinality(Requests) - 1

\* The object whose mutex a request waits for.
Awaits(p) ==
    CASE pc[p] = "lock" -> obj[p] [] pc[p] = "copy" -> resp[p].canonical [] OTHER -> 0

LockedOut ==
    \E S \in (SUBSET Requests) \ {{}} :
        \A p \in S : Awaits(p) # 0 /\ holder[Awaits(p)] \in S

\* Requests lock each other out, each in Release with its own bucket locked (ratelimit.go:494),
\* only after the server has given a route another hash.
LockCycleOnlyAfterMove == LockedOut => moves > 0

\* A request can always be made or its context cancelled ("locks until a request can be made or
\* context is cancelled", ratelimit.go:337): no requests lock each other's buckets.
NoLockCycle == ~LockedOut

=============================================================================
