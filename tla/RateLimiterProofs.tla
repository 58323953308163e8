------------------------- MODULE RateLimiterProofs -------------------------
(***************************************************************************)
(* Theorems about the rate limiter, for any number of requests, routes and   *)
(* hashes, any limits, and any number of retries and moves of a route.        *)
(***************************************************************************)
EXTENDS RateLimiter, FiniteSetTheorems, TLAPS

Holding  == {"wait", "sent", "answered", "copy"}
Places   == Holding \cup {"idle", "lock", "decide", "backoff"}
Statuses == {None, "ok", "invalid", "limited", "transient", "network"}
Resets   == Hashes \cup {"past"}
Buckets  == [route : Routes \cup {None}, remaining : Nat, reset : Resets]
Answered == [status : Statuses, remaining : Nat, reset : Resets, hash : Hashes \cup {None},
             canonical : Objects \cup {0}]

MapTypes ==
    /\ DOMAIN buckets \subseteq Routes \cup Hashes /\ IsFiniteSet(DOMAIN buckets)
    /\ Cardinality(DOMAIN buckets) <= MaxBuckets
    /\ \A k \in DOMAIN buckets : buckets[k] \in Objects
    /\ DOMAIN bucketHashes \subseteq Routes
    /\ \A r \in DOMAIN bucketHashes : bucketHashes[r] \in DOMAIN buckets \cap Hashes

RequestTypes ==
    /\ pc \in [Requests -> Places] /\ obj \in [Requests -> Objects \cup {0}]
    /\ route \in [Requests -> Routes \cup {None}] /\ retries \in [Requests -> Nat]
    /\ resp \in [Requests -> Answered]

ServerTypes ==
    /\ hashOf \in [Routes -> Hashes] /\ moves \in Nat
    /\ accepted \in [Hashes -> 0..ServerLimit]
    /\ by \in [Hashes -> Objects \cup {0, Several}]

\* What a request has at each of its places.
PlaceInv ==
    \A p \in Requests :
        /\ obj[p] = 0 <=> pc[p] = "idle"
        /\ pc[p] = "idle" => retries[p] = 0
        /\ pc[p] # "idle" => route[p] \in Routes
        /\ resp[p].hash # None => pc[p] = "answered"
        /\ pc[p] = "copy" => resp[p].canonical \notin {0, obj[p]}
        /\ pc[p] # "copy" => resp[p].canonical = 0

Holders ==
    \A p \in Requests, o \in Objects : (holder[o] = p) <=> (obj[p] = o /\ pc[p] \in Holding)

\* A bucket that is referred to belongs to a route.
Referred ==
    /\ \A p \in Requests : obj[p] # 0 => bucket[obj[p]].route \in Routes
    /\ \A k \in DOMAIN buckets : bucket[buckets[k]].route \in Routes

LimiterInv ==
    /\ MapTypes /\ invalid \in Nat
    /\ bucket \in [Objects -> Buckets] /\ holder \in [Objects -> Requests \cup {None}]
    /\ RequestTypes /\ ServerTypes /\ PlaceInv /\ Holders /\ Referred

\* The breaker has let the request pass, and has not counted its response.
Counts(p) ==
    \/ pc[p] \in {"sent", "answered", "copy", "decide"}
    \/ pc[p] \in {"lock", "wait"} /\ retries[p] > 0

BreakerInv ==
    invalid + Cardinality({p \in Requests : Counts(p)})
        <= InvalidRequestLimit + Cardinality(Requests) - 1

\* Until the server gives a route another hash, the keys, the mappings and the answers agree
\* with the hashes it gave at first, and no request that waits to copy holds the bucket of a hash.
FirstHashes ==
    /\ hashOf = FirstHash
    /\ \A r \in DOMAIN bucketHashes : bucketHashes[r] = FirstHash[r]
    /\ \A k \in DOMAIN buckets \cap Hashes : FirstHash[bucket[buckets[k]].route] = k
    /\ \A k \in DOMAIN buckets \cap Routes : bucket[buckets[k]].route = k
    /\ \A p \in Requests : obj[p] # 0 => FirstHash[bucket[obj[p]].route] = FirstHash[route[p]]
    /\ \A p \in Requests : resp[p].hash # None => resp[p].hash = FirstHash[route[p]]

CopierApart ==
    \A p \in Requests : pc[p] = "copy" => \A k \in DOMAIN buckets \cap Hashes : buckets[k] # obj[p]

MoveInv == moves = 0 => FirstHashes /\ CopierApart /\ ~LockedOut

\* A hash whose requests went through one bucket and which has reached its limit: the bucket
\* knows, or is about to be told by the request that holds it.
Told(o, h) ==
    \/ /\ bucket[o].remaining = 0 /\ bucket[o].reset = h
       /\ \A p \in Requests : obj[p] = o => pc[p] # "answered"
    \/ \E p \in Requests : /\ obj[p] = o /\ pc[p] = "answered" /\ resp[p].hash # None
                           /\ resp[p].remaining = 0 /\ resp[p].reset = h

ExhaustedInv ==
    \A h \in Hashes : (accepted[h] = ServerLimit /\ by[h] \in Objects) =>
        /\ \A p \in Requests : obj[p] = by[h] => pc[p] # "sent"
        /\ Told(by[h], h)
-----------------------------------------------------------------------------
(* The maps.                                                                 *)

LEMMA WithoutMap ==
  ASSUME NEW map, NEW keys
  PROVE  /\ DOMAIN Without(map, keys) = DOMAIN map \ keys
         /\ \A k \in DOMAIN map \ keys : Without(map, keys)[k] = map[k]
  BY DEF Without, RestrictDomain, Restrict

LEMMA WithMap ==
  ASSUME NEW map, NEW k, NEW x
  PROVE  /\ DOMAIN With(map, k, x) = DOMAIN map \cup {k}
         /\ With(map, k, x)[k] = x
         /\ \A j \in DOMAIN map : j # k => With(map, k, x)[j] = map[j]
  BY DEF With

LEMMA DanglingMap ==
  ASSUME NEW map, NEW hashes
  PROVE  /\ DOMAIN Dangling(map, hashes) = {r \in DOMAIN hashes : hashes[r] \in DOMAIN map}
         /\ \A r \in DOMAIN Dangling(map, hashes) : Dangling(map, hashes)[r] = hashes[r]
  BY DEF Dangling, RestrictDomain, Restrict

(* makeBucketRoomLocked makes room for one bucket.                               *)
LEMMA RoomMade ==
  ASSUME NEW map, NEW keys \in Evictable(map), NEW k, NEW x,
         IsFiniteSet(DOMAIN map), Cardinality(DOMAIN map) <= MaxBuckets
  PROVE  /\ IsFiniteSet(DOMAIN With(Without(map, keys), k, x))
         /\ Cardinality(DOMAIN With(Without(map, keys), k, x)) <= MaxBuckets
<1>1. PICK D : D = DOMAIN map
  OBVIOUS
<1>2. Cardinality(D) \in Nat /\ MaxBuckets \in Nat \ {0} /\ keys \subseteq D /\ IsFiniteSet(D)
  BY <1>1, FS_CardinalityType, RateLimiterAssumption DEF Evictable
<1>3. PICK R : R = D \ keys
  OBVIOUS
<1>4. IsFiniteSet(R) /\ Cardinality(R) \in Nat
  BY <1>2, <1>3, FS_Difference, FS_CardinalityType
<1>5. Cardinality(R) = Cardinality(D) - Cardinality(keys)
  <2>1. D \cap keys = keys
    BY <1>2
  <2> QED
    BY <1>2, <1>3, <2>1, FS_Difference
<1>6. Cardinality(R) + 1 <= MaxBuckets
  <2>1. Cardinality(keys) = IF Cardinality(D) >= MaxBuckets THEN Cardinality(D) + 1 - MaxBuckets ELSE 0
    BY <1>1 DEF Evictable
  <2>2. Cardinality(D) <= MaxBuckets
    BY <1>1
  <2> QED
    BY <1>2, <1>5, <2>1, <2>2
<1>7. DOMAIN With(Without(map, keys), k, x) = R \cup {k}
  <2>1. DOMAIN Without(map, keys) = R
    BY <1>1, <1>3, WithoutMap
  <2> QED
    BY <2>1, WithMap
<1>8. IsFiniteSet(R \cup {k}) /\ Cardinality(R \cup {k}) \in {Cardinality(R), Cardinality(R) + 1}
  BY <1>4, FS_AddElement
<1>9. Cardinality(R \cup {k}) <= MaxBuckets
  BY <1>2, <1>4, <1>6, <1>8
<1> QED
  BY <1>7, <1>8, <1>9

LEMMA UnionBound ==
  ASSUME NEW S, NEW T, IsFiniteSet(S), IsFiniteSet(T), NEW m \in Nat, NEW n \in Nat,
         Cardinality(S) <= m, Cardinality(T) <= n
  PROVE  IsFiniteSet(S \cup T) /\ Cardinality(S \cup T) <= m + n
<1>1. IsFiniteSet(S \cup T)
      /\ Cardinality(S \cup T) = Cardinality(S) + Cardinality(T) - Cardinality(S \cap T)
  BY FS_Union
<1>2. IsFiniteSet(S \cap T)
  BY FS_Intersection
<1>3. Cardinality(S) \in Nat /\ Cardinality(T) \in Nat /\ Cardinality(S \cap T) \in Nat
  BY <1>2, FS_CardinalityType
<1> QED
  BY <1>1, <1>3

LEMMA ImageBound ==
  ASSUME NEW S, IsFiniteSet(S), NEW f
  PROVE  IsFiniteSet({f[x] : x \in S}) /\ Cardinality({f[x] : x \in S}) <= Cardinality(S)
<1> DEFINE g == [x \in S |-> f[x]]
           T == {f[x] : x \in S}
<1>1. g \in Surjection(S, T)
  BY DEF Surjection
<1> QED
  BY <1>1, FS_Surjection

(* There is a Bucket object for a new bucket: a request refers to its own and, while *)
(* it copies, to the canonical one.                                              *)
LEMMA FreshFree ==
  ASSUME LimiterInv, NEW p \in Requests, pc[p] # "copy"
  PROVE  Fresh \in Objects /\ Free(Fresh)
<1> DEFINE N == Cardinality(Requests)
           A == {buckets[k] : k \in DOMAIN buckets}
           B == {obj[q] : q \in Requests}
           rest == Requests \ {p}
           f == [q \in rest |-> resp[q].canonical]
           C == {f[q] : q \in rest}
<1>1. N \in Nat /\ MaxBuckets \in Nat /\ IsFiniteSet(Requests)
  BY RateLimiterAssumption, FS_CardinalityType
<1>2. IsFiniteSet(A) /\ Cardinality(A) <= MaxBuckets /\ Cardinality(A) \in Nat
  <2>1. IsFiniteSet(DOMAIN buckets) /\ Cardinality(DOMAIN buckets) <= MaxBuckets
    BY DEF LimiterInv, MapTypes
  <2>2. IsFiniteSet(A) /\ Cardinality(A) <= Cardinality(DOMAIN buckets)
    BY <2>1, ImageBound
  <2>3. Cardinality(A) \in Nat /\ Cardinality(DOMAIN buckets) \in Nat
    BY <2>1, <2>2, FS_CardinalityType
  <2> QED
    BY <1>1, <2>1, <2>2, <2>3
<1>3. IsFiniteSet(B) /\ Cardinality(B) <= N /\ Cardinality(B) \in Nat
  <2>1. IsFiniteSet(B) /\ Cardinality(B) <= N
    BY <1>1, ImageBound
  <2> QED
    BY <2>1, FS_CardinalityType
<1>4. IsFiniteSet(C) /\ Cardinality(C) <= N - 1 /\ Cardinality(C) \in Nat
  <2>1. IsFiniteSet(rest) /\ Cardinality(rest) = N - 1
    BY <1>1, FS_RemoveElement
  <2>2. IsFiniteSet(C) /\ Cardinality(C) <= Cardinality(rest)
    BY <2>1, ImageBound
  <2> QED
    BY <2>1, <2>2, FS_CardinalityType
<1> HIDE DEF N, A, B, C
<1>5. IsFiniteSet(A \cup B) /\ Cardinality(A \cup B) <= MaxBuckets + N
  BY <1>1, <1>2, <1>3, UnionBound
<1>6. IsFiniteSet((A \cup B) \cup C) /\ Cardinality((A \cup B) \cup C) <= MaxBuckets + N + (N - 1)
  <2>1. MaxBuckets + N \in Nat /\ N - 1 \in Nat
    BY <1>1, <1>4
  <2> QED
    BY <1>4, <1>5, <2>1, UnionBound
<1>7. IsFiniteSet(Objects) /\ Cardinality(Objects) = MaxBuckets + 2 * N
  <2>1. MaxBuckets + 2 * N \in Nat /\ 1 \in Int
    BY <1>1
  <2>2. IsFiniteSet(1..(MaxBuckets + 2 * N)) /\ Cardinality(1..(MaxBuckets + 2 * N)) = MaxBuckets + 2 * N
    BY <2>1, FS_Interval
  <2> QED
    BY <2>2 DEF Objects, N
<1>8. ~(Objects \subseteq (A \cup B) \cup C)
  <2> SUFFICES ASSUME Objects \subseteq (A \cup B) \cup C PROVE FALSE
    OBVIOUS
  <2>1. Cardinality(Objects) <= Cardinality((A \cup B) \cup C)
    BY <1>6, FS_Subset
  <2>2. Cardinality((A \cup B) \cup C) \in Nat
    BY <1>6, FS_CardinalityType
  <2> QED
    BY <1>1, <1>6, <1>7, <2>1, <2>2
<1>9. PICK o \in Objects : o \notin A /\ o \notin B /\ o \notin C
  BY <1>8
<1>10. Free(o)
  <2>1. \A k \in DOMAIN buckets : buckets[k] # o
    BY <1>9 DEF A
  <2>2. \A q \in Requests : obj[q] # o
    BY <1>9 DEF B
  <2>3. \A q \in Requests : resp[q].canonical # o
    <3>1. \A q \in rest : resp[q].canonical # o
      BY <1>9 DEF C
    <3>2. resp[p].canonical # o
      BY DEF LimiterInv, PlaceInv, Objects
    <3> QED
      BY <3>1, <3>2
  <2> QED
    BY <2>1, <2>2, <2>3 DEF Free
<1> QED
  BY <1>10 DEF Fresh


(* getBucket: the bucket a request gets, and what it leaves of the maps.             *)
LEMMA LookupStep ==
  ASSUME LimiterInv, NEW p \in Requests, pc[p] # "copy", NEW r \in Routes, Lookup(p, r)
  PROVE  \E o \in Objects :
            /\ obj' = [obj EXCEPT ![p] = o]
            /\ MapTypes'
            /\ \/ /\ bucket' = bucket /\ by' = by
                  /\ \E k \in DOMAIN buckets :
                        /\ buckets[k] = o
                        /\ k = r \/ (r \in DOMAIN bucketHashes /\ k = bucketHashes[r])
               \/ /\ Free(o) /\ bucket' = [bucket EXCEPT ![o] = NewBucket(r)]
                  /\ by' = [h \in Hashes |-> IF by[h] = o THEN Several ELSE by[h]]
            /\ \A k \in DOMAIN buckets' :
                  \/ k \in DOMAIN buckets /\ buckets'[k] = buckets[k]
                  \/ k = r /\ buckets'[k] = o /\ Free(o)
            /\ \A q \in DOMAIN bucketHashes' :
                  q \in DOMAIN bucketHashes /\ bucketHashes'[q] = bucketHashes[q]
<1>0. MapTypes
  BY DEF LimiterInv
<1>1. CASE /\ r \in DOMAIN bucketHashes /\ bucketHashes[r] \in DOMAIN buckets
           /\ obj' = [obj EXCEPT ![p] = buckets[bucketHashes[r]]]
           /\ UNCHANGED <<buckets, bucketHashes, bucket, by>>
  <2>1. PICK o \in Objects : o = buckets[bucketHashes[r]]
    BY <1>0, <1>1 DEF MapTypes
  <2>2. MapTypes'
    BY <1>0, <1>1 DEF MapTypes
  <2> QED
    BY <1>1, <2>1, <2>2
<1>2. CASE /\ r \in DOMAIN buckets
           /\ obj' = [obj EXCEPT ![p] = buckets[r]]
           /\ bucketHashes' = Without(bucketHashes, {r})
           /\ UNCHANGED <<buckets, bucket, by>>
  <2>1. PICK o \in Objects : o = buckets[r]
    BY <1>0, <1>2 DEF MapTypes
  <2>2. /\ DOMAIN bucketHashes' \subseteq DOMAIN bucketHashes
        /\ \A q \in DOMAIN bucketHashes' : bucketHashes'[q] = bucketHashes[q]
    BY <1>2 DEF Without, RestrictDomain, Restrict
  <2>3. MapTypes'
    BY <1>0, <1>2, <2>2 DEF MapTypes
  <2> QED
    BY <1>2, <2>1, <2>2, <2>3
<1>3. CASE /\ \E keys \in Evictable(buckets) :
                 LET kept == Without(buckets, keys)
                 IN  /\ buckets' = With(kept, r, Fresh)
                     /\ bucketHashes' = Dangling(kept, Without(bucketHashes, {r}))
           /\ bucket' = [bucket EXCEPT ![Fresh] = NewBucket(r)]
           /\ by' = [h \in Hashes |-> IF by[h] = Fresh THEN Several ELSE by[h]]
           /\ obj' = [obj EXCEPT ![p] = Fresh]
  <2>1. PICK o \in Objects : o = Fresh /\ Free(o)
    BY FreshFree
  <2>2. PICK keys \in Evictable(buckets) :
           /\ buckets' = With(Without(buckets, keys), r, o)
           /\ bucketHashes' = Dangling(Without(buckets, keys), Without(bucketHashes, {r}))
    BY <1>3, <2>1
  <2>3. /\ DOMAIN buckets' = (DOMAIN buckets \ keys) \cup {r}
        /\ buckets'[r] = o
        /\ \A k \in DOMAIN buckets \ keys : k # r => buckets'[k] = buckets[k]
    BY <2>2 DEF Without, RestrictDomain, Restrict, With
  <2>4. \A q \in DOMAIN bucketHashes' :
           /\ q \in DOMAIN bucketHashes /\ bucketHashes'[q] = bucketHashes[q]
           /\ bucketHashes'[q] \in DOMAIN buckets \ keys
    <3>1. PICK hashes : hashes = Without(bucketHashes, {r})
      OBVIOUS
    <3>2. \A q \in DOMAIN hashes : q \in DOMAIN bucketHashes /\ hashes[q] = bucketHashes[q]
      BY <3>1 DEF Without, RestrictDomain, Restrict
    <3>3. PICK kept : kept = Without(buckets, keys)
      OBVIOUS
    <3>4. \A q \in DOMAIN bucketHashes' :
             /\ q \in DOMAIN hashes /\ hashes[q] \in DOMAIN kept
             /\ bucketHashes'[q] = hashes[q]
      BY <2>2, <3>1, <3>3 DEF Dangling, RestrictDomain, Restrict
    <3>5. DOMAIN kept = DOMAIN buckets \ keys
      BY <3>3 DEF Without, RestrictDomain, Restrict
    <3> QED
      BY <3>2, <3>4, <3>5
  <2>5. IsFiniteSet(DOMAIN buckets') /\ Cardinality(DOMAIN buckets') <= MaxBuckets
    BY <1>0, <2>2, RoomMade DEF MapTypes
  <2>6. MapTypes'
    BY <1>0, <2>3, <2>4, <2>5 DEF MapTypes
  <2>7. /\ obj' = [obj EXCEPT ![p] = o] /\ bucket' = [bucket EXCEPT ![o] = NewBucket(r)]
        /\ by' = [h \in Hashes |-> IF by[h] = o THEN Several ELSE by[h]]
    BY <1>3, <2>1
  <2>8. \A k \in DOMAIN buckets' : \/ k \in DOMAIN buckets /\ buckets'[k] = buckets[k]
                                   \/ k = r /\ buckets'[k] = o /\ Free(o)
    BY <2>1, <2>3
  <2> QED
    BY <2>1, <2>4, <2>6, <2>7, <2>8
<1> QED
  BY <1>1, <1>2, <1>3 DEF Lookup

(* registerBucketHash: a bucket takes the key of its hash unless another has it.       *)
LEMMA RegisterStep ==
  ASSUME LimiterInv, NEW o \in Objects, bucket[o].route \in Routes, NEW h \in Hashes, Register(o, h)
  PROVE  /\ MapTypes'
         /\ \A k \in DOMAIN buckets' :
               \/ k \in DOMAIN buckets /\ buckets'[k] = buckets[k]
               \/ k = h /\ buckets'[k] = o
         /\ \A q \in DOMAIN bucketHashes' :
               \/ q \in DOMAIN bucketHashes /\ bucketHashes'[q] = bucketHashes[q]
               \/ q = bucket[o].route /\ bucketHashes'[q] = h
         /\ h \in DOMAIN buckets' /\ buckets'[h] = Canonical(o, h)
<1>0. MapTypes /\ h \notin Routes
  BY RateLimiterAssumption DEF LimiterInv
<1>1. PICK r \in Routes : r = bucket[o].route
  OBVIOUS
<1>2. PICK left : left = IF r \in DOMAIN buckets /\ buckets[r] = o THEN Without(buckets, {r}) ELSE buckets
  OBVIOUS
<1>3. /\ DOMAIN left \subseteq DOMAIN buckets /\ DOMAIN buckets \cap Hashes \subseteq DOMAIN left
      /\ \A k \in DOMAIN left : left[k] = buckets[k]
  BY <1>0, <1>2, RateLimiterAssumption DEF Without, RestrictDomain, Restrict
<1>4. IsFiniteSet(DOMAIN left) /\ Cardinality(DOMAIN left) <= MaxBuckets
  <2>1. IsFiniteSet(DOMAIN left) /\ Cardinality(DOMAIN left) <= Cardinality(DOMAIN buckets)
    BY <1>0, <1>3, FS_Subset DEF MapTypes
  <2>2. Cardinality(DOMAIN left) \in Nat /\ Cardinality(DOMAIN buckets) \in Nat /\ MaxBuckets \in Nat
    BY <1>0, <2>1, FS_CardinalityType, RateLimiterAssumption DEF MapTypes
  <2> QED
    BY <1>0, <2>1, <2>2 DEF MapTypes
<1>5. CASE /\ h \in DOMAIN buckets
           /\ bucketHashes' = With(bucketHashes, r, h)
           /\ buckets' \in {buckets, left}
  <2>1. /\ DOMAIN bucketHashes' = DOMAIN bucketHashes \cup {r} /\ bucketHashes'[r] = h
        /\ \A q \in DOMAIN bucketHashes : q # r => bucketHashes'[q] = bucketHashes[q]
    BY <1>5 DEF With
  <2>2. /\ DOMAIN buckets' \subseteq DOMAIN buckets /\ DOMAIN buckets \cap Hashes \subseteq DOMAIN buckets'
        /\ \A k \in DOMAIN buckets' : buckets'[k] = buckets[k]
        /\ IsFiniteSet(DOMAIN buckets') /\ Cardinality(DOMAIN buckets') <= MaxBuckets
    BY <1>0, <1>3, <1>4, <1>5 DEF MapTypes
  <2>3. MapTypes'
    BY <1>0, <1>1, <1>5, <2>1, <2>2 DEF MapTypes
  <2> QED
    BY <1>1, <1>5, <2>1, <2>2, <2>3 DEF Canonical
<1>6. CASE /\ h \notin DOMAIN buckets
           /\ \E keys \in Evictable(left) :
                LET kept == Without(left, keys)
                IN  /\ buckets' = With(kept, h, o)
                    /\ bucketHashes' = With(Dangling(kept, bucketHashes), r, h)
  <2>1. PICK keys \in Evictable(left) :
           /\ buckets' = With(Without(left, keys), h, o)
           /\ bucketHashes' = With(Dangling(Without(left, keys), bucketHashes), r, h)
    BY <1>6
  <2>2. PICK kept : kept = Without(left, keys)
    OBVIOUS
  <2>3. DOMAIN kept = DOMAIN left \ keys /\ \A k \in DOMAIN kept : kept[k] = left[k]
    BY <2>2 DEF Without, RestrictDomain, Restrict
  <2>4. /\ DOMAIN buckets' = DOMAIN kept \cup {h} /\ buckets'[h] = o
        /\ \A k \in DOMAIN kept : k # h => buckets'[k] = kept[k]
    BY <2>1, <2>2 DEF With
  <2>5. PICK hashes : hashes = Dangling(kept, bucketHashes)
    OBVIOUS
  <2>6. \A q \in DOMAIN hashes : /\ q \in DOMAIN bucketHashes /\ hashes[q] = bucketHashes[q]
                                 /\ hashes[q] \in DOMAIN kept
    BY <2>5 DEF Dangling, RestrictDomain, Restrict
  <2>7. /\ DOMAIN bucketHashes' = DOMAIN hashes \cup {r} /\ bucketHashes'[r] = h
        /\ \A q \in DOMAIN hashes : q # r => bucketHashes'[q] = hashes[q]
    BY <2>1, <2>2, <2>5 DEF With
  <2>8. IsFiniteSet(DOMAIN buckets') /\ Cardinality(DOMAIN buckets') <= MaxBuckets
    BY <1>4, <2>1, RoomMade
  <2>9. MapTypes'
    BY <1>0, <1>1, <1>3, <2>3, <2>4, <2>6, <2>7, <2>8 DEF MapTypes
  <2>10. \A k \in DOMAIN buckets' : \/ k \in DOMAIN buckets /\ buckets'[k] = buckets[k]
                                    \/ k = h /\ buckets'[k] = o
    BY <1>3, <2>3, <2>4
  <2>11. \A q \in DOMAIN bucketHashes' :
            \/ q \in DOMAIN bucketHashes /\ bucketHashes'[q] = bucketHashes[q]
            \/ q = bucket[o].route /\ bucketHashes'[q] = h
    BY <1>1, <2>6, <2>7
  <2> QED
    BY <1>6, <2>4, <2>9, <2>10, <2>11 DEF Canonical
<1> QED
  BY <1>1, <1>2, <1>5, <1>6 DEF Register

-----------------------------------------------------------------------------
(* The limiter's invariant.                                                  *)

LEMMA NoneApart ==
  /\ None \notin Requests /\ None \notin Routes /\ None \notin Hashes /\ "past" \notin Hashes
  /\ 0 \notin Objects /\ Several \notin Objects /\ Several # 0
  /\ NoResponse \in Answered
  /\ NoResponse.status = None /\ NoResponse.hash = None /\ NoResponse.canonical = 0
  BY RateLimiterAssumption
     DEF None, Objects, Several, NoResponse, Answered, Statuses, Resets

(* A request stops.                                                              *)
LEMMA EndsRequest ==
  ASSUME RequestTypes, NEW p \in Requests, Ends(p)
  PROVE  /\ RequestTypes'
         /\ \A q \in Requests : q # p => /\ pc'[q] = pc[q] /\ obj'[q] = obj[q] /\ route'[q] = route[q]
                                         /\ retries'[q] = retries[q] /\ resp'[q] = resp[q]
         /\ pc'[p] = "idle" /\ obj'[p] = 0 /\ retries'[p] = 0 /\ resp'[p] = NoResponse
<1>1. /\ pc' \in [Requests -> Places] /\ obj' \in [Requests -> Objects \cup {0}]
      /\ route' \in [Requests -> Routes \cup {None}] /\ retries' \in [Requests -> Nat]
      /\ resp' \in [Requests -> Answered]
  BY NoneApart DEF RequestTypes, Ends, Places
<1> QED
  BY <1>1 DEF RequestTypes, Ends

(* Nothing but the places of requests and what they hold.                          *)
LEMMA PlacesKept ==
  ASSUME LimiterInv, NEW p \in Requests, RequestTypes',
         \A q \in Requests : q # p => /\ pc'[q] = pc[q] /\ obj'[q] = obj[q] /\ route'[q] = route[q]
                                      /\ retries'[q] = retries[q] /\ resp'[q] = resp[q],
         obj'[p] = 0 <=> pc'[p] = "idle",
         pc'[p] = "idle" => retries'[p] = 0,
         pc'[p] # "idle" => route'[p] \in Routes,
         resp'[p].hash # None => pc'[p] = "answered",
         pc'[p] = "copy" => resp'[p].canonical \notin {0, obj'[p]},
         pc'[p] # "copy" => resp'[p].canonical = 0
  PROVE  PlaceInv'
  BY DEF LimiterInv, PlaceInv

LEMMA HoldersKept ==
  ASSUME LimiterInv, NEW p \in Requests,
         \A q \in Requests : q # p => pc'[q] = pc[q] /\ obj'[q] = obj[q],
         \A o \in Objects : \/ holder'[o] = holder[o]
                            \/ holder[o] \in {None, p} /\ holder'[o] \in {None, p},
         \A o \in Objects : (holder'[o] = p) <=> (obj'[p] = o /\ pc'[p] \in Holding)
  PROVE  Holders'
<1> SUFFICES ASSUME NEW q \in Requests, NEW o \in Objects
             PROVE  (holder'[o] = q) <=> (obj'[q] = o /\ pc'[q] \in Holding)
  BY DEF Holders
<1>1. CASE q = p
  BY <1>1
<1>2. CASE q # p
  <2>1. (holder[o] = q) <=> (obj[q] = o /\ pc[q] \in Holding)
    BY DEF LimiterInv, Holders
  <2>2. (holder'[o] = q) <=> (holder[o] = q)
    BY <1>2, NoneApart
  <2> QED
    BY <1>2, <2>1, <2>2
<1> QED
  BY <1>1, <1>2

LEMMA ReferredKept ==
  ASSUME LimiterInv, buckets' = buckets, \A o \in Objects : bucket'[o].route = bucket[o].route,
         obj' \in [Requests -> Objects \cup {0}],
         \A q \in Requests : obj'[q] \in {obj[q], 0}
  PROVE  Referred'
<1>1. \A q \in Requests : obj'[q] # 0 => obj'[q] \in Objects /\ obj'[q] = obj[q]
  BY DEF LimiterInv, RequestTypes
<1>2. \A k \in DOMAIN buckets : buckets[k] \in Objects
  BY DEF LimiterInv, MapTypes
<1> QED
  BY <1>1, <1>2 DEF LimiterInv, Referred

(* A request gets the bucket of a route, in LockBucketRouteContext.                 *)
LEMMA LookupKeeps ==
  ASSUME LimiterInv, NEW p \in Requests, pc[p] \in {"idle", "backoff"}, NEW r \in Routes, Lookup(p, r),
         RequestTypes', UNCHANGED <<invalid, holder, hashOf, moves, accepted>>,
         pc' = [pc EXCEPT ![p] = "lock"],
         \A q \in Requests : q # p => /\ route'[q] = route[q] /\ retries'[q] = retries[q],
         resp' = resp, route'[p] \in Routes
  PROVE  LimiterInv'
<1>1. PICK o \in Objects :
         /\ obj' = [obj EXCEPT ![p] = o]
         /\ MapTypes'
         /\ \/ /\ bucket' = bucket /\ by' = by
               /\ \E k \in DOMAIN buckets :
                     /\ buckets[k] = o
                     /\ k = r \/ (r \in DOMAIN bucketHashes /\ k = bucketHashes[r])
            \/ /\ Free(o) /\ bucket' = [bucket EXCEPT ![o] = NewBucket(r)]
               /\ by' = [h \in Hashes |-> IF by[h] = o THEN Several ELSE by[h]]
         /\ \A k \in DOMAIN buckets' :
               \/ k \in DOMAIN buckets /\ buckets'[k] = buckets[k]
               \/ k = r /\ buckets'[k] = o /\ Free(o)
         /\ \A q \in DOMAIN bucketHashes' :
               q \in DOMAIN bucketHashes /\ bucketHashes'[q] = bucketHashes[q]
  BY LookupStep
<1>2. /\ \A q \in Requests : /\ obj'[q] = IF q = p THEN o ELSE obj[q]
                             /\ pc'[q] = IF q = p THEN "lock" ELSE pc[q]
      /\ o # 0
  BY <1>1, NoneApart DEF LimiterInv, RequestTypes
<1>3. bucket' \in [Objects -> Buckets]
  BY <1>1 DEF LimiterInv, NewBucket, Buckets, Resets
<1>4. ServerTypes'
  <2>1. by' \in [Hashes -> Objects \cup {0, Several}]
    BY <1>1 DEF LimiterInv, ServerTypes
  <2> QED
    BY <2>1 DEF LimiterInv, ServerTypes
<1>5. PlaceInv'
  <2>1. resp[p].hash = None /\ resp[p].canonical = 0
    BY DEF LimiterInv, PlaceInv
  <2> QED
    BY <1>2, <2>1, PlacesKept
<1>6. Holders'
  <2>1. \A o2 \in Objects : holder[o2] # p
    BY DEF LimiterInv, Holders, Holding
  <2> QED
    BY <1>2, <2>1, HoldersKept DEF Holding
<1>7. Referred'
  <2>1. bucket'[o].route \in Routes
    BY <1>1 DEF LimiterInv, NewBucket, Referred
  <2>2. \A o2 \in Objects : o2 = o \/ bucket'[o2] = bucket[o2]
    BY <1>1 DEF LimiterInv
  <2>3. \A q \in Requests : obj'[q] # 0 => bucket'[obj'[q]].route \in Routes
    <3> TAKE q \in Requests
    <3>1. q # p /\ obj[q] # 0 => obj[q] \in Objects /\ bucket[obj[q]].route \in Routes
      BY DEF LimiterInv, RequestTypes, Referred
    <3> QED
      BY <1>2, <2>1, <2>2, <3>1
  <2>4. \A k \in DOMAIN buckets' : bucket'[buckets'[k]].route \in Routes
    <3> TAKE k \in DOMAIN buckets'
    <3>1. k \in DOMAIN buckets => buckets[k] \in Objects /\ bucket[buckets[k]].route \in Routes
      BY DEF LimiterInv, MapTypes, Referred
    <3> QED
      BY <1>1, <2>1, <2>2, <3>1
  <2> QED
    BY <2>3, <2>4 DEF Referred
<1> QED
  BY <1>1, <1>3, <1>4, <1>5, <1>6, <1>7 DEF LimiterInv


(* A request takes the mutex of its bucket, sends, or gives up before it does.       *)
LEMMA DepartureKeeps ==
  ASSUME LimiterInv, NEW p \in Requests, Lock(p) \/ CancelWait(p) \/ Send(p) \/ Refuse(p)
  PROVE  LimiterInv'
<1> DEFINE o == obj[p]
<1>0. RequestTypes /\ MapTypes /\ ServerTypes /\ Holders /\ PlaceInv
      /\ pc[p] \in Places /\ o \in Objects \cup {0}
  BY DEF LimiterInv, RequestTypes
<1>1. o \in Objects /\ pc[p] \in {"lock", "wait"}
  BY <1>0 DEF PlaceInv, Lock, CancelWait, Send, Refuse
<1>2. UNCHANGED <<buckets, bucketHashes, invalid, hashOf, moves, accepted, by>>
  BY DEF Lock, CancelWait, Send, Refuse, limiterVars, serverVars
<1>3. MapTypes' /\ ServerTypes' /\ invalid' \in Nat
  BY <1>0, <1>2 DEF MapTypes, ServerTypes, LimiterInv
<1>4. CASE Lock(p)
  <2>1. /\ pc' = [pc EXCEPT ![p] = "wait"] /\ holder[o] = None /\ holder' = [holder EXCEPT ![o] = p]
        /\ UNCHANGED <<bucket, obj, route, retries, resp>> /\ pc[p] = "lock"
    BY <1>4 DEF Lock
  <2>2. RequestTypes' /\ \A q \in Requests : pc'[q] = IF q = p THEN "wait" ELSE pc[q]
    BY <1>0, <2>1 DEF RequestTypes, Places, Holding
  <2>3. PlaceInv'
    BY <1>0, <1>1, <2>1, <2>2, PlacesKept DEF PlaceInv
  <2>4. \A o2 \in Objects : holder'[o2] = IF o2 = o THEN p ELSE holder[o2]
    BY <2>1 DEF LimiterInv
  <2>5. \A o2 \in Objects : holder[o2] # p
    BY <1>0, <2>1 DEF Holders, Holding
  <2>6. Holders'
    BY <1>1, <2>1, <2>2, <2>4, <2>5, HoldersKept DEF Holding
  <2>7. Referred' /\ bucket' \in [Objects -> Buckets] /\ holder' \in [Objects -> Requests \cup {None}]
    BY <1>2, <2>1 DEF LimiterInv, Referred
  <2> QED
    BY <1>3, <2>2, <2>3, <2>6, <2>7 DEF LimiterInv
<1>5. CASE CancelWait(p) \/ Refuse(p)
  <2>1. /\ Ends(p) /\ holder' = [holder EXCEPT ![o] = None] /\ pc[p] = "wait"
        /\ bucket' \in {bucket, [bucket EXCEPT ![o].remaining = IF @ > 0 THEN @ - 1 ELSE 0]}
    BY <1>5 DEF CancelWait, Refuse, Unlock
  <2>2. /\ RequestTypes'
        /\ \A q \in Requests : q # p => /\ pc'[q] = pc[q] /\ obj'[q] = obj[q] /\ route'[q] = route[q]
                                        /\ retries'[q] = retries[q] /\ resp'[q] = resp[q]
        /\ pc'[p] = "idle" /\ obj'[p] = 0 /\ retries'[p] = 0 /\ resp'[p] = NoResponse
    BY <1>0, <2>1, EndsRequest
  <2>3. PlaceInv'
    BY <2>2, PlacesKept, NoneApart
  <2>4. \A o2 \in Objects : holder'[o2] = IF o2 = o THEN None ELSE holder[o2]
    BY <2>1 DEF LimiterInv
  <2>5. \A o2 \in Objects : holder[o2] = p <=> o2 = o
    BY <1>0, <1>1, <2>1 DEF Holders, Holding
  <2>6. Holders'
    BY <1>1, <2>2, <2>4, <2>5, HoldersKept, NoneApart DEF Holding
  <2>7. bucket' \in [Objects -> Buckets] /\ \A o2 \in Objects : bucket'[o2].route = bucket[o2].route
    BY <1>1, <2>1 DEF LimiterInv, Buckets
  <2>8. Referred'
    BY <1>2, <2>2, <2>7, ReferredKept DEF RequestTypes
  <2>9. holder' \in [Objects -> Requests \cup {None}]
    BY <2>1 DEF LimiterInv
  <2> QED
    BY <1>3, <2>2, <2>3, <2>6, <2>7, <2>8, <2>9 DEF LimiterInv
<1>6. CASE Send(p)
  <2>1. /\ bucket' = [bucket EXCEPT ![o].remaining = IF @ > 0 THEN @ - 1 ELSE 0]
        /\ pc' = [pc EXCEPT ![p] = "sent"] /\ pc[p] = "wait"
        /\ UNCHANGED <<holder, obj, route, retries, resp>>
    BY <1>6 DEF Send
  <2>2. RequestTypes' /\ \A q \in Requests : pc'[q] = IF q = p THEN "sent" ELSE pc[q]
    BY <1>0, <2>1 DEF RequestTypes, Places, Holding
  <2>3. PlaceInv'
    BY <1>0, <1>1, <2>1, <2>2, PlacesKept DEF PlaceInv
  <2>4. Holders'
    BY <1>0, <2>1, <2>2 DEF Holders, Holding
  <2>5. bucket' \in [Objects -> Buckets] /\ \A o2 \in Objects : bucket'[o2].route = bucket[o2].route
    BY <1>1, <2>1 DEF LimiterInv, Buckets
  <2>6. Referred'
    BY <1>0, <1>2, <2>1, <2>5, ReferredKept DEF RequestTypes
  <2> QED
    BY <1>3, <2>1, <2>2, <2>3, <2>4, <2>5, <2>6 DEF LimiterInv
<1> QED
  BY <1>4, <1>5, <1>6

(* The server answers.                                                            *)
LEMMA AnswerKeeps ==
  ASSUME LimiterInv, NEW p \in Requests, Accepts(p) \/ Rejects(p) \/ Fails(p)
  PROVE  /\ LimiterInv' /\ pc[p] = "sent" /\ obj[p] \in Objects
         /\ \A q \in Requests : pc'[q] = IF q = p THEN "answered" ELSE pc[q]
         /\ \A q \in Requests : q # p => resp'[q] = resp[q]
<1>0. RequestTypes /\ MapTypes /\ ServerTypes /\ Holders /\ PlaceInv
  BY DEF LimiterInv
<1>1. pc[p] = "sent" /\ obj[p] \in Objects /\ route[p] \in Routes
  BY <1>0 DEF PlaceInv, Accepts, Rejects, Fails, RequestTypes
<1>2. PICK h \in Hashes : h = hashOf[route[p]]
  BY <1>0, <1>1 DEF ServerTypes
<1>3. ServerLimit \in Nat /\ accepted[h] \in 0..ServerLimit
  BY <1>0, <1>2, RateLimiterAssumption DEF ServerTypes
<1>4. \/ UNCHANGED <<accepted, by>>
      \/ \E lost \in BOOLEAN : Counted(p, h, lost)
  BY <1>2 DEF Accepts, Rejects, Fails
<1>5. \E s \in Statuses, left \in Nat, until \in Resets, g \in Hashes \cup {None} :
         Answers(p, s, left, until, g)
  <2>1. CASE Accepts(p)
    <3>1. accepted[h] < ServerLimit
      BY <1>2, <2>1 DEF Accepts, Counted
    <3>2. ServerLimit - accepted[h] - 1 \in Nat
      BY <1>3, <3>1
    <3> QED
      BY <1>2, <2>1, <3>2 DEF Accepts, Statuses, Resets
  <2>2. CASE Rejects(p) \/ Fails(p)
    BY <1>2, <2>2 DEF Rejects, Fails, Statuses, Resets
  <2> QED
    BY <2>1, <2>2
<1>6. PICK s \in Statuses, left \in Nat, until \in Resets, g \in Hashes \cup {None} :
         Answers(p, s, left, until, g)
  BY <1>5
<1>7. UNCHANGED <<buckets, bucketHashes, invalid, bucket, holder, obj, route, retries, hashOf, moves>>
  BY <1>6 DEF Answers, limiterVars, bucketVars
<1>8. /\ \A q \in Requests : pc'[q] = IF q = p THEN "answered" ELSE pc[q]
      /\ \A q \in Requests : q # p => resp'[q] = resp[q]
      /\ resp'[p] = [status |-> s, remaining |-> left, reset |-> until, hash |-> g, canonical |-> 0]
      /\ RequestTypes'
  <2>1. pc' = [pc EXCEPT ![p] = "answered"]
        /\ resp' = [resp EXCEPT ![p] = [status |-> s, remaining |-> left, reset |-> until,
                                        hash |-> g, canonical |-> 0]]
    BY <1>6 DEF Answers
  <2>2. [status |-> s, remaining |-> left, reset |-> until, hash |-> g, canonical |-> 0] \in Answered
    BY DEF Answered
  <2>3. pc' \in [Requests -> Places] /\ resp' \in [Requests -> Answered]
    BY <1>0, <2>1, <2>2 DEF RequestTypes, Places, Holding
  <2> QED
    BY <1>0, <1>7, <2>1, <2>3 DEF RequestTypes
<1>9. ServerTypes'
  <2>1. CASE UNCHANGED <<accepted, by>>
    BY <1>0, <1>7, <2>1 DEF ServerTypes
  <2>2. CASE \E lost \in BOOLEAN : Counted(p, h, lost)
    <3>1. accepted' \in [Hashes -> 0..ServerLimit]
      BY <1>0, <1>2, <1>3, <2>2 DEF ServerTypes, Counted
    <3>2. by' \in [Hashes -> Objects \cup {0, Several}]
      BY <1>0, <1>1, <2>2 DEF ServerTypes, Counted
    <3> QED
      BY <1>0, <1>7, <3>1, <3>2 DEF ServerTypes
  <2> QED
    BY <1>4, <2>1, <2>2
<1>10. PlaceInv'
  BY <1>0, <1>1, <1>7, <1>8, PlacesKept DEF PlaceInv
<1>11. Holders'
  BY <1>0, <1>1, <1>7, <1>8 DEF Holders, Holding
<1>12. MapTypes' /\ Referred'
  BY <1>0, <1>7 DEF MapTypes, Referred, LimiterInv
<1> QED
  BY <1>1, <1>7, <1>8, <1>9, <1>10, <1>11, <1>12 DEF LimiterInv


LEMMA WindowKeeps ==
  ASSUME LimiterInv, NEW h \in Hashes, WindowEnds(h)
  PROVE  /\ LimiterInv' /\ UNCHANGED <<buckets, bucketHashes, pc, obj, holder>>
         /\ \A o \in Objects : /\ bucket'[o].route = bucket[o].route
                               /\ bucket'[o].remaining = bucket[o].remaining
                               /\ bucket'[o].reset = IF bucket[o].reset = h THEN "past" ELSE bucket[o].reset
         /\ \A q \in Requests : /\ resp'[q].hash = resp[q].hash
                                /\ resp'[q].canonical = resp[q].canonical
                                /\ resp'[q].remaining = resp[q].remaining
                                /\ resp'[q].reset = IF resp[q].reset = h THEN "past" ELSE resp[q].reset
<1>1. UNCHANGED <<buckets, bucketHashes, invalid, holder, pc, obj, route, retries, hashOf, moves>>
  BY DEF WindowEnds, limiterVars
<1>2. bucket' \in [Objects -> Buckets]
      /\ \A o \in Objects : /\ bucket'[o].route = bucket[o].route
                            /\ bucket'[o].remaining = bucket[o].remaining
                            /\ bucket'[o].reset = IF bucket[o].reset = h THEN "past" ELSE bucket[o].reset
  BY DEF LimiterInv, WindowEnds, Buckets, Resets
<1>3. /\ resp' \in [Requests -> Answered]
      /\ \A q \in Requests : /\ resp'[q].hash = resp[q].hash
                             /\ resp'[q].canonical = resp[q].canonical
                             /\ resp'[q].remaining = resp[q].remaining
                             /\ resp'[q].reset = IF resp[q].reset = h THEN "past" ELSE resp[q].reset
  BY DEF LimiterInv, RequestTypes, WindowEnds, Answered, Resets
<1>4. accepted' \in [Hashes -> 0..ServerLimit] /\ by' \in [Hashes -> Objects \cup {0, Several}]
  BY RateLimiterAssumption DEF LimiterInv, ServerTypes, WindowEnds
<1>5. RequestTypes' /\ ServerTypes' /\ MapTypes'
  BY <1>1, <1>3, <1>4 DEF LimiterInv, RequestTypes, ServerTypes, MapTypes
<1>6. PlaceInv' /\ Holders'
  BY <1>1, <1>3 DEF LimiterInv, PlaceInv, Holders
<1>7. Referred'
  BY <1>1, <1>2, ReferredKept DEF LimiterInv, RequestTypes
<1> QED
  BY <1>1, <1>2, <1>3, <1>5, <1>6, <1>7 DEF LimiterInv

LEMMA HeadersTaken ==
  ASSUME NEW b \in Buckets, NEW a \in Answered
  PROVE  /\ FromHeaders(b, a) \in Buckets /\ FromHeaders(b, a).route = b.route
         /\ FromHeaders(b, a).remaining = a.remaining /\ FromHeaders(b, a).reset = a.reset
  BY DEF FromHeaders, Buckets, Answered

(* Release, in full.                                                              *)
LEMMA ReleaseKeeps ==
  ASSUME LimiterInv, NEW p \in Requests, Release(p)
  PROVE  /\ LimiterInv' /\ pc[p] = "answered" /\ obj[p] \in Objects /\ bucket[obj[p]].route \in Routes
         /\ \A o \in Objects : bucket'[o].route = bucket[o].route
<1> DEFINE o == obj[p]
<1>0. RequestTypes /\ MapTypes /\ ServerTypes /\ Holders /\ PlaceInv /\ resp[p] \in Answered
  BY DEF LimiterInv, RequestTypes
<1>1. o \in Objects /\ pc[p] = "answered" /\ bucket[o].route \in Routes /\ resp[p].canonical = 0
  BY <1>0 DEF PlaceInv, Release, RequestTypes, LimiterInv, Referred
<1>2. UNCHANGED <<invalid, obj, route, retries, hashOf, moves, accepted, by>>
  BY DEF Release, serverVars
<1>3. ServerTypes' /\ invalid' \in Nat
  BY <1>0, <1>2 DEF ServerTypes, LimiterInv
<1>4. \A o2 \in Objects : holder[o2] = p <=> o2 = o
  BY <1>0, <1>1 DEF Holders, Holding
<1>5. CASE resp[p].hash # None
  <2>1. PICK h \in Hashes : h = resp[p].hash
    BY <1>0, <1>5 DEF Answered
  <2>2. Register(o, h) /\ bucket' = [bucket EXCEPT ![o] = FromHeaders(@, resp[p])]
    BY <1>5, <2>1 DEF Release
  <2>3. /\ MapTypes'
        /\ \A k \in DOMAIN buckets' : \/ k \in DOMAIN buckets /\ buckets'[k] = buckets[k]
                                      \/ k = h /\ buckets'[k] = o
    BY <1>1, <2>2, RegisterStep
  <2>4. bucket' \in [Objects -> Buckets] /\ \A o2 \in Objects : bucket'[o2].route = bucket[o2].route
    <3>1. bucket[o] \in Buckets
      BY <1>1 DEF LimiterInv
    <3>2. PICK b : b = FromHeaders(bucket[o], resp[p])
      OBVIOUS
    <3>3. b \in Buckets /\ b.route = bucket[o].route
      BY <1>0, <3>1, <3>2, HeadersTaken
    <3>4. bucket' = [bucket EXCEPT ![o] = b]
      BY <2>2, <3>2
    <3> QED
      BY <1>1, <3>3, <3>4 DEF LimiterInv
  <2>5. Referred'
    <3>1. \A q \in Requests : obj[q] # 0 => obj[q] \in Objects /\ bucket[obj[q]].route \in Routes
      BY DEF LimiterInv, RequestTypes, Referred
    <3>2. \A k \in DOMAIN buckets : buckets[k] \in Objects /\ bucket[buckets[k]].route \in Routes
      BY DEF LimiterInv, MapTypes, Referred
    <3>3. \A k \in DOMAIN buckets' : bucket'[buckets'[k]].route \in Routes
      BY <1>1, <2>3, <2>4, <3>2
    <3> QED
      BY <1>2, <2>4, <3>1, <3>3 DEF Referred
  <2>6. Canonical(o, h) \in Objects
    BY <1>0, <1>1 DEF Canonical, MapTypes
  <2>7. CASE /\ holder' = [holder EXCEPT ![o] = None]
             /\ pc' = [pc EXCEPT ![p] = "decide"]
             /\ resp' = [resp EXCEPT ![p] = [NoResponse EXCEPT !.status = resp[p].status]]
    <3>1. /\ RequestTypes'
          /\ \A q \in Requests : pc'[q] = IF q = p THEN "decide" ELSE pc[q]
          /\ \A q \in Requests : q # p => resp'[q] = resp[q]
          /\ resp'[p].hash = None /\ resp'[p].canonical = 0
      <4>1. [NoResponse EXCEPT !.status = resp[p].status] \in Answered
        BY <1>0, NoneApart DEF Answered
      <4>2. pc' \in [Requests -> Places] /\ resp' \in [Requests -> Answered]
        BY <1>0, <2>7, <4>1 DEF RequestTypes, Places, Holding
      <4> QED
        BY <1>0, <1>2, <2>7, <4>2 DEF RequestTypes, NoResponse
    <3>2. PlaceInv'
      BY <1>0, <1>1, <1>2, <3>1, PlacesKept DEF PlaceInv
    <3>3. holder' \in [Objects -> Requests \cup {None}]
          /\ \A o2 \in Objects : holder'[o2] = IF o2 = o THEN None ELSE holder[o2]
      BY <2>7 DEF LimiterInv
    <3>4. Holders'
      BY <1>1, <1>2, <1>4, <3>1, <3>3, HoldersKept, NoneApart DEF Holding
    <3> QED
      BY <1>1, <1>3, <2>3, <2>4, <2>5, <3>1, <3>2, <3>3, <3>4 DEF LimiterInv
  <2>8. CASE /\ ~IsCanonical(o, h) /\ holder' = holder
             /\ pc' = [pc EXCEPT ![p] = "copy"]
             /\ resp' = [resp EXCEPT ![p] = [NoResponse EXCEPT !.status = resp[p].status,
                                                               !.canonical = Canonical(o, h)]]
    <3>1. /\ RequestTypes'
          /\ \A q \in Requests : pc'[q] = IF q = p THEN "copy" ELSE pc[q]
          /\ \A q \in Requests : q # p => resp'[q] = resp[q]
          /\ resp'[p].hash = None /\ resp'[p].canonical = Canonical(o, h)
      <4>1. [NoResponse EXCEPT !.status = resp[p].status, !.canonical = Canonical(o, h)] \in Answered
        BY <1>0, <2>6, NoneApart DEF Answered
      <4>2. pc' \in [Requests -> Places] /\ resp' \in [Requests -> Answered]
        BY <1>0, <2>8, <4>1 DEF RequestTypes, Places, Holding
      <4> QED
        BY <1>0, <1>2, <2>8, <4>2 DEF RequestTypes, NoResponse
    <3>2. PlaceInv'
      BY <1>0, <1>1, <1>2, <2>6, <2>8, <3>1, PlacesKept, NoneApart DEF PlaceInv, IsCanonical
    <3>3. Holders'
      BY <1>0, <1>1, <1>2, <2>8, <3>1 DEF Holders, Holding
    <3> QED
      BY <1>1, <1>3, <2>3, <2>4, <2>5, <2>8, <3>1, <3>2, <3>3 DEF LimiterInv
  <2> QED
    BY <1>5, <2>1, <2>7, <2>8 DEF Release, Unlock
<1>6. CASE resp[p].hash = None
  <2>1. /\ holder' = [holder EXCEPT ![o] = None] /\ pc' = [pc EXCEPT ![p] = "decide"]
        /\ UNCHANGED <<buckets, bucketHashes, bucket, resp>>
    BY <1>6 DEF Release, Unlock
  <2>2. RequestTypes' /\ \A q \in Requests : pc'[q] = IF q = p THEN "decide" ELSE pc[q]
    BY <1>0, <1>2, <2>1 DEF RequestTypes, Places, Holding
  <2>3. PlaceInv'
    BY <1>0, <1>1, <1>2, <1>6, <2>1, <2>2, PlacesKept DEF PlaceInv
  <2>4. holder' \in [Objects -> Requests \cup {None}]
        /\ \A o2 \in Objects : holder'[o2] = IF o2 = o THEN None ELSE holder[o2]
    BY <2>1 DEF LimiterInv
  <2>5. Holders'
    BY <1>1, <1>2, <1>4, <2>2, <2>4, HoldersKept, NoneApart DEF Holding
  <2>6. MapTypes' /\ Referred'
    BY <1>0, <1>2, <2>1 DEF MapTypes, Referred, LimiterInv
  <2> QED
    BY <1>1, <1>3, <2>1, <2>2, <2>3, <2>4, <2>5, <2>6 DEF LimiterInv
<1> QED
  BY <1>5, <1>6


(* Copy, in the critical section of the canonical bucket.                           *)
LEMMA CopyKeeps ==
  ASSUME LimiterInv, NEW p \in Requests, Copy(p)
  PROVE  LimiterInv'
<1> DEFINE o == obj[p]
           c == resp[p].canonical
<1>0. RequestTypes /\ MapTypes /\ ServerTypes /\ Holders /\ PlaceInv /\ resp[p] \in Answered
  BY DEF LimiterInv, RequestTypes
<1>1. pc[p] = "copy" /\ o \in Objects /\ c \in Objects /\ c # o
  BY <1>0 DEF PlaceInv, Copy, RequestTypes, Answered
<1>2. /\ UNCHANGED <<buckets, bucketHashes, invalid, obj, route, retries, hashOf, moves, accepted>>
      /\ bucket' = [bucket EXCEPT ![c].remaining = bucket[o].remaining, ![c].reset = bucket[o].reset]
      /\ holder' = [holder EXCEPT ![o] = None] /\ pc' = [pc EXCEPT ![p] = "decide"]
      /\ resp' = [resp EXCEPT ![p].canonical = 0]
      /\ by' = [h \in Hashes |-> IF by[h] = c THEN Several ELSE by[h]]
  BY DEF Copy, limiterVars, Unlock
<1> HIDE DEF c
<1>3. bucket' \in [Objects -> Buckets] /\ \A o2 \in Objects : bucket'[o2].route = bucket[o2].route
  <2>1. bucket[o] \in Buckets /\ bucket[c] \in Buckets
    BY <1>1 DEF LimiterInv
  <2>2. bucket[o].remaining \in Nat /\ bucket[o].reset \in Resets
    BY <2>1 DEF Buckets
  <2>3. \A o2 \in Objects : bucket'[o2] \in Buckets /\ bucket'[o2].route = bucket[o2].route
    BY <1>1, <1>2, <2>1, <2>2 DEF LimiterInv, Buckets
  <2> QED
    BY <1>2, <2>3 DEF LimiterInv
<1>4. /\ RequestTypes'
      /\ \A q \in Requests : pc'[q] = IF q = p THEN "decide" ELSE pc[q]
      /\ \A q \in Requests : q # p => resp'[q] = resp[q]
      /\ resp'[p].hash = resp[p].hash /\ resp'[p].canonical = 0
  BY <1>0, <1>2 DEF RequestTypes, Answered, Places, Holding
<1>5. PlaceInv'
  BY <1>0, <1>1, <1>2, <1>4, PlacesKept DEF PlaceInv
<1>6. holder' \in [Objects -> Requests \cup {None}]
      /\ \A o2 \in Objects : holder'[o2] = IF o2 = o THEN None ELSE holder[o2]
  BY <1>2 DEF LimiterInv
<1>7. \A o2 \in Objects : holder[o2] = p <=> o2 = o
  BY <1>0, <1>1 DEF Holders, Holding
<1>8. Holders'
  BY <1>1, <1>2, <1>4, <1>6, <1>7, HoldersKept, NoneApart DEF Holding
<1>9. Referred'
  BY <1>0, <1>2, <1>3, ReferredKept DEF RequestTypes
<1>10. MapTypes' /\ ServerTypes' /\ invalid' \in Nat
  <2>1. by' \in [Hashes -> Objects \cup {0, Several}]
    BY <1>0, <1>2 DEF ServerTypes
  <2> QED
    BY <1>0, <1>2, <2>1 DEF MapTypes, ServerTypes, LimiterInv
<1> QED
  BY <1>3, <1>4, <1>5, <1>6, <1>8, <1>9, <1>10 DEF LimiterInv

(* A request that has released its bucket is retried or ends.                        *)
LEMMA EndKeeps ==
  ASSUME LimiterInv, NEW p \in Requests, pc[p] \in {"decide", "backoff"}, Ends(p),
         UNCHANGED <<buckets, bucketHashes, bucketVars, serverVars>>, invalid' \in Nat
  PROVE  LimiterInv'
<1>1. /\ RequestTypes'
      /\ \A q \in Requests : q # p => /\ pc'[q] = pc[q] /\ obj'[q] = obj[q] /\ route'[q] = route[q]
                                      /\ retries'[q] = retries[q] /\ resp'[q] = resp[q]
      /\ pc'[p] = "idle" /\ obj'[p] = 0 /\ retries'[p] = 0 /\ resp'[p] = NoResponse
  BY EndsRequest DEF LimiterInv
<1>2. PlaceInv'
  BY <1>1, PlacesKept, NoneApart
<1>3. bucket' = bucket /\ holder' = holder
  BY DEF bucketVars
<1>4. Holders'
  <2>1. \A o \in Objects : holder[o] # p
    BY DEF LimiterInv, Holders, Holding
  <2> QED
    BY <1>1, <1>3, <2>1, HoldersKept DEF Holding
<1>5. Referred'
  BY <1>1, <1>3, ReferredKept DEF RequestTypes
<1>6. MapTypes' /\ ServerTypes'
  BY DEF MapTypes, ServerTypes, LimiterInv, serverVars
<1> QED
  BY <1>1, <1>2, <1>3, <1>4, <1>5, <1>6 DEF LimiterInv

LEMMA DecideKeeps ==
  ASSUME LimiterInv, NEW p \in Requests, Decide(p)
  PROVE  LimiterInv'
<1>1. invalid' \in Nat /\ pc[p] = "decide"
  BY DEF LimiterInv, Decide
<1>2. CASE Ends(p)
  BY <1>1, <1>2, EndKeeps DEF Decide
<1>3. CASE ~Ends(p)
  <2>1. /\ pc' = [pc EXCEPT ![p] = "backoff"] /\ resp' = [resp EXCEPT ![p] = NoResponse]
        /\ UNCHANGED <<buckets, bucketHashes, bucket, holder, obj, route, retries,
                       hashOf, moves, accepted, by>>
    BY <1>3 DEF Decide, bucketVars, serverVars
  <2>2. /\ RequestTypes'
        /\ \A q \in Requests : pc'[q] = IF q = p THEN "backoff" ELSE pc[q]
        /\ \A q \in Requests : resp'[q] = IF q = p THEN NoResponse ELSE resp[q]
    BY <2>1, NoneApart DEF LimiterInv, RequestTypes, Places
  <2>3. PlaceInv'
    BY <1>1, <2>1, <2>2, PlacesKept, NoneApart DEF LimiterInv, PlaceInv
  <2>4. Holders'
    BY <1>1, <2>1, <2>2 DEF LimiterInv, Holders, Holding
  <2>5. MapTypes' /\ ServerTypes' /\ Referred'
    BY <2>1 DEF MapTypes, ServerTypes, Referred, LimiterInv
  <2> QED
    BY <1>1, <2>1, <2>2, <2>3, <2>4, <2>5 DEF LimiterInv
<1> QED
  BY <1>2, <1>3

(* LockBucketRouteContext, of a new request and of a retry.                          *)
LEMMA BeginKeeps ==
  ASSUME LimiterInv, NEW p \in Requests, NEW r \in Routes, Begin(p, r)
  PROVE  LimiterInv'
<1>1. PICK o \in Objects : obj' = [obj EXCEPT ![p] = o]
  BY LookupStep DEF Begin
<1>2. /\ pc[p] = "idle" /\ Lookup(p, r) /\ pc' = [pc EXCEPT ![p] = "lock"]
      /\ route' = [route EXCEPT ![p] = r]
      /\ UNCHANGED <<invalid, holder, retries, resp, hashOf, moves, accepted>>
  BY DEF Begin
<1>3. RequestTypes' /\ route'[p] = r /\ \A q \in Requests : q # p => route'[q] = route[q]
  BY <1>1, <1>2 DEF LimiterInv, RequestTypes, Places
<1> QED
  BY <1>2, <1>3, LookupKeeps

LEMMA RelockKeeps ==
  ASSUME LimiterInv, NEW p \in Requests, Relock(p)
  PROVE  LimiterInv'
<1>1. pc[p] = "backoff" /\ UNCHANGED <<invalid, holder, hashOf, moves, accepted>>
  BY DEF Relock
<1>2. CASE Ends(p) /\ UNCHANGED <<buckets, bucketHashes, bucket, by>>
  BY <1>1, <1>2, EndKeeps DEF bucketVars, serverVars, LimiterInv
<1>3. CASE /\ Lookup(p, bucket[obj[p]].route) /\ pc' = [pc EXCEPT ![p] = "lock"]
           /\ retries' = [retries EXCEPT ![p] = @ + 1] /\ UNCHANGED <<route, resp>>
  <2>1. PICK r \in Routes : r = bucket[obj[p]].route
    BY <1>1 DEF LimiterInv, PlaceInv, Referred
  <2>2. Lookup(p, r) /\ route[p] \in Routes
    BY <1>1, <1>3, <2>1 DEF LimiterInv, PlaceInv
  <2>3. PICK o \in Objects : obj' = [obj EXCEPT ![p] = o]
    BY <1>1, <2>2, LookupStep
  <2>4. RequestTypes' /\ \A q \in Requests : q # p => retries'[q] = retries[q]
    BY <1>3, <2>3 DEF LimiterInv, RequestTypes, Places
  <2> QED
    BY <1>1, <1>3, <2>2, <2>4, LookupKeeps
<1> QED
  BY <1>2, <1>3 DEF Relock

LEMMA LimiterStep == LimiterInv /\ [Next]_vars => LimiterInv'
<1> SUFFICES ASSUME LimiterInv, [Next]_vars PROVE LimiterInv'
  OBVIOUS
<1>1. ASSUME NEW p \in Requests, NEW r \in Routes, Begin(p, r) PROVE LimiterInv'
  BY <1>1, BeginKeeps
<1>2. ASSUME NEW p \in Requests,
             Lock(p) \/ CancelWait(p) \/ Send(p) \/ Refuse(p) \/ Release(p) \/ Copy(p) \/ Decide(p)
                \/ Relock(p)
      PROVE  LimiterInv'
  BY <1>2, DepartureKeeps, ReleaseKeeps, CopyKeeps, DecideKeeps, RelockKeeps
<1>3. ASSUME NEW p \in Requests, Accepts(p) \/ Rejects(p) \/ Fails(p) PROVE LimiterInv'
  BY <1>3, AnswerKeeps
<1>4. ASSUME NEW h \in Hashes, WindowEnds(h) PROVE LimiterInv'
  BY <1>4, WindowKeeps
<1>5. ASSUME UNCHANGED <<buckets, bucketHashes, bucketVars, requestVars, accepted, by>>,
             invalid' \in Nat, moves' \in Nat, hashOf' \in [Routes -> Hashes]
      PROVE  LimiterInv'
  BY <1>5 DEF LimiterInv, MapTypes, RequestTypes, ServerTypes, PlaceInv, Holders, Referred,
              bucketVars, requestVars
<1>6. CASE InvalidLeaves \/ UNCHANGED vars \/ \E h \in Hashes, r \in Routes : Move(r, h)
  BY <1>5, <1>6
     DEF InvalidLeaves, Move, vars, limiterVars, serverVars, LimiterInv, ServerTypes
<1> QED
  BY <1>1, <1>2, <1>3, <1>4, <1>6 DEF Next, ClientNext, ServerNext

LEMMA LimiterInit == Init => LimiterInv
<1> SUFFICES ASSUME Init PROVE LimiterInv
  OBVIOUS
<1>1. DOMAIN buckets = {} /\ DOMAIN bucketHashes = {}
  BY DEF Init
<1>2. MapTypes
  BY <1>1, FS_EmptySet, RateLimiterAssumption DEF MapTypes
<1>3. RequestTypes
  BY NoneApart DEF Init, RequestTypes, Places
<1>4. ServerTypes
  BY RateLimiterAssumption DEF Init, ServerTypes
<1>5. PlaceInv /\ Holders /\ Referred
  BY <1>1, NoneApart DEF Init, PlaceInv, Holders, Holding, Referred
<1>6. invalid \in Nat /\ bucket \in [Objects -> Buckets] /\ holder \in [Objects -> Requests \cup {None}]
  BY DEF Init, NewBucket, Buckets, Resets
<1> QED
  BY <1>2, <1>3, <1>4, <1>5, <1>6 DEF LimiterInv

LEMMA LimiterInvariant == Spec => []LimiterInv
  BY LimiterInit, LimiterStep, PTL DEF Spec

(* Whatever requests, evictions and changes of hash interleave, every mapping leads to a  *)
(* bucket, there are never more than MaxBuckets of them, and a request has the mutex of    *)
(* its own bucket, from LockBucketObjectContext to Release, and no other's.               *)
THEOREM TypeCorrect == Spec => []TypeOK
<1>1. LimiterInv => TypeOK
  BY DEF LimiterInv, MapTypes, Holders, Holding, TypeOK
<1> QED
  BY <1>1, LimiterInvariant, PTL

-----------------------------------------------------------------------------
(* The breaker.                                                              *)

LEMMA RequestsCount ==
  /\ Cardinality(Requests) \in Nat /\ InvalidRequestLimit \in Nat \ {0}
  /\ \A S \in SUBSET Requests : /\ IsFiniteSet(S) /\ Cardinality(S) \in Nat
                                /\ Cardinality(S) <= Cardinality(Requests)
<1>1. IsFiniteSet(Requests) /\ InvalidRequestLimit \in Nat \ {0}
  BY RateLimiterAssumption
<1>2. Cardinality(Requests) \in Nat
  BY <1>1, FS_CardinalityType
<1>3. ASSUME NEW S \in SUBSET Requests
      PROVE  IsFiniteSet(S) /\ Cardinality(S) \in Nat /\ Cardinality(S) <= Cardinality(Requests)
  <2>1. IsFiniteSet(S) /\ Cardinality(S) <= Cardinality(Requests)
    BY <1>1, FS_Subset
  <2> QED
    BY <2>1, FS_CardinalityType
<1> QED
  BY <1>1, <1>2, <1>3

(* No request passes the breaker, or it does and there is room; no invalid response is *)
(* counted, or the request that counts it has passed the breaker before.             *)
LEMMA BreakerKept ==
  ASSUME LimiterInv, invalid' \in Nat, BreakerInv,
         NEW S \in SUBSET Requests, S = {p \in Requests : Counts(p)'},
         \/ invalid' <= invalid /\ \A p \in Requests : Counts(p)' => Counts(p)
         \/ invalid' = invalid /\ ~Blocked
         \/ /\ invalid' <= invalid + 1
            /\ \E q \in Requests : Counts(q) /\ \A p \in Requests : Counts(p)' => Counts(p) /\ p # q
  PROVE  BreakerInv'
<1>1. PICK P \in SUBSET Requests : P = {p \in Requests : Counts(p)}
  OBVIOUS
<1>2. /\ invalid \in Nat /\ invalid' \in Nat
      /\ invalid + Cardinality(P) <= InvalidRequestLimit + Cardinality(Requests) - 1
      /\ Cardinality(P) \in Nat /\ IsFiniteSet(P) /\ Cardinality(S) \in Nat
      /\ Cardinality(S) <= Cardinality(Requests)
      /\ Cardinality(Requests) \in Nat /\ InvalidRequestLimit \in Nat \ {0}
  BY <1>1, RequestsCount DEF BreakerInv, LimiterInv
<1>3. invalid' + Cardinality(S) <= InvalidRequestLimit + Cardinality(Requests) - 1
  <2>1. CASE invalid' <= invalid /\ \A p \in Requests : Counts(p)' => Counts(p)
    <3>1. S \subseteq P
      BY <1>1, <2>1
    <3>2. Cardinality(S) <= Cardinality(P)
      BY <1>2, <3>1, FS_Subset
    <3> QED
      BY <1>2, <2>1, <3>2
  <2>2. CASE invalid' = invalid /\ ~Blocked
    BY <1>2, <2>2 DEF Blocked
  <2>3. CASE /\ invalid' <= invalid + 1
             /\ \E q \in Requests : Counts(q) /\ \A p \in Requests : Counts(p)' => Counts(p) /\ p # q
    <3>1. PICK q \in P : S \subseteq P \ {q}
      BY <1>1, <2>3
    <3>2. IsFiniteSet(P \ {q}) /\ Cardinality(P \ {q}) = Cardinality(P) - 1
      BY <1>2, FS_RemoveElement
    <3>3. Cardinality(S) <= Cardinality(P \ {q})
      BY <3>1, <3>2, FS_Subset
    <3> QED
      BY <1>2, <2>3, <3>2, <3>3
  <2> QED
    BY <2>1, <2>2, <2>3
<1> QED
  BY <1>3 DEF BreakerInv

LEMMA BreakerStep == LimiterInv /\ LimiterInv' /\ BreakerInv /\ [Next]_vars => BreakerInv'
<1> SUFFICES ASSUME LimiterInv, LimiterInv', BreakerInv, [Next]_vars PROVE BreakerInv'
  OBVIOUS
<1> DEFINE fewer == invalid' <= invalid /\ \A p \in Requests : Counts(p)' => Counts(p)
           room == invalid' = invalid /\ ~Blocked
           counted == /\ invalid' <= invalid + 1
                      /\ \E q \in Requests : Counts(q) /\ \A p \in Requests : Counts(p)' => Counts(p) /\ p # q
<1>0. invalid \in Nat /\ invalid' \in Nat /\ pc \in [Requests -> Places] /\ retries \in [Requests -> Nat]
  BY DEF LimiterInv, RequestTypes
<1>1. PICK S \in SUBSET Requests : S = {p \in Requests : Counts(p)'}
  OBVIOUS
<1>2. ASSUME fewer \/ room \/ counted PROVE BreakerInv'
  BY <1>0, <1>1, <1>2, BreakerKept
<1>3. ASSUME NEW p \in Requests, NEW r \in Routes, Begin(p, r) PROVE fewer
  <2>1. /\ pc[p] = "idle" /\ pc' = [pc EXCEPT ![p] = "lock"] /\ retries' = retries /\ invalid' = invalid
        /\ retries[p] = 0
    BY <1>3 DEF Begin, LimiterInv, PlaceInv
  <2> QED
    BY <1>0, <2>1 DEF Counts
<1>4. ASSUME NEW p \in Requests, Lock(p) \/ CancelWait(p) \/ Refuse(p) \/ Release(p) \/ Copy(p)
      PROVE  fewer
  BY <1>0, <1>4
     DEF Lock, CancelWait, Refuse, Release, Copy, Ends, limiterVars, Counts, LimiterInv, RequestTypes
<1>5. ASSUME NEW p \in Requests, Send(p) PROVE fewer \/ room
  <2>1. pc[p] = "wait" /\ pc' = [pc EXCEPT ![p] = "sent"] /\ retries' = retries /\ invalid' = invalid
    BY <1>5 DEF Send, limiterVars
  <2>2. CASE retries[p] = 0
    BY <1>5, <2>1, <2>2 DEF Send
  <2>3. CASE retries[p] > 0
    BY <1>0, <2>1, <2>3 DEF Counts
  <2> QED
    BY <1>0, <2>2, <2>3
<1>6. ASSUME NEW p \in Requests, Decide(p) PROVE counted
  <2>1. pc[p] = "decide" /\ invalid' <= invalid + 1
    BY <1>0, <1>6 DEF Decide
  <2>2. /\ \A q \in Requests : q # p => pc'[q] = pc[q] /\ retries'[q] = retries[q]
        /\ pc'[p] \in {"backoff", "idle"}
    BY <1>0, <1>6 DEF Decide, Ends
  <2> QED
    BY <2>1, <2>2 DEF Counts
<1>7. ASSUME NEW p \in Requests, Relock(p) PROVE fewer \/ room
  BY <1>0, <1>7 DEF Relock, Ends, Counts
<1>8. ASSUME NEW p \in Requests, Accepts(p) \/ Rejects(p) \/ Fails(p) PROVE fewer
  <2>1. /\ \A q \in Requests : pc'[q] = IF q = p THEN "answered" ELSE pc[q]
        /\ pc[p] = "sent"
    BY <1>8, AnswerKeeps
  <2>2. retries' = retries /\ invalid' = invalid
    BY <1>8 DEF Accepts, Rejects, Fails, Answers, limiterVars
  <2> QED
    BY <1>0, <2>1, <2>2 DEF Counts
<1>9. ASSUME UNCHANGED <<pc, retries>>, invalid' <= invalid PROVE fewer
  BY <1>9 DEF Counts
<1>10. CASE InvalidLeaves \/ UNCHANGED vars \/ \E h \in Hashes : WindowEnds(h) \/ \E r \in Routes : Move(r, h)
  BY <1>0, <1>2, <1>9, <1>10
     DEF InvalidLeaves, WindowEnds, Move, vars, limiterVars, requestVars
<1> HIDE DEF fewer, room, counted
<1>11. ASSUME NEW p \in Requests,
              (\E r \in Routes : Begin(p, r)) \/ Lock(p) \/ CancelWait(p) \/ Send(p) \/ Refuse(p)
                 \/ Release(p) \/ Copy(p) \/ Decide(p) \/ Relock(p) \/ Accepts(p) \/ Rejects(p) \/ Fails(p)
       PROVE  BreakerInv'
  BY <1>2, <1>3, <1>4, <1>5, <1>6, <1>7, <1>8, <1>11
<1> QED
  BY <1>10, <1>11 DEF Next, ClientNext, ServerNext

(* "Requests are blocked until the rolling invalid-request window has room again": however *)
(* many requests wait, are under way or are retried when the limit is reached, each adds    *)
(* at most one invalid response beyond it.                                             *)
THEOREM BreakerBounded == Spec => []BreakerOvershoot
<1>1. Init => BreakerInv
  <2> SUFFICES ASSUME Init PROVE BreakerInv
    OBVIOUS
  <2>1. {p \in Requests : Counts(p)} = {}
    BY DEF Init, Counts
  <2>2. invalid = 0 /\ Cardinality({}) = 0
    BY FS_EmptySet DEF Init
  <2> QED
    BY <2>1, <2>2, RequestsCount DEF BreakerInv
<1>2. LimiterInv /\ BreakerInv => BreakerOvershoot
  <2> SUFFICES ASSUME LimiterInv, BreakerInv PROVE BreakerOvershoot
    OBVIOUS
  <2>1. Cardinality({p \in Requests : Counts(p)}) \in Nat /\ invalid \in Nat
    BY RequestsCount DEF LimiterInv
  <2> QED
    BY <2>1, RequestsCount DEF BreakerInv, BreakerOvershoot
<1> QED
  BY <1>1, <1>2, BreakerStep, LimiterInvariant, PTL DEF Spec

-----------------------------------------------------------------------------
(* Requests that lock each other out.                                        *)

LEMMA AwaitsValue ==
  ASSUME NEW p
  PROVE  /\ pc[p] = "lock" => Awaits(p) = obj[p]
         /\ pc[p] = "copy" => Awaits(p) = resp[p].canonical
         /\ pc[p] \notin {"lock", "copy"} => Awaits(p) = 0
         /\ pc'[p] = "lock" => Awaits(p)' = obj'[p]
         /\ pc'[p] = "copy" => Awaits(p)' = resp'[p].canonical
         /\ pc'[p] \notin {"lock", "copy"} => Awaits(p)' = 0
  BY DEF Awaits

(* A step locks nobody out in which every request waits for the bucket it waited for, held *)
(* as before, or for one whose holder waits for nothing.                               *)
LEMMA NoNewCycle ==
  ASSUME ~LockedOut,
         \A p \in Requests : Awaits(p)' # 0 =>
            \/ Awaits(p)' = Awaits(p) /\ holder'[Awaits(p)'] = holder[Awaits(p)']
            \/ \A q \in Requests : holder'[Awaits(p)'] = q => Awaits(q)' = 0
  PROVE  ~LockedOut'
<1> SUFFICES ASSUME LockedOut' PROVE FALSE
  OBVIOUS
<1>1. PICK S \in (SUBSET Requests) \ {{}} :
         \A p \in S : Awaits(p)' # 0 /\ holder'[Awaits(p)'] \in S
  BY DEF LockedOut
<1>2. ASSUME NEW p \in S PROVE Awaits(p) # 0 /\ holder[Awaits(p)] \in S
  <2>1. PICK q \in S : holder'[Awaits(p)'] = q
    BY <1>1
  <2>2. Awaits(q)' # 0 /\ Awaits(p)' # 0 /\ p \in Requests /\ q \in Requests
    BY <1>1
  <2>3. Awaits(p)' = Awaits(p) /\ holder'[Awaits(p)'] = holder[Awaits(p)']
    BY <2>1, <2>2
  <2> QED
    BY <2>1, <2>2, <2>3
<1> QED
  BY <1>1, <1>2 DEF LockedOut

(* A request that holds nothing begins to wait.                                        *)
LEMMA WaiterLocksNobody ==
  ASSUME ~LockedOut, NEW p \in Requests, holder' = holder,
         \A q \in Requests : Awaits(q)' # 0 => holder[Awaits(q)'] # p,
         \A q \in Requests : q # p => Awaits(q)' = Awaits(q)
  PROVE  ~LockedOut'
<1> SUFFICES ASSUME LockedOut' PROVE FALSE
  OBVIOUS
<1>1. PICK S \in (SUBSET Requests) \ {{}} :
         \A q \in S : Awaits(q)' # 0 /\ holder'[Awaits(q)'] \in S
  BY DEF LockedOut
<1>2. PICK T : T = S \ {p}
  OBVIOUS
<1>3. T \in (SUBSET Requests) \ {{}}
  <2>1. S # {}
    BY <1>1
  <2>2. PICK q \in S : holder[Awaits(q)'] \in S /\ holder[Awaits(q)'] # p
    BY <1>1, <2>1
  <2> QED
    BY <1>1, <1>2, <2>2
<1>4. ASSUME NEW q \in T PROVE Awaits(q) # 0 /\ holder[Awaits(q)] \in T
  <2>1. q \in S /\ q # p /\ q \in Requests
    BY <1>1, <1>2
  <2>2. Awaits(q)' # 0 /\ holder[Awaits(q)'] \in S /\ holder[Awaits(q)'] # p /\ Awaits(q)' = Awaits(q)
    BY <1>1, <2>1
  <2> QED
    BY <1>2, <2>2
<1> QED
  BY <1>3, <1>4 DEF LockedOut

(* Nothing moves but requests on their way.                                          *)
LEMMA FirstHashesKept ==
  ASSUME LimiterInv, FirstHashes, CopierApart, obj' \in [Requests -> Objects \cup {0}],
         UNCHANGED <<hashOf, buckets, bucketHashes>>,
         \A o \in Objects : bucket'[o].route = bucket[o].route,
         \A q \in Requests : obj'[q] # 0 => obj'[q] = obj[q] /\ route'[q] = route[q],
         \A q \in Requests : resp'[q].hash # None =>
            \/ resp'[q].hash = resp[q].hash /\ route'[q] = route[q]
            \/ resp'[q].hash = hashOf[route'[q]],
         \A q \in Requests : pc'[q] = "copy" => pc[q] = "copy" /\ obj'[q] = obj[q]
  PROVE  FirstHashes' /\ CopierApart'
<1>1. \A k \in DOMAIN buckets : buckets[k] \in Objects
  BY DEF LimiterInv, MapTypes
<1>2. \A q \in Requests : obj'[q] # 0 => /\ obj'[q] \in Objects
                                         /\ FirstHash[bucket[obj'[q]].route] = FirstHash[route'[q]]
  BY DEF FirstHashes
<1>3. \A q \in Requests : obj'[q] # 0 => FirstHash[bucket'[obj'[q]].route] = FirstHash[route'[q]]
  BY <1>2
<1>4. \A q \in Requests : resp'[q].hash # None => resp'[q].hash = FirstHash[route'[q]]
  BY DEF FirstHashes
<1>5. \A k \in DOMAIN buckets : bucket'[buckets[k]].route = bucket[buckets[k]].route
  BY <1>1
<1>6. FirstHashes'
  BY <1>3, <1>4, <1>5 DEF FirstHashes
<1>7. CopierApart'
  BY DEF CopierApart
<1> QED
  BY <1>6, <1>7

(* A request gets the bucket of a route with the hash of its own.                       *)
LEMMA LookupFirstHashes ==
  ASSUME LimiterInv, FirstHashes, CopierApart, ~LockedOut, NEW p \in Requests,
         pc[p] \in {"idle", "backoff"}, NEW r \in Routes, Lookup(p, r),
         UNCHANGED <<holder, hashOf, resp>>, pc' = [pc EXCEPT ![p] = "lock"],
         \A q \in Requests : q # p => route'[q] = route[q],
         FirstHash[route'[p]] = FirstHash[r]
  PROVE  FirstHashes' /\ CopierApart' /\ ~LockedOut'
<1>1. PICK o \in Objects :
         /\ obj' = [obj EXCEPT ![p] = o]
         /\ MapTypes'
         /\ \/ /\ bucket' = bucket /\ by' = by
               /\ \E k \in DOMAIN buckets :
                     /\ buckets[k] = o
                     /\ k = r \/ (r \in DOMAIN bucketHashes /\ k = bucketHashes[r])
            \/ /\ Free(o) /\ bucket' = [bucket EXCEPT ![o] = NewBucket(r)]
               /\ by' = [h \in Hashes |-> IF by[h] = o THEN Several ELSE by[h]]
         /\ \A k \in DOMAIN buckets' :
               \/ k \in DOMAIN buckets /\ buckets'[k] = buckets[k]
               \/ k = r /\ buckets'[k] = o /\ Free(o)
         /\ \A q \in DOMAIN bucketHashes' :
               q \in DOMAIN bucketHashes /\ bucketHashes'[q] = bucketHashes[q]
  BY LookupStep
<1>2. /\ \A q \in Requests : /\ obj'[q] = IF q = p THEN o ELSE obj[q]
                             /\ pc'[q] = IF q = p THEN "lock" ELSE pc[q]
      /\ o # 0 /\ resp[p].hash = None
  BY <1>1, NoneApart DEF LimiterInv, RequestTypes, PlaceInv
<1>3. r \notin Hashes /\ MapTypes
  BY RateLimiterAssumption DEF LimiterInv
<1>4. bucket'[o].route \in Routes /\ FirstHash[bucket'[o].route] = FirstHash[r]
      /\ (Free(o) => bucket' = bucket \/ bucket'[o].route = r)
  <2>1. CASE Free(o) /\ bucket' = [bucket EXCEPT ![o] = NewBucket(r)]
    BY <2>1 DEF LimiterInv, NewBucket
  <2>2. CASE /\ bucket' = bucket
             /\ \E k \in DOMAIN buckets :
                   /\ buckets[k] = o
                   /\ k = r \/ (r \in DOMAIN bucketHashes /\ k = bucketHashes[r])
    <3>1. PICK k \in DOMAIN buckets :
             /\ buckets[k] = o
             /\ k = r \/ (r \in DOMAIN bucketHashes /\ k = bucketHashes[r])
      BY <2>2
    <3>2. bucket[o].route \in Routes
      BY <3>1 DEF LimiterInv, Referred
    <3>3. CASE k = r
      BY <2>2, <3>1, <3>2, <3>3 DEF FirstHashes
    <3>4. CASE r \in DOMAIN bucketHashes /\ k = bucketHashes[r]
      <4>1. k \in Hashes /\ k = FirstHash[r]
        BY <1>3, <3>4 DEF MapTypes, FirstHashes
      <4> QED
        BY <2>2, <3>1, <3>2, <4>1 DEF FirstHashes
    <3> QED
      BY <3>1, <3>3, <3>4
  <2> QED
    BY <1>1, <2>1, <2>2
<1>5. \A o2 \in Objects : \/ bucket'[o2] = bucket[o2]
                          \/ o2 = o /\ Free(o) /\ bucket'[o] = NewBucket(r)
  BY <1>1 DEF LimiterInv
<1>6. FirstHashes'
  <2>1. \A q \in DOMAIN bucketHashes' : bucketHashes'[q] = FirstHash[q]
    BY <1>1 DEF FirstHashes
  <2>2. ASSUME NEW k \in DOMAIN buckets', k \in DOMAIN buckets, buckets'[k] = buckets[k]
        PROVE  bucket'[buckets'[k]] = bucket[buckets[k]]
    <3>1. buckets[k] \in Objects /\ (Free(o) => buckets[k] # o)
      BY <1>3, <2>2 DEF MapTypes, Free
    <3> QED
      BY <1>5, <2>2, <3>1
  <2>3. \A k \in DOMAIN buckets' \cap Hashes : FirstHash[bucket'[buckets'[k]].route] = k
    BY <1>1, <1>3, <2>2 DEF FirstHashes
  <2>4. ASSUME NEW k \in DOMAIN buckets' \cap Routes PROVE bucket'[buckets'[k]].route = k
    <3>1. CASE k \in DOMAIN buckets /\ buckets'[k] = buckets[k]
      BY <2>2, <3>1 DEF FirstHashes
    <3>2. CASE k = r /\ buckets'[k] = o /\ Free(o) /\ bucket'[o].route = r
      BY <3>2
    <3>3. CASE bucket' = bucket /\ Free(o)
      <4>1. \A j \in DOMAIN buckets : buckets[j] # o
        BY <3>3 DEF Free
      <4>2. bucket' = [bucket EXCEPT ![o] = NewBucket(r)]
        BY <1>1, <4>1
      <4>3. bucket'[o].route = r
        BY <4>2 DEF LimiterInv, NewBucket
      <4> QED
        BY <1>1, <3>1, <3>2, <3>3, <4>3
    <3> QED
      BY <1>1, <1>4, <3>1, <3>2, <3>3
  <2>5. ASSUME NEW q \in Requests, obj'[q] # 0
        PROVE  FirstHash[bucket'[obj'[q]].route] = FirstHash[route'[q]]
    <3>1. CASE q = p
      BY <1>2, <1>4, <3>1
    <3>2. CASE q # p
      <4>1. obj[q] \in Objects /\ (Free(o) => obj[q] # o) /\ obj'[q] = obj[q] /\ route'[q] = route[q]
        BY <1>2, <2>5, <3>2 DEF LimiterInv, RequestTypes, Free
      <4>2. bucket'[obj[q]] = bucket[obj[q]]
        BY <1>5, <4>1
      <4>3. obj[q] # 0
        BY <2>5, <4>1
      <4> QED
        BY <4>1, <4>2, <4>3 DEF FirstHashes
    <3> QED
      BY <3>1, <3>2
  <2>6. \A q \in Requests : resp'[q].hash # None => resp'[q].hash = FirstHash[route'[q]]
    BY <1>2 DEF FirstHashes
  <2> QED
    BY <2>1, <2>3, <2>4, <2>5, <2>6 DEF FirstHashes
<1>7. CopierApart'
  BY <1>1, <1>2, <1>3 DEF CopierApart
<1>8. ~LockedOut'
  <2>1. \A q \in Requests : q # p => Awaits(q)' = Awaits(q)
    BY <1>2 DEF Awaits
  <2>2. ASSUME NEW q \in Requests, Awaits(q)' # 0 PROVE holder[Awaits(q)'] # p
    <3>1. Awaits(q)' \in Objects
      <4>1. q # p => obj[q] \in Objects \cup {0} /\ resp[q].canonical \in Objects \cup {0}
        BY DEF LimiterInv, RequestTypes, Answered
      <4> QED
        BY <1>2, <2>2, <4>1, AwaitsValue
    <3> QED
      BY <3>1 DEF LimiterInv, Holders, Holding
  <2> QED
    BY <2>1, <2>2, WaiterLocksNobody
<1> QED
  BY <1>6, <1>7, <1>8


(* A request that waits for nothing afterwards takes or gives back a bucket.               *)
LEMMA FreeOfLocks ==
  ASSUME LimiterInv, ~LockedOut, NEW p \in Requests, pc'[p] \notin {"lock", "copy"},
         \A q \in Requests : q # p => /\ pc'[q] = pc[q] /\ obj'[q] = obj[q]
                                      /\ resp'[q].canonical = resp[q].canonical,
         \A o \in Objects : holder'[o] \in {holder[o], None, p}
  PROVE  ~LockedOut'
<1>1. \A q \in Requests : q # p => Awaits(q)' = Awaits(q)
  BY DEF Awaits
<1>2. Awaits(p)' = 0
  BY DEF Awaits
<1>3. ASSUME NEW q \in Requests, Awaits(q)' # 0
      PROVE  \/ Awaits(q)' = Awaits(q) /\ holder'[Awaits(q)'] = holder[Awaits(q)']
             \/ \A q2 \in Requests : holder'[Awaits(q)'] = q2 => Awaits(q2)' = 0
  <2>1. q # p /\ Awaits(q)' = Awaits(q)
    BY <1>1, <1>2, <1>3
  <2>2. Awaits(q)' \in Objects
    <3>1. obj[q] \in Objects \cup {0} /\ resp[q].canonical \in Objects \cup {0}
      BY DEF LimiterInv, RequestTypes, Answered
    <3> QED
      BY <1>3, <2>1, <3>1, AwaitsValue
  <2> QED
    BY <1>2, <2>1, <2>2, NoneApart
<1> QED
  BY <1>3, NoNewCycle

(* Release: a bucket gets the key of the hash of its route, and a request waits to copy *)
(* only into a bucket with the key of a hash, whose holder does not wait to copy.          *)
LEMMA ReleaseFirstHashes ==
  ASSUME LimiterInv, FirstHashes, CopierApart, ~LockedOut, NEW p \in Requests, Release(p)
  PROVE  FirstHashes' /\ CopierApart' /\ ~LockedOut'
<1> DEFINE o == obj[p]
<1>1. /\ LimiterInv' /\ pc[p] = "answered" /\ o \in Objects /\ bucket[o].route \in Routes
      /\ \A o2 \in Objects : bucket'[o2].route = bucket[o2].route
  BY ReleaseKeeps
<1>2. UNCHANGED <<obj, route, hashOf>> /\ RequestTypes /\ MapTypes /\ PlaceInv /\ Holders
  BY DEF Release, serverVars, LimiterInv
<1>3. CASE resp[p].hash # None
  <2>1. PICK h \in Hashes : h = resp[p].hash
    BY <1>2, <1>3 DEF RequestTypes, Answered
  <2>2. h = FirstHash[bucket[o].route] /\ h \notin Routes
    BY <1>1, <1>3, <2>1, NoneApart, RateLimiterAssumption DEF FirstHashes
  <2>3. Register(o, h)
    BY <1>3, <2>1 DEF Release
  <2>4. /\ \A k \in DOMAIN buckets' :
              \/ k \in DOMAIN buckets /\ buckets'[k] = buckets[k]
              \/ k = h /\ buckets'[k] = o
        /\ \A q \in DOMAIN bucketHashes' :
              \/ q \in DOMAIN bucketHashes /\ bucketHashes'[q] = bucketHashes[q]
              \/ q = bucket[o].route /\ bucketHashes'[q] = h
        /\ h \in DOMAIN buckets' /\ buckets'[h] = Canonical(o, h)
    BY <1>1, <2>3, RegisterStep
  <2>5. /\ \A q \in Requests : q # p => pc'[q] = pc[q] /\ resp'[q] = resp[q]
        /\ resp'[p].hash = None
        /\ \/ pc'[p] = "decide" /\ holder' = [holder EXCEPT ![o] = None]
           \/ /\ pc'[p] = "copy" /\ holder' = holder /\ ~IsCanonical(o, h)
              /\ resp'[p].canonical = Canonical(o, h)
    <3>1. CASE /\ pc' = [pc EXCEPT ![p] = "decide"] /\ holder' = [holder EXCEPT ![o] = None]
               /\ resp' = [resp EXCEPT ![p] = [NoResponse EXCEPT !.status = resp[p].status]]
      BY <1>2, <3>1 DEF RequestTypes, NoResponse
    <3>2. CASE /\ pc' = [pc EXCEPT ![p] = "copy"] /\ holder' = holder /\ ~IsCanonical(o, h)
               /\ resp' = [resp EXCEPT ![p] = [NoResponse EXCEPT !.status = resp[p].status,
                                                                 !.canonical = Canonical(o, h)]]
      BY <1>2, <3>2 DEF RequestTypes, NoResponse
    <3> QED
      BY <1>3, <2>1, <3>1, <3>2 DEF Release, Unlock
  <2>6. FirstHashes'
    <3>1. \A q \in DOMAIN bucketHashes' : bucketHashes'[q] = FirstHash[q]
      BY <2>2, <2>4 DEF FirstHashes
    <3>2. \A k \in DOMAIN buckets' : \/ k \in DOMAIN buckets /\ bucket'[buckets'[k]].route = bucket[buckets[k]].route
                                     \/ k = h /\ bucket'[buckets'[k]].route = bucket[o].route
      BY <1>1, <1>2, <2>4 DEF MapTypes
    <3>3. \A k \in DOMAIN buckets' \cap Hashes : FirstHash[bucket'[buckets'[k]].route] = k
      BY <2>2, <3>2 DEF FirstHashes
    <3>4. \A k \in DOMAIN buckets' \cap Routes : bucket'[buckets'[k]].route = k
      BY <2>2, <3>2 DEF FirstHashes
    <3>5. \A q \in Requests : obj[q] # 0 => obj[q] \in Objects /\ FirstHash[bucket[obj[q]].route] = FirstHash[route[q]]
      BY <1>2 DEF FirstHashes, RequestTypes
    <3>6. \A q \in Requests : resp'[q].hash # None => resp'[q].hash = FirstHash[route'[q]]
      BY <1>2, <2>5 DEF FirstHashes
    <3>7. hashOf' = FirstHash
      BY <1>2 DEF FirstHashes
    <3> QED
      BY <1>1, <1>2, <3>1, <3>3, <3>4, <3>5, <3>6, <3>7 DEF FirstHashes
  <2>7. CopierApart'
    <3> SUFFICES ASSUME NEW q \in Requests, pc'[q] = "copy", NEW k \in DOMAIN buckets' \cap Hashes,
                        buckets'[k] = obj[q]
                 PROVE  FALSE
      BY <1>2 DEF CopierApart
    <3>1. CASE q # p
      <4>1. pc[q] = "copy" /\ holder[obj[q]] = q /\ holder[o] = p
        BY <1>1, <1>2, <2>5, <3>1 DEF Holders, Holding, PlaceInv, RequestTypes
      <4> QED
        BY <2>4, <3>1, <4>1 DEF CopierApart
    <3>2. CASE q = p
      <4>1. ~IsCanonical(o, h)
        BY <2>5, <3>2
      <4>2. buckets'[h] # o
        BY <2>4, <4>1 DEF IsCanonical
      <4>3. k \in DOMAIN buckets /\ buckets[k] = o
        BY <2>4, <3>2, <4>2
      <4>4. k = h
        BY <2>2, <4>3 DEF FirstHashes
      <4> QED
        BY <3>2, <4>2, <4>4
    <3> QED
      BY <3>1, <3>2
  <2>8. CASE pc'[p] = "decide" /\ holder' = [holder EXCEPT ![o] = None]
    <3>1. \A o2 \in Objects : holder'[o2] \in {holder[o2], None, p}
      BY <2>8 DEF LimiterInv
    <3>2. ~LockedOut'
      BY <1>2, <2>5, <2>8, <3>1, FreeOfLocks
    <3> QED
      BY <2>6, <2>7, <3>2
  <2>9. CASE /\ pc'[p] = "copy" /\ holder' = holder /\ ~IsCanonical(o, h)
             /\ resp'[p].canonical = Canonical(o, h)
    <3>1. h \in DOMAIN buckets /\ buckets[h] # o /\ Awaits(p)' = buckets[h]
      BY <2>9, AwaitsValue DEF IsCanonical, Canonical
    <3>2. \A q \in Requests : q # p => Awaits(q)' = Awaits(q)
      BY <1>2, <2>5 DEF Awaits
    <3>3. ASSUME NEW q \in Requests, holder'[buckets[h]] = q PROVE Awaits(q)' = 0
      <4>1. obj[q] = buckets[h] /\ pc[q] \in Holding /\ buckets[h] \in Objects
        BY <1>2, <2>9, <3>1, <3>3 DEF Holders, MapTypes
      <4>2. pc[q] # "copy"
        BY <3>1, <4>1 DEF CopierApart
      <4>3. q # p
        BY <3>1, <4>1
      <4> QED
        BY <2>5, <4>1, <4>2, <4>3, AwaitsValue DEF Holding
    <3>4. ~LockedOut'
      BY <2>9, <3>1, <3>2, <3>3, NoNewCycle
    <3> QED
      BY <2>6, <2>7, <3>4
  <2> QED
    BY <2>5, <2>8, <2>9
<1>4. CASE resp[p].hash = None
  <2>1. /\ holder' = [holder EXCEPT ![o] = None] /\ pc' = [pc EXCEPT ![p] = "decide"]
        /\ UNCHANGED <<buckets, bucketHashes, bucket, resp>>
    BY <1>4 DEF Release, Unlock
  <2>2. \A q \in Requests : pc'[q] = IF q = p THEN "decide" ELSE pc[q]
    BY <1>2, <2>1 DEF RequestTypes
  <2>3. FirstHashes' /\ CopierApart'
    BY <1>2, <2>1, <2>2, FirstHashesKept DEF RequestTypes
  <2>4. \A o2 \in Objects : holder'[o2] \in {holder[o2], None, p}
    BY <2>1 DEF LimiterInv
  <2>5. ~LockedOut'
    BY <1>2, <2>1, <2>2, <2>4, FreeOfLocks
  <2> QED
    BY <2>3, <2>5
<1> QED
  BY <1>3, <1>4


(* The other steps of a request, and the server's answers.                             *)
LEMMA OnTheWay ==
  ASSUME LimiterInv, FirstHashes, CopierApart, ~LockedOut, NEW p \in Requests,
         pc'[p] \notin {"lock", "copy"},
         \A q \in Requests : q # p => /\ pc'[q] = pc[q] /\ obj'[q] = obj[q] /\ route'[q] = route[q]
                                      /\ resp'[q] = resp[q],
         obj' \in [Requests -> Objects \cup {0}],
         obj'[p] # 0 => obj'[p] = obj[p] /\ route'[p] = route[p],
         \/ resp'[p].hash = None
         \/ /\ resp'[p].hash = resp[p].hash \/ resp'[p].hash = hashOf[route[p]]
            /\ route'[p] = route[p],
         UNCHANGED <<hashOf, buckets, bucketHashes>>,
         \A o \in Objects : bucket'[o].route = bucket[o].route,
         \A o \in Objects : holder'[o] \in {holder[o], None, p}
  PROVE  FirstHashes' /\ CopierApart' /\ ~LockedOut'
<1>1. ~LockedOut'
  BY FreeOfLocks
<1>2. \A q \in Requests : obj'[q] # 0 => obj'[q] = obj[q] /\ route'[q] = route[q]
  OBVIOUS
<1>3. \A q \in Requests : resp'[q].hash # None =>
         \/ resp'[q].hash = resp[q].hash /\ route'[q] = route[q]
         \/ resp'[q].hash = hashOf[route'[q]]
  OBVIOUS
<1>4. \A q \in Requests : pc'[q] = "copy" => pc[q] = "copy" /\ obj'[q] = obj[q]
  OBVIOUS
<1> QED
  BY <1>1, <1>2, <1>3, <1>4, FirstHashesKept

LEMMA MoveStep == LimiterInv /\ MoveInv /\ [Next]_vars => MoveInv'
<1> SUFFICES ASSUME LimiterInv, MoveInv, [Next]_vars, moves' = 0
             PROVE  FirstHashes' /\ CopierApart' /\ ~LockedOut'
  BY DEF MoveInv
<1> DEFINE apart == FirstHashes' /\ CopierApart' /\ ~LockedOut'
<1>0. moves \in Nat /\ RequestTypes /\ RequestTypes' /\ hashOf \in [Routes -> Hashes]
  BY LimiterStep DEF LimiterInv, ServerTypes
<1>1. moves = 0
  <2>1. moves' = moves \/ moves' = moves + 1
    BY DEF Next, ClientNext, ServerNext, Begin, Lock, CancelWait, Send, Refuse, Release, Copy, Decide,
           Relock, Accepts, Rejects, Fails, Answers, WindowEnds, Move, InvalidLeaves, vars, serverVars
  <2> QED
    BY <1>0, <2>1
<1>2. FirstHashes /\ CopierApart /\ ~LockedOut
  BY <1>1 DEF MoveInv
<1> HIDE DEF apart
<1>3. ASSUME NEW p \in Requests, NEW r \in Routes, Begin(p, r) PROVE apart
  <2>1. /\ pc[p] = "idle" /\ Lookup(p, r) /\ pc' = [pc EXCEPT ![p] = "lock"]
        /\ route' = [route EXCEPT ![p] = r] /\ UNCHANGED <<holder, resp, hashOf>>
    BY <1>3 DEF Begin
  <2>2. route'[p] = r /\ \A q \in Requests : q # p => route'[q] = route[q]
    BY <1>0, <2>1 DEF RequestTypes
  <2> QED
    BY <1>2, <2>1, <2>2, LookupFirstHashes DEF apart
<1>4. ASSUME NEW p \in Requests, Relock(p) PROVE apart
  <2>1. pc[p] = "backoff" /\ UNCHANGED <<holder, hashOf>> /\ obj[p] # 0
    BY <1>4 DEF Relock, LimiterInv, PlaceInv
  <2>2. CASE /\ Lookup(p, bucket[obj[p]].route) /\ pc' = [pc EXCEPT ![p] = "lock"]
             /\ UNCHANGED <<route, resp>>
    <3>1. PICK r \in Routes : r = bucket[obj[p]].route
      BY <2>1 DEF LimiterInv, Referred
    <3>2. FirstHash[route'[p]] = FirstHash[r] /\ Lookup(p, r)
      BY <1>2, <2>1, <2>2, <3>1 DEF FirstHashes
    <3>3. UNCHANGED <<holder, hashOf, resp>> /\ \A q \in Requests : q # p => route'[q] = route[q]
      BY <2>1, <2>2
    <3> QED
      BY <1>2, <2>1, <2>2, <3>2, <3>3, LookupFirstHashes DEF apart
  <2>3. CASE Ends(p) /\ UNCHANGED <<buckets, bucketHashes, bucket>>
    <3>1. pc'[p] = "idle" /\ obj'[p] = 0 /\ resp'[p].hash = None
          /\ \A q \in Requests : q # p => /\ pc'[q] = pc[q] /\ obj'[q] = obj[q] /\ route'[q] = route[q]
                                          /\ resp'[q] = resp[q]
      BY <1>0, <2>3, EndsRequest, NoneApart
    <3> QED
      BY <1>0, <1>2, <2>1, <2>3, <3>1, OnTheWay DEF apart, RequestTypes
  <2> QED
    BY <1>4, <2>2, <2>3 DEF Relock
<1>5. ASSUME NEW p \in Requests, Lock(p) \/ CancelWait(p) \/ Send(p) \/ Refuse(p) PROVE apart
  <2>1. obj[p] \in Objects /\ UNCHANGED <<buckets, bucketHashes, hashOf>>
    BY <1>5 DEF Lock, CancelWait, Send, Refuse, limiterVars, serverVars, LimiterInv, PlaceInv, RequestTypes
  <2>2. \A o \in Objects : bucket'[o].route = bucket[o].route
    <3>1. bucket' \in {bucket, [bucket EXCEPT ![obj[p]].remaining = IF @ > 0 THEN @ - 1 ELSE 0]}
      BY <1>5 DEF Lock, CancelWait, Send, Refuse
    <3> QED
      BY <2>1, <3>1 DEF LimiterInv, Buckets
  <2>3. \A o \in Objects : holder'[o] \in {holder[o], None, p}
    BY <1>5, <2>1 DEF Lock, CancelWait, Send, Refuse, Unlock, LimiterInv
  <2>4. CASE Ends(p)
    <3>1. pc'[p] = "idle" /\ obj'[p] = 0 /\ resp'[p].hash = None
          /\ \A q \in Requests : q # p => /\ pc'[q] = pc[q] /\ obj'[q] = obj[q] /\ route'[q] = route[q]
                                          /\ resp'[q] = resp[q]
      BY <1>0, <2>4, EndsRequest, NoneApart
    <3> QED
      BY <1>0, <1>2, <2>1, <2>2, <2>3, <3>1, OnTheWay DEF apart, RequestTypes
  <2>5. CASE UNCHANGED <<obj, route, resp>> /\ \E x \in {"wait", "sent"} : pc' = [pc EXCEPT ![p] = x]
    <3>1. pc'[p] \in {"wait", "sent"} /\ \A q \in Requests : q # p => pc'[q] = pc[q]
      BY <1>0, <2>5 DEF RequestTypes
    <3>2. pc'[p] \notin {"lock", "copy"}
      BY <3>1
    <3> QED
      BY <1>0, <1>2, <2>1, <2>2, <2>3, <2>5, <3>1, <3>2, OnTheWay DEF apart, RequestTypes
  <2> QED
    BY <1>5, <2>4, <2>5 DEF Lock, CancelWait, Send, Refuse
<1>6. ASSUME NEW p \in Requests, Release(p) PROVE apart
  BY <1>2, <1>6, ReleaseFirstHashes DEF apart
<1>7. ASSUME NEW p \in Requests, Copy(p) PROVE apart
  <2>1. /\ UNCHANGED <<buckets, bucketHashes, obj, route, hashOf>>
        /\ bucket' = [bucket EXCEPT ![resp[p].canonical].remaining = bucket[obj[p]].remaining,
                                    ![resp[p].canonical].reset = bucket[obj[p]].reset]
        /\ holder' = [holder EXCEPT ![obj[p]] = None] /\ pc' = [pc EXCEPT ![p] = "decide"]
        /\ resp' = [resp EXCEPT ![p].canonical = 0]
    BY <1>7 DEF Copy, limiterVars, Unlock
  <2>2. \A o \in Objects : bucket'[o].route = bucket[o].route
    <3>1. PICK c, x, y : bucket' = [bucket EXCEPT ![c].remaining = x, ![c].reset = y]
      BY <2>1
    <3> QED
      BY <3>1 DEF LimiterInv, Buckets
  <2>3. \A o \in Objects : holder'[o] \in {holder[o], None, p}
    BY <2>1 DEF LimiterInv
  <2>4. /\ pc'[p] = "decide" /\ \A q \in Requests : q # p => pc'[q] = pc[q] /\ resp'[q] = resp[q]
        /\ resp'[p].hash = resp[p].hash
    BY <1>0, <2>1 DEF RequestTypes, Answered
  <2>5. pc'[p] \notin {"lock", "copy"}
    BY <2>4
  <2> QED
    BY <1>0, <1>2, <2>1, <2>2, <2>3, <2>4, <2>5, OnTheWay DEF apart, RequestTypes
<1>8. ASSUME NEW p \in Requests, Decide(p) PROVE apart
  <2>1. UNCHANGED <<buckets, bucketHashes, bucket, holder, hashOf>>
    BY <1>8 DEF Decide, bucketVars, serverVars
  <2>2. CASE Ends(p)
    <3>1. pc'[p] = "idle" /\ obj'[p] = 0 /\ resp'[p].hash = None
          /\ \A q \in Requests : q # p => /\ pc'[q] = pc[q] /\ obj'[q] = obj[q] /\ route'[q] = route[q]
                                          /\ resp'[q] = resp[q]
      BY <1>0, <2>2, EndsRequest, NoneApart
    <3> QED
      BY <1>0, <1>2, <2>1, <3>1, OnTheWay DEF apart, RequestTypes
  <2>3. CASE /\ pc' = [pc EXCEPT ![p] = "backoff"] /\ resp' = [resp EXCEPT ![p] = NoResponse]
             /\ UNCHANGED <<obj, route>>
    <3>1. /\ pc'[p] = "backoff" /\ resp'[p].hash = None
          /\ \A q \in Requests : q # p => pc'[q] = pc[q] /\ resp'[q] = resp[q]
      BY <1>0, <2>3, NoneApart DEF RequestTypes
    <3>2. pc'[p] \notin {"lock", "copy"}
      BY <3>1
    <3> QED
      BY <1>0, <1>2, <2>1, <2>3, <3>1, <3>2, OnTheWay DEF apart, RequestTypes
  <2> QED
    BY <1>8, <2>2, <2>3 DEF Decide
<1>9. ASSUME NEW p \in Requests, Accepts(p) \/ Rejects(p) \/ Fails(p) PROVE apart
  <2>1. PICK s, left, until, g : Answers(p, s, left, until, g) /\ g \in {None, hashOf[route[p]]}
    BY <1>9 DEF Accepts, Rejects, Fails
  <2>2. /\ UNCHANGED <<buckets, bucketHashes, bucket, holder, obj, route, hashOf>>
        /\ resp'[p].hash \in {None, hashOf[route[p]]}
    BY <1>0, <2>1 DEF Answers, limiterVars, bucketVars, RequestTypes
  <2>3. /\ pc'[p] = "answered"
        /\ \A q \in Requests : q # p => pc'[q] = pc[q] /\ resp'[q] = resp[q]
    BY <1>9, AnswerKeeps
  <2>4. pc'[p] \notin {"lock", "copy"}
    BY <2>3
  <2> QED
    BY <1>0, <1>2, <2>2, <2>3, <2>4, OnTheWay DEF apart, RequestTypes
<1>10. ASSUME UNCHANGED <<buckets, bucketHashes, pc, obj, route, holder, hashOf>>,
              \A o \in Objects : bucket'[o].route = bucket[o].route,
              \A q \in Requests : resp'[q].hash = resp[q].hash /\ resp'[q].canonical = resp[q].canonical
       PROVE  apart
  <2>1. \A q \in Requests : Awaits(q)' = Awaits(q)
    BY <1>10 DEF Awaits
  <2>2. ~LockedOut'
    BY <1>2, <1>10, <2>1, NoNewCycle
  <2> QED
    BY <1>0, <1>2, <1>10, <2>2, FirstHashesKept DEF apart, RequestTypes
<1>11. ASSUME NEW h \in Hashes, WindowEnds(h) PROVE apart
  <2>1. route' = route /\ hashOf' = hashOf
    BY <1>11 DEF WindowEnds
  <2> QED
    BY <1>10, <1>11, <2>1, WindowKeeps
<1>12. ASSUME NEW h \in Hashes, NEW r \in Routes, Move(r, h) PROVE FALSE
  BY <1>1, <1>12 DEF Move
<1>13. ASSUME InvalidLeaves \/ UNCHANGED vars PROVE apart
  BY <1>10, <1>13 DEF InvalidLeaves, vars, limiterVars, bucketVars, requestVars, serverVars
<1>14. apart
  BY <1>3, <1>4, <1>5, <1>6, <1>7, <1>8, <1>9, <1>11, <1>12, <1>13 DEF Next, ClientNext, ServerNext
<1> QED
  BY <1>14 DEF apart

(* As long as the server gives every route the hash it had at first, no requests lock each *)
(* other out: a request takes a second mutex only in Release, that of the bucket with the   *)
(* key of a hash, and whoever has that one takes no second.                              *)
THEOREM LockedOutOnlyAfterMove == Spec => []LockCycleOnlyAfterMove
<1>1. Init => MoveInv
  <2> SUFFICES ASSUME Init PROVE FirstHashes /\ CopierApart /\ ~LockedOut
    BY DEF MoveInv
  <2>1. FirstHashes /\ CopierApart
    BY NoneApart DEF Init, FirstHashes, CopierApart
  <2>2. \A p \in Requests : Awaits(p) = 0
    BY DEF Init, Awaits
  <2> QED
    BY <2>1, <2>2 DEF LockedOut
<1>2. LimiterInv /\ MoveInv => LockCycleOnlyAfterMove
  BY DEF LimiterInv, ServerTypes, MoveInv, LockCycleOnlyAfterMove
<1> QED
  BY <1>1, <1>2, MoveStep, LimiterInvariant, PTL DEF Spec


-----------------------------------------------------------------------------
(* A hash that has reached its limit.                                        *)

Exhausted(h, o) == accepted[h] = ServerLimit /\ by[h] = o /\ o \in Objects

Known(h, o) ==
    /\ \A p \in Requests : obj[p] = o => pc[p] # "sent"
    /\ Told(o, h)

LEMMA ExhaustedForm ==
  /\ ExhaustedInv => \A h \in Hashes, o \in Objects : Exhausted(h, o) => Known(h, o)
  /\ (\A h \in Hashes, o \in Objects : Exhausted(h, o)' => Known(h, o)') => ExhaustedInv'
<1>1. ASSUME ExhaustedInv, NEW h \in Hashes, NEW o \in Objects, Exhausted(h, o) PROVE Known(h, o)
  BY <1>1 DEF ExhaustedInv, Exhausted, Known
<1>2. ASSUME \A h \in Hashes, o \in Objects : Exhausted(h, o)' => Known(h, o)' PROVE ExhaustedInv'
  <2> SUFFICES ASSUME NEW h \in Hashes, accepted'[h] = ServerLimit, by'[h] \in Objects
               PROVE  /\ \A p \in Requests : obj'[p] = by'[h] => pc'[p] # "sent"
                      /\ Told(by[h], h)'
    BY DEF ExhaustedInv
  <2>1. PICK o \in Objects : o = by'[h]
    OBVIOUS
  <2>2. Known(h, o)'
    BY <1>2, <2>1 DEF Exhausted
  <2> QED
    BY <2>1, <2>2 DEF Known, Told
<1> QED
  BY <1>1, <1>2

(* A step about another bucket, or of a request that neither sends nor is answered.      *)
LEMMA KnownKept ==
  ASSUME NEW h \in Hashes, NEW o \in Objects, Known(h, o), NEW p \in Requests,
         bucket'[o].remaining = bucket[o].remaining, bucket'[o].reset = bucket[o].reset,
         \A q \in Requests : q # p => pc'[q] = pc[q] /\ obj'[q] = obj[q] /\ resp'[q] = resp[q],
         obj[p] # o \/ pc[p] # "answered",
         obj'[p] # o \/ pc'[p] \notin {"sent", "answered"}
  PROVE  Known(h, o)'
<1>1. \A q \in Requests : obj'[q] = o => pc'[q] # "sent"
  BY DEF Known
<1>2. CASE /\ bucket[o].remaining = 0 /\ bucket[o].reset = h
           /\ \A q \in Requests : obj[q] = o => pc[q] # "answered"
  <2>1. \A q \in Requests : obj'[q] = o => pc'[q] # "answered"
    BY <1>2
  <2> QED
    BY <1>1, <1>2, <2>1 DEF Known, Told
<1>3. CASE \E q \in Requests : /\ obj[q] = o /\ pc[q] = "answered" /\ resp[q].hash # None
                               /\ resp[q].remaining = 0 /\ resp[q].reset = h
  <2>1. PICK q \in Requests : /\ obj[q] = o /\ pc[q] = "answered" /\ resp[q].hash # None
                              /\ resp[q].remaining = 0 /\ resp[q].reset = h
    BY <1>3
  <2>2. q # p
    BY <2>1
  <2>3. /\ obj'[q] = o /\ pc'[q] = "answered" /\ resp'[q].hash # None
        /\ resp'[q].remaining = 0 /\ resp'[q].reset = h
    BY <2>1, <2>2
  <2> QED
    BY <1>1, <2>3 DEF Known, Told
<1> QED
  BY <1>2, <1>3 DEF Known, Told

LEMMA OneHolder ==
  ASSUME LimiterInv, NEW p \in Requests, NEW q \in Requests, obj[p] = obj[q],
         pc[p] \in Holding, pc[q] \in Holding
  PROVE  p = q
  BY DEF LimiterInv, RequestTypes, PlaceInv, Holders, Holding

LEMMA ExhaustedStep == LimiterInv /\ ExhaustedInv /\ [Next]_vars => ExhaustedInv'
<1> SUFFICES ASSUME LimiterInv, ExhaustedInv, [Next]_vars,
                    NEW h \in Hashes, NEW o \in Objects, Exhausted(h, o)'
             PROVE  Known(h, o)'
  BY ExhaustedForm
<1>0. /\ RequestTypes /\ ServerTypes /\ o # Several /\ o # 0
      /\ Exhausted(h, o) => Known(h, o)
  BY ExhaustedForm, NoneApart DEF LimiterInv
<1>1. ASSUME NEW p \in Requests, NEW r \in Routes, Lookup(p, r), pc[p] \in {"idle", "backoff"},
             pc' = [pc EXCEPT ![p] = "lock"], UNCHANGED <<resp, accepted>>
      PROVE  Known(h, o)'
  <2>1. PICK o2 \in Objects :
           /\ obj' = [obj EXCEPT ![p] = o2]
           /\ \/ bucket' = bucket /\ by' = by
              \/ /\ bucket' = [bucket EXCEPT ![o2] = NewBucket(r)]
                 /\ by' = [g \in Hashes |-> IF by[g] = o2 THEN Several ELSE by[g]]
    <3>1. pc[p] # "copy"
      BY <1>1
    <3> QED
      BY <1>1, <3>1, LookupStep
  <2>2. /\ \A q \in Requests : q # p => pc'[q] = pc[q] /\ obj'[q] = obj[q] /\ resp'[q] = resp[q]
        /\ pc'[p] = "lock" /\ pc[p] # "answered"
    BY <1>0, <1>1, <2>1 DEF RequestTypes
  <2>3. Exhausted(h, o) /\ bucket'[o] = bucket[o]
    BY <1>0, <1>1, <2>1 DEF Exhausted, LimiterInv
  <2> QED
    BY <1>0, <2>2, <2>3, KnownKept
<1>2. ASSUME NEW p \in Requests, Ends(p), UNCHANGED <<bucket, accepted, by>>, pc[p] # "answered"
      PROVE  Known(h, o)'
  <2>1. /\ \A q \in Requests : q # p => pc'[q] = pc[q] /\ obj'[q] = obj[q] /\ resp'[q] = resp[q]
        /\ pc'[p] = "idle"
    BY <1>0, <1>2, EndsRequest
  <2> QED
    BY <1>0, <1>2, <2>1, KnownKept DEF Exhausted
<1>3. ASSUME NEW p \in Requests, NEW r \in Routes, Begin(p, r) PROVE Known(h, o)'
  <2>1. /\ Lookup(p, r) /\ pc[p] \in {"idle", "backoff"} /\ pc' = [pc EXCEPT ![p] = "lock"]
        /\ UNCHANGED <<resp, accepted>>
    BY <1>3 DEF Begin
  <2> QED
    BY <1>1, <2>1
<1>4. ASSUME NEW p \in Requests, Relock(p) PROVE Known(h, o)'
  <2>1. CASE /\ Lookup(p, bucket[obj[p]].route) /\ pc' = [pc EXCEPT ![p] = "lock"]
             /\ UNCHANGED <<resp, accepted>>
    <3>1. PICK r \in Routes : r = bucket[obj[p]].route
      BY <1>4 DEF Relock, LimiterInv, PlaceInv, Referred
    <3>2. Lookup(p, r) /\ pc[p] \in {"idle", "backoff"}
      BY <1>4, <2>1, <3>1 DEF Relock
    <3> QED
      BY <1>1, <2>1, <3>2
  <2>2. CASE Ends(p) /\ UNCHANGED <<bucket, accepted, by>>
    <3>1. pc[p] # "answered"
      BY <1>4 DEF Relock
    <3> QED
      BY <1>2, <2>2, <3>1
  <2> QED
    BY <1>4, <2>1, <2>2 DEF Relock
<1>5. ASSUME NEW p \in Requests, Lock(p) \/ CancelWait(p) PROVE Known(h, o)'
  <2>1. CASE CancelWait(p)
    <3>1. Ends(p) /\ UNCHANGED <<bucket, accepted, by>> /\ pc[p] # "answered"
      BY <2>1 DEF CancelWait, serverVars
    <3> QED
      BY <1>2, <3>1
  <2>2. CASE Lock(p)
    <3>1. /\ UNCHANGED <<bucket, accepted, by, obj, resp>> /\ pc[p] # "answered"
          /\ pc'[p] = "wait" /\ \A q \in Requests : q # p => pc'[q] = pc[q]
      BY <1>0, <2>2 DEF Lock, serverVars, RequestTypes
    <3> QED
      BY <1>0, <3>1, KnownKept DEF Exhausted
  <2> QED
    BY <1>5, <2>1, <2>2
<1>6. ASSUME NEW p \in Requests, Send(p) \/ Refuse(p) PROVE Known(h, o)'
  <2>1. /\ pc[p] = "wait" /\ MayGo(bucket[obj[p]]) /\ Exhausted(h, o)
        /\ bucket' = [bucket EXCEPT ![obj[p]].remaining = IF @ > 0 THEN @ - 1 ELSE 0]
    BY <1>6 DEF Send, Refuse, serverVars, Exhausted
  <2>2. obj[p] # o
    <3> SUFFICES ASSUME obj[p] = o PROVE FALSE
      OBVIOUS
    <3>1. ~(bucket[o].remaining = 0 /\ bucket[o].reset = h)
      BY <2>1, NoneApart DEF MayGo
    <3>2. PICK q \in Requests : obj[q] = o /\ pc[q] = "answered"
      BY <1>0, <2>1, <3>1 DEF Known, Told
    <3> QED
      BY <2>1, <3>2, OneHolder DEF Holding
  <2>3. bucket'[o] = bucket[o]
    BY <2>1, <2>2 DEF LimiterInv
  <2>4. /\ \A q \in Requests : q # p => pc'[q] = pc[q] /\ obj'[q] = obj[q] /\ resp'[q] = resp[q]
        /\ obj'[p] # o
    <3>1. CASE Send(p)
      BY <1>0, <2>2, <3>1 DEF Send, RequestTypes
    <3>2. CASE Refuse(p)
      BY <1>0, <3>2, EndsRequest DEF Refuse
    <3> QED
      BY <1>6, <3>1, <3>2
  <2> QED
    BY <1>0, <2>1, <2>2, <2>3, <2>4, KnownKept
<1>7. ASSUME NEW p \in Requests, Release(p) PROVE Known(h, o)'
  <2>1. /\ pc[p] = "answered" /\ Exhausted(h, o) /\ obj' = obj /\ resp[p] \in Answered
        /\ bucket' = IF resp[p].hash # None
                     THEN [bucket EXCEPT ![obj[p]] = FromHeaders(@, resp[p])] ELSE bucket
    BY <1>0, <1>7 DEF Release, serverVars, Exhausted, RequestTypes
  <2>2. /\ \A q \in Requests : q # p => pc'[q] = pc[q] /\ resp'[q] = resp[q]
        /\ pc'[p] \in {"decide", "copy"}
    BY <1>0, <1>7 DEF Release, RequestTypes
  <2>3. CASE obj[p] # o
    <3>1. bucket'[o] = bucket[o]
      BY <2>1, <2>3 DEF LimiterInv
    <3> QED
      BY <1>0, <2>1, <2>2, <2>3, <3>1, KnownKept
  <2>4. CASE obj[p] = o
    <3>1. resp[p].hash # None /\ resp[p].remaining = 0 /\ resp[p].reset = h
      <4>1. PICK q \in Requests : /\ obj[q] = o /\ pc[q] = "answered" /\ resp[q].hash # None
                                  /\ resp[q].remaining = 0 /\ resp[q].reset = h
        BY <1>0, <2>1, <2>4 DEF Known, Told
      <4>2. q = p
        BY <2>1, <2>4, <4>1, OneHolder DEF Holding
      <4> QED
        BY <4>1, <4>2
    <3>2. bucket'[o].remaining = 0 /\ bucket'[o].reset = h
      <4>1. bucket[o] \in Buckets
        BY DEF LimiterInv
      <4>2. PICK b : b = FromHeaders(bucket[o], resp[p])
        OBVIOUS
      <4>3. b.remaining = 0 /\ b.reset = h
        BY <2>1, <3>1, <4>1, <4>2, HeadersTaken
      <4>4. bucket' = [bucket EXCEPT ![o] = b]
        BY <2>1, <2>4, <3>1, <4>2
      <4> QED
        BY <4>3, <4>4 DEF LimiterInv
    <3>3. \A q \in Requests : obj'[q] = o => pc'[q] \notin {"sent", "answered"}
      <4> SUFFICES ASSUME NEW q \in Requests, q # p, obj[q] = o, pc[q] \in {"sent", "answered"}
                   PROVE  FALSE
        BY <2>1, <2>2
      <4> QED
        BY <2>1, <2>4, OneHolder DEF Holding
    <3> QED
      BY <3>2, <3>3 DEF Known, Told
  <2> QED
    BY <2>3, <2>4
<1>8. ASSUME NEW p \in Requests, Copy(p) PROVE Known(h, o)'
  <2>1. PICK c : c = resp[p].canonical
    OBVIOUS
  <2>2. /\ bucket' = [bucket EXCEPT ![c].remaining = bucket[obj[p]].remaining,
                                    ![c].reset = bucket[obj[p]].reset]
        /\ by' = [g \in Hashes |-> IF by[g] = c THEN Several ELSE by[g]]
        /\ UNCHANGED <<accepted, obj>> /\ pc[p] = "copy"
        /\ pc' = [pc EXCEPT ![p] = "decide"] /\ resp' = [resp EXCEPT ![p].canonical = 0]
    BY <1>8, <2>1 DEF Copy
  <2>3. c # o /\ Exhausted(h, o)
    BY <1>0, <2>2 DEF Exhausted
  <2>4. bucket'[o] = bucket[o]
    BY <2>2, <2>3 DEF LimiterInv
  <2>5. /\ \A q \in Requests : q # p => pc'[q] = pc[q] /\ resp'[q] = resp[q]
        /\ pc'[p] = "decide"
    BY <1>0, <2>2 DEF RequestTypes
  <2> QED
    BY <1>0, <2>2, <2>3, <2>4, <2>5, KnownKept
<1>9. ASSUME NEW p \in Requests, Decide(p) PROVE Known(h, o)'
  <2>1. UNCHANGED <<bucket, accepted, by>> /\ pc[p] = "decide"
    BY <1>9 DEF Decide, bucketVars, serverVars
  <2>2. CASE pc' = [pc EXCEPT ![p] = "backoff"] /\ resp' = [resp EXCEPT ![p] = NoResponse] /\ obj' = obj
    <3>1. /\ \A q \in Requests : q # p => pc'[q] = pc[q] /\ obj'[q] = obj[q] /\ resp'[q] = resp[q]
          /\ pc'[p] = "backoff"
      BY <1>0, <2>2 DEF RequestTypes
    <3> QED
      BY <1>0, <2>1, <3>1, KnownKept DEF Exhausted
  <2> QED
    BY <1>2, <1>9, <2>1, <2>2 DEF Decide
<1>10. ASSUME NEW p \in Requests, Accepts(p) \/ Rejects(p) \/ Fails(p) PROVE Known(h, o)'
  <2>1. /\ pc[p] = "sent" /\ obj[p] \in Objects
        /\ \A q \in Requests : pc'[q] = IF q = p THEN "answered" ELSE pc[q]
        /\ \A q \in Requests : q # p => resp'[q] = resp[q]
    BY <1>10, AnswerKeeps
  <2>2. obj' = obj /\ bucket' = bucket
    BY <1>10 DEF Accepts, Rejects, Fails, Answers, bucketVars
  <2>3. CASE Exhausted(h, o)
    <3>1. Known(h, o) /\ obj[p] # o
      BY <1>0, <2>1, <2>3 DEF Known
    <3> QED
      BY <2>1, <2>2, <3>1, KnownKept
  <2>4. CASE ~Exhausted(h, o)
    <3>1. PICK g \in Hashes : g = hashOf[route[p]]
      BY <1>0, <2>1 DEF LimiterInv, PlaceInv, ServerTypes
    <3>2. h = g /\ Accepts(p) /\ by'[h] = obj[p] /\ accepted'[h] = accepted[h] + 1
          /\ \E s \in {"ok", "invalid"} : Answers(p, s, ServerLimit - accepted[h] - 1, h, h)
      <4>1. ~(accepted'[h] = accepted[h] /\ by'[h] = by[h])
        BY <2>4 DEF Exhausted
      <4>2. ~UNCHANGED <<accepted, by>>
        BY <4>1
      <4>3. \E lost \in BOOLEAN : /\ Counted(p, g, lost)
                                  /\ ~lost => Accepts(p)
        BY <1>10, <3>1, <4>2 DEF Accepts, Rejects, Fails
      <4>4. h = g
        BY <1>0, <4>1, <4>3 DEF Counted, ServerTypes
      <4>5. by'[h] # Several
        BY <1>0 DEF Exhausted
      <4>6. Counted(p, g, FALSE) /\ Accepts(p)
        BY <1>0, <4>3, <4>4, <4>5 DEF Counted, ServerTypes
      <4>7. by'[h] = obj[p] /\ accepted'[h] = accepted[h] + 1
        BY <1>0, <4>4, <4>5, <4>6 DEF Counted, ServerTypes
      <4> QED
        BY <3>1, <4>4, <4>6, <4>7 DEF Accepts
    <3>3. accepted'[h] = ServerLimit /\ by'[h] = o
      BY DEF Exhausted
    <3>4. resp'[p].hash = h /\ resp'[p].remaining = 0 /\ resp'[p].reset = h
      <4>1. ServerLimit - accepted[h] - 1 = 0
        BY <1>0, <3>2, <3>3, RateLimiterAssumption DEF ServerTypes
      <4> QED
        BY <1>0, <3>2, <4>1 DEF Answers, RequestTypes
    <3>5. \A q \in Requests : obj'[q] = o => pc'[q] # "sent"
      <4> SUFFICES ASSUME NEW q \in Requests, q # p, obj[q] = o, pc[q] = "sent" PROVE FALSE
        BY <2>1, <2>2
      <4> QED
        BY <2>1, <3>2, <3>3, OneHolder DEF Holding
    <3>6. obj'[p] = o /\ pc'[p] = "answered" /\ h # None
      BY <2>1, <2>2, <3>2, <3>3, NoneApart
    <3> QED
      BY <3>4, <3>5, <3>6 DEF Known, Told
  <2> QED
    BY <2>3, <2>4
<1>11. ASSUME NEW g \in Hashes, WindowEnds(g) PROVE Known(h, o)'
  <2>1. g # h /\ Exhausted(h, o)
    BY <1>0, <1>11, RateLimiterAssumption DEF WindowEnds, Exhausted, ServerTypes
  <2>2. /\ UNCHANGED <<pc, obj>>
        /\ bucket'[o].remaining = bucket[o].remaining
        /\ bucket'[o].reset = IF bucket[o].reset = g THEN "past" ELSE bucket[o].reset
        /\ \A q \in Requests : /\ resp'[q].hash = resp[q].hash
                               /\ resp'[q].remaining = resp[q].remaining
                               /\ resp'[q].reset = IF resp[q].reset = g THEN "past" ELSE resp[q].reset
    BY <1>11, WindowKeeps
  <2> QED
    BY <1>0, <2>1, <2>2 DEF Known, Told
<1>12. ASSUME UNCHANGED <<bucket, pc, obj, resp, accepted, by>> PROVE Known(h, o)'
  BY <1>0, <1>12 DEF Exhausted, Known, Told
<1>13. ASSUME InvalidLeaves \/ UNCHANGED vars \/ \E g \in Hashes, r \in Routes : Move(r, g)
       PROVE  Known(h, o)'
  BY <1>12, <1>13 DEF InvalidLeaves, Move, vars, bucketVars, requestVars, serverVars
<1> QED
  BY <1>3, <1>4, <1>5, <1>6, <1>7, <1>8, <1>9, <1>10, <1>11, <1>13 DEF Next, ClientNext, ServerNext

(* The server turns a request away for the limit of its bucket only if, in that window, the *)
(* requests of the hash went through several Bucket objects, an answer was lost, or that to  *)
(* another bucket's request was copied into it: a Bucket that has seen all of a window knows *)
(* that the limit is reached before another request can pass it.                        *)
THEOREM RejectedOnlyIfSplit == Spec => RejectedOnlyWhenSplit
<1>1. Init => ExhaustedInv
  BY RateLimiterAssumption DEF Init, ExhaustedInv
<1>2. Spec => []ExhaustedInv
  BY <1>1, ExhaustedStep, LimiterInvariant, PTL DEF Spec
<1>3. LimiterInv /\ ExhaustedInv =>
         [\A p \in Requests : Rejects(p) => by[hashOf[route[p]]] # obj[p]]_vars
  <2> SUFFICES ASSUME LimiterInv, ExhaustedInv, NEW p \in Requests, Rejects(p),
                      by[hashOf[route[p]]] = obj[p]
               PROVE  FALSE
    OBVIOUS
  <2>1. pc[p] = "sent" /\ accepted[hashOf[route[p]]] = ServerLimit
    BY DEF Rejects
  <2>2. obj[p] \in Objects /\ hashOf[route[p]] \in Hashes
    BY <2>1 DEF LimiterInv, RequestTypes, ServerTypes, PlaceInv
  <2> QED
    BY <2>1, <2>2 DEF ExhaustedInv
<1> QED
  BY <1>2, <1>3, LimiterInvariant, PTL DEF RejectedOnlyWhenSplit

=============================================================================
