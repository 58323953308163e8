--------------------------- MODULE MCRateLimiter ---------------------------
(***************************************************************************)
(* RateLimiter on a small instance.  Requests are alike, so are routes,        *)
(* and a Bucket nobody refers to is the same as any other.                  *)
(***************************************************************************)
EXTENDS RateLimiter, TLC

CONSTANTS h1, h2

OneHash == [r \in Routes |-> h1]

Alike == Permutations(Requests) \cup Permutations(Routes)

Referring(o) ==
    {k \in DOMAIN buckets : buckets[k] = o} \cup {p \in Requests : obj[p] = o}
        \cup {<<p>> : p \in {q \in Requests : resp[q].canonical = o}}

\* What is left counts only until the reset.
Left(b) == IF b.reset = "past" THEN [b EXCEPT !.remaining = 0] ELSE b

ByReference ==
    LET Live == {o \in Objects : Referring(o) # {}}
    IN  <<{<<Referring(o), Left(bucket[o]), holder[o]>> : o \in Live},
          bucketHashes, invalid, pc, route, retries,
          [p \in Requests |-> Left([resp[p] EXCEPT !.canonical = 0])], hashOf, moves, accepted,
          [h \in Hashes |-> IF by[h] \in Live THEN Referring(by[h])
                            ELSE IF by[h] = 0 THEN {} ELSE {Several}]>>

\* Requests are retried before a route moves.
NoRetryAfterMove == moves > 0 => \A p \in Requests : retries[p] = 0

=============================================================================
