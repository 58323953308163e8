--------------------------- MODULE MCShardManager ---------------------------
(* ShardManager on a small instance.                                         *)
EXTENDS ShardManager

\* Both shards in one bucket, or each in its own with one Identify for both.
\* The quota is reset before a gate opens.
SmallLimits ==
    {[total |-> 2, remaining |-> 2, resetAfter |-> 1, maxConcurrency |-> 1],
     [total |-> 1, remaining |-> 1, resetAfter |-> 1, maxConcurrency |-> 2]}

=============================================================================
