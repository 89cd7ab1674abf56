-------------------------- MODULE MCSlidingWindow ---------------------------
EXTENDS SlidingWindow

CONSTANTS p1, p2

\* Each peer in a shard of its own.
MCShardOf == [p \in Peers |-> IF p = p1 THEN 0 ELSE 1]

\* A read limit of two and a write limit of one.
MCMaxRequests == [b \in Buckets |-> IF b = "write" THEN 1 ELSE 2]
=============================================================================
