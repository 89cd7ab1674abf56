--------------------------- MODULE MCTokenBucket ----------------------------
(***************************************************************************)
(* Instances of TokenBucket for TLC.  The burst takes longer than idleTTL  *)
(* to refill, so that being idle and being full are different things; a    *)
(* millisecond is several ticks, so that rounding happens.                 *)
(***************************************************************************)
EXTENDS TokenBucket

CONSTANTS p1, p2

MCShardOf == [p \in Peers |-> IF p = p1 THEN 0 ELSE 1]
=============================================================================
