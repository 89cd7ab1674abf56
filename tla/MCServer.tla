------------------------------ MODULE MCServer ------------------------------
(***************************************************************************)
(* Instances of Server for TLC: two protocols, two services, two starts,   *)
(* and two streams: one that Stop counts, one that is late or refused.     *)
(***************************************************************************)
EXTENDS Server, TLC

CONSTANTS s1, s2, echo, ping

MCProtocolOf == [s \in Streams |-> IF s = s2 THEN ping ELSE echo]
=============================================================================
