----------------------------- MODULE MCPipeline -----------------------------
(***************************************************************************)
(* Instances of Pipeline for TLC: the chain the user guide recommends, the *)
(* same with the metrics outermost, one without Recovery and one whose     *)
(* handler is followed by another.                                         *)
(***************************************************************************)
EXTENDS Pipeline

Guide == <<"recovery", "metrics", "writer", "decode", "limit", "router", "deserialize",
           "handler">>
MetricsFirst == <<"metrics", "recovery", "writer", "decode", "limit", "handler">>
Bare == <<"writer", "decode", "handler", "handler">>

AllChains == {Guide, MetricsFirst, Bare}
=============================================================================
