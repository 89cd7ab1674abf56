------------------------------ MODULE MCStartup -----------------------------
EXTENDS Startup, TLC

\* Every relay setting with the other choices at their fullest, and the barest.
MCConfigs ==
    {[inRange |-> TRUE, on |-> on, peers |-> ps, limited |-> TRUE, pubsub |-> TRUE] :
        on \in SUBSET Flags, ps \in BOOLEAN}
    \cup {[inRange |-> ok, on |-> {}, peers |-> FALSE, limited |-> FALSE, pubsub |-> FALSE] :
        ok \in BOOLEAN}

Symmetry == Permutations(Procs) \cup Permutations(Keys)
=============================================================================
