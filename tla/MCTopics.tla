------------------------------ MODULE MCTopics ------------------------------
EXTENDS Topics, TLC

CONSTANTS c1, c2, c3

\* Callers are interchangeable.  Not used where a liveness property is checked.
Symmetry == Permutations(Callers)
=============================================================================
