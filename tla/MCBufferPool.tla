---------------------------- MODULE MCBufferPool ----------------------------
EXTENDS BufferPool, TLC

CONSTANTS a1, a2, b1, b2, b3

MCTierSize == [t \in 0 .. 2 |-> 2 * t + 1]

\* The three buffers and the two arrays are interchangeable.
Symmetry == Permutations(Buffers) \cup Permutations(Arrays)
=============================================================================
