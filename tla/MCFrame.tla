------------------------------- MODULE MCFrame ------------------------------
EXTENDS Frame

\* The order of the real sizes: 4 KB < 64 KB = chunk < 256 KB < 1 MB < 10 MB.
MCTiers == {1, 2, 4}
=============================================================================
