---------------------------- MODULE MCMessages ------------------------------
EXTENDS Messages, TLC
CONSTANTS p1, p2, t1, t2
Symmetry == Permutations(Peer) \cup Permutations(Topic)
=============================================================================
