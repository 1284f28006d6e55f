-------------------------------- MODULE MCSim --------------------------------
EXTENDS Sim, TLC
CONSTANTS p1, p2, p3, t1, t2
Symmetry == Permutations(Peer) \cup Permutations(Topic)
==============================================================================
