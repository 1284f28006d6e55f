----------------------------- MODULE MCSimPeers -----------------------------
EXTENDS SimPeers
CONSTANTS p1, p2, t1, t2
=============================================================================
