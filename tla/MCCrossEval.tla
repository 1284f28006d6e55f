----------------------------- MODULE MCCrossEval -----------------------------
EXTENDS CrossEval
CONSTANTS p1, p2
==============================================================================
