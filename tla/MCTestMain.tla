----------------------------- MODULE MCTestMain -----------------------------
EXTENDS TestMain
CONSTANTS g1, g2, main, timer, t1
=============================================================================
