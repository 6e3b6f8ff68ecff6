----------------------------- MODULE MCSpscRing -----------------------------
EXTENDS SpscRingSize
=============================================================================
