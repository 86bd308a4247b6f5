---------------------------- MODULE MCReadSide ----------------------------
EXTENDS ReadSide

CONSTANTS m1, m2

MCMsgs == {m1, m2}

=============================================================================
