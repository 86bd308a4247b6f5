--------------------------- MODULE MCQueryModel ---------------------------
EXTENDS QueryModel

CONSTANTS m1, m2

MCMsgs == {m1, m2}

=============================================================================
