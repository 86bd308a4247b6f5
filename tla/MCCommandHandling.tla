------------------------- MODULE MCCommandHandling -------------------------
EXTENDS CommandHandling

CONSTANTS w1, w2
=============================================================================
