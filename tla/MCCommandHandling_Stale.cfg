\* Two workers of one aggregate against a store that checks sequence
\* numbers; one event per outcome.
CONSTANTS
  w1 = w1
  w2 = w2
  Workers = {w1, w2}
  AggId = AggId
  NoId = NoId
  MaxEvents = 1
  MaxCommands = 2
  PreExtractable = TRUE
  StoreChecksSequence = TRUE
  AckMayBeLost = FALSE

SPECIFICATION Spec

INVARIANT NoStaleDecision

\* Every worker stops after MaxCommands commands.
CHECK_DEADLOCK FALSE
