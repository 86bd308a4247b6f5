\* One worker against a store that takes any sequence numbers; a handler
\* outcome may emit two events.
CONSTANTS
  w1 = w1
  w2 = w2
  Workers = {w1}
  AggId = AggId
  NoId = NoId
  MaxEvents = 2
  MaxCommands = 2
  PreExtractable = TRUE
  StoreChecksSequence = FALSE
  AckMayBeLost = FALSE

SPECIFICATION Spec

INVARIANT SeqStrictlyIncreasing

\* Every worker stops after MaxCommands commands.
CHECK_DEADLOCK FALSE
