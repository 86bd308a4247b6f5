\* Two workers of one aggregate against a store that checks sequence
\* numbers and whose append can commit while its call fails; up to two
\* events per outcome, so multi-event outcomes occur.
CONSTANTS
  w1 = w1
  w2 = w2
  Workers = {w1, w2}
  AggId = AggId
  NoId = NoId
  MaxEvents = 2
  MaxCommands = 2
  PreExtractable = TRUE
  StoreChecksSequence = TRUE
  AckMayBeLost = TRUE

SPECIFICATION Spec

INVARIANT TypeOK
INVARIANT SuccessMeansStored

\* Every worker stops after MaxCommands commands.
CHECK_DEADLOCK FALSE
