CONSTANTS
  d1 = d1  d2 = d2  d3 = d3  d4 = d4
  A = A  B = B  C = C
  c1 = c1  c2 = c2  c3 = c3
  NoDef = NoDef
  NoAgg = NoAgg
  Defs = {d1, d2, d3, d4}
  AggNames = {A, B, C}
  Cmds = {c1, c2, c3}
  DefName <- MCDefName
  DefCmds <- MCDefCmds
  InsertOrder <- MCInsertOrder

SPECIFICATION Spec

INVARIANT TypeOK
INVARIANT SubscribedCommandsRoutable

\* Startup stops once every aggregate is registered.
CHECK_DEADLOCK FALSE
