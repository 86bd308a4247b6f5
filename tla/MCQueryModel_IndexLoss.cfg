\* As MCQueryModel.cfg, with index requests of apply_to that can fail.
CONSTANTS
  m1 = m1
  m2 = m2
  Msgs <- MCMsgs
  NoMsg = NoMsg
  Missing = Missing
  MaxHistory = 3
  MaxCrashes = 2
  IndexMayFail = TRUE
  TokenMayFail = TRUE

SPECIFICATION Spec


PROPERTY EventuallyIndexed

\* The processor waits for events once it has caught up.
CHECK_DEADLOCK FALSE
