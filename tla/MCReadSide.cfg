\* Two messages and two greetings (so a message can repeat), two crashes;
\* the token GET and token writes can fail, index writes do not.  One search,
\* answered with up to two objects; a channel of 1 (with two messages the
\* code's 4 never fills, and a full channel is the case to check).
CONSTANTS
  m1 = m1
  m2 = m2
  Msgs <- MCMsgs
  NoMsg = NoMsg
  Missing = Missing
  MaxHistory = 2
  MaxCrashes = 2
  IndexMayFail = FALSE
  TokenMayFail = TRUE
  ChanCap = 1
  MaxResponses = 2

SPECIFICATION ReadSpec

INVARIANT ReadTypeOK
INVARIANT ProcessedGreetingsIndexed
INVARIANT OneDocumentPerGreeting
INVARIANT SearchStreamIsPrefix
PROPERTY EventuallyIndexed
PROPERTY SearchDeliversAll

\* The processor waits for events once it has caught up; the search ends.
CHECK_DEADLOCK FALSE
