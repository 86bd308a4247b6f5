\* Two messages, three greetings (so a message repeats), two crashes; the
\* token GET and token writes can fail, index writes do not.
CONSTANTS
  m1 = m1
  m2 = m2
  Msgs <- MCMsgs
  NoMsg = NoMsg
  Missing = Missing
  MaxHistory = 3
  MaxCrashes = 2
  IndexMayFail = FALSE
  TokenMayFail = TRUE

SPECIFICATION Spec

INVARIANT TypeOK ProcessedGreetingsIndexed
PROPERTY EventuallyIndexed

\* The processor waits for events once it has caught up.
CHECK_DEADLOCK FALSE
