\* Two messages, up to four events of "xxx" (so four greetings and the end
\* marker overfill the channel of four), one greetings call.
CONSTANTS
  m1 = m1
  m2 = m2
  NoMsg = NoMsg
  End = End
  Msgs <- MCMsgs
  EventKinds <- MCEventKinds
  ChanCap = 4
  MaxHistory = 4

SPECIFICATION Spec

INVARIANT TypeOK StreamIsPrefix AcknowledgedGreetingsListed
PROPERTY TaskTerminates

\* Greets stop at MaxHistory; the task ends and the client may stop reading.
CHECK_DEADLOCK FALSE
