CONSTANTS
  n1 = n1
  n2 = n2
  N = 12
  Names <- MCNames
  CmdName <- MCCmdName
  CommandVec <- MCCommandVec
  BatchSize = 3
  QueueCap = 10

SPECIFICATION Spec

INVARIANT TypeOK
INVARIANT ResponseCorrelation

PROPERTY NoCreditStarvation
PROPERTY ImplementsCommandService
PROPERTY ResultsDrainWhileHandlingStalls
PROPERTY WorkerStopsOnTransportError

\* The worker may stop for good: it blocks on the inbound stream once the
\* server has nothing more to send, and returns after a transport error.
CHECK_DEADLOCK FALSE
