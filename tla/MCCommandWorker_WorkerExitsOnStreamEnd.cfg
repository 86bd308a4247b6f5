CONSTANTS
  n1 = n1
  n2 = n2
  N = 12
  Names <- MCNames
  CmdName <- MCCmdName
  CommandVec <- MCCommandVec
  BatchSize = 3
  QueueCap = 10

SPECIFICATION Spec
PROPERTY WorkerExitsOnStreamEnd
CHECK_DEADLOCK FALSE
