CONSTANTS
  t1 = t1  t2 = t2  t3 = t3
  None = None
  Absent = Absent
  DecodeError = DecodeError
  EventTypes = {t1, t2, t3}
  Projections = {0, 1, 2}
  Empty = 0
  Registrations <- MCRegistrations
  MaxHistory = 3

SPECIFICATION Spec

INVARIANT TypeOK
INVARIANT ReplayMatchesReference

\* The history stops growing at MaxHistory events.
CHECK_DEADLOCK FALSE
