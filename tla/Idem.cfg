SPECIFICATION Spec
CONSTANTS
  Requests <- MCRequests
  Keys <- MCKeys
  Messages <- MCMessages
  None = None
  BadKey = BadKey
  k1 = k1
  q1 = q1
  q2 = q2
  q3 = q3
CHECK_DEADLOCK FALSE
INVARIANTS
  AtMostOncePerRecord
  SettledByOwner
  ReplayFaithful
  NoOverlap
