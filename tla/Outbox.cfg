SPECIFICATION FairSpec
CONSTANTS
  Replicas <- MCReplicas
  Events <- MCEvents
  None = None
  BatchSize = 2
  MaxOutages = 2
  p1 = p1
  p2 = p2
  e1 = e1
  e2 = e2
CHECK_DEADLOCK FALSE
INVARIANTS
  BusOpenWhileUsed
PROPERTIES
  ImplementsDelivery
  StopEnds
