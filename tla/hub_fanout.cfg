CONSTANTS
  c1 = c1
  c2 = c2
  o1 = o1
  Conn = {c1, c2}
  Elsewhere = {o1}
  Healthy = {c1}
  MaxSeq = 2
  SendBuffer = 1
  WireBuffer = 1

SPECIFICATION FairSpec
CHECK_DEADLOCK FALSE
INVARIANTS
  NoSilentLoss
  AtMostOnce
PROPERTIES
  HealthyAreServed
