CONSTANTS
  c1 = c1
  c2 = c2
  o1 = o1
  Conn = {c1}
  Elsewhere = {o1}
  NoConn = NoConn
  MaxSeq = 3
  SendBuffer = 2
  WireBuffer = 1
  DeltaThreshold = 1
  DedupeCapacity = 3
  LongLived = {}
  Faulty = {}
  MaxPurged = 0
  MaxActs = 0

SPECIFICATION FairSpec
CHECK_DEADLOCK FALSE
PROPERTIES
  CatchUp
