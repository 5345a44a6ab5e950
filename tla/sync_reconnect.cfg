CONSTANTS
  c1 = c1
  c2 = c2
  o1 = o1
  Conn = {c1, c2}
  Elsewhere = {}
  NoConn = NoConn
  MaxSeq = 2
  SendBuffer = 1
  WireBuffer = 1
  DeltaThreshold = 1
  DedupeCapacity = 3
  LongLived = {}
  Faulty = {}
  MaxPurged = 0
  MaxActs = 1

SPECIFICATION SyncSpec
SYMMETRY Connections
CHECK_DEADLOCK FALSE
INVARIANTS
  NeverAhead
  AppliedOnce
