CONSTANTS
  c1 = c1
  c2 = c2
  o1 = o1
  Conn = {c1}
  Elsewhere = {}
  NoConn = NoConn
  MaxSeq = 3
  SendBuffer = 1
  WireBuffer = 1
  DeltaThreshold = 2
  DedupeCapacity = 3
  LongLived = {c1}
  Faulty = {c1}
  MaxPurged = 2
  MaxActs = 0

SPECIFICATION SyncSpec
CHECK_DEADLOCK FALSE
INVARIANTS
  SnapshotCoversItsPosition
  DeltaIsWholeOrGone
