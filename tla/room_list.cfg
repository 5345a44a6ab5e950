CONSTANTS
  Creator = {q1, q2}
  Own = {q1}
  Code = {k1}
  MaxCounter = 1
  Limit = 1
  Load = {l1, l2}
  MaxClock = 1
  MaxRooms = 3
  MaxMint = 3
  Nothing = Nothing

SPECIFICATION DirectorySpec
SYMMETRY Alike
CHECK_DEADLOCK FALSE
INVARIANTS
  CodeNamesOneRoom
  ListIsComplete
PROPERTIES
  IdsIncrease
