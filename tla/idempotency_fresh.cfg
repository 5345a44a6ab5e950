SPECIFICATION Spec
CONSTANTS
  c1 = c1
  c2 = c2
  c3 = c3
  k1 = k1
  NoRow = NoRow
  Call = {c1, c2, c3}
  Keyed = {c1, c2}
  Request = {r1, r2}
  Key = {k1}
  KeyOf <- MCKeyOf
  Fingerprint <- MCFingerprint
  Store = {"postgres"}
  TTL = 2
  Timeout = 1
  MaxTime = 3
  MaxRuns = 3
SYMMETRY Symmetry
INVARIANTS
  ReservationIsFound
CHECK_DEADLOCK FALSE
