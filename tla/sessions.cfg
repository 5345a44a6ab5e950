CONSTANTS
  Request = {r1, r2}
  Call = {c1, c2}
  OverlapWindow = 0
  AccessTokenTTL = 0
  RefreshTokenTTL = 1
  MaxToken = 3
  MaxTime = 2
  Never = Never
  ThrowsOn401 = TRUE
SPECIFICATION DoubleSpec
SYMMETRY Interchangeable
CHECK_DEADLOCK FALSE
INVARIANTS
  DoubleAnswersAlike
  IInv
  OneCurrent
  LateIsRefused
  FamilyFollowsSession
  KeepsItsSession
