CONSTANTS
  FreeTierMaxParticipants = 2
  PlusTierMaxParticipants = 3
  HostGraceWindow = 1
  EmptyRoomReapAfter = 1
  Never = Never
  u1 = u1
  u2 = u2
  u3 = u3
  u4 = u4
  User = {u1, u2, u3, u4}
  Request = {r1}
  Tier <- MCTier
  NoUser = NoUser
  NoState = NoState
  MaxSeq = 9
  MayAbort = FALSE

SPECIFICATION DoubleSpec
SYMMETRY Guests
CHECK_DEADLOCK FALSE
INVARIANTS
  DoubleAnswersAlike
  HostIsActive
  OneRoomEnded
  JoinedOnce
  LifecycleIsLegal
  ResponseReportsItsEvent
PROPERTIES
  JoinRespectsCap
