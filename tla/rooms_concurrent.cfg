CONSTANTS
  FreeTierMaxParticipants = 2
  PlusTierMaxParticipants = 3
  HostGraceWindow = 1
  EmptyRoomReapAfter = 1
  Never = Never
  u1 = u1
  u2 = u2
  u3 = u3
  u4 = u4
  User = {u1, u2, u3}
  Request = {r1, r2}
  Tier <- MCTierFree
  NoUser = NoUser
  NoState = NoState
  MaxSeq = 7
  MayAbort = TRUE

SPECIFICATION Spec
SYMMETRY Symmetric
CHECK_DEADLOCK FALSE
INVARIANTS
  IInv
  LogGapFree
  RowIsReplay
  RolesAgree
  PublishedIsDurable
PROPERTIES
  EndedIsFinal
  ImplementsRoomLog
