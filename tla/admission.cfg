CONSTANTS
  Request = {r1, r2}
  Email = {e1, e2}
  Handle = {h1, h2}
  Birth <- MCBirth
  Today <- MCToday
  Ticket = {t1, t2}
  Upgrade = {u1, u2}
  TTL = 1
  MaxClock = 2
  Nothing = Nothing

SPECIFICATION AdmissionSpec
SYMMETRY Alike
CHECK_DEADLOCK FALSE
INVARIANTS
  AccountsAreWhole
  AnswersAreTrue
  TicketAdmitsOne
