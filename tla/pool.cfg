SPECIFICATION Spec
CONSTANTS
  p1 = p1
  p2 = p2
  a1 = a1
  a2 = a2
  r1 = r1
  r2 = r2
  r3 = r3
  Providers = {p1}
  Accounts = {a1, a2}
  Pool <- OnePool
  Requests = {r1, r2}
  Replies <- SomeReplies
  Keys <- NoKeys
  DbFaults = TRUE
  MaxNow = 3
  TickMinutes = 2
CONSTRAINTS AtMostTwoActive FewPenalties
SYMMETRY CallSymmetry
INVARIANTS TypeOK AnswerIsFailover HealthyFirst
PROPERTIES PenaltyNeverShortened PenaltyEndsForCause
