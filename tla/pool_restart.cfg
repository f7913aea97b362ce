SPECIFICATION RestartSpec
CONSTANTS
  p1 = p1
  p2 = p2
  a1 = a1
  a2 = a2
  r1 = r1
  r2 = r2
  r3 = r3
  Providers = {p1, p2}
  Accounts = {a1, a2}
  Pool <- TwoPools
  Requests = {r1, r2, r3}
  Replies <- FewReplies
  Keys <- NoKeys
  DbFaults = FALSE
  MaxNow = 2
  TickMinutes = 1
INVARIANTS RestartKeepsCooldown
