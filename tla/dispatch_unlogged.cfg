SPECIFICATION DispatchSpec
CONSTANTS
  m1 = m1
  m2 = m2
  Models = {m1, m2}
  Routes <- TwoChats
  Replies <- PoolReplies
  ClientMayLeave = FALSE
INVARIANTS EveryRequestLogged
CHECK_DEADLOCK FALSE
