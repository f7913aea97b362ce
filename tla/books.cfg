SPECIFICATION BooksSpec
CONSTANTS
  c1 = c1
  c2 = c2
  c3 = c3
  q1 = q1
  q2 = q2
  q3 = q3
  a1 = a1
  a2 = a2
  Nobody = Nobody
  Cells = {c1, c2, c3}
  Clients = {q1, q2, q3}
  Limits <- KeyLimits
  Priced = {c1}
  TxBatch = 2
  MaxRows = 2
  MaxFails = 2
  Accounts = {a1, a2}
  Callers = {c1, c2}
  DbFaults = TRUE
  MaxGrants = 2
  Admins = {a1}
  MaxDay = 2
  MaxServed = 3
  Retain = 1
  MaxRestarts = 1
INVARIANTS BooksTypeOK FlushArmed TwiceOnlyUnlogged HistoryExact
PROPERTIES OvercountOnlyAfterPartialFlush UsageReachesTable LimitHolds LedgerKeepsPromise CallersAnswered
CHECK_DEADLOCK FALSE
