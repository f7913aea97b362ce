SPECIFICATION ControlSpec
CONSTANTS
  r1 = r1
  r2 = r2
  e1 = e1
  e2 = e2
  s1 = s1
  s2 = s2
  k1 = k1
  k2 = k2
  w1 = w1
  w2 = w2
  b1 = b1
  b2 = b2
  c1 = c1
  l1 = l1
  l2 = l2
  v1 = v1
  p1 = p1
  p2 = p2
  a1 = a1
  a2 = a2
  m1 = m1
  m2 = m2
  o1 = o1
  o2 = o2
  u1 = u1
  u2 = u2
  t1 = t1
  t2 = t2
  j1 = j1
  j2 = j2
  None = None
  Nil = Nil
  Failed = Failed
  NoBalance = NoBalance
  Requests <- MCRequests
  Editors <- MCEditors
  Savers <- MCSavers
  Keys <- MCKeys
  Readers <- MCReaders
  Writers <- MCWriters
  Callers <- MCCallers
  Changers <- MCChangers
  Logins <- MCLogins
  Visitors <- MCVisitors
  TokenUsers <- MCUsers
  MaxGrants = 4
  MaxEdits = 1
  MaxTokenFaults = 1
  PasswordChange <- MCChange
  MaxTokens = 2
  MaxOps = 2
  MaxFaults = 1
  MaxSaves = 2
  MaxDbFaults = 1
  BalanceTtl = 2
  ErrorTtl = 1
  MaxChanges = 1
  MaxFailures = 2
  MaxPassword = 1
  Operators <- MCOperators
  Providers <- MCProviders
  Accounts <- MCAccounts
  Models <- MCModels
  Lists <- MCLists
  Pools <- MCPools
  Configs <- MCConfigs
  Databases <- MCDatabases
  MaxThrows = 1
  Nobody = Nobody
  Ticks <- MCTicks
  Runs <- MCRuns
  DbFaults = TRUE
  DayMinutes = 5
  CronMinutes = {0, 4}
  JobTimeout = 1
  Watchdog = 3
  Lookback = 5
  CatchUp = 2
  Grace = 1
  FirstTime = 7
  MaxNow = 18
CONSTRAINTS ThreeAtATime OverwritesAlone StillPromised
VIEW UpToNames
INVARIANTS
  ControlTypeOK
  VersionNamesRows
  AnswerIsFresh
  SaveSawAnnounced
  SettingsFollowRows
  BalanceHonest
  SessionsStayRevoked
  ThrottleHolds
  NewestTokenKept
  CatalogueSound
  MissedIsMadeUp
PROPERTIES
  CronMinutesAdvance
CHECK_DEADLOCK FALSE
