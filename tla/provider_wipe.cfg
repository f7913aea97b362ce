SPECIFICATION CatalogueSpec
CONSTANTS
  o1 = o1
  o2 = o2
  p1 = p1
  p2 = p2
  a1 = a1
  a2 = a2
  m1 = m1
  m2 = m2
  Nil = Nil
  Operators <- OneOperator
  Providers <- MCProviders
  Accounts <- MCAccounts
  Models <- MCModels
  Lists <- MCLists
  Pools <- MCPools
  Configs <- MCConfigs
  Databases <- MCDatabases
  MaxThrows = 0
INVARIANTS EditKeepsAccounts
CHECK_DEADLOCK FALSE
