SPECIFICATION ExchangeSpec
CONSTANTS
  LineLimit = 2
  ChunkSizes = {1, 2, 3}
  StallTicks = 2
  MaxChars = 6
  MaxRelayed = 4
  MaxFrames = 4
  MaxLines = 3
  m1 = m1
  m2 = m2
  Models = {m1, m2}
  Routes <- AllRoutes
  Replies <- PoolReplies
  ClientMayLeave = TRUE
  t1 = t1
  t2 = t2
  Tools = {t1, t2}
  PoolSize = 2
  Upstream <- WorkbuddyReplies
  CallIds = {t1, t2}
  NoId = NoId
  Windows = {0, 1, 2}
  CompactFloor = 1
  Slack = 1
  MaxTurns = 4
INVARIANTS ExchangeTypeOK AnswerIsFailover ModelDenialIsFinal LogIsTrue LogMissingOnlyIf
  PingBetweenEvents UsageScanSeesAll MessageStreamSound ResponsesStreamSound CleanBreakFails CollectedIsWhole
  WalkSound ConversationSound
PROPERTIES StreamEnds
CHECK_DEADLOCK FALSE
