SPECIFICATION Spec
CONSTANTS
  c1 = c1
  c2 = c2
  T1 = T1
  T2 = T2
  K1 = K1
  K2 = K2
  V1 = V1
  V2 = V2
  NoTable = NoTable
  NoValue = NoValue
  TornValue = TornValue
  NoRequest = NoRequest
  NoRecord = NoRecord
  NoAnswer = NoAnswer
  Tables = {T1}
  Keys = {K1, K2}
  Values = {V1, V2}
  Clients = {c1, c2}
  Menu <- SameKey
  InitialLog <- SmallLog
  MaxOps = 2
  MaxStarts = 1
  LogIdSpace = 100
  StaleIds = {}
  LOG_PER_FILE = 2
  MAX_LOG_NUM_TO_FLUSH = 1
INVARIANTS
  OverflowBatchIsResponded
CHECK_DEADLOCK FALSE
