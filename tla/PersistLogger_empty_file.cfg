SPECIFICATION Spec
CONSTANTS
  NoFile = NoFile
  LOG_PER_FILE = 2
  StaleIds = {}
  Losses = {}
  MaxRuns = 2
  MaxRecords = 1
INVARIANTS NewLogFileOpens
CHECK_DEADLOCK FALSE
