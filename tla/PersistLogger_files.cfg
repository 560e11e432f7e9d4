SPECIFICATION Spec
CONSTANTS
  NoFile = NoFile
  LOG_PER_FILE = 2
  StaleIds = {0}
  Losses = {"end", "entry"}
  MaxRuns = 3
  MaxRecords = 2
INVARIANTS TypeOK AckedIsSynced RecoveredIsSynced NoHoles
PROPERTIES FilesAreDurableLog
CHECK_DEADLOCK FALSE
