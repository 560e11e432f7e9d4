SPECIFICATION Spec
CONSTANTS
  LOG_FILE_BUFFER_SIZE = 24
  Contents <- SmallContents
  MaxRecords = 2
  DecayAt <- Anywhere
INVARIANTS
  BytesInOrder
  ReadBack
  CutIsRemoved
  DecayIsNoticed
  CRCsAgree
CHECK_DEADLOCK FALSE
