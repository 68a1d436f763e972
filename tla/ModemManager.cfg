SPECIFICATION FairSpec
CONSTANTS
  Processes <- MCProcesses
  FailTimeout = 1
  MovesMax = 1
CHECK_DEADLOCK FALSE
INVARIANTS
  TypeOK
  NoOrphan
  RecordIsValid
  RadioAsAsked
PROPERTIES
  ResetIsDue
  Redials
  Ends
