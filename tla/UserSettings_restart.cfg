SPECIFICATION Spec
CONSTANTS
  Numbers <- MCNumbers
  EventLists <- MCEventLists
  Networks <- MCNetworks
  KeptMax = 2
  SentMax = 2
  MaxCommands = 4
INVARIANTS
  EnabledAsAsked
CHECK_DEADLOCK FALSE
