SPECIFICATION Spec
CONSTANTS
  Numbers <- MCNumbers
  EventLists <- MCEventLists
  Networks <- MCNetworks
  KeptMax = 2
  SentMax = 2
  MaxCommands = 4
INVARIANTS
  TypeOK
  SettingsKept
  PmuFollows
CHECK_DEADLOCK FALSE
