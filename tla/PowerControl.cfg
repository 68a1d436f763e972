SPECIFICATION FairSpec
CONSTANTS
  Numbers <- MCNumbers
  WaitMax = 2
  LinkStates = {TRUE, FALSE}
CHECK_DEADLOCK FALSE
INVARIANTS
  TypeOK
  PmuKnows
  ShutdownDoneIsReal
  DisabledStaysOff
PROPERTY Stops
