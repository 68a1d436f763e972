SPECIFICATION Spec
CONSTANTS
  Numbers <- MCNumbers
  WaitMax = 2
  LinkStates = {TRUE, FALSE}
CHECK_DEADLOCK FALSE
INVARIANT RebootDoneIsReal
