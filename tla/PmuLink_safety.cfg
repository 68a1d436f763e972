SPECIFICATION Spec
CONSTANTS
  Requests <- MCRequests
  QueueMax = 1
  FrameModulus = 2
  WireMax = 2
  MaxFrames = 3
  MaxNotices = 1
INVARIANTS
  TypeOK
  EveryCommandAccounted
  AckedWasReceived
  FatesJustified
  InOrder
PROPERTIES
  FrameFinished
  ServiceSpec
CHECK_DEADLOCK FALSE
