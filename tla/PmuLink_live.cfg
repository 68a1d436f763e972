SPECIFICATION FairSpec
CONSTANTS
  Requests <- MCRequests
  QueueMax = 0
  FrameModulus = 2
  WireMax = 1
  MaxFrames = 2
  MaxNotices = 0
PROPERTY Drains
CHECK_DEADLOCK FALSE
