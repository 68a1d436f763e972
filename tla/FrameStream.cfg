SPECIFICATION Spec
CONSTANTS
  Bytes <- MCBytes
  Start = 3
  End = 1
  MinLen = 1
  MaxLen = 2
  TrimAt = 12
  TrimTo = 6
  ChunkMax = 3
  Bodies <- MCBodies
  LineMax = 14
  NoiseMax = 4
CHECK_DEADLOCK FALSE
INVARIANTS
  TypeOK
  SplitIndependent
  Delivered
  Recovers
