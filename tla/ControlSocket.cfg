SPECIFICATION FairSpec
CONSTANTS
  Clients <- MCClients
  Last <- MCLast
  Known <- MCKnown
  ReplySize = 3
  ChunkMax = 2
  InputMax = 2
  InputTrim = 2
  OutputMax = 2
  SocketRoom = 2
INVARIANTS
  TypeOK
  OutputWatched
  RepliesInOrder
  CommandsExecuted
PROPERTY Answered
CHECK_DEADLOCK FALSE
