SPECIFICATION FairSpec
CONSTANTS
  Policies <- MCPolicies
  PingRounds = 2
CHECK_DEADLOCK FALSE
INVARIANTS
  TypeOK
  RouteIsReported
PROPERTIES
  RouteShown
  PingsShown
