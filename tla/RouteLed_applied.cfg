SPECIFICATION Spec
CONSTANTS
  Policies <- MCPolicies
  PingRounds = 2
CHECK_DEADLOCK FALSE
INVARIANT LedShowsApplied
