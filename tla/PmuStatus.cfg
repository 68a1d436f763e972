SPECIFICATION FairSpec
CONSTANTS
  Configured <- MCConfigured
  Builtin <- MCBuiltin
  Step = 2
  Voltages <- MCVoltages
  Modems = {"none", "5g"}
  Schedule <- MCSchedule
  Times <- MCTimes
  Chargers <- MCChargers
  Clocks <- MCClocks
  LineMax = 1
  MaxAdjust = 1
INVARIANT TypeOK
PROPERTIES
  FallsOnBattery
  RequestsAreExact
  ClocksAgree
