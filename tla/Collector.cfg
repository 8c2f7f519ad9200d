SPECIFICATION Spec
CONSTANTS
  NumGroups = 2
  Reads <- MCReads
  RetryCount = 1
  MaxFailures = 2
  MaxFaults = 2
  MaxStarts = 2
INVARIANTS
  TypeOK
  FailuresBelowLimit
  StopLeavesNothing
PROPERTIES
  CyclesEnd
  ReconnectsWhileAlive
  StopReturns
CHECK_DEADLOCK FALSE
