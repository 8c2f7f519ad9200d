SPECIFICATION Spec
CONSTANTS
  NumGroups = 2
  Reads <- MCReads
  RetryCount = 0
  MaxFailures = 2
  MaxFaults = 1
  MaxStarts = 1
PROPERTY Recovers
CHECK_DEADLOCK FALSE
