SPECIFICATION Spec
CONSTANTS
  NumGroups = 2
  Reads <- MCReads
  RetryCount = 0
  MaxFailures = 2
  MaxFaults = 2
  MaxStarts = 1
INVARIANT AnswersMatch
CHECK_DEADLOCK FALSE
