SPECIFICATION Spec
CONSTANTS
  MaxSize = 2
  BatchSize = 2
  Policies = {TRUE}
  ThresholdSize = 1
  MaxRetries = 1
  FlushBatch = 2
  MaxItems = 3
  MaxFaults = 2
  MaxStarts = 2
INVARIANTS
  TypeOK
  NoSilentLoss
  ResentOnlyAfterFailure
  TasksEndBeforeFlush
PROPERTIES
  KeepsPromise
  Drains
  StopReturns
CHECK_DEADLOCK FALSE
