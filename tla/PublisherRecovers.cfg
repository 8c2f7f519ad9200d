SPECIFICATION Spec
CONSTANTS
  MaxSize = 2
  BatchSize = 2
  Policies = {TRUE}
  ThresholdSize = 1
  MaxRetries = 1
  FlushBatch = 2
  MaxItems = 1
  MaxFaults = 1
  MaxStarts = 1
PROPERTY Recovers
CHECK_DEADLOCK FALSE
