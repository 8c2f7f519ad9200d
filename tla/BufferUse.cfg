SPECIFICATION Spec
CONSTANTS
  MaxSize = 3
  BatchSize = 2
  Policies = {TRUE, FALSE}
  ThresholdSize = 2
  MaxItems = 6
  MaxReturns = 4
INVARIANTS
  TypeOK
  SizeBound
  Accounting
  FifoOrder
  AlarmArmed
  LossIsCounted
