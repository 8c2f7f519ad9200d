SPECIFICATION Spec
CONSTANTS
  MaxSize = 2
  BatchSize = 2
  ThresholdSize = 2
  Policies = {TRUE, FALSE}
  NumTags = 2
  Values = {0, 1, 2}
  None = None
  Absent = Absent
  Readings <- MCReadings
  Modes <- MCModes
  MaxReadings = 3
  MaxConnects = 2
  MaxQueued = 1
  MaxReturns = 2
INVARIANTS
  TypeOK
  NeverStale
  LossAccounted
  AnnouncementRepublishes
