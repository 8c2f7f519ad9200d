SPECIFICATION Spec
CONSTANTS
  MaxSize = 2
  BatchSize = 2
  Policies = {TRUE, FALSE}
  SavedBefore <- MCSavedBefore
  FlushBatch = 2
  OldItems = 3
  MaxItems = 5
  MaxBoots = 2
  MaxFaults = 2
INVARIANTS
  TypeOK
  Accounted
  TwiceForAReason
  RoomForLoaded
PROPERTY ShutdownEnds
CHECK_DEADLOCK FALSE
