SPECIFICATION Spec
CONSTANTS
  Areas <- MCAreas
  Rules <- MCRules
  TagSets <- MCTagSets
  Setups <- MCSetups
  NumGroups = 2
  MaxRegisters = 4
  MaxBits = 3
  MaxGap = 1
  WordBits = 4
  MaxFailures = 2
  MaxFaults = 2
  MaxCollects = 2
INVARIANTS
  TypeOK
  PlanCovers
  WithinLimits
  ValuesAreOwn
  NothingMissing
  StaysInStep
CHECK_DEADLOCK FALSE
