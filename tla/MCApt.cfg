SPECIFICATION Spec
CONSTANTS
  MaxTime = 3
  MaxWrites = 2
INVARIANTS
  StaleIsNoticed
  DepcacheNotOlder
  UndefinedNeedsFailure
PROPERTIES
  WrongRecordNeedsRace
  CatchesUp
CHECK_DEADLOCK FALSE
