SPECIFICATION Spec
CONSTANTS
  MaxTime = 3
  MaxWrites = 2
INVARIANT ProviderKeepsWorking
CHECK_DEADLOCK FALSE
