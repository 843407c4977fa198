SPECIFICATION SpecDebtags
CONSTANTS
  Letters <- const_Letters
  Inputs <- const_Inputs
  MaxChunks = 4
  MaxEditions = 2
INVARIANTS LinesIndependent LoadedOrNothing
CHECK_DEADLOCK FALSE
