SPECIFICATION Spec
CONSTANTS
  Alnum <- const_Alnum
  Inputs <- const_Inputs
  Sources <- const_Sources
  MaxBody = 8
  MaxChunks = 5
  MaxOne = 5
  MaxTwo = 2
INVARIANT RoundTrip
PROPERTY TerminatesOnCompleteLines
CHECK_DEADLOCK FALSE
