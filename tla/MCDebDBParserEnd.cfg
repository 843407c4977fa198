SPECIFICATION Spec
CONSTANTS
  Alnum <- const_Alnum
  Inputs <- const_Inputs
  Sources <- const_Sources
  MaxBody = 8
  MaxChunks = 5
  MaxOne = 2
  MaxTwo = 1
PROPERTY Terminates
CHECK_DEADLOCK FALSE
