SPECIFICATION Spec
CONSTANTS
  None = None
  MaxArgs = 2
  Inputs <- MCStrict
CHECK_DEADLOCK FALSE
PROPERTIES
  ParseTerminates
