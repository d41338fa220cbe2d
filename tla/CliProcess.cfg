SPECIFICATION Spec
CONSTANTS
  None = None
  MaxArgs = 3
  Inputs <- MCInputs
CHECK_DEADLOCK FALSE
INVARIANTS
  WordsKept
  NeverStuck
  SubcommandsCounted
  RequirementsHold
  ProcessedInOrder
  ValuesDelivered
