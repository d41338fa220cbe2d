SPECIFICATION Spec
CONSTANTS
  None = None
  MaxArgs = 2
  Inputs <- MCDots
CHECK_DEADLOCK FALSE
INVARIANTS
  ChosenWereParsed
