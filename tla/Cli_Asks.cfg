\* Every combination of up to three arguments.
CONSTANTS
  MaxArgs = 3
SPECIFICATION Spec
PROPERTIES Asks
CHECK_DEADLOCK FALSE
