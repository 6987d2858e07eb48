SPECIFICATION Spec
CONSTANTS
  Callers = {g1, g2}
  Arguments <- MCArguments
  Decimals = 1
  MaxCalls = 4
INVARIANTS OvertakenOnlyIfRaced
PROPERTIES ImplementsLedger
CHECK_DEADLOCK FALSE
SYMMETRY Symmetry
