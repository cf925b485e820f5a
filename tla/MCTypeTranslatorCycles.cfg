CONSTANTS
  MaxTypes = 3
  Programs <- MCPrograms
SPECIFICATION Spec
INVARIANTS
  CyclesResolved
CHECK_DEADLOCK FALSE
