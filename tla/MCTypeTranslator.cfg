CONSTANTS
  MaxTypes = 3
  Programs <- MCPrograms
SPECIFICATION Spec
INVARIANTS
  TypeOK
  RefersBackward
  RecursionBounded
  Faithful
CHECK_DEADLOCK FALSE
