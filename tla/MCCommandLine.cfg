CONSTANTS
  Unknown <- MCUnknown
  Names <- MCNames
  Empty = ""
  Inputs <- MCInputs
  Unwritable <- MCUnwritable
  MaxArgs = 4
SPECIFICATION Spec
INVARIANTS
  ParsedAsWritten
  LoadedIsSupported
PROPERTY
  OnlyOutputWritten
CHECK_DEADLOCK FALSE
