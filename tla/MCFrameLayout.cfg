CONSTANTS
  Archs = {"x86_64", "x86", "aarch64", "arm"}
  Sizes = {1, 3}
  Offsets <- MCOffsets
  MaxDepth = 8
SPECIFICATION Spec
INVARIANTS
  TypeOK
  VariablesAtTheirSlots
  TotalFrameBytes
CHECK_DEADLOCK FALSE
