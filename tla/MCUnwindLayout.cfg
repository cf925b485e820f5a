CONSTANTS
  Archs = {"x86_64"}
  Deltas = {4}
  CfaOffsets = {8, 16, 32}
  Registers <- MCRegisters
  Aarch64Registers <- MCAarch64Registers
  Aarch64CfaOffsets <- MCAarch64CfaOffsets
  Aarch64Slots <- MCAarch64Slots
  OffsetValues = 64
  ArmRegisters <- MCArmRegisters
  ArmCfaOffsets <- MCArmCfaOffsets
  MaxLength = 5
SPECIFICATION BackendSpec
INVARIANTS
  StackLayoutRegistered
CHECK_DEADLOCK FALSE
