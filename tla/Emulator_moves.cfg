SPECIFICATION Spec
CONSTANTS
  ByteBits = 6
  Ten = 5
  FlagBit <- MCFlagBit
  Descriptors <- MCDescriptors
  Gates <- MCGates
  Disassemble = FALSE
  MSRs = 4
  TscMsr = 2
  Programs <- MovePrograms
  Budget = 12
INVARIANT
  MovesDecide
CHECK_DEADLOCK FALSE
