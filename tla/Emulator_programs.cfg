SPECIFICATION Spec
CONSTANTS
  ByteBits = 6
  Ten = 5
  FlagBit <- MCFlagBit
  Descriptors <- MCDescriptors
  Gates <- MCGates
  Disassemble = FALSE
  MSRs = 4
  TscMsr = 2
  Programs <- MCPrograms
  Budget = 12
INVARIANTS
  ArithmeticIsExact
  ComparisonsDecide
  DecimalIsExact
  ShiftsMoveBits
  PairsUndo
  StringsAreExact
PROPERTIES
  BranchesAsDecoded
  FaultsRestart
CHECK_DEADLOCK FALSE
