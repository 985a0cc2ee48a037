SPECIFICATION FairSpec
CONSTANTS
  Top = 2
  CodeSize = 5
  MaxACC = 2
  MAX_INSTRUCTIONS = 24
  Programs <- MCPrograms
INVARIANTS
  TypeOK
  OneInstructionPerIteration
  OnlyMainHalts
PROPERTIES
  Transparent
  StepReportsInstruction
  Stops
CHECK_DEADLOCK FALSE
