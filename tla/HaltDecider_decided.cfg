SPECIFICATION FairSpec
CONSTANTS
  CodeSize = 5
  MaxWord = 6
  P = 1
  code_end = 3
  Address_of_H = 6
  TraceCapacity = 30
  MaxStack = 4
  FreeKinds = {"JMP", "CALL", "RET", "OTHER"}
  Entries = {1, 4, 5}
  Labels <- Addr
  Programs <- MCPrograms
  Args <- OneArg
  Frame <- NoFrame
PROPERTY
  DeterministicInputsDecided
CHECK_DEADLOCK FALSE
