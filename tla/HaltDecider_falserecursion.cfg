SPECIFICATION Spec
CONSTANTS
  CodeSize = 6
  MaxWord = 7
  P = 1
  code_end = 3
  Address_of_H = 7
  TraceCapacity = 12
  MaxStack = 4
  FreeKinds = {"CALL", "RET"}
  Entries = {4, 6}
  Labels <- Addr
  Programs <- MCPrograms
  Args <- OneArg
  Frame <- NoFrame
INVARIANT
  NonHaltingVerdictAlwaysSound
CHECK_DEADLOCK FALSE
