SPECIFICATION Spec
CONSTANTS
  CodeSize = 3
  MaxWord = 4
  P = 1
  code_end = 3
  Address_of_H = 4
  TraceCapacity = 12
  MaxStack = 4
  FreeKinds = {"CALL", "JCC", "OTHER"}
  Entries = {1}
  Labels <- Addr
  Programs <- MCPrograms
  Args <- OneArg
  Frame <- NoFrame
INVARIANT
  HaltingVerdictAlwaysSound
CHECK_DEADLOCK FALSE
