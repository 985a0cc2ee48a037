SPECIFICATION Spec
CONSTANTS
  CodeSize = 8
  MaxWord = 9
  P = 1
  code_end = 5
  Address_of_H = 8
  TraceCapacity = 8
  MaxStack = 5
  FreeKinds = {}
  Entries = {}
  Labels = {1, 2, 3, 5}
  Programs <- FamilyPrograms
  Args <- TwoArgs
  Frame <- OneWord
INVARIANTS
  TypeOK
  NonHaltingVerdictSound
  HaltingVerdictSound
  TraceIsPath
PROPERTY
  SimulationVerdictExact
CHECK_DEADLOCK FALSE
