SPECIFICATION Spec
CONSTANTS
  CodeSize = 6
  Functions = {1, 5}
  CodeEnd <- Ends
  P = 1
  Address_of_HHH = 9
  TraceCapacity = 9
  MaxStack = 4
  Kinds = {"JMP", "HHH", "OTHER"}
  Programs <- MCPrograms
INVARIANT
  RootKeepsTrace
CHECK_DEADLOCK FALSE
