SPECIFICATION FairSpec
CONSTANTS
  CodeSize = 6
  Functions = {1, 5}
  CodeEnd <- Ends
  P = 1
  Address_of_HHH = 9
  TraceCapacity = 9
  MaxStack = 4
  Kinds = {"JMP", "JZ", "CALL", "HHH", "OTHER"}
  Programs <- MCPrograms
INVARIANTS
  TypeOK
  OnlyOutermostIsRoot
  TraceCoversAllLevels
  AnswersAgree
  OnlyCallersOfHHHMisjudged
PROPERTIES
  AnswerOrExit
  HaltsMeansReturns
CHECK_DEADLOCK FALSE
