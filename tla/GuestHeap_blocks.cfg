SPECIFICATION Spec
CONSTANTS
  Modulus = 32
  HeapBase = 3
  Heap_END = 18
  EntrySize = 2
  FILL_VALUE = 9
  Data = {1}
  Requests <- AllRequests
  Image <- MCImage
  code_end <- MCCodeEnd
INVARIANTS
  TypeOK
  BlocksDisjoint
  HeadersIntact
  TracesIntact
  CodeIntact
CHECK_DEADLOCK FALSE
