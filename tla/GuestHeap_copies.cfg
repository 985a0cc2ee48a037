SPECIFICATION Spec
CONSTANTS
  Modulus = 32
  HeapBase = 3
  Heap_END = 12
  EntrySize = 2
  FILL_VALUE = 9
  Data = {1}
  Requests <- CodeRequests
  Image <- MCImage
  code_end <- MCCodeEnd
INVARIANT
  DynamicCodeFound
CHECK_DEADLOCK FALSE
