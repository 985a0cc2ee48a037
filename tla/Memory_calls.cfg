SPECIFICATION MCSpec
CONSTANTS
  e1 = e1
  e2 = e2
  screen = screen
  None = None
  Mem <- MCMem
  PageSize = 4
  Pages = 8
  Ports = 5
  Buffer <- MCBuffer
  ByteSize = 8
  Device <- MCDevice
  Perms <- MCPerms
  Calls <- MCCalls
  PortCalls <- MCPortCalls
  Ranges <- MCRanges
  PortRanges <- MCPortRanges
  Values <- MCValues
  Hosts <- MCHosts
  Lent = {0, 1}
  Files <- MCFiles
  Unset = Unset
  Emu = e1
  HEAP_SIZE = 10
  STACK_SIZE = 2
  NOP = 5
  RET = 3
  INT_3 = 4
  MaxCalls = 4
  MaxPortCalls = 4
VIEW MCView
INVARIANTS
  BlocksOwned
  LoadedAsLinked
PROPERTIES
  ImplementsFlat
CHECK_DEADLOCK FALSE
