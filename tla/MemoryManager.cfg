CONSTANTS
  HeapStart = 2
  HeapEnd = 8
  TableSize = 4
  HandleSize = 2
  Sizes = {0, 1, 2}
  Limits = {5, 12}
  MaxHandles = 3
SPECIFICATION MemoryManagerSpec
CHECK_DEADLOCK FALSE
INVARIANTS
  BlocksApart
  HandlesAgree
PROPERTIES
  FullHeapIsReported
  BlocksStayPut
