SPECIFICATION Spec
CHECK_DEADLOCK FALSE
CONSTANTS
  Size = 20
  LineWidth = 4
  Tags = {"Stack", "CODE1"}
  TagOrder <- MCTagOrder
  InterruptVectorTableEnd = 1
  SystemGlobalsLowEnd = 3
  SystemTrapTableEnd = 4
  SystemGlobalsHighStart = 5
  SystemGlobalsHighEnd = 6
  ToolboxTrapTableEnd = 7
  SystemHeapEnd = 9
  StackEnd = 13
  StackStart = 15
  LastEmulatedSubroutineAddress = 18
  WriteGlobals = {2}
  ReadGlobals = {1, 2}
  WordSize = 32
  Values = {0, 1, 2}
  Payloads <- MCPayloads
  Addresses = {2, 6, 8, 9, 12, 15, 19}
  Blocks = {9, 10, 12, 19, 20}
  A5Sizes = {1, 2, 30}
  Records <- MCRecords
  Chunks <- MCChunks
  Cuts <- MCCuts
  MaxRegions = 2
  MaxSteps = 3
  SaveBufferSize = 3
  ParamSize = 4
  ioResult = 1
  ioRefNum = 2
  ioReqCount = 3
  ioActCount = 4
  ioVFrBlk = 4
  ioVAlBlkSiz = 2
  FreeBlocks = 2
  AllocationSize = 1
  EnvironsSize = 3
  hasColorQD = 3
  TimeAddress = 1
  TimeSize = 2
  Params = {10, 19}
  Transfers = {1, 2}
INVARIANTS
  WritesAreAccounted
  MapShowsNesting
  RestrictionsInForce
  NothingLeavesItsPlace
PROPERTIES
  BlockMoveCopies
  TheTapeOnlyMovesOn
  ParametersSurvive
