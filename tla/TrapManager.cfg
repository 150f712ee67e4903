CONSTANTS
  Traps <- MCTraps
  Patchable <- MCPatchable
  Callbacks = {43114}
  Registers <- MCRegisters
  Result = 9
  MaxDepth = 4
SPECIFICATION TrapManagerSpec
CHECK_DEADLOCK FALSE
INVARIANTS
  HandlersFindTheirArguments
  CallsNest
PROPERTIES
  ReturnsToCaller
