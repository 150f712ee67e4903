CONSTANTS
  Traps <- MCSystemTraps
  Patchable <- MCSystemPatchable
  Callbacks = {43114}
  Registers <- MCRegisters
  Result = 9
  MaxDepth = 2
SPECIFICATION TrapManagerSpec
INVARIANTS
  ChainingReachesTheHandler
CHECK_DEADLOCK FALSE
