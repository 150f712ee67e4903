SPECIFICATION Spec
CONSTANTS
  Masks <- MCMasks
  RawTypes = {9}
  Windows = {w1}
  Places = {p1}
  Nothing = Nothing
  MaxEvents = 4
INVARIANTS
  NoLostWakeup
  RetryFindsEvent
PROPERTIES
  ImplementsStream
  WaitsEnd
