SPECIFICATION CyderSpec
CONSTANTS
  AppMasks <- EveryEventOnly
  Masks <- MCMasks
  RawTypes = {}
  Windows = {w1}
  Places <- MCPlaces
  Nothing = Nothing
  MaxEvents = 4
  Buttons = 2
  MaxClicks = 4
  Modals = {"drag", "menu", "dialog"}
  Debugging = TRUE
INVARIANTS
  EachPressHasItsRelease
PROPERTIES
  UsesEventManager
  ReleaseEndsTracking
  OnlyTheUserDelaysTheEnd
