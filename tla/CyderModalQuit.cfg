SPECIFICATION CyderSpec
CONSTANTS
  AppMasks <- EveryEventOnly
  Masks <- MCMasks
  RawTypes = {}
  Windows = {}
  Places <- MCPlaces
  Nothing = Nothing
  MaxEvents = 3
  Buttons = 1
  MaxClicks = 2
  Modals = {"drag"}
  Debugging = FALSE
PROPERTIES
  QuitEndsTheProcess
