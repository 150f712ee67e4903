SPECIFICATION Spec
CHECK_DEADLOCK FALSE
CONSTANTS
  Half = 12
  CHAR_BIT = 3
  PatternRows = 2
  HalfInt = 200
  MemorySize = 10
  Ports = {wmgr, app}
  WMgrPort = wmgr
  ScreenBits <- MCScreenBits
  Contents <- MCContents
  BitMaps <- MCBitMaps
  Rectangles <- MCRectangles
  Points <- MCPoints
  Patterns <- MCPatterns
  PictureHandles <- MCPictures
  Families = {"ports", "regions", "geometry", "screen"}
  MaxSteps <- MCMaxSteps
  MaxDraws = 1
  MaxHandles = 6
  ClipRegions <- MCClipRegions
  MaxClips = 2
  ScreenRects <- MCScreenRects
  ScreenPatterns <- MCScreenPatterns
  PopUps <- MCPopUps
  MenuItemHeight = 1
INVARIANTS
  ScreenStateOK
PROPERTIES
  PortsDrawWhatTheyName
  ScreenDrawsWithinClip
  PopupsLeaveNoTrace
  PicturesArriveWhole
  CoordinatesAreRight
  TheRegionIsRecorded
