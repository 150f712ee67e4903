CONSTANTS
  AppFile <- MCAppFile
  SystemFile <- MCSystemFile
  IdsAsked <- MCIdsAsked
  NamesAsked <- MCNamesAsked
SPECIFICATION SegmentLoaderSpec
CHECK_DEADLOCK FALSE
INVARIANTS
  OneCopyOfTheRightOne
  JumpTableIsRight
PROPERTIES
  HandlesStay
  CallsArrive
