CONSTANTS
  Rows <- MCRows
  Regions <- MCRegions
  Offsets <- MCOffsets
  Half = 8
SPECIFICATION RegionSpec
CHECK_DEADLOCK FALSE
INVARIANTS
  RowsAreSets
  RegionsAreSets
