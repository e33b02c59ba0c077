\* Four rows, pages of one or two, two likes or removals, ties in time.
SPECIFICATION BrowseSpec
CONSTANTS
  DefaultSize = 2
  LargestSize = 2
  Limit = 2
  Radius = 2
  Offsets <- MCOffsets
  CosPercent = 60
  Sizes = {1, 3}
  MaxRows = 4
  MaxSeconds = 4
  MaxMoves = 2
CHECK_DEADLOCK FALSE
INVARIANTS
  MissedOnlyIfReordered
  RepeatsBoundedByInserts
  NearbyMissesExplained
