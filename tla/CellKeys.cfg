CONSTANTS
  MaxByte = 3
  Columns <- SomeColumns
  Stamps <- SomeStamps
  TimeRanges <- SomeTimeRanges
  Clock = {2}
  RowRanges <- SomeRowRanges
  Unbounded = Unbounded
  MaxKeys = 2
SPECIFICATION Spec
INVARIANTS CellsExact KeyOrder ScanExact LatestRead
