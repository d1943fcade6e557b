SPECIFICATION Spec
CONSTANTS
  Workers = {1, 2}
  HeightCap = 1
  BatchSize = 2
  MaxUint32 = 4
  MaxSends = 5
  Rebuilds <- MCRebuilds
  Rows <- MCRows
  Scanners = {1, 2}
  Scans <- MCScans
  DefaultRangeSize = 2
  MaxRanges = 4
INVARIANTS TypeOK NilMeansRebuilt RebuildBatchBound ScanExact
PROPERTIES RebuildReturns ProducerEnds ScanReturns
CHECK_DEADLOCK FALSE
