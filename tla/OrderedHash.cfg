SPECIFICATION Spec
CONSTANTS
  Keys = {1, 2, 3, 4, 5}
  Vals = {1}
  NotFound = NotFound
  Hash <- MCHash
  TruncatedHashes = 16
  NPROBES = 1
  MinLoad = 15
  MaxSize = 5
  InitBuckets = {0, 3}
  Loads = {75, 99}
  Counts = {0, 1, 5}
  RangeErase = FALSE
  InsertInside = FALSE
  ShrinkToNone = FALSE
  MaxBuckets = 16
INVARIANTS TypeOK Indexed RobinHood NeverHangs
PROPERTY ImplementsContainers
CHECK_DEADLOCK FALSE
