CONSTANTS
  Threads = {t1, t2}
  None = None
  NumTests = 3
  Supported = {0}
  Illegal = {1}
  Caches <- MCCaches
  MaxLevel = 2
  Chunks = 5
SPECIFICATION FairSpec
INVARIANTS TypeOK RunInRange
PROPERTIES SizesStable SpeedsSettle
CHECK_DEADLOCK FALSE
