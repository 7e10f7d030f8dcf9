\* An image of 16 clusters with all blocks of counts in the cache.
SPECIFICATION Spec
CONSTANTS
  L1Size = 2
  L2Size = 2
  Blocks = 4
  BlockSize = 4
  L2CacheSize = 2
  RefCacheSize = 4
  MaxWrites = 3
  MaxCrashes = 1
INVARIANTS
  L1PointsToValidData
CHECK_DEADLOCK FALSE
