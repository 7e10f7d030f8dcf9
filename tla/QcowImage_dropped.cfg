\* An image of 16 clusters with one block of counts in the cache.
SPECIFICATION Spec
CONSTANTS
  L1Size = 2
  L2Size = 2
  Blocks = 4
  BlockSize = 4
  L2CacheSize = 1
  RefCacheSize = 1
  MaxWrites = 3
  MaxCrashes = 1
INVARIANTS
  DroppedCanBeReused
CHECK_DEADLOCK FALSE
