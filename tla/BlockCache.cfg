\* Fewer slots than blocks, so that blocks are evicted.
SPECIFICATION FairSpec
CONSTANTS
  BLOCK_CACHE_SIZE = 3
  NBLOCKS = 6
  W = 3
  BSIZE = 3
INVARIANTS
  NoDuplicates
  Coherent
  PinsExact
PROPERTIES
  ImplementsStore
  BreadReturns
