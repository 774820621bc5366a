\* Batches of two lists, lines of two words, two entries in each cache.
SPECIFICATION Spec
CONSTANTS
  Offsets <- SampleOffsets
  EdgeLists <- SampleEdges
  Leftovers <- SampleLeftovers
  T = 2
  Parallel = 2
  OffsetCacheSize = 2
  CacheSize = 2
  CoalesceDist = 1
  Depth = 2
INVARIANTS TypeOK CountsEveryEdgeOnce BCacheIsTrue ATagsAreTrue
