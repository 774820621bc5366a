\* Read-write, one set of two ways, LRU or FIFO, lines of two words, three
\* lines competing for them, the host storing lines between calls.
SPECIFICATION MCSpec
CONSTANTS
  Tag = {t1, t2, t3}
  NSets = 1
  Off = {o1, o2}
  Data = {d1, d2}
  NWays = 2
  Lru = TRUE
  RdEnabled = TRUE
  WrEnabled = TRUE
  NoResponse = NoResponse
SYMMETRY Symmetry
INVARIANTS TypeOK UniqueTags CleanLinesMatchMemory LruHoldsEveryWay
           LruCacheKeepsRecentLines FifoCacheKeepsLastLoads
PROPERTY IsFlatMemory
