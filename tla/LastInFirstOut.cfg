\* The m_lifo counter against what replacer.h and cache.h say of it.
SPECIFICATION ReplacementSpec
CONSTANTS
  Tag = {t1, t2, t3, t4, t5}
  NSets = 1
  Off = {o1}
  Data = {d1}
  NWays = 4
  Lru = FALSE
  RdEnabled = TRUE
  WrEnabled = FALSE
  NoResponse = NoResponse
INVARIANT LastInFirstOut
