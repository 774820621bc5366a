\* Read-write cache, one port: two LRU ways, three lines, reads, writes,
\* replacements and the final flush in flight together; more iterations than
\* the FIFOs of the port hold.
SPECIFICATION MCSpec
CONSTANTS
  Tag = {t1, t2, t3}
  NSets = 1
  Off = {o1}
  Data = {d1, d2}
  NWays = 2
  Lru = TRUE
  RdEnabled = TRUE
  WrEnabled = TRUE
  NPorts = 1
  Latency = 2
  MaxIter = 3
INVARIANTS TypeOK ResponsesMatchReads DrainedAtTheEnd NoCircularWait
PROPERTIES CallEnds IsPortMemory
