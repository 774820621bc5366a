\* Read-only cache with two ports: up to two reads per iteration, answered
\* by a core that takes the ports in turn.
SPECIFICATION Spec
CONSTANTS
  Tag = {t1, t2}
  NSets = 1
  Off = {o1}
  Data = {d1, d2}
  NWays = 1
  Lru = FALSE
  RdEnabled = TRUE
  WrEnabled = FALSE
  NPorts = 2
  Latency = 2
  MaxIter = 3
INVARIANTS ResponsesMatchReads NoCircularWait
PROPERTY CallEnds
