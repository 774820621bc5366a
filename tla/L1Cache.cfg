\* L1 caches of one set of two ways, three lines: a read-write cache, or a
\* read-only one with two ports; the host rewrites the array between calls.
SPECIFICATION Spec
CONSTANTS
  Tag = {t1, t2, t3}
  NSets = 1
  NWays = 2
  Lru = FALSE
  Line = {l1, l2}
  NPorts = 2
INVARIANTS TypeOK L1CopiesAreCurrent L1HoldsLastReads
