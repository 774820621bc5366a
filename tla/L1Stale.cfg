\* The same caches: reads of a line after it was written.
SPECIFICATION Spec
CONSTANTS
  Tag = {t1, t2, t3}
  NSets = 1
  NWays = 2
  Lru = FALSE
  Line = {l1, l2}
  NPorts = 2
INVARIANT L1ReadsSeeWrites
