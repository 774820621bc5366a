\* The registers and the distance of cache.h: two lines forwarded, writes
\* visible from the third iteration on.
SPECIFICATION Spec
CONSTANTS
  Slot = {s1, s2, s3}
  Line = {l1, l2}
  Distance = 2
  RawDistance = 3
  None = None
INVARIANTS TypeOK ReadsLastWrite
