\* A search forwards that wraps round the queue, in one graph of six vertices:
\* 0 -> 1, 2;  1 -> 3, 4;  2 <-> 3;  4 -> 5 -> 1.
SPECIFICATION SccSpec
CONSTANTS
  T = 2
INVARIANT LabelsAreLeastIds
