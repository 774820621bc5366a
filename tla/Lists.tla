-------------------------------- MODULE Lists --------------------------------
(***************************************************************************)
(* Neighbour lists as the triangle kernels of acc_impl/src see them: a     *)
(* list is asked for by the place of its first element in the column       *)
(* array and its length, memory is read in words of T elements, and a      *)
(* buffer holds words from the one on that the list starts in.             *)
(***************************************************************************)
EXTENDS Integers, Sequences
LOCAL INSTANCE FiniteSets
LOCAL INSTANCE FiniteSetsExt
LOCAL INSTANCE Functions

CONSTANT T

None == -1

List(offset, length) == [offset |-> offset, length |-> length]

First(r) == r.offset \div T
End(r)   == (r.offset + r.length + T - 1) \div T

(* A buffer of n words holds, at each place, a word of memory by its number. *)
Blank(n) == [p \in 0 .. n - 1 |-> None]

(* Words lo to hi - 1 are copied to the start of a buffer.                  *)
Copied(buffer, lo, hi) == [p \in DOMAIN buffer |-> IF lo + p < hi THEN lo + p ELSE buffer[p]]

(* Element p of a buffer; what lies behind the buffer is anything.          *)
Element(column, buffer, p) ==
  LET i == IF p \div T \in DOMAIN buffer THEN buffer[p \div T] * T + (p % T) ELSE None
  IN  IF i \in DOMAIN column THEN column[i] ELSE None

(* The length elements of a buffer from place start on.                     *)
Elements(column, buffer, start, length) ==
  [i \in 1 .. length |-> Element(column, buffer, start + i - 1)]

(* The list in memory that a request is for.                                *)
InMemory(column, r) == [i \in 1 .. r.length |-> column[r.offset + i - 1]]

(* setIntersection: the two lists are walked side by side.                  *)
RECURSIVE Matches(_, _)
Matches(a, b) ==
  IF a = << >> \/ b = << >> THEN 0
  ELSE IF Head(a) < Head(b) THEN Matches(Tail(a), b)
  ELSE IF Head(a) > Head(b) THEN Matches(a, Tail(b))
  ELSE 1 + Matches(Tail(a), Tail(b))

(* The largest power of two that is no larger than high.                   *)
msb(high) == Max({k \in {2 ^ n : n \in 0 .. 9} : k <= high})

(* Mutant: the search starts one step too low. *)
FirstStepHalf(high) == IF high = 0 THEN 0 ELSE msb(high) \div 2

FirstStep(high) == IF high = 0 THEN 0 ELSE msb(high)

(* lbitBinarySearch: i grows by smaller and smaller powers of two, up to   *)
(* the last element that is not larger than the key.  List elements count  *)
(* from 0 here.                                                            *)
RECURSIVE Narrow(_, _, _, _)
Narrow(list, key, i, k) ==
  IF k = 0 THEN i
  ELSE LET r == i + k
       IN  IF r < Len(list) /\ list[r + 1] <= key THEN Narrow(list, key, r, k \div 2)
           ELSE Narrow(list, key, i, k \div 2)

lbitBinarySearch(list, key) ==
  LET k == FirstStep(Len(list) - 1)
      i == Narrow(list, key, IF list[k + 1] <= key THEN k ELSE 0, k \div 2)
  IN  list[i + 1] = key

(* loadCpyListA for lane j: c holds its buffers, what is in them (tag), and *)
(* the list that was loaded last.                                          *)
HeldA(c, j, r)   == r.offset = c.tag[j]

(* Mutant: any list is taken for the one in the cache. *)
CachedAnyA(c, r) == c.cached.tag # None

CachedA(c, r)    == r.offset = c.cached.tag

LoadA(c, j, r) ==
  LET new == Copied(c.buffer[j], First(r), End(r))
  IN  IF HeldA(c, j, r) THEN c
      ELSE IF CachedA(c, r)
      THEN [c EXCEPT !.tag[j] = r.offset,
                     !.buffer[j] = [p \in DOMAIN @ |-> IF p < c.cached.len THEN c.cached.buffer[p] ELSE @[p]]]
      ELSE [tag |-> [c.tag EXCEPT ![j] = r.offset], buffer |-> [c.buffer EXCEPT ![j] = new],
            cached |-> [tag |-> r.offset, len |-> End(r) - First(r),
                        buffer |-> Copied(c.cached.buffer, First(r), End(r))]]

Smaller(m, n) == IF m < n THEN m ELSE n
Larger(m, n)  == IF m > n THEN m ELSE n

(* Words lo to hi - 1 go to every lane that asked for them.                *)
Spread(buffers, requests, lo, hi) ==
  [j \in DOMAIN buffers |-> [p \in DOMAIN buffers[j] |->
     LET w == First(requests[j]) + p
     IN  IF w < End(requests[j]) /\ w \in lo .. hi - 1 THEN w ELSE buffers[j][p]]]

Sum(s) == FoldFunction(+, 0, s)

(* What the triangle kernels are to return: how many vertices the lists of  *)
(* the two ends of an edge have in common, over all edges.                  *)
Triangles(g, edges) ==
  LET Neighbours(v) == {g.column[i] : i \in g.offset[v] .. g.offset[v + 1] - 1}
      both(e) == {w \in Neighbours(e[1]) : w \in Neighbours(e[2])}
      pairs == {p \in (1 .. Len(edges)) \X (0 .. g.num - 1) : p[2] \in both(edges[p[1]])}
  IN  Cardinality(pairs)
=============================================================================
