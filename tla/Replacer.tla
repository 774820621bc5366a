------------------------------ MODULE Replacer ------------------------------
(***************************************************************************)
(* The replacement policy of one cache set: class replacer of              *)
(* acc_impl/src/dach/replacer.h.  Its state is held by the cache that uses *)
(* it; the operators below are what the methods do to that state.          *)
(*                                                                         *)
(* m_lru[set] is an array of ways ordered from the least to the most       *)
(* recently used one.  m_lifo[set] is a counter of WAY_SIZE bits.          *)
(***************************************************************************)
EXTENDS Integers, Sequences

CONSTANTS NWays,   \* N_WAYS: ways per set
          Lru      \* LRU: TRUE selects the m_lru policy, FALSE the m_lifo one

(* cache.h and l1_cache.h assert a positive power of two.  Only positivity *)
(* matters to the array; the counter needs the power of two to wrap at     *)
(* NWays, which the specification states as arithmetic modulo NWays.       *)
ASSUME ReplacerAssumption == /\ NWays \in Nat \ {0}
                             /\ Lru \in BOOLEAN

Ways == 0 .. NWays - 1

(* init() *)
InitialOrder == [i \in Ways |-> i]

(* The array holds every way exactly once. *)
IsOrder(order) ==
  /\ order \in [Ways -> Ways]
  /\ \A i, j \in Ways : order[i] = order[j] => i = j
  /\ \A w \in Ways : \E i \in Ways : order[i] = w

(* The search loop of notify_use: the last index that holds w, -1 if none. *)
Position(order, w) ==
  IF \E i \in Ways : order[i] = w
  THEN CHOOSE i \in Ways : /\ order[i] = w
                           /\ \A j \in Ways : order[j] = w => j <= i
  ELSE -1

(* Mutant: the shift starts one place too late. *)
NotifyUseShiftsLate(order, w) ==
  IF Lru
  THEN [i \in Ways |-> IF i = NWays - 1 THEN w
                       ELSE IF i > Position(order, w) THEN order[i + 1]
                       ELSE order[i]]
  ELSE order

(* notify_use: close the gap w leaves by shifting left, put w rightmost. *)
NotifyUse(order, w) ==
  IF Lru
  THEN [i \in Ways |-> IF i = NWays - 1 THEN w
                       ELSE IF i >= Position(order, w) THEN order[i + 1]
                       ELSE order[i]]
  ELSE order

(* Mutant: the counter stops at the last way instead of wrapping. *)
NotifyInsertionSaturates(next) ==
  IF Lru \/ next = NWays - 1 THEN next ELSE next + 1

(* Mutant: the counter is wider than log2(NWays) bits. *)
NotifyInsertionNoWrap(next) == IF Lru THEN next ELSE next + 1

(* notify_insertion: ++ on an unsigned counter of log2(NWays) bits. *)
NotifyInsertion(next) == IF Lru THEN next ELSE (next + 1) % NWays

(* Mutant: the most recently used way is replaced, the counter ignored. *)
GetWayMostRecent(order, next) == IF Lru THEN order[NWays - 1] ELSE 0

(* get_way *)
GetWay(order, next) == IF Lru THEN order[0] ELSE next
-----------------------------------------------------------------------------
(* For histories of a set: the last NWays elements of one that has grown.  *)
Latest(seq) == IF Len(seq) > NWays THEN Tail(seq) ELSE seq

(* A history of a set to which t is added.                                 *)
After(seq, t) == Latest(Append(seq, t))

(* The way the counter n was at k insertions ago.                          *)
Back(n, k) == IF k <= n THEN n - k ELSE n - k + NWays
=============================================================================
