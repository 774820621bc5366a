----------------------------- MODULE CacheLines -----------------------------
(***************************************************************************)
(* The registers of the cache of acc_impl/src/dach/cache.h and what it     *)
(* computes from them: lookup, choice of a victim, write-back.  DachCache  *)
(* serves requests on them one at a time, DachDataflow through queues.     *)
(*                                                                         *)
(* A word's address is its three fields <<tag, set, offset>> (address.h);  *)
(* a cache line is addressed by its slot <<set, way>>.                     *)
(***************************************************************************)
EXTENDS Replacer

CONSTANTS Tag, NSets, Off, \* fields of an address; N_SETS
          Data,            \* values of a word
          RdEnabled,       \* RD_ENABLED
          WrEnabled        \* WR_ENABLED

Set  == 0 .. NSets - 1
Line == [Off -> Data]
Addr == Tag \X Set
Slot == Set \X Ways

ASSUME CacheAssumption ==
  /\ NSets \in Nat \ {0}
  /\ Tag # {} /\ Off # {} /\ Data # {}
  /\ RdEnabled \in BOOLEAN /\ WrEnabled \in BOOLEAN
  /\ RdEnabled \/ WrEnabled

VARIABLES
  mem,                        \* *main_mem, a line for each <<tag, set>>
  tag, valid, dirty, data,    \* m_tag, m_valid, m_dirty, m_cache_mem
  order, next                 \* the replacer's m_lru and m_lifo

replacer == <<order, next>>
lines    == <<tag, valid, dirty, data>>

-----------------------------------------------------------------------------
(* Mutant: the search loop starts at way 1. *)
HitWaysFromOne(t, s) == {w \in Ways \ {0} : valid[<<s, w>>] /\ tag[<<s, w>>] = t}

(* hit(): the last way that holds the line. *)
HitWays(t, s) == {w \in Ways : valid[<<s, w>>] /\ tag[<<s, w>>] = t}
IsHit(t, s)   == HitWays(t, s) # {}
HitWay(t, s)  == CHOOSE w \in HitWays(t, s) : \A v \in HitWays(t, s) : v <= w

VictimWay(s) == GetWay(order[s], next[s])

(* The address the replaced line is written back to: its own tag, this set.*)
WriteBackAddr(slot) == <<tag[slot], slot[1]>>

(* Mutant: a dirty line is replaced without being written back. *)
MustWriteBackNever(slot) == FALSE

MustWriteBack(slot) == WrEnabled /\ valid[slot] /\ dirty[slot]

(* Power-up and init(): m_valid is cleared and the replacer initialised;   *)
(* tags, dirty bits and line memory hold whatever they held.               *)
LinesInit ==
  /\ mem \in [Addr -> Line]
  /\ tag \in [Slot -> Tag]
  /\ dirty \in [Slot -> BOOLEAN]
  /\ data \in [Slot -> Line]
  /\ valid = [slot \in Slot |-> FALSE]
  /\ order = [s \in Set |-> InitialOrder]
  /\ next = [s \in Set |-> 0]
-----------------------------------------------------------------------------
LinesTypeOK ==
  /\ mem \in [Addr -> Line]
  /\ tag \in [Slot -> Tag] /\ valid \in [Slot -> BOOLEAN]
  /\ dirty \in [Slot -> BOOLEAN] /\ data \in [Slot -> Line]
  /\ order \in [Set -> [Ways -> Ways]] /\ next \in [Set -> Ways]

(* A set never holds the same line twice: a second copy would make hit()   *)
(* choose one of two and leave the other to be written back over it.       *)
UniqueTags ==
  \A s \in Set : \A v, w \in Ways :
    /\ valid[<<s, v>>] /\ valid[<<s, w>>]
    /\ tag[<<s, v>>] = tag[<<s, w>>]
    => v = w

(* m_lru stays an array in which every way occurs exactly once, whatever   *)
(* the order of hits, insertions and restarts: a way that dropped out of   *)
(* it could never be replaced again and another would be replaced twice.   *)
LruHoldsEveryWay == \A s \in Set : IsOrder(order[s])
=============================================================================
