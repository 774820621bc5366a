-------------------------- MODULE CacheReplacement --------------------------
(***************************************************************************)
(* Which lines the cache keeps.  The history variables record, for every   *)
(* set, the last lines used and the last lines loaded since init(); the    *)
(* cache itself (DachCache, Replacer) is unchanged and never reads them.   *)
(***************************************************************************)
EXTENDS DachCache

VARIABLES used,    \* per set, the last NWays distinct tags, latest at the end
          loaded   \* per set, the tags of the last NWays misses, latest last

history == <<used, loaded>>

Elements(seq) == {seq[i] : i \in DOMAIN seq}

(* A sequence in which t occurs once at most, without it. *)
Without(seq, t) ==
  IF t \in Elements(seq)
  THEN LET place == CHOOSE i \in DOMAIN seq : seq[i] = t
       IN  [i \in 1 .. Len(seq) - 1 |-> IF i < place THEN seq[i] ELSE seq[i + 1]]
  ELSE seq

(* Tags and dirty bits of invalid lines are never read: one content for    *)
(* all of them is enough.                                                  *)
ReplacementInit == /\ Init
                   /\ \E t \in Tag : tag = [slot \in Slot |-> t]
                   /\ dirty = [slot \in Slot |-> TRUE]
                   /\ used = [s \in Set |-> << >>]
                   /\ loaded = [s \in Set |-> << >>]

Remember(t, s) ==
  /\ used' = [used EXCEPT ![s] = Latest(Append(Without(@, t), t))]
  /\ loaded' = IF IsHit(t, s) THEN loaded
               ELSE [loaded EXCEPT ![s] = Latest(Append(@, t))]

Forget == /\ used' = [s \in Set |-> << >>]
          /\ loaded' = [s \in Set |-> << >>]

ReplacementNext ==
  \/ \E t \in Tag, s \in Set, o \in Off : Get(t, s, o) /\ Remember(t, s)
  \/ \E t \in Tag, s \in Set, o \in Off, d \in Data :
       Put(t, s, o, d) /\ Remember(t, s)
  \/ (Stop \/ FlushLine) /\ UNCHANGED history
  \/ \E t \in Tag, s \in Set, line \in Line :
       HostStore(t, s, line) /\ UNCHANGED history
  \/ Restart /\ Forget

ReplacementSpec == ReplacementInit /\ [][ReplacementNext]_<<vars, history>>
-----------------------------------------------------------------------------
Kept(s) == {tag[<<s, w>>] : w \in {v \in Ways : valid[<<s, v>>]}}

(* LRU: whatever the order of reads, writes, hits and misses, a set holds  *)
(* exactly the NWays lines used last, so a line is only ever lost to NWays *)
(* other lines used after it.                                              *)
LruKeepsRecentLines ==
  Lru => \A s \in Set : Kept(s) = Elements(used[s])

(* The m_lifo counter: a set holds exactly the NWays lines loaded last and *)
(* hits do not prolong a line's stay.                                      *)
FifoKeepsLastLoads ==
  ~Lru => \A s \in Set : Kept(s) = Elements(loaded[s])

(* What replacer.h:7 and cache.h:10 say of the other policy, "last-in      *)
(* first out": the line a full set gives up is the one loaded last.        *)
LastInFirstOut ==
  ~Lru => \A s \in Set :
            (\A w \in Ways : valid[<<s, w>>]) =>
              tag[<<s, VictimWay(s)>>] = loaded[s][Len(loaded[s])]
=============================================================================
