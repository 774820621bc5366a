----------------------- MODULE CacheReplacementProofs -----------------------
(***************************************************************************)
(* The caches of both policies that MCCacheReplacement puts side by side,  *)
(* for every number of sets and ways.                                      *)
(***************************************************************************)
EXTENDS MCCacheReplacement, DachCacheProofs

(* What is proved of any cache, for the one with the counter. *)
F == INSTANCE DachCacheProofs WITH Lru <- FALSE

(* The LRU cache that is model-checked keeps exactly the NWays lines used  *)
(* last.                                                                   *)
THEOREM LruCacheKeepsLastUsed == MCSpec => []LruCacheKeepsRecentLines
<1> DEFINE I == policy = "lru" => HistoryInv
<1>1. MCInit => I
  BY InitEstablishesHistory DEF MCInit
<1>2. I /\ [MCNext]_<<vars, history, policy>> => I'
  <2> SUFFICES ASSUME I, [MCNext]_<<vars, history, policy>>, policy' = "lru"
               PROVE  HistoryInv'
    OBVIOUS
  <2>1. policy = "lru" /\ [ReplacementNext]_<<vars, history>>
    BY DEF MCNext
  <2>. QED BY <2>1, StepKeepsHistory
<1>3. I => LruCacheKeepsRecentLines
  BY LruHoldsUsed DEF LruCacheKeepsRecentLines
<1> HIDE DEF I
<1>. QED BY <1>1, <1>2, <1>3, PTL DEF MCSpec
-----------------------------------------------------------------------------
(* Fifo of MCCacheReplacement and F are instances of the same definitions. *)
LEMMA SameInit == Fifo!ReplacementInit => F!ReplacementInit
BY DEF Fifo!ReplacementInit, F!ReplacementInit, Fifo!Init, F!Init, Fifo!LinesInit,
       F!LinesInit, Fifo!Addr, F!Addr, Fifo!Slot, F!Slot, Fifo!Set, F!Set, Fifo!Ways,
       F!Ways, Fifo!Line, F!Line, Fifo!InitialOrder, F!InitialOrder

LEMMA SameRemember == \A t, s : Fifo!Remember(t, s) <=> F!Remember(t, s)
BY DEF Fifo!Remember, F!Remember, Fifo!Latest, F!Latest, Fifo!Without, F!Without,
       Fifo!Elements, F!Elements, Fifo!IsHit, F!IsHit, Fifo!HitWays, F!HitWays, Fifo!Ways,
       F!Ways

LEMMA SameGet == \A t, s, o : Fifo!Get(t, s, o) <=> F!Get(t, s, o)
BY DEF Fifo!Get, F!Get, Fifo!NotifyUse, F!NotifyUse, Fifo!Position, F!Position,
       Fifo!NotifyInsertion, F!NotifyInsertion, Fifo!GetWay, F!GetWay, Fifo!VictimWay,
       F!VictimWay, Fifo!HitWays, F!HitWays, Fifo!IsHit, F!IsHit, Fifo!HitWay, F!HitWay,
       Fifo!MustWriteBack, F!MustWriteBack, Fifo!WriteBackAddr, F!WriteBackAddr,
       Fifo!Fetch, F!Fetch, Fifo!FetchedLine, F!FetchedLine, Fifo!Ways, F!Ways

LEMMA SamePut == \A t, s, o, d : Fifo!Put(t, s, o, d) <=> F!Put(t, s, o, d)
BY DEF Fifo!Put, F!Put, Fifo!NotifyUse, F!NotifyUse, Fifo!Position, F!Position,
       Fifo!NotifyInsertion, F!NotifyInsertion, Fifo!GetWay, F!GetWay, Fifo!VictimWay,
       F!VictimWay, Fifo!HitWays, F!HitWays, Fifo!IsHit, F!IsHit, Fifo!HitWay, F!HitWay,
       Fifo!MustWriteBack, F!MustWriteBack, Fifo!WriteBackAddr, F!WriteBackAddr,
       Fifo!Fetch, F!Fetch, Fifo!FetchedLine, F!FetchedLine, Fifo!Ways, F!Ways

LEMMA SameOther ==
  /\ Fifo!Stop <=> F!Stop
  /\ Fifo!FlushLine <=> F!FlushLine
  /\ \A t, s, line : Fifo!HostStore(t, s, line) <=> F!HostStore(t, s, line)
  /\ Fifo!Restart /\ Fifo!Forget <=> F!Restart /\ F!Forget
BY DEF Fifo!Stop, F!Stop, Fifo!FlushLine, F!FlushLine, Fifo!HostStore, F!HostStore,
       Fifo!Restart, F!Restart, Fifo!Forget, F!Forget, Fifo!WriteBackAddr,
       F!WriteBackAddr, Fifo!lines, F!lines, Fifo!replacer, F!replacer, Fifo!Slot, F!Slot,
       Fifo!Set, F!Set, Fifo!Ways, F!Ways, Fifo!InitialOrder, F!InitialOrder

LEMMA SameStep == [Fifo!ReplacementNext]_<<vars, history>>
                  => [F!ReplacementNext]_<<F!vars, F!history>>
<1>1. Fifo!ReplacementNext => F!ReplacementNext
  BY SameRemember, SameGet, SamePut, SameOther
  DEF Fifo!ReplacementNext, F!ReplacementNext, Fifo!history, F!history, Fifo!Set, F!Set,
      Fifo!Line, F!Line
<1>2. UNCHANGED <<vars, history>> => UNCHANGED <<F!vars, F!history>>
  BY DEF vars, history, F!vars, F!history, lines, F!lines, replacer, F!replacer
<1>. QED BY <1>1, <1>2

LEMMA SameKeeps == F!FifoKeepsLastLoads => Fifo!FifoKeepsLastLoads
BY DEF Fifo!FifoKeepsLastLoads, F!FifoKeepsLastLoads, Fifo!Set, F!Set, Fifo!Ways, F!Ways,
       Fifo!Kept, F!Kept, Fifo!Elements, F!Elements

(* The cache with the counter that is model-checked keeps exactly the      *)
(* NWays lines loaded last; hits do not prolong a line's stay.             *)
THEOREM FifoCacheKeepsLastLoaded == MCSpec => []FifoCacheKeepsLastLoads
<1> DEFINE I == policy = "fifo" => F!HistoryInv
<1>1. MCInit => I
  BY F!InitEstablishesHistory, SameInit, ReplacerAssumption, CacheAssumption DEF MCInit
<1>2. I /\ [MCNext]_<<vars, history, policy>> => I'
  <2> SUFFICES ASSUME I, [MCNext]_<<vars, history, policy>>, policy' = "fifo"
               PROVE  F!HistoryInv'
    OBVIOUS
  <2>1. policy = "fifo" /\ [Fifo!ReplacementNext]_<<vars, history>>
    BY DEF MCNext
  <2>. QED BY <2>1, SameStep, F!StepKeepsHistory, ReplacerAssumption, CacheAssumption
<1>3. I => FifoCacheKeepsLastLoads
  BY F!FifoHoldsLoaded, SameKeeps, ReplacerAssumption, CacheAssumption
     DEF FifoCacheKeepsLastLoads
<1> HIDE DEF I
<1>. QED BY <1>1, <1>2, <1>3, PTL DEF MCSpec
=============================================================================
