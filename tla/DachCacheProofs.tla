--------------------------- MODULE DachCacheProofs ---------------------------
(***************************************************************************)
(* Proofs about DachCache for every number of sets and ways, every set of  *)
(* tags, offsets and values, and every configuration of the template; and  *)
(* about the lines that its sets hold (CacheReplacement).                  *)
(***************************************************************************)
EXTENDS CacheReplacement, TLAPS

-----------------------------------------------------------------------------
(* What the operators of Replacer do.                                      *)

(* The ways are the integers from 0 to NWays - 1. *)
LEMMA WaysFacts == /\ Ways \subseteq Int
                   /\ 0 \in Ways /\ NWays - 1 \in Ways
                   /\ \A w \in Ways : 0 <= w /\ w <= NWays - 1
BY ReplacerAssumption DEF Ways

(* In an order, the search loop of notify_use finds the one index of w. *)
LEMMA PositionFound ==
  ASSUME NEW ord, IsOrder(ord), NEW i \in Ways
  PROVE  Position(ord, ord[i]) = i
<1> DEFINE P(k) == /\ ord[k] = ord[i]
                   /\ \A j \in Ways : ord[j] = ord[i] => j <= k
<1>1. \E k \in Ways : ord[k] = ord[i]
  OBVIOUS
<1>2. \A k \in Ways : P(k) => k = i
  BY DEF IsOrder
<1>3. P(i)
  BY WaysFacts DEF IsOrder
<1>4. (CHOOSE k \in Ways : P(k)) = i
  BY <1>2, <1>3
<1>. QED BY <1>1, <1>4 DEF Position

(* notify_use moves w to the end and keeps every other way exactly once. *)
LEMMA NotifyUseOrder ==
  ASSUME NEW ord, IsOrder(ord), NEW w \in Ways
  PROVE  IsOrder(NotifyUse(ord, w))
<1>1. CASE ~Lru
  BY <1>1 DEF NotifyUse
<1>2. CASE Lru
  <2>1. PICK p \in Ways : ord[p] = w
    BY DEF IsOrder
  <2>2. Position(ord, w) = p
    BY <2>1, PositionFound
  <2> DEFINE new == [i \in Ways |-> IF i = NWays - 1 THEN w
                                    ELSE IF i >= p THEN ord[i + 1]
                                    ELSE ord[i]]
  <2>3. NotifyUse(ord, w) = new
    BY <1>2, <2>2 DEF NotifyUse
  <2>a. \A i \in Ways : i # NWays - 1 => i + 1 \in Ways
    BY ReplacerAssumption DEF Ways
  <2>b. ord \in [Ways -> Ways] /\ \A i, j \in Ways : ord[i] = ord[j] => i = j
    BY DEF IsOrder
  <2>4. new \in [Ways -> Ways]
    BY <2>a, <2>b, WaysFacts
  <2>5. ASSUME NEW i \in Ways, NEW j \in Ways, new[i] = new[j]
        PROVE  i = j
    <3> DEFINE src(k) == IF k = NWays - 1 THEN p ELSE IF k >= p THEN k + 1 ELSE k
    <3>1. \A k \in Ways : src(k) \in Ways /\ new[k] = ord[src(k)]
      BY <2>1, <2>a
    <3>2. src(i) = src(j)
      BY <2>5, <2>b, <3>1
    <3>. QED BY <3>2, WaysFacts
  <2>6. ASSUME NEW v \in Ways
        PROVE  \E i \in Ways : new[i] = v
    <3>1. PICK k \in Ways : ord[k] = v
      BY DEF IsOrder
    <3>2. CASE k < p
      BY <2>1, <3>1, <3>2, WaysFacts
    <3>3. CASE k = p
      BY <2>1, <3>1, <3>3, WaysFacts
    <3>4. CASE k > p
      <4>1. k - 1 \in Ways /\ k - 1 # NWays - 1 /\ k - 1 >= p
        BY <3>4, ReplacerAssumption DEF Ways
      <4>2. new[k - 1] = ord[k]
        BY <4>1, WaysFacts
      <4>. QED BY <3>1, <4>1, <4>2
    <3>. QED BY <3>2, <3>3, <3>4, WaysFacts
  <2>. QED BY <2>3, <2>4, <2>5, <2>6 DEF IsOrder
<1>. QED BY <1>1, <1>2

(* Seen from the end of the order: the way used is last, those that were   *)
(* behind it go one place to the front, those before it stay.              *)
LEMMA OrderStep ==
  ASSUME Lru, NEW ord, IsOrder(ord), NEW q \in 1 .. NWays, NEW w, w = ord[NWays - q]
  PROVE  /\ NotifyUse(ord, w)[NWays - 1] = w
         /\ \A k \in 2 .. NWays :
              NotifyUse(ord, w)[NWays - k] =
                IF k <= q THEN ord[NWays - (k - 1)] ELSE ord[NWays - k]
<1>1. /\ NWays \in Nat /\ NWays >= 1 /\ NWays - q \in Ways /\ NWays - 1 \in Ways
      /\ \A k \in 2 .. NWays : /\ NWays - k \in Ways /\ NWays - k # NWays - 1
                              /\ (NWays - k) + 1 = NWays - (k - 1)
                              /\ NWays - k >= NWays - q <=> k <= q
  BY ReplacerAssumption DEF Ways
<1>2. Position(ord, w) = NWays - q
  BY <1>1, PositionFound
<1>3. NotifyUse(ord, w) = [i \in Ways |-> IF i = NWays - 1 THEN w
                                          ELSE IF i >= NWays - q THEN ord[i + 1]
                                          ELSE ord[i]]
  BY <1>2 DEF NotifyUse
<1> HIDE DEF NotifyUse
<1>4. NotifyUse(ord, w)[NWays - 1] = w
  BY <1>1, <1>3
<1>5. ASSUME NEW k \in 2 .. NWays
      PROVE  NotifyUse(ord, w)[NWays - k] =
               IF k <= q THEN ord[NWays - (k - 1)] ELSE ord[NWays - k]
  <2> DEFINE i == NWays - k
  <2>1. /\ i \in Ways /\ i # NWays - 1 /\ i + 1 = NWays - (k - 1)
        /\ i >= NWays - q <=> k <= q
    BY ReplacerAssumption DEF Ways
  <2> HIDE DEF i
  <2>2. NotifyUse(ord, w)[i] = IF i >= NWays - q THEN ord[i + 1] ELSE ord[i]
    BY <1>3, <2>1
  <2>. QED BY <2>1, <2>2 DEF i
<1>. QED BY <1>4, <1>5

(* init() puts every way in the order once. *)
LEMMA InitialOrderIsOrder == IsOrder(InitialOrder)
BY DEF IsOrder, InitialOrder

(* notify_insertion keeps the way counter in range. *)
LEMMA NotifyInsertionType ==
  ASSUME NEW n \in Ways PROVE NotifyInsertion(n) \in Ways
BY ReplacerAssumption DEF NotifyInsertion, Ways

(* The counter goes round the ways. *)
LEMMA CounterStep ==
  ASSUME ~Lru, NEW n \in Ways, NEW ord
  PROVE  /\ NotifyInsertion(n) = (IF n = NWays - 1 THEN 0 ELSE n + 1)
         /\ NotifyInsertion(n) \in Ways
         /\ GetWay(ord, n) = n
<1>1. NotifyInsertion(n) = (n + 1) % NWays /\ GetWay(ord, n) = n
  BY DEF NotifyInsertion, GetWay
<1>2. (n + 1) % NWays = (IF n = NWays - 1 THEN 0 ELSE n + 1)
  <2>1. n \in Nat /\ n < NWays /\ NWays \in Nat /\ NWays >= 1
    BY ReplacerAssumption DEF Ways
  <2>. QED BY <2>1
<1>. QED BY <1>1, <1>2, ReplacerAssumption DEF Ways

(* Going back k + 1 insertions from the new count is k from the old one, *)
(* and NWays insertions go once round.                                   *)
LEMMA BackStep ==
  ASSUME ~Lru, NEW n \in Ways
  PROVE  /\ Back(NotifyInsertion(n), 1) = n
         /\ \A k \in 1 .. NWays - 1 :
              /\ Back(NotifyInsertion(n), k + 1) = Back(n, k)
              /\ Back(n, k) # n
         /\ Back(n, NWays) = n
         /\ \A k \in 1 .. NWays : Back(n, k) \in Ways
BY CounterStep, ReplacerAssumption DEF Back, Ways

(* A read puts its tag last in the history and moves the others by one. *)
LEMMA LatestReads ==
  ASSUME NEW S, NEW seq \in Seq(S), Len(seq) <= NWays, NEW t \in S
  PROVE  /\ After(seq, t) \in Seq(S)
         /\ Len(After(seq, t)) = (IF Len(seq) = NWays THEN NWays ELSE Len(seq) + 1)
         /\ After(seq, t)[Len(After(seq, t))] = t
         /\ \A k \in 1 .. Len(seq) : k + 1 <= Len(After(seq, t)) =>
              After(seq, t)[Len(After(seq, t)) + 1 - (k + 1)] = seq[Len(seq) + 1 - k]
<1>1. /\ Len(seq) \in Nat /\ NWays \in Nat /\ NWays >= 1
      /\ Append(seq, t) \in Seq(S) /\ Len(Append(seq, t)) = Len(seq) + 1
      /\ Append(seq, t)[Len(seq) + 1] = t
      /\ \A i \in 1 .. Len(seq) : Append(seq, t)[i] = seq[i]
  BY ReplacerAssumption
<1>2. CASE Len(seq) = NWays
  <2>1. After(seq, t) = Tail(Append(seq, t))
    BY <1>1, <1>2 DEF After, Latest
  <2>2. /\ After(seq, t) \in Seq(S) /\ Len(After(seq, t)) = NWays
        /\ \A i \in 1 .. NWays : After(seq, t)[i] = Append(seq, t)[i + 1]
    BY <1>1, <1>2, <2>1
  <2>3. ASSUME NEW k \in 1 .. Len(seq), k + 1 <= NWays
        PROVE  After(seq, t)[NWays + 1 - (k + 1)] = seq[Len(seq) + 1 - k]
    <3>1. /\ NWays + 1 - (k + 1) \in 1 .. NWays
          /\ (NWays + 1 - (k + 1)) + 1 = Len(seq) + 1 - k
          /\ Len(seq) + 1 - k \in 1 .. Len(seq)
      BY <1>1, <1>2, <2>3
    <3>. QED BY <1>1, <2>2, <3>1
  <2>4. After(seq, t)[NWays] = t
    BY <1>1, <1>2, <2>2
  <2>. QED BY <1>2, <2>2, <2>3, <2>4
<1>3. CASE Len(seq) # NWays
  <2>1. After(seq, t) = Append(seq, t)
    BY <1>1, <1>3 DEF After, Latest
  <2>. QED BY <1>1, <1>3, <2>1
<1>. QED BY <1>2, <1>3
-----------------------------------------------------------------------------
(* The lines flush has passed are not dirty. *)
FlushedPrefix ==
  phase = "flushing" =>
    \A s \in Set, w \in Ways :
      (s < fset \/ (s = fset /\ w < fway)) =>
        ~(valid[<<s, w>>] /\ dirty[<<s, w>>])

(* A cache without the write path never marks a line dirty. *)
ReadOnlyIsClean ==
  ~WrEnabled => \A slot \in Slot : valid[slot] => ~dirty[slot]

(* Outside flush its loop counters are at the first line. *)
FlushStartsAtZero == phase # "flushing" => fset = 0 /\ fway = 0

CacheInv == /\ TypeOK
            /\ UniqueTags
            /\ CleanLinesMatchMemory
            /\ LruHoldsEveryWay
            /\ FlushedPrefix
            /\ ReadOnlyIsClean
            /\ FlushStartsAtZero
-----------------------------------------------------------------------------
(* hit() *)

(* With unique tags a valid copy is the one hit() finds. *)
LEMMA HitFound ==
  ASSUME UniqueTags, NEW t, NEW s \in Set, NEW w \in Ways,
         valid[<<s, w>>], tag[<<s, w>>] = t
  PROVE  IsHit(t, s) /\ HitWay(t, s) = w
<1>1. HitWays(t, s) = {w}
  BY DEF HitWays, UniqueTags
<1>2. \A v \in {w} : v <= w
  BY WaysFacts
<1>. QED BY <1>1, <1>2 DEF IsHit, HitWay

(* On a hit, the way hit() returns is valid and holds the line. *)
LEMMA HitHolds ==
  ASSUME UniqueTags, NEW t, NEW s \in Set, IsHit(t, s)
  PROVE  /\ HitWay(t, s) \in Ways
         /\ valid[<<s, HitWay(t, s)>>] /\ tag[<<s, HitWay(t, s)>>] = t
<1>1. PICK w \in Ways : valid[<<s, w>>] /\ tag[<<s, w>>] = t
  BY DEF IsHit, HitWays
<1>. QED BY <1>1, HitFound

(* On a miss, no way of the set holds the line. *)
LEMMA MissHasNoCopy ==
  ASSUME NEW t, NEW s \in Set
  PROVE  ~IsHit(t, s) <=> \A w \in Ways : ~(valid[<<s, w>>] /\ tag[<<s, w>>] = t)
BY DEF IsHit, HitWays

(* What a get or set finds, in the cache or in memory, is a line. *)
LEMMA FetchedLineType ==
  ASSUME TypeOK, UniqueTags, NEW t \in Tag, NEW s \in Set
  PROVE  FetchedLine(t, s) \in Line
<1>1. CASE IsHit(t, s)
  BY <1>1, HitHolds DEF FetchedLine, TypeOK, LinesTypeOK, Slot
<1>2. CASE ~IsHit(t, s)
  BY <1>2 DEF FetchedLine, TypeOK, LinesTypeOK, Addr
<1>. QED BY <1>1, <1>2
-----------------------------------------------------------------------------
(* What Fetch leaves behind, hit or miss: slot <<s, w>> holds line t, no   *)
(* other way of the set did, and only the replaced line was written back.  *)
LEMMA FetchEffect ==
  ASSUME TypeOK, UniqueTags, NEW t \in Tag, NEW s \in Set, NEW w \in Ways,
         Fetch(t, s, w)
  PROVE  /\ tag' = [tag EXCEPT ![<<s, w>>] = t]
         /\ valid' = [valid EXCEPT ![<<s, w>>] = TRUE]
         /\ \A v \in Ways : valid[<<s, v>>] /\ tag[<<s, v>>] = t =>
                              v = w /\ IsHit(t, s)
         /\ IsHit(t, s) => valid[<<s, w>>] /\ tag[<<s, w>>] = t /\ w = HitWay(t, s)
         /\ mem' \in [Addr -> Line]
         /\ \/ mem' = mem /\ (IsHit(t, s) \/ ~MustWriteBack(<<s, w>>))
            \/ /\ ~IsHit(t, s) /\ MustWriteBack(<<s, w>>)
               /\ mem' = [mem EXCEPT ![WriteBackAddr(<<s, w>>)] = data[<<s, w>>]]
<1>1. CASE IsHit(t, s)
  <2>1. w = HitWay(t, s) /\ UNCHANGED <<mem, tag, valid>>
    BY <1>1 DEF Fetch
  <2>2. valid[<<s, w>>] /\ tag[<<s, w>>] = t
    BY <1>1, <2>1, HitHolds
  <2>3. \A v \in Ways : valid[<<s, v>>] /\ tag[<<s, v>>] = t => v = w
    BY <2>2 DEF UniqueTags
  <2>4. <<s, w>> \in Slot
    BY DEF Slot
  <2>. QED BY <1>1, <2>1, <2>2, <2>3, <2>4 DEF TypeOK, LinesTypeOK
<1>2. CASE ~IsHit(t, s)
  <2>1. /\ tag' = [tag EXCEPT ![<<s, w>>] = t]
        /\ valid' = [valid EXCEPT ![<<s, w>>] = TRUE]
        /\ mem' = IF MustWriteBack(<<s, w>>)
                  THEN [mem EXCEPT ![WriteBackAddr(<<s, w>>)] = data[<<s, w>>]]
                  ELSE mem
    BY <1>2 DEF Fetch
  <2>2. data[<<s, w>>] \in Line
    BY DEF TypeOK, LinesTypeOK, Slot
  <2>3. mem' \in [Addr -> Line]
    BY <2>1, <2>2 DEF TypeOK, LinesTypeOK
  <2>. QED BY <1>2, <2>1, <2>3, MissHasNoCopy
<1>. QED BY <1>1, <1>2

(* Serving a request keeps the replacer complete and in range. *)
LEMMA FetchReplacer ==
  ASSUME TypeOK, LruHoldsEveryWay, NEW t, NEW s \in Set, NEW w \in Ways,
         Fetch(t, s, w)
  PROVE  /\ order' \in [Set -> [Ways -> Ways]] /\ next' \in [Set -> Ways]
         /\ LruHoldsEveryWay'
<1>1. order' = [order EXCEPT ![s] = NotifyUse(order[s], w)]
  BY DEF Fetch
<1>2. IsOrder(NotifyUse(order[s], w))
  BY NotifyUseOrder DEF LruHoldsEveryWay
<1>3. order' \in [Set -> [Ways -> Ways]]
  BY <1>1, <1>2 DEF TypeOK, LinesTypeOK, IsOrder
<1>4. LruHoldsEveryWay'
  BY <1>1, <1>2 DEF TypeOK, LinesTypeOK, LruHoldsEveryWay
<1>5. next' \in [Set -> Ways]
  BY NotifyInsertionType DEF TypeOK, LinesTypeOK, Fetch
<1>. QED BY <1>3, <1>4, <1>5

(* After the write-back the loaded line is still what it was read as, and  *)
(* so is the memory behind every other cached line.                        *)
LEMMA WriteBackKeepsOthers ==
  ASSUME TypeOK, UniqueTags, NEW t \in Tag, NEW s \in Set, NEW w \in Ways,
         Fetch(t, s, w)
  PROVE  /\ ~IsHit(t, s) => mem'[<<t, s>>] = mem[<<t, s>>]
         /\ \A r \in Set, v \in Ways :
              valid[<<r, v>>] /\ <<r, v>> # <<s, w>> =>
                mem'[<<tag[<<r, v>>], r>>] = mem[<<tag[<<r, v>>], r>>]
<1>1. CASE mem' = mem
  BY <1>1
<1>2. CASE /\ ~IsHit(t, s) /\ MustWriteBack(<<s, w>>)
           /\ mem' = [mem EXCEPT ![WriteBackAddr(<<s, w>>)] = data[<<s, w>>]]
  <2>1. \A a \in Addr : a # <<tag[<<s, w>>], s>> => mem'[a] = mem[a]
    <3>1. WriteBackAddr(<<s, w>>) = <<tag[<<s, w>>], s>>
      BY DEF WriteBackAddr
    <3>. QED BY <1>2, <3>1 DEF TypeOK, LinesTypeOK
  <2>2. valid[<<s, w>>] /\ tag[<<s, w>>] # t
    BY <1>2, MissHasNoCopy DEF MustWriteBack
  <2>3. <<t, s>> \in Addr /\ <<t, s>> # <<tag[<<s, w>>], s>>
    BY <2>2 DEF Addr
  <2>4. ASSUME NEW r \in Set, NEW v \in Ways,
               valid[<<r, v>>], <<r, v>> # <<s, w>>
        PROVE  mem'[<<tag[<<r, v>>], r>>] = mem[<<tag[<<r, v>>], r>>]
    <3>1. <<tag[<<r, v>>], r>> # <<tag[<<s, w>>], s>>
      BY <2>2, <2>4 DEF UniqueTags
    <3>2. <<tag[<<r, v>>], r>> \in Addr
      BY DEF TypeOK, LinesTypeOK, Addr, Slot
    <3>. QED BY <2>1, <3>1, <3>2
  <2>. QED BY <2>1, <2>3, <2>4
<1>3. \/ mem' = mem
      \/ /\ ~IsHit(t, s) /\ MustWriteBack(<<s, w>>)
         /\ mem' = [mem EXCEPT ![WriteBackAddr(<<s, w>>)] = data[<<s, w>>]]
  BY FetchEffect
<1>. QED BY <1>1, <1>2, <1>3
-----------------------------------------------------------------------------
(* A get or set that leaves the line "line" in slot <<s, w>>, marked dirty *)
(* when it differs from main memory, preserves the invariant.              *)
LEMMA AccessKeepsInv ==
  ASSUME CacheInv, phase = "running",
         NEW t \in Tag, NEW s \in Set, NEW w \in Ways, Fetch(t, s, w),
         NEW line \in Line, NEW b \in BOOLEAN,
         data' = [data EXCEPT ![<<s, w>>] = line],
         dirty' = [dirty EXCEPT ![<<s, w>>] = b],
         b \/ line = mem'[<<t, s>>],
         b => WrEnabled,
         UNCHANGED <<phase, fset, fway>>
  PROVE  CacheInv'
<1> USE DEF CacheInv
<1> DEFINE slot == <<s, w>>
<1>0. slot \in Slot
  BY DEF Slot
<1>1. /\ tag' = [tag EXCEPT ![slot] = t]
      /\ valid' = [valid EXCEPT ![slot] = TRUE]
      /\ \A v \in Ways : valid[<<s, v>>] /\ tag[<<s, v>>] = t => v = w
      /\ mem' \in [Addr -> Line]
  BY FetchEffect
<1>2. \A x \in Slot : x # slot =>
        /\ tag'[x] = tag[x] /\ valid'[x] = valid[x]
        /\ dirty'[x] = dirty[x] /\ data'[x] = data[x]
  BY <1>1 DEF TypeOK, LinesTypeOK
<1>3. tag'[slot] = t /\ valid'[slot] /\ dirty'[slot] = b /\ data'[slot] = line
  BY <1>0, <1>1 DEF TypeOK, LinesTypeOK
<1>4. TypeOK'
  BY <1>1, FetchReplacer DEF TypeOK, LinesTypeOK
<1>5. UniqueTags'
  <2>1. ASSUME NEW r \in Set, NEW u \in Ways, NEW v \in Ways,
               valid'[<<r, u>>], valid'[<<r, v>>],
               tag'[<<r, u>>] = tag'[<<r, v>>]
        PROVE  u = v
    <3>0. <<r, u>> \in Slot /\ <<r, v>> \in Slot
      BY DEF Slot
    <3>1. CASE r # s
      BY <1>2, <2>1, <3>0, <3>1 DEF UniqueTags
    <3>2. CASE r = s /\ u # w /\ v # w
      BY <1>2, <2>1, <3>0, <3>2 DEF UniqueTags
    <3>3. CASE r = s /\ u = w /\ v # w
      BY <1>1, <1>2, <1>3, <2>1, <3>0, <3>3
    <3>4. CASE r = s /\ u # w /\ v = w
      BY <1>1, <1>2, <1>3, <2>1, <3>0, <3>4
    <3>. QED BY <3>1, <3>2, <3>3, <3>4
  <2>. QED BY <2>1 DEF UniqueTags
<1>6. CleanLinesMatchMemory'
  <2>1. ASSUME NEW r \in Set, NEW v \in Ways, valid'[<<r, v>>], ~dirty'[<<r, v>>]
        PROVE  data'[<<r, v>>] = mem'[<<tag'[<<r, v>>], r>>]
    <3>0. <<r, v>> \in Slot
      BY DEF Slot
    <3>1. CASE <<r, v>> = slot
      BY <1>3, <2>1, <3>1
    <3>2. CASE <<r, v>> # slot
      <4>1. valid[<<r, v>>] /\ ~dirty[<<r, v>>]
        BY <1>2, <2>1, <3>0, <3>2
      <4>2. data[<<r, v>>] = mem[<<tag[<<r, v>>], r>>]
        BY <4>1, <3>0 DEF CleanLinesMatchMemory, WriteBackAddr
      <4>3. mem'[<<tag[<<r, v>>], r>>] = mem[<<tag[<<r, v>>], r>>]
        BY <4>1, <3>2, WriteBackKeepsOthers
      <4>. QED BY <1>2, <3>0, <3>2, <4>2, <4>3
    <3>. QED BY <3>1, <3>2
  <2>2. \A x \in Slot : /\ x = <<x[1], x[2]>> /\ x[1] \in Set /\ x[2] \in Ways
    BY DEF Slot
  <2>3. \A x \in Slot : valid'[x] /\ ~dirty'[x] =>
                         data'[x] = mem'[<<tag'[x], x[1]>>]
    BY <2>1, <2>2
  <2>. QED BY <2>3 DEF CleanLinesMatchMemory, WriteBackAddr
<1>7. LruHoldsEveryWay'
  BY FetchReplacer
<1>8. FlushedPrefix' /\ FlushStartsAtZero'
  BY DEF FlushedPrefix, FlushStartsAtZero
<1>9. ReadOnlyIsClean'
  BY <1>2, <1>3 DEF ReadOnlyIsClean
<1>. QED BY <1>4, <1>5, <1>6, <1>7, <1>8, <1>9

(* A read keeps the invariant. *)
LEMMA GetKeepsInv ==
  ASSUME CacheInv, NEW t \in Tag, NEW s \in Set, NEW o \in Off, Get(t, s, o)
  PROVE  CacheInv'
<1>1. PICK w \in Ways :
        /\ Fetch(t, s, w)
        /\ data' = [data EXCEPT ![<<s, w>>] = FetchedLine(t, s)]
        /\ dirty' = [dirty EXCEPT ![<<s, w>>] = IsHit(t, s) /\ @]
  BY DEF Get
<1> DEFINE line == FetchedLine(t, s)
           b == IsHit(t, s) /\ dirty[<<s, w>>]
<1>2. phase = "running" /\ UNCHANGED <<phase, fset, fway>>
  BY DEF Get
<1>3. line \in Line
  BY FetchedLineType DEF CacheInv
<1>4. <<s, w>> \in Slot
  BY DEF Slot
<1>5. dirty[<<s, w>>] \in BOOLEAN
  BY <1>4 DEF CacheInv, TypeOK, LinesTypeOK
<1>6. IsHit(t, s) \in BOOLEAN
  BY DEF IsHit
<1>7. b \in BOOLEAN
  BY <1>5, <1>6
<1>8. IsHit(t, s) => /\ valid[<<s, w>>] /\ tag[<<s, w>>] = t
                     /\ w = HitWay(t, s) /\ mem' = mem
  BY <1>1, FetchEffect DEF CacheInv
<1>9. b \/ line = mem'[<<t, s>>]
  <2>1. CASE ~IsHit(t, s)
    BY <1>1, <2>1, WriteBackKeepsOthers DEF CacheInv, FetchedLine
  <2>2. CASE IsHit(t, s) /\ ~dirty[<<s, w>>]
    <3>1. data[<<s, w>>] = mem[<<t, s>>]
      BY <1>2, <1>4, <1>8, <2>2 DEF CacheInv, CleanLinesMatchMemory, WriteBackAddr
    <3>. QED BY <1>8, <2>2, <3>1 DEF FetchedLine
  <2>. QED BY <2>1, <2>2
<1>10. b => WrEnabled
  BY <1>4, <1>8, CacheAssumption DEF CacheInv, ReadOnlyIsClean
<1>11. dirty' = [dirty EXCEPT ![<<s, w>>] = b]
  BY <1>1, Zenon
<1>12. data' = [data EXCEPT ![<<s, w>>] = line]
  BY <1>1
<1>13. Fetch(t, s, w)
  BY <1>1
<1> HIDE DEF line, b
<1>. QED
  BY <1>2, <1>3, <1>7, <1>9, <1>10, <1>11, <1>12, <1>13, AccessKeepsInv

(* A write keeps the invariant. *)
LEMMA PutKeepsInv ==
  ASSUME CacheInv, NEW t \in Tag, NEW s \in Set, NEW o \in Off,
         NEW d \in Data, Put(t, s, o, d)
  PROVE  CacheInv'
<1> DEFINE line == [FetchedLine(t, s) EXCEPT ![o] = d]
<1>1. PICK w \in Ways :
        /\ Fetch(t, s, w)
        /\ data' = [data EXCEPT ![<<s, w>>] = line]
        /\ dirty' = [dirty EXCEPT ![<<s, w>>] = TRUE]
  BY DEF Put
<1>2. phase = "running" /\ WrEnabled /\ UNCHANGED <<phase, fset, fway>>
  BY DEF Put
<1>3. line \in Line
  BY FetchedLineType DEF CacheInv, Line
<1> HIDE DEF line
<1>. QED BY <1>1, <1>2, <1>3, AccessKeepsInv

(* The stop request keeps the invariant. *)
LEMMA StopKeepsInv ==
  ASSUME CacheInv, Stop PROVE CacheInv'
<1> USE DEF CacheInv, Stop, lines, replacer
<1>1. TypeOK'
  BY CacheAssumption, WaysFacts DEF TypeOK, LinesTypeOK, Set
<1>2. UniqueTags' /\ LruHoldsEveryWay' /\ ReadOnlyIsClean'
  BY DEF UniqueTags, LruHoldsEveryWay, ReadOnlyIsClean
<1>3. CleanLinesMatchMemory'
  BY DEF CleanLinesMatchMemory, WriteBackAddr
<1>4. FlushedPrefix'
  BY WaysFacts DEF FlushedPrefix, Set
<1>5. FlushStartsAtZero'
  BY DEF FlushStartsAtZero
<1>. QED BY <1>1, <1>2, <1>3, <1>4, <1>5

(* A store of the host between calls keeps the invariant. *)
LEMMA HostStoreKeepsInv ==
  ASSUME CacheInv, NEW t \in Tag, NEW s \in Set, NEW line \in Line,
         HostStore(t, s, line)
  PROVE  CacheInv'
<1> USE DEF CacheInv, HostStore, lines, replacer
<1>1. TypeOK'
  BY DEF TypeOK, LinesTypeOK
<1>2. UniqueTags' /\ LruHoldsEveryWay' /\ ReadOnlyIsClean'
  BY DEF UniqueTags, LruHoldsEveryWay, ReadOnlyIsClean
<1>3. CleanLinesMatchMemory' /\ FlushedPrefix' /\ FlushStartsAtZero'
  BY DEF CleanLinesMatchMemory, FlushedPrefix, FlushStartsAtZero
<1>. QED BY <1>1, <1>2, <1>3

(* init() of the next call establishes the invariant again. *)
LEMMA RestartKeepsInv ==
  ASSUME CacheInv, Restart PROVE CacheInv'
<1> USE DEF CacheInv, Restart
<1>1. TypeOK'
  BY InitialOrderIsOrder, WaysFacts DEF TypeOK, LinesTypeOK, IsOrder
<1>2. UniqueTags' /\ ReadOnlyIsClean' /\ CleanLinesMatchMemory'
  BY DEF UniqueTags, ReadOnlyIsClean, CleanLinesMatchMemory, Slot
<1>3. LruHoldsEveryWay'
  BY InitialOrderIsOrder DEF LruHoldsEveryWay
<1>4. FlushedPrefix' /\ FlushStartsAtZero'
  BY DEF FlushedPrefix, FlushStartsAtZero
<1>. QED BY <1>1, <1>2, <1>3, <1>4

(* The lines a turn of flush can change: main memory behind the one line   *)
(* it writes back, and that line's dirty bit.                              *)
LEMMA FlushLineEffect ==
  ASSUME CacheInv, FlushLine
  PROVE  /\ fset \in Set /\ fway \in Ways /\ <<fset, fway>> \in Slot
         /\ UNCHANGED <<tag, valid, data, order, next, resp>>
         /\ mem' \in [Addr -> Line] /\ dirty' \in [Slot -> BOOLEAN]
         /\ \A x \in Slot : dirty'[x] => dirty[x]
         /\ \A x \in Slot : x # <<fset, fway>> => dirty'[x] = dirty[x]
         /\ ~(valid[<<fset, fway>>] /\ dirty'[<<fset, fway>>])
         /\ \A r \in Set, v \in Ways : valid[<<r, v>>] =>
              \/ mem'[<<tag[<<r, v>>], r>>] = mem[<<tag[<<r, v>>], r>>]
                 /\ dirty'[<<r, v>>] = dirty[<<r, v>>]
              \/ mem'[<<tag[<<r, v>>], r>>] = data[<<r, v>>]
         /\ \A a \in Addr : mem'[a] # mem[a] =>
              /\ a = <<tag[<<fset, fway>>], fset>>
              /\ valid[<<fset, fway>>] /\ mem'[a] = data[<<fset, fway>>]
<1> DEFINE slot == <<fset, fway>>
<1>1. fset \in Set /\ fway \in Ways /\ slot \in Slot
  BY DEF CacheInv, TypeOK, LinesTypeOK, Slot
<1>2. UNCHANGED <<tag, valid, data, order, next, resp>>
  BY DEF FlushLine, replacer
<1>3. /\ mem \in [Addr -> Line] /\ dirty \in [Slot -> BOOLEAN]
      /\ tag \in [Slot -> Tag] /\ data[slot] \in Line
  BY <1>1 DEF CacheInv, TypeOK, LinesTypeOK
<1>4. CASE ~(valid[slot] /\ dirty[slot])
  <2>1. mem' = mem /\ dirty' = dirty
    BY <1>4 DEF FlushLine
  <2>. QED BY <1>1, <1>2, <1>3, <1>4, <2>1
<1>5. CASE valid[slot] /\ dirty[slot]
  <2>1. /\ mem' = [mem EXCEPT ![<<tag[slot], fset>>] = data[slot]]
        /\ dirty' = [dirty EXCEPT ![slot] = FALSE]
    BY <1>5 DEF FlushLine, WriteBackAddr
  <2>2. <<tag[slot], fset>> \in Addr
    BY <1>1, <1>3 DEF Addr
  <2>3. mem' \in [Addr -> Line] /\ dirty' \in [Slot -> BOOLEAN]
    BY <1>3, <2>1
  <2>4. /\ ~dirty'[slot] /\ mem'[<<tag[slot], fset>>] = data[slot]
        /\ \A x \in Slot : x # slot => dirty'[x] = dirty[x]
        /\ \A a \in Addr : a # <<tag[slot], fset>> => mem'[a] = mem[a]
    BY <1>1, <1>3, <2>1, <2>2
  <2>5. ASSUME NEW r \in Set, NEW v \in Ways, valid[<<r, v>>], <<r, v>> # slot
        PROVE  mem'[<<tag[<<r, v>>], r>>] = mem[<<tag[<<r, v>>], r>>]
               /\ dirty'[<<r, v>>] = dirty[<<r, v>>]
    <3>1. <<r, v>> \in Slot /\ <<tag[<<r, v>>], r>> \in Addr
      BY <1>3 DEF Slot, Addr
    <3>2. <<tag[<<r, v>>], r>> # <<tag[slot], fset>>
      BY <1>1, <1>5, <2>5 DEF CacheInv, UniqueTags
    <3>. QED BY <2>4, <2>5, <3>1, <3>2
  <2>6. \A r \in Set, v \in Ways : valid[<<r, v>>] =>
          \/ mem'[<<tag[<<r, v>>], r>>] = mem[<<tag[<<r, v>>], r>>]
             /\ dirty'[<<r, v>>] = dirty[<<r, v>>]
          \/ mem'[<<tag[<<r, v>>], r>>] = data[<<r, v>>]
    BY <2>4, <2>5
  <2>. QED BY <1>1, <1>2, <1>5, <2>3, <2>4, <2>6
<1>. QED BY <1>4, <1>5

(* Where the loops of flush go next. *)
LEMMA FlushLineOrder ==
  ASSUME CacheInv, FlushLine
  PROVE  /\ phase = "flushing" /\ phase' \in {"flushing", "stopped"}
         /\ fset' \in Set /\ fway' \in Ways
         /\ phase' = "stopped" => /\ fset' = 0 /\ fway' = 0
                                  /\ fset = NSets - 1 /\ fway = NWays - 1
         /\ \A s \in Set, w \in Ways :
              /\ phase' = "flushing" => \/ ~(s < fset' \/ (s = fset' /\ w < fway'))
                                        \/ s < fset \/ (s = fset /\ w < fway)
                                        \/ <<s, w>> = <<fset, fway>>
              /\ phase' = "stopped" => \/ s < fset \/ (s = fset /\ w < fway)
                                       \/ <<s, w>> = <<fset, fway>>
<1>1. /\ fset \in Set /\ fway \in Ways /\ phase = "flushing"
      /\ NSets \in Nat \ {0} /\ NWays \in Nat \ {0}
  BY CacheAssumption, ReplacerAssumption DEF CacheInv, TypeOK, LinesTypeOK, FlushLine
<1>2. CASE fway < NWays - 1
  <2>1. fway' = fway + 1 /\ fset' = fset /\ phase' = phase
    BY <1>2 DEF FlushLine
  <2>. QED BY <1>1, <1>2, <2>1 DEF Set, Ways
<1>3. CASE ~(fway < NWays - 1) /\ fset < NSets - 1
  <2>1. fway' = 0 /\ fset' = fset + 1 /\ phase' = phase
    BY <1>3 DEF FlushLine
  <2>. QED BY <1>1, <1>3, <2>1 DEF Set, Ways
<1>4. CASE ~(fway < NWays - 1) /\ ~(fset < NSets - 1)
  <2>1. fway' = 0 /\ fset' = 0 /\ phase' = "stopped"
    BY <1>4 DEF FlushLine
  <2>. QED BY <1>1, <1>4, <2>1 DEF Set, Ways
<1>. QED BY <1>2, <1>3, <1>4

(* A turn of the flush loops keeps the invariant. *)
LEMMA FlushLineKeepsInv ==
  ASSUME CacheInv, FlushLine PROVE CacheInv'
<1>1. TypeOK'
  BY FlushLineEffect, FlushLineOrder DEF CacheInv, TypeOK, LinesTypeOK
<1>2. UniqueTags' /\ LruHoldsEveryWay' /\ ReadOnlyIsClean'
  BY FlushLineEffect DEF CacheInv, UniqueTags, LruHoldsEveryWay, ReadOnlyIsClean
<1>3. CleanLinesMatchMemory'
  <2>1. ASSUME NEW r \in Set, NEW v \in Ways, valid[<<r, v>>], ~dirty'[<<r, v>>]
        PROVE  data[<<r, v>>] = mem'[<<tag[<<r, v>>], r>>]
    <3>1. <<r, v>> \in Slot
      BY DEF Slot
    <3>2. ~dirty[<<r, v>>] => data[<<r, v>>] = mem[<<tag[<<r, v>>], r>>]
      BY <2>1, <3>1, FlushLineOrder
         DEF CacheInv, CleanLinesMatchMemory, WriteBackAddr
    <3>3. \/ mem'[<<tag[<<r, v>>], r>>] = mem[<<tag[<<r, v>>], r>>]
             /\ dirty'[<<r, v>>] = dirty[<<r, v>>]
          \/ mem'[<<tag[<<r, v>>], r>>] = data[<<r, v>>]
      BY <2>1, FlushLineEffect
    <3>. QED BY <2>1, <3>2, <3>3
  <2>2. \A x \in Slot : x = <<x[1], x[2]>> /\ x[1] \in Set /\ x[2] \in Ways
    BY DEF Slot
  <2>3. \A x \in Slot : valid[x] /\ ~dirty'[x] => data[x] = mem'[<<tag[x], x[1]>>]
    BY <2>1, <2>2
  <2>4. UNCHANGED <<tag, valid, data>>
    BY FlushLineEffect
  <2>. QED BY <2>3, <2>4 DEF CleanLinesMatchMemory, WriteBackAddr
<1>4. FlushedPrefix'
  <2>1. ASSUME NEW s \in Set, NEW w \in Ways, phase' = "flushing",
               s < fset' \/ (s = fset' /\ w < fway')
        PROVE  ~(valid[<<s, w>>] /\ dirty'[<<s, w>>])
    <3>1. \/ s < fset \/ (s = fset /\ w < fway)
          \/ <<s, w>> = <<fset, fway>>
      BY <2>1, FlushLineOrder
    <3>2. <<s, w>> \in Slot
      BY DEF Slot
    <3>. QED BY <3>1, <3>2, FlushLineEffect, FlushLineOrder
             DEF CacheInv, FlushedPrefix
  <2>. QED BY <2>1, FlushLineEffect DEF FlushedPrefix
<1>5. FlushStartsAtZero'
  BY FlushLineOrder DEF FlushStartsAtZero
<1>. QED BY <1>1, <1>2, <1>3, <1>4, <1>5 DEF CacheInv
-----------------------------------------------------------------------------
(* The first init() establishes the invariant. *)
LEMMA InitEstablishesInv == Init => CacheInv
<1> SUFFICES ASSUME Init PROVE CacheInv
  OBVIOUS
<1> USE DEF Init, LinesInit
<1>1. TypeOK
  BY InitialOrderIsOrder, WaysFacts, CacheAssumption DEF TypeOK, LinesTypeOK, IsOrder, Set
<1>2. UniqueTags /\ ReadOnlyIsClean /\ CleanLinesMatchMemory
  BY DEF UniqueTags, ReadOnlyIsClean, CleanLinesMatchMemory, Slot
<1>3. LruHoldsEveryWay
  BY InitialOrderIsOrder DEF LruHoldsEveryWay
<1>4. FlushedPrefix /\ FlushStartsAtZero
  BY DEF FlushedPrefix, FlushStartsAtZero
<1>. QED BY <1>1, <1>2, <1>3, <1>4 DEF CacheInv

(* The invariant is inductive. *)
LEMMA StepKeepsInv == CacheInv /\ [Next]_vars => CacheInv'
<1> SUFFICES ASSUME CacheInv, [Next]_vars PROVE CacheInv'
  OBVIOUS
<1>1. CASE \E t \in Tag, s \in Set, o \in Off : Get(t, s, o)
  BY <1>1, GetKeepsInv
<1>2. CASE \E t \in Tag, s \in Set, o \in Off, d \in Data : Put(t, s, o, d)
  BY <1>2, PutKeepsInv
<1>3. CASE Stop
  BY <1>3, StopKeepsInv
<1>4. CASE FlushLine
  BY <1>4, FlushLineKeepsInv
<1>5. CASE \E t \in Tag, s \in Set, line \in Line : HostStore(t, s, line)
  BY <1>5, HostStoreKeepsInv
<1>6. CASE Restart
  BY <1>6, RestartKeepsInv
<1>7. CASE UNCHANGED vars
  BY <1>7 DEF vars, lines, replacer, CacheInv, TypeOK, LinesTypeOK, UniqueTags,
              CleanLinesMatchMemory, WriteBackAddr, LruHoldsEveryWay,
              FlushedPrefix, ReadOnlyIsClean, FlushStartsAtZero
<1>. QED BY <1>1, <1>2, <1>3, <1>4, <1>5, <1>6, <1>7 DEF Next

(* The inductive invariant holds in every reachable state. *)
THEOREM CacheInvariant == Spec => []CacheInv
BY InitEstablishesInv, StepKeepsInv, PTL DEF Spec

(* exec_core_req, flush and init keep every register in its range. *)
THEOREM CacheTypeCorrect == Spec => []TypeOK
<1>1. CacheInv => TypeOK
  BY DEF CacheInv
<1>. QED BY <1>1, CacheInvariant, PTL

(* No set ever holds two valid copies of a line. *)
THEOREM TagsAreUnique == Spec => []UniqueTags
<1>1. CacheInv => UniqueTags
  BY DEF CacheInv
<1>. QED BY <1>1, CacheInvariant, PTL

(* Replacing a line that is not dirty loses nothing. *)
THEOREM CleanLinesAreCoherent == Spec => []CleanLinesMatchMemory
<1>1. CacheInv => CleanLinesMatchMemory
  BY DEF CacheInv
<1>. QED BY <1>1, CacheInvariant, PTL

(* The shifts of notify_use never lose a way. *)
THEOREM LruIsComplete == Spec => []LruHoldsEveryWay
<1>1. CacheInv => LruHoldsEveryWay
  BY DEF CacheInv
<1>. QED BY <1>1, CacheInvariant, PTL
-----------------------------------------------------------------------------
(* The refinement: the array the cache stands for is read from the copy    *)
(* hit() finds or, when there is none, from main memory.                   *)

LogicalFromCopy ==
  UniqueTags /\ phase # "stopped" =>
    \A q \in Tag, r \in Set, v \in Ways :
      valid[<<r, v>>] /\ tag[<<r, v>>] = q => Logical(q, r) = data[<<r, v>>]

LogicalFromMemory ==
  \A q \in Tag, r \in Set :
    \/ phase = "stopped"
    \/ \A v \in Ways : ~(valid[<<r, v>>] /\ tag[<<r, v>>] = q)
    => Logical(q, r) = mem[<<q, r>>]

(* The word of the array is the one in the cached copy, if any. *)
LEMMA LogicalIsTheCopy == LogicalFromCopy
BY HitFound DEF LogicalFromCopy, Logical

(* Without a copy the word of the array is the one in memory. *)
LEMMA LogicalIsMemory == LogicalFromMemory
BY MissHasNoCopy DEF LogicalFromMemory, Logical

(* A running cache serves requests from the line of the array. *)
LEMMA FetchedLineIsLogical ==
  ASSUME CacheInv, phase = "running", NEW t \in Tag, NEW s \in Set
  PROVE  FetchedLine(t, s) = Logical(t, s)
BY DEF FetchedLine, Logical

(* A get or set changes the array at the address it is given and, for all  *)
(* the replacing and writing back it does, nowhere else.                   *)
OnlyLineChanges(t, s, line) ==
  \A q \in Tag, r \in Set :
    Logical(q, r)' = IF <<q, r>> = <<t, s>> THEN line ELSE Logical(q, r)

(* A get or set puts its line into the array and moves no other. *)
LEMMA AccessChangesOneLine ==
  ASSUME CacheInv, CacheInv', phase = "running", phase' = "running",
         NEW t \in Tag, NEW s \in Set, NEW w \in Ways, Fetch(t, s, w),
         NEW line,
         data' = [data EXCEPT ![<<s, w>>] = line]
  PROVE  OnlyLineChanges(t, s, line)
<1> DEFINE slot == <<s, w>>
<1> SUFFICES ASSUME NEW q \in Tag, NEW r \in Set
             PROVE  Logical(q, r)' = IF <<q, r>> = <<t, s>> THEN line
                                     ELSE Logical(q, r)
  BY DEF OnlyLineChanges
<1>0. slot \in Slot /\ <<q, r>> \in Addr
  BY DEF Slot, Addr
<1>1. /\ tag' = [tag EXCEPT ![slot] = t]
      /\ valid' = [valid EXCEPT ![slot] = TRUE]
      /\ \A v \in Ways : valid[<<s, v>>] /\ tag[<<s, v>>] = t =>
                           v = w /\ IsHit(t, s)
      /\ IsHit(t, s) => valid[slot] /\ tag[slot] = t
      /\ \/ mem' = mem /\ (IsHit(t, s) \/ ~MustWriteBack(slot))
         \/ /\ ~IsHit(t, s) /\ MustWriteBack(slot)
            /\ mem' = [mem EXCEPT ![WriteBackAddr(slot)] = data[slot]]
  BY FetchEffect DEF CacheInv
<1>2. \A x \in Slot : x # slot => tag'[x] = tag[x] /\ valid'[x] = valid[x]
                                  /\ data'[x] = data[x]
  BY <1>1 DEF CacheInv, TypeOK, LinesTypeOK
<1>3. tag'[slot] = t /\ valid'[slot] /\ data'[slot] = line
  BY <1>0, <1>1 DEF CacheInv, TypeOK, LinesTypeOK
<1>4. \A v \in Ways : valid'[<<r, v>>] /\ tag'[<<r, v>>] = q =>
                        Logical(q, r)' = data'[<<r, v>>]
  <2>1. LogicalFromCopy'
    BY LogicalIsTheCopy, PTL
  <2>. QED BY <2>1 DEF LogicalFromCopy, CacheInv
<1>5. (\A v \in Ways : ~(valid'[<<r, v>>] /\ tag'[<<r, v>>] = q)) =>
        Logical(q, r)' = mem'[<<q, r>>]
  <2>1. LogicalFromMemory'
    BY LogicalIsMemory, PTL
  <2>. QED BY <2>1 DEF LogicalFromMemory
<1>6. CASE <<q, r>> = <<t, s>>
  BY <1>3, <1>4, <1>6
<1>7. CASE <<q, r>> # <<t, s>>
  <2>1. CASE \E v \in Ways : valid[<<r, v>>] /\ tag[<<r, v>>] = q
    <3>1. PICK v \in Ways : valid[<<r, v>>] /\ tag[<<r, v>>] = q
      BY <2>1
    <3>2. <<r, v>> \in Slot /\ Logical(q, r) = data[<<r, v>>]
      BY <3>1, LogicalIsTheCopy DEF LogicalFromCopy, CacheInv, Slot
    <3>3. CASE <<r, v>> # slot
      BY <1>2, <1>4, <1>7, <3>1, <3>2, <3>3
    <3>4. CASE <<r, v>> = slot
      <4>1. q # t /\ ~IsHit(t, s)
        BY <1>1, <1>7, <3>1, <3>4
      <4>2. \A u \in Ways : ~(valid'[<<r, u>>] /\ tag'[<<r, u>>] = q)
        <5>1. SUFFICES ASSUME NEW u \in Ways,
                              valid'[<<r, u>>], tag'[<<r, u>>] = q
                       PROVE  FALSE
          OBVIOUS
        <5>2. <<r, u>> # slot
          BY <1>3, <4>1, <5>1
        <5>3. valid[<<r, u>>] /\ tag[<<r, u>>] = q
          BY <1>2, <5>1, <5>2 DEF Slot
        <5>. QED BY <3>1, <3>4, <5>2, <5>3 DEF CacheInv, UniqueTags
      <4>3. mem'[<<q, r>>] = data[slot]
        <5>1. CASE MustWriteBack(slot)
          BY <1>0, <1>1, <3>1, <3>4, <4>1, <5>1
             DEF WriteBackAddr, CacheInv, TypeOK, LinesTypeOK
        <5>2. CASE ~MustWriteBack(slot)
          <6>1. ~dirty[slot]
            BY <1>0, <3>1, <3>4, <5>2
               DEF MustWriteBack, CacheInv, ReadOnlyIsClean
          <6>2. data[slot] = mem[<<q, r>>]
            BY <1>0, <3>1, <3>4, <6>1
               DEF CacheInv, CleanLinesMatchMemory, WriteBackAddr
          <6>. QED BY <1>1, <5>2, <6>2
        <5>. QED BY <5>1, <5>2
      <4>. QED BY <1>5, <1>7, <3>2, <3>4, <4>2, <4>3
    <3>. QED BY <3>3, <3>4
  <2>2. CASE \A v \in Ways : ~(valid[<<r, v>>] /\ tag[<<r, v>>] = q)
    <3>1. \A v \in Ways : ~(valid'[<<r, v>>] /\ tag'[<<r, v>>] = q)
      BY <1>2, <1>3, <1>7, <2>2 DEF Slot
    <3>2. mem'[<<q, r>>] = mem[<<q, r>>]
      <4>1. CASE mem' = mem
        BY <4>1
      <4>2. CASE /\ MustWriteBack(slot)
                 /\ mem' = [mem EXCEPT ![WriteBackAddr(slot)] = data[slot]]
        <5>1. <<q, r>> # WriteBackAddr(slot)
          BY <2>2, <4>2 DEF MustWriteBack, WriteBackAddr
        <5>. QED BY <1>0, <4>2, <5>1 DEF CacheInv, TypeOK, LinesTypeOK
      <4>. QED BY <1>1, <4>1, <4>2
    <3>3. Logical(q, r) = mem[<<q, r>>]
      BY <2>2, LogicalIsMemory DEF LogicalFromMemory
    <3>. QED BY <1>5, <1>7, <3>1, <3>2, <3>3
  <2>. QED BY <2>1, <2>2
<1>. QED BY <1>6, <1>7

(* A turn of flush leaves the array alone, also when it is the last one    *)
(* and main memory takes over.                                             *)
LEMMA FlushLineKeepsArray ==
  ASSUME CacheInv, CacheInv', FlushLine, NEW q \in Tag, NEW r \in Set
  PROVE  Logical(q, r)' = Logical(q, r)
<1>1. /\ UNCHANGED <<tag, valid, data>> /\ phase = "flushing"
      /\ LogicalFromCopy' /\ LogicalFromMemory'
      /\ LogicalFromCopy /\ LogicalFromMemory
  <2>1. LogicalFromCopy' /\ LogicalFromMemory'
    BY LogicalIsTheCopy, LogicalIsMemory, PTL
  <2>. QED BY <2>1, FlushLineEffect, FlushLineOrder, LogicalIsTheCopy, LogicalIsMemory
<1>2. CASE \A v \in Ways : ~(valid[<<r, v>>] /\ tag[<<r, v>>] = q)
  <2>1. <<q, r>> \in Addr
    BY DEF Addr
  <2>2. mem'[<<q, r>>] = mem[<<q, r>>]
    BY <1>2, <2>1, FlushLineEffect
  <2>3. Logical(q, r) = mem[<<q, r>>]
    BY <1>1, <1>2 DEF LogicalFromMemory
  <2>4. Logical(q, r)' = mem'[<<q, r>>]
    BY <1>1, <1>2 DEF LogicalFromMemory
  <2>. QED BY <2>2, <2>3, <2>4
<1>3. CASE \E v \in Ways : valid[<<r, v>>] /\ tag[<<r, v>>] = q
  <2>1. PICK v \in Ways : valid[<<r, v>>] /\ tag[<<r, v>>] = q
    BY <1>3
  <2>2. Logical(q, r) = data[<<r, v>>]
    BY <1>1, <2>1 DEF LogicalFromCopy, CacheInv
  <2>3. CASE phase' # "stopped"
    BY <1>1, <2>1, <2>2, <2>3 DEF LogicalFromCopy, CacheInv
  <2>4. CASE phase' = "stopped"
    <3>1. Logical(q, r)' = mem'[<<q, r>>]
      BY <1>1, <2>4 DEF LogicalFromMemory
    <3>2. r < fset \/ (r = fset /\ v < fway) \/ <<r, v>> = <<fset, fway>>
      BY <2>4, FlushLineOrder
    <3>3. <<r, v>> \in Slot
      BY DEF Slot
    <3>4. ~dirty'[<<r, v>>]
      BY <1>1, <2>1, <3>2, <3>3, FlushLineEffect DEF CacheInv, FlushedPrefix
    <3>5. ~dirty[<<r, v>>] => mem[<<q, r>>] = data[<<r, v>>]
      BY <1>1, <2>1, <3>3 DEF CacheInv, CleanLinesMatchMemory, WriteBackAddr
    <3>6. \/ mem'[<<q, r>>] = mem[<<q, r>>] /\ dirty'[<<r, v>>] = dirty[<<r, v>>]
          \/ mem'[<<q, r>>] = data[<<r, v>>]
      BY <2>1, FlushLineEffect
    <3>. QED BY <2>2, <3>1, <3>4, <3>5, <3>6
  <2>. QED BY <2>3, <2>4
<1>. QED BY <1>2, <1>3

(* stop() and init() leave the array alone. *)
LEMMA StopRestartKeepArray ==
  ASSUME CacheInv, CacheInv', Stop \/ Restart, NEW q \in Tag, NEW r \in Set
  PROVE  Logical(q, r)' = Logical(q, r)
<1>0. LogicalFromCopy' /\ LogicalFromMemory' /\ LogicalFromCopy /\ LogicalFromMemory
  BY LogicalIsTheCopy, LogicalIsMemory, PTL
<1>1. CASE Restart
  <2>1. \A v \in Ways : ~valid'[<<r, v>>]
    BY <1>1 DEF Restart, Slot
  <2>2. mem' = mem /\ phase = "stopped"
    BY <1>1 DEF Restart
  <2>. QED BY <1>0, <2>1, <2>2 DEF LogicalFromMemory
<1>2. CASE Stop
  <2>1. /\ UNCHANGED <<mem, tag, valid, data, dirty>> /\ phase = "running"
        /\ phase' = IF WrEnabled THEN "flushing" ELSE "stopped"
    BY <1>2 DEF Stop, lines
  <2>2. CASE \A v \in Ways : ~(valid[<<r, v>>] /\ tag[<<r, v>>] = q)
    BY <1>0, <2>1, <2>2 DEF LogicalFromMemory
  <2>3. CASE \E v \in Ways : valid[<<r, v>>] /\ tag[<<r, v>>] = q
    <3>1. PICK v \in Ways : valid[<<r, v>>] /\ tag[<<r, v>>] = q
      BY <2>3
    <3>2. Logical(q, r) = data[<<r, v>>]
      BY <1>0, <2>1, <3>1 DEF LogicalFromCopy, CacheInv
    <3>3. CASE WrEnabled
      BY <1>0, <2>1, <3>1, <3>2, <3>3 DEF LogicalFromCopy, CacheInv
    <3>4. CASE ~WrEnabled
      <4>1. <<r, v>> \in Slot
        BY DEF Slot
      <4>2. ~dirty[<<r, v>>]
        BY <3>1, <3>4, <4>1 DEF CacheInv, ReadOnlyIsClean
      <4>3. data[<<r, v>>] = mem[<<q, r>>]
        BY <2>1, <3>1, <4>1, <4>2 DEF CacheInv, CleanLinesMatchMemory, WriteBackAddr
      <4>. QED BY <1>0, <2>1, <3>2, <3>4, <4>3 DEF LogicalFromMemory
    <3>. QED BY <3>3, <3>4
  <2>. QED BY <2>2, <2>3
<1>. QED BY <1>1, <1>2

(* The array is the same when each of its lines is. *)
LEMMA ArrayUnchanged ==
  ASSUME \A q \in Tag, r \in Set : Logical(q, r)' = Logical(q, r)
  PROVE  Array' = Array
BY DEF Array, Addr

(* A get is a read of the array, a set a write to it. *)
LEMMA GetReads ==
  ASSUME CacheInv, CacheInv', NEW t \in Tag, NEW s \in Set, NEW o \in Off,
         Get(t, s, o)
  PROVE  Flat!Read(t, s, o)
<1>1. PICK w \in Ways :
        /\ Fetch(t, s, w)
        /\ data' = [data EXCEPT ![<<s, w>>] = FetchedLine(t, s)]
  BY DEF Get
<1>2. phase = "running" /\ phase' = "running"
  BY DEF Get
<1>3. FetchedLine(t, s) = Logical(t, s)
  BY <1>2, FetchedLineIsLogical
<1>4. \A q \in Tag, r \in Set : Logical(q, r)' = Logical(q, r)
  <2>1. PICK line : line = Logical(t, s)
    OBVIOUS
  <2>2. data' = [data EXCEPT ![<<s, w>>] = line]
    BY <1>1, <1>3, <2>1
  <2>3. OnlyLineChanges(t, s, line)
    BY <1>1, <1>2, <2>2, AccessChangesOneLine
  <2>. QED BY <2>1, <2>3 DEF OnlyLineChanges
<1>5. Array' = Array
  BY <1>4, ArrayUnchanged
<1>6. Array[<<t, s>>] = Logical(t, s)
  BY DEF Array, Addr
<1>7. resp' = [op |-> "read", tag |-> t, set |-> s, off |-> o,
               data |-> Array[<<t, s>>][o]]
  BY <1>3, <1>6 DEF Get
<1>8. Running /\ Running' = Running
  BY <1>2 DEF Running
<1>. QED BY <1>5, <1>7, <1>8 DEF Flat!Read

(* set is Write of the flat array. *)
LEMMA PutWrites ==
  ASSUME CacheInv, CacheInv', NEW t \in Tag, NEW s \in Set, NEW o \in Off,
         NEW d \in Data, Put(t, s, o, d)
  PROVE  Flat!Write(t, s, o, d)
<1>1. PICK w \in Ways :
        /\ Fetch(t, s, w)
        /\ data' = [data EXCEPT ![<<s, w>>] = [FetchedLine(t, s) EXCEPT ![o] = d]]
  BY DEF Put
<1>2. phase = "running" /\ phase' = "running"
  BY DEF Put
<1>3. FetchedLine(t, s) = Logical(t, s)
  BY <1>2, FetchedLineIsLogical
<1>4. \A q \in Tag, r \in Set :
        Logical(q, r)' = IF <<q, r>> = <<t, s>> THEN [Logical(t, s) EXCEPT ![o] = d]
                         ELSE Logical(q, r)
  <2>1. PICK line : line = [Logical(t, s) EXCEPT ![o] = d]
    OBVIOUS
  <2>2. data' = [data EXCEPT ![<<s, w>>] = line]
    BY <1>1, <1>3, <2>1
  <2>3. OnlyLineChanges(t, s, line)
    BY <1>1, <1>2, <2>2, AccessChangesOneLine
  <2>. QED BY <2>1, <2>3 DEF OnlyLineChanges
<1>5. <<t, s>> \in Addr /\ Array[<<t, s>>] = Logical(t, s)
  BY DEF Array, Addr
<1>6. Array' = [Array EXCEPT ![<<t, s>>] = [Array[<<t, s>>] EXCEPT ![o] = d]]
  <2>1. \A a \in Addr : Array'[a] = IF a = <<t, s>> THEN [Array[<<t, s>>] EXCEPT ![o] = d]
                                    ELSE Array[a]
    BY <1>4, <1>5 DEF Array, Addr
  <2>. QED BY <2>1 DEF Array
<1>7. resp' = [op |-> "write", tag |-> t, set |-> s, off |-> o, data |-> d]
  BY DEF Put
<1>8. Running /\ Running' = Running
  BY <1>2 DEF Running
<1>. QED BY <1>6, <1>7, <1>8 DEF Flat!Write

(* The host's stores reach the array, none of it being cached then. *)
LEMMA HostStoreStores ==
  ASSUME CacheInv, CacheInv', NEW t \in Tag, NEW s \in Set, NEW line \in Line,
         HostStore(t, s, line)
  PROVE  Flat!HostStore(t, s, line)
<1>1. /\ ~Running /\ Running' = Running
      /\ phase = "stopped" /\ phase' = "stopped"
      /\ mem' = [mem EXCEPT ![<<t, s>>] = line] /\ resp' = resp
  BY DEF HostStore, Running
<1>2. LogicalFromMemory /\ LogicalFromMemory'
  BY LogicalIsMemory, PTL
<1>3. \A q \in Tag, r \in Set : /\ Logical(q, r) = mem[<<q, r>>]
                               /\ Logical(q, r)' = mem'[<<q, r>>]
  BY <1>1, <1>2 DEF LogicalFromMemory
<1>4. \A a \in Addr : Array[a] = mem[a] /\ Array'[a] = mem'[a]
  BY <1>3 DEF Array, Addr
<1>5. mem \in [Addr -> Line]
  BY DEF CacheInv, TypeOK, LinesTypeOK
<1>6. Array = mem /\ Array' = mem'
  <2>1. mem' \in [Addr -> Line]
    BY DEF CacheInv, TypeOK, LinesTypeOK
  <2>. QED BY <1>4, <1>5, <2>1 DEF Array
<1>. QED BY <1>1, <1>6 DEF Flat!HostStore

(* The cache starts as the flat array does. *)
LEMMA InitIsFlatInit == Init => Flat!Init
<1>1. SUFFICES ASSUME Init PROVE Flat!Init
  OBVIOUS
<1>2. LogicalFromMemory
  BY LogicalIsMemory
<1>3. \A q \in Tag, r \in Set : Logical(q, r) = mem[<<q, r>>]
  BY <1>1, <1>2 DEF LogicalFromMemory, Init, LinesInit, Slot
<1>4. Array = mem
  BY <1>1, <1>3 DEF Init, LinesInit, Array, Addr
<1>. QED BY <1>1, <1>4 DEF Init, LinesInit, Flat!Init, Running, Addr, Line

(* A turn of flush is invisible, the last one is Stop. *)
LEMMA FlushLineStopsOrStutters ==
  ASSUME CacheInv, CacheInv', FlushLine
  PROVE  Flat!Stop \/ UNCHANGED Flat!vars
<1>1. Array' = Array
  BY FlushLineKeepsArray, ArrayUnchanged
<1>2. Running /\ resp' = resp
  BY DEF FlushLine, Running
<1>3. Running' \in BOOLEAN
  BY DEF Running
<1>. QED BY <1>1, <1>2, <1>3 DEF Flat!Stop, Flat!vars

(* The stop request is Stop, or invisible when flush follows. *)
LEMMA StopStopsOrStutters ==
  ASSUME CacheInv, CacheInv', Stop
  PROVE  Flat!Stop \/ UNCHANGED Flat!vars
<1>1. Array' = Array
  BY StopRestartKeepArray, ArrayUnchanged
<1>2. Running /\ resp' = resp
  BY DEF Stop, Running
<1>3. Running' \in BOOLEAN
  BY DEF Running
<1>. QED BY <1>1, <1>2, <1>3 DEF Flat!Stop, Flat!vars

(* init() of the next call is Start of the flat array. *)
LEMMA RestartStarts ==
  ASSUME CacheInv, CacheInv', Restart
  PROVE  Flat!Start
<1>1. Array' = Array
  BY StopRestartKeepArray, ArrayUnchanged
<1>2. ~Running /\ Running' /\ resp' = resp
  BY DEF Restart, Running
<1>3. Running' \in BOOLEAN
  BY DEF Running
<1>. QED BY <1>1, <1>2, <1>3 DEF Flat!Start

(* Every step of the cache is a step of the flat array or invisible. *)
LEMMA StepIsFlatStep ==
  ASSUME CacheInv, CacheInv', [Next]_vars
  PROVE  [Flat!Next]_(Flat!vars)
<1>1. CASE \E t \in Tag, s \in Set, o \in Off : Get(t, s, o)
  BY <1>1, GetReads DEF Flat!Next
<1>2. CASE \E t \in Tag, s \in Set, o \in Off, d \in Data : Put(t, s, o, d)
  BY <1>2, PutWrites DEF Flat!Next
<1>3. CASE Stop
  BY <1>3, StopStopsOrStutters DEF Flat!Next
<1>4. CASE FlushLine
  BY <1>4, FlushLineStopsOrStutters DEF Flat!Next
<1>5. CASE \E t \in Tag, s \in Set, line \in Line : HostStore(t, s, line)
  BY <1>5, HostStoreStores DEF Flat!Next, Line
<1>6. CASE Restart
  BY <1>6, RestartStarts DEF Flat!Next
<1>7. CASE UNCHANGED vars
  BY <1>7 DEF vars, lines, replacer, Flat!vars, Array, Running, Logical,
              IsHit, HitWay, HitWays
<1>. QED BY <1>1, <1>2, <1>3, <1>4, <1>5, <1>6, <1>7 DEF Next

(* The cache behaves as the plain array it stands for (FlatMemory): every  *)
(* get returns the last word set at its address, whatever was replaced,    *)
(* and stop() leaves all of it in main memory.                             *)
THEOREM CacheImplementsFlatMemory == Spec => IsFlatMemory
<1>1. Init => Flat!Init
  BY InitIsFlatInit
<1>2. CacheInv /\ CacheInv' /\ [Next]_vars => [Flat!Next]_(Flat!vars)
  BY StepIsFlatStep
<1>. QED BY <1>1, <1>2, CacheInvariant, PTL DEF Spec, IsFlatMemory, Flat!Spec
-----------------------------------------------------------------------------
(* Which lines a set holds, under either policy. *)

IsHistory(h) == h \in [Set -> Seq(Tag)] /\ \A s \in Set : Len(h[s]) <= NWays

(* Of the two histories, the one that the policy goes by. *)
HistoryTypeOK == IF Lru THEN IsHistory(used) ELSE IsHistory(loaded)

(* Way w of set s holds line t. *)
Holds(s, w, t) == valid[<<s, w>>] /\ tag[<<s, w>>] = t

(* The k-th element from the end. *)
FromEnd(seq, k) == seq[Len(seq) + 1 - k]

(* LRU: the line used as the k-th from the end is in the k-th way from the *)
(* end of the order, and no other way is valid.                            *)
UsedInOrder ==
  Lru => \A s \in Set : \A k \in 1 .. Len(used[s]) :
           Holds(s, order[s][NWays - k], FromEnd(used[s], k))

HeldWereUsed ==
  Lru => \A s \in Set, w \in Ways : valid[<<s, w>>] =>
           \E k \in 1 .. Len(used[s]) : w = order[s][NWays - k]

(* The counter: the line loaded as the k-th from the end is where the      *)
(* counter was k loads ago, and no other way is valid.                     *)
LoadedInTurn ==
  ~Lru => \A s \in Set : \A k \in 1 .. Len(loaded[s]) :
            Holds(s, Back(next[s], k), FromEnd(loaded[s], k))

HeldWereLoaded ==
  ~Lru => \A s \in Set, w \in Ways : valid[<<s, w>>] =>
            \E k \in 1 .. Len(loaded[s]) : w = Back(next[s], k)

HistoryInv == /\ CacheInv
              /\ HistoryTypeOK
              /\ UsedInOrder /\ HeldWereUsed
              /\ LoadedInTurn /\ HeldWereLoaded
-----------------------------------------------------------------------------
(* What t is used once more leaves of a history that held it as the q-th   *)
(* from the end: the later ones move on, the earlier ones stay.            *)
LEMMA WithoutPlace ==
  ASSUME NEW seq \in Seq(Tag), NEW t \in Tag, NEW q \in 1 .. Len(seq),
         FromEnd(seq, q) = t,
         \A k \in 1 .. Len(seq) : FromEnd(seq, k) = t => k = q
  PROVE  /\ Without(seq, t) \in Seq(Tag)
         /\ Len(Without(seq, t)) = Len(seq) - 1
         /\ \A k \in 1 .. Len(seq) - 1 :
              FromEnd(Without(seq, t), k) =
                IF k < q THEN FromEnd(seq, k) ELSE FromEnd(seq, k + 1)
<1> DEFINE p == Len(seq) + 1 - q
           new == [i \in 1 .. Len(seq) - 1 |-> IF i < p THEN seq[i] ELSE seq[i + 1]]
<1>1. /\ Len(seq) \in Nat /\ DOMAIN seq = 1 .. Len(seq)
      /\ p \in 1 .. Len(seq) /\ seq[p] = t
      /\ \A i \in 1 .. Len(seq) : seq[i] \in Tag
  BY DEF FromEnd
<1>2. ASSUME NEW i \in 1 .. Len(seq), seq[i] = t PROVE i = p
  <2>1. /\ Len(seq) + 1 - i \in 1 .. Len(seq)
        /\ Len(seq) + 1 - (Len(seq) + 1 - i) = i
    BY <1>1
  <2>2. Len(seq) + 1 - i = q
    BY <1>2, <2>1 DEF FromEnd
  <2>. QED BY <1>1, <2>2
<1>3. (CHOOSE i \in DOMAIN seq : seq[i] = t) = p
  BY <1>1, <1>2
<1>4. Without(seq, t) = new
  BY <1>1, <1>3 DEF Without, Elements
<1>5. new \in Seq(Tag) /\ Len(new) = Len(seq) - 1
  <2>1. Len(seq) - 1 \in Nat /\ new \in [1 .. Len(seq) - 1 -> Tag]
    BY <1>1
  <2>. QED BY <2>1
<1>6. ASSUME NEW k \in 1 .. Len(seq) - 1
      PROVE  FromEnd(new, k) = IF k < q THEN FromEnd(seq, k) ELSE FromEnd(seq, k + 1)
  <2> DEFINE i == Len(seq) - k
  <2>0. Len(seq) \in Nat
    OBVIOUS
  <2>1. /\ i \in 1 .. Len(seq) - 1
        /\ i < p => ~(k < q)
        /\ ~(i < p) => k < q
        /\ Len(seq) + 1 - k = i + 1 /\ Len(seq) + 1 - (k + 1) = i
        /\ Len(seq) - 1 + 1 - k = i
    BY <2>0
  <2>2. new[i] = IF i < p THEN seq[i] ELSE seq[i + 1]
    BY <2>1
  <2> HIDE DEF i, p, new
  <2>. QED BY <1>5, <2>1, <2>2 DEF FromEnd
<1>. QED BY <1>4, <1>5, <1>6

(* A history after t was used: t is last, what came after it before moves  *)
(* on by one place.  q is the old place of t, NWays if there was none.     *)
LEMMA UsedStep ==
  ASSUME NEW seq \in Seq(Tag), Len(seq) <= NWays, NEW t \in Tag, NEW q \in 1 .. NWays,
         \/ /\ q <= Len(seq) /\ FromEnd(seq, q) = t
            /\ \A k \in 1 .. Len(seq) : FromEnd(seq, k) = t => k = q
         \/ q = NWays /\ t \notin Elements(seq),
         NEW new, new = After(Without(seq, t), t)
  PROVE  /\ new \in Seq(Tag)
         /\ Len(new) = IF q <= Len(seq) THEN Len(seq) ELSE Len(seq) + 1
         /\ FromEnd(new, 1) = t
         /\ \A k \in 2 .. Len(new) :
              FromEnd(new, k) = IF k <= q THEN FromEnd(seq, k - 1) ELSE FromEnd(seq, k)
<1> DEFINE rest == Without(seq, t)
<1>1. Len(seq) \in Nat /\ NWays \in Nat /\ NWays >= 1
  BY ReplacerAssumption
<1>2. /\ rest \in Seq(Tag) /\ Len(rest) <= NWays
      /\ \/ /\ q <= Len(seq) /\ Len(rest) = Len(seq) - 1
            /\ \A k \in 1 .. Len(seq) - 1 :
                 FromEnd(rest, k) = IF k < q THEN FromEnd(seq, k) ELSE FromEnd(seq, k + 1)
         \/ q = NWays /\ rest = seq
  <2>1. CASE /\ q <= Len(seq) /\ FromEnd(seq, q) = t
             /\ \A k \in 1 .. Len(seq) : FromEnd(seq, k) = t => k = q
    <3>1. q \in 1 .. Len(seq)
      BY <1>1, <2>1
    <3>. QED BY <1>1, <2>1, <3>1, WithoutPlace
  <2>2. CASE q = NWays /\ t \notin Elements(seq)
    BY <2>2 DEF Without
  <2>. QED BY <2>1, <2>2
<1> HIDE DEF rest
<1>3. /\ new \in Seq(Tag)
      /\ Len(new) = (IF Len(rest) = NWays THEN NWays ELSE Len(rest) + 1)
      /\ new[Len(new)] = t
  BY <1>2, LatestReads, Zenon DEF rest
<1>4. \A k \in 1 .. Len(rest) : k + 1 <= Len(new) => FromEnd(new, k + 1) = FromEnd(rest, k)
  <2>1. \A k \in 1 .. Len(rest) : k + 1 <= Len(After(rest, t)) =>
          After(rest, t)[Len(After(rest, t)) + 1 - (k + 1)] = rest[Len(rest) + 1 - k]
    BY <1>2, LatestReads, SMT
  <2>. QED BY <2>1 DEF FromEnd, rest
<1>5. Len(rest) \in Nat /\ Len(new) \in Nat
  BY <1>2, <1>3
<1>6. Len(new) = IF q <= Len(seq) THEN Len(seq) ELSE Len(seq) + 1
  BY <1>1, <1>2, <1>3, <1>5
<1>7. FromEnd(new, 1) = t
  BY <1>3, <1>5 DEF FromEnd
<1>8. ASSUME NEW k \in 2 .. Len(new)
      PROVE  FromEnd(new, k) = IF k <= q THEN FromEnd(seq, k - 1) ELSE FromEnd(seq, k)
  <2> DEFINE j == k - 1
  <2>1. j \in 1 .. Len(rest) /\ j + 1 = k /\ j + 1 <= Len(new) /\ q \in Int
        /\ (j < q => k <= q) /\ (k <= q => j < q)
    BY <1>3, <1>5
  <2>2. FromEnd(new, k) = FromEnd(rest, j)
    BY <1>4, <2>1
  <2>3. CASE q <= Len(seq) /\ Len(rest) = Len(seq) - 1 /\
             \A i \in 1 .. Len(seq) - 1 :
               FromEnd(rest, i) = IF i < q THEN FromEnd(seq, i) ELSE FromEnd(seq, i + 1)
    <3>. HIDE DEF j
    <3>1. FromEnd(rest, j) = IF j < q THEN FromEnd(seq, j) ELSE FromEnd(seq, j + 1)
      BY <2>1, <2>3
    <3>. QED BY <2>1, <2>2, <3>1 DEF j
  <2>4. CASE q = NWays /\ rest = seq
    <3>1. k <= q
      BY <1>1, <1>3, <1>5, <2>4
    <3>. QED BY <2>2, <2>4, <3>1
  <2>. QED BY <1>2, <2>3, <2>4
<1>. QED BY <1>3, <1>6, <1>7, <1>8-----------------------------------------------------------------------------
(* LRU: a get or set moves the line's way and its tag to the end together. *)
LEMMA AccessKeepsLru ==
  ASSUME HistoryInv, Lru, NEW t \in Tag, NEW s \in Set, NEW w \in Ways,
         Fetch(t, s, w), Remember(t, s)
  PROVE  /\ IsHistory(used)'
         /\ UsedInOrder' /\ HeldWereUsed'
<1> DEFINE old  == used[s]
           new  == used'[s]
           ord  == order[s]
           turn == NotifyUse(order[s], w)
<1>1. /\ TypeOK /\ UniqueTags /\ LruHoldsEveryWay
      /\ old \in Seq(Tag) /\ Len(old) \in Nat /\ Len(old) <= NWays
      /\ IsOrder(ord) /\ NWays \in Nat /\ NWays >= 1
  BY ReplacerAssumption DEF HistoryInv, HistoryTypeOK, IsHistory, CacheInv, LruHoldsEveryWay
<1>2. /\ new = After(Without(old, t), t) /\ order'[s] = turn
      /\ \A r \in Set : r # s => used'[r] = used[r] /\ order'[r] = order[r]
  BY <1>1 DEF Remember, Fetch, HistoryInv, HistoryTypeOK, IsHistory, TypeOK, LinesTypeOK, After
<1>3. /\ Holds(s, w, t)'
      /\ \A r \in Set, v \in Ways : <<r, v>> # <<s, w>> =>
           valid'[<<r, v>>] = valid[<<r, v>>] /\ tag'[<<r, v>>] = tag[<<r, v>>]
      /\ \A v \in Ways : Holds(s, v, t) => v = w /\ IsHit(t, s)
      /\ IsHit(t, s) => Holds(s, w, t)
      /\ ~IsHit(t, s) => w = ord[0]
  <2>1. /\ tag' = [tag EXCEPT ![<<s, w>>] = t]
        /\ valid' = [valid EXCEPT ![<<s, w>>] = TRUE]
        /\ \A v \in Ways : valid[<<s, v>>] /\ tag[<<s, v>>] = t => v = w /\ IsHit(t, s)
        /\ IsHit(t, s) => valid[<<s, w>>] /\ tag[<<s, w>>] = t
    BY <1>1, FetchEffect
  <2>2. ~IsHit(t, s) => w = ord[0]
    BY DEF Fetch, VictimWay, GetWay
  <2>. QED BY <1>1, <2>1, <2>2 DEF Holds, TypeOK, LinesTypeOK, Slot
<1>4. \A k \in 1 .. Len(old) : /\ ord[NWays - k] \in Ways
                               /\ Holds(s, ord[NWays - k], FromEnd(old, k))
  <2>1. \A k \in 1 .. Len(old) : NWays - k \in Ways
    BY <1>1 DEF Ways
  <2>. QED BY <1>1, <2>1 DEF HistoryInv, UsedInOrder, IsOrder
<1>5. \A j, k \in 1 .. NWays : ord[NWays - j] = ord[NWays - k] => j = k
  <2>1. \A k \in 1 .. NWays : NWays - k \in Ways
    BY <1>1 DEF Ways
  <2>. QED BY <1>1, <2>1 DEF IsOrder
<1> HIDE DEF old, new, ord, turn
<1>6. PICK q \in 1 .. NWays :
        /\ w = ord[NWays - q]
        /\ \/ /\ q <= Len(old) /\ FromEnd(old, q) = t
              /\ \A k \in 1 .. Len(old) : FromEnd(old, k) = t => k = q
           \/ q = NWays /\ t \notin Elements(old)
  <2>0. \A k \in 1 .. Len(old) : FromEnd(old, k) = t => w = ord[NWays - k] /\ IsHit(t, s)
    BY <1>3, <1>4
  <2>1. CASE IsHit(t, s)
    <3>1. PICK q \in 1 .. Len(old) : w = ord[NWays - q]
      BY <1>3, <2>1 DEF HistoryInv, HeldWereUsed, Holds, old, ord
    <3>2. FromEnd(old, q) = t
      BY <1>3, <1>4, <2>1, <3>1 DEF Holds
    <3>3. q \in 1 .. NWays /\ \A k \in 1 .. Len(old) : k \in 1 .. NWays
      BY <1>1
    <3>. QED BY <1>5, <2>0, <3>1, <3>2, <3>3
  <2>2. CASE ~IsHit(t, s)
    <3>1. t \notin Elements(old)
      <4> SUFFICES ASSUME NEW i \in DOMAIN old, old[i] = t PROVE FALSE
        BY DEF Elements
      <4>1. Len(old) + 1 - i \in 1 .. Len(old) /\ Len(old) + 1 - (Len(old) + 1 - i) = i
        BY <1>1
      <4>. QED BY <2>0, <2>2, <4>1 DEF FromEnd
    <3>2. NWays \in 1 .. NWays /\ w = ord[NWays - NWays]
      BY <1>1, <1>3, <2>2
    <3>. QED BY <3>1, <3>2
  <2>. QED BY <2>1, <2>2
<1>7. /\ new \in Seq(Tag)
      /\ Len(new) = IF q <= Len(old) THEN Len(old) ELSE Len(old) + 1
      /\ FromEnd(new, 1) = t
      /\ \A k \in 2 .. Len(new) :
           FromEnd(new, k) = IF k <= q THEN FromEnd(old, k - 1) ELSE FromEnd(old, k)
  BY <1>1, <1>2, <1>6, UsedStep
<1>8. /\ turn[NWays - 1] = w
      /\ \A k \in 2 .. NWays :
           turn[NWays - k] = IF k <= q THEN ord[NWays - (k - 1)] ELSE ord[NWays - k]
  <2>1. turn = NotifyUse(ord, w) /\ w = ord[NWays - q]
    BY <1>6 DEF turn, ord
  <2>2. turn[NWays - 1] = w
    BY <1>1, <2>1, OrderStep
  <2>3. ASSUME NEW k \in 2 .. NWays
        PROVE  turn[NWays - k] = IF k <= q THEN ord[NWays - (k - 1)] ELSE ord[NWays - k]
    BY <1>1, <2>1, OrderStep
  <2>. QED BY <2>2, <2>3
<1>9. Len(new) \in 1 .. NWays /\ q \in Int /\ (q > Len(old) => q = NWays)
  BY <1>1, <1>6, <1>7
<1>10. IsHistory(used)'
  <2>1. used' = [used EXCEPT ![s] = new]
    BY DEF Remember, HistoryInv, HistoryTypeOK, IsHistory, new
  <2>. QED BY <1>7, <1>9, <2>1 DEF HistoryInv, HistoryTypeOK, IsHistory
<1>11. UsedInOrder'
  <2> SUFFICES ASSUME NEW r \in Set, NEW k \in 1 .. Len(used'[r])
               PROVE  Holds(r, order[r][NWays - k], FromEnd(used[r], k))'
    BY DEF UsedInOrder, Holds, FromEnd
  <2>1. CASE r # s
    <3>1. Holds(r, order[r][NWays - k], FromEnd(used[r], k))
      BY <1>2, <2>1 DEF HistoryInv, UsedInOrder
    <3>2. order[r][NWays - k] \in Ways
      <4>1. k \in 1 .. NWays /\ NWays - k \in Ways
        BY <1>1, <1>2, <2>1 DEF Ways, HistoryInv, HistoryTypeOK, IsHistory
      <4>2. IsOrder(order[r])
        BY <1>1 DEF LruHoldsEveryWay
      <4>. QED BY <4>1, <4>2 DEF IsOrder
    <3>. QED BY <1>2, <1>3, <2>1, <3>1, <3>2 DEF Holds, FromEnd
  <2>2. CASE r = s /\ k = 1
    BY <1>2, <1>3, <1>7, <1>8, <2>2 DEF Holds, FromEnd, new
  <2>3. CASE r = s /\ k # 1
    <3>0. k \in 2 .. Len(new) /\ k \in 2 .. NWays
      <4>1. k \in 1 .. Len(new)
        BY <2>3 DEF new
      <4>. QED BY <1>1, <1>9, <2>3, <4>1
    <3> DEFINE j == IF k <= q THEN k - 1 ELSE k
    <3>1. j \in 1 .. Len(old) /\ j \in 1 .. NWays /\ j # q
      BY <1>1, <1>7, <1>9, <3>0
    <3>2. FromEnd(new, k) = FromEnd(old, j) /\ turn[NWays - k] = ord[NWays - j]
      BY <1>7, <1>8, <3>0
    <3> HIDE DEF j
    <3>3. ord[NWays - j] # w
      BY <1>5, <1>6, <3>1
    <3>4. Holds(s, ord[NWays - j], FromEnd(old, j)) /\ ord[NWays - j] \in Ways
      BY <1>4, <3>1
    <3>. QED BY <1>2, <1>3, <2>3, <3>2, <3>3, <3>4 DEF Holds, FromEnd, new
  <2>. QED BY <2>1, <2>2, <2>3
<1>12. HeldWereUsed'
  <2> SUFFICES ASSUME NEW r \in Set, NEW v \in Ways, valid'[<<r, v>>]
               PROVE  \E k \in 1 .. Len(used'[r]) : v = order'[r][NWays - k]
    BY DEF HeldWereUsed
  <2>1. CASE r # s
    BY <1>2, <1>3, <2>1 DEF HistoryInv, HeldWereUsed
  <2>2. CASE r = s /\ v = w
    BY <1>2, <1>8, <1>9, <2>2 DEF new
  <2>3. CASE r = s /\ v # w
    <3>1. PICK j \in 1 .. Len(old) : v = ord[NWays - j]
      BY <1>3, <2>3 DEF HistoryInv, HeldWereUsed, old, ord
    <3> DEFINE k == IF j < q THEN j + 1 ELSE j
    <3>2. j # q
      BY <1>6, <2>3, <3>1
    <3>3. k \in 2 .. Len(new) /\ k \in 2 .. NWays
      BY <1>1, <1>6, <1>7, <1>9, <3>1, <3>2
    <3>4. turn[NWays - k] = ord[NWays - j]
      BY <1>8, <1>9, <3>2, <3>3
    <3>. QED BY <1>2, <2>3, <3>1, <3>3, <3>4 DEF new
  <2>. QED BY <2>1, <2>2, <2>3
<1>. QED BY <1>10, <1>11, <1>12
(* The counter: a miss loads the line where the counter is, a hit changes  *)
(* neither the lines nor the counter.                                      *)
LEMMA AccessKeepsFifo ==
  ASSUME HistoryInv, ~Lru, NEW t \in Tag, NEW s \in Set, NEW w \in Ways,
         Fetch(t, s, w), Remember(t, s)
  PROVE  /\ IsHistory(loaded)'
         /\ LoadedInTurn' /\ HeldWereLoaded'
<1>1. CASE IsHit(t, s)
  <2>1. UNCHANGED <<tag, valid, next, loaded>>
    BY <1>1 DEF Fetch, Remember
  <2>. QED BY <2>1 DEF HistoryInv, HistoryTypeOK, IsHistory, LoadedInTurn, HeldWereLoaded, Holds,
                       FromEnd, Back
<1>2. CASE ~IsHit(t, s)
  <2> DEFINE n   == next[s]
             old == loaded[s]
             new == loaded'[s]
  <2>1. /\ n \in Ways /\ old \in Seq(Tag) /\ Len(old) \in Nat /\ Len(old) <= NWays
        /\ NWays \in Nat /\ NWays >= 1
    BY ReplacerAssumption
       DEF HistoryInv, HistoryTypeOK, IsHistory, CacheInv, TypeOK, LinesTypeOK
  <2>2. /\ w = n /\ new = After(old, t) /\ next'[s] = NotifyInsertion(n)
        /\ Holds(s, w, t)'
        /\ \A r \in Set : r # s => loaded'[r] = loaded[r] /\ next'[r] = next[r]
        /\ \A r \in Set, v \in Ways : <<r, v>> # <<s, w>> =>
             valid'[<<r, v>>] = valid[<<r, v>>] /\ tag'[<<r, v>>] = tag[<<r, v>>]
    BY <1>2 DEF Remember, Fetch, VictimWay, GetWay, After, Holds, HistoryInv,
                HistoryTypeOK, IsHistory, CacheInv, TypeOK, LinesTypeOK, Slot
  <2> HIDE DEF old, new, n
  <2>3. /\ new \in Seq(Tag)
        /\ Len(new) = (IF Len(old) = NWays THEN NWays ELSE Len(old) + 1)
        /\ new[Len(new)] = t
    <3>1. /\ After(old, t) \in Seq(Tag)
          /\ Len(After(old, t)) = (IF Len(old) = NWays THEN NWays ELSE Len(old) + 1)
          /\ After(old, t)[Len(After(old, t))] = t
      BY <2>1, LatestReads, Zenon
    <3>. QED BY <2>2, <3>1
  <2>4. \A k \in 1 .. Len(old) : k + 1 <= Len(new) => FromEnd(new, k + 1) = FromEnd(old, k)
    <3>1. \A k \in 1 .. Len(old) : k + 1 <= Len(After(old, t)) =>
            After(old, t)[Len(After(old, t)) + 1 - (k + 1)] = old[Len(old) + 1 - k]
      BY <2>1, LatestReads, SMT
    <3>. QED BY <2>2, <3>1 DEF FromEnd
  <2>5. Len(new) \in 1 .. NWays /\ FromEnd(new, 1) = t
    BY <2>1, <2>3 DEF FromEnd
  <2>6. /\ Back(next'[s], 1) = n /\ Back(n, NWays) = n
        /\ \A k \in 1 .. NWays - 1 : Back(next'[s], k + 1) = Back(n, k) /\ Back(n, k) # n
    BY <2>1, <2>2, BackStep
  <2>7. \A r \in Set : \A k \in 1 .. NWays : Back(next[r], k) \in Ways
    BY BackStep DEF HistoryInv, CacheInv, TypeOK, LinesTypeOK
  <2>8. IsHistory(loaded)'
    <3>1. loaded' = [loaded EXCEPT ![s] = new]
      BY <1>2 DEF Remember, HistoryInv, HistoryTypeOK, IsHistory, new
    <3>. QED BY <2>3, <2>5, <3>1 DEF HistoryInv, HistoryTypeOK, IsHistory
  <2>9. LoadedInTurn'
    <3> SUFFICES ASSUME NEW r \in Set, NEW k \in 1 .. Len(loaded'[r])
                 PROVE  Holds(r, Back(next[r], k), FromEnd(loaded[r], k))'
      BY DEF LoadedInTurn, Holds, FromEnd, Back
    <3>1. CASE r # s
      <4>1. Holds(r, Back(next[r], k), FromEnd(loaded[r], k))
        BY <2>2, <3>1 DEF HistoryInv, LoadedInTurn
      <4>2. Back(next[r], k) \in Ways
        <5>1. k \in 1 .. NWays
          BY <2>1, <2>2, <3>1 DEF HistoryInv, HistoryTypeOK, IsHistory
        <5>. QED BY <2>7, <5>1
      <4>. QED BY <2>2, <3>1, <4>1, <4>2 DEF Holds, FromEnd, Back
    <3>2. CASE r = s /\ k = 1
      <4>1. Back(next'[s], k) = w /\ FromEnd(loaded'[s], k) = t
        BY <2>2, <2>5, <2>6, <3>2 DEF new
      <4>. QED BY <2>2, <3>2, <4>1 DEF Holds, FromEnd, Back
    <3>3. CASE r = s /\ k # 1
      <4> DEFINE j == k - 1
      <4>1. k \in 1 .. Len(new)
        BY <3>3 DEF new
      <4>2. j \in 1 .. Len(old) /\ j \in 1 .. NWays - 1 /\ j + 1 = k /\ j \in 1 .. NWays
        BY <2>1, <2>3, <2>5, <3>3, <4>1
      <4> HIDE DEF j
      <4>3. /\ Back(next'[s], k) = Back(n, j) /\ Back(n, j) # n
            /\ FromEnd(new, k) = FromEnd(old, j)
        BY <2>4, <2>6, <4>1, <4>2
      <4>4. Holds(s, Back(n, j), FromEnd(old, j)) /\ Back(n, j) \in Ways
        BY <2>7, <4>2 DEF HistoryInv, LoadedInTurn, n, old
      <4>. QED BY <2>2, <3>3, <4>3, <4>4 DEF Holds, FromEnd, Back, new
    <3>. QED BY <3>1, <3>2, <3>3
  <2>10. HeldWereLoaded'
    <3> SUFFICES ASSUME NEW r \in Set, NEW v \in Ways, valid'[<<r, v>>]
                 PROVE  \E k \in 1 .. Len(loaded'[r]) : v = Back(next'[r], k)
      BY DEF HeldWereLoaded, Back
    <3>1. CASE r # s
      BY <2>2, <3>1 DEF HistoryInv, HeldWereLoaded, Back
    <3>2. CASE r = s /\ v = w
      BY <2>2, <2>5, <2>6, <3>2 DEF new
    <3>3. CASE r = s /\ v # w
      <4>1. PICK j \in 1 .. Len(old) : v = Back(n, j)
        BY <2>2, <3>3 DEF HistoryInv, HeldWereLoaded, n, old
      <4>2. j # NWays
        BY <2>2, <2>6, <3>3, <4>1
      <4>3. j \in 1 .. NWays - 1 /\ j + 1 \in 1 .. Len(new)
        BY <2>1, <2>3, <4>1, <4>2
      <4>. QED BY <2>6, <3>3, <4>1, <4>3 DEF new
    <3>. QED BY <3>1, <3>2, <3>3
  <2>. QED BY <2>8, <2>9, <2>10
<1>. QED BY <1>1, <1>2
(* A get or set, hit or miss, keeps both policies' promises. *)
LEMMA AccessKeepsHistory ==
  ASSUME HistoryInv, CacheInv', NEW t \in Tag, NEW s \in Set, NEW w \in Ways,
         Fetch(t, s, w), Remember(t, s)
  PROVE  HistoryInv'
<1>1. CASE Lru
  <2>1. IsHistory(used)' /\ UsedInOrder' /\ HeldWereUsed'
    BY <1>1, AccessKeepsLru
  <2>. QED BY <1>1, <2>1 DEF HistoryInv, HistoryTypeOK, LoadedInTurn, HeldWereLoaded
<1>2. CASE ~Lru
  <2>1. IsHistory(loaded)' /\ LoadedInTurn' /\ HeldWereLoaded'
    BY <1>2, AccessKeepsFifo
  <2>. QED BY <1>2, <2>1 DEF HistoryInv, HistoryTypeOK, UsedInOrder, HeldWereUsed
<1>. QED BY <1>1, <1>2

(* The histories describe the sets when nothing was used or loaded yet. *)
LEMMA InitEstablishesHistory ==
  ASSUME ReplacementInit PROVE HistoryInv
<1>1. CacheInv
  BY InitEstablishesInv DEF ReplacementInit
<1>2. /\ used = [s \in Set |-> << >>] /\ loaded = [s \in Set |-> << >>]
      /\ \A s \in Set, w \in Ways : ~valid[<<s, w>>]
  BY DEF ReplacementInit, Init, LinesInit, Slot
<1>. QED BY <1>1, <1>2, ReplacerAssumption
     DEF HistoryInv, HistoryTypeOK, IsHistory, UsedInOrder, HeldWereUsed,
         LoadedInTurn, HeldWereLoaded

(* No step takes that from them. *)
LEMMA StepKeepsHistory ==
  ASSUME HistoryInv, [ReplacementNext]_<<vars, history>> PROVE HistoryInv'
<1>1. CacheInv'
  <2>1. [Next]_vars
    BY DEF ReplacementNext, Next
  <2>. QED BY <2>1, StepKeepsInv DEF HistoryInv
<1>2. ASSUME NEW t \in Tag, NEW s \in Set, NEW o \in Off, Get(t, s, o), Remember(t, s)
      PROVE  HistoryInv'
  BY <1>1, <1>2, AccessKeepsHistory DEF Get
<1>3. ASSUME NEW t \in Tag, NEW s \in Set, NEW o \in Off, NEW d \in Data,
             Put(t, s, o, d), Remember(t, s)
      PROVE  HistoryInv'
  BY <1>1, <1>3, AccessKeepsHistory DEF Put
<1>4. CASE \/ (Stop \/ FlushLine) /\ UNCHANGED history
           \/ \E t \in Tag, s \in Set, line \in Line : HostStore(t, s, line) /\ UNCHANGED history
           \/ UNCHANGED <<vars, history>>
  <2>1. UNCHANGED <<tag, valid, order, next, used, loaded>>
    BY <1>4 DEF Stop, FlushLine, HostStore, vars, lines, replacer, history
  <2>2. HistoryTypeOK'
    BY <2>1 DEF HistoryInv, HistoryTypeOK, IsHistory
  <2>3. UsedInOrder' /\ HeldWereUsed'
    BY <2>1 DEF HistoryInv, UsedInOrder, HeldWereUsed, Holds, FromEnd
  <2>4. LoadedInTurn' /\ HeldWereLoaded'
    BY <2>1 DEF HistoryInv, LoadedInTurn, HeldWereLoaded, Holds, FromEnd, Back
  <2>. QED BY <1>1, <2>2, <2>3, <2>4 DEF HistoryInv
<1>5. CASE Restart /\ Forget
  <2>1. /\ used' = [s \in Set |-> << >>] /\ loaded' = [s \in Set |-> << >>]
        /\ \A s \in Set, w \in Ways : ~valid'[<<s, w>>]
    BY <1>5 DEF Restart, Forget, Slot
  <2>. QED BY <1>1, <2>1, ReplacerAssumption
       DEF HistoryInv, HistoryTypeOK, IsHistory, UsedInOrder, HeldWereUsed,
           LoadedInTurn, HeldWereLoaded
<1>. QED BY <1>2, <1>3, <1>4, <1>5 DEF ReplacementNext

(* The histories describe the sets in every reachable state. *)
THEOREM HistoryInvariant == ReplacementSpec => []HistoryInv
<1>1. ReplacementInit => HistoryInv
  BY InitEstablishesHistory
<1>2. HistoryInv /\ [ReplacementNext]_<<vars, history>> => HistoryInv'
  BY StepKeepsHistory
<1>. QED BY <1>1, <1>2, PTL DEF ReplacementSpec

(* What the histories say of an LRU cache. *)
LEMMA LruHoldsUsed ==
  ASSUME HistoryInv PROVE LruKeepsRecentLines
<1> SUFFICES ASSUME Lru, NEW s \in Set PROVE Kept(s) = Elements(used[s])
  BY DEF LruKeepsRecentLines
<1>1. /\ IsOrder(order[s]) /\ NWays \in Nat /\ Len(used[s]) \in Nat
      /\ Len(used[s]) <= NWays /\ DOMAIN used[s] = 1 .. Len(used[s])
  BY ReplacerAssumption DEF HistoryInv, HistoryTypeOK, IsHistory, CacheInv, LruHoldsEveryWay
<1>2. ASSUME NEW w \in Ways, valid[<<s, w>>] PROVE tag[<<s, w>>] \in Elements(used[s])
  <2>1. PICK k \in 1 .. Len(used[s]) : w = order[s][NWays - k]
    BY <1>2 DEF HistoryInv, HeldWereUsed
  <2>2. tag[<<s, w>>] = used[s][Len(used[s]) + 1 - k]
    BY <2>1 DEF HistoryInv, UsedInOrder, Holds, FromEnd
  <2>3. Len(used[s]) + 1 - k \in DOMAIN used[s]
    BY <1>1
  <2>. QED BY <2>2, <2>3 DEF Elements
<1>3. ASSUME NEW i \in DOMAIN used[s] PROVE used[s][i] \in Kept(s)
  <2> DEFINE k == Len(used[s]) + 1 - i
  <2>1. k \in 1 .. Len(used[s]) /\ Len(used[s]) + 1 - k = i /\ NWays - k \in Ways
    BY <1>1 DEF Ways
  <2> HIDE DEF k
  <2>2. Holds(s, order[s][NWays - k], used[s][i])
    BY <2>1 DEF HistoryInv, UsedInOrder, FromEnd
  <2>3. order[s][NWays - k] \in Ways
    BY <1>1, <2>1 DEF IsOrder
  <2>. QED BY <2>2, <2>3 DEF Kept, Holds
<1>. QED BY <1>2, <1>3 DEF Kept, Elements

(* LRU: a set holds exactly the NWays lines used last. *)
THEOREM LruKeepsLastUsed == ReplacementSpec => []LruKeepsRecentLines
<1>1. HistoryInv => LruKeepsRecentLines
  BY LruHoldsUsed
<1>. QED BY <1>1, HistoryInvariant, PTL

(* What they say of a cache with the counter. *)
LEMMA FifoHoldsLoaded ==
  ASSUME HistoryInv PROVE FifoKeepsLastLoads
<1> SUFFICES ASSUME ~Lru, NEW s \in Set PROVE Kept(s) = Elements(loaded[s])
  BY DEF FifoKeepsLastLoads
<1>1. /\ next[s] \in Ways /\ NWays \in Nat /\ Len(loaded[s]) \in Nat
      /\ Len(loaded[s]) <= NWays /\ DOMAIN loaded[s] = 1 .. Len(loaded[s])
  BY ReplacerAssumption DEF HistoryInv, HistoryTypeOK, IsHistory, CacheInv, TypeOK, LinesTypeOK
<1>2. ASSUME NEW w \in Ways, valid[<<s, w>>] PROVE tag[<<s, w>>] \in Elements(loaded[s])
  <2>1. PICK k \in 1 .. Len(loaded[s]) : w = Back(next[s], k)
    BY <1>2 DEF HistoryInv, HeldWereLoaded
  <2>2. tag[<<s, w>>] = loaded[s][Len(loaded[s]) + 1 - k]
    BY <2>1 DEF HistoryInv, LoadedInTurn, Holds, FromEnd
  <2>3. Len(loaded[s]) + 1 - k \in DOMAIN loaded[s]
    BY <1>1
  <2>. QED BY <2>2, <2>3 DEF Elements
<1>3. ASSUME NEW i \in DOMAIN loaded[s] PROVE loaded[s][i] \in Kept(s)
  <2> DEFINE k == Len(loaded[s]) + 1 - i
  <2>1. k \in 1 .. Len(loaded[s]) /\ Len(loaded[s]) + 1 - k = i /\ k \in 1 .. NWays
    BY <1>1
  <2> HIDE DEF k
  <2>2. Holds(s, Back(next[s], k), loaded[s][i])
    BY <2>1 DEF HistoryInv, LoadedInTurn, FromEnd
  <2>3. Back(next[s], k) \in Ways
    BY <1>1, <2>1, BackStep
  <2>. QED BY <2>2, <2>3 DEF Kept, Holds
<1>. QED BY <1>2, <1>3 DEF Kept, Elements

(* The counter: a set holds exactly the NWays lines loaded last.           *)
THEOREM FifoKeepsLastLoaded == ReplacementSpec => []FifoKeepsLastLoads
<1>1. HistoryInv => FifoKeepsLastLoads
  BY FifoHoldsLoaded
<1>. QED BY <1>1, HistoryInvariant, PTL
=============================================================================
