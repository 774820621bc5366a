--------------------------- MODULE L1CacheProofs ---------------------------
(***************************************************************************)
(* For every number of sets, ways and ports: no L1 copy of an unwritten    *)
(* line is out of date, and each set is a FIFO of the lines read last.     *)
(***************************************************************************)
EXTENDS L1Cache, WellFoundedInduction, TLAPS

-----------------------------------------------------------------------------
(* What the counter of Replacer and a history do, as in DachCacheProofs.   *)

(* The counter goes round the ways. *)
LEMMA CounterStep ==
  ASSUME ~Lru, NEW n \in Ways, NEW ord
  PROVE  /\ NotifyInsertion(n) = (IF n = NWays - 1 THEN 0 ELSE n + 1)
         /\ NotifyInsertion(n) \in Ways
         /\ GetWay(ord, n) = n
<1>1. NotifyInsertion(n) = (n + 1) % NWays /\ GetWay(ord, n) = n
  BY DEF NotifyInsertion, GetWay
<1>2. (n + 1) % NWays = (IF n = NWays - 1 THEN 0 ELSE n + 1)
  <2>1. n \in Nat /\ n < NWays /\ NWays \in Nat /\ NWays >= 1
    BY ReplacerAssumption DEF Ways
  <2>. QED BY <2>1
<1>. QED BY <1>1, <1>2, ReplacerAssumption DEF Ways

(* Going back k + 1 insertions from the new count is k from the old one, *)
(* and NWays insertions go once round.                                   *)
LEMMA BackStep ==
  ASSUME ~Lru, NEW n \in Ways
  PROVE  /\ Back(NotifyInsertion(n), 1) = n
         /\ \A k \in 1 .. NWays - 1 :
              /\ Back(NotifyInsertion(n), k + 1) = Back(n, k)
              /\ Back(n, k) # n
         /\ Back(n, NWays) = n
         /\ \A k \in 1 .. NWays : Back(n, k) \in Ways
BY CounterStep, ReplacerAssumption DEF Back, Ways

(* A read puts its tag last in the history and moves the others by one. *)
LEMMA LatestReads ==
  ASSUME NEW S, NEW seq \in Seq(S), Len(seq) <= NWays, NEW t \in S
  PROVE  /\ After(seq, t) \in Seq(S)
         /\ Len(After(seq, t)) = (IF Len(seq) = NWays THEN NWays ELSE Len(seq) + 1)
         /\ After(seq, t)[Len(After(seq, t))] = t
         /\ \A k \in 1 .. Len(seq) : k + 1 <= Len(After(seq, t)) =>
              After(seq, t)[Len(After(seq, t)) + 1 - (k + 1)] = seq[Len(seq) + 1 - k]
<1>1. /\ Len(seq) \in Nat /\ NWays \in Nat /\ NWays >= 1
      /\ Append(seq, t) \in Seq(S) /\ Len(Append(seq, t)) = Len(seq) + 1
      /\ Append(seq, t)[Len(seq) + 1] = t
      /\ \A i \in 1 .. Len(seq) : Append(seq, t)[i] = seq[i]
  BY ReplacerAssumption
<1>2. CASE Len(seq) = NWays
  <2>1. After(seq, t) = Tail(Append(seq, t))
    BY <1>1, <1>2 DEF After, Latest
  <2>2. /\ After(seq, t) \in Seq(S) /\ Len(After(seq, t)) = NWays
        /\ \A i \in 1 .. NWays : After(seq, t)[i] = Append(seq, t)[i + 1]
    BY <1>1, <1>2, <2>1
  <2>3. ASSUME NEW k \in 1 .. Len(seq), k + 1 <= NWays
        PROVE  After(seq, t)[NWays + 1 - (k + 1)] = seq[Len(seq) + 1 - k]
    <3>1. /\ NWays + 1 - (k + 1) \in 1 .. NWays
          /\ (NWays + 1 - (k + 1)) + 1 = Len(seq) + 1 - k
          /\ Len(seq) + 1 - k \in 1 .. Len(seq)
      BY <1>1, <1>2, <2>3
    <3>. QED BY <1>1, <2>2, <3>1
  <2>4. After(seq, t)[NWays] = t
    BY <1>1, <1>2, <2>2
  <2>. QED BY <1>2, <2>2, <2>3, <2>4
<1>3. CASE Len(seq) # NWays
  <2>1. After(seq, t) = Append(seq, t)
    BY <1>1, <1>3 DEF After, Latest
  <2>. QED BY <1>1, <1>3, <2>1
<1>. QED BY <1>2, <1>3
-----------------------------------------------------------------------------
(* A valid slot whose line was not written since init() equals the line. *)
CopiesAreCurrent ==
  running =>
    \A p \in Port, s \in Set, w \in Ways :
      valid[p][<<s, w>>] =>
        \/ <<tag[p][<<s, w>>], s>> \in written
        \/ line[p][<<s, w>>] = array[<<tag[p][<<s, w>>], s>>]

CopyInv == TypeOK /\ CopiesAreCurrent

ReadsTypeOK ==
  \A p \in Port, s \in Set : reads[p][s] \in Seq(Tag) /\ Len(reads[p][s]) <= NWays

(* The read k reads ago left its tag in the way of k insertions ago. *)
ReadsAreHeld ==
  \A p \in Port, s \in Set : \A k \in 1 .. Len(reads[p][s]) :
    LET slot == <<s, Back(next[p][s], k)>> IN
    /\ tag[p][slot] = reads[p][s][Len(reads[p][s]) + 1 - k]
    /\ ~wrEnabled => valid[p][slot]

(* Only those ways are valid. *)
HeldWereRead ==
  \A p \in Port, s \in Set, w \in Ways :
    valid[p][<<s, w>>] =>
      \E k \in 1 .. Len(reads[p][s]) : w = Back(next[p][s], k)

FifoInv == /\ ReadsTypeOK
           /\ reads \in [Port -> [Set -> Seq(Tag)]]
           /\ ReadsAreHeld
           /\ HeldWereRead
-----------------------------------------------------------------------------
(* The integers the code counts with. *)
LEMMA Geometry ==
  /\ NWays \in Nat /\ NWays >= 1 /\ NSets \in Nat /\ NPorts \in Nat
  /\ \A w \in Ways : w \in Nat /\ w < NWays
  /\ 0 \in Ways /\ 0 \in Port /\ NWays - 1 \in Ways
  /\ Ports \subseteq Port /\ 0 \in Ports
BY L1Assumption, ReplacerAssumption DEF Ways, Port, Ports

(* hit() finds a way that holds the line. *)
LEMMA HitIsLast ==
  ASSUME NEW p, NEW t, NEW s, IsHit(p, t, s)
  PROVE  /\ HitWay(p, t, s) \in Ways
         /\ valid[p][<<s, HitWay(p, t, s)>>]
         /\ tag[p][<<s, HitWay(p, t, s)>>] = t
<1> DEFINE hits == HitWays(p, t, s)
           left == {NWays - w : w \in hits}
           P(w) == \A v \in hits : v <= w
<1>1. hits # {} /\ hits \subseteq Ways /\ left # {} /\ left \subseteq Nat
  <2>1. hits # {} /\ hits \subseteq Ways
    BY DEF IsHit, HitWays
  <2>2. \A w \in Ways : NWays - w \in Nat
    BY Geometry
  <2>. HIDE DEF hits
  <2>. QED BY <2>1, <2>2
<1>2. \E x \in left : \A y \in left : ~(<<y, x>> \in OpToRel(<, Nat))
  BY <1>1, WFMin, NatLessThanWellFounded
<1>3. \E w \in hits : P(w)
  <2>1. PICK x \in left : \A y \in left : ~(<<y, x>> \in OpToRel(<, Nat))
    BY <1>2
  <2>2. PICK w \in hits : x = NWays - w
    BY <2>1
  <2>3. \A y \in Nat : y < x => <<y, x>> \in OpToRel(<, Nat)
    BY <1>1, <2>1 DEF OpToRel
  <2>4. \A v \in hits : ~(NWays - v < x)
    BY <1>1, <2>1, <2>3
  <2>5. \A v \in hits : v <= w
    <3>1. \A v \in hits : v \in Nat /\ w \in Nat /\ NWays \in Nat
      BY <1>1, Geometry
    <3>. QED BY <2>2, <2>4, <3>1
  <2>. QED BY <2>2, <2>5
<1>4. (CHOOSE w \in hits : P(w)) \in hits
  BY <1>3
<1>5. HitWay(p, t, s) \in hits
  BY <1>4 DEF HitWay
<1>. QED BY <1>5 DEF HitWays
-----------------------------------------------------------------------------
(* What get_line answers is a line, and the line's present value unless it *)
(* was written.                                                            *)
LEMMA GetLineValue ==
  ASSUME TypeOK, NEW p \in Port, NEW t \in Tag, NEW s \in Set
  PROVE  /\ GetLine(p, t, s) \in Line
         /\ running /\ CopiesAreCurrent /\ <<t, s>> \notin written =>
              GetLine(p, t, s) = array[<<t, s>>]
<1>1. CASE IsHit(p, t, s)
  <2>1. /\ HitWay(p, t, s) \in Ways
        /\ valid[p][<<s, HitWay(p, t, s)>>]
        /\ tag[p][<<s, HitWay(p, t, s)>>] = t
    BY <1>1, HitIsLast
  <2>2. GetLine(p, t, s) = line[p][<<s, HitWay(p, t, s)>>]
    BY <1>1 DEF GetLine
  <2>. QED BY <2>1, <2>2 DEF TypeOK, Slot, CopiesAreCurrent
<1>2. CASE ~IsHit(p, t, s)
  BY <1>2 DEF GetLine, TypeOK
<1>. QED BY <1>1, <1>2

(* What set_line leaves in the slot it writes. *)
LEMMA SetLineEffect ==
  ASSUME TypeOK, NEW p \in Port, NEW t \in Tag, NEW s \in Set, NEW l \in Line,
         SetLine(p, t, s, l)
  PROVE  /\ tag' \in [Port -> [Slot -> Tag]] /\ line' \in [Port -> [Slot -> Line]]
         /\ valid' \in [Port -> [Slot -> BOOLEAN]]
         /\ next' \in [Port -> [Set -> Ways]]
         /\ tag'[p][<<s, next[p][s]>>] = t /\ line'[p][<<s, next[p][s]>>] = l
         /\ valid'[p][<<s, next[p][s]>>]
         /\ next'[p][s] = NotifyInsertion(next[p][s])
<1> DEFINE new == <<s, next[p][s]>>
<1>1. /\ next[p][s] \in Ways /\ NotifyInsertion(next[p][s]) \in Ways
      /\ GetWay(InitialOrder, next[p][s]) = next[p][s]
  BY CounterStep, L1Assumption DEF TypeOK
<1>2. new \in Slot
  BY <1>1 DEF Slot
<1>3. /\ line' = [line EXCEPT ![p][new] = l]
      /\ tag' = [tag EXCEPT ![p][new] = t]
      /\ valid' = [valid EXCEPT ![p][new] = TRUE]
      /\ next' = [next EXCEPT ![p][s] = NotifyInsertion(@)]
  BY <1>1 DEF SetLine
<1>4. /\ tag' \in [Port -> [Slot -> Tag]] /\ line' \in [Port -> [Slot -> Line]]
      /\ valid' \in [Port -> [Slot -> BOOLEAN]]
      /\ tag'[p][new] = t /\ line'[p][new] = l /\ valid'[p][new]
  <2>. HIDE DEF new
  <2>. QED BY <1>2, <1>3 DEF TypeOK
<1>. QED BY <1>1, <1>3, <1>4 DEF TypeOK

(* No other slot of any port changes, and no other set's counter. *)
LEMMA SetLineKeepsOthers ==
  ASSUME TypeOK, NEW p \in Port, NEW t \in Tag, NEW s \in Set, NEW l \in Line,
         SetLine(p, t, s, l),
         NEW q \in Port, NEW r \in Set
  PROVE  /\ \A w \in Ways :
              ~(q = p /\ r = s /\ w = next[p][s]) =>
                /\ tag'[q][<<r, w>>] = tag[q][<<r, w>>]
                /\ line'[q][<<r, w>>] = line[q][<<r, w>>]
                /\ valid'[q][<<r, w>>] = valid[q][<<r, w>>]
         /\ ~(q = p /\ r = s) => next'[q][r] = next[q][r]
<1> DEFINE new == <<s, next[p][s]>>
<1>1. /\ line' = [line EXCEPT ![p][new] = l]
      /\ tag' = [tag EXCEPT ![p][new] = t]
      /\ valid' = [valid EXCEPT ![p][new] = TRUE]
      /\ next' = [next EXCEPT ![p][s] = NotifyInsertion(@)]
  BY CounterStep, L1Assumption DEF SetLine, TypeOK
<1>2. ASSUME NEW w \in Ways, ~(q = p /\ r = s /\ w = next[p][s])
      PROVE  /\ tag'[q][<<r, w>>] = tag[q][<<r, w>>]
             /\ line'[q][<<r, w>>] = line[q][<<r, w>>]
             /\ valid'[q][<<r, w>>] = valid[q][<<r, w>>]
  <2>1. <<r, w>> \in Slot /\ (q = p => <<r, w>> # new)
    BY <1>2 DEF Slot
  <2>. HIDE DEF new
  <2>. QED BY <1>1, <2>1 DEF TypeOK
<1>. QED BY <1>1, <1>2 DEF TypeOK
-----------------------------------------------------------------------------
(* get_line keeps every copy current: what it stores is what it read. *)
LEMMA GetKeepsCopies ==
  ASSUME CopyInv, NEW p \in Port, NEW t \in Tag, NEW s \in Set, GetAt(p, t, s),
         corePort' \in Ports
  PROVE  CopyInv'
<1>0. TypeOK /\ SetLine(p, t, s, GetLine(p, t, s)) /\ GetLine(p, t, s) \in Line
  BY GetLineValue DEF CopyInv, GetAt
<1>00. \A q \in Port, r \in Set, w \in Ways :
         ~(q = p /\ r = s /\ w = next[p][s]) =>
           /\ tag'[q][<<r, w>>] = tag[q][<<r, w>>]
           /\ line'[q][<<r, w>>] = line[q][<<r, w>>]
           /\ valid'[q][<<r, w>>] = valid[q][<<r, w>>]
  BY <1>0, SetLineKeepsOthers
<1>1. TypeOK'
  <2>1. /\ tag' \in [Port -> [Slot -> Tag]] /\ line' \in [Port -> [Slot -> Line]]
        /\ valid' \in [Port -> [Slot -> BOOLEAN]]
        /\ next' \in [Port -> [Set -> Ways]]
    BY <1>0, SetLineEffect
  <2>. QED BY <1>0, <2>1 DEF TypeOK, GetAt, Ports
<1>2. CopiesAreCurrent'
  <2> SUFFICES ASSUME NEW q \in Port, NEW r \in Set, NEW w \in Ways,
                      valid'[q][<<r, w>>]
               PROVE  \/ <<tag'[q][<<r, w>>], r>> \in written
                      \/ line'[q][<<r, w>>] = array[<<tag'[q][<<r, w>>], r>>]
    BY DEF CopiesAreCurrent, GetAt
  <2>1. CASE q = p /\ r = s /\ w = next[p][s]
    <3>1. tag'[q][<<r, w>>] = t /\ line'[q][<<r, w>>] = GetLine(p, t, s)
      BY <1>0, <2>1, SetLineEffect
    <3>. QED BY <1>0, <2>1, <3>1, GetLineValue DEF CopyInv, GetAt
  <2>2. CASE ~(q = p /\ r = s /\ w = next[p][s])
    <3>1. /\ tag'[q][<<r, w>>] = tag[q][<<r, w>>]
          /\ line'[q][<<r, w>>] = line[q][<<r, w>>]
          /\ valid'[q][<<r, w>>] = valid[q][<<r, w>>]
      BY <1>00, <2>2
    <3>. QED BY <3>1 DEF CopyInv, CopiesAreCurrent, GetAt
  <2>. QED BY <2>1, <2>2
<1>. QED BY <1>1, <1>2 DEF CopyInv

(* notify_write only clears bits, whichever it clears. *)
LEMMA NotifyWriteClears ==
  ASSUME TypeOK, NEW t \in Tag, NEW s \in Set, NotifyWrite(t, s)
  PROVE  /\ valid' \in [Port -> [Slot -> BOOLEAN]]
         /\ \A p \in Port, slot \in Slot : valid'[p][slot] => valid[p][slot]
<1>1. CASE IsHit(0, t, s)
  <2>1. PICK slot \in Slot : valid' = [valid EXCEPT ![0][slot] = FALSE]
    BY <1>1 DEF NotifyWrite
  <2>2. 0 \in Port
    BY Geometry
  <2>. QED BY <2>1, <2>2 DEF TypeOK
<1>2. CASE ~IsHit(0, t, s)
  BY <1>2 DEF TypeOK, NotifyWrite
<1>. QED BY <1>1, <1>2

(* set() makes no copy of another line old. *)
LEMMA PutKeepsCopies ==
  ASSUME CopyInv, NEW t \in Tag, NEW s \in Set, NEW l \in Line, Put(t, s, l)
  PROVE  CopyInv'
<1>0. /\ valid' \in [Port -> [Slot -> BOOLEAN]]
      /\ \A p \in Port, slot \in Slot : valid'[p][slot] => valid[p][slot]
  BY NotifyWriteClears DEF CopyInv, Put
<1>1. TypeOK'
  BY <1>0 DEF CopyInv, TypeOK, Put, Ports
<1>2. CopiesAreCurrent'
  <2> SUFFICES ASSUME NEW p \in Port, NEW r \in Set, NEW w \in Ways,
                      valid'[p][<<r, w>>],
                      <<tag[p][<<r, w>>], r>> \notin written \cup {<<t, s>>}
               PROVE  line[p][<<r, w>>] = array'[<<tag[p][<<r, w>>], r>>]
    BY DEF CopiesAreCurrent, Put
  <2>1. <<r, w>> \in Slot /\ <<tag[p][<<r, w>>], r>> \in Tag \X Set
    BY DEF Slot, CopyInv, TypeOK
  <2>2. line[p][<<r, w>>] = array[<<tag[p][<<r, w>>], r>>]
    BY <1>0, <2>1 DEF CopyInv, CopiesAreCurrent, Put
  <2>. QED BY <2>1, <2>2 DEF Put, CopyInv, TypeOK
<1>. QED BY <1>1, <1>2 DEF CopyInv

(* A port the caller picks, or the next of the ports in turn. *)
LEMMA PortsInTurn ==
  ASSUME corePort \in Ports, wrEnabled' = wrEnabled,
         corePort' = IF wrEnabled THEN 0 ELSE (corePort + 1) % NPorts
  PROVE  corePort' \in Ports
BY L1Assumption DEF Ports, Port

(* Every step keeps the copies current; a port's slots are all invalid     *)
(* after init(), so none outlives the call.                                *)
THEOREM CopyInvariant == Spec => []CopyInv
<1>1. Init => CopyInv
  <2> SUFFICES ASSUME Init PROVE CopyInv
    OBVIOUS
  <2>1. TypeOK
    BY Geometry DEF Init, TypeOK
  <2>2. \A p \in Port, s \in Set, w \in Ways : ~valid[p][<<s, w>>]
    BY DEF Init, Slot
  <2>. QED BY <2>1, <2>2 DEF CopyInv, CopiesAreCurrent
<1>2. CopyInv /\ [Next]_vars => CopyInv'
  <2> SUFFICES ASSUME CopyInv, [Next]_vars PROVE CopyInv'
    OBVIOUS
  <2>1. ASSUME NEW t \in Tag, NEW s \in Set, Get(t, s) PROVE CopyInv'
    <3>1. corePort \in Port /\ corePort' \in Ports
      BY <2>1, PortsInTurn, Geometry DEF CopyInv, TypeOK, Get, GetAt
    <3>. QED BY <2>1, <3>1, GetKeepsCopies DEF Get
  <2>2. ASSUME NEW p \in Ports, NEW t \in Tag, NEW s \in Set, GetPort(p, t, s)
        PROVE  CopyInv'
    <3>1. p \in Port /\ corePort' \in Ports
      BY <2>2, Geometry DEF CopyInv, TypeOK, GetPort
    <3>. QED BY <2>2, <3>1, GetKeepsCopies DEF GetPort
  <2>3. ASSUME NEW t \in Tag, NEW s \in Set, NEW l \in Line, Put(t, s, l)
        PROVE  CopyInv'
    BY <2>3, PutKeepsCopies
  <2>4. CASE Stop
    BY <2>4 DEF Stop, l1, history, CopyInv, TypeOK, CopiesAreCurrent, Ports
  <2>5. ASSUME NEW t \in Tag, NEW s \in Set, NEW l \in Line, HostStore(t, s, l)
        PROVE  CopyInv'
    BY <2>5 DEF HostStore, l1, history, CopyInv, TypeOK, CopiesAreCurrent, Ports
  <2>6. CASE Restart
    <3>1. TypeOK'
      BY <2>6, Geometry DEF Restart, CopyInv, TypeOK, Ports
    <3>2. \A p \in Port, s \in Set, w \in Ways : ~valid'[p][<<s, w>>]
      BY <2>6 DEF Restart, Slot
    <3>. QED BY <3>1, <3>2 DEF CopyInv, CopiesAreCurrent
  <2>7. CASE UNCHANGED vars
    BY <2>7 DEF vars, l1, history, CopyInv, TypeOK, CopiesAreCurrent, Ports
  <2>. QED BY <2>1, <2>2, <2>3, <2>4, <2>5, <2>6, <2>7 DEF Next
<1>. QED BY <1>1, <1>2, PTL DEF Spec

(* The L1 caches stay within their arrays for every geometry. *)
THEOREM L1TypeCorrect == Spec => []TypeOK
<1>1. CopyInv => TypeOK
  BY DEF CopyInv
<1>. QED BY <1>1, CopyInvariant, PTL

(* No port answers a read of an unwritten line with an old copy, whatever  *)
(* bits notify_write clears and whatever the host stored between calls.    *)
THEOREM CopiesStayCurrent == Spec => []L1CopiesAreCurrent
<1>1. CopyInv => L1CopiesAreCurrent
  BY GetLineValue, Geometry DEF CopyInv, L1CopiesAreCurrent
<1>. QED BY <1>1, CopyInvariant, PTL
-----------------------------------------------------------------------------
(* A read goes to the way of the oldest one; the other ways are one read   *)
(* older than before.                                                      *)
LEMMA GetKeepsFifo ==
  ASSUME TypeOK, FifoInv, NEW p \in Port, NEW t \in Tag, NEW s \in Set,
         GetAt(p, t, s)
  PROVE  FifoInv'
<1> DEFINE n   == next[p][s]
           old == reads[p][s]
           new == reads'[p][s]
<1>0. SetLine(p, t, s, GetLine(p, t, s)) /\ GetLine(p, t, s) \in Line
  BY GetLineValue DEF GetAt
<1>1. /\ n \in Ways /\ old \in Seq(Tag) /\ Len(old) \in Nat /\ Len(old) <= NWays
      /\ NWays \in Nat /\ NWays >= 1
  BY Geometry DEF TypeOK, FifoInv, ReadsTypeOK
<1>2. /\ new = After(old, t)
      /\ \A q \in Port, r \in Set : ~(q = p /\ r = s) => reads'[q][r] = reads[q][r]
  BY DEF FifoInv, GetAt, After
<1> HIDE DEF old, new
<1>3. /\ new \in Seq(Tag)
      /\ Len(new) = (IF Len(old) = NWays THEN NWays ELSE Len(old) + 1)
      /\ new[Len(new)] = t
      /\ \A k \in 1 .. Len(old) : k + 1 <= Len(new) =>
           new[Len(new) + 1 - (k + 1)] = old[Len(old) + 1 - k]
  <2>1. /\ After(old, t) \in Seq(Tag)
        /\ Len(After(old, t)) = (IF Len(old) = NWays THEN NWays ELSE Len(old) + 1)
        /\ After(old, t)[Len(After(old, t))] = t
    BY <1>1, LatestReads, Zenon
  <2>2. \A k \in 1 .. Len(old) : k + 1 <= Len(After(old, t)) =>
          After(old, t)[Len(After(old, t)) + 1 - (k + 1)] = old[Len(old) + 1 - k]
    BY <1>1, LatestReads, SMT
  <2>. QED BY <1>2, <2>1, <2>2
<1>4. /\ next'[p][s] = NotifyInsertion(n)
      /\ tag'[p][<<s, n>>] = t /\ valid'[p][<<s, n>>]
  BY <1>0, SetLineEffect
<1>5. ASSUME NEW q \in Port, NEW r \in Set
      PROVE  /\ \A w \in Ways : ~(q = p /\ r = s /\ w = n) =>
                  tag'[q][<<r, w>>] = tag[q][<<r, w>>] /\ valid'[q][<<r, w>>] = valid[q][<<r, w>>]
             /\ ~(q = p /\ r = s) => next'[q][r] = next[q][r]
  BY <1>0, SetLineKeepsOthers
<1>6. \A k \in 1 .. NWays : Back(n, k) \in Ways
  BY <1>1, BackStep, L1Assumption
<1>7. \A k \in 1 .. NWays - 1 : /\ Back(NotifyInsertion(n), k + 1) = Back(n, k)
                                /\ Back(n, k) # n
  BY <1>1, BackStep, L1Assumption
<1>8. Back(NotifyInsertion(n), 1) = n /\ Back(n, NWays) = n
  BY <1>1, BackStep, L1Assumption
<1>9. \A q \in Port, r \in Set : \A k \in 1 .. Len(reads[q][r]) : Back(next[q][r], k) \in Ways
  <2> SUFFICES ASSUME NEW q \in Port, NEW r \in Set, NEW k \in 1 .. Len(reads[q][r])
               PROVE  Back(next[q][r], k) \in Ways
    OBVIOUS
  <2>1. next[q][r] \in Ways /\ k \in 1 .. NWays
    BY Geometry DEF TypeOK, FifoInv, ReadsTypeOK
  <2>. QED BY <2>1, BackStep, L1Assumption
<1> HIDE DEF n
<1>10. ReadsTypeOK' /\ reads' \in [Port -> [Set -> Seq(Tag)]]
  <2>1. reads' \in [Port -> [Set -> Seq(Tag)]]
    <3>1. Latest(Append(old, t)) \in Seq(Tag)
      BY <1>2, <1>3 DEF After
    <3>. QED BY <3>1 DEF FifoInv, GetAt, old
  <2>2. \A q \in Port, r \in Set : Len(reads'[q][r]) <= NWays
    <3> SUFFICES ASSUME NEW q \in Port, NEW r \in Set PROVE Len(reads'[q][r]) <= NWays
      OBVIOUS
    <3>1. CASE q = p /\ r = s
      BY <1>1, <1>3, <3>1 DEF new
    <3>2. CASE ~(q = p /\ r = s)
      BY <1>2, <3>2 DEF FifoInv, ReadsTypeOK
    <3>. QED BY <3>1, <3>2
  <2>. QED BY <2>1, <2>2 DEF ReadsTypeOK
<1>11. ReadsAreHeld'
  <2> SUFFICES ASSUME NEW q \in Port, NEW r \in Set, NEW k \in 1 .. Len(reads'[q][r])
               PROVE  /\ tag'[q][<<r, Back(next'[q][r], k)>>]
                           = reads'[q][r][Len(reads'[q][r]) + 1 - k]
                      /\ ~wrEnabled => valid'[q][<<r, Back(next'[q][r], k)>>]
    BY DEF ReadsAreHeld, GetAt, Back
  <2>1. CASE ~(q = p /\ r = s)
    <3>1. reads'[q][r] = reads[q][r] /\ next'[q][r] = next[q][r]
      BY <1>2, <1>5, <2>1
    <3>2. Back(next[q][r], k) \in Ways
      BY <1>9, <3>1
    <3>3. /\ tag[q][<<r, Back(next[q][r], k)>>] = reads[q][r][Len(reads[q][r]) + 1 - k]
          /\ ~wrEnabled => valid[q][<<r, Back(next[q][r], k)>>]
      BY <3>1 DEF FifoInv, ReadsAreHeld
    <3>. QED BY <1>5, <2>1, <3>1, <3>2, <3>3
  <2>2. CASE q = p /\ r = s /\ k = 1
    BY <1>1, <1>3, <1>4, <1>8, <2>2 DEF new
  <2>3. CASE q = p /\ r = s /\ k # 1
    <3> DEFINE j == k - 1
    <3>1. /\ j \in 1 .. NWays - 1 /\ j \in 1 .. Len(old) /\ j + 1 = k
          /\ k <= Len(new)
      BY <1>1, <1>3, <2>3 DEF new
    <3>2. Back(next'[p][s], k) = Back(n, j) /\ Back(n, j) # n /\ Back(n, j) \in Ways
      BY <1>1, <1>4, <1>6, <1>7, <3>1
    <3>3. new[Len(new) + 1 - k] = old[Len(old) + 1 - j]
      BY <1>3, <3>1
    <3>4. /\ tag[p][<<s, Back(n, j)>>] = old[Len(old) + 1 - j]
          /\ ~wrEnabled => valid[p][<<s, Back(n, j)>>]
      BY <3>1 DEF FifoInv, ReadsAreHeld, n, old
    <3>. QED BY <1>5, <2>3, <3>2, <3>3, <3>4 DEF new
  <2>. QED BY <2>1, <2>2, <2>3
<1>12. HeldWereRead'
  <2> SUFFICES ASSUME NEW q \in Port, NEW r \in Set, NEW w \in Ways, valid'[q][<<r, w>>]
               PROVE  \E k \in 1 .. Len(reads'[q][r]) : w = Back(next'[q][r], k)
    BY DEF HeldWereRead, Back
  <2>1. CASE ~(q = p /\ r = s)
    <3>1. /\ reads'[q][r] = reads[q][r] /\ next'[q][r] = next[q][r]
          /\ valid[q][<<r, w>>]
      BY <1>2, <1>5, <2>1
    <3>2. \E k \in 1 .. Len(reads[q][r]) : w = Back(next[q][r], k)
      BY <3>1 DEF FifoInv, HeldWereRead
    <3>. QED BY <3>1, <3>2
  <2>2. CASE q = p /\ r = s /\ w = n
    <3>1. 1 \in 1 .. Len(new) /\ w = Back(next'[p][s], 1)
      BY <1>1, <1>3, <1>4, <1>8, <2>2
    <3>. QED BY <2>2, <3>1 DEF new
  <2>3. CASE q = p /\ r = s /\ w # n
    <3>1. PICK k \in 1 .. Len(old) : w = Back(n, k)
      BY <1>5, <2>3 DEF FifoInv, HeldWereRead, n, old
    <3>2. k # NWays
      BY <1>8, <2>3, <3>1
    <3>3. k \in 1 .. NWays - 1 /\ k + 1 \in 1 .. Len(new)
      BY <1>1, <1>3, <3>1, <3>2
    <3>4. w = Back(next'[p][s], k + 1)
      BY <1>4, <1>7, <3>1, <3>3
    <3>. QED BY <2>3, <3>3, <3>4 DEF new
  <2>. QED BY <2>1, <2>2, <2>3
<1>. QED BY <1>10, <1>11, <1>12 DEF FifoInv

(* A write clears bits of a read-write cache only. *)
LEMMA PutKeepsFifo ==
  ASSUME TypeOK, FifoInv, NEW t \in Tag, NEW s \in Set, NEW l \in Line,
         Put(t, s, l)
  PROVE  FifoInv'
<1>1. \A p \in Port, slot \in Slot : valid'[p][slot] => valid[p][slot]
  BY NotifyWriteClears DEF Put
<1>2. HeldWereRead'
  <2> SUFFICES ASSUME NEW p \in Port, NEW r \in Set, NEW w \in Ways, valid'[p][<<r, w>>]
               PROVE  \E k \in 1 .. Len(reads[p][r]) : w = Back(next[p][r], k)
    BY DEF HeldWereRead, Put, Back
  <2>. QED BY <1>1 DEF Slot, FifoInv, HeldWereRead
<1>3. ReadsAreHeld'
  BY DEF Put, FifoInv, ReadsAreHeld, Back
<1>. QED BY <1>2, <1>3 DEF Put, FifoInv, ReadsTypeOK

(* Each port's sets are FIFOs of the reads. *)
THEOREM FifoInvariant == Spec => [](TypeOK /\ FifoInv)
<1>1. Init => FifoInv
  <2> SUFFICES ASSUME Init PROVE FifoInv
    OBVIOUS
  <2>1. /\ reads = [p \in Port |-> [s \in Set |-> << >>]]
        /\ \A p \in Port, s \in Set, w \in Ways : ~valid[p][<<s, w>>]
    BY DEF Init, Slot
  <2>. QED BY <2>1, Geometry DEF FifoInv, ReadsTypeOK, ReadsAreHeld, HeldWereRead
<1>2. TypeOK /\ FifoInv /\ [Next]_vars => FifoInv'
  <2> SUFFICES ASSUME TypeOK, FifoInv, [Next]_vars PROVE FifoInv'
    OBVIOUS
  <2>1. ASSUME NEW t \in Tag, NEW s \in Set, Get(t, s) PROVE FifoInv'
    BY <2>1, GetKeepsFifo, Geometry DEF TypeOK, Get
  <2>2. ASSUME NEW p \in Ports, NEW t \in Tag, NEW s \in Set, GetPort(p, t, s)
        PROVE  FifoInv'
    BY <2>2, GetKeepsFifo, Geometry DEF GetPort
  <2>3. ASSUME NEW t \in Tag, NEW s \in Set, NEW l \in Line, Put(t, s, l)
        PROVE  FifoInv'
    BY <2>3, PutKeepsFifo
  <2>4. CASE \/ Stop
             \/ \E t \in Tag, s \in Set, l \in Line : HostStore(t, s, l)
             \/ UNCHANGED vars
    <3>1. UNCHANGED <<wrEnabled, tag, valid, next, reads>>
      BY <2>4 DEF Stop, HostStore, vars, l1, history
    <3>. QED BY <3>1 DEF FifoInv, ReadsTypeOK, ReadsAreHeld, HeldWereRead, Back
  <2>5. CASE Restart
    <3>1. /\ reads' = [p \in Port |-> [s \in Set |-> << >>]]
          /\ \A p \in Port, s \in Set, w \in Ways : ~valid'[p][<<s, w>>]
      BY <2>5 DEF Restart, Slot
    <3>. QED BY <3>1, Geometry DEF FifoInv, ReadsTypeOK, ReadsAreHeld, HeldWereRead
  <2>. QED BY <2>1, <2>2, <2>3, <2>4, <2>5 DEF Next
<1>. QED BY <1>1, <1>2, L1TypeCorrect, PTL DEF Spec

(* A set of an L1 cache holds nothing but the lines of its last NWays      *)
(* reads, and without writes all of them.                                  *)
THEOREM L1IsFifo == Spec => []L1HoldsLastReads
<1>1. TypeOK /\ FifoInv => L1HoldsLastReads
  <2> SUFFICES ASSUME TypeOK, FifoInv, NEW p \in Port, NEW s \in Set
               PROVE  /\ Held(p, s) \subseteq RecentlyRead(p, s)
                      /\ ~wrEnabled => RecentlyRead(p, s) \subseteq Held(p, s)
    BY DEF L1HoldsLastReads
  <2>0. /\ next[p][s] \in Ways /\ reads[p][s] \in Seq(Tag)
        /\ Len(reads[p][s]) \in Nat /\ Len(reads[p][s]) <= NWays
        /\ DOMAIN reads[p][s] = 1 .. Len(reads[p][s]) /\ NWays \in Nat
    BY Geometry DEF TypeOK, FifoInv, ReadsTypeOK
  <2>1. ASSUME NEW w \in Ways, valid[p][<<s, w>>]
        PROVE  tag[p][<<s, w>>] \in RecentlyRead(p, s)
    <3>1. PICK k \in 1 .. Len(reads[p][s]) : w = Back(next[p][s], k)
      BY <2>1 DEF FifoInv, HeldWereRead
    <3>2. tag[p][<<s, w>>] = reads[p][s][Len(reads[p][s]) + 1 - k]
      BY <3>1 DEF FifoInv, ReadsAreHeld
    <3>3. Len(reads[p][s]) + 1 - k \in 1 .. Len(reads[p][s])
      BY <2>0
    <3>. QED BY <2>0, <3>2, <3>3 DEF RecentlyRead
  <2>2. ASSUME ~wrEnabled, NEW i \in 1 .. Len(reads[p][s])
        PROVE  reads[p][s][i] \in Held(p, s)
    <3> DEFINE k == Len(reads[p][s]) + 1 - i
    <3>1. /\ k \in 1 .. Len(reads[p][s]) /\ Len(reads[p][s]) + 1 - k = i
          /\ k \in 1 .. NWays
      BY <2>0
    <3>2. /\ tag[p][<<s, Back(next[p][s], k)>>] = reads[p][s][i]
          /\ valid[p][<<s, Back(next[p][s], k)>>]
      BY <2>2, <3>1 DEF FifoInv, ReadsAreHeld
    <3>3. Back(next[p][s], k) \in Ways
      BY <2>0, <3>1, BackStep, L1Assumption
    <3>. QED BY <3>2, <3>3 DEF Held
  <2>. QED BY <2>0, <2>1, <2>2 DEF Held, RecentlyRead
<1>. QED BY <1>1, FifoInvariant, PTL
=============================================================================
