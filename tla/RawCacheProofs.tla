--------------------------- MODULE RawCacheProofs ---------------------------
(***************************************************************************)
(* Forwarding is exact for every number of lines and registers, as long as *)
(* DISTANCE + 1 is at least the distance the pragma of run_core declares.  *)
(***************************************************************************)
EXTENDS RawCache, WellFoundedInduction, TLAPS

Holds(w, a) == valid[w] /\ tag[w] = a

(* A write that a read may still miss is in a register: each of the writes *)
(* after it took one iteration and at most one register.                   *)
LateIsForwarded ==
  \A k \in Age : late[k] # None =>
    \E w \in Way : w < k /\ Holds(w, late[k].slot)

(* The first register that holds a slot holds its latest line. *)
FirstIsLatest ==
  \A w \in Way :
    /\ valid[w]
    /\ \A v \in Way : v < w => ~Holds(v, tag[w])
    => line[w] = last[tag[w]]

(* The latest of a slot's late writes is its last one. *)
LatestLateIsLast ==
  \A k \in Age :
    /\ late[k] # None
    /\ \A j \in Age : j < k => ~IsLate(late[k].slot, j)
    => late[k].line = last[late[k].slot]

(* A slot without late writes is up to date in memory. *)
OthersAreInMemory ==
  \A a \in Slot : (\A k \in Age : ~IsLate(a, k)) => memory[a] = last[a]

RawInv == /\ TypeOK
          /\ LateIsForwarded
          /\ FirstIsLatest
          /\ LatestLateIsLast
          /\ OthersAreInMemory
-----------------------------------------------------------------------------
(* Registers and ages are the integers the code counts with. *)
LEMMA WayFacts == /\ \A w \in Way : w \in Nat /\ w < Distance
                  /\ \A k \in Age : k \in Nat /\ k >= 1 /\ k < RawDistance
                                                        /\ k <= Distance
                  /\ Distance \in Nat /\ Distance >= 1 /\ 0 \in Way
                  /\ RawDistance \in Nat /\ RawDistance >= 1
BY RawAssumption DEF Way, Age

(* hit() finds the first register that holds the slot. *)
LEMMA HitIsFirst ==
  ASSUME NEW a, \E w \in Way : Holds(w, a)
  PROVE  /\ Hit(a) \in Way /\ Hit(a) # -1 /\ Holds(Hit(a), a)
         /\ \A v \in Way : v < Hit(a) => ~Holds(v, a)
<1> DEFINE hits == {w \in Way : valid[w] /\ tag[w] = a}
           P(w) == \A v \in hits : w <= v
<1>1. hits # {} /\ hits \subseteq Nat
  BY WayFacts DEF Holds
<1>2. \E x \in hits : \A y \in hits : ~(<<y, x>> \in OpToRel(<, Nat))
  BY <1>1, WFMin, NatLessThanWellFounded
<1>3. \E w \in hits : P(w)
  <2>1. PICK x \in hits : \A y \in hits : ~(<<y, x>> \in OpToRel(<, Nat))
    BY <1>2
  <2>2. \A y \in Nat : y < x => <<y, x>> \in OpToRel(<, Nat)
    BY <1>1, <2>1 DEF OpToRel
  <2>3. \A y \in hits : ~(y < x)
    BY <1>1, <2>1, <2>2
  <2>4. P(x)
    <3>1. \A y \in hits : x \in Nat /\ y \in Nat
      BY <1>1, <2>1
    <3>. QED BY <2>3, <3>1
  <2>. QED BY <2>1, <2>4
<1>4. (CHOOSE w \in hits : P(w)) \in hits /\ P(CHOOSE w \in hits : P(w))
  BY <1>3
<1>5. Hit(a) = CHOOSE w \in hits : P(w)
  BY <1>1 DEF Hit
<1>. QED BY <1>4, <1>5, WayFacts DEF Holds

(* hit() finds nothing when no register holds the slot. *)
LEMMA NoHit ==
  ASSUME NEW a, \A w \in Way : ~Holds(w, a)
  PROVE  Hit(a) = -1
BY DEF Hit, Holds

(* The invariant gives the read property. *)
LEMMA InvGivesReads == RawInv => ReadsLastWrite
<1> SUFFICES ASSUME RawInv, NEW a \in Slot
             PROVE  GetLine(a) = {last[a]}
  BY DEF ReadsLastWrite
<1>1. CASE \E w \in Way : Holds(w, a)
  <2>1. line[Hit(a)] = last[a]
    BY <1>1, HitIsFirst DEF RawInv, FirstIsLatest, Holds
  <2>. QED BY <1>1, <2>1, HitIsFirst DEF GetLine
<1>2. CASE \A w \in Way : ~Holds(w, a)
  <2>1. \A k \in Age : ~IsLate(a, k)
    BY <1>2 DEF RawInv, LateIsForwarded, IsLate
  <2>2. Visible(a) = {last[a]}
    BY <2>1 DEF RawInv, OthersAreInMemory, Visible
  <2>. QED BY <1>2, <2>2, NoHit DEF GetLine
<1>. QED BY <1>1, <1>2
-----------------------------------------------------------------------------
(* init() establishes the invariant. *)
LEMMA InitEstablishesInv == Init => RawInv
<1> SUFFICES ASSUME Init PROVE RawInv
  OBVIOUS
<1>. QED BY DEF Init, RawInv, TypeOK, LateIsForwarded, FirstIsLatest,
                LatestLateIsLast, OthersAreInMemory, Way, IsLate

(* What the passing of an iteration does to the late writes. *)
LEMMA PassEffect ==
  ASSUME RawInv, NEW write \in Write \cup {None}, Pass(write)
  PROVE  /\ late' \in [Age -> Write \cup {None}] /\ memory' \in [Slot -> Line]
         /\ \A k \in Age : late'[k] = IF k = 1 THEN write ELSE late[k - 1]
         /\ \A k \in Age : k # 1 => k - 1 \in Age
         /\ \A k \in Age : k + 1 \in Age \/ k = RawDistance - 1
         /\ 1 \in Age \/ (RawDistance = 1 /\ Age = {})
         /\ \A a \in Slot :
              memory'[a] = IF Oldest(write) # None /\ Oldest(write).slot = a
                           THEN Oldest(write).line ELSE memory[a]
<1>1. /\ \A k \in Age : k # 1 => k - 1 \in Age
      /\ \A k \in Age : k + 1 \in Age \/ k = RawDistance - 1
      /\ 1 \in Age \/ (RawDistance = 1 /\ Age = {})
      /\ RawDistance = 1 \/ RawDistance - 1 \in Age
  BY WayFacts DEF Age
<1>2. Oldest(write) \in Write \cup {None}
  BY <1>1 DEF Oldest, RawInv, TypeOK
<1>3. late' \in [Age -> Write \cup {None}]
  BY <1>1 DEF Pass, RawInv, TypeOK
<1>4. memory' \in [Slot -> Line]
  BY <1>2 DEF Pass, RawInv, TypeOK, Write
<1>. QED BY <1>1, <1>2, <1>3, <1>4 DEF Pass, RawInv, TypeOK, Write

(* A slot that the new iteration does not write and that has no late write *)
(* afterwards: its last write, if late before, has just reached memory.    *)
LEMMA LateOfUnwritten ==
  ASSUME RawInv, NEW write \in Write \cup {None}, Pass(write), NEW a \in Slot,
         write = None \/ write.slot # a,
         \A k \in Age : ~(late'[k] # None /\ late'[k].slot = a)
  PROVE  memory'[a] = last[a]
<1>1. \A k \in Age : IsLate(a, k) => k = RawDistance - 1
  <2> SUFFICES ASSUME NEW k \in Age, IsLate(a, k), k # RawDistance - 1
               PROVE  FALSE
    OBVIOUS
  <2>1. k + 1 \in Age /\ k + 1 # 1 /\ late'[k + 1] = late[k]
    BY PassEffect, WayFacts
  <2>. QED BY <2>1 DEF IsLate
<1>2. CASE \E k \in Age : IsLate(a, k)
  <2>1. RawDistance - 1 \in Age /\ IsLate(a, RawDistance - 1)
    BY <1>1, <1>2
  <2>2. RawDistance # 1
    BY <2>1, WayFacts
  <2>3. Oldest(write) = late[RawDistance - 1]
    BY <2>2 DEF Oldest
  <2>4. late[RawDistance - 1].line = last[a]
    BY <1>1, <2>1, WayFacts DEF RawInv, LatestLateIsLast, IsLate
  <2>. QED BY <2>1, <2>3, <2>4, PassEffect DEF IsLate
<1>3. CASE \A k \in Age : ~IsLate(a, k)
  <2>1. memory[a] = last[a]
    BY <1>3 DEF RawInv, OthersAreInMemory
  <2>2. ~(Oldest(write) # None /\ Oldest(write).slot = a)
    <3>1. RawDistance = 1 \/ RawDistance - 1 \in Age
      BY WayFacts DEF Age
    <3>. QED BY <1>3, <3>1 DEF Oldest, IsLate
  <2>. QED BY <2>1, <2>2, PassEffect
<1>. QED BY <1>2, <1>3

(* An iteration without a write keeps the invariant. *)
LEMMA NoWriteKeepsInv ==
  ASSUME RawInv, NoWrite
  PROVE  RawInv'
<1>0. Pass(None) /\ UNCHANGED <<valid, tag, line, last>>
  BY DEF NoWrite
<1>1. TypeOK'
  BY <1>0, PassEffect DEF RawInv, TypeOK
<1>2. LateIsForwarded'
  <2> SUFFICES ASSUME NEW k \in Age, late'[k] # None
               PROVE  \E w \in Way : /\ w < k /\ valid'[w]
                                     /\ tag'[w] = late'[k].slot
    BY DEF LateIsForwarded, Holds
  <2>1. k # 1 /\ k - 1 \in Age /\ late'[k] = late[k - 1]
    BY <1>0, PassEffect
  <2>2. PICK w \in Way : w < k - 1 /\ Holds(w, late[k - 1].slot)
    BY <2>1 DEF RawInv, LateIsForwarded
  <2>. QED BY <1>0, <2>1, <2>2, WayFacts DEF Holds
<1>3. FirstIsLatest'
  BY <1>0 DEF RawInv, FirstIsLatest, Holds
<1>4. LatestLateIsLast'
  <2> SUFFICES ASSUME NEW k \in Age, late'[k] # None,
                      \A j \in Age : j < k => ~(/\ late'[j] # None
                                                /\ late'[j].slot = late'[k].slot)
               PROVE  late'[k].line = last[late'[k].slot]
    BY <1>0 DEF LatestLateIsLast, IsLate
  <2>1. k # 1 /\ k - 1 \in Age /\ late'[k] = late[k - 1]
    BY <1>0, PassEffect
  <2>2. ASSUME NEW j \in Age, j < k - 1
        PROVE  ~IsLate(late[k - 1].slot, j)
    <3>1. j + 1 \in Age /\ j + 1 # 1 /\ j + 1 < k
      BY <2>1, <2>2, WayFacts DEF Age
    <3>2. late'[j + 1] = late[j]
      BY <1>0, <3>1, PassEffect, WayFacts
    <3>. QED BY <2>1, <3>1, <3>2 DEF IsLate
  <2>. QED BY <2>1, <2>2 DEF RawInv, LatestLateIsLast
<1>5. OthersAreInMemory'
  <2> SUFFICES ASSUME NEW a \in Slot,
                      \A k \in Age : ~(late'[k] # None /\ late'[k].slot = a)
               PROVE  memory'[a] = last[a]
    BY <1>0 DEF OthersAreInMemory, IsLate
  <2>. QED BY <1>0, LateOfUnwritten DEF RawInv
<1>. QED BY <1>1, <1>2, <1>3, <1>4, <1>5 DEF RawInv

(* The registers after a set_line: the new line first, the others behind. *)
LEMMA ShiftEffect ==
  ASSUME RawInv, NEW a \in Slot, NEW l \in Line, SetLine(a, l)
  PROVE  /\ valid'[0] /\ tag'[0] = a /\ line'[0] = l
         /\ \A w \in Way : w # 0 => /\ w - 1 \in Way
                                    /\ valid'[w] = valid[w - 1]
                                    /\ tag'[w] = tag[w - 1]
                                    /\ line'[w] = line[w - 1]
         /\ valid' \in [Way -> BOOLEAN] /\ tag' \in [Way -> Slot]
         /\ line' \in [Way -> Line]
<1>1. \A w \in Way : w # 0 => w - 1 \in Way
  BY WayFacts DEF Way
<1>. QED BY <1>1, WayFacts DEF SetLine, Shift, RawInv, TypeOK

(* An iteration with a write keeps the invariant. *)
LEMMA SetLineKeepsInv ==
  ASSUME RawInv, NEW a \in Slot, NEW l \in Line, SetLine(a, l)
  PROVE  RawInv'
<1> DEFINE write == [slot |-> a, line |-> l]
<1>0. /\ Pass(write) /\ write \in Write \cup {None} /\ write # None
      /\ write.slot = a /\ write.line = l
      /\ last' = [last EXCEPT ![a] = l]
  BY RawAssumption DEF SetLine, Write
<1>00. /\ last'[a] = l
       /\ \A b \in Slot : b # a => last'[b] = last[b]
  BY <1>0 DEF RawInv, TypeOK
<1> HIDE DEF write
<1>1. TypeOK'
  <2>1. last' \in [Slot -> Line]
    BY <1>0 DEF RawInv, TypeOK
  <2>. QED BY <1>0, <2>1, PassEffect, ShiftEffect DEF TypeOK
<1>2. LateIsForwarded'
  <2> SUFFICES ASSUME NEW k \in Age, late'[k] # None
               PROVE  \E w \in Way : /\ w < k /\ valid'[w]
                                     /\ tag'[w] = late'[k].slot
    BY DEF LateIsForwarded, Holds
  <2>1. CASE k = 1
    <3>1. late'[k] = write
      BY <1>0, <2>1, PassEffect
    <3>. QED BY <1>0, <2>1, <3>1, ShiftEffect, WayFacts
  <2>2. CASE k # 1
    <3>1. k - 1 \in Age /\ late'[k] = late[k - 1]
      BY <1>0, <2>2, PassEffect
    <3>2. PICK w \in Way : w < k - 1 /\ Holds(w, late[k - 1].slot)
      BY <3>1 DEF RawInv, LateIsForwarded
    <3>3. w + 1 \in Way /\ w + 1 # 0 /\ w + 1 < k /\ (w + 1) - 1 = w
      BY <3>2, WayFacts DEF Way
    <3>4. valid'[w + 1] /\ tag'[w + 1] = late'[k].slot
      BY <3>1, <3>2, <3>3, ShiftEffect DEF Holds
    <3>. QED BY <3>3, <3>4
  <2>. QED BY <2>1, <2>2
<1>3. FirstIsLatest'
  <2> SUFFICES ASSUME NEW w \in Way, valid'[w],
                      \A v \in Way : v < w => ~(valid'[v] /\ tag'[v] = tag'[w])
               PROVE  line'[w] = last'[tag'[w]]
    BY DEF FirstIsLatest, Holds
  <2>1. CASE w = 0
    BY <1>00, <2>1, ShiftEffect
  <2>2. CASE w # 0
    <3>1. tag'[w] # a
      BY <2>2, ShiftEffect, WayFacts
    <3>2. /\ w - 1 \in Way /\ valid[w - 1] /\ tag'[w] = tag[w - 1]
          /\ line'[w] = line[w - 1]
      BY <2>2, ShiftEffect
    <3>3. ASSUME NEW v \in Way, v < w - 1
          PROVE  ~Holds(v, tag[w - 1])
      <4>1. v + 1 \in Way /\ v + 1 # 0 /\ v + 1 < w /\ (v + 1) - 1 = v
        BY <3>3, WayFacts DEF Way
      <4>2. valid'[v + 1] = valid[v] /\ tag'[v + 1] = tag[v]
        BY <4>1, ShiftEffect
      <4>. QED BY <3>2, <4>1, <4>2 DEF Holds
    <3>4. line[w - 1] = last[tag[w - 1]]
      BY <3>2, <3>3 DEF RawInv, FirstIsLatest
    <3>5. tag'[w] \in Slot
      BY ShiftEffect
    <3>. QED BY <1>00, <3>1, <3>2, <3>4, <3>5
  <2>. QED BY <2>1, <2>2
<1>4. LatestLateIsLast'
  <2> SUFFICES ASSUME NEW k \in Age, late'[k] # None,
                      \A j \in Age : j < k => ~(/\ late'[j] # None
                                                /\ late'[j].slot = late'[k].slot)
               PROVE  late'[k].line = last'[late'[k].slot]
    BY DEF LatestLateIsLast, IsLate
  <2>1. CASE k = 1
    BY <1>0, <1>00, <2>1, PassEffect
  <2>2. CASE k # 1
    <3>1. k - 1 \in Age /\ late'[k] = late[k - 1]
      BY <1>0, <2>2, PassEffect
    <3>2. late'[k].slot # a
      <4>1. 1 \in Age /\ 1 < k /\ late'[1] = write
        BY <1>0, <2>2, PassEffect, WayFacts
      <4>. QED BY <1>0, <4>1
    <3>3. ASSUME NEW j \in Age, j < k - 1
          PROVE  ~IsLate(late[k - 1].slot, j)
      <4>1. j + 1 \in Age /\ j + 1 # 1 /\ j + 1 < k
        BY <3>1, <3>3, WayFacts DEF Age
      <4>2. late'[j + 1] = late[j]
        BY <1>0, <4>1, PassEffect, WayFacts
      <4>. QED BY <3>1, <4>1, <4>2 DEF IsLate
    <3>4. late[k - 1].line = last[late[k - 1].slot]
      BY <3>1, <3>3 DEF RawInv, LatestLateIsLast
    <3>5. late'[k].slot \in Slot
      BY <3>1 DEF RawInv, TypeOK, Write
    <3>. QED BY <1>00, <3>1, <3>2, <3>4, <3>5
  <2>. QED BY <2>1, <2>2
<1>5. OthersAreInMemory'
  <2> SUFFICES ASSUME NEW b \in Slot,
                      \A k \in Age : ~(late'[k] # None /\ late'[k].slot = b)
               PROVE  memory'[b] = last'[b]
    BY DEF OthersAreInMemory, IsLate
  <2>1. CASE b # a
    BY <1>0, <1>00, <2>1, LateOfUnwritten
  <2>2. CASE b = a
    <3>1. RawDistance = 1
      <4>1. 1 \in Age => late'[1] = write
        BY <1>0, PassEffect
      <4>. QED BY <1>0, <2>2, <4>1, PassEffect
    <3>2. Oldest(write) = write
      BY <3>1 DEF Oldest
    <3>. QED BY <1>0, <1>00, <2>2, <3>2, PassEffect
  <2>. QED BY <2>1, <2>2
<1>. QED BY <1>1, <1>2, <1>3, <1>4, <1>5 DEF RawInv
-----------------------------------------------------------------------------
(* Every step keeps the registers, the late writes and memory consistent. *)
THEOREM RawInvariant == Spec => []RawInv
<1>1. RawInv /\ [Next]_vars => RawInv'
  <2> SUFFICES ASSUME RawInv, [Next]_vars PROVE RawInv'
    OBVIOUS
  <2>1. CASE NoWrite
    BY <2>1, NoWriteKeepsInv
  <2>2. CASE \E a \in Slot, l \in Line : SetLine(a, l)
    BY <2>2, SetLineKeepsInv
  <2>3. CASE UNCHANGED vars
    BY <2>3 DEF vars, RawInv, TypeOK, LateIsForwarded, FirstIsLatest,
                LatestLateIsLast, OthersAreInMemory, Holds, IsLate
  <2>. QED BY <2>1, <2>2, <2>3 DEF Next
<1>. QED BY <1>1, InitEstablishesInv, PTL DEF Spec

(* Registers, late writes and memory hold slots and lines, whatever the    *)
(* distance and the number of registers.                                   *)
THEOREM RawTypeCorrect == Spec => []TypeOK
<1>1. RawInv => TypeOK
  BY DEF RawInv
<1>. QED BY <1>1, RawInvariant, PTL

(* get_line returns the line written last, whichever of the registers, the *)
(* late writes and memory it comes from.                                   *)
THEOREM ForwardingIsExact == Spec => []ReadsLastWrite
BY RawInvariant, InvGivesReads, PTL
=============================================================================
