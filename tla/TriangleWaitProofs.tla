------------------------ MODULE TriangleWaitProofs ------------------------
(***************************************************************************)
(* The nine processes of the triangle counter never all wait for one       *)
(* another, for every graph and every depth of the FIFOs from two on.      *)
(*                                                                         *)
(* From the invariant Net of TriangleDataflowProofs: in a state in which   *)
(* none of them can take a turn the places of the readers and writers say  *)
(* which FIFO each waits for, and no order of the slots allows that.       *)
(***************************************************************************)
EXTENDS TriangleDataflowProofs

-----------------------------------------------------------------------------
(* A FIFO with a value, or with two, holds as many slots: the writer has   *)
(* passed them and the reader has not.                                     *)
Full(s)  == ~(Len(q[s]) < Depth)
Under(g, rd, wr, s, x) == x \in Slots(g)[s] /\ ~Before(x, rd[s]) /\ Before(x, wr[s])

LEMMA UnderFacts ==
  ASSUME NEW g \in Files, NEW rd \in [Names -> Place], NEW wr \in [Names -> Place],
         Flow(g, rd, wr), NEW s \in Names
  PROVE  /\ q[s] = << >> <=> \A x : ~Under(g, rd, wr, s, x)
         /\ Full(s) => \E x, y \in Place : /\ Under(g, rd, wr, s, x) /\ Under(g, rd, wr, s, y)
                                           /\ Before(x, y)
         /\ Full(s) => q[s] # << >>
         /\ \A x \in Slots(g)[s] : Before(x, rd[s]) => Before(x, wr[s])
<1> DEFINE S == {x \in Slots(g)[s] : ~Before(x, rd[s]) /\ Before(x, wr[s])}
<1>1. Holds(q[s], Slots(g)[s], Says(g)[s], rd[s], wr[s]) /\ Slots(g)[s] \in SUBSET Place
  BY SlotsArePlaces DEF Flow
<1>2. Carries(q[s], S, Says(g)[s])
  BY <1>1 DEF Holds
<1>3. q[s] = << >> <=> S = {}
  BY <1>2, CarriesNothing
<1>4. \E V : q[s] \in Seq(V)
  BY <1>2 DEF Carries
<1>5. PICK t \in [1 .. Len(q[s]) -> S] :
        \A i, j \in 1 .. Len(q[s]) : i < j => Before(t[i], t[j])
  BY <1>2 DEF Carries
<1>6. ASSUME Full(s)
      PROVE  /\ \E x, y \in Place : /\ Under(g, rd, wr, s, x) /\ Under(g, rd, wr, s, y)
                                    /\ Before(x, y)
             /\ q[s] # << >>
  <2>1. Len(q[s]) \in Nat /\ 1 \in 1 .. Len(q[s]) /\ 2 \in 1 .. Len(q[s])
    BY <1>4, <1>6, TriangleAssumption DEF Full
  <2>2. t[1] \in S /\ t[2] \in S /\ Before(t[1], t[2])
    BY <1>5, <2>1
  <2>. QED BY <1>1, <1>3, <2>2 DEF Under
<1>. QED BY <1>1, <1>3, <1>6 DEF Under, Holds

LEMMA FlatHeld ==
  ASSUME NEW g \in Files, NEW rd \in [Names -> Place], NEW wr \in [Names -> Place],
         Flow(g, rd, wr), NEW s \in Names, NEW Q \in SUBSET Int, Slots(g)[s] = Flat(Q),
         NEW r \in Int, NEW w \in Int, rd[s] = <<r, 0>>, wr[s] = <<w, 0>>
  PROVE  /\ \A a \in Q : r <= a /\ a < w => q[s] # << >>
         /\ q[s] # << >> => \E a \in Int : a \in Q /\ r <= a /\ a < w
         /\ Full(s) => \E a, b \in Int : a \in Q /\ b \in Q /\ r <= a /\ a < b /\ b < w
         /\ \A a \in Q : a < r => a < w
<1>1. \A a \in Int, b \in Int : Before(<<a, 0>>, <<b, 0>>) <=> a < b
  BY DEF Before
<1>2. \A x : x \in Flat(Q) <=> \E a \in Q : x = <<a, 0>>
  <2>1. ASSUME NEW x \in Flat(Q) PROVE \E a \in Q : x = <<a, 0>>
    <3>1. x[1] \in Q /\ x = <<x[1], 0>>
      BY <2>1 DEF Flat
    <3>. QED BY <3>1
  <2>2. \A a \in Q : <<a, 0>> \in Flat(Q)
    BY DEF Flat
  <2>. QED BY <2>1, <2>2
<1>3. \A x : Under(g, rd, wr, s, x) <=> \E a \in Q : x = <<a, 0>> /\ r <= a /\ a < w
  BY <1>1, <1>2 DEF Under
<1>4. q[s] = << >> <=> \A a \in Q : ~(r <= a /\ a < w)
  BY <1>3, UnderFacts
<1>5. ASSUME Full(s) PROVE \E a, b \in Int : a \in Q /\ b \in Q /\ r <= a /\ a < b /\ b < w
  <2>1. PICK x, y : Under(g, rd, wr, s, x) /\ Under(g, rd, wr, s, y) /\ Before(x, y)
    BY <1>5, UnderFacts
  <2>2. PICK a \in Q : x = <<a, 0>> /\ r <= a /\ a < w
    BY <1>3, <2>1
  <2>3. PICK b \in Q : y = <<b, 0>> /\ r <= b /\ b < w
    BY <1>3, <2>1
  <2>. QED BY <1>1, <2>1, <2>2, <2>3
<1>6. ASSUME NEW a \in Q, a < r PROVE a < w
  <2>1. <<a, 0>> \in Slots(g)[s] /\ Before(<<a, 0>>, rd[s])
    BY <1>1, <1>2, <1>6
  <2>2. Before(<<a, 0>>, wr[s])
    BY <2>1, UnderFacts
  <2>. QED BY <1>1, <2>2
<1>. QED BY <1>4, <1>5, <1>6

LEMMA SourceHeld ==
  ASSUME NEW g \in Files, NEW rd \in [Names -> Place], NEW wr \in [Names -> Place],
         Flow(g, rd, wr), Filled(g, wr), NEW s \in Start, NEW a \in Int,
         <<a, 0>> \in Slots(g)[s], rd[s] = <<a, 0>>
  PROVE  q[s] # << >>
<1>1. s \in Names
  BY StartNames
<1>2. ~(a < a) /\ ~(0 < 0)
  OBVIOUS
<1>3. ~Before(<<a, 0>>, rd[s])
  BY <1>2 DEF Before
<1>. QED BY <1>1, <1>3, UnderFacts DEF Filled, Under

LEMMA SourceHead ==
  ASSUME NEW g \in Files, NEW rd \in [Names -> Place], NEW wr \in [Names -> Place],
         Flow(g, rd, wr), Filled(g, wr), NEW s \in Start, NEW Q \in SUBSET Int,
         Slots(g)[s] = Flat(Q), NEW a \in Q, rd[s] = <<a, 0>>
  PROVE  q[s] # << >> /\ Head(q[s]) = Says(g)[s][<<a, 0>>]
<1>1. s \in Names /\ a \in Int
  BY StartNames
<1>2. <<a, 0>> \in Slots(g)[s]
  BY DEF Flat
<1>3. q[s] # << >>
  BY <1>1, <1>2, SourceHeld
<1>. QED BY <1>1, <1>3, FlatRead

LEMMA LastRowHeld ==
  ASSUME NEW g \in Files, NEW rd \in [Names -> Place], NEW wr \in [Names -> Place],
         Flow(g, rd, wr), Filled(g, wr), NEW s \in {"row1End", "row1End2"},
         NEW a \in 1 .. N(g) + 1, rd[s] = <<a, 0>>
  PROVE  q[s] # << >>
<1>1. s \in Start /\ Slots(g)[s] = Flat(1 .. N(g) + 1)
  BY SlotFacts DEF Start
<1>2. <<a, 0>> \in Slots(g)[s] /\ a \in Int
  BY <1>1 DEF Flat
<1>. QED BY <1>1, <1>2, SourceHeld

(* coreControlImpl and offset2NoOrderReadPart1 have their input and wait   *)
(* for room only.                                                          *)
LEMMA CoreWaits ==
  ASSUME NEW g \in Files, NEW rd \in [Names -> Place], NEW wr \in [Names -> Place],
         NetAt(g, rd, wr), ~CoreCan
  PROVE  core.pc = "done" \/ \E s \in CoreWrites : Full(s)
<1>1. Flow(g, rd, wr) /\ Filled(g, wr) /\ CoreAt(g, rd, wr)
  BY DEF NetAt
<1>2. PICK u : u = rd["offset1"][1]
  OBVIOUS
<1>3. /\ u \in 0 .. nLists + 1 /\ core.i \in 0 .. N(g)
      /\ rd["offset1"] = <<u, 0>> /\ rd["offset1End"] = <<u, 0>> /\ rd["row1"] = <<core.i + 1, 0>>
      /\ rd["row1End"] = <<IF core.pc = "done" THEN core.i + 2 ELSE core.i + 1, 0>>
      /\ \/ core.pc = "end" /\ u <= nLists
         \/ core.pc = "row" /\ core.i < core.end /\ core.end = g.offsets[u] /\ u \in 1 .. nLists
         \/ core.pc = "block"
         \/ core.pc = "done"
  BY <1>1, <1>2 DEF CoreAt
<1>4. nLists \in Nat /\ N(g) \in Nat /\ ListsOf(g) \in SUBSET Int /\ Rows(g) \in SUBSET Int
  BY SlotsArePlaces
<1>5. SUFFICES ASSUME \A s \in CoreWrites : Len(q[s]) < Depth, core.pc # "done" PROVE FALSE
  BY DEF Full
<1>6. CASE core.pc = "end"
  <2>1. u \in 0 .. nLists /\ 0 .. nLists \in SUBSET Int
    BY <1>3, <1>4, <1>6
  <2>2. q["offset1End"] # << >> /\ Head(q["offset1End"]) = Says(g)["offset1End"][<<u, 0>>]
    BY <1>1, <1>3, <2>1, SourceHead, SlotFacts DEF Start
  <2>3. CASE u = nLists
    <3>0. u \in Int
      BY <2>1
    <3>1. Head(q["offset1End"]) = TRUE
      BY <2>2, <2>3, <3>0, ListFlags
    <3>2. core.i + 1 \in 1 .. N(g) + 1 /\ 1 .. N(g) + 1 \in SUBSET Int
      BY <1>3, <1>4
    <3>3. rd["row1End"] = <<core.i + 1, 0>>
      BY <1>3, <1>6
    <3>4. q["row1End"] # << >>
      BY <1>1, <3>2, <3>3, LastRowHeld
    <3>. QED BY <1>5, <1>6, <2>2, <3>1, <3>4 DEF CoreCan, CanTurn, Ends, CoreWrites
  <2>4. CASE u # nLists
    <3>1. Head(q["offset1End"]) = FALSE
      BY <2>1, <2>2, <2>4, ListFlags
    <3>2. u \in ListsOf(g)
      BY <1>4, <2>1, <2>4 DEF ListsOf
    <3>3. q["offset1"] # << >>
      BY <1>1, <1>3, <1>4, <3>2, SourceHead, SlotFacts DEF Start
    <3>. QED BY <1>5, <1>6, <2>2, <3>1, <3>3 DEF CoreCan, CanTurn, More, CoreWrites
  <2>. QED BY <2>3, <2>4
<1>7. CASE core.pc = "row"
  <2>1. core.i + 1 \in Rows(g) /\ core.i + 1 \in 1 .. N(g) + 1 /\ 1 .. N(g) + 1 \in SUBSET Int
    BY <1>3, <1>4, <1>7, OffsetFacts DEF Rows
  <2>2. q["row1"] # << >>
    BY <1>1, <1>3, <1>4, <2>1, SourceHead, SlotFacts DEF Start
  <2>3. rd["row1End"] = <<core.i + 1, 0>>
    BY <1>3, <1>7
  <2>4. q["row1End"] # << >>
    BY <1>1, <2>1, <2>3, LastRowHeld
  <2>. QED BY <1>5, <1>7, <2>2, <2>4 DEF CoreCan, CanTurn, CoreWrites
<1>8. CASE core.pc = "block"
  BY <1>5, <1>8 DEF CoreCan, CanTurn, CoreWrites
<1>. QED BY <1>3, <1>5, <1>6, <1>7, <1>8

LEMMA ReduceWaits ==
  ASSUME NEW g \in Files, NEW rd \in [Names -> Place], NEW wr \in [Names -> Place],
         NetAt(g, rd, wr), ~ReduceCan
  PROVE  reduce.pc = "done" \/ \E s \in ReduceWrites : Full(s)
<1>1. Flow(g, rd, wr) /\ Filled(g, wr) /\ ReduceAt(g, rd, wr)
  BY DEF NetAt
<1>2. PICK u : u = rd["offset12"][1]
  OBVIOUS
<1>3. /\ u \in 0 .. nLists + 1 /\ reduce.i \in 0 .. N(g)
      /\ rd["offset12"] = <<u, 0>> /\ rd["offset1End2"] = <<u, 0>> /\ rd["row12"] = <<reduce.i + 1, 0>>
      /\ rd["row1End2"] = <<IF reduce.pc = "done" THEN reduce.i + 2 ELSE reduce.i + 1, 0>>
      /\ \/ reduce.pc = "end" /\ u <= nLists
         \/ reduce.pc = "row" /\ reduce.i < reduce.end /\ reduce.end = g.offsets[u] /\ u \in 1 .. nLists
         \/ reduce.pc = "done"
  BY <1>1, <1>2 DEF ReduceAt
<1>4. nLists \in Nat /\ N(g) \in Nat /\ ListsOf(g) \in SUBSET Int /\ Rows(g) \in SUBSET Int
  BY SlotsArePlaces
<1>5. SUFFICES ASSUME \A s \in ReduceWrites : Len(q[s]) < Depth, reduce.pc # "done" PROVE FALSE
  BY DEF Full
<1>6. CASE reduce.pc = "end"
  <2>1. u \in 0 .. nLists /\ 0 .. nLists \in SUBSET Int
    BY <1>3, <1>4, <1>6
  <2>2. q["offset1End2"] # << >> /\ Head(q["offset1End2"]) = Says(g)["offset1End2"][<<u, 0>>]
    BY <1>1, <1>3, <2>1, SourceHead, SlotFacts DEF Start
  <2>3. CASE u = nLists
    <3>0. u \in Int
      BY <2>1
    <3>1. Head(q["offset1End2"]) = TRUE
      BY <2>2, <2>3, <3>0, ListFlags
    <3>2. reduce.i + 1 \in 1 .. N(g) + 1 /\ 1 .. N(g) + 1 \in SUBSET Int
      BY <1>3, <1>4
    <3>3. rd["row1End2"] = <<reduce.i + 1, 0>>
      BY <1>3, <1>6
    <3>4. q["row1End2"] # << >>
      BY <1>1, <3>2, <3>3, LastRowHeld
    <3>. QED BY <1>5, <1>6, <2>2, <3>1, <3>4 DEF ReduceCan, CanTurn, Ends, ReduceWrites
  <2>4. CASE u # nLists
    <3>1. Head(q["offset1End2"]) = FALSE
      BY <2>1, <2>2, <2>4, ListFlags
    <3>2. u \in ListsOf(g)
      BY <1>4, <2>1, <2>4 DEF ListsOf
    <3>3. q["offset12"] # << >>
      BY <1>1, <1>3, <1>4, <3>2, SourceHead, SlotFacts DEF Start
    <3>. QED BY <1>5, <1>6, <2>2, <3>1, <3>3 DEF ReduceCan, CanTurn, More, ReduceWrites
  <2>. QED BY <2>3, <2>4
<1>7. CASE reduce.pc = "row"
  <2>1. reduce.i + 1 \in Rows(g) /\ reduce.i + 1 \in 1 .. N(g) + 1 /\ 1 .. N(g) + 1 \in SUBSET Int
    BY <1>3, <1>4, <1>7, OffsetFacts DEF Rows
  <2>2. q["row12"] # << >>
    BY <1>1, <1>3, <1>4, <2>1, SourceHead, SlotFacts DEF Start
  <2>3. rd["row1End2"] = <<reduce.i + 1, 0>>
    BY <1>3, <1>7
  <2>4. q["row1End2"] # << >>
    BY <1>1, <2>1, <2>3, LastRowHeld
  <2>. QED BY <1>5, <1>7, <2>2, <2>4 DEF ReduceCan, CanTurn, ReduceWrites
<1>. QED BY <1>3, <1>5, <1>6, <1>7

LEMMA KeptHeld ==
  ASSUME NEW g \in Files, NEW rd \in [Names -> Place], NEW wr \in [Names -> Place],
         Flow(g, rd, wr), NEW s \in Names, Slots(g)[s] = Flat(Kept(g)),
         NEW r \in Int, NEW w \in Int, rd[s] = <<r, 0>>, wr[s] = <<w, 0>>
  PROVE  /\ \A a \in Kept(g) : r <= a /\ a < w => q[s] # << >>
         /\ q[s] # << >> => \E a \in Int : a \in Kept(g) /\ r <= a /\ a < w
         /\ Full(s) => \E a, b \in Int :
                          a \in Kept(g) /\ b \in Kept(g) /\ r <= a /\ a < b /\ b < w
         /\ \A a \in Kept(g) : a < r => a < w
<1>1. Kept(g) \in SUBSET Int
  BY SlotsArePlaces
<1>2. ASSUME NEW a \in Kept(g), r <= a, a < w PROVE q[s] # << >>
  BY <1>1, <1>2, FlatHeld
<1>3. ASSUME q[s] # << >> PROVE \E a \in Int : a \in Kept(g) /\ r <= a /\ a < w
  BY <1>1, <1>3, FlatHeld
<1>4. ASSUME Full(s)
      PROVE  \E a, b \in Int : a \in Kept(g) /\ b \in Kept(g) /\ r <= a /\ a < b /\ b < w
  BY <1>1, <1>4, FlatHeld
<1>5. ASSUME NEW a \in Kept(g), a < r PROVE a < w
  BY <1>1, <1>5, FlatHeld
<1>. QED BY <1>2, <1>3, <1>4, <1>5

LEMMA FlagsHeld ==
  ASSUME NEW g \in Files, NEW rd \in [Names -> Place], NEW wr \in [Names -> Place],
         Flow(g, rd, wr), NEW s \in PairEnds,
         NEW r \in Int, NEW w \in Int, rd[s] = <<r, 0>>, wr[s] = <<w, 0>>
  PROVE  /\ s \in Names /\ Slots(g)[s] = Flat(KeptOrEnd(g))
         /\ \A a \in KeptOrEnd(g) : r <= a /\ a < w => q[s] # << >>
         /\ q[s] # << >> => \E a \in Int : a \in KeptOrEnd(g) /\ r <= a /\ a < w
         /\ Full(s) => \E a, b \in Int :
                          a \in KeptOrEnd(g) /\ b \in KeptOrEnd(g) /\ r <= a /\ a < b /\ b < w
         /\ \A a \in KeptOrEnd(g) : a < r => a < w
<1>1. s \in Names /\ Slots(g)[s] = Flat(KeptOrEnd(g))
  BY SlotFacts DEF PairEnds, Names, Between
<1>. QED BY <1>1, SlotsArePlaces, FlatHeld

(* A value for each flag that does not end a FIFO of pairs.                *)
LEMMA PairHeld ==
  ASSUME NEW g \in Files, NEW rd \in [Names -> Place], NEW wr \in [Names -> Place],
         Flow(g, rd, wr), NEW s \in {"row1Reduce", "offset2", "row2Dist", "tc"}, NEW e \in PairEnds,
         NEW x \in Int, NEW w \in Int, NEW v \in Int, rd[s] = <<x, 0>>, rd[e] = <<x, 0>>,
         wr[s] = <<w, 0>>, wr[e] = <<v, 0>>, v = w \/ (v = w + 1 /\ w = N(g) + 1)
  PROVE  /\ More(e) => q[s] # << >>
         /\ q[e] # << >> => More(e) \/ Ends(e)
         /\ Full(s) => q[e] # << >>
<1>1. /\ s \in Names /\ e \in Names /\ Slots(g)[s] = Flat(Kept(g)) /\ Slots(g)[e] = Flat(KeptOrEnd(g))
  BY SlotFacts DEF PairEnds, Names, Between
<1>2. /\ Kept(g) \in SUBSET Int /\ KeptOrEnd(g) \in SUBSET Int /\ N(g) \in Nat
      /\ \A a \in Kept(g) : a <= N(g)
  BY SlotsArePlaces DEF Rows
<1>3. /\ \A a \in KeptOrEnd(g) : x <= a /\ a < v => q[e] # << >>
      /\ q[e] # << >> => \E a \in Int : a \in KeptOrEnd(g) /\ x <= a /\ a < v
      /\ \A a \in Kept(g) : x <= a /\ a < w => q[s] # << >>
      /\ Full(s) => \E a, b \in Int :
                       a \in Kept(g) /\ b \in Kept(g) /\ x <= a /\ a < b /\ b < w
  BY <1>1, FlagsHeld, KeptHeld
<1>4. ASSUME q[e] # << >> PROVE (More(e) => q[s] # << >>) /\ (More(e) \/ Ends(e))
  <2>1. PICK p : /\ IsNext(g, x, p)
                 /\ p = N(g) + 1 => Head(q[e]) = TRUE
                 /\ p # N(g) + 1 => Head(q[e]) = FALSE
    BY <1>4, PairFlag
  <2>2. PICK a \in Int : a \in KeptOrEnd(g) /\ x <= a /\ a < v
    BY <1>3, <1>4
  <2>3. p \in Int /\ x <= p /\ p < v /\ (p = N(g) + 1 \/ p \in Kept(g))
    <3>1. p \in KeptOrEnd(g) /\ x <= p /\ p <= a
      BY <2>1, <2>2 DEF IsNext
    <3>2. p \in Int /\ a \in Int
      BY <1>2, <2>2, <3>1
    <3>. QED BY <2>2, <3>1, <3>2 DEF KeptOrEnd
  <2>4. CASE p = N(g) + 1
    <3>1. Head(q[e]) = TRUE
      BY <2>1, <2>4
    <3>. QED BY <1>4, <3>1 DEF More, Ends
  <2>5. CASE p # N(g) + 1
    <3>1. p \in Kept(g) /\ p < w
      BY <1>2, <2>3, <2>5
    <3>. QED BY <1>3, <1>4, <2>1, <2>3, <2>5, <3>1 DEF More
  <2>. QED BY <2>4, <2>5
<1>5. ASSUME Full(s) PROVE q[e] # << >>
  <2>1. PICK a, b \in Int : a \in Kept(g) /\ b \in Kept(g) /\ x <= a /\ a < b /\ b < w
    BY <1>3, <1>5
  <2>2. a \in KeptOrEnd(g) /\ a < v
    BY <1>2, <2>1 DEF KeptOrEnd
  <2>. QED BY <1>3, <2>1, <2>2
<1>. QED BY <1>4, <1>5 DEF More

(* Of a FIFO of pairs that has been read to the end nothing is held.       *)
LEMMA PairsOver ==
  ASSUME NEW g \in Files, NEW rd \in [Names -> Place], NEW wr \in [Names -> Place],
         Flow(g, rd, wr), NEW s \in Names, rd[s] = <<N(g) + 2, 0>>, s \notin Lists
  PROVE  q[s] = << >> /\ ~Full(s)
<1>1. N(g) \in Nat /\ Slots(g)[s] \in SUBSET Place
  BY SlotsArePlaces
<1>2. \A y \in Slots(g)[s] : y[1] < N(g) + 2
  BY SlotBounds
<1>3. \A y \in Slots(g)[s] : Before(y, rd[s])
  BY <1>2 DEF Before
<1>. QED BY <1>3, UnderFacts DEF Under

(* One that has been written to the end holds a flag until it is read to   *)
(* the end.                                                                *)
LEMMA PairsLeft ==
  ASSUME NEW g \in Files, NEW rd \in [Names -> Place], NEW wr \in [Names -> Place],
         Flow(g, rd, wr), NEW e \in PairEnds, NEW x \in Int, x <= N(g) + 1,
         rd[e] = <<x, 0>>, wr[e] = <<N(g) + 2, 0>>
  PROVE  q[e] # << >>
<1>1. N(g) \in Nat /\ KeptOrEnd(g) \in SUBSET Int /\ N(g) + 1 \in KeptOrEnd(g)
  BY SlotsArePlaces DEF KeptOrEnd
<1>2. N(g) + 2 \in Int /\ N(g) + 1 < N(g) + 2
  BY <1>1
<1>. QED BY <1>1, <1>2, FlagsHeld

(* tcAccUnit waits for nothing but a result, and then there is room for    *)
(* one.                                                                    *)
LEMMA AccWaits ==
  ASSUME NEW g \in Files, NEW rd \in [Names -> Place], NEW wr \in [Names -> Place],
         NetAt(g, rd, wr), ~AccCan
  PROVE  q["tcEnd"] = << >> /\ ~Full("tc") /\ ~Full("tcEnd")
<1>1. Flow(g, rd, wr) /\ AccAt(g, rd, wr) /\ MergeAt(g, rd, wr)
  BY DEF NetAt
<1>2. PICK x \in Int : /\ \/ acc.pc = "end" /\ x <= N(g) + 1
                          \/ acc.pc = "done" /\ x = N(g) + 2
                       /\ rd["tc"] = <<x, 0>> /\ rd["tcEnd"] = <<x, 0>>
  BY <1>1 DEF AccAt
<1>3. PICK w \in Int : wr["tc"] = <<w, 0>> /\ wr["tcEnd"] = <<w, 0>>
  BY <1>1 DEF MergeAt, MergeTurns, MergeWrites, IsNext
<1>4. "tc" \in {"row1Reduce", "offset2", "row2Dist", "tc"} /\ "tcEnd" \in PairEnds
      /\ "tc" \in Names /\ "tcEnd" \in Names /\ "tcEnd" \notin Lists
  BY DEF PairEnds, Names, Between, Lists
<1>5. /\ More("tcEnd") => q["tc"] # << >>
      /\ q["tcEnd"] # << >> => More("tcEnd") \/ Ends("tcEnd")
      /\ Full("tc") => q["tcEnd"] # << >>
  BY <1>1, <1>2, <1>3, <1>4, PairHeld
<1>6. q["tcEnd"] = << >>
  <2>1. CASE acc.pc = "done"
    <3>1. rd["tcEnd"] = <<N(g) + 2, 0>>
      BY <1>2, <2>1
    <3>. QED BY <1>1, <1>4, <3>1, PairsOver
  <2>2. CASE acc.pc = "end"
    BY <1>5, <2>2 DEF AccCan, CanTurn
  <2>. QED BY <1>2, <2>1, <2>2
<1>7. Full("tcEnd") => q["tcEnd"] # << >>
  BY <1>1, <1>4, UnderFacts
<1>. QED BY <1>5, <1>6, <1>7

(* offset2NoOrderReadPart2 and row2ImplPart1 wait for a pair or for room,  *)
(* and while they wait for a pair there is room for one.                   *)
LEMMA PairsWaits ==
  ASSUME NEW g \in Files, NEW rd \in [Names -> Place], NEW wr \in [Names -> Place],
         NetAt(g, rd, wr), ~PairsCan, \A s \in PairsWrites : ~Full(s)
  PROVE  /\ pairs.pc = "done" \/ q["row1ReduceEnd"] = << >>
         /\ \A s \in PairsReads : ~Full(s)
<1>1. Flow(g, rd, wr) /\ PairsAt(g, rd, wr) /\ ReduceAt(g, rd, wr)
  BY DEF NetAt
<1>2. PICK x \in Int : /\ rd["row1Reduce"] = <<x, 0>> /\ rd["row1ReduceEnd"] = <<x, 0>>
                       /\ IF pairs.pc = "done" THEN x = N(g) + 2 ELSE pairs.pc = "row"
  BY <1>1 DEF PairsAt, PairsReads
<1>3. PICK w, v \in Int : /\ wr["row1Reduce"] = <<w, 0>> /\ wr["row1ReduceEnd"] = <<v, 0>>
                          /\ v = w \/ (v = w + 1 /\ w = N(g) + 1)
  <2>1. /\ reduce.i \in 0 .. N(g) /\ N(g) \in Nat /\ wr["row1Reduce"] = <<reduce.i + 1, 0>>
        /\ wr["row1ReduceEnd"] = <<IF reduce.pc = "done" THEN reduce.i + 2 ELSE reduce.i + 1, 0>>
        /\ reduce.pc = "done" => reduce.i = N(g)
    BY <1>1, SlotsArePlaces DEF ReduceAt
  <2>2. reduce.i + 1 \in Int /\ reduce.i + 2 \in Int /\ reduce.i + 2 = (reduce.i + 1) + 1
    BY <2>1
  <2>. QED BY <2>1, <2>2
<1>4. "row1Reduce" \in {"row1Reduce", "offset2", "row2Dist", "tc"} /\ "row1ReduceEnd" \in PairEnds
      /\ "row1Reduce" \in Names /\ "row1ReduceEnd" \in Names
      /\ "row1ReduceEnd" \notin Lists /\ "row1Reduce" \notin Lists
  BY DEF PairEnds, Names, Between, Lists
<1>5. /\ More("row1ReduceEnd") => q["row1Reduce"] # << >>
      /\ q["row1ReduceEnd"] # << >> => More("row1ReduceEnd") \/ Ends("row1ReduceEnd")
      /\ Full("row1Reduce") => q["row1ReduceEnd"] # << >>
  BY <1>1, <1>2, <1>3, <1>4, PairHeld
<1>6. Full("row1ReduceEnd") => q["row1ReduceEnd"] # << >>
  BY <1>1, <1>4, UnderFacts
<1>7. CASE pairs.pc = "done"
  <2>1. rd["row1Reduce"] = <<N(g) + 2, 0>> /\ rd["row1ReduceEnd"] = <<N(g) + 2, 0>>
    BY <1>2, <1>7
  <2>. QED BY <1>1, <1>4, <1>7, <2>1, PairsOver DEF PairsReads
<1>8. CASE pairs.pc = "row"
  <2>1. q["row1ReduceEnd"] = << >>
    BY <1>5, <1>8 DEF PairsCan, CanTurn, PairsWrites, Full
  <2>. QED BY <1>5, <1>6, <2>1 DEF PairsReads
<1>. QED BY <1>2, <1>7, <1>8

LEMMA AddrWaits ==
  ASSUME NEW g \in Files, NEW rd \in [Names -> Place], NEW wr \in [Names -> Place],
         NetAt(g, rd, wr), ~AddrCan, \A s \in AddrWrites : ~Full(s)
  PROVE  /\ addr.pc = "done" \/ (addr.pc = "end" /\ q["offset2End"] = << >>)
         /\ \A s \in AddrReads : ~Full(s)
<1>1. Flow(g, rd, wr) /\ PairsAt(g, rd, wr) /\ AddrAt(g, rd, wr)
  BY DEF NetAt
<1>2. PICK x \in Int : /\ rd["offset2"] = <<x, 0>> /\ rd["offset2End"] = <<x, 0>>
                       /\ \/ addr.pc \in {"row", "end"}
                          \/ addr.pc = "done" /\ x = N(g) + 2
  BY <1>1 DEF AddrAt, AddrReads
<1>3. PICK w \in Int : wr["offset2"] = <<w, 0>> /\ wr["offset2End"] = <<w, 0>>
  BY <1>1 DEF PairsAt, PairsWrites
<1>4. "offset2" \in {"row1Reduce", "offset2", "row2Dist", "tc"} /\ "offset2End" \in PairEnds
      /\ "offset2" \in Names /\ "offset2End" \in Names
      /\ "offset2End" \notin Lists /\ "offset2" \notin Lists
  BY DEF PairEnds, Names, Between, Lists
<1>5. /\ More("offset2End") => q["offset2"] # << >>
      /\ q["offset2End"] # << >> => More("offset2End") \/ Ends("offset2End")
      /\ Full("offset2") => q["offset2End"] # << >>
  BY <1>1, <1>2, <1>3, <1>4, PairHeld
<1>6. Full("offset2End") => q["offset2End"] # << >>
  BY <1>1, <1>4, UnderFacts
<1>7. CASE addr.pc = "done"
  <2>1. rd["offset2"] = <<N(g) + 2, 0>> /\ rd["offset2End"] = <<N(g) + 2, 0>>
    BY <1>2, <1>7
  <2>. QED BY <1>1, <1>4, <1>7, <2>1, PairsOver DEF AddrReads
<1>8. CASE addr.pc = "end"
  <2>1. q["offset2End"] = << >>
    BY <1>5, <1>8 DEF AddrCan, CanTurn, AddrWrites, Full
  <2>. QED BY <1>5, <1>6, <1>8, <2>1 DEF AddrReads
<1>9. CASE addr.pc = "row"
  BY <1>9 DEF AddrCan, CanTurn, AddrWrites, Full
<1>. QED BY <1>2, <1>7, <1>8, <1>9

LEMMA LowerFacts ==
  ASSUME NEW g \in Files, NEW k \in {0, 1}, NEW z \in Lower(g, k)
  PROVE  /\ z \in Place /\ z[1] \in Int /\ z[2] \in Int /\ z = <<z[1], z[2]>>
         /\ z[1] \in Kept(g) /\ z[1] <= N(g) /\ 0 <= z[2] /\ N(g) \in Nat
<1>1. z \in Place /\ z[1] \in Kept(g) /\ OtherStart(g, z[1]) <= z[2]
  BY DEF Lower
<1>2. z[1] \in 1 .. N(g) /\ N(g) \in Nat
  BY <1>1, SlotsArePlaces DEF Rows
<1>3. OtherStart(g, z[1]) \in 0 .. N(g)
  BY <1>2, OtherFacts
<1>4. z[1] \in Int /\ z[2] \in Int /\ z = <<z[1], z[2]>>
  BY <1>1 DEF Place
<1>. QED BY <1>1, <1>2, <1>3, <1>4

LEMMA LowerMembers ==
  ASSUME NEW g \in Files, NEW p \in Kept(g), NEW r \in Int, OtherStart(g, p) <= r
  PROVE  /\ r < OtherEnd(g, p) => <<p, r>> \in Lower(g, 0)
         /\ r <= OtherEnd(g, p) => <<p, r>> \in Lower(g, 1)
         /\ <<p, r>> \in Place /\ p \in Rows(g) /\ p \in Int /\ p <= N(g) /\ N(g) \in Nat
<1>1. p \in Rows(g) /\ p \in Int /\ p <= N(g) /\ N(g) \in Nat
  BY SlotsArePlaces DEF Rows
<1>2. OtherEnd(g, p) \in Int
  BY <1>1, OtherFacts DEF Rows
<1>3. <<p, r>> \in Place
  BY <1>1 DEF Place
<1>4. r <= OtherEnd(g, p) => r < OtherEnd(g, p) + 1
  BY <1>2
<1>5. r < OtherEnd(g, p) => r < OtherEnd(g, p) + 0
  BY <1>2
<1>. QED BY <1>1, <1>3, <1>4, <1>5 DEF Lower

(* Where row2ImplPart1 is, for those who read from it.                     *)
LEMMA AddrPlaces ==
  ASSUME NEW g \in Files, NEW rd, NEW wr, AddrAt(g, rd, wr)
  PROVE  \E x, a, b : /\ x \in Int /\ a \in Int /\ ((a = x /\ b = 0) \/ a = x - 1)
                      /\ wr["row2Dist"] = <<x, 0>> /\ wr["row2DistEnd"] = <<x, 0>>
                      /\ wr["row2Addr"] = <<a, b>> /\ wr["row2AddrEnd"] = <<a, b>>
<1>1. PICK x : x = rd["offset2End"][1]
  OBVIOUS
<1>2. x \in Int /\ wr["row2Dist"] = <<x, 0>> /\ wr["row2DistEnd"] = <<x, 0>>
  BY <1>1 DEF AddrAt, Distances
<1>3. \/ wr["row2Addr"] = <<x - 1, addr.i>> /\ wr["row2AddrEnd"] = <<x - 1, addr.i>>
      \/ wr["row2Addr"] = <<x, 0>> /\ wr["row2AddrEnd"] = <<x, 0>>
  BY <1>1 DEF AddrAt, Addresses
<1>4. x - 1 \in Int
  BY <1>2
<1>. QED BY <1>2, <1>3, <1>4

(* row2ImplPart2 waits for an address or for room; it never takes a flag   *)
(* and then waits for the address.                                         *)
LEMMA LoadWaits ==
  ASSUME NEW g \in Files, NEW rd \in [Names -> Place], NEW wr \in [Names -> Place],
         NetAt(g, rd, wr), ~LoadCan, ~Full("row2Continue")
  PROVE  /\ \/ load.pc = "done"
            \/ /\ rd["row2Addr"] = rd["row2AddrEnd"] /\ q["row2AddrEnd"] = << >>
               /\ ~Before(<<N(g) + 1, 0>>, rd["row2AddrEnd"])
         /\ ~Full("row2Addr") /\ ~Full("row2AddrEnd")
<1>1. Flow(g, rd, wr) /\ AddrAt(g, rd, wr) /\ LoadAt(g, rd, wr)
  BY DEF NetAt
<1>2. wr["row2Addr"] = wr["row2AddrEnd"]
  BY <1>1, AddrPlaces
<1>3. /\ Slots(g)["row2Addr"] = Lower(g, 0) /\ "row2Addr" \in Names /\ "row2AddrEnd" \in Names
      /\ Lower(g, 0) \subseteq Slots(g)["row2AddrEnd"]
  BY SlotFacts DEF Names, Between
<1>4. /\ Full("row2Addr") => q["row2Addr"] # << >>
      /\ Full("row2AddrEnd") => q["row2AddrEnd"] # << >>
  BY <1>1, <1>3, UnderFacts
<1>5. ASSUME rd["row2Addr"] = rd["row2AddrEnd"], q["row2AddrEnd"] = << >> PROVE q["row2Addr"] = << >>
  <2>1. \A x : Under(g, rd, wr, "row2Addr", x) => Under(g, rd, wr, "row2AddrEnd", x)
    BY <1>2, <1>3, <1>5 DEF Under
  <2>. QED BY <1>1, <1>3, <1>5, <2>1, UnderFacts
<1>6. CASE load.pc = "start"
  <2>1. rd["row2Addr"] = rd["row2AddrEnd"] /\ ~Before(<<N(g) + 1, 0>>, rd["row2AddrEnd"])
    BY <1>1, <1>6 DEF LoadAt
  <2>2. q["row2AddrEnd"] = << >>
    BY <1>6 DEF LoadCan, CanTurn
  <2>. QED BY <1>4, <1>5, <2>1, <2>2
<1>7. CASE load.pc = "turn" /\ load.ok = TRUE
  <2>1. PICK z \in Lower(g, 0) :
          Passes(Slots(g)["row2AddrEnd"], rd["row2Addr"], z, rd["row2AddrEnd"])
    BY <1>1, <1>7 DEF LoadAt
  <2>2. /\ z \in Slots(g)["row2AddrEnd"] /\ ~Before(z, rd["row2Addr"])
        /\ Before(z, rd["row2AddrEnd"])
    BY <2>1 DEF Passes
  <2>3. Before(z, wr["row2Addr"])
    BY <1>1, <1>2, <1>3, <2>2, UnderFacts
  <2>4. Under(g, rd, wr, "row2Addr", z)
    BY <1>3, <2>2, <2>3 DEF Under
  <2>5. q["row2Addr"] # << >>
    BY <1>1, <1>3, <2>4, UnderFacts
  <2>. QED BY <1>7, <2>5 DEF LoadCan, CanTurn, Full
<1>8. CASE load.pc = "turn" /\ load.ok = FALSE
  <2>1. rd["row2Addr"] = rd["row2AddrEnd"] /\ ~Before(<<N(g) + 1, 0>>, rd["row2AddrEnd"])
    BY <1>1, <1>8 DEF LoadAt
  <2>2. q["row2AddrEnd"] = << >>
    BY <1>8 DEF LoadCan, Look
  <2>. QED BY <1>4, <1>5, <2>1, <2>2
<1>9. CASE load.pc = "done"
  <2>1. /\ \A y \in Slots(g)["row2Addr"] : Before(y, rd["row2Addr"])
        /\ \A y \in Slots(g)["row2AddrEnd"] : Before(y, rd["row2AddrEnd"])
    BY <1>1, <1>3, <1>9 DEF LoadAt
  <2>2. q["row2Addr"] = << >> /\ q["row2AddrEnd"] = << >>
    BY <1>1, <1>3, <2>1, UnderFacts DEF Under
  <2>. QED BY <1>4, <1>9, <2>2
<1>. QED BY <1>1, <1>6, <1>7, <1>8, <1>9 DEF LoadAt

(* What waits between row2ImplPart2 and row2ImplPart3 is of a pair whose   *)
(* length has been sent.                                                   *)
LEMMA LengthSent ==
  ASSUME NEW g \in Files, NEW rd \in [Names -> Place], NEW wr \in [Names -> Place],
         NetAt(g, rd, wr), NEW z, Under(g, rd, wr, "row2Continue", z),
         NEW x \in Int, x <= z[1], rd["row2DistEnd"] = <<x, 0>>
  PROVE  q["row2DistEnd"] # << >>
<1>1. Flow(g, rd, wr) /\ AddrAt(g, rd, wr) /\ LoadAt(g, rd, wr)
  BY DEF NetAt
<1>2. PICK v, a, b : /\ v \in Int /\ a \in Int /\ ((a = v /\ b = 0) \/ a = v - 1)
                     /\ wr["row2DistEnd"] = <<v, 0>> /\ wr["row2Addr"] = <<a, b>>
  BY <1>1, AddrPlaces
<1>3. /\ Slots(g)["row2Continue"] = Lower(g, 0) /\ Slots(g)["row2Addr"] = Lower(g, 0)
      /\ "row2Addr" \in Names
  BY SlotFacts DEF Names, Between
<1>4. z \in Lower(g, 0) /\ Before(z, rd["row2Addr"])
  BY <1>1, <1>3 DEF Under, LoadAt
<1>5. Before(z, <<a, b>>)
  BY <1>1, <1>2, <1>3, <1>4, UnderFacts
<1>6. z[1] \in Int /\ z[2] \in Int /\ 0 <= z[2] /\ z[1] \in KeptOrEnd(g)
  BY <1>4, LowerFacts DEF KeptOrEnd
<1>7. z[1] < v
  BY <1>2, <1>5, <1>6 DEF Before
<1>8. "row2DistEnd" \in PairEnds
  BY DEF PairEnds
<1>9. \A c \in KeptOrEnd(g) : x <= c /\ c < v => q["row2DistEnd"] # << >>
  BY <1>1, <1>2, <1>8, FlagsHeld
<1>. QED BY <1>6, <1>7, <1>9

(* row2ImplPart3 waits for a pair, for a vertex or for room.               *)
LEMMA BlockWaits ==
  ASSUME NEW g \in Files, NEW rd \in [Names -> Place], NEW wr \in [Names -> Place],
         NetAt(g, rd, wr), ~BlockCan, \A s \in BlockWrites : ~Full(s)
  PROVE  /\ \/ block.pc = "done"
            \/ block.pc = "end" /\ q["row2DistEnd"] = << >>
            \/ block.pc = "row" /\ block.left > 0 /\ q["row2Continue"] = << >>
         /\ ~Full("row2Continue")
<1>1. Flow(g, rd, wr) /\ AddrAt(g, rd, wr) /\ BlockAt(g, rd, wr)
  BY DEF NetAt
<1>2. PICK x : x = rd["row2DistEnd"][1]
  OBVIOUS
<1>3. /\ x \in Int /\ rd["row2Dist"] = <<x, 0>> /\ rd["row2DistEnd"] = <<x, 0>>
      /\ block.left \in 0 .. Modulus - 1
      /\ \/ block.pc = "row"
         \/ /\ block.pc = "end" \/ (block.pc = "done" /\ x = N(g) + 2)
            /\ rd["row2Continue"] = <<x, 0>>
  BY <1>1, <1>2 DEF BlockAt
<1>4. PICK v \in Int : wr["row2Dist"] = <<v, 0>> /\ wr["row2DistEnd"] = <<v, 0>>
  BY <1>1, AddrPlaces
<1>5. /\ "row2Dist" \in {"row1Reduce", "offset2", "row2Dist", "tc"} /\ "row2DistEnd" \in PairEnds
      /\ "row2Continue" \in Names /\ "row2Continue" \notin Lists
      /\ Slots(g)["row2Continue"] = Lower(g, 0)
  BY SlotFacts DEF PairEnds, Names, Between, Lists
<1>6. /\ More("row2DistEnd") => q["row2Dist"] # << >>
      /\ q["row2DistEnd"] # << >> => More("row2DistEnd") \/ Ends("row2DistEnd")
  BY <1>1, <1>3, <1>4, <1>5, PairHeld
<1>7. Full("row2Continue") => q["row2Continue"] # << >>
  BY <1>1, <1>5, UnderFacts
<1>8. CASE block.pc = "end"
  <2>1. q["row2DistEnd"] = << >>
    BY <1>6, <1>8 DEF BlockCan, CanTurn
  <2>2. q["row2Continue"] = << >>
    <3>1. SUFFICES ASSUME NEW z, Under(g, rd, wr, "row2Continue", z) PROVE FALSE
      BY <1>1, <1>5, UnderFacts
    <3>2. z \in Lower(g, 0) /\ ~Before(z, <<x, 0>>)
      BY <1>3, <1>5, <1>8, <3>1 DEF Under
    <3>3. z[1] \in Int /\ x <= z[1]
      BY <1>3, <3>2, LowerFacts DEF Before
    <3>. QED BY <1>3, <2>1, <3>1, <3>3, LengthSent
  <2>. QED BY <1>7, <1>8, <2>1, <2>2
<1>9. CASE block.pc = "row"
  <2>1. CASE block.left = 0
    BY <1>9, <2>1 DEF BlockCan, CanTurn, BlockWrites, Full
  <2>2. CASE block.left > 0
    <3>1. q["row2Continue"] = << >>
      BY <1>9, <2>2 DEF BlockCan, CanTurn, BlockWrites, Full
    <3>. QED BY <1>7, <1>9, <2>2, <3>1
  <2>. QED BY <1>3, <2>1, <2>2
<1>10. CASE block.pc = "done"
  <2>1. rd["row2Continue"] = <<N(g) + 2, 0>>
    BY <1>3, <1>10
  <2>. QED BY <1>1, <1>5, <1>10, <2>1, PairsOver
<1>. QED BY <1>3, <1>8, <1>9, <1>10

(* The vertex row2ImplPart3 asks for next.                                 *)
LEMMA BlockNext ==
  ASSUME NEW g \in Files, NEW rd, NEW wr, BlockAt(g, rd, wr), block.pc = "row", block.left > 0
  PROVE  /\ rd["row2Continue"] \in Lower(g, 0)
         /\ rd["row2Continue"][1] = rd["row2DistEnd"][1] - 1
<1>1. PICK x : x = rd["row2DistEnd"][1]
  OBVIOUS
<1>2. PICK r : r = OtherEnd(g, x - 1) - block.left
  OBVIOUS
<1>3. /\ block.left \in 0 .. Modulus - 1 /\ x - 1 \in Kept(g)
      /\ rd["row2Continue"] = <<x - 1, r>> /\ OtherStart(g, x - 1) <= r
  BY <1>1, <1>2 DEF BlockAt
<1>4. x - 1 \in 1 .. N(g)
  BY <1>3, SlotsArePlaces DEF Rows
<1>5. OtherEnd(g, x - 1) \in Int /\ block.left \in Int
  BY <1>3, <1>4, OtherFacts, TriangleAssumption
<1>6. r \in Int /\ r < OtherEnd(g, x - 1)
  BY <1>2, <1>5
<1>. QED BY <1>1, <1>3, <1>6, LowerMembers

(* While both wait row2ImplPart1 has room for what it sends.               *)
LEMMA AddrRoom ==
  ASSUME NEW g \in Files, NEW rd \in [Names -> Place], NEW wr \in [Names -> Place],
         NetAt(g, rd, wr), ~LoadCan, ~BlockCan, \A s \in BlockWrites : ~Full(s)
  PROVE  \A s \in AddrWrites : ~Full(s)
<1>1. Flow(g, rd, wr) /\ AddrAt(g, rd, wr) /\ LoadAt(g, rd, wr) /\ BlockAt(g, rd, wr)
  BY DEF NetAt
<1>2. PICK x : x = rd["row2DistEnd"][1]
  OBVIOUS
<1>3. /\ x \in Int /\ rd["row2Dist"] = <<x, 0>> /\ rd["row2DistEnd"] = <<x, 0>>
      /\ block.left \in 0 .. Modulus - 1
      /\ \/ /\ block.pc = "row" /\ x - 1 \in Kept(g)
            /\ rd["row2Continue"] = <<x - 1, OtherEnd(g, x - 1) - block.left>>
            /\ OtherStart(g, x - 1) <= OtherEnd(g, x - 1) - block.left
         \/ block.pc = "end" \/ (block.pc = "done" /\ x = N(g) + 2)
  BY <1>1, <1>2 DEF BlockAt
<1>4. PICK v, a, b : /\ v \in Int /\ a \in Int /\ ((a = v /\ b = 0) \/ a = v - 1)
                     /\ wr["row2Dist"] = <<v, 0>> /\ wr["row2DistEnd"] = <<v, 0>>
                     /\ wr["row2Addr"] = <<a, b>> /\ wr["row2AddrEnd"] = <<a, b>>
  BY <1>1, AddrPlaces
<1>5. /\ "row2Dist" \in {"row1Reduce", "offset2", "row2Dist", "tc"} /\ "row2DistEnd" \in PairEnds
      /\ "row2Dist" \in Names /\ "row2DistEnd" \in Names
      /\ "row2Dist" \notin Lists /\ "row2DistEnd" \notin Lists
  BY DEF PairEnds, Names, Between, Lists
<1>6. Full("row2Dist") \/ Full("row2DistEnd") => q["row2DistEnd"] # << >>
  BY <1>1, <1>3, <1>4, <1>5, PairHeld, UnderFacts
<1>7. /\ \/ load.pc = "done"
         \/ /\ rd["row2Addr"] = rd["row2AddrEnd"] /\ q["row2AddrEnd"] = << >>
            /\ ~Before(<<N(g) + 1, 0>>, rd["row2AddrEnd"])
      /\ ~Full("row2Addr") /\ ~Full("row2AddrEnd")
  BY BlockWaits, LoadWaits
<1>8. q["row2DistEnd"] = << >>
  <2>1. CASE block.pc = "end"
    BY <2>1, BlockWaits
  <2>2. CASE block.pc = "done"
    BY <1>1, <1>3, <1>5, <2>2, PairsOver
  <2>3. CASE block.pc = "row"
    <3> DEFINE z == rd["row2Continue"]
    <3>1. /\ block.left > 0 /\ q["row2Continue"] = << >>
      BY <2>3, BlockWaits
    <3>2. z \in Lower(g, 0) /\ z[1] = x - 1
      <4>1. z \in Lower(g, 0) /\ z[1] = rd["row2DistEnd"][1] - 1
        BY <1>1, <2>3, <3>1, BlockNext
      <4>. QED BY <1>2, <4>1
    <3>3. z \in Place /\ ~Before(z, z) /\ "row2Continue" \in Names
      BY <3>2, LowerFacts, BeforeIsLinear DEF Names, Between
    <3>4. wr["row2Continue"] = rd["row2Addr"] /\ Slots(g)["row2Continue"] = Lower(g, 0)
      BY <1>1, SlotFacts DEF LoadAt
    <3>5. ~Before(z, rd["row2Addr"])
      BY <1>1, <3>1, <3>2, <3>3, <3>4, UnderFacts DEF Under
    <3>6. load.pc # "done"
      BY <1>1, <3>2, <3>5 DEF LoadAt
    <3>7. ~Before(z, <<a, b>>)
      <4>1. z \in Slots(g)["row2AddrEnd"] /\ "row2AddrEnd" \in Names
        BY <3>2, SlotFacts DEF Names, Between
      <4>. QED BY <1>1, <1>4, <1>7, <3>5, <3>6, <4>1, UnderFacts DEF Under
    <3>8. v <= x
      <4>1. ~(x - 1 < a)
        BY <3>2, <3>7 DEF Before
      <4>. QED BY <1>3, <1>4, <4>1
    <3>9. \A c \in Int : ~(x <= c /\ c < v)
      BY <1>3, <1>4, <3>8
    <3>10. q["row2DistEnd"] # << >> => \E c \in Int : c \in KeptOrEnd(g) /\ x <= c /\ c < v
      BY <1>1, <1>3, <1>4, <1>5, FlagsHeld
    <3>. QED BY <3>9, <3>10
  <2>. QED BY <1>3, <2>1, <2>2, <2>3
<1>. QED BY <1>6, <1>7, <1>8 DEF AddrWrites

(* Where row1CopyImpl is in a list.                                        *)
LEMMA CopyInList ==
  ASSUME NEW g \in Files, NEW rd \in [Names -> Place], NEW wr \in [Names -> Place],
         CopyAt(g, rd, wr), copy.pc \in {"copy", "first", "again"},
         NEW V, V = rd["col1End"][1], NEW a, a = rd["col1"][1] - 1,
         NEW S, S = g.offsets[V - 1], NEW E, E = g.offsets[V]
  PROVE  /\ V \in Int /\ a \in Int /\ V \in 1 .. nLists /\ S \in Nat /\ E \in Nat
         /\ S < E /\ E <= N(g) /\ copy.i \in Nat /\ copy.num = E - S
         /\ CopyTurns(g, V, a, rd["col1BlockEnd"], wr)
         /\ rd["col1End"] = <<V, 0>> /\ rd["copyNum"] = <<V, 0>> /\ rd["col1"] = <<a + 1, 0>>
<1>1. PICK W, b, S2, E2, p \in Int :
           /\ W = rd["col1End"][1] /\ b = rd["col1"][1] - 1
           /\ S2 = g.offsets[W - 1] /\ E2 = g.offsets[W] /\ p = S2 + copy.i + 1
           /\ W \in 1 .. nLists /\ S2 \in Nat /\ E2 \in Nat /\ S2 < E2 /\ b \in 0 .. N(g)
           /\ copy.i \in Nat /\ copy.i <= (E2 - S2) - 1 /\ copy.num = E2 - S2
           /\ p \in Rows(g) /\ S2 < p /\ p <= E2 /\ E2 <= N(g) /\ N(g) \in Nat
           /\ ListStart(g, p) = S2 /\ ListEnd(g, p) = E2
           /\ p \in Kept(g) <=> E2 - S2 > 1
           /\ CopyTurns(g, W, b, rd["col1BlockEnd"], wr)
           /\ rd["col1End"] = <<W, 0>> /\ rd["copyNum"] = <<W, 0>> /\ rd["col1"] = <<b + 1, 0>>
  BY CopyTurnFacts
<1>2. V = W /\ a = b
  BY <1>1
<1>3. S = S2 /\ E = E2
  BY <1>1, <1>2
<1>. QED BY <1>1, <1>2, <1>3

(* What waits between coreControlImpl and row1CopyImpl.                    *)
LEMMA ListsHeld ==
  ASSUME NEW g \in Files, NEW rd \in [Names -> Place], NEW wr \in [Names -> Place],
         Flow(g, rd, wr), NEW r \in Int, NEW w \in Int,
         rd["col1End"] = <<r, 0>>, wr["col1End"] = <<w, 0>>,
         rd["copyNum"] = <<r, 0>>, wr["copyNum"] = <<w, 0>>
  PROVE  /\ q["col1End"] # << >> => r < w
         /\ r \in 0 .. nLists /\ r < w => q["col1End"] # << >>
         /\ r \in ListsOf(g) /\ r < w => q["copyNum"] # << >>
         /\ Full("col1End") \/ Full("copyNum") => r + 1 < w
<1>1. PICK P \in SUBSET Int : P = 0 .. nLists
  BY SlotsArePlaces
<1>2. PICK Q \in SUBSET Int : Q = ListsOf(g)
  BY SlotsArePlaces
<1>3. "col1End" \in Names /\ Slots(g)["col1End"] = Flat(P)
  BY <1>1, SlotFacts DEF Names, Between
<1>4. "copyNum" \in Names /\ Slots(g)["copyNum"] = Flat(Q)
  BY <1>2, SlotFacts DEF Names, Between
<1>5. /\ \A a \in P : r <= a /\ a < w => q["col1End"] # << >>
      /\ q["col1End"] # << >> => \E a \in Int : a \in P /\ r <= a /\ a < w
      /\ Full("col1End") => \E a, b \in Int : a \in P /\ b \in P /\ r <= a /\ a < b /\ b < w
  BY <1>3, FlatHeld
<1>6. /\ \A a \in Q : r <= a /\ a < w => q["copyNum"] # << >>
      /\ Full("copyNum") => \E a, b \in Int : a \in Q /\ b \in Q /\ r <= a /\ a < b /\ b < w
  BY <1>4, FlatHeld
<1>. QED BY <1>1, <1>2, <1>5, <1>6

LEMMA ColumnsHeld ==
  ASSUME NEW g \in Files, NEW rd \in [Names -> Place], NEW wr \in [Names -> Place],
         Flow(g, rd, wr), NEW r \in Int, NEW w \in Int,
         rd["col1"] = <<r, 0>>, wr["col1"] = <<w, 0>>
  PROVE  /\ r \in Rows(g) /\ r < w => q["col1"] # << >>
         /\ Full("col1") => r + 1 < w
<1>1. PICK Q \in SUBSET Int : Q = Rows(g)
  BY SlotsArePlaces
<1>2. "col1" \in Names /\ Slots(g)["col1"] = Flat(Q)
  BY <1>1, SlotFacts DEF Names, Between
<1>3. /\ \A a \in Q : r <= a /\ a < w => q["col1"] # << >>
      /\ Full("col1") => \E a, b \in Int : a \in Q /\ b \in Q /\ r <= a /\ a < b /\ b < w
  BY <1>2, FlatHeld
<1>. QED BY <1>1, <1>3

(* row1CopyImpl waits for a list, for its next vertex or for room.         *)
LEMMA CopyWaits ==
  ASSUME NEW g \in Files, NEW rd \in [Names -> Place], NEW wr \in [Names -> Place],
         NetAt(g, rd, wr), ~CopyCan, \A s \in CopyWrites : ~Full(s)
  PROVE  \/ copy.pc = "done"
         \/ copy.pc = "end" /\ q["col1End"] = << >>
         \/ copy.pc = "first" /\ q["col1BlockEnd"] = << >>
<1>1. Flow(g, rd, wr) /\ CoreAt(g, rd, wr) /\ CopyAt(g, rd, wr)
  BY DEF NetAt
<1>2. /\ {"col1End", "copyNum", "col1", "col1BlockEnd"} \subseteq Names
      /\ Slots(g)["col1End"] = Flat(0 .. nLists) /\ Slots(g)["copyNum"] = Flat(ListsOf(g))
      /\ Slots(g)["col1"] = Flat(Rows(g)) /\ Slots(g)["col1BlockEnd"] = Blocks(g)
  BY SlotFacts DEF Names, Between
<1>3. /\ nLists \in Nat /\ N(g) \in Nat /\ ListsOf(g) \in SUBSET Int /\ Rows(g) \in SUBSET Int
      /\ 0 .. nLists \in SUBSET Int
  BY SlotsArePlaces
<1>4. PICK u : /\ u \in Int /\ core.i \in Int /\ core.i + 1 \in Int
               /\ wr["col1End"] = <<u, 0>> /\ wr["copyNum"] = <<u, 0>>
               /\ wr["col1"] = <<core.i + 1, 0>>
               /\ wr["col1BlockEnd"] = <<core.i, 1>> \/ wr["col1BlockEnd"] = <<core.i + 1, 0>>
  BY <1>1, <1>3 DEF CoreAt
<1>5. copy.pc \in {"end", "copy", "first", "again", "done"}
  BY <1>1 DEF CopyAt, CopyTurns
<1>6. CASE copy.pc = "end" /\ q["col1End"] # << >>
  <2>1. PICK V : V \in 0 .. nLists /\ rd["col1End"] = <<V, 0>> /\ rd["copyNum"] = <<V, 0>>
    BY <1>1, <1>3, <1>6 DEF CopyAt, CopyTurns
  <2>2. Head(q["col1End"]) = Says(g)["col1End"][<<V, 0>>]
    BY <1>1, <1>2, <1>3, <1>6, <2>1, FlatRead
  <2>3. V \in Int
    BY <2>1
  <2>4. CASE V = nLists
    <3>1. Head(q["col1End"]) = TRUE
      BY <2>2, <2>3, <2>4, ListFlags
    <3>. QED BY <1>6, <3>1 DEF CopyCan, CanTurn, Ends, CopyWrites, Full
  <2>5. CASE V # nLists
    <3>1. Head(q["col1End"]) = FALSE
      BY <2>2, <2>3, <2>5, ListFlags
    <3>2. V \in ListsOf(g)
      BY <1>3, <2>1, <2>5 DEF ListsOf
    <3>3. q["copyNum"] # << >>
      BY <1>1, <1>4, <1>6, <2>1, <2>3, <3>2, ListsHeld
    <3>. QED BY <1>6, <3>1, <3>3 DEF CopyCan, CanTurn, More
  <2>. QED BY <2>4, <2>5
<1>7. CASE copy.pc = "first" /\ q["col1BlockEnd"] # << >>
  <2>v. PICK V, a : V = rd["col1End"][1] /\ a = rd["col1"][1] - 1
    OBVIOUS
  <2>s. PICK S, E : S = g.offsets[V - 1] /\ E = g.offsets[V]
    OBVIOUS
  <2>1. /\ V \in Int /\ a \in Int /\ V \in 1 .. nLists /\ S \in Nat /\ E \in Nat
        /\ S = g.offsets[V - 1] /\ E = g.offsets[V]
        /\ S < E /\ E <= N(g) /\ CopyTurns(g, V, a, rd["col1BlockEnd"], wr)
        /\ rd["col1End"] = <<V, 0>> /\ rd["copyNum"] = <<V, 0>> /\ rd["col1"] = <<a + 1, 0>>
    <3>1. CopyAt(g, rd, wr) /\ copy.pc \in {"copy", "first", "again"}
      BY <1>1, <1>7
    <3>. QED BY <2>v, <2>s, <3>1, CopyInList
  <2>2. /\ a \in S .. E
        /\ rd["col1BlockEnd"] = IF a = E THEN <<a, 1>> ELSE <<a + 1, 0>>
    BY <1>7, <2>1 DEF CopyTurns
  <2>3. CASE a = E
    <3>1. S < a /\ a \in Int /\ rd["col1BlockEnd"] = <<a, 1>>
      BY <2>1, <2>2, <2>3
    <3>2. Head(q["col1BlockEnd"]) = TRUE
      BY <1>1, <1>7, <2>1, <2>3, <3>1, CopyLast
    <3>. QED BY <1>7, <3>2 DEF CopyCan, CanTurn, Ends, CopyWrites, Full
  <2>4. CASE a # E
    <3>1. PICK b : b = a + 1
      OBVIOUS
    <3>2. /\ b \in Int /\ S < b /\ b <= E /\ rd["col1BlockEnd"] = <<b, 0>> /\ rd["col1"] = <<b, 0>>
          /\ b \in Rows(g)
      BY <1>3, <2>1, <2>2, <2>4, <3>1 DEF Rows
    <3>3. /\ Head(q["col1BlockEnd"]) = FALSE
          /\ Passes(Slots(g)["col1BlockEnd"], rd["col1BlockEnd"], <<b, 0>>,
                    IF b = E THEN <<b, 1>> ELSE <<b + 1, 0>>)
      BY <1>1, <1>7, <2>1, <3>2, CopyNotLast
    <3>4. Before(<<b, 0>>, wr["col1BlockEnd"])
      <4>1. \A x : Under(g, rd, wr, "col1BlockEnd", x) => x = <<b, 0>> \/ Before(<<b, 0>>, x)
        <5>1. SUFFICES ASSUME NEW x, Under(g, rd, wr, "col1BlockEnd", x), x # <<b, 0>>
                       PROVE  Before(<<b, 0>>, x)
          OBVIOUS
        <5>2. x \in Place /\ <<b, 0>> \in Place /\ ~Before(x, <<b, 0>>)
          BY <1>2, <3>2, <5>1, SlotsArePlaces DEF Under, Place
        <5>. QED BY <5>1, <5>2, BeforeIsLinear
      <4>2. PICK x : Under(g, rd, wr, "col1BlockEnd", x)
        BY <1>1, <1>2, <1>7, UnderFacts
      <4>3. /\ x \in Place /\ <<b, 0>> \in Place /\ wr["col1BlockEnd"] \in Place
            /\ Before(x, wr["col1BlockEnd"])
        BY <1>2, <3>2, <4>2, SlotsArePlaces DEF Under, Place
      <4>. QED BY <4>1, <4>2, <4>3, BeforeIsLinear
    <3>5. PICK c \in Int : c = core.i + 1
      BY <1>4
    <3>6. q["col1"] # << >>
      <4>1. b < c /\ wr["col1"] = <<c, 0>>
        BY <1>4, <3>2, <3>4, <3>5 DEF Before
      <4>. QED BY <1>1, <3>2, <4>1, ColumnsHeld
    <3>. QED BY <1>7, <3>3, <3>6 DEF CopyCan, CanTurn, More, CopyWrites, Full
  <2>. QED BY <2>3, <2>4
<1>8. CASE copy.pc \in {"copy", "again"}
  BY <1>8 DEF CopyCan, CanTurn, CopyWrites, Full
<1>. QED BY <1>5, <1>6, <1>7, <1>8

(* Where coreControlImpl is, for row1CopyImpl, which reads from it: how    *)
(* many lists it has begun and how many vertices it has sent.              *)
LEMMA CorePlaces ==
  ASSUME NEW g \in Files, NEW rd, NEW wr, CoreAt(g, rd, wr)
  PROVE  \E u, i \in Int :
           /\ wr["col1End"] = <<u, 0>> /\ wr["copyNum"] = <<u, 0>> /\ wr["col1"] = <<i + 1, 0>>
           /\ \/ core.pc = "block" /\ wr["col1BlockEnd"] = <<i, 1>>
              \/ core.pc # "block" /\ wr["col1BlockEnd"] = <<i + 1, 0>>
           /\ \A V \in 0 .. nLists : u <= V => core.pc # "done" /\ i <= g.offsets[V]
           /\ \A V \in 0 .. nLists : V < u => /\ g.offsets[V] <= i
                                              /\ core.pc = "block" /\ V + 1 < u => g.offsets[V] < i
           /\ core.pc = "done" => i = N(g)
<1>1. PICK u : u = rd["offset1"][1]
  OBVIOUS
<1>2. PICK i : i = core.i
  OBVIOUS
<1>3. /\ u \in 0 .. nLists + 1 /\ i \in 0 .. N(g)
      /\ wr["col1End"] = <<u, 0>> /\ wr["copyNum"] = <<u, 0>> /\ wr["col1"] = <<i + 1, 0>>
      /\ wr["col1BlockEnd"] = IF core.pc = "block" THEN <<i, 1>> ELSE <<i + 1, 0>>
      /\ \/ core.pc = "end" /\ u <= nLists /\ i = g.offsets[u]
         \/ /\ core.pc \in {"row", "block"} /\ u \in 1 .. nLists
            /\ g.offsets[u - 1] < g.offsets[u]
            /\ IF core.pc = "row" THEN g.offsets[u - 1] <= i /\ i < g.offsets[u]
               ELSE i = g.offsets[u]
         \/ core.pc = "done" /\ u = nLists + 1 /\ i = N(g)
  BY <1>1, <1>2 DEF CoreAt
<1> DEFINE o == g.offsets
<1>4. /\ nLists \in Nat /\ nLists <= NVertices /\ NVertices \in Nat /\ N(g) \in Nat
      /\ \A v \in 0 .. NVertices : o[v] \in Nat /\ o[v] <= N(g)
      /\ \A v, w \in 0 .. NVertices : v <= w => o[v] <= o[w]
  BY OffsetTypes
<1> HIDE DEF o
<1>5. u \in Int /\ i \in Int
  BY <1>3, <1>4
<1>6. ASSUME NEW V \in 0 .. nLists, u <= V PROVE core.pc # "done" /\ i <= o[V]
  <2>1. u # nLists + 1 /\ u \in 0 .. nLists /\ o[u] <= o[V]
    BY <1>3, <1>4, <1>6
  <2>2. o[u] \in Nat /\ o[V] \in Nat
    BY <1>4, <2>1
  <2>3. i <= o[u]
    BY <1>3, <1>5, <2>1, <2>2 DEF o
  <2>. QED BY <1>3, <1>5, <2>1, <2>2, <2>3
<1>7. ASSUME NEW V \in 0 .. nLists, V < u
      PROVE  /\ o[V] <= i
             /\ core.pc = "block" /\ V + 1 < u => o[V] < i
  <2>1. CASE core.pc = "end"
    <3>1. o[V] <= o[u]
      BY <1>3, <1>4, <1>7, <2>1
    <3>. QED BY <1>3, <2>1, <3>1 DEF o
  <2>2. CASE core.pc \in {"row", "block"}
    <3>1. /\ u - 1 \in 0 .. nLists /\ V <= u - 1
      BY <1>3, <1>4, <1>7, <2>2
    <3>2. o[V] <= o[u - 1] /\ o[V] \in Nat /\ o[u - 1] \in Nat
      BY <1>4, <3>1
    <3>3. o[u - 1] <= i /\ (core.pc = "block" => o[u - 1] < i)
      BY <1>3, <1>5, <2>2, <3>2 DEF o
    <3>. QED BY <1>5, <3>2, <3>3
  <2>3. CASE core.pc = "done"
    BY <1>3, <1>4, <2>3
  <2>. QED BY <1>3, <2>1, <2>2, <2>3
<1>8. core.pc = "done" => i = N(g)
  BY <1>3
<1>. QED BY <1>3, <1>5, <1>6, <1>7, <1>8 DEF o

LEMMA BlockEndAhead ==
  ASSUME NEW g \in Files, NEW rd \in [Names -> Place], NEW wr \in [Names -> Place],
         Flow(g, rd, wr), NEW a \in Int, NEW i \in Int, i <= a,
         rd["col1BlockEnd"] = <<a + 1, 0>>,
         wr["col1BlockEnd"] = <<i, 1>> \/ wr["col1BlockEnd"] = <<i + 1, 0>>
  PROVE  q["col1BlockEnd"] = << >>
<1>1. Slots(g)["col1BlockEnd"] = Blocks(g) /\ "col1BlockEnd" \in Names
  BY SlotFacts DEF Names, Between
<1>2. SUFFICES ASSUME NEW x, Under(g, rd, wr, "col1BlockEnd", x) PROVE FALSE
  BY <1>1, UnderFacts
<1>3. /\ x[1] \in Int /\ (x[2] = 0 \/ x[2] = 1)
      /\ ~Before(x, <<a + 1, 0>>) /\ Before(x, wr["col1BlockEnd"])
  BY <1>1, <1>2 DEF Under, Blocks, Place
<1>4. a + 1 <= x[1]
  BY <1>3 DEF Before
<1>5. x[1] <= i
  BY <1>3 DEF Before
<1>. QED BY <1>3, <1>4, <1>5

(* coreControlImpl never waits for row1CopyImpl while that one waits for   *)
(* it, though it sends a list by two pairs of FIFOs.                       *)
LEMMA CoreFeeds ==
  ASSUME NEW g \in Files, NEW rd \in [Names -> Place], NEW wr \in [Names -> Place],
         NetAt(g, rd, wr), ~CoreCan, ~CopyCan, \A s \in CopyWrites : ~Full(s)
  PROVE  copy.pc = "done"
<1>1. Flow(g, rd, wr) /\ CoreAt(g, rd, wr) /\ CopyAt(g, rd, wr)
  BY DEF NetAt
<1>2. SUFFICES ASSUME copy.pc # "done" PROVE FALSE
  OBVIOUS
<1>3. PICK u, i \in Int :
           /\ wr["col1End"] = <<u, 0>> /\ wr["copyNum"] = <<u, 0>> /\ wr["col1"] = <<i + 1, 0>>
           /\ \/ core.pc = "block" /\ wr["col1BlockEnd"] = <<i, 1>>
              \/ core.pc # "block" /\ wr["col1BlockEnd"] = <<i + 1, 0>>
           /\ \A V \in 0 .. nLists : u <= V => core.pc # "done" /\ i <= g.offsets[V]
           /\ \A V \in 0 .. nLists : V < u => /\ g.offsets[V] <= i
                                              /\ core.pc = "block" /\ V + 1 < u => g.offsets[V] < i
           /\ core.pc = "done" => i = N(g)
  BY <1>1, CorePlaces
<1>4. core.pc = "done" \/ Full("col1End") \/ Full("copyNum") \/ Full("col1") \/ Full("col1BlockEnd")
  BY CoreWaits DEF CoreWrites
<1>5. Full("col1BlockEnd") => q["col1BlockEnd"] # << >>
  BY <1>1, UnderFacts DEF Names, Between
<1>6. nLists \in Nat /\ N(g) \in Nat
  BY SlotsArePlaces
<1>7. PICK j \in Int : j = i + 1
  BY <1>3
<1>8. CASE copy.pc = "end" /\ q["col1End"] = << >>
  <2>1. PICK V, a : /\ V = rd["col1End"][1] /\ a = rd["col1"][1] - 1
    OBVIOUS
  <2>2. /\ V \in 0 .. nLists /\ a = g.offsets[V]
        /\ rd["col1End"] = <<V, 0>> /\ rd["copyNum"] = <<V, 0>> /\ rd["col1"] = <<a + 1, 0>>
        /\ rd["col1BlockEnd"] = <<a + 1, 0>>
    BY <1>1, <1>6, <1>8, <2>1 DEF CopyAt, CopyTurns
  <2>3. V \in Int /\ a \in Int
    BY <1>6, <2>2, OffsetFacts
  <2>4. u <= V
    <3>1. /\ rd["col1End"] = <<V, 0>> /\ wr["col1End"] = <<u, 0>>
          /\ rd["copyNum"] = <<V, 0>> /\ wr["copyNum"] = <<u, 0>>
      BY <1>3, <2>2
    <3>2. V \in 0 .. nLists /\ V < u => q["col1End"] # << >>
      BY <1>1, <2>3, <3>1, ListsHeld
    <3>. QED BY <1>8, <2>2, <2>3, <3>2
  <2>5. core.pc # "done" /\ i <= a
    BY <1>3, <2>2, <2>4
  <2>6. ~Full("col1End") /\ ~Full("copyNum")
    <3>1. /\ rd["col1End"] = <<V, 0>> /\ wr["col1End"] = <<u, 0>>
          /\ rd["copyNum"] = <<V, 0>> /\ wr["copyNum"] = <<u, 0>>
      BY <1>3, <2>2
    <3>2. Full("col1End") \/ Full("copyNum") => V + 1 < u
      BY <1>1, <2>3, <3>1, ListsHeld
    <3>. QED BY <2>3, <2>4, <3>2
  <2>7. ~Full("col1")
    <3>1. PICK b \in Int : b = a + 1
      BY <2>3
    <3>2. rd["col1"] = <<b, 0>> /\ wr["col1"] = <<j, 0>> /\ ~(b + 1 < j)
      BY <1>3, <1>7, <2>2, <2>3, <2>5, <3>1
    <3>. QED BY <1>1, <3>2, ColumnsHeld
  <2>8. q["col1BlockEnd"] = << >>
    BY <1>1, <1>3, <2>2, <2>3, <2>5, BlockEndAhead
  <2>. QED BY <1>4, <1>5, <2>5, <2>6, <2>7, <2>8
<1>9. CASE copy.pc = "first" /\ q["col1BlockEnd"] = << >>
  <2>v. PICK V, a : V = rd["col1End"][1] /\ a = rd["col1"][1] - 1
    OBVIOUS
  <2>s. PICK S, E : S = g.offsets[V - 1] /\ E = g.offsets[V]
    OBVIOUS
  <2>1. /\ V \in Int /\ a \in Int /\ V \in 1 .. nLists /\ S \in Nat /\ E \in Nat
        /\ S = g.offsets[V - 1] /\ E = g.offsets[V]
        /\ S < E /\ E <= N(g) /\ CopyTurns(g, V, a, rd["col1BlockEnd"], wr)
        /\ rd["col1End"] = <<V, 0>> /\ rd["copyNum"] = <<V, 0>> /\ rd["col1"] = <<a + 1, 0>>
    <3>1. CopyAt(g, rd, wr) /\ copy.pc \in {"copy", "first", "again"}
      BY <1>1, <1>9
    <3>. QED BY <2>v, <2>s, <3>1, CopyInList
  <2>2. /\ a \in S .. E
        /\ rd["col1BlockEnd"] = IF a = E THEN <<a, 1>> ELSE <<a + 1, 0>>
    BY <1>9, <2>1 DEF CopyTurns
  <2>3. rd["col1BlockEnd"] \in Blocks(g)
    <3>1. CASE a = E
      <4>1. a \in Rows(g) /\ a \in Closing(g)
        BY <2>1, <3>1, InList
      <4>2. rd["col1BlockEnd"] = <<a, 1>>
        BY <2>2, <3>1
      <4>3. <<a, 1>> \in Place
        BY <2>1 DEF Place
      <4>. QED BY <4>1, <4>2, <4>3 DEF Blocks
    <3>2. CASE a # E
      <4>1. PICK b : b = a + 1
        OBVIOUS
      <4>2. b \in Int /\ b \in Rows(g) /\ rd["col1BlockEnd"] = <<b, 0>>
        BY <1>6, <2>1, <2>2, <3>2, <4>1 DEF Rows
      <4>. QED BY <4>2 DEF Blocks, Place
    <3>. QED BY <3>1, <3>2
  <2>4. ~Before(rd["col1BlockEnd"], wr["col1BlockEnd"])
    <3> DEFINE b == rd["col1BlockEnd"]
    <3>1. "col1BlockEnd" \in Names /\ b \in Slots(g)["col1BlockEnd"] /\ b \in Place
      BY <2>3, SlotFacts DEF Names, Between, Blocks
    <3>2. ~Before(b, b)
      BY <3>1, BeforeIsLinear
    <3>. QED BY <1>1, <1>9, <3>1, <3>2, UnderFacts DEF Under
  <2>5. i <= a /\ (a = E /\ core.pc # "block" => i < a)
    <3>1. CASE a = E
      <4>1. rd["col1BlockEnd"] = <<a, 1>>
        BY <2>2, <3>1
      <4>. QED BY <1>3, <2>1, <2>4, <3>1, <4>1 DEF Before
    <3>2. CASE a # E
      <4>1. rd["col1BlockEnd"] = <<a + 1, 0>>
        BY <2>2, <3>2
      <4>2. wr["col1BlockEnd"] = <<i, 1>> => i <= a
        BY <1>3, <2>1, <2>4, <4>1 DEF Before
      <4>3. wr["col1BlockEnd"] = <<i + 1, 0>> => i <= a
        BY <1>3, <2>1, <2>4, <4>1 DEF Before
      <4>. QED BY <1>3, <3>2, <4>2, <4>3
    <3>. QED BY <3>1, <3>2
  <2>6. core.pc # "done"
    BY <1>3, <1>6, <2>1, <2>2, <2>5
  <2>7. ~(V + 1 < u)
    <3>1. SUFFICES ASSUME V + 1 < u PROVE FALSE
      OBVIOUS
    <3>2. V \in 0 .. nLists /\ V < u
      BY <1>6, <2>1, <3>1
    <3>3. E <= i /\ (core.pc = "block" => E < i)
      BY <1>3, <2>1, <3>1, <3>2
    <3>. QED BY <1>3, <2>1, <2>2, <2>5, <3>3
  <2>8. ~Full("col1End") /\ ~Full("copyNum")
    BY <1>1, <1>3, <2>1, <2>7, ListsHeld
  <2>9. ~Full("col1")
    <3>1. PICK b \in Int : b = a + 1
      BY <2>1
    <3>2. rd["col1"] = <<b, 0>> /\ wr["col1"] = <<j, 0>> /\ ~(b + 1 < j)
      BY <1>3, <1>7, <2>1, <2>5, <3>1
    <3>. QED BY <1>1, <3>2, ColumnsHeld
  <2>. QED BY <1>4, <1>5, <1>9, <2>6, <2>8, <2>9
<1>. QED BY <1>2, <1>8, <1>9, CopyWaits

(* Where row1CopyImpl is, for mergeImpl, which reads from it.              *)
LEMMA CopyPlaces ==
  ASSUME NEW g \in Files, NEW rd \in [Names -> Place], NEW wr \in [Names -> Place],
         CopyAt(g, rd, wr)
  PROVE  \E e, c, k \in Int :
           /\ wr["col1CopyEnd"] = <<e, 0>> /\ \A s \in Copies : wr[s] = <<c, k>>
           /\ (c = e /\ k = 0) \/ c = e - 1
           /\ copy.pc = "done" => c = N(g) + 1 /\ e = N(g) + 2
<1>1. PICK V, a : V = rd["col1End"][1] /\ a = rd["col1"][1] - 1
  OBVIOUS
<1>2. N(g) \in Nat
  BY SlotsArePlaces
<1>3. CASE copy.pc \in {"end", "done"}
  <2>1. /\ a \in 0 .. N(g)
        /\ copy.pc = "done" => a = N(g)
        /\ wr["col1CopyEnd"] = <<IF copy.pc = "end" THEN a + 1 ELSE a + 2, 0>>
        /\ \A s \in Copies : wr[s] = <<a + 1, 0>>
    BY <1>1, <1>3 DEF CopyAt, CopyTurns
  <2>2. PICK e \in Int : e = IF copy.pc = "end" THEN a + 1 ELSE a + 2
    BY <1>2, <2>1
  <2>3. PICK c \in Int : c = a + 1
    BY <1>2, <2>1
  <2>4. /\ wr["col1CopyEnd"] = <<e, 0>> /\ \A s \in Copies : wr[s] = <<c, 0>>
        /\ c = e \/ c = e - 1
        /\ copy.pc = "done" => c = N(g) + 1 /\ e = N(g) + 2
    BY <1>2, <1>3, <2>1, <2>2, <2>3
  <2>. QED BY <2>4
<1>4. CASE copy.pc \in {"copy", "first", "again"}
  <2>s. PICK S, E : S = g.offsets[V - 1] /\ E = g.offsets[V]
    OBVIOUS
  <2>0. /\ V \in Int /\ a \in Int /\ S \in Nat /\ E \in Nat /\ copy.i \in Nat /\ copy.num = E - S
        /\ CopyTurns(g, V, a, rd["col1BlockEnd"], wr)
    BY <1>1, <1>4, <2>s, CopyInList
  <2>p. PICK p \in Int : p = S + copy.i + 1
    BY <2>0
  <2>1. /\ a \in Int /\ S \in Nat /\ E \in Nat /\ copy.i \in Nat /\ copy.num = E - S
        /\ S = g.offsets[V - 1] /\ E = g.offsets[V] /\ p = S + copy.i + 1
        /\ CopyTurns(g, V, a, rd["col1BlockEnd"], wr)
    BY <2>s, <2>0, <2>p
  <2>2. CASE copy.pc = "copy"
    <3>1. wr["col1CopyEnd"] = <<p, 0>> /\ \A s \in Copies : wr[s] = <<p, 0>>
      BY <2>1, <2>2 DEF CopyTurns
    <3>2. p \in Int /\ copy.pc # "done"
      BY <2>p, <2>2
    <3>. QED BY <3>1, <3>2
  <2>3. CASE copy.pc = "first"
    <3>1. wr["col1CopyEnd"] = <<p + 1, 0>> /\ \A s \in Copies : wr[s] = <<p, a + 1>>
      BY <2>1, <2>3 DEF CopyTurns
    <3>2. PICK e, k \in Int : e = p + 1 /\ k = a + 1
      BY <2>1
    <3>. QED BY <2>1, <2>3, <3>1, <3>2
  <2>4. CASE copy.pc = "again"
    <3>1. /\ wr["col1CopyEnd"] = <<p + 1, 0>> /\ \A s \in Copies : wr[s] = <<p, S + copy.j + 1>>
          /\ copy.j \in copy.i + 1 .. copy.num
      BY <2>1, <2>4 DEF CopyTurns
    <3>2. PICK e, k \in Int : e = p + 1 /\ k = S + copy.j + 1
      <4>1. copy.j \in Int
        BY <2>1, <3>1
      <4>. QED BY <2>1, <4>1
    <3>3. /\ wr["col1CopyEnd"] = <<e, 0>> /\ \A s \in Copies : wr[s] = <<p, k>>
          /\ p = e - 1 /\ copy.pc # "done"
      BY <2>1, <2>4, <3>1, <3>2
    <3>. QED BY <3>3
  <2>. QED BY <1>4, <2>2, <2>3, <2>4
<1>. QED BY <1>3, <1>4 DEF CopyAt, CopyTurns

(* What mergeImpl asks for of row1CopyImpl is sent before it waits for     *)
(* room: of the list at p, the vertex and the flag at r.                   *)
LEMMA CopiesAhead ==
  ASSUME NEW g \in Files, NEW rd \in [Names -> Place], NEW wr \in [Names -> Place],
         Flow(g, rd, wr), CopyAt(g, rd, wr), copy.pc = "done" \/ \E s \in CopyWrites : Full(s),
         NEW p \in Kept(g), NEW r \in Int, NEW x \in Int, rd["col1CopyEnd"] = <<x, 0>>,
         \A a \in KeptOrEnd(g) : x <= a => p <= a,
         \A z \in Upper(g, 0) : ~Before(z, rd["col1Copy"]) => z[1] > p \/ (z[1] = p /\ r <= z[2] + 1),
         \A z \in Upper(g, 1) : ~Before(z, rd["col1CopyBlockEnd"]) => z[1] > p \/ (z[1] = p /\ r <= z[2])
  PROVE  \A s \in Copies : Before(<<p, r>>, wr[s])
<1>1. PICK e, c, k \in Int :
           /\ wr["col1CopyEnd"] = <<e, 0>> /\ \A s \in Copies : wr[s] = <<c, k>>
           /\ (c = e /\ k = 0) \/ c = e - 1
           /\ copy.pc = "done" => c = N(g) + 1 /\ e = N(g) + 2
  BY CopyPlaces
<1>2. SUFFICES Before(<<p, r>>, <<c, k>>)
  BY <1>1
<1>3. p \in Int /\ p <= N(g) /\ N(g) \in Nat
  BY SlotsArePlaces DEF Rows
<1>4. CASE copy.pc = "done"
  BY <1>1, <1>3, <1>4 DEF Before
<1>5. CASE Full("col1CopyEnd")
  <2>1. "col1CopyEnd" \in PairEnds
    BY DEF PairEnds
  <2>2. PICK a, b \in Int : a \in KeptOrEnd(g) /\ b \in KeptOrEnd(g) /\ x <= a /\ a < b /\ b < e
    BY <1>1, <1>5, <2>1, FlagsHeld
  <2>3. p < c
    BY <1>1, <1>3, <2>2
  <2>. QED BY <2>3 DEF Before
<1>6. ASSUME NEW s \in Copies, Full(s) PROVE Before(<<p, r>>, <<c, k>>)
  <2>1. /\ s \in Names /\ wr[s] = <<c, k>>
        /\ \/ s = "col1Copy" /\ Slots(g)[s] = Upper(g, 0)
           \/ s = "col1CopyBlockEnd" /\ Slots(g)[s] = Upper(g, 1)
    BY <1>1, SlotFacts DEF Copies, Names, Between
  <2>2. PICK z1, z2 \in Place : /\ Under(g, rd, wr, s, z1) /\ Under(g, rd, wr, s, z2)
                                /\ Before(z1, z2)
    BY <1>6, <2>1, UnderFacts
  <2>3. /\ z1 \in Slots(g)[s] /\ ~Before(z1, rd[s]) /\ Before(z2, <<c, k>>)
    BY <2>1, <2>2 DEF Under
  <2>4. z1[1] \in Int /\ z1[2] \in Int /\ z2[1] \in Int /\ z2[2] \in Int
    BY DEF Place
  <2>5. z1[1] > p \/ (z1[1] = p /\ r <= z1[2] + 1)
    <3>1. CASE s = "col1Copy"
      BY <2>1, <2>3, <3>1
    <3>2. CASE s = "col1CopyBlockEnd"
      <4>1. z1[1] > p \/ (z1[1] = p /\ r <= z1[2])
        BY <2>1, <2>3, <3>2
      <4>. QED BY <2>4, <4>1
    <3>. QED BY <2>1, <3>1, <3>2
  <2>6. z2[1] > p \/ (z2[1] = p /\ r <= z2[2])
    BY <1>3, <2>2, <2>4, <2>5 DEF Before
  <2>. QED BY <1>3, <2>3, <2>4, <2>6 DEF Before
<1>. QED BY <1>4, <1>5, <1>6 DEF CopyWrites, Copies

(* mergeImpl then waits for nothing but the list of the other vertex.      *)
LEMMA MergeWaits ==
  ASSUME NEW g \in Files, NEW rd \in [Names -> Place], NEW wr \in [Names -> Place],
         NetAt(g, rd, wr), ~MergeCan, ~Full("tc"), ~Full("tcEnd"),
         copy.pc = "done" \/ \E s \in CopyWrites : Full(s)
  PROVE  \/ merge.pc = "done"
         \/ /\ merge.pc = "pair" /\ q["row2BlockEnd"] = << >>
            /\ \E p, x \in Int : /\ p \in Kept(g) /\ x <= p
                                 /\ \A a \in Kept(g) : x <= a => p <= a
                                 /\ \A s \in MergeReads : rd[s] = <<x, 0>>
         \/ /\ merge.pc = "turn" /\ (q["row2"] = << >> \/ q["row2BlockEnd"] = << >>)
            /\ \E p, r2 \in Int : /\ p \in Kept(g) /\ OtherStart(g, p) <= r2 /\ r2 < OtherEnd(g, p)
                                  /\ rd["row2"] = <<p, r2>> /\ rd["row2BlockEnd"] = <<p, r2 + 1>>
<1>1. Flow(g, rd, wr) /\ CopyAt(g, rd, wr) /\ MergeAt(g, rd, wr)
  BY DEF NetAt
<1>2. /\ "col1CopyEnd" \in PairEnds /\ {"col1CopyEnd", "col1CopyBlockEnd", "col1Copy"} \subseteq Names
      /\ Slots(g)["col1Copy"] = Upper(g, 0) /\ Slots(g)["col1CopyBlockEnd"] = Upper(g, 1)
      /\ Copies = {"col1CopyBlockEnd", "col1Copy"}
  BY SlotFacts DEF PairEnds, Names, Between, Copies
<1>3. N(g) \in Nat /\ Kept(g) \in SUBSET Rows(g) /\ Kept(g) \in SUBSET Int
      /\ KeptOrEnd(g) \in SUBSET Int /\ Kept(g) \subseteq KeptOrEnd(g)
  BY SlotsArePlaces DEF KeptOrEnd
<1>4. PICK e, c, k \in Int :
           /\ wr["col1CopyEnd"] = <<e, 0>> /\ \A s \in Copies : wr[s] = <<c, k>>
           /\ (c = e /\ k = 0) \/ c = e - 1
           /\ copy.pc = "done" => c = N(g) + 1 /\ e = N(g) + 2
  BY <1>1, CopyPlaces
<1>5. \A j \in {0, 1} : \A z \in Upper(g, j) :
        z[1] \in Int /\ z[2] \in Int /\ z[1] \in Kept(g) /\ z[1] < z[2] /\ 1 <= z[1]
  BY <1>3 DEF Upper, Place, Rows
<1>6. CASE merge.pc = "pair"
  <2>1. PICK x \in Int : x <= N(g) + 1 /\ \A s \in MergeReads : rd[s] = <<x, 0>>
    BY <1>1, <1>6 DEF MergeAt
  <2>2. /\ rd["col1CopyEnd"] = <<x, 0>> /\ rd["col1Copy"] = <<x, 0>>
        /\ rd["col1CopyBlockEnd"] = <<x, 0>>
    BY <2>1 DEF MergeReads
  <2>3. q["col1CopyEnd"] # << >>
    <3>1. CASE copy.pc = "done"
      BY <1>1, <1>2, <1>4, <2>1, <2>2, <3>1, PairsLeft
    <3>2. CASE Full("col1CopyEnd")
      BY <1>1, <1>2, <3>2, UnderFacts
    <3>3. ASSUME NEW s \in Copies, Full(s) PROVE q["col1CopyEnd"] # << >>
      <4>1. /\ s \in Names /\ wr[s] = <<c, k>> /\ rd[s] = <<x, 0>>
            /\ \E j \in {0, 1} : Slots(g)[s] = Upper(g, j)
        BY <1>2, <1>4, <2>2
      <4>2. PICK z \in Place : Under(g, rd, wr, s, z)
        BY <1>1, <3>3, <4>1, UnderFacts
      <4>3. /\ z[1] \in Int /\ z[2] \in Int /\ z[1] \in Kept(g) /\ z[1] < z[2] /\ 1 <= z[1]
            /\ ~Before(z, <<x, 0>>) /\ Before(z, <<c, k>>)
        BY <1>5, <4>1, <4>2 DEF Under
      <4>4. x <= z[1] /\ z[1] < e
        BY <1>4, <4>3 DEF Before
      <4>5. \A a \in KeptOrEnd(g) : x <= a /\ a < e => q["col1CopyEnd"] # << >>
        BY <1>1, <1>2, <1>4, <2>2, FlagsHeld
      <4>. QED BY <1>3, <4>3, <4>4, <4>5
    <3>. QED BY <3>1, <3>2, <3>3 DEF CopyWrites, Copies
  <2>4. PICK p : /\ IsNext(g, x, p)
                 /\ p = N(g) + 1 => Head(q["col1CopyEnd"]) = TRUE
                 /\ p # N(g) + 1 => Head(q["col1CopyEnd"]) = FALSE
    BY <1>1, <1>2, <2>2, <2>3, PairFlag
  <2>5. p # N(g) + 1
    BY <1>6, <2>3, <2>4 DEF MergeCan, CanTurn, Ends, Full
  <2>6. /\ p \in Int /\ p \in Kept(g) /\ x <= p
        /\ \A a \in KeptOrEnd(g) : x <= a => p <= a
    BY <1>3, <2>4, <2>5 DEF IsNext, KeptOrEnd
  <2>7. PICK r \in Int : r = p + 1
    BY <2>6
  <2>8. \A s \in Copies : Before(<<p, r>>, wr[s])
    <3>1. \A z \in Upper(g, 0) : ~Before(z, <<x, 0>>) => z[1] > p \/ (z[1] = p /\ r <= z[2] + 1)
      <4>1. SUFFICES ASSUME NEW z \in Upper(g, 0), ~Before(z, <<x, 0>>)
                     PROVE  z[1] > p \/ (z[1] = p /\ r <= z[2] + 1)
        OBVIOUS
      <4>2. z[1] \in Int /\ z[2] \in Int /\ z[1] \in Kept(g) /\ z[1] < z[2]
        BY <1>5
      <4>3. x <= z[1]
        BY <4>1, <4>2 DEF Before
      <4>4. p <= z[1]
        BY <1>3, <2>6, <4>2, <4>3
      <4>. QED BY <2>6, <2>7, <4>2, <4>4
    <3>2. \A z \in Upper(g, 1) : ~Before(z, <<x, 0>>) => z[1] > p \/ (z[1] = p /\ r <= z[2])
      <4>1. SUFFICES ASSUME NEW z \in Upper(g, 1), ~Before(z, <<x, 0>>)
                     PROVE  z[1] > p \/ (z[1] = p /\ r <= z[2])
        OBVIOUS
      <4>2. z[1] \in Int /\ z[2] \in Int /\ z[1] \in Kept(g) /\ z[1] < z[2]
        BY <1>5
      <4>3. x <= z[1]
        BY <4>1, <4>2 DEF Before
      <4>4. p <= z[1]
        BY <1>3, <2>6, <4>2, <4>3
      <4>. QED BY <2>6, <2>7, <4>2, <4>4
    <3>. QED BY <1>1, <2>2, <2>6, <3>1, <3>2, CopiesAhead
  <2>9. q["col1CopyBlockEnd"] # << >>
    <3>1. p <= ListEnd(g, p) /\ ListEnd(g, p) \in Int
      BY <1>3, <2>6, ListFacts DEF Rows
    <3>2. <<p, r>> \in Upper(g, 1)
      BY <2>6, <2>7, <3>1 DEF Upper, Place
    <3>3. ~Before(<<p, r>>, <<x, 0>>)
      <4>1. 1 <= p
        BY <1>3, <2>6 DEF Rows
      <4>. QED BY <2>6, <2>7, <4>1 DEF Before
    <3>4. Under(g, rd, wr, "col1CopyBlockEnd", <<p, r>>)
      BY <1>2, <2>2, <2>8, <3>2, <3>3 DEF Under
    <3>. QED BY <1>1, <1>2, <3>4, UnderFacts
  <2>10. q["row2BlockEnd"] = << >>
    BY <1>6, <2>3, <2>4, <2>5, <2>9 DEF MergeCan, CanTurn, More
  <2>. QED BY <1>3, <1>6, <2>1, <2>6, <2>10
<1>7. CASE merge.pc = "turn"
  <2>1. PICK p, y, r1, r2 : MergeTurns(g, rd, wr, p, y, r1, r2)
    BY <1>1, <1>7 DEF MergeAt
  <2>2. /\ p \in Kept(g) /\ r1 \in Int /\ r2 \in Int
        /\ rd["col1CopyEnd"] = <<p + 1, 0>>
        /\ rd["col1Copy"] = <<p, r1>> /\ rd["col1CopyBlockEnd"] = <<p, r1 + 1>>
        /\ rd["row2"] = <<p, r2>> /\ rd["row2BlockEnd"] = <<p, r2 + 1>>
        /\ Merged(g, p, r1, r2, merge)
    BY <2>1 DEF MergeTurns
  <2>3. p \in Int /\ p \in 1 .. N(g) /\ ListEnd(g, p) \in Int
        /\ OtherStart(g, p) \in Int /\ OtherEnd(g, p) \in Int
    BY <1>3, <2>2, ListFacts, OtherFacts DEF Rows
  <2>4. /\ merge.end1 = (IF r1 = ListEnd(g, p) + 1 THEN TRUE ELSE FALSE)
        /\ merge.end2 = (IF r2 = OtherEnd(g, p) THEN TRUE ELSE FALSE)
        /\ r1 \in p + 1 .. ListEnd(g, p) + 1 /\ r2 \in OtherStart(g, p) .. OtherEnd(g, p)
    BY <2>2 DEF Merged
  <2>5. ~(merge.end1 /\ merge.end2)
    BY <1>7 DEF MergeCan, CanTurn, Full
  <2>6. ASSUME TakesFirst PROVE q["col1Copy"] # << >> /\ q["col1CopyBlockEnd"] # << >>
    <3>1. r1 <= ListEnd(g, p)
      BY <2>3, <2>4, <2>6 DEF TakesFirst
    <3>2. PICK r, v \in Int : r = r1 + 1 /\ v = p + 1
      BY <2>2, <2>3
    <3>3. \A s \in Copies : Before(<<p, r>>, wr[s])
      <4>1. \A a \in KeptOrEnd(g) : v <= a => p <= a
        BY <1>3, <2>3, <3>2
      <4>2. \A z \in Upper(g, 0) :
              ~Before(z, <<p, r1>>) => z[1] > p \/ (z[1] = p /\ r <= z[2] + 1)
        BY <1>5, <2>2, <2>3, <3>2 DEF Before
      <4>3. \A z \in Upper(g, 1) :
              ~Before(z, <<p, r>>) => z[1] > p \/ (z[1] = p /\ r <= z[2])
        BY <1>5, <2>2, <2>3, <3>2 DEF Before
      <4>4. rd["col1CopyEnd"] = <<v, 0>> /\ rd["col1CopyBlockEnd"] = <<p, r>>
        BY <2>2, <3>2
      <4>. QED BY <1>1, <2>2, <3>2, <4>1, <4>2, <4>3, <4>4, CopiesAhead
    <3>4. <<p, r1>> \in Upper(g, 0) /\ <<p, r>> \in Upper(g, 1)
      BY <2>2, <2>3, <2>4, <3>1, <3>2 DEF Upper, Place
    <3>5. /\ ~Before(<<p, r1>>, <<p, r1>>) /\ ~Before(<<p, r>>, <<p, r>>)
          /\ \A b \in Int \X Int : Before(<<p, r>>, b) => Before(<<p, r1>>, b)
      BY <2>2, <2>3, <3>2 DEF Before
    <3>6. Before(<<p, r1>>, wr["col1Copy"])
      BY <1>2, <1>4, <3>3, <3>5
    <3>7. /\ Under(g, rd, wr, "col1Copy", <<p, r1>>)
          /\ Under(g, rd, wr, "col1CopyBlockEnd", <<p, r>>)
      BY <1>2, <2>2, <3>2, <3>3, <3>4, <3>5, <3>6 DEF Under
    <3>. QED BY <1>1, <1>2, <3>7, UnderFacts
  <2>7. TakesSecond /\ (q["row2"] = << >> \/ q["row2BlockEnd"] = << >>)
    BY <1>7, <2>5, <2>6 DEF MergeCan, CanTurn
  <2>8. OtherStart(g, p) <= r2 /\ r2 < OtherEnd(g, p)
    BY <2>2, <2>3, <2>4, <2>7 DEF TakesSecond
  <2>. QED BY <1>7, <2>2, <2>3, <2>7, <2>8
<1>. QED BY <1>1, <1>6, <1>7 DEF MergeAt

(* While it waits row2ImplPart3 has room for what it sends.                *)
LEMMA MergeRoom ==
  ASSUME NEW g \in Files, NEW rd \in [Names -> Place], NEW wr \in [Names -> Place],
         NetAt(g, rd, wr), ~MergeCan, ~Full("tc"), ~Full("tcEnd"),
         copy.pc = "done" \/ \E s \in CopyWrites : Full(s)
  PROVE  \A s \in BlockWrites : ~Full(s)
<1>1. Flow(g, rd, wr) /\ BlockAt(g, rd, wr) /\ MergeAt(g, rd, wr)
  BY DEF NetAt
<1>2. /\ "row2" \in Names /\ "row2BlockEnd" \in Names /\ "row2" \notin Lists
      /\ "row2BlockEnd" \notin Lists /\ wr["row2"] = wr["row2BlockEnd"]
      /\ Slots(g)["row2"] = Lower(g, 0) /\ Slots(g)["row2BlockEnd"] = Lower(g, 1)
  BY <1>1, SlotFacts DEF Names, Between, Lists, BlockAt
<1>3. Lower(g, 0) \subseteq Lower(g, 1)
  <2>1. SUFFICES ASSUME NEW z \in Lower(g, 0) PROVE z \in Lower(g, 1)
    OBVIOUS
  <2>2. z[1] \in Kept(g) /\ z \in Place /\ OtherStart(g, z[1]) <= z[2]
        /\ z[2] < OtherEnd(g, z[1]) + 0
    BY DEF Lower
  <2>3. OtherEnd(g, z[1]) \in Int /\ z[2] \in Int
    BY <2>2, SlotsArePlaces, OtherFacts DEF Rows, Place
  <2>4. z[2] < OtherEnd(g, z[1]) + 1
    BY <2>2, <2>3
  <2>. QED BY <2>2, <2>4 DEF Lower
<1>4. /\ Full("row2") => q["row2"] # << >>
      /\ Full("row2BlockEnd") => q["row2BlockEnd"] # << >>
  BY <1>1, <1>2, UnderFacts
<1>5. CASE merge.pc = "done"
  <2>1. rd["row2"] = <<N(g) + 2, 0>> /\ rd["row2BlockEnd"] = <<N(g) + 2, 0>>
    BY <1>1, <1>5 DEF MergeAt, MergeReads
  <2>. QED BY <1>1, <1>2, <2>1, PairsOver DEF BlockWrites
<1>6. CASE q["row2BlockEnd"] = << >> /\ rd["row2"] = rd["row2BlockEnd"]
  <2>1. \A z : Under(g, rd, wr, "row2", z) => Under(g, rd, wr, "row2BlockEnd", z)
    BY <1>2, <1>3, <1>6 DEF Under
  <2>2. q["row2"] = << >>
    BY <1>1, <1>2, <1>6, <2>1, UnderFacts
  <2>. QED BY <1>4, <1>6, <2>2 DEF BlockWrites
<1>7. ASSUME q["row2"] = << >> \/ q["row2BlockEnd"] = << >>,
             NEW p \in Kept(g), NEW r2 \in Int, OtherStart(g, p) <= r2, r2 < OtherEnd(g, p),
             rd["row2"] = <<p, r2>>, rd["row2BlockEnd"] = <<p, r2 + 1>>
      PROVE  ~Full("row2") /\ ~Full("row2BlockEnd")
  <2>1. PICK r \in Int : r = r2 + 1
    BY <1>7
  <2>2. /\ p \in Int /\ OtherEnd(g, p) \in Int /\ OtherStart(g, p) \in Int
    BY SlotsArePlaces, OtherFacts DEF Rows
  <2>3. <<p, r2>> \in Lower(g, 0)
    BY <1>7, LowerMembers
  <2>4. <<p, r>> \in Lower(g, 1)
    <3>1. OtherStart(g, p) <= r /\ r <= OtherEnd(g, p)
      BY <1>7, <2>1, <2>2
    <3>. QED BY <3>1, LowerMembers
  <2>5. PICK c, k \in Int : wr["row2"] = <<c, k>> /\ wr["row2BlockEnd"] = <<c, k>>
    <3>1. wr["row2"] \in Place
      BY <1>2
    <3>. QED BY <1>2, <3>1 DEF Place
  <2>6. ~Before(<<p, r>>, <<c, k>>)
    <3>1. ~Before(<<p, r2>>, <<p, r2>>) /\ ~Before(<<p, r>>, <<p, r>>)
          /\ (Before(<<p, r>>, <<c, k>>) => Before(<<p, r2>>, <<c, k>>))
      BY <2>1, <2>2 DEF Before
    <3>2. CASE q["row2"] = << >>
      <4>1. ~Under(g, rd, wr, "row2", <<p, r2>>)
        BY <1>1, <1>2, <3>2, UnderFacts
      <4>. QED BY <1>2, <1>7, <2>3, <2>5, <3>1, <4>1 DEF Under
    <3>3. CASE q["row2BlockEnd"] = << >>
      <4>1. ~Under(g, rd, wr, "row2BlockEnd", <<p, r>>)
        BY <1>1, <1>2, <3>3, UnderFacts
      <4>. QED BY <1>2, <1>7, <2>1, <2>4, <2>5, <3>1, <4>1 DEF Under
    <3>. QED BY <1>7, <3>2, <3>3
  <2>7. q["row2BlockEnd"] = << >>
    <3>1. SUFFICES ASSUME NEW z, Under(g, rd, wr, "row2BlockEnd", z) PROVE FALSE
      BY <1>1, <1>2, UnderFacts
    <3>2. z[1] \in Int /\ z[2] \in Int /\ ~Before(z, <<p, r>>) /\ Before(z, <<c, k>>)
      BY <1>2, <1>7, <2>1, <2>5, <3>1 DEF Under, Lower, Place
    <3>. QED BY <2>2, <2>6, <3>2 DEF Before
  <2>8. ~Full("row2")
    <3>1. SUFFICES ASSUME Full("row2") PROVE FALSE
      OBVIOUS
    <3>2. PICK z1, z2 \in Place : /\ Under(g, rd, wr, "row2", z1) /\ Under(g, rd, wr, "row2", z2)
                                  /\ Before(z1, z2)
      BY <1>1, <1>2, <3>1, UnderFacts
    <3>3. /\ z1[1] \in Int /\ z1[2] \in Int /\ z2[1] \in Int /\ z2[2] \in Int
          /\ ~Before(z1, <<p, r2>>) /\ Before(z2, <<c, k>>)
      BY <1>2, <1>7, <2>5, <3>2 DEF Under, Place
    <3>. QED BY <2>1, <2>2, <2>6, <3>2, <3>3 DEF Before
  <2>. QED BY <1>4, <2>7, <2>8
<1>8. CASE merge.pc # "done"
  <2>1. CASE /\ merge.pc = "pair" /\ q["row2BlockEnd"] = << >>
             /\ \E p, x \in Int : /\ p \in Kept(g) /\ x <= p
                                  /\ \A a \in Kept(g) : x <= a => p <= a
                                  /\ \A s \in MergeReads : rd[s] = <<x, 0>>
    <3>1. rd["row2"] = rd["row2BlockEnd"]
      BY <2>1 DEF MergeReads
    <3>. QED BY <1>6, <2>1, <3>1
  <2>2. CASE /\ merge.pc = "turn" /\ (q["row2"] = << >> \/ q["row2BlockEnd"] = << >>)
             /\ \E p, r2 \in Int : /\ p \in Kept(g) /\ OtherStart(g, p) <= r2 /\ r2 < OtherEnd(g, p)
                                   /\ rd["row2"] = <<p, r2>> /\ rd["row2BlockEnd"] = <<p, r2 + 1>>
    BY <1>7, <2>2 DEF BlockWrites
  <2>. QED BY <1>8, <2>1, <2>2, MergeWaits
<1>. QED BY <1>5, <1>8

LEMMA AllTaken ==
  ASSUME NEW g \in Files, NEW rd \in [Names -> Place], NEW wr \in [Names -> Place],
         Flow(g, rd, wr), NEW s \in Names, NEW b, rd[s] = <<b, 0>>,
         \A y \in Slots(g)[s] : y[1] < b
  PROVE  ~Full(s)
<1>1. \A y \in Slots(g)[s] : Before(y, rd[s])
  BY DEF Before
<1>. QED BY <1>1, UnderFacts DEF Under

(* If no process can take a turn, all have returned: nobody waits for      *)
(* room, from tcAccUnit up, so nobody waits for data, from the burst       *)
(* readers down.                                                           *)
LEMMA NobodyWaits ==
  ASSUME NEW g \in Files, NEW rd \in [Names -> Place], NEW wr \in [Names -> Place],
         NetAt(g, rd, wr),
         ~CoreCan, ~CopyCan, ~ReduceCan, ~PairsCan, ~AddrCan, ~LoadCan, ~BlockCan, ~MergeCan, ~AccCan
  PROVE  Done
<1>1. /\ Flow(g, rd, wr) /\ CoreAt(g, rd, wr) /\ CopyAt(g, rd, wr) /\ ReduceAt(g, rd, wr)
      /\ PairsAt(g, rd, wr) /\ AddrAt(g, rd, wr) /\ LoadAt(g, rd, wr) /\ BlockAt(g, rd, wr)
      /\ MergeAt(g, rd, wr) /\ AccAt(g, rd, wr)
  BY DEF NetAt
<1>2. N(g) \in Nat /\ N(g) + 2 \in Int /\ N(g) + 1 \in Int
  BY SlotsArePlaces
<1>3. q["tcEnd"] = << >> /\ ~Full("tc") /\ ~Full("tcEnd")
  BY AccWaits
<1>4. copy.pc = "done" \/ \E s \in CopyWrites : Full(s)
  BY CoreFeeds
<1>5. \A s \in BlockWrites : ~Full(s)
  BY <1>3, <1>4, MergeRoom
<1>6. \A s \in AddrWrites : ~Full(s)
  BY <1>5, AddrRoom
<1>7. \A s \in PairsWrites : ~Full(s)
  BY <1>6, AddrWaits DEF AddrReads, PairsWrites
<1>8. \A s \in ReduceWrites : ~Full(s)
  BY <1>7, PairsWaits DEF PairsReads, ReduceWrites
<1>9. reduce.pc = "done"
  BY <1>8, ReduceWaits
<1>10. pairs.pc = "done"
  <2>1. wr["row1ReduceEnd"] = <<N(g) + 2, 0>>
    BY <1>1, <1>9 DEF ReduceAt
  <2>2. SUFFICES ASSUME pairs.pc # "done" PROVE FALSE
    OBVIOUS
  <2>3. PICK x \in Int : x <= N(g) + 1 /\ rd["row1ReduceEnd"] = <<x, 0>>
    BY <1>1, <2>2 DEF PairsAt, PairsReads
  <2>4. q["row1ReduceEnd"] # << >>
    BY <1>1, <2>1, <2>3, PairsLeft DEF PairEnds
  <2>. QED BY <1>7, <2>2, <2>4, PairsWaits
<1>11. addr.pc = "done"
  <2>1. wr["offset2End"] = <<N(g) + 2, 0>>
    BY <1>1, <1>10 DEF PairsAt, PairsWrites
  <2>2. SUFFICES ASSUME addr.pc # "done" PROVE FALSE
    OBVIOUS
  <2>3. addr.pc = "end" /\ q["offset2End"] = << >>
    BY <1>6, <2>2, AddrWaits
  <2>4. PICK x \in Int : x <= N(g) + 1 /\ rd["offset2End"] = <<x, 0>>
    BY <1>1, <2>3 DEF AddrAt, AddrReads
  <2>. QED BY <1>1, <2>1, <2>3, <2>4, PairsLeft DEF PairEnds
<1>12. wr["row2DistEnd"] = <<N(g) + 2, 0>> /\ wr["row2AddrEnd"] = <<N(g) + 2, 0>>
  BY <1>1, <1>11 DEF AddrAt, Distances, Addresses
<1>13. load.pc = "done"
  <2>1. SUFFICES ASSUME load.pc # "done" PROVE FALSE
    OBVIOUS
  <2>2. q["row2AddrEnd"] = << >> /\ ~Before(<<N(g) + 1, 0>>, rd["row2AddrEnd"])
    BY <1>5, <2>1, BlockWaits, LoadWaits
  <2>3. /\ "row2AddrEnd" \in Names /\ <<N(g) + 1, 0>> \in Slots(g)["row2AddrEnd"]
    BY SlotFacts DEF Names, Between
  <2>4. Before(<<N(g) + 1, 0>>, wr["row2AddrEnd"])
    BY <1>2, <1>12 DEF Before
  <2>. QED BY <1>1, <2>2, <2>3, <2>4, UnderFacts DEF Under
<1>14. block.pc = "done"
  <2>1. CASE block.pc = "end" /\ q["row2DistEnd"] = << >>
    <3>1. PICK x \in Int : x <= N(g) + 1 /\ rd["row2DistEnd"] = <<x, 0>>
      BY <1>1, <2>1 DEF BlockAt
    <3>. QED BY <1>1, <1>12, <2>1, <3>1, PairsLeft DEF PairEnds
  <2>2. CASE block.pc = "row" /\ block.left > 0 /\ q["row2Continue"] = << >>
    <3> DEFINE z == rd["row2Continue"]
    <3>1. z \in Lower(g, 0) /\ z \in Place /\ ~Before(z, z)
      BY <1>1, <2>2, BlockNext, LowerFacts, BeforeIsLinear
    <3>2. Before(z, wr["row2Continue"])
      BY <1>1, <1>13, <3>1 DEF LoadAt
    <3>3. "row2Continue" \in Names /\ z \in Slots(g)["row2Continue"]
      BY <3>1, SlotFacts DEF Names, Between
    <3>. QED BY <1>1, <2>2, <3>1, <3>2, <3>3, UnderFacts DEF Under
  <2>. QED BY <1>5, <2>1, <2>2, BlockWaits
<1>15. wr["row2"] = <<N(g) + 2, 0>> /\ wr["row2BlockEnd"] = <<N(g) + 2, 0>>
  BY <1>1, <1>14 DEF BlockAt
<1>16. merge.pc = "done"
  <2>1. /\ "row2" \in Names /\ "row2BlockEnd" \in Names
        /\ Slots(g)["row2"] = Lower(g, 0) /\ Slots(g)["row2BlockEnd"] = Lower(g, 1)
    BY SlotFacts DEF Names, Between
  <2>2. \A p \in Kept(g) : /\ p \in Int /\ p < N(g) + 2 /\ p \in 1 .. N(g)
                           /\ OtherStart(g, p) \in Nat /\ OtherEnd(g, p) \in Int
                           /\ OtherStart(g, p) <= OtherEnd(g, p)
    BY <1>2, SlotsArePlaces, OtherFacts DEF Rows
  <2>3. CASE /\ merge.pc = "pair" /\ q["row2BlockEnd"] = << >>
             /\ \E p, x \in Int : /\ p \in Kept(g) /\ x <= p
                                  /\ \A a \in Kept(g) : x <= a => p <= a
                                  /\ \A s \in MergeReads : rd[s] = <<x, 0>>
    <3>1. PICK p, x \in Int : p \in Kept(g) /\ x <= p /\ rd["row2BlockEnd"] = <<x, 0>>
      BY <2>3 DEF MergeReads
    <3>2. PICK r \in Nat : r = OtherStart(g, p) /\ r <= OtherEnd(g, p)
      BY <2>2, <3>1
    <3>3. <<p, r>> \in Lower(g, 1)
      BY <3>1, <3>2, LowerMembers
    <3>4. ~Before(<<p, r>>, <<x, 0>>) /\ Before(<<p, r>>, <<N(g) + 2, 0>>)
      BY <1>2, <2>2, <3>1, <3>2 DEF Before
    <3>. QED BY <1>1, <1>15, <2>1, <2>3, <3>1, <3>3, <3>4, UnderFacts DEF Under
  <2>4. CASE /\ merge.pc = "turn" /\ (q["row2"] = << >> \/ q["row2BlockEnd"] = << >>)
             /\ \E p, r2 \in Int : /\ p \in Kept(g) /\ OtherStart(g, p) <= r2 /\ r2 < OtherEnd(g, p)
                                   /\ rd["row2"] = <<p, r2>> /\ rd["row2BlockEnd"] = <<p, r2 + 1>>
    <3>1. PICK p, r2 \in Int : /\ p \in Kept(g) /\ OtherStart(g, p) <= r2 /\ r2 < OtherEnd(g, p)
                               /\ rd["row2"] = <<p, r2>> /\ rd["row2BlockEnd"] = <<p, r2 + 1>>
      BY <2>4
    <3>2. PICK r \in Int : r = r2 + 1
      BY <3>1
    <3>3. OtherStart(g, p) <= r /\ r <= OtherEnd(g, p)
      BY <2>2, <3>1, <3>2
    <3>4. <<p, r2>> \in Lower(g, 0) /\ <<p, r>> \in Lower(g, 1)
      BY <3>1, <3>3, LowerMembers
    <3>5. /\ ~Before(<<p, r2>>, <<p, r2>>) /\ Before(<<p, r2>>, <<N(g) + 2, 0>>)
          /\ ~Before(<<p, r>>, <<p, r>>) /\ Before(<<p, r>>, <<N(g) + 2, 0>>)
      BY <1>2, <2>2, <3>1 DEF Before
    <3>6. q["row2"] # << >>
      BY <1>1, <1>15, <2>1, <3>1, <3>4, <3>5, UnderFacts DEF Under
    <3>7. q["row2BlockEnd"] # << >>
      BY <1>1, <1>15, <2>1, <3>1, <3>2, <3>4, <3>5, UnderFacts DEF Under
    <3>. QED BY <2>4, <3>6, <3>7
  <2>. QED BY <1>3, <1>4, <2>3, <2>4, MergeWaits
<1>17. acc.pc = "done"
  <2>1. wr["tcEnd"] = <<N(g) + 2, 0>>
    BY <1>1, <1>16 DEF MergeAt, MergeWrites
  <2>2. SUFFICES ASSUME acc.pc # "done" PROVE FALSE
    OBVIOUS
  <2>3. PICK x \in Int : x <= N(g) + 1 /\ rd["tcEnd"] = <<x, 0>>
    BY <1>1, <2>2 DEF AccAt
  <2>. QED BY <1>1, <1>3, <2>1, <2>3, PairsLeft DEF PairEnds
<1>18. copy.pc = "done"
  <2>1. ASSUME NEW s \in CopyWrites PROVE ~Full(s)
    <3>1. rd[s] = <<N(g) + 2, 0>> /\ s \in Names /\ s \notin Lists
      BY <1>1, <1>16 DEF MergeAt, MergeReads, CopyWrites, Names, Between, Lists
    <3>. QED BY <1>1, <3>1, PairsOver
  <2>. QED BY <2>1, CoreFeeds
<1>19. core.pc = "done"
  <2>1. /\ rd["col1End"] = <<nLists + 1, 0>> /\ rd["copyNum"] = <<nLists + 1, 0>>
        /\ rd["col1"] = <<N(g) + 1, 0>> /\ rd["col1BlockEnd"] = <<N(g) + 1, 0>>
    <3>1. ~CopyTurns(g, rd["col1End"][1], rd["col1"][1] - 1, rd["col1BlockEnd"], wr)
      BY <1>18 DEF CopyTurns
    <3>2. rd["col1End"][1] = nLists + 1 /\ rd["col1"][1] - 1 = N(g)
      BY <1>1, <1>18, <3>1 DEF CopyAt
    <3>. QED BY <1>1, <3>1, <3>2 DEF CopyAt
  <2>2. CoreWrites \subseteq Names
    BY CoreNames
  <2>3. ~Full("col1End") /\ ~Full("copyNum")
    BY <1>1, <2>1, <2>2, SlotBounds, AllTaken DEF CoreWrites, Lists
  <2>4. ~Full("col1") /\ ~Full("col1BlockEnd")
    BY <1>1, <2>1, <2>2, SlotBounds, AllTaken DEF CoreWrites
  <2>. QED BY <2>3, <2>4, CoreWaits DEF CoreWrites
<1>. QED BY <1>9, <1>10, <1>11, <1>13, <1>14, <1>16, <1>17, <1>18, <1>19 DEF Done

LEMMA NetNeverWaits ==
  ASSUME Net
  PROVE  NoCircularWait
<1>1. PICK g \in Files : /\ off = g.offsets /\ rows = g.columns
                         /\ \E rd, wr \in [Names -> Place] : NetAt(g, rd, wr)
  BY DEF Net
<1>2. PICK rd \in [Names -> Place], wr \in [Names -> Place] : NetAt(g, rd, wr)
  BY <1>1
<1>. QED BY <1>2, NobodyWaits DEF NoCircularWait

(* The nine processes of triangleCount never all wait for one another,     *)
(* though the lists fork over two paths that mergeImpl joins: until the    *)
(* kernel returns one of them can take a turn, for every graph whose       *)
(* offsets fit the words read and every depth of the FIFOs from two on.    *)
THEOREM NeverAllWait ==
  ASSUME LastWordHeld
  PROVE  Spec => []NoCircularWait
<1>1. Spec => []Net
  BY NetHolds
<1>2. Net => NoCircularWait
  BY NetNeverWaits
<1>. QED BY <1>1, <1>2, PTL
=============================================================================
