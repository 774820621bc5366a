----------------------- MODULE TriangleDataflowProofs -----------------------
(***************************************************************************)
(* The triangle counter of acc_fpga for every graph, every depth of the    *)
(* FIFOs and every order in which the processes take their turns.          *)
(*                                                                         *)
(* What is sent through a FIFO during a call depends on the graph alone:   *)
(* each FIFO has a set of slots, in the order in which they are sent, and  *)
(* a value for each.  Its writer and its reader are each before some slot, *)
(* and the FIFO holds the slots from the reader's to the writer's.  What a *)
(* process has done is thus said by its own variable and its own places,   *)
(* and a turn of it is looked at without the others.                       *)
(***************************************************************************)
EXTENDS TriangleDataflow, FiniteSetTheorems, WellFoundedInduction, TLAPS

(* Slots and places are pairs of numbers, ordered by their first and then  *)
(* by their second.                                                        *)
Place == Int \X Int
Before(a, b) == a[1] < b[1] \/ (a[1] = b[1] /\ a[2] < b[2])

(* The sequence holds, for the slots of S in their order, what f says.     *)
Carries(seq, S, f) ==
  /\ \E V : seq \in Seq(V)
  /\ \E t \in [1 .. Len(seq) -> S] :
       /\ \A x \in S : \E i \in 1 .. Len(seq) : t[i] = x
       /\ \A i, j \in 1 .. Len(seq) : i < j => Before(t[i], t[j])
       /\ \A i \in 1 .. Len(seq) : seq[i] = f[t[i]]

(* A FIFO whose reader is at r and whose writer is at w.                   *)
Holds(seq, S, f, r, w) ==
  /\ Carries(seq, {x \in S : ~Before(x, r) /\ Before(x, w)}, f)
  /\ \A x \in S : Before(x, r) => Before(x, w)

(* From r to r2 the slot x is passed and no other.                         *)
Passes(S, r, x, r2) ==
  /\ x \in S /\ ~Before(x, r)
  /\ \A y \in S : Before(y, r2) <=> Before(y, r) \/ y = x

(* From r to r2 no slot is passed.                                         *)
Rests(S, r, r2) == \A y \in S : Before(y, r) <=> Before(y, r2)

LEMMA BeforeIsLinear ==
  ASSUME NEW a \in Place, NEW b \in Place
  PROVE  /\ ~Before(a, a)
         /\ a = b \/ Before(a, b) \/ Before(b, a)
         /\ ~(Before(a, b) /\ Before(b, a))
         /\ \A c \in Place : Before(a, b) /\ Before(b, c) => Before(a, c)
BY DEF Place, Before

LEMMA CarriesNothing ==
  ASSUME NEW seq, NEW S, NEW f, Carries(seq, S, f)
  PROVE  seq = << >> <=> S = {}
<1>1. PICK V : seq \in Seq(V)
  BY DEF Carries
<1>2. PICK t \in [1 .. Len(seq) -> S] : \A x \in S : \E i \in 1 .. Len(seq) : t[i] = x
  BY DEF Carries
<1>3. seq = << >> => S = {}
  BY <1>2
<1>4. ASSUME S = {} PROVE seq = << >>
  <2>1. \A i \in 1 .. Len(seq) : t[i] \in {}
    BY <1>2, <1>4
  <2>2. Len(seq) = 0
    BY <1>1, <2>1
  <2>. QED BY <1>1, <2>2
<1>. QED BY <1>3, <1>4

LEMMA CarriesEmpty ==
  ASSUME NEW f PROVE Carries(<< >>, {}, f)
<1>1. << >> \in Seq({}) /\ 1 .. Len(<< >>) = {}
  OBVIOUS
<1>2. [i \in {} |-> 0] \in [1 .. Len(<< >>) -> {}]
  BY <1>1
<1>3. \E t \in [1 .. Len(<< >>) -> {}] :
        /\ \A x \in {} : \E i \in 1 .. Len(<< >>) : t[i] = x
        /\ \A i, j \in 1 .. Len(<< >>) : i < j => Before(t[i], t[j])
        /\ \A i \in 1 .. Len(<< >>) : << >>[i] = f[t[i]]
  BY <1>1, <1>2
<1>. QED BY <1>1, <1>3 DEF Carries

(* A value for a slot after all others is sent.                            *)
LEMMA Sent ==
  ASSUME NEW seq, NEW S, NEW f, Carries(seq, S, f), NEW x,
         \A y \in S : Before(y, x)
  PROVE  Carries(Append(seq, f[x]), S \cup {x}, f)
<1>1. PICK V : seq \in Seq(V)
  BY DEF Carries
<1>2. PICK t \in [1 .. Len(seq) -> S] :
        /\ \A y \in S : \E i \in 1 .. Len(seq) : t[i] = y
        /\ \A i, j \in 1 .. Len(seq) : i < j => Before(t[i], t[j])
        /\ \A i \in 1 .. Len(seq) : seq[i] = f[t[i]]
  BY DEF Carries
<1> DEFINE n == Len(seq)
           u == [i \in 1 .. n + 1 |-> IF i = n + 1 THEN x ELSE t[i]]
           new == Append(seq, f[x])
<1>3. n \in Nat /\ seq \in Seq(V \cup {f[x]})
  BY <1>1
<1>4. /\ new \in Seq(V \cup {f[x]}) /\ Len(new) = n + 1 /\ new[n + 1] = f[x]
      /\ \A i \in 1 .. n : new[i] = seq[i]
  BY <1>3
<1>5. u \in [1 .. Len(new) -> S \cup {x}]
  BY <1>3, <1>4
<1> HIDE DEF new
<1>6. \A y \in S \cup {x} : \E i \in 1 .. Len(new) : u[i] = y
  <2> SUFFICES ASSUME NEW y \in S \cup {x} PROVE \E i \in 1 .. n + 1 : u[i] = y
    BY <1>4
  <2>1. CASE y = x
    <3>1. n + 1 \in 1 .. n + 1 /\ u[n + 1] = x
      BY <1>3
    <3>. QED BY <2>1, <3>1
  <2>2. CASE y \in S
    <3>1. PICK i \in 1 .. n : t[i] = y
      BY <1>2, <2>2
    <3>2. i \in 1 .. n + 1 /\ u[i] = y
      BY <1>3, <3>1
    <3>. QED BY <3>2
  <2>. QED BY <2>1, <2>2
<1>7. ASSUME NEW i \in 1 .. Len(new), NEW j \in 1 .. Len(new), i < j PROVE Before(u[i], u[j])
  <2>1. i \in 1 .. n /\ u[i] = t[i] /\ t[i] \in S
    BY <1>3, <1>4, <1>7, SMTT(30)
  <2>2. CASE j = n + 1
    BY <1>3, <2>1, <2>2
  <2>3. CASE j # n + 1
    <3>1. j \in 1 .. n /\ u[j] = t[j]
      BY <1>3, <1>4, <2>3
    <3>. QED BY <1>2, <1>7, <2>1, <3>1
  <2>. QED BY <2>2, <2>3
<1>8. ASSUME NEW i \in 1 .. Len(new) PROVE new[i] = f[u[i]]
  <2>1. CASE i = n + 1
    BY <1>3, <1>4, <2>1
  <2>2. CASE i # n + 1
    <3>1. i \in 1 .. n /\ u[i] = t[i]
      BY <1>3, <1>4, <2>2
    <3>. QED BY <1>2, <1>4, <3>1
  <2>. QED BY <2>1, <2>2
<1> HIDE DEF u
<1>. QED BY <1>4, <1>5, <1>6, <1>7, <1>8 DEF Carries, new

(* The value taken is that of the first slot.                              *)
LEMMA Taken ==
  ASSUME NEW seq, NEW S \in SUBSET Place, NEW f, Carries(seq, S, f), seq # << >>
  PROVE  \E x \in S : /\ Head(seq) = f[x]
                      /\ Carries(Tail(seq), S \ {x}, f)
                      /\ \A y \in S : y = x \/ Before(x, y)
<1>1. PICK V : seq \in Seq(V)
  BY DEF Carries
<1>2. PICK t \in [1 .. Len(seq) -> S] :
        /\ \A y \in S : \E i \in 1 .. Len(seq) : t[i] = y
        /\ \A i, j \in 1 .. Len(seq) : i < j => Before(t[i], t[j])
        /\ \A i \in 1 .. Len(seq) : seq[i] = f[t[i]]
  BY DEF Carries
<1> DEFINE n == Len(seq)
           x == t[1]
           u == [i \in 1 .. n - 1 |-> t[i + 1]]
           rest == Tail(seq)
<1>3. n \in Nat /\ n > 0 /\ 1 \in 1 .. n /\ Head(seq) = seq[1]
  BY <1>1
<1>4. /\ rest \in Seq(V) /\ Len(rest) = n - 1
      /\ \A i \in 1 .. n - 1 : rest[i] = seq[i + 1]
  BY <1>1, <1>3
<1> HIDE DEF rest
<1>5. x \in S /\ Head(seq) = f[x]
  BY <1>2, <1>3
<1>6. \A i \in 1 .. n - 1 : i + 1 \in 1 .. n /\ 1 < i + 1 /\ u[i] = t[i + 1]
  BY <1>3
<1>7. \A i \in 1 .. n - 1 : Before(x, u[i]) /\ u[i] \in S \ {x}
  <2>1. \A i \in 1 .. n - 1 : Before(x, u[i]) /\ u[i] \in S
    BY <1>2, <1>3, <1>6
  <2>2. x \in Place /\ ~Before(x, x)
    BY <1>5, BeforeIsLinear
  <2>. QED BY <2>1, <2>2
<1>8. u \in [1 .. n - 1 -> S \ {x}]
  BY <1>7
<1>9. \A y \in S \ {x} : \E i \in 1 .. n - 1 : u[i] = y
  <2> SUFFICES ASSUME NEW y \in S \ {x} PROVE \E i \in 1 .. n - 1 : u[i] = y
    OBVIOUS
  <2>1. PICK i \in 1 .. n : t[i] = y
    BY <1>2
  <2>2. i # 1
    BY <2>1
  <2>3. i - 1 \in 1 .. n - 1 /\ u[i - 1] = y
    BY <1>3, <2>1, <2>2
  <2>. QED BY <2>3
<1>10. \A i, j \in 1 .. n - 1 : i < j => Before(u[i], u[j])
  BY <1>2, <1>3, <1>6
<1>11. \A i \in 1 .. n - 1 : rest[i] = f[u[i]]
  BY <1>2, <1>4, <1>6
<1> HIDE DEF u, n
<1>12. Carries(rest, S \ {x}, f)
  <2>1. \E W : rest \in Seq(W)
    BY <1>4
  <2> DEFINE m == Len(rest)
  <2>2. m = n - 1
    BY <1>4
  <2>3. /\ u \in [1 .. m -> S \ {x}]
        /\ \A y \in S \ {x} : \E i \in 1 .. m : u[i] = y
        /\ \A i, j \in 1 .. m : i < j => Before(u[i], u[j])
        /\ \A i \in 1 .. m : rest[i] = f[u[i]]
    BY <2>2, <1>8, <1>9, <1>10, <1>11
  <2>. QED BY <2>1, <2>3 DEF Carries
<1>13. \A y \in S : y = x \/ Before(x, y)
  BY <1>7, <1>9
<1>. QED BY <1>5, <1>12, <1>13 DEF rest
-----------------------------------------------------------------------------
(* What a turn does to a FIFO.                                             *)
LEMMA Took ==
  ASSUME NEW seq, NEW S \in SUBSET Place, NEW f, NEW r \in Place, NEW w \in Place,
         NEW x, NEW r2 \in Place,
         Holds(seq, S, f, r, w), seq # << >>, Passes(S, r, x, r2)
  PROVE  Head(seq) = f[x] /\ Before(x, w) /\ Holds(Tail(seq), S, f, r2, w)
<1> DEFINE C == {y \in S : ~Before(y, r) /\ Before(y, w)}
           D == {y \in S : ~Before(y, r2) /\ Before(y, w)}
<1>1. Carries(seq, C, f) /\ C \in SUBSET Place
  BY DEF Holds
<1>2. PICK z \in C : /\ Head(seq) = f[z]
                     /\ Carries(Tail(seq), C \ {z}, f)
                     /\ \A y \in C : y = z \/ Before(z, y)
  BY <1>1, Taken
<1>3. x \in Place /\ z \in Place /\ z \in S /\ x \in S /\ Before(z, w)
  BY <1>2 DEF Passes
<1>4. z = x
  <2> SUFFICES ASSUME z # x PROVE FALSE
    OBVIOUS
  <2>1. ~Before(z, r2) /\ Before(x, r2)
    BY <1>2, <1>3 DEF Passes
  <2>2. Before(x, z)
    BY <1>3, <2>1, BeforeIsLinear
  <2>3. Before(x, w)
    BY <1>3, <2>2, BeforeIsLinear
  <2>4. x \in C
    BY <2>3 DEF Passes
  <2>. QED BY <1>2, <1>3, <2>2, <2>4, BeforeIsLinear
<1>5. D = C \ {x}
  BY DEF Passes
<1>6. \A y \in S : Before(y, r2) => Before(y, w)
  BY <1>3, <1>4 DEF Passes, Holds
<1>. QED BY <1>2, <1>3, <1>4, <1>5, <1>6 DEF Holds

LEMMA Put ==
  ASSUME NEW seq, NEW S \in SUBSET Place, NEW f, NEW r \in Place, NEW w \in Place,
         NEW x, NEW w2 \in Place, Holds(seq, S, f, r, w), Passes(S, w, x, w2)
  PROVE  Holds(Append(seq, f[x]), S, f, r, w2)
<1> DEFINE C == {y \in S : ~Before(y, r) /\ Before(y, w)}
           D == {y \in S : ~Before(y, r) /\ Before(y, w2)}
<1>1. Carries(seq, C, f)
  BY DEF Holds
<1>2. x \in Place /\ x \in S /\ ~Before(x, w) /\ ~Before(x, r)
  BY DEF Passes, Holds
<1>3. D = C \cup {x}
  BY <1>2 DEF Passes
<1>4. ASSUME NEW y \in C PROVE Before(y, x)
  <2>1. y \in Place /\ Before(y, w)
    OBVIOUS
  <2>. QED BY <1>2, <2>1, BeforeIsLinear
<1>5. Carries(Append(seq, f[x]), C \cup {x}, f)
  BY <1>1, <1>4, Sent
<1>. QED BY <1>3, <1>5 DEF Holds, Passes

LEMMA Unmoved ==
  ASSUME NEW seq, NEW S, NEW f, NEW r, NEW w, NEW r2, NEW w2,
         Holds(seq, S, f, r, w), Rests(S, r, r2), Rests(S, w, w2)
  PROVE  Holds(seq, S, f, r2, w2)
<1>1. {y \in S : ~Before(y, r) /\ Before(y, w)} = {y \in S : ~Before(y, r2) /\ Before(y, w2)}
  BY DEF Rests
<1>. QED BY <1>1 DEF Holds, Rests

(* The next slot, when the reader does not know which it is.               *)
LEMMA Front ==
  ASSUME NEW seq, NEW S \in SUBSET Place, NEW f, NEW r \in Place, NEW w \in Place,
         Holds(seq, S, f, r, w), seq # << >>
  PROVE  \E x \in S : /\ ~Before(x, r) /\ Before(x, w) /\ Head(seq) = f[x]
                      /\ \A y \in S : Before(y, r) \/ y = x \/ Before(x, y)
<1> DEFINE C == {y \in S : ~Before(y, r) /\ Before(y, w)}
<1>1. Carries(seq, C, f) /\ C \in SUBSET Place
  BY DEF Holds
<1>2. PICK x \in C : /\ Head(seq) = f[x]
                     /\ \A y \in C : y = x \/ Before(x, y)
  BY <1>1, Taken
<1>3. ASSUME NEW y \in S, ~Before(y, r), y # x PROVE Before(x, y)
  <2>1. CASE Before(y, w)
    BY <1>2, <1>3, <2>1
  <2>2. CASE ~Before(y, w)
    <3>1. x \in Place /\ y \in Place /\ Before(x, w)
      BY <1>2
    <3>. QED BY <2>2, <3>1, BeforeIsLinear
  <2>. QED BY <2>1, <2>2
<1>. QED BY <1>2, <1>3

LEMMA NothingAhead ==
  ASSUME NEW seq, NEW S, NEW f, NEW r, NEW w, Holds(seq, S, f, r, w),
         \A y \in S : Before(y, r)
  PROVE  seq = << >>
<1>1. {y \in S : ~Before(y, r) /\ Before(y, w)} = {}
  OBVIOUS
<1>2. Carries(seq, {y \in S : ~Before(y, r) /\ Before(y, w)}, f)
  BY DEF Holds
<1>. QED BY <1>1, <1>2, CarriesNothing

(* Slots with one number, and the places right before and after one.       *)
Flat(Q) == Q \X {0}

LEMMA FlatSlots ==
  ASSUME NEW Q \in SUBSET Int
  PROVE  /\ Flat(Q) \in SUBSET Place
         /\ \A p \in Q, x \in Int :
              x <= p /\ (\A y \in Q : x <= y => p <= y)
                => Passes(Flat(Q), <<x, 0>>, <<p, 0>>, <<p + 1, 0>>)
         /\ \A x, y \in Int : Before(<<x, 0>>, <<y, 0>>) <=> x < y
<1>1. ASSUME NEW p \in Q, NEW x \in Int, x <= p, \A y \in Q : x <= y => p <= y
      PROVE  Passes(Flat(Q), <<x, 0>>, <<p, 0>>, <<p + 1, 0>>)
  <2>1. <<p, 0>> \in Flat(Q) /\ ~Before(<<p, 0>>, <<x, 0>>)
    BY <1>1 DEF Flat, Before
  <2>2. ASSUME NEW y \in Q
        PROVE  Before(<<y, 0>>, <<p + 1, 0>>) <=> Before(<<y, 0>>, <<x, 0>>) \/ <<y, 0>> = <<p, 0>>
    BY <1>1 DEF Before
  <2>3. ASSUME NEW z \in Flat(Q) PROVE \E y \in Q : z = <<y, 0>>
    <3>1. z[1] \in Q /\ z = <<z[1], 0>>
      BY DEF Flat
    <3>. QED BY <3>1
  <2>. QED BY <2>1, <2>2, <2>3 DEF Passes
<1>2. ASSUME NEW z \in Flat(Q) PROVE z \in Place
  <2>1. z[1] \in Q /\ z = <<z[1], 0>>
    BY DEF Flat
  <2>2. <<z[1], 0>> \in Int \X Int
    BY <2>1
  <2>. QED BY <2>1, <2>2 DEF Place
<1>3. \A x, y \in Int : Before(<<x, 0>>, <<y, 0>>) <=> x < y
  BY DEF Before
<1>. QED BY <1>1, <1>2, <1>3
-----------------------------------------------------------------------------
(* The lists of a file: place p of the columns is one of a list, which     *)
(* starts and ends at two offsets, and names the vertex of another.        *)
nLists == numVertex - FirstOffset
N(g) == Len(g.columns)
ListsOf(g) == 0 .. nLists - 1
Source(g) == [p \in 1 .. N(g) |->
                CHOOSE u \in ListsOf(g) : g.offsets[u] < p /\ p <= g.offsets[u + 1]]
ListStart(g, p) == g.offsets[Source(g)[p]]
ListEnd(g, p)   == g.offsets[Source(g)[p] + 1]
OtherStart(g, p) == g.offsets[g.columns[p]]
OtherEnd(g, p)   == g.offsets[g.columns[p] + 1]

(* The pairs to be intersected: the lists of more than one vertex.         *)
Kept(g) == {p \in 1 .. N(g) : ListStart(g, p) + 1 < ListEnd(g, p)}
Closing(g) == {p \in 1 .. N(g) : p = ListEnd(g, p)}

LEMMA Least ==
  ASSUME NEW S \in SUBSET Nat, S # {}
  PROVE  \E m \in S : \A n \in S : m <= n
<1>1. PICK m \in S : \A n \in S : <<n, m>> \notin OpToRel(<, Nat)
  BY WFMin, NatLessThanWellFounded
<1>2. \A n \in S : ~(n < m)
  BY <1>1 DEF OpToRel
<1>. QED BY <1>2

LEMMA CsrFacts ==
  ASSUME NEW g \in Files
  PROVE  /\ nLists \in Nat /\ nLists \in {NVertices - 1, NVertices} /\ NVertices \in Nat \ {0}
         /\ N(g) \in Nat /\ g.columns \in [1 .. N(g) -> Vertex] /\ g.columns \in Seq(Vertex)
         /\ g.offsets \in [0 .. NVertices -> 0 .. N(g)]
         /\ g.offsets[0] = 0 /\ g.offsets[nLists] = N(g) /\ g.offsets[NVertices] = N(g)
         /\ \A u, v \in 0 .. NVertices : u <= v => g.offsets[u] <= g.offsets[v]
<1>1. IsCsr(g) /\ NVertices \in Nat \ {0} /\ numVertex \in {NVertices, NVertices + 1}
  BY TriangleAssumption
<1>2. nLists \in Nat /\ nLists \in {NVertices - 1, NVertices}
  BY <1>1 DEF nLists, FirstOffset
<1>3. /\ N(g) \in Nat /\ g.columns \in [1 .. N(g) -> Vertex] /\ g.columns \in Seq(Vertex)
      /\ g.offsets \in [0 .. NVertices -> 0 .. N(g)]
      /\ g.offsets[0] = 0 /\ g.offsets[NVertices] = N(g)
      /\ \A u, v \in 0 .. NVertices : u <= v => g.offsets[u] <= g.offsets[v]
  BY <1>1 DEF IsCsr, N
<1>4. g.offsets[NVertices - 1] = N(g)
  <2> SUFFICES ASSUME g.offsets[NVertices - 1] # N(g) PROVE FALSE
    OBVIOUS
  <2>1. NVertices - 1 \in Vertex /\ NVertices - 1 + 1 = NVertices
    BY <1>1 DEF Vertex
  <2>2. g.offsets[NVertices - 1] \in Nat /\ g.offsets[NVertices - 1] < N(g)
    BY <1>1, <1>3, SMTT(30)
  <2>3. N(g) \in g.offsets[NVertices - 1] + 1 .. g.offsets[NVertices - 1 + 1]
    BY <1>3, <2>1, <2>2
  <2>4. NVertices - 1 < g.columns[N(g)]
    BY <1>1, <2>1, <2>3 DEF IsCsr
  <2>5. g.columns[N(g)] \in Vertex
    BY <1>3, <2>2
  <2>. QED BY <1>1, <2>4, <2>5 DEF Vertex
<1>. QED BY <1>1, <1>2, <1>3, <1>4

LEMMA OffsetTypes ==
  ASSUME NEW g \in Files
  PROVE  /\ nLists \in Nat /\ nLists <= NVertices /\ NVertices \in Nat /\ N(g) \in Nat
         /\ \A v \in 0 .. NVertices : g.offsets[v] \in Nat /\ g.offsets[v] <= N(g)
         /\ g.offsets[0] = 0 /\ g.offsets[nLists] = N(g)
         /\ \A u, v \in 0 .. NVertices : u <= v => g.offsets[u] <= g.offsets[v]
<1>1. /\ nLists \in Nat /\ nLists \in {NVertices - 1, NVertices} /\ NVertices \in Nat
      /\ N(g) \in Nat /\ g.offsets \in [0 .. NVertices -> 0 .. N(g)]
      /\ g.offsets[0] = 0 /\ g.offsets[nLists] = N(g)
  BY CsrFacts
<1>2. nLists <= NVertices
  BY <1>1
<1>3. \A v \in 0 .. NVertices : g.offsets[v] \in Nat /\ g.offsets[v] <= N(g)
  BY <1>1
<1>4. \A u, v \in 0 .. NVertices : u <= v => g.offsets[u] <= g.offsets[v]
  BY CsrFacts
<1>. QED BY <1>1, <1>2, <1>3, <1>4

LEMMA OffsetFacts ==
  ASSUME NEW g \in Files, NEW u \in 0 .. nLists
  PROVE  /\ g.offsets[u] \in Nat /\ g.offsets[u] <= N(g) /\ u \in Nat /\ nLists \in Nat
         /\ u # nLists => /\ u \in ListsOf(g) /\ u + 1 \in 0 .. nLists
                          /\ g.offsets[u] <= g.offsets[u + 1]
<1>1. /\ nLists \in Nat /\ nLists <= NVertices /\ NVertices \in Nat /\ N(g) \in Nat
      /\ \A v \in 0 .. NVertices : g.offsets[v] \in Nat /\ g.offsets[v] <= N(g)
      /\ \A v, w \in 0 .. NVertices : v <= w => g.offsets[v] <= g.offsets[w]
  BY OffsetTypes
<1>2. u \in 0 .. NVertices /\ (u # nLists => u + 1 \in 0 .. NVertices)
  BY <1>1
<1>. QED BY <1>1, <1>2 DEF ListsOf

LEMMA ListFacts ==
  ASSUME NEW g \in Files
  PROVE  /\ \A u \in ListsOf(g), p \in 1 .. N(g) :
              g.offsets[u] < p /\ p <= g.offsets[u + 1]
                => Source(g)[p] = u /\ ListStart(g, p) = g.offsets[u]
                                    /\ ListEnd(g, p) = g.offsets[u + 1]
         /\ \A p \in 1 .. N(g) :
              /\ Source(g)[p] \in ListsOf(g) /\ Source(g)[p] \in Vertex
              /\ ListStart(g, p) \in Nat /\ ListEnd(g, p) \in 1 .. N(g)
              /\ ListStart(g, p) < p /\ p <= ListEnd(g, p)
<1>. DEFINE o == g.offsets
<1>1. /\ nLists \in Nat /\ nLists <= NVertices /\ NVertices \in Nat /\ N(g) \in Nat
      /\ \A v \in 0 .. NVertices : o[v] \in Nat /\ o[v] <= N(g)
      /\ o[0] = 0 /\ o[nLists] = N(g)
      /\ \A u, v \in 0 .. NVertices : u <= v => o[u] <= o[v]
  BY OffsetTypes
<1>. HIDE DEF o
<1>2. \A u \in ListsOf(g) : u \in Nat /\ u \in 0 .. NVertices /\ u + 1 \in 0 .. NVertices
  BY <1>1 DEF ListsOf
<1>3. ASSUME NEW p \in 1 .. N(g)
      PROVE  \E u \in ListsOf(g) : o[u] < p /\ p <= o[u + 1]
  <2> DEFINE S == {v \in 0 .. nLists : p <= o[v]}
  <2>1. nLists \in S /\ S \in SUBSET Nat
    BY <1>1
  <2>2. PICK m \in S : \A n \in S : m <= n
    BY <2>1, Least
  <2>3. m # 0 /\ m - 1 \in 0 .. nLists /\ m - 1 \in 0 .. NVertices
    BY <1>1, <2>2
  <2>4. ~(p <= o[m - 1])
    BY <2>2, <2>3
  <2>5. o[m - 1] < p /\ m - 1 \in ListsOf(g) /\ m - 1 + 1 = m
    BY <1>1, <2>2, <2>3, <2>4 DEF ListsOf
  <2>. QED BY <2>2, <2>5
<1>4. ASSUME NEW p \in 1 .. N(g), NEW u \in ListsOf(g), NEW v \in ListsOf(g),
             o[u] < p, p <= o[u + 1], o[v] < p, p <= o[v + 1]
      PROVE  u = v
  <2>1. ~(u < v)
    <3>1. u + 1 <= v => o[u + 1] <= o[v]
      BY <1>1, <1>2
    <3>. QED BY <1>1, <1>2, <1>4, <3>1
  <2>2. ~(v < u)
    <3>1. v + 1 <= u => o[v + 1] <= o[u]
      BY <1>1, <1>2
    <3>. QED BY <1>1, <1>2, <1>4, <3>1
  <2>. QED BY <1>2, <2>1, <2>2
<1>5. ASSUME NEW p \in 1 .. N(g)
      PROVE  /\ Source(g)[p] \in ListsOf(g)
             /\ o[Source(g)[p]] < p /\ p <= o[Source(g)[p] + 1]
  BY <1>3 DEF Source, o
<1>6. ASSUME NEW u \in ListsOf(g), NEW p \in 1 .. N(g), o[u] < p, p <= o[u + 1]
      PROVE  Source(g)[p] = u /\ ListStart(g, p) = o[u] /\ ListEnd(g, p) = o[u + 1]
  <2>1. Source(g)[p] = u
    BY <1>4, <1>5, <1>6
  <2>. QED BY <2>1 DEF ListStart, ListEnd, o
<1>7. ASSUME NEW p \in 1 .. N(g)
      PROVE  /\ Source(g)[p] \in ListsOf(g) /\ Source(g)[p] \in Vertex
             /\ ListStart(g, p) \in Nat /\ ListEnd(g, p) \in 1 .. N(g)
             /\ ListStart(g, p) < p /\ p <= ListEnd(g, p)
  <2>1. Source(g)[p] \in ListsOf(g) /\ Source(g)[p] \in Vertex
    BY <1>1, <1>5 DEF ListsOf, Vertex
  <2>2. o[Source(g)[p]] \in Nat /\ o[Source(g)[p] + 1] \in Nat /\ o[Source(g)[p] + 1] <= N(g)
    BY <1>1, <1>2, <2>1
  <2>. QED BY <1>5, <2>1, <2>2 DEF ListStart, ListEnd, o
<1>. QED BY <1>6, <1>7 DEF o

LEMMA OtherFacts ==
  ASSUME NEW g \in Files, NEW p \in 1 .. N(g)
  PROVE  /\ g.columns[p] \in Vertex
         /\ OtherStart(g, p) \in 0 .. N(g) /\ OtherEnd(g, p) \in 0 .. N(g)
         /\ OtherStart(g, p) <= OtherEnd(g, p)
<1>1. g.columns[p] \in Vertex /\ NVertices \in Nat
  BY CsrFacts
<1>2. g.columns[p] \in 0 .. NVertices /\ g.columns[p] + 1 \in 0 .. NVertices
      /\ g.columns[p] <= g.columns[p] + 1
  BY <1>1, SMTT(30) DEF Vertex
<1>. QED BY <1>1, <1>2, CsrFacts DEF OtherStart, OtherEnd
-----------------------------------------------------------------------------
(* What is sent through each FIFO during a call.                           *)
Rows(g) == 1 .. N(g)
KeptOrEnd(g) == Kept(g) \cup {N(g) + 1}

Blocks(g)   == {x \in Place : x[1] \in Rows(g) /\ (x[2] = 0 \/ (x[2] = 1 /\ x[1] \in Closing(g)))}
Upper(g, k) == {x \in Place : x[1] \in Kept(g) /\ x[1] < x[2] /\ x[2] <= ListEnd(g, x[1]) + k}
Lower(g, k) == {x \in Place : x[1] \in Kept(g) /\ OtherStart(g, x[1]) <= x[2]
                              /\ x[2] < OtherEnd(g, x[1]) + k}

Slots(g) ==
  [offset1  |-> Flat(ListsOf(g)),  offset1End  |-> Flat(0 .. nLists),
   offset12 |-> Flat(ListsOf(g)),  offset1End2 |-> Flat(0 .. nLists),
   row1  |-> Flat(Rows(g)),  row1End  |-> Flat(1 .. N(g) + 1),
   row12 |-> Flat(Rows(g)),  row1End2 |-> Flat(1 .. N(g) + 1),
   copyNum |-> Flat(ListsOf(g)),  col1End |-> Flat(0 .. nLists),
   col1 |-> Flat(Rows(g)),  col1BlockEnd |-> Blocks(g),
   col1Copy |-> Upper(g, 0),  col1CopyBlockEnd |-> Upper(g, 1),  col1CopyEnd |-> Flat(KeptOrEnd(g)),
   row1Reduce |-> Flat(Kept(g)),  row1ReduceEnd |-> Flat(KeptOrEnd(g)),
   offset2 |-> Flat(Kept(g)),  offset2End |-> Flat(KeptOrEnd(g)),
   row2Addr |-> Lower(g, 0),  row2AddrEnd |-> Lower(g, 0) \cup {<<N(g) + 1, 0>>},
   row2Dist |-> Flat(Kept(g)),  row2DistEnd |-> Flat(KeptOrEnd(g)),
   row2Continue |-> Lower(g, 0),  row2 |-> Lower(g, 0),  row2BlockEnd |-> Lower(g, 1),
   tc |-> Flat(Kept(g)),  tcEnd |-> Flat(KeptOrEnd(g))]

(* The vertices after p in its list, and those of the list p names.        *)
Rest(g, p)  == {g.columns[r] : r \in p + 1 .. ListEnd(g, p)}
Other(g, p) == {g.columns[r] : r \in OtherStart(g, p) + 1 .. OtherEnd(g, p)}

EndOf      (g) == [x \in Place |-> g.offsets[x[1] + 1]]
IsLastList (g) == [x \in Place |-> IF x[1] = nLists THEN TRUE ELSE FALSE]
Column     (g) == [x \in Place |-> g.columns[x[1]]]
IsLastRow  (g) == [x \in Place |-> IF x[1] = N(g) + 1 THEN TRUE ELSE FALSE]
ListLength (g) == [x \in Place |-> g.offsets[x[1] + 1] - g.offsets[x[1]]]
IsClosing  (g) == [x \in Place |-> IF x[2] = 1 THEN TRUE ELSE FALSE]
UpperColumn(g) == [x \in Place |-> g.columns[x[2]]]
IsUpperEnd (g) == [x \in Place |-> IF x[2] = ListEnd(g, x[1]) + 1 THEN TRUE ELSE FALSE]
OtherList  (g) == [x \in Place |-> <<OtherStart(g, x[1]), OtherEnd(g, x[1])>>]
OtherLength(g) == [x \in Place |-> OtherEnd(g, x[1]) - OtherStart(g, x[1])]
Address    (g) == [x \in Place |-> x[2]]
LowerColumn(g) == [x \in Place |-> g.columns[x[2] + 1]]
IsLowerEnd (g) == [x \in Place |-> IF x[2] = OtherEnd(g, x[1]) THEN TRUE ELSE FALSE]
Common     (g) == [x \in Place |-> Cardinality(Rest(g, x[1]) \cap Other(g, x[1]))]

Says(g) ==
  [offset1 |-> EndOf(g),  offset12 |-> EndOf(g),
   offset1End |-> IsLastList(g),  offset1End2 |-> IsLastList(g),
   col1End |-> IsLastList(g),  row1 |-> Column(g),  row12 |-> Column(g),
   col1 |-> Column(g),  row1Reduce |-> Column(g),
   row1End |-> IsLastRow(g),  row1End2 |-> IsLastRow(g),
   row1ReduceEnd |-> IsLastRow(g),  offset2End |-> IsLastRow(g),
   row2AddrEnd |-> IsLastRow(g),  row2DistEnd |-> IsLastRow(g),
   col1CopyEnd |-> IsLastRow(g),  tcEnd |-> IsLastRow(g),
   copyNum |-> ListLength(g),  col1BlockEnd |-> IsClosing(g),
   col1Copy |-> UpperColumn(g),  col1CopyBlockEnd |-> IsUpperEnd(g),
   offset2 |-> OtherList(g),  row2Dist |-> OtherLength(g),
   row2Addr |-> Address(g),  row2Continue |-> LowerColumn(g),
   row2 |-> LowerColumn(g),  row2BlockEnd |-> IsLowerEnd(g),
   tc |-> Common(g)]

Start == {"offset1", "offset12", "offset1End", "offset1End2",
          "row1", "row1End", "row12", "row1End2"}
Names == Between \cup Start

(* Each FIFO s, with its reader at rd[s] and its writer at wr[s].          *)
Flow(g, rd, wr) ==
  /\ DOMAIN q = Names
  /\ \A s \in Names : Holds(q[s], Slots(g)[s], Says(g)[s], rd[s], wr[s])

LEMMA SlotFacts ==
  ASSUME NEW g \in Files
  PROVE  /\ Slots(g)["offset1"] = Flat(ListsOf(g)) /\ Slots(g)["offset12"] = Flat(ListsOf(g))
         /\ Slots(g)["offset1End"] = Flat(0 .. nLists) /\ Slots(g)["offset1End2"] = Flat(0 .. nLists)
         /\ Slots(g)["row1"] = Flat(Rows(g)) /\ Slots(g)["row12"] = Flat(Rows(g))
         /\ Slots(g)["row1End"] = Flat(1 .. N(g) + 1) /\ Slots(g)["row1End2"] = Flat(1 .. N(g) + 1)
         /\ Slots(g)["copyNum"] = Flat(ListsOf(g)) /\ Slots(g)["col1End"] = Flat(0 .. nLists)
         /\ Slots(g)["col1"] = Flat(Rows(g)) /\ Slots(g)["col1BlockEnd"] = Blocks(g)
         /\ Slots(g)["col1Copy"] = Upper(g, 0) /\ Slots(g)["col1CopyBlockEnd"] = Upper(g, 1)
         /\ Slots(g)["row2Addr"] = Lower(g, 0) /\ Slots(g)["row2Continue"] = Lower(g, 0)
         /\ Slots(g)["row2AddrEnd"] = Lower(g, 0) \cup {<<N(g) + 1, 0>>}
         /\ Slots(g)["row2"] = Lower(g, 0) /\ Slots(g)["row2BlockEnd"] = Lower(g, 1)
         /\ \A s \in {"row1Reduce", "offset2", "row2Dist", "tc"} : Slots(g)[s] = Flat(Kept(g))
         /\ \A s \in {"row1ReduceEnd", "offset2End", "row2DistEnd", "col1CopyEnd", "tcEnd"} :
              Slots(g)[s] = Flat(KeptOrEnd(g))
<1>1. /\ Slots(g)["offset1"] = Flat(ListsOf(g)) /\ Slots(g)["offset12"] = Flat(ListsOf(g))
      /\ Slots(g)["offset1End"] = Flat(0 .. nLists) /\ Slots(g)["offset1End2"] = Flat(0 .. nLists)
      /\ Slots(g)["row1"] = Flat(Rows(g)) /\ Slots(g)["row12"] = Flat(Rows(g))
      /\ Slots(g)["row1End"] = Flat(1 .. N(g) + 1) /\ Slots(g)["row1End2"] = Flat(1 .. N(g) + 1)
  BY DEF Slots
<1>2. /\ Slots(g)["copyNum"] = Flat(ListsOf(g)) /\ Slots(g)["col1End"] = Flat(0 .. nLists)
      /\ Slots(g)["col1"] = Flat(Rows(g)) /\ Slots(g)["col1BlockEnd"] = Blocks(g)
      /\ Slots(g)["col1Copy"] = Upper(g, 0) /\ Slots(g)["col1CopyBlockEnd"] = Upper(g, 1)
  BY DEF Slots
<1>3. /\ Slots(g)["row2Addr"] = Lower(g, 0) /\ Slots(g)["row2Continue"] = Lower(g, 0)
      /\ Slots(g)["row2AddrEnd"] = Lower(g, 0) \cup {<<N(g) + 1, 0>>}
      /\ Slots(g)["row2"] = Lower(g, 0) /\ Slots(g)["row2BlockEnd"] = Lower(g, 1)
  BY DEF Slots
<1>4. /\ Slots(g)["row1Reduce"] = Flat(Kept(g)) /\ Slots(g)["offset2"] = Flat(Kept(g))
      /\ Slots(g)["row2Dist"] = Flat(Kept(g)) /\ Slots(g)["tc"] = Flat(Kept(g))
  BY DEF Slots
<1>5. /\ Slots(g)["row1ReduceEnd"] = Flat(KeptOrEnd(g)) /\ Slots(g)["offset2End"] = Flat(KeptOrEnd(g))
      /\ Slots(g)["row2DistEnd"] = Flat(KeptOrEnd(g)) /\ Slots(g)["col1CopyEnd"] = Flat(KeptOrEnd(g))
      /\ Slots(g)["tcEnd"] = Flat(KeptOrEnd(g))
  BY DEF Slots
<1>. QED BY <1>1, <1>2, <1>3, <1>4, <1>5

LEMMA SaysFacts ==
  ASSUME NEW g \in Files
  PROVE  /\ Says(g)["offset1"] = EndOf(g) /\ Says(g)["offset12"] = EndOf(g)
         /\ Says(g)["offset1End"] = IsLastList(g) /\ Says(g)["offset1End2"] = IsLastList(g)
         /\ Says(g)["col1End"] = IsLastList(g)
         /\ Says(g)["row1"] = Column(g) /\ Says(g)["row12"] = Column(g)
         /\ Says(g)["col1"] = Column(g) /\ Says(g)["row1Reduce"] = Column(g)
         /\ Says(g)["row1End"] = IsLastRow(g) /\ Says(g)["row1End2"] = IsLastRow(g)
         /\ Says(g)["row1ReduceEnd"] = IsLastRow(g) /\ Says(g)["offset2End"] = IsLastRow(g)
         /\ Says(g)["row2AddrEnd"] = IsLastRow(g) /\ Says(g)["row2DistEnd"] = IsLastRow(g)
         /\ Says(g)["col1CopyEnd"] = IsLastRow(g) /\ Says(g)["tcEnd"] = IsLastRow(g)
         /\ Says(g)["copyNum"] = ListLength(g)
         /\ Says(g)["col1BlockEnd"] = IsClosing(g)
         /\ Says(g)["col1Copy"] = UpperColumn(g)
         /\ Says(g)["col1CopyBlockEnd"] = IsUpperEnd(g)
         /\ Says(g)["offset2"] = OtherList(g)
         /\ Says(g)["row2Dist"] = OtherLength(g)
         /\ Says(g)["row2Addr"] = Address(g)
         /\ Says(g)["row2Continue"] = LowerColumn(g) /\ Says(g)["row2"] = LowerColumn(g)
         /\ Says(g)["row2BlockEnd"] = IsLowerEnd(g)
         /\ Says(g)["tc"] = Common(g)
BY ZenonT(30) DEF Says

LEMMA ColumnSaid ==
  ASSUME NEW g \in Files, NEW p \in Int
  PROVE  /\ Says(g)["row1"][<<p, 0>>] = g.columns[p]
         /\ Says(g)["col1"][<<p, 0>>] = g.columns[p]
         /\ Says(g)["row1Reduce"][<<p, 0>>] = g.columns[p]
<1>1. /\ Says(g)["row1"] = Column(g) /\ Says(g)["col1"] = Column(g)
      /\ Says(g)["row1Reduce"] = Column(g)
  BY SaysFacts
<1>2. <<p, 0>> \in Place /\ <<p, 0>>[1] = p
  BY DEF Place
<1>. QED BY <1>1, <1>2, Zenon DEF Column

(* The flags that are FALSE, and the flags that are TRUE.                  *)
LEMMA ListFlags ==
  ASSUME NEW g \in Files, NEW a \in Int, NEW s \in {"offset1End", "offset1End2", "col1End"}
  PROVE  /\ a # nLists => Says(g)[s][<<a, 0>>] = FALSE
         /\ a = nLists => Says(g)[s][<<a, 0>>] = TRUE
<1>1. Says(g)[s] = IsLastList(g)
  BY SaysFacts
<1>2. <<a, 0>> \in Place /\ <<a, 0>>[1] = a
  BY DEF Place
<1>. QED BY <1>1, <1>2, Zenon DEF IsLastList

LEMMA LastRowFlags ==
  ASSUME NEW g, NEW a \in Int, NEW b \in Int
  PROVE  /\ a # N(g) + 1 => IsLastRow(g)[<<a, b>>] = FALSE
         /\ a = N(g) + 1 => IsLastRow(g)[<<a, b>>] = TRUE
<1>1. <<a, b>> \in Place /\ <<a, b>>[1] = a
  BY DEF Place
<1>. QED BY <1>1, Zenon DEF IsLastRow

LEMMA RowFlags ==
  ASSUME NEW g \in Files, NEW a \in Int, NEW b \in Int,
         NEW s \in {"row1End", "row1End2", "row1ReduceEnd", "offset2End", "row2AddrEnd",
                    "row2DistEnd", "col1CopyEnd", "tcEnd"}
  PROVE  /\ a # N(g) + 1 => Says(g)[s][<<a, b>>] = FALSE
         /\ a = N(g) + 1 => Says(g)[s][<<a, b>>] = TRUE
<1>1. Says(g)[s] = IsLastRow(g)
  BY SaysFacts
<1>. QED BY <1>1, LastRowFlags, ZenonT(30)

LEMMA ClosingFlags ==
  ASSUME NEW g \in Files, NEW a \in Int, NEW b \in Int
  PROVE  /\ b # 1 => Says(g)["col1BlockEnd"][<<a, b>>] = FALSE
         /\ b = 1 => Says(g)["col1BlockEnd"][<<a, b>>] = TRUE
<1>1. Says(g)["col1BlockEnd"] = IsClosing(g)
  BY SaysFacts
<1>2. <<a, b>> \in Place /\ <<a, b>>[2] = b
  BY DEF Place
<1>. QED BY <1>1, <1>2, Zenon DEF IsClosing

LEMMA UpperFlags ==
  ASSUME NEW g \in Files, NEW a \in Int, NEW b \in Int
  PROVE  /\ b # ListEnd(g, a) + 1 => Says(g)["col1CopyBlockEnd"][<<a, b>>] = FALSE
         /\ b = ListEnd(g, a) + 1 => Says(g)["col1CopyBlockEnd"][<<a, b>>] = TRUE
<1>1. Says(g)["col1CopyBlockEnd"] = IsUpperEnd(g)
  BY SaysFacts
<1>2. <<a, b>> \in Place /\ <<a, b>>[1] = a /\ <<a, b>>[2] = b
  BY DEF Place
<1>. QED BY <1>1, <1>2, Zenon DEF IsUpperEnd

LEMMA LowerFlags ==
  ASSUME NEW g \in Files, NEW a \in Int, NEW b \in Int
  PROVE  /\ b # OtherEnd(g, a) => Says(g)["row2BlockEnd"][<<a, b>>] = FALSE
         /\ b = OtherEnd(g, a) => Says(g)["row2BlockEnd"][<<a, b>>] = TRUE
<1>1. Says(g)["row2BlockEnd"] = IsLowerEnd(g)
  BY SaysFacts
<1>2. <<a, b>> \in Place /\ <<a, b>>[1] = a /\ <<a, b>>[2] = b
  BY DEF Place
<1>. QED BY <1>1, <1>2, Zenon DEF IsLowerEnd

LEMMA SlotsArePlaces ==
  ASSUME NEW g \in Files
  PROVE  /\ \A s \in Names : Slots(g)[s] \in SUBSET Place
         /\ Kept(g) \in SUBSET Rows(g) /\ Kept(g) \in SUBSET Int /\ KeptOrEnd(g) \in SUBSET Int
         /\ Rows(g) \in SUBSET Int /\ ListsOf(g) \in SUBSET Int /\ N(g) \in Nat /\ nLists \in Nat
<1>1. N(g) \in Nat /\ nLists \in Nat
  BY CsrFacts
<1>2. /\ Kept(g) \in SUBSET Rows(g) /\ Kept(g) \in SUBSET Int /\ KeptOrEnd(g) \in SUBSET Int
      /\ Rows(g) \in SUBSET Int /\ ListsOf(g) \in SUBSET Int
      /\ 0 .. nLists \in SUBSET Int /\ 1 .. N(g) + 1 \in SUBSET Int
  BY <1>1 DEF Kept, KeptOrEnd, Rows, ListsOf
<1>3. \A Q \in SUBSET Int : Flat(Q) \in SUBSET Place
  BY FlatSlots
<1>4. /\ Flat(ListsOf(g)) \in SUBSET Place /\ Flat(0 .. nLists) \in SUBSET Place
      /\ Flat(Rows(g)) \in SUBSET Place /\ Flat(1 .. N(g) + 1) \in SUBSET Place
      /\ Flat(Kept(g)) \in SUBSET Place /\ Flat(KeptOrEnd(g)) \in SUBSET Place
  BY <1>2, <1>3
<1>5. <<N(g) + 1, 0>> \in Place
  BY <1>1 DEF Place
<1>6. /\ Blocks(g) \in SUBSET Place /\ Upper(g, 0) \in SUBSET Place /\ Upper(g, 1) \in SUBSET Place
      /\ Lower(g, 0) \in SUBSET Place /\ Lower(g, 1) \in SUBSET Place
      /\ Lower(g, 0) \cup {<<N(g) + 1, 0>>} \in SUBSET Place
  BY <1>5 DEF Blocks, Upper, Lower
<1>7. \A s \in Names : Slots(g)[s] \in {Flat(ListsOf(g)), Flat(0 .. nLists), Flat(Rows(g)),
        Flat(1 .. N(g) + 1), Flat(Kept(g)), Flat(KeptOrEnd(g)), Blocks(g), Upper(g, 0), Upper(g, 1),
        Lower(g, 0), Lower(g, 1), Lower(g, 0) \cup {<<N(g) + 1, 0>>}}
  BY SlotFacts DEF Names, Between, Start
<1>. HIDE DEF Place
<1>. QED BY <1>1, <1>2, <1>4, <1>6, <1>7

(* The places after the readers or the writers of some FIFOs have moved.   *)
Moved(places, to) == [s \in Names |-> IF s \in DOMAIN to THEN to[s] ELSE places[s]]
IsMove(to, S) == DOMAIN to \subseteq S /\ \A s \in DOMAIN to : to[s] \in Place

LEMMA MovedFacts ==
  ASSUME NEW places \in [Names -> Place], NEW to, NEW S \in SUBSET Names, IsMove(to, S)
  PROVE  /\ Moved(places, to) \in [Names -> Place]
         /\ \A s \in DOMAIN to : Moved(places, to)[s] = to[s]
         /\ \A s \in Names \ S : Moved(places, to)[s] = places[s]
         /\ \A s \in Names : s \notin DOMAIN to => Moved(places, to)[s] = places[s]
BY DEF Moved, IsMove

(* A turn takes the next slot of each FIFO it reads and puts a value in    *)
(* the next slot of each it writes.                                        *)
LEMMA TurnFlow ==
  ASSUME NEW g \in Files, NEW rd \in [Names -> Place], NEW wr \in [Names -> Place],
         Flow(g, rd, wr),
         NEW reads, NEW writes, reads \cap DOMAIN writes = {}, Turn(reads, writes),
         NEW D, NEW E, NEW RS \in SUBSET Names, NEW WS \in SUBSET Names,
         IsMove(D, RS), IsMove(E, WS), reads \subseteq DOMAIN D, DOMAIN writes \subseteq DOMAIN E,
         \A s \in reads : \E x : Passes(Slots(g)[s], rd[s], x, D[s]),
         \A s \in DOMAIN D \ reads : Rests(Slots(g)[s], rd[s], D[s]),
         \A s \in DOMAIN writes : \E x : /\ Passes(Slots(g)[s], wr[s], x, E[s])
                                         /\ writes[s] = Says(g)[s][x],
         \A s \in DOMAIN E \ DOMAIN writes : Rests(Slots(g)[s], wr[s], E[s])
  PROVE  Flow(g, Moved(rd, D), Moved(wr, E))'
<1> DEFINE rd2 == Moved(rd, D)
           wr2 == Moved(wr, E)
<1>1. /\ rd2 \in [Names -> Place] /\ wr2 \in [Names -> Place]
      /\ \A s \in DOMAIN D : rd2[s] = D[s]
      /\ \A s \in DOMAIN E : wr2[s] = E[s]
      /\ \A s \in Names : s \notin DOMAIN D => rd2[s] = rd[s]
      /\ \A s \in Names : s \notin DOMAIN E => wr2[s] = wr[s]
  BY MovedFacts
<1>2. DOMAIN D \subseteq Names /\ DOMAIN E \subseteq Names
  BY DEF IsMove
<1>. HIDE DEF rd2, wr2
<1>3. DOMAIN q = Names /\ DOMAIN q' = Names
  BY DEF Flow, Turn
<1>4. ASSUME NEW s \in Names
      PROVE  Holds(q'[s], Slots(g)[s], Says(g)[s], rd2[s], wr2[s])
  <2> DEFINE S == Slots(g)[s]
             f == Says(g)[s]
  <2>1. /\ S \in SUBSET Place /\ Holds(q[s], S, f, rd[s], wr[s])
        /\ rd[s] \in Place /\ wr[s] \in Place /\ rd2[s] \in Place /\ wr2[s] \in Place
    BY <1>1, SlotsArePlaces DEF Flow
  <2>2. CASE s \in reads
    <3>1. q'[s] = Tail(q[s]) /\ q[s] # << >>
      BY <1>3, <2>2 DEF Turn
    <3>2. PICK x : Passes(S, rd[s], x, rd2[s])
      BY <1>1, <2>2
    <3>3. Holds(Tail(q[s]), S, f, rd2[s], wr[s])
      BY <2>1, <3>1, <3>2, Took
    <3>4. Rests(S, wr[s], wr2[s]) /\ Rests(S, rd2[s], rd2[s])
      <4>1. s \notin DOMAIN writes
        BY <2>2
      <4>. QED BY <1>1, <4>1 DEF Rests
    <3>. QED BY <3>1, <3>3, <3>4, Unmoved
  <2>3. CASE s \in DOMAIN writes
    <3>1. q'[s] = Append(q[s], writes[s])
      BY <1>3, <2>3 DEF Turn
    <3>2. PICK x : Passes(S, wr[s], x, wr2[s]) /\ writes[s] = f[x]
      BY <1>1, <2>3
    <3>3. Holds(Append(q[s], f[x]), S, f, rd[s], wr2[s])
      BY <2>1, <3>2, Put
    <3>4. Rests(S, rd[s], rd2[s]) /\ Rests(S, wr2[s], wr2[s])
      <4>1. s \notin reads
        BY <2>3
      <4>. QED BY <1>1, <4>1 DEF Rests
    <3>. QED BY <3>1, <3>2, <3>3, <3>4, Unmoved
  <2>4. CASE s \notin reads /\ s \notin DOMAIN writes
    <3>1. q'[s] = q[s]
      BY <1>3, <2>4 DEF Turn
    <3>2. Rests(S, rd[s], rd2[s]) /\ Rests(S, wr[s], wr2[s])
      BY <1>1, <2>4 DEF Rests
    <3>. QED BY <2>1, <3>1, <3>2, Unmoved
  <2>. QED BY <2>2, <2>3, <2>4
<1>. QED BY <1>3, <1>4 DEF Flow, rd2, wr2

(* A turn, FIFO by FIFO: where the reader and the writer are after it.     *)
Takes(g, places, D, reads) ==
  /\ reads \subseteq DOMAIN D
  /\ \A s \in DOMAIN D :
       /\ D[s] \in Place
       /\ IF s \in reads THEN \E x : Passes(Slots(g)[s], places[s], x, D[s])
          ELSE Rests(Slots(g)[s], places[s], D[s])

Puts(g, places, E, writes) ==
  /\ DOMAIN writes \subseteq DOMAIN E
  /\ \A s \in DOMAIN E :
       /\ E[s] \in Place
       /\ IF s \in DOMAIN writes
          THEN \E x : Passes(Slots(g)[s], places[s], x, E[s]) /\ writes[s] = Says(g)[s][x]
          ELSE Rests(Slots(g)[s], places[s], E[s])

LEMMA MoveFlow ==
  ASSUME NEW g \in Files, NEW rd \in [Names -> Place], NEW wr \in [Names -> Place],
         Flow(g, rd, wr), NEW reads, NEW writes, Turn(reads, writes),
         NEW RS \in SUBSET Names, NEW WS \in SUBSET Names, RS \cap WS = {},
         NEW D, NEW E, DOMAIN D \subseteq RS, DOMAIN E \subseteq WS,
         Takes(g, rd, D, reads), Puts(g, wr, E, writes)
  PROVE  /\ IsMove(D, RS) /\ IsMove(E, WS)
         /\ Flow(g, Moved(rd, D), Moved(wr, E))'
<1>1. IsMove(D, RS) /\ IsMove(E, WS)
  BY DEF Takes, Puts, IsMove
<1>2. reads \cap DOMAIN writes = {} /\ reads \subseteq DOMAIN D /\ DOMAIN writes \subseteq DOMAIN E
  BY DEF Takes, Puts
<1>3. /\ \A s \in reads : \E x : Passes(Slots(g)[s], rd[s], x, D[s])
      /\ \A s \in DOMAIN D \ reads : Rests(Slots(g)[s], rd[s], D[s])
  BY <1>2 DEF Takes
<1>4. /\ \A s \in DOMAIN writes : \E x : /\ Passes(Slots(g)[s], wr[s], x, E[s])
                                         /\ writes[s] = Says(g)[s][x]
      /\ \A s \in DOMAIN E \ DOMAIN writes : Rests(Slots(g)[s], wr[s], E[s])
  BY <1>2 DEF Puts
<1>. QED BY <1>1, <1>2, <1>3, <1>4, TurnFlow

LEMMA NoMove ==
  ASSUME NEW g, NEW places
  PROVE  Takes(g, places, Nothing, {}) /\ Puts(g, places, Nothing, Nothing) /\ DOMAIN Nothing = {}
BY DEF Takes, Puts, Nothing

LEMMA ValueRead ==
  ASSUME NEW g \in Files, NEW rd \in [Names -> Place], NEW wr \in [Names -> Place],
         Flow(g, rd, wr), NEW s \in Names, q[s] # << >>
  PROVE  /\ \A x, r2 : r2 \in Place /\ Passes(Slots(g)[s], rd[s], x, r2)
                       => Head(q[s]) = Says(g)[s][x]
         /\ \E x \in Slots(g)[s] :
              /\ x \in Place /\ ~Before(x, rd[s]) /\ Head(q[s]) = Says(g)[s][x]
              /\ \A y \in Slots(g)[s] : Before(y, rd[s]) \/ y = x \/ Before(x, y)
<1>1. /\ Slots(g)[s] \in SUBSET Place
      /\ Holds(q[s], Slots(g)[s], Says(g)[s], rd[s], wr[s])
      /\ rd[s] \in Place /\ wr[s] \in Place
  BY SlotsArePlaces DEF Flow
<1>2. ASSUME NEW x, NEW r2 \in Place, Passes(Slots(g)[s], rd[s], x, r2)
      PROVE  Head(q[s]) = Says(g)[s][x]
  <2> DEFINE S == Slots(g)[s]
             f == Says(g)[s]
             seq == q[s]
             r == rd[s]
             w == wr[s]
  <2>1. /\ S \in SUBSET Place /\ Holds(seq, S, f, r, w) /\ r \in Place /\ w \in Place
        /\ seq # << >> /\ Passes(S, r, x, r2)
    BY <1>1, <1>2
  <2>. HIDE DEF S, f, seq, r, w
  <2>2. Head(seq) = f[x] /\ Before(x, w) /\ Holds(Tail(seq), S, f, r2, w)
    BY <2>1, Took
  <2>. QED BY <2>2 DEF seq, f
<1>3. PICK x \in Slots(g)[s] :
        /\ ~Before(x, rd[s]) /\ Head(q[s]) = Says(g)[s][x]
        /\ \A y \in Slots(g)[s] : Before(y, rd[s]) \/ y = x \/ Before(x, y)
  BY <1>1, Front
<1>4. x \in Place
  BY <1>1
<1>. QED BY <1>2, <1>3, <1>4

LEMMA SlotRead ==
  ASSUME NEW g \in Files, NEW rd \in [Names -> Place], NEW wr \in [Names -> Place],
         Flow(g, rd, wr), NEW s \in Names, q[s] # << >>,
         NEW x, NEW r2 \in Place, Passes(Slots(g)[s], rd[s], x, r2)
  PROVE  Head(q[s]) = Says(g)[s][x]
BY ValueRead

(* The next of the flat slots, when all from x on are at p or later.       *)
LEMMA NextFlat ==
  ASSUME NEW Q \in SUBSET Int, NEW p \in Q
  PROVE  Passes(Flat(Q), <<p, 0>>, <<p, 0>>, <<p + 1, 0>>) /\ <<p, 0>> \in Place
         /\ <<p + 1, 0>> \in Place
<1>1. \A y \in Q : p <= y => p <= y
  OBVIOUS
<1>. QED BY <1>1, FlatSlots DEF Place

LEMMA FlatRests ==
  ASSUME NEW Q \in SUBSET Int, NEW p \in Int, p \notin Q
  PROVE  Rests(Flat(Q), <<p, 0>>, <<p + 1, 0>>)
<1>1. \A y \in Flat(Q) : y[1] \in Q /\ y[1] \in Int /\ y[2] = 0
  BY DEF Flat
<1>2. \A y \in Flat(Q) : y[1] # p
  BY <1>1
<1>. QED BY <1>1, <1>2 DEF Rests, Before

(* Flat slots, from one of them to the next.                               *)
LEMMA FlatRead ==
  ASSUME NEW g \in Files, NEW rd \in [Names -> Place], NEW wr \in [Names -> Place],
         Flow(g, rd, wr), NEW s \in Names, q[s] # << >>,
         NEW Q \in SUBSET Int, Slots(g)[s] = Flat(Q), NEW u \in Q, rd[s] = <<u, 0>>
  PROVE  /\ Head(q[s]) = Says(g)[s][<<u, 0>>]
         /\ Passes(Slots(g)[s], rd[s], <<u, 0>>, <<u + 1, 0>>)
<1>1. Passes(Slots(g)[s], rd[s], <<u, 0>>, <<u + 1, 0>>) /\ <<u + 1, 0>> \in Place
  BY NextFlat
<1>2. \A x, r2 : r2 \in Place /\ Passes(Slots(g)[s], rd[s], x, r2) => Head(q[s]) = Says(g)[s][x]
  BY ValueRead, Zenon
<1>. QED BY <1>1, <1>2, Zenon

LEMMA BlockSlots ==
  ASSUME NEW g \in Files, NEW p \in Rows(g)
  PROVE  /\ Passes(Blocks(g), <<p, 0>>, <<p, 0>>, IF p \in Closing(g) THEN <<p, 1>> ELSE <<p + 1, 0>>)
         /\ p \in Closing(g) => Passes(Blocks(g), <<p, 1>>, <<p, 1>>, <<p + 1, 0>>)
         /\ <<p, 0>> \in Place /\ <<p, 1>> \in Place /\ <<p + 1, 0>> \in Place
<1>1. p \in Int /\ N(g) \in Nat
  BY CsrFacts DEF Rows
<1>2. <<p, 0>> \in Blocks(g) /\ (p \in Closing(g) => <<p, 1>> \in Blocks(g))
  BY <1>1 DEF Blocks, Place
<1>3. ASSUME NEW y \in Blocks(g)
      PROVE  /\ y[1] \in Int /\ y[2] \in {0, 1} /\ (y[2] = 1 => y[1] \in Closing(g))
             /\ \A a, b \in Int : y = <<a, b>> <=> y[1] = a /\ y[2] = b
  <2>1. y = <<y[1], y[2]>>
    BY DEF Blocks, Place
  <2>. QED BY <2>1 DEF Blocks, Place
<1>4. Passes(Blocks(g), <<p, 0>>, <<p, 0>>, IF p \in Closing(g) THEN <<p, 1>> ELSE <<p + 1, 0>>)
  BY <1>1, <1>2, <1>3 DEF Passes, Before
<1>5. p \in Closing(g) => Passes(Blocks(g), <<p, 1>>, <<p, 1>>, <<p + 1, 0>>)
  BY <1>1, <1>2, <1>3 DEF Passes, Before
<1>. QED BY <1>1, <1>4, <1>5 DEF Place
-----------------------------------------------------------------------------
(* coreControlImpl has taken u lists: the places of what it reads and      *)
(* writes follow from its variable.                                        *)
CoreReads  == {"offset1", "offset1End", "row1", "row1End"}
CoreWrites == {"col1End", "copyNum", "col1", "col1BlockEnd"}

CoreAt(g, rd, wr) ==
  LET u == rd["offset1"][1] IN
  /\ core = [pc |-> core.pc, begin |-> core.begin, end |-> core.end, i |-> core.i]
  /\ u \in 0 .. nLists + 1 /\ core.i \in 0 .. N(g)
  /\ rd["offset1"] = <<u, 0>> /\ rd["offset1End"] = <<u, 0>>
  /\ wr["col1End"] = <<u, 0>> /\ wr["copyNum"] = <<u, 0>>
  /\ rd["row1"] = <<core.i + 1, 0>> /\ wr["col1"] = <<core.i + 1, 0>>
  /\ rd["row1End"] = <<IF core.pc = "done" THEN core.i + 2 ELSE core.i + 1, 0>>
  /\ wr["col1BlockEnd"] = IF core.pc = "block" THEN <<core.i, 1>> ELSE <<core.i + 1, 0>>
  /\ \/ /\ core.pc = "end" /\ u <= nLists
        /\ core.begin = core.i /\ core.i = g.offsets[u]
     \/ /\ core.pc \in {"row", "block"} /\ u \in 1 .. nLists
        /\ core.begin = g.offsets[u - 1] /\ core.end = g.offsets[u] /\ core.begin < core.end
        /\ IF core.pc = "row" THEN core.begin <= core.i /\ core.i < core.end
           ELSE core.i = core.end
     \/ core.pc = "done" /\ u = nLists + 1 /\ core.i = N(g)

LEMMA CoreNames ==
  /\ CoreReads \in SUBSET Names /\ CoreWrites \in SUBSET Names
  /\ \A s \in CoreReads \cup CoreWrites : s \in Names
BY DEF CoreReads, CoreWrites, Names, Between, Start

LEMMA CoreVertexTurn ==
  ASSUME NEW g \in Files, off = g.offsets, rows = g.columns, NEW rd \in [Names -> Place],
         NEW wr \in [Names -> Place], Flow(g, rd, wr), CoreAt(g, rd, wr), CoreVertex
  PROVE  \E D, E : /\ IsMove(D, CoreReads) /\ IsMove(E, CoreWrites)
                   /\ Flow(g, Moved(rd, D), Moved(wr, E))'
                   /\ CoreAt(g, Moved(rd, D), Moved(wr, E))'
<1>u. PICK u : u = rd["offset1"][1]
  OBVIOUS
<1> DEFINE end == Head(q["offset1"])
           D == [offset1 |-> <<u + 1, 0>>, offset1End |-> <<u + 1, 0>>]
           E == [col1End |-> <<u + 1, 0>>, copyNum |-> <<u + 1, 0>>]
           writes == [col1End |-> FALSE, copyNum |-> end - core.begin]
<1>1. /\ core.pc = "end" /\ u \in 0 .. nLists /\ core.begin = core.i /\ core.i = g.offsets[u]
      /\ rd["offset1"] = <<u, 0>> /\ rd["offset1End"] = <<u, 0>>
      /\ wr["col1End"] = <<u, 0>> /\ wr["copyNum"] = <<u, 0>>
      /\ core.i \in 0 .. N(g) /\ nLists \in Nat /\ N(g) \in Nat /\ u \in Int /\ 0 \in Int
  BY <1>u, CsrFacts DEF CoreAt, CoreVertex
<1>2. /\ Turn({"offset1End", "offset1"}, writes)
      /\ q["offset1End"] # << >> /\ q["offset1"] # << >> /\ Head(q["offset1End"]) # TRUE
  <2>1. Turn({"offset1End", "offset1"}, writes) /\ More("offset1End")
    BY Zenon DEF CoreVertex
  <2>2. \A s \in {"offset1End", "offset1"} : q[s] # << >>
    BY <2>1 DEF Turn
  <2>. QED BY <2>1, <2>2 DEF More
<1>3. CoreReads \in SUBSET Names /\ CoreWrites \in SUBSET Names
  BY DEF CoreReads, CoreWrites, Names, Between, Start
<1>4. ListsOf(g) \in SUBSET Int /\ 0 .. nLists \in SUBSET Int
  BY <1>1 DEF ListsOf
<1>5. /\ Passes(Slots(g)["offset1End"], <<u, 0>>, <<u, 0>>, <<u + 1, 0>>)
      /\ Passes(Slots(g)["col1End"], <<u, 0>>, <<u, 0>>, <<u + 1, 0>>)
      /\ <<u, 0>> \in Place /\ <<u + 1, 0>> \in Place
  BY <1>1, <1>4, NextFlat, SlotFacts
<1>6. u # nLists
  <2>1. "offset1End" \in Names /\ q["offset1End"] # << >> /\ <<u + 1, 0>> \in Place
        /\ Passes(Slots(g)["offset1End"], rd["offset1End"], <<u, 0>>, <<u + 1, 0>>)
    BY <1>1, <1>2, <1>3, <1>5 DEF CoreReads
  <2>2. Head(q["offset1End"]) = Says(g)["offset1End"][<<u, 0>>]
    BY <2>1, SlotRead
  <2>3. u = nLists => Says(g)["offset1End"][<<u, 0>>] = TRUE
    BY <1>1, ListFlags, Zenon
  <2>. QED BY <1>2, <2>2, <2>3
<1>7. u \in ListsOf(g) /\ u + 1 \in 0 .. nLists
  BY <1>1, <1>6 DEF ListsOf
<1>8. /\ Passes(Slots(g)["offset1"], <<u, 0>>, <<u, 0>>, <<u + 1, 0>>)
      /\ Passes(Slots(g)["copyNum"], <<u, 0>>, <<u, 0>>, <<u + 1, 0>>)
  BY <1>4, <1>7, NextFlat, SlotFacts
<1>9. end = g.offsets[u + 1]
  <2>1. "offset1" \in Names /\ q["offset1"] # << >> /\ <<u + 1, 0>> \in Place
        /\ Passes(Slots(g)["offset1"], rd["offset1"], <<u, 0>>, <<u + 1, 0>>)
    BY <1>1, <1>2, <1>3, <1>5, <1>8 DEF CoreReads
  <2>2. end = Says(g)["offset1"][<<u, 0>>]
    BY <2>1, SlotRead
  <2>. QED BY <1>1, <1>5, <2>2, SaysFacts, ZenonT(30) DEF EndOf
<1>10. /\ Says(g)["col1End"][<<u, 0>>] = FALSE
       /\ Says(g)["copyNum"][<<u, 0>>] = end - core.begin
  <2>1. Says(g)["col1End"][<<u, 0>>] = FALSE
    BY <1>1, <1>6, ListFlags, Zenon
  <2>2. Says(g)["copyNum"][<<u, 0>>] = end - core.begin
    <3>1. Says(g)["copyNum"] = ListLength(g)
      BY SaysFacts
    <3>. QED BY <1>1, <1>5, <1>9, <3>1 DEF ListLength
  <2>. QED BY <2>1, <2>2
<1>11. /\ IsMove(D, CoreReads) /\ IsMove(E, CoreWrites)
       /\ DOMAIN D = {"offset1", "offset1End"} /\ DOMAIN E = {"col1End", "copyNum"}
       /\ DOMAIN writes = {"col1End", "copyNum"}
  BY <1>5 DEF IsMove, CoreReads, CoreWrites
<1>12. Flow(g, Moved(rd, D), Moved(wr, E))'
  <2>1. \A s \in {"offset1End", "offset1"} : \E x : Passes(Slots(g)[s], rd[s], x, D[s])
    BY <1>1, <1>5, <1>8
  <2>2. /\ Passes(Slots(g)["col1End"], wr["col1End"], <<u, 0>>, E["col1End"])
        /\ writes["col1End"] = Says(g)["col1End"][<<u, 0>>]
        /\ Passes(Slots(g)["copyNum"], wr["copyNum"], <<u, 0>>, E["copyNum"])
        /\ writes["copyNum"] = Says(g)["copyNum"][<<u, 0>>]
    BY <1>1, <1>5, <1>8, <1>10
  <2>. HIDE DEF D, E, writes
  <2>3. \A s \in DOMAIN writes : \E x : Passes(Slots(g)[s], wr[s], x, E[s])
                                        /\ writes[s] = Says(g)[s][x]
    BY <1>11, <2>2
  <2>4. {"offset1End", "offset1"} \cap DOMAIN writes = {}
    BY <1>11
  <2>. QED BY <1>2, <1>3, <1>11, <2>1, <2>3, <2>4, TurnFlow
<1>13. CoreAt(g, Moved(rd, D), Moved(wr, E))'
  <2>1. /\ Moved(rd, D)["offset1"] = <<u + 1, 0>> /\ Moved(rd, D)["offset1End"] = <<u + 1, 0>>
        /\ Moved(rd, D)["row1"] = rd["row1"] /\ Moved(rd, D)["row1End"] = rd["row1End"]
        /\ Moved(wr, E)["col1End"] = <<u + 1, 0>> /\ Moved(wr, E)["copyNum"] = <<u + 1, 0>>
        /\ Moved(wr, E)["col1"] = wr["col1"] /\ Moved(wr, E)["col1BlockEnd"] = wr["col1BlockEnd"]
    BY <1>11 DEF Moved, Names, Between, Start
  <2>2. g.offsets[u] <= g.offsets[u + 1] /\ g.offsets[u + 1] \in 0 .. N(g)
    <3>1. u \in 0 .. NVertices /\ u + 1 \in 0 .. NVertices
      BY <1>1, <1>7, CsrFacts
    <3>. QED BY <1>1, <3>1, CsrFacts, SMTT(30)
  <2>3. core' = [pc |-> IF core.begin < end THEN "row" ELSE "end", begin |-> core.begin,
                 end |-> end, i |-> core.begin]
    BY DEF CoreVertex, CoreAt
  <2>4. /\ rd["row1"] = <<core.i + 1, 0>> /\ wr["col1"] = <<core.i + 1, 0>>
        /\ rd["row1End"] = <<core.i + 1, 0>> /\ wr["col1BlockEnd"] = <<core.i + 1, 0>>
    BY <1>1 DEF CoreAt
  <2>5. PICK e : e = end
    OBVIOUS
  <2>6. PICK c : c = core.begin
    OBVIOUS
  <2>7. e = g.offsets[u + 1] /\ c = g.offsets[u] /\ c \in 0 .. N(g) /\ core.i = c
        /\ c \in Int /\ e \in Int /\ c <= e
    BY <1>1, <1>9, <2>2, <2>5, <2>6
  <2>8. u + 1 \in 1 .. nLists /\ u + 1 - 1 = u /\ u + 1 \in 0 .. nLists + 1 /\ u + 1 <= nLists
    BY <1>1, <1>7
  <2>9. core' = [pc |-> IF c < e THEN "row" ELSE "end", begin |-> c, end |-> e, i |-> c]
    BY <2>3, <2>5, <2>6
  <2>. HIDE DEF D, E, writes, end
  <2>10. CASE c < e
    <3>1. /\ core'.pc = "row" /\ core'.begin = c /\ core'.end = e /\ core'.i = c
          /\ core' = [pc |-> core'.pc, begin |-> core'.begin, end |-> core'.end, i |-> core'.i]
      BY <2>9, <2>10
    <3>2. c <= c
      BY <2>7
    <3>3. PICK m : m = u + 1 /\ m - 1 = u /\ m \in 1 .. nLists /\ m \in 0 .. nLists + 1
      BY <1>1, <1>7
    <3>4. /\ m \in 1 .. nLists /\ m \in 0 .. nLists + 1 /\ c = g.offsets[m - 1] /\ e = g.offsets[m]
          /\ Moved(rd, D)["offset1"] = <<m, 0>> /\ Moved(rd, D)["offset1"][1] = m
      <4>2. Moved(rd, D)["offset1"] = <<m, 0>>
        BY <2>1, <3>3
      <4>3. c = g.offsets[m - 1] /\ e = g.offsets[m]
        BY <2>7, <3>3, Zenon
      <4>. QED BY <3>3, <4>2, <4>3
    <3>5. /\ Moved(rd, D)["offset1End"] = <<m, 0>>
          /\ Moved(wr, E)["col1End"] = <<m, 0>> /\ Moved(wr, E)["copyNum"] = <<m, 0>>
          /\ Moved(rd, D)["row1"] = <<c + 1, 0>> /\ Moved(rd, D)["row1End"] = <<c + 1, 0>>
          /\ Moved(wr, E)["col1"] = <<c + 1, 0>> /\ Moved(wr, E)["col1BlockEnd"] = <<c + 1, 0>>
      BY <2>1, <2>4, <2>7, <3>3
    <3>. QED BY <2>7, <2>10, <3>1, <3>2, <3>4, <3>5 DEF CoreAt
  <2>11. CASE ~(c < e)
    <3>1. c = e
      BY <2>7, <2>11
    <3>2. /\ core'.pc = "end" /\ core'.begin = c /\ core'.end = e /\ core'.i = c
          /\ core' = [pc |-> core'.pc, begin |-> core'.begin, end |-> core'.end, i |-> core'.i]
      BY <2>9, <2>11
    <3>. QED BY <2>1, <2>4, <2>7, <2>8, <3>1, <3>2 DEF CoreAt
  <2>. QED BY <2>10, <2>11
<1>. QED BY <1>11, <1>12, <1>13

LEMMA CoreRowTurn ==
  ASSUME NEW g \in Files, off = g.offsets, rows = g.columns, NEW rd \in [Names -> Place],
         NEW wr \in [Names -> Place], Flow(g, rd, wr), CoreAt(g, rd, wr), CoreRow
  PROVE  \E D, E : /\ IsMove(D, CoreReads) /\ IsMove(E, CoreWrites)
                   /\ Flow(g, Moved(rd, D), Moved(wr, E))'
                   /\ CoreAt(g, Moved(rd, D), Moved(wr, E))'
<1>p. PICK p : p = core.i + 1
  OBVIOUS
<1>u. PICK u : u = rd["offset1"][1]
  OBVIOUS
<1>e. PICK e : e = core.end
  OBVIOUS
<1> DEFINE last == p = e
           next == <<p + 1, 0>>
           D == [row1 |-> next, row1End |-> next]
           E == [col1 |-> next, col1BlockEnd |-> IF last THEN <<p, 1>> ELSE next]
           writes == [col1 |-> Head(q["row1"]), col1BlockEnd |-> FALSE]
<1>1. /\ core.pc = "row" /\ u \in 1 .. nLists /\ core.begin = g.offsets[u - 1]
      /\ e = g.offsets[u] /\ core.begin < p /\ p <= e
      /\ rd["row1"] = <<p, 0>> /\ rd["row1End"] = <<p, 0>>
      /\ wr["col1"] = <<p, 0>> /\ wr["col1BlockEnd"] = <<p, 0>>
      /\ p \in Int /\ p - 1 \in 0 .. N(g) /\ core.i = p - 1 /\ nLists \in Nat /\ N(g) \in Nat
  <2>1. /\ core.pc = "row" /\ u \in 1 .. nLists /\ core.begin = g.offsets[u - 1]
        /\ e = g.offsets[u] /\ core.begin <= core.i /\ core.i < e
        /\ rd["row1"] = <<p, 0>> /\ rd["row1End"] = <<p, 0>>
        /\ wr["col1"] = <<p, 0>> /\ wr["col1BlockEnd"] = <<p, 0>> /\ core.i \in 0 .. N(g)
    BY <1>p, <1>u, <1>e DEF CoreAt, CoreRow
  <2>2. nLists \in Nat /\ N(g) \in Nat
    BY CsrFacts
  <2>3. p \in Int /\ p - 1 \in 0 .. N(g) /\ core.i = p - 1
    BY <1>p, <2>1, <2>2
  <2>4. core.begin < p /\ p <= e
    <3>1. u - 1 \in 0 .. nLists /\ u \in 0 .. nLists
      BY <2>1, <2>2
    <3>2. core.begin \in Nat /\ e \in Nat
      BY <2>1, <3>1, OffsetFacts
    <3>. QED BY <2>1, <2>2, <2>3, <3>2
  <2>. QED BY <2>1, <2>2, <2>3, <2>4
<1>2. Turn({"row1", "row1End"}, writes) /\ q["row1"] # << >> /\ q["row1End"] # << >>
  BY DEF CoreRow, Turn
<1>3. /\ g.offsets[u - 1] \in Nat /\ g.offsets[u] \in Nat /\ g.offsets[u] <= N(g)
      /\ u - 1 \in ListsOf(g) /\ u - 1 + 1 = u
  <2>1. u - 1 \in 0 .. nLists /\ u \in 0 .. nLists /\ u - 1 # nLists /\ u - 1 + 1 = u
    BY <1>1
  <2>. QED BY <2>1, OffsetFacts
<1>4. /\ p \in Rows(g) /\ p \in 1 .. N(g) + 1
      /\ Rows(g) \in SUBSET Int /\ 1 .. N(g) + 1 \in SUBSET Int
      /\ p \in Int /\ <<p, 0>> \in Place /\ next \in Place /\ <<p, 1>> \in Place
  BY <1>1, <1>3 DEF Rows, Place
<1>5. p \in Closing(g) <=> last
  <2>1. p \in 1 .. N(g) /\ g.offsets[u - 1] < p /\ p <= g.offsets[u - 1 + 1]
    BY <1>1, <1>3, <1>4 DEF Rows
  <2>2. ListEnd(g, p) = e
    BY <1>1, <1>3, <2>1, ListFacts
  <2>. QED BY <2>1, <2>2 DEF Closing
<1>6. /\ Passes(Slots(g)["row1"], rd["row1"], <<p, 0>>, next)
      /\ Passes(Slots(g)["row1End"], rd["row1End"], <<p, 0>>, next)
      /\ Passes(Slots(g)["col1"], wr["col1"], <<p, 0>>, next)
  BY <1>1, <1>4, NextFlat, SlotFacts
<1>7. Passes(Slots(g)["col1BlockEnd"], wr["col1BlockEnd"], <<p, 0>>, E["col1BlockEnd"])
  BY <1>1, <1>4, <1>5, BlockSlots, SlotFacts
<1>8. Head(q["row1"]) = Says(g)["row1"][<<p, 0>>]
  <2>1. /\ "row1" \in Names /\ q["row1"] # << >> /\ next \in Place
        /\ Passes(Slots(g)["row1"], rd["row1"], <<p, 0>>, next)
    BY <1>2, <1>4, <1>6, CoreNames DEF CoreReads
  <2>. QED BY <2>1, SlotRead
<1>9. /\ writes["col1"] = Says(g)["col1"][<<p, 0>>]
      /\ writes["col1BlockEnd"] = Says(g)["col1BlockEnd"][<<p, 0>>]
  <2>1. /\ Says(g)["col1"][<<p, 0>>] = g.columns[p]
        /\ Says(g)["row1"][<<p, 0>>] = g.columns[p]
    BY <1>4, ColumnSaid
  <2>2. Says(g)["col1BlockEnd"][<<p, 0>>] = FALSE
    <3>1. p \in Int /\ 0 \in Int /\ 0 # 1
      BY <1>4
    <3>. QED BY <3>1, ClosingFlags, Zenon
  <2>. QED BY <1>8, <2>1, <2>2
<1>10. /\ IsMove(D, CoreReads) /\ IsMove(E, CoreWrites)
       /\ DOMAIN D = {"row1", "row1End"} /\ DOMAIN E = {"col1", "col1BlockEnd"}
       /\ DOMAIN writes = {"col1", "col1BlockEnd"}
       /\ D["row1"] = next /\ D["row1End"] = next /\ E["col1"] = next
       /\ E["col1BlockEnd"] = IF last THEN <<p, 1>> ELSE next
  BY <1>4 DEF IsMove, CoreReads, CoreWrites
<1>11. core' = [pc |-> IF last THEN "block" ELSE "row", begin |-> core.begin,
                end |-> e, i |-> p]
  <2>1. core' = [core EXCEPT !.i = p, !.pc = IF p < e THEN "row" ELSE "block"]
    BY <1>p, <1>e DEF CoreRow
  <2>2. p < e <=> ~last
    BY <1>1, <1>3
  <2>. QED BY <1>p, <1>e, <2>1, <2>2 DEF CoreAt
<1>. HIDE DEF D, E, writes
<1>12. Flow(g, Moved(rd, D), Moved(wr, E))'
  <2>1. \A s \in {"row1", "row1End"} : \E x : Passes(Slots(g)[s], rd[s], x, D[s])
    BY <1>6, <1>10
  <2>2. \A s \in DOMAIN writes : \E x : Passes(Slots(g)[s], wr[s], x, E[s])
                                        /\ writes[s] = Says(g)[s][x]
    BY <1>6, <1>7, <1>9, <1>10
  <2>3. {"row1", "row1End"} \cap DOMAIN writes = {}
    BY <1>10
  <2>. QED BY <1>2, <1>10, <2>1, <2>2, <2>3, CoreNames, TurnFlow
<1>13. CoreAt(g, Moved(rd, D), Moved(wr, E))'
  <2>1. /\ Moved(rd, D)["offset1"] = rd["offset1"] /\ Moved(rd, D)["offset1End"] = rd["offset1End"]
        /\ Moved(rd, D)["row1"] = next /\ Moved(rd, D)["row1End"] = next
        /\ Moved(wr, E)["col1End"] = wr["col1End"] /\ Moved(wr, E)["copyNum"] = wr["copyNum"]
        /\ Moved(wr, E)["col1"] = next /\ Moved(wr, E)["col1BlockEnd"] = E["col1BlockEnd"]
    BY <1>10 DEF Moved, Names, Between, Start
  <2>2. /\ rd["offset1"] = <<u, 0>> /\ rd["offset1End"] = <<u, 0>>
        /\ wr["col1End"] = <<u, 0>> /\ wr["copyNum"] = <<u, 0>>
    BY <1>u DEF CoreAt
  <2>3. p \in 0 .. N(g) /\ core.begin <= p /\ core.begin < e
    BY <1>1, <1>3
  <2>4. p < e <=> ~last
    BY <1>1, <1>3
  <2>. QED BY <1>1, <1>10, <1>11, <2>1, <2>2, <2>3, <2>4 DEF CoreAt
<1>. QED BY <1>10, <1>12, <1>13

LEMMA CoreBlockTurn ==
  ASSUME NEW g \in Files, off = g.offsets, rows = g.columns, NEW rd \in [Names -> Place],
         NEW wr \in [Names -> Place], Flow(g, rd, wr), CoreAt(g, rd, wr), CoreBlock
  PROVE  \E D, E : /\ IsMove(D, CoreReads) /\ IsMove(E, CoreWrites)
                   /\ Flow(g, Moved(rd, D), Moved(wr, E))'
                   /\ CoreAt(g, Moved(rd, D), Moved(wr, E))'
<1>p. PICK p : p = core.i
  OBVIOUS
<1>u. PICK u : u = rd["offset1"][1]
  OBVIOUS
<1> DEFINE E == [col1BlockEnd |-> <<p + 1, 0>>]
           writes == [col1BlockEnd |-> TRUE]
<1>1. /\ core.pc = "block" /\ u \in 1 .. nLists /\ core.begin = g.offsets[u - 1]
      /\ core.end = g.offsets[u] /\ core.begin < core.end /\ p = core.end
      /\ wr["col1BlockEnd"] = <<p, 1>>
  BY <1>p, <1>u DEF CoreAt, CoreBlock
<1>2. Turn({}, writes)
  BY DEF CoreBlock
<1>3. /\ g.offsets[u - 1] \in Nat /\ p \in Nat /\ p <= N(g) /\ N(g) \in Nat
      /\ u - 1 \in ListsOf(g) /\ u - 1 + 1 = u /\ u <= nLists
  <2>1. u - 1 \in 0 .. nLists /\ u \in 0 .. nLists /\ u - 1 # nLists /\ u - 1 + 1 = u
    BY <1>1, CsrFacts
  <2>. QED BY <1>1, <2>1, OffsetFacts, CsrFacts
<1>4. p \in Rows(g) /\ p \in 1 .. N(g) /\ p \in Int /\ <<p + 1, 0>> \in Place
  BY <1>1, <1>3 DEF Rows, Place
<1>5. p \in Closing(g)
  <2>1. g.offsets[u - 1] < p /\ p <= g.offsets[u - 1 + 1] /\ p = g.offsets[u - 1 + 1]
    BY <1>1, <1>3
  <2>2. ListEnd(g, p) = p
    BY <1>3, <1>4, <2>1, ListFacts
  <2>. QED BY <1>4, <2>2 DEF Closing
<1>6. Passes(Slots(g)["col1BlockEnd"], wr["col1BlockEnd"], <<p, 1>>, <<p + 1, 0>>)
  BY <1>1, <1>4, <1>5, BlockSlots, SlotFacts
<1>7. Says(g)["col1BlockEnd"][<<p, 1>>] = TRUE
  <2>1. 1 \in Int /\ p \in Int
    BY <1>4
  <2>. QED BY <2>1, ClosingFlags, Zenon
<1>8. /\ IsMove(Nothing, CoreReads) /\ IsMove(E, CoreWrites) /\ DOMAIN Nothing = {}
      /\ DOMAIN E = {"col1BlockEnd"} /\ DOMAIN writes = {"col1BlockEnd"}
      /\ E["col1BlockEnd"] = <<p + 1, 0>> /\ writes["col1BlockEnd"] = TRUE
  BY <1>4 DEF IsMove, CoreReads, CoreWrites, Nothing
<1>9. core' = [pc |-> "end", begin |-> core.end, end |-> core.end, i |-> core.i]
  BY DEF CoreBlock, CoreAt
<1>. HIDE DEF E, writes
<1>10. Flow(g, Moved(rd, Nothing), Moved(wr, E))'
  <2>1. \A s \in DOMAIN writes : \E x : Passes(Slots(g)[s], wr[s], x, E[s])
                                        /\ writes[s] = Says(g)[s][x]
    BY <1>6, <1>7, <1>8
  <2>2. /\ {} \cap DOMAIN writes = {} /\ {} \subseteq DOMAIN Nothing
        /\ DOMAIN writes \subseteq DOMAIN E
        /\ DOMAIN Nothing \ {} = {} /\ DOMAIN E \ DOMAIN writes = {}
    BY <1>8
  <2>3. /\ \A s \in {} : \E x : Passes(Slots(g)[s], rd[s], x, Nothing[s])
        /\ \A s \in DOMAIN Nothing \ {} : Rests(Slots(g)[s], rd[s], Nothing[s])
        /\ \A s \in DOMAIN E \ DOMAIN writes : Rests(Slots(g)[s], wr[s], E[s])
    BY <2>2
  <2>. QED BY <1>2, <1>8, <2>1, <2>2, <2>3, CoreNames, TurnFlow
<1>11. CoreAt(g, Moved(rd, Nothing), Moved(wr, E))'
  <2>1. /\ Moved(rd, Nothing)["offset1"] = rd["offset1"]
        /\ Moved(rd, Nothing)["offset1End"] = rd["offset1End"]
        /\ Moved(rd, Nothing)["row1"] = rd["row1"] /\ Moved(rd, Nothing)["row1End"] = rd["row1End"]
        /\ Moved(wr, E)["col1End"] = wr["col1End"] /\ Moved(wr, E)["copyNum"] = wr["copyNum"]
        /\ Moved(wr, E)["col1"] = wr["col1"] /\ Moved(wr, E)["col1BlockEnd"] = <<p + 1, 0>>
    BY <1>8 DEF Moved, Names, Between, Start
  <2>2. /\ rd["offset1"] = <<u, 0>> /\ rd["offset1End"] = <<u, 0>>
        /\ wr["col1End"] = <<u, 0>> /\ wr["copyNum"] = <<u, 0>>
        /\ rd["row1"] = <<p + 1, 0>> /\ wr["col1"] = <<p + 1, 0>> /\ rd["row1End"] = <<p + 1, 0>>
        /\ u \in 0 .. nLists + 1 /\ core.i \in 0 .. N(g)
    BY <1>1, <1>u, <1>p DEF CoreAt
  <2>. QED BY <1>1, <1>3, <1>9, <1>p, <2>1, <2>2 DEF CoreAt
<1>. QED BY <1>8, <1>10, <1>11

LEMMA CoreEndTurn ==
  ASSUME NEW g \in Files, off = g.offsets, rows = g.columns, NEW rd \in [Names -> Place],
         NEW wr \in [Names -> Place], Flow(g, rd, wr), CoreAt(g, rd, wr), CoreEnd
  PROVE  \E D, E : /\ IsMove(D, CoreReads) /\ IsMove(E, CoreWrites)
                   /\ Flow(g, Moved(rd, D), Moved(wr, E))'
                   /\ CoreAt(g, Moved(rd, D), Moved(wr, E))'
<1>u. PICK u : u = rd["offset1"][1]
  OBVIOUS
<1>n. PICK n : n = N(g)
  OBVIOUS
<1> DEFINE D == [offset1 |-> <<u + 1, 0>>, offset1End |-> <<u + 1, 0>>, row1End |-> <<n + 2, 0>>]
           E == [col1End |-> <<u + 1, 0>>, copyNum |-> <<u + 1, 0>>]
           writes == [col1End |-> TRUE]
<1>1. /\ core.pc = "end" /\ u \in 0 .. nLists /\ core.begin = core.i /\ core.i = g.offsets[u]
      /\ rd["offset1"] = <<u, 0>> /\ rd["offset1End"] = <<u, 0>>
      /\ wr["col1End"] = <<u, 0>> /\ wr["copyNum"] = <<u, 0>>
      /\ rd["row1End"] = <<core.i + 1, 0>>
      /\ core.i \in 0 .. n /\ nLists \in Nat /\ n \in Nat /\ u \in Int
  BY <1>u, <1>n, CsrFacts DEF CoreAt, CoreEnd
<1>2. /\ Turn({"offset1End", "row1End"}, writes)
      /\ q["offset1End"] # << >> /\ q["row1End"] # << >> /\ Head(q["offset1End"]) # FALSE
  BY DEF CoreEnd, Turn, Ends
<1>3. ListsOf(g) \in SUBSET Int /\ 0 .. nLists \in SUBSET Int /\ 1 .. n + 1 \in SUBSET Int
  BY <1>1 DEF ListsOf
<1>4. /\ Passes(Slots(g)["offset1End"], <<u, 0>>, <<u, 0>>, <<u + 1, 0>>)
      /\ Passes(Slots(g)["col1End"], <<u, 0>>, <<u, 0>>, <<u + 1, 0>>)
      /\ <<u, 0>> \in Place /\ <<u + 1, 0>> \in Place
  BY <1>1, <1>3, NextFlat, SlotFacts
<1>5. u = nLists
  <2>1. "offset1End" \in Names
    BY CoreNames DEF CoreReads
  <2>2. Head(q["offset1End"]) = Says(g)["offset1End"][<<u, 0>>]
    <3>1. /\ q["offset1End"] # << >> /\ <<u + 1, 0>> \in Place
          /\ Passes(Slots(g)["offset1End"], rd["offset1End"], <<u, 0>>, <<u + 1, 0>>)
      BY <1>1, <1>2, <1>4
    <3>. QED BY <2>1, <3>1, SlotRead
  <2>3. u # nLists => Says(g)["offset1End"][<<u, 0>>] = FALSE
    BY <1>1, ListFlags, Zenon
  <2>. QED BY <1>2, <2>2, <2>3
<1>6. core.i = n /\ rd["row1End"] = <<n + 1, 0>>
  BY <1>1, <1>5, <1>n, CsrFacts
<1>7. /\ Passes(Slots(g)["row1End"], <<n + 1, 0>>, <<n + 1, 0>>, <<n + 2, 0>>)
      /\ <<n + 2, 0>> \in Place
  <2>1. n + 1 \in 1 .. n + 1 /\ n + 1 + 1 = n + 2 /\ Slots(g)["row1End"] = Flat(1 .. n + 1)
    BY <1>1, <1>n, SlotFacts
  <2>. QED BY <1>3, <2>1, NextFlat
<1>8. /\ Rests(Slots(g)["offset1"], <<u, 0>>, <<u + 1, 0>>)
      /\ Rests(Slots(g)["copyNum"], <<u, 0>>, <<u + 1, 0>>)
  <2>1. Slots(g)["offset1"] = Flat(ListsOf(g)) /\ Slots(g)["copyNum"] = Flat(ListsOf(g))
    BY SlotFacts
  <2>2. \A y \in Flat(ListsOf(g)) : y[1] \in Int /\ y[1] < u /\ y[2] = 0
    BY <1>1, <1>5 DEF Flat, ListsOf
  <2>3. Rests(Flat(ListsOf(g)), <<u, 0>>, <<u + 1, 0>>)
    BY <1>1, <2>2 DEF Rests, Before
  <2>. QED BY <2>1, <2>3
<1>9. Says(g)["col1End"][<<u, 0>>] = TRUE
  BY <1>1, <1>5, ListFlags, Zenon
<1>10. /\ IsMove(D, CoreReads) /\ IsMove(E, CoreWrites)
       /\ DOMAIN D = {"offset1", "offset1End", "row1End"} /\ DOMAIN E = {"col1End", "copyNum"}
       /\ DOMAIN writes = {"col1End"} /\ writes["col1End"] = TRUE
       /\ D["offset1"] = <<u + 1, 0>> /\ D["offset1End"] = <<u + 1, 0>>
       /\ D["row1End"] = <<n + 2, 0>>
       /\ E["col1End"] = <<u + 1, 0>> /\ E["copyNum"] = <<u + 1, 0>>
  BY <1>4, <1>7 DEF IsMove, CoreReads, CoreWrites
<1>11. core' = [core EXCEPT !.pc = "done"]
  BY DEF CoreEnd
<1>. HIDE DEF D, E, writes
<1>12. Flow(g, Moved(rd, D), Moved(wr, E))'
  <2>1. \A s \in {"offset1End", "row1End"} : \E x : Passes(Slots(g)[s], rd[s], x, D[s])
    BY <1>1, <1>4, <1>6, <1>7, <1>10
  <2>2. \A s \in DOMAIN writes : \E x : Passes(Slots(g)[s], wr[s], x, E[s])
                                        /\ writes[s] = Says(g)[s][x]
    BY <1>1, <1>4, <1>9, <1>10, ZenonT(30)
  <2>3. \A s \in DOMAIN D \ {"offset1End", "row1End"} : Rests(Slots(g)[s], rd[s], D[s])
    BY <1>1, <1>8, <1>10
  <2>4. \A s \in DOMAIN E \ DOMAIN writes : Rests(Slots(g)[s], wr[s], E[s])
    BY <1>1, <1>8, <1>10
  <2>5. {"offset1End", "row1End"} \cap DOMAIN writes = {}
        /\ {"offset1End", "row1End"} \subseteq DOMAIN D /\ DOMAIN writes \subseteq DOMAIN E
    BY <1>10
  <2>. QED BY <1>2, <1>10, <2>1, <2>2, <2>3, <2>4, <2>5, CoreNames, TurnFlow, ZenonT(30)
<1>13. CoreAt(g, Moved(rd, D), Moved(wr, E))'
  <2>1. /\ Moved(rd, D)["offset1"] = <<u + 1, 0>> /\ Moved(rd, D)["offset1End"] = <<u + 1, 0>>
        /\ Moved(rd, D)["row1"] = rd["row1"] /\ Moved(rd, D)["row1End"] = <<n + 2, 0>>
        /\ Moved(wr, E)["col1End"] = <<u + 1, 0>> /\ Moved(wr, E)["copyNum"] = <<u + 1, 0>>
        /\ Moved(wr, E)["col1"] = wr["col1"] /\ Moved(wr, E)["col1BlockEnd"] = wr["col1BlockEnd"]
    BY <1>10 DEF Moved, Names, Between, Start
  <2>2. core' = [pc |-> "done", begin |-> core.begin, end |-> core.end, i |-> core.i]
    BY <1>11 DEF CoreAt
  <2>3. /\ rd["row1"] = <<core.i + 1, 0>> /\ wr["col1"] = <<core.i + 1, 0>>
        /\ wr["col1BlockEnd"] = <<core.i + 1, 0>>
    BY <1>1 DEF CoreAt
  <2>4. u + 1 = nLists + 1 /\ u + 1 \in 0 .. nLists + 1
    BY <1>1, <1>5
  <2>. QED BY <1>1, <1>6, <1>n, <2>1, <2>2, <2>3, <2>4 DEF CoreAt
<1>. QED BY <1>10, <1>12, <1>13
-----------------------------------------------------------------------------
(* offset2NoOrderReadPart1 has taken v lists.                              *)
ReduceReads  == {"offset12", "offset1End2", "row12", "row1End2"}
ReduceWrites == {"row1Reduce", "row1ReduceEnd"}

ReduceAt(g, rd, wr) ==
  LET v == rd["offset12"][1] IN
  /\ reduce = [pc |-> reduce.pc, begin |-> reduce.begin, end |-> reduce.end, i |-> reduce.i]
  /\ v \in 0 .. nLists + 1 /\ reduce.i \in 0 .. N(g)
  /\ rd["offset12"] = <<v, 0>> /\ rd["offset1End2"] = <<v, 0>>
  /\ rd["row12"] = <<reduce.i + 1, 0>> /\ wr["row1Reduce"] = <<reduce.i + 1, 0>>
  /\ rd["row1End2"] = <<IF reduce.pc = "done" THEN reduce.i + 2 ELSE reduce.i + 1, 0>>
  /\ wr["row1ReduceEnd"] = <<IF reduce.pc = "done" THEN reduce.i + 2 ELSE reduce.i + 1, 0>>
  /\ \/ /\ reduce.pc = "end" /\ v <= nLists
        /\ reduce.i = reduce.end /\ reduce.end = g.offsets[v]
     \/ /\ reduce.pc = "row" /\ v \in 1 .. nLists
        /\ reduce.begin = g.offsets[v - 1] /\ reduce.end = g.offsets[v]
        /\ reduce.begin <= reduce.i /\ reduce.i < reduce.end
     \/ reduce.pc = "done" /\ v = nLists + 1 /\ reduce.i = N(g)

LEMMA ReduceNames ==
  /\ ReduceReads \in SUBSET Names /\ ReduceWrites \in SUBSET Names
  /\ \A s \in ReduceReads \cup ReduceWrites : s \in Names
  /\ ReduceReads \cap ReduceWrites = {}
BY DEF ReduceReads, ReduceWrites, Names, Between, Start
LEMMA ReduceVertexTurn ==
  ASSUME NEW g \in Files, off = g.offsets, rows = g.columns, NEW rd \in [Names -> Place],
         NEW wr \in [Names -> Place], Flow(g, rd, wr), ReduceAt(g, rd, wr), ReduceVertex
  PROVE  \E D, E : /\ IsMove(D, ReduceReads) /\ IsMove(E, ReduceWrites)
                   /\ Flow(g, Moved(rd, D), Moved(wr, E))'
                   /\ ReduceAt(g, Moved(rd, D), Moved(wr, E))'
<1>u. PICK u : u = rd["offset12"][1]
  OBVIOUS
<1> DEFINE end == Head(q["offset12"])
           D == [offset12 |-> <<u + 1, 0>>, offset1End2 |-> <<u + 1, 0>>]
           reads == {"offset1End2", "offset12"}
<1>1. /\ reduce.pc = "end" /\ u \in 0 .. nLists /\ reduce.i = reduce.end
      /\ reduce.i = g.offsets[u]
      /\ rd["offset12"] = <<u, 0>> /\ rd["offset1End2"] = <<u, 0>>
      /\ reduce.i \in 0 .. N(g) /\ nLists \in Nat /\ N(g) \in Nat /\ u \in Int
  BY <1>u, CsrFacts DEF ReduceAt, ReduceVertex
<1>2. /\ Turn(reads, Nothing)
      /\ q["offset1End2"] # << >> /\ q["offset12"] # << >> /\ Head(q["offset1End2"]) # TRUE
  BY DEF ReduceVertex, Turn, More
<1>3. ListsOf(g) \in SUBSET Int /\ 0 .. nLists \in SUBSET Int
  BY <1>1 DEF ListsOf
<1>4. /\ Passes(Slots(g)["offset1End2"], rd["offset1End2"], <<u, 0>>, <<u + 1, 0>>)
      /\ <<u, 0>> \in Place /\ <<u + 1, 0>> \in Place
  BY <1>1, <1>3, NextFlat, SlotFacts
<1>5. u # nLists
  <2>1. "offset1End2" \in Names
    BY ReduceNames DEF ReduceReads
  <2>2. Head(q["offset1End2"]) = Says(g)["offset1End2"][<<u, 0>>]
    BY <1>2, <1>4, <2>1, SlotRead
  <2>3. u = nLists => Says(g)["offset1End2"][<<u, 0>>] = TRUE
    BY <1>1, ListFlags, Zenon
  <2>. QED BY <1>2, <2>2, <2>3
<1>6. u \in ListsOf(g) /\ u + 1 \in 1 .. nLists /\ u + 1 - 1 = u
      /\ g.offsets[u] <= g.offsets[u + 1] /\ g.offsets[u + 1] \in 0 .. N(g)
  <2>1. u + 1 \in 0 .. nLists /\ u + 1 \in 1 .. nLists /\ u + 1 - 1 = u
    BY <1>1, <1>5
  <2>. QED BY <1>1, <1>5, <2>1, OffsetFacts
<1>7. Passes(Slots(g)["offset12"], rd["offset12"], <<u, 0>>, <<u + 1, 0>>)
  BY <1>1, <1>3, <1>6, NextFlat, SlotFacts
<1>8. end = g.offsets[u + 1]
  <2>1. "offset12" \in Names
    BY ReduceNames DEF ReduceReads
  <2>2. end = Says(g)["offset12"][<<u, 0>>]
    BY <1>2, <1>4, <1>7, <2>1, SlotRead
  <2>. QED BY <1>1, <1>4, <2>2, SaysFacts, ZenonT(30) DEF EndOf
<1>9. Takes(g, rd, D, reads)
  BY <1>4, <1>7 DEF Takes
<1>10. /\ DOMAIN D \subseteq ReduceReads
       /\ D["offset12"] = <<u + 1, 0>> /\ D["offset1End2"] = <<u + 1, 0>>
       /\ DOMAIN D = {"offset12", "offset1End2"}
  BY DEF ReduceReads
<1>11. reduce' = [pc |-> IF g.offsets[u] < g.offsets[u + 1] THEN "row" ELSE "end",
                  begin |-> g.offsets[u], end |-> g.offsets[u + 1], i |-> g.offsets[u]]
  <2>1. reduce' = [reduce EXCEPT !.pc = IF reduce.end < end THEN "row" ELSE "end",
                                 !.begin = reduce.end, !.i = reduce.end, !.end = end]
    BY DEF ReduceVertex
  <2>2. /\ reduce = [pc |-> reduce.pc, begin |-> reduce.begin, end |-> reduce.end, i |-> reduce.i]
        /\ reduce.end = g.offsets[u]
    BY <1>1 DEF ReduceAt
  <2>. HIDE DEF end
  <2>. QED BY <1>8, <2>1, <2>2
<1>. HIDE DEF D, reads
<1>12. /\ IsMove(D, ReduceReads) /\ IsMove(Nothing, ReduceWrites)
       /\ Flow(g, Moved(rd, D), Moved(wr, Nothing))'
  <2>1. Puts(g, wr, Nothing, Nothing) /\ DOMAIN Nothing \subseteq ReduceWrites
    BY NoMove
  <2>. QED BY <1>2, <1>9, <1>10, <2>1, ReduceNames, MoveFlow
<1>13. ReduceAt(g, Moved(rd, D), Moved(wr, Nothing))'
  <2>1. /\ Moved(rd, D)["offset12"] = <<u + 1, 0>> /\ Moved(rd, D)["offset1End2"] = <<u + 1, 0>>
        /\ Moved(rd, D)["row12"] = rd["row12"] /\ Moved(rd, D)["row1End2"] = rd["row1End2"]
        /\ Moved(wr, Nothing)["row1Reduce"] = wr["row1Reduce"]
        /\ Moved(wr, Nothing)["row1ReduceEnd"] = wr["row1ReduceEnd"]
    BY <1>10, NoMove DEF Moved, Names, Between, Start
  <2>2. /\ rd["row12"] = <<reduce.i + 1, 0>> /\ wr["row1Reduce"] = <<reduce.i + 1, 0>>
        /\ rd["row1End2"] = <<reduce.i + 1, 0>> /\ wr["row1ReduceEnd"] = <<reduce.i + 1, 0>>
    BY <1>1 DEF ReduceAt
  <2>. QED BY <1>1, <1>6, <1>11, <2>1, <2>2, SMTT(30) DEF ReduceAt
<1>. QED BY <1>12, <1>13

LEMMA ReduceRowTurn ==
  ASSUME NEW g \in Files, off = g.offsets, rows = g.columns, NEW rd \in [Names -> Place],
         NEW wr \in [Names -> Place], Flow(g, rd, wr), ReduceAt(g, rd, wr), ReduceRow
  PROVE  \E D, E : /\ IsMove(D, ReduceReads) /\ IsMove(E, ReduceWrites)
                   /\ Flow(g, Moved(rd, D), Moved(wr, E))'
                   /\ ReduceAt(g, Moved(rd, D), Moved(wr, E))'
<1>p. PICK p : p = reduce.i + 1
  OBVIOUS
<1>u. PICK u : u = rd["offset12"][1]
  OBVIOUS
<1>b. PICK b : b = reduce.begin
  OBVIOUS
<1>e. PICK e : e = reduce.end
  OBVIOUS
<1> DEFINE next == <<p + 1, 0>>
           D == [row12 |-> next, row1End2 |-> next]
           E == [row1Reduce |-> next, row1ReduceEnd |-> next]
           reads == {"row12", "row1End2"}
           both == [row1Reduce |-> Head(q["row12"]), row1ReduceEnd |-> FALSE]
           writes == IF b + 1 < e THEN both ELSE Nothing
<1>1. /\ reduce.pc = "row" /\ u \in 1 .. nLists /\ b = g.offsets[u - 1]
      /\ e = g.offsets[u] /\ b <= reduce.i /\ reduce.i < e
      /\ rd["row12"] = <<p, 0>> /\ rd["row1End2"] = <<p, 0>>
      /\ wr["row1Reduce"] = <<p, 0>> /\ wr["row1ReduceEnd"] = <<p, 0>>
      /\ reduce.i \in 0 .. N(g)
  BY <1>p, <1>u, <1>b, <1>e DEF ReduceAt, ReduceRow
<1>2. /\ Turn(reads, writes)
      /\ q["row12"] # << >> /\ q["row1End2"] # << >>
  BY <1>b, <1>e DEF ReduceRow, SendsList, Turn
<1>3. /\ b \in Nat /\ e \in Nat /\ e <= N(g) /\ N(g) \in Nat
      /\ u - 1 \in ListsOf(g) /\ u - 1 + 1 = u
      /\ p \in Int /\ b < p /\ p <= e /\ p - 1 = reduce.i /\ 1 <= p
  <2>1. u - 1 \in 0 .. nLists /\ u \in 0 .. nLists /\ u - 1 # nLists /\ u - 1 + 1 = u
    BY <1>1, CsrFacts, SMTT(30)
  <2>2. b \in Nat /\ e \in Nat /\ e <= N(g) /\ N(g) \in Nat /\ u - 1 \in ListsOf(g)
    BY <1>1, <2>1, OffsetFacts, CsrFacts
  <2>. QED BY <1>p, <1>1, <2>1, <2>2
<1>4. /\ p \in Rows(g) /\ p \in 1 .. N(g) /\ p \in 1 .. N(g) + 1 /\ p # N(g) + 1
      /\ <<p, 0>> \in Place /\ next \in Place
  BY <1>3 DEF Rows, Place
<1>5. p \in Kept(g) <=> b + 1 < e
  <2>1. ListStart(g, p) = b /\ ListEnd(g, p) = e
    BY <1>1, <1>3, <1>4, ListFacts
  <2>. QED BY <1>4, <2>1 DEF Kept
<1>6. /\ Passes(Slots(g)["row12"], rd["row12"], <<p, 0>>, next)
      /\ Passes(Slots(g)["row1End2"], rd["row1End2"], <<p, 0>>, next)
  <2>1. Rows(g) \in SUBSET Int /\ 1 .. N(g) + 1 \in SUBSET Int
    BY <1>3, SlotsArePlaces
  <2>. QED BY <1>1, <1>4, <2>1, NextFlat, SlotFacts
<1>7. Takes(g, rd, D, reads)
  BY <1>4, <1>6 DEF Takes
<1>8. Puts(g, wr, E, writes)
  <2>1. Kept(g) \in SUBSET Int /\ KeptOrEnd(g) \in SUBSET Int
    BY SlotsArePlaces
  <2>2. CASE b + 1 < e
    <3>1. p \in Kept(g) /\ p \in KeptOrEnd(g)
      BY <1>5, <2>2 DEF KeptOrEnd
    <3>2. /\ Passes(Slots(g)["row1Reduce"], wr["row1Reduce"], <<p, 0>>, next)
          /\ Passes(Slots(g)["row1ReduceEnd"], wr["row1ReduceEnd"], <<p, 0>>, next)
      BY <1>1, <2>1, <3>1, NextFlat, SlotFacts
    <3>3. Head(q["row12"]) = Says(g)["row1Reduce"][<<p, 0>>]
      <4>1. "row12" \in Names /\ q["row12"] # << >> /\ next \in Place
            /\ Passes(Slots(g)["row12"], rd["row12"], <<p, 0>>, next)
        BY <1>2, <1>4, <1>6, ReduceNames DEF ReduceReads
      <4>2. Head(q["row12"]) = Says(g)["row12"][<<p, 0>>]
        BY <4>1, SlotRead
      <4>3. Says(g)["row12"] = Column(g) /\ Says(g)["row1Reduce"] = Column(g)
        BY SaysFacts
      <4>. QED BY <4>2, <4>3
    <3>4. Says(g)["row1ReduceEnd"][<<p, 0>>] = FALSE
      <4>1. p # N(g) + 1 /\ p \in Int /\ 0 \in Int
        BY <1>3, <1>4
      <4>. QED BY <4>1, RowFlags, ZenonT(30)
    <3>5. writes = both
      BY <2>2
    <3>6. /\ DOMAIN both = {"row1Reduce", "row1ReduceEnd"} /\ DOMAIN E = DOMAIN both
          /\ both["row1Reduce"] = Head(q["row12"]) /\ both["row1ReduceEnd"] = FALSE
          /\ E["row1Reduce"] = next /\ E["row1ReduceEnd"] = next
      OBVIOUS
    <3>. HIDE DEF E, both
    <3>7. Puts(g, wr, E, both)
      BY <1>4, <3>2, <3>3, <3>4, <3>6 DEF Puts
    <3>. QED BY <3>5, <3>7
  <2>3. CASE ~(b + 1 < e)
    <3>1. p \notin Kept(g) /\ p \notin KeptOrEnd(g)
      BY <1>4, <1>5, <2>3 DEF KeptOrEnd
    <3>2. /\ Rests(Slots(g)["row1Reduce"], wr["row1Reduce"], next)
          /\ Rests(Slots(g)["row1ReduceEnd"], wr["row1ReduceEnd"], next)
      BY <1>1, <1>3, <2>1, <3>1, FlatRests, SlotFacts
    <3>3. writes = Nothing
      BY <2>3
    <3>4. DOMAIN writes = {}
      BY <3>3, NoMove
    <3>5. DOMAIN E = {"row1Reduce", "row1ReduceEnd"}
          /\ E["row1Reduce"] = next /\ E["row1ReduceEnd"] = next
      OBVIOUS
    <3>. HIDE DEF E, writes
    <3>. QED BY <1>4, <3>2, <3>4, <3>5 DEF Puts
  <2>. QED BY <2>2, <2>3
<1>9. /\ DOMAIN D \subseteq ReduceReads /\ DOMAIN E \subseteq ReduceWrites
      /\ DOMAIN D = reads /\ DOMAIN E = {"row1Reduce", "row1ReduceEnd"}
      /\ D["row12"] = next /\ D["row1End2"] = next
      /\ E["row1Reduce"] = next /\ E["row1ReduceEnd"] = next
  BY DEF ReduceReads, ReduceWrites
<1>10. reduce' = [pc |-> IF p < e THEN "row" ELSE "end", begin |-> b, end |-> e, i |-> p]
  <2>1. reduce' = [reduce EXCEPT !.i = p, !.pc = IF p < e THEN "row" ELSE "end"]
    BY <1>p, <1>e DEF ReduceRow
  <2>. QED BY <1>b, <1>e, <2>1 DEF ReduceAt
<1>. HIDE DEF D, E, writes, both
<1>11. /\ IsMove(D, ReduceReads) /\ IsMove(E, ReduceWrites)
       /\ Flow(g, Moved(rd, D), Moved(wr, E))'
  BY <1>2, <1>7, <1>8, <1>9, ReduceNames, MoveFlow
<1>12. ReduceAt(g, Moved(rd, D), Moved(wr, E))'
  <2>1. /\ Moved(rd, D)["offset12"] = rd["offset12"] /\ Moved(rd, D)["offset1End2"] = rd["offset1End2"]
        /\ Moved(rd, D)["row12"] = next /\ Moved(rd, D)["row1End2"] = next
        /\ Moved(wr, E)["row1Reduce"] = next /\ Moved(wr, E)["row1ReduceEnd"] = next
    BY <1>9 DEF Moved, Names, Between, Start
  <2>2. /\ rd["offset12"] = <<u, 0>> /\ rd["offset1End2"] = <<u, 0>> /\ u \in 0 .. nLists + 1
    BY <1>u DEF ReduceAt
  <2>3. p \in 0 .. N(g) /\ b <= p /\ (~(p < e) => p = e) /\ u <= nLists
    <3>1. u <= nLists
      BY <1>1, OffsetTypes
    <3>2. p \in 0 .. N(g) /\ b <= p /\ (~(p < e) => p = e)
      BY <1>3
    <3>. QED BY <3>1, <3>2
  <2>. QED BY <1>1, <1>10, <2>1, <2>2, <2>3 DEF ReduceAt
<1>. QED BY <1>11, <1>12

LEMMA ReduceEndTurn ==
  ASSUME NEW g \in Files, off = g.offsets, rows = g.columns, NEW rd \in [Names -> Place],
         NEW wr \in [Names -> Place], Flow(g, rd, wr), ReduceAt(g, rd, wr), ReduceEnd
  PROVE  \E D, E : /\ IsMove(D, ReduceReads) /\ IsMove(E, ReduceWrites)
                   /\ Flow(g, Moved(rd, D), Moved(wr, E))'
                   /\ ReduceAt(g, Moved(rd, D), Moved(wr, E))'
<1>u. PICK u : u = rd["offset12"][1]
  OBVIOUS
<1>n. PICK n : n = N(g)
  OBVIOUS
<1> DEFINE D == [offset12 |-> <<u + 1, 0>>, offset1End2 |-> <<u + 1, 0>>, row1End2 |-> <<n + 2, 0>>]
           E == [row1ReduceEnd |-> <<n + 2, 0>>]
           writes == [row1ReduceEnd |-> TRUE]
           reads == {"offset1End2", "row1End2"}
<1>1. /\ reduce.pc = "end" /\ u \in 0 .. nLists /\ reduce.i = g.offsets[u]
      /\ rd["offset12"] = <<u, 0>> /\ rd["offset1End2"] = <<u, 0>>
      /\ rd["row1End2"] = <<reduce.i + 1, 0>> /\ wr["row1ReduceEnd"] = <<reduce.i + 1, 0>>
      /\ reduce.i \in 0 .. n /\ nLists \in Nat /\ n \in Nat /\ u \in Int
  BY <1>u, <1>n, CsrFacts DEF ReduceAt, ReduceEnd
<1>2. /\ Turn(reads, writes)
      /\ q["offset1End2"] # << >> /\ q["row1End2"] # << >> /\ Head(q["offset1End2"]) # FALSE
  BY DEF ReduceEnd, Turn, Ends
<1>3. ListsOf(g) \in SUBSET Int /\ 0 .. nLists \in SUBSET Int /\ 1 .. n + 1 \in SUBSET Int
  BY <1>1 DEF ListsOf
<1>4. /\ Passes(Slots(g)["offset1End2"], rd["offset1End2"], <<u, 0>>, <<u + 1, 0>>)
      /\ <<u, 0>> \in Place /\ <<u + 1, 0>> \in Place
  BY <1>1, <1>3, NextFlat, SlotFacts
<1>5. u = nLists
  <2>1. /\ "offset1End2" \in Names /\ q["offset1End2"] # << >> /\ <<u + 1, 0>> \in Place
        /\ Passes(Slots(g)["offset1End2"], rd["offset1End2"], <<u, 0>>, <<u + 1, 0>>)
    BY <1>2, <1>4, ReduceNames DEF ReduceReads
  <2>2. Head(q["offset1End2"]) = Says(g)["offset1End2"][<<u, 0>>]
    BY <2>1, SlotRead
  <2>3. u # nLists => Says(g)["offset1End2"][<<u, 0>>] = FALSE
    BY <1>1, ListFlags, Zenon
  <2>. QED BY <1>2, <2>2, <2>3
<1>6. /\ reduce.i = n /\ rd["row1End2"] = <<n + 1, 0>> /\ wr["row1ReduceEnd"] = <<n + 1, 0>>
  BY <1>1, <1>5, <1>n, CsrFacts
<1>7. /\ Passes(Slots(g)["row1End2"], rd["row1End2"], <<n + 1, 0>>, <<n + 2, 0>>)
      /\ Passes(Slots(g)["row1ReduceEnd"], wr["row1ReduceEnd"], <<n + 1, 0>>, <<n + 2, 0>>)
      /\ <<n + 2, 0>> \in Place
  <2>1. /\ n + 1 \in 1 .. n + 1 /\ n + 1 + 1 = n + 2 /\ Slots(g)["row1End2"] = Flat(1 .. n + 1)
        /\ n + 1 \in KeptOrEnd(g) /\ Slots(g)["row1ReduceEnd"] = Flat(KeptOrEnd(g))
        /\ KeptOrEnd(g) \in SUBSET Int
    BY <1>1, <1>n, SlotFacts, SlotsArePlaces, SMTT(30) DEF KeptOrEnd
  <2>. QED BY <1>3, <1>6, <2>1, NextFlat
<1>8. Rests(Slots(g)["offset12"], rd["offset12"], <<u + 1, 0>>)
  <2>1. u \notin ListsOf(g) /\ Slots(g)["offset12"] = Flat(ListsOf(g))
    BY <1>1, <1>5, SlotFacts DEF ListsOf
  <2>. QED BY <1>1, <1>3, <2>1, FlatRests
<1>9. Says(g)["row1ReduceEnd"][<<n + 1, 0>>] = TRUE
  <2>1. n + 1 \in Int /\ 0 \in Int /\ n + 1 = N(g) + 1
    BY <1>1, <1>n
  <2>. QED BY <2>1, RowFlags, Zenon
<1>10. /\ IsMove(D, ReduceReads) /\ IsMove(E, ReduceWrites)
       /\ DOMAIN D = {"offset12", "offset1End2", "row1End2"} /\ DOMAIN E = {"row1ReduceEnd"}
       /\ DOMAIN writes = {"row1ReduceEnd"} /\ writes["row1ReduceEnd"] = TRUE
       /\ D["offset12"] = <<u + 1, 0>> /\ D["offset1End2"] = <<u + 1, 0>>
       /\ D["row1End2"] = <<n + 2, 0>> /\ E["row1ReduceEnd"] = <<n + 2, 0>>
  BY <1>4, <1>7 DEF IsMove, ReduceReads, ReduceWrites
<1>11. reduce' = [pc |-> "done", begin |-> reduce.begin, end |-> reduce.end, i |-> reduce.i]
  BY DEF ReduceEnd, ReduceAt
<1>. HIDE DEF D, E, writes
<1>12. Flow(g, Moved(rd, D), Moved(wr, E))'
  <2>1. \A s \in reads : \E x : Passes(Slots(g)[s], rd[s], x, D[s])
    BY <1>4, <1>7, <1>10
  <2>2. \A s \in DOMAIN writes : \E x : Passes(Slots(g)[s], wr[s], x, E[s])
                                        /\ writes[s] = Says(g)[s][x]
    BY <1>7, <1>9, <1>10
  <2>3. /\ \A s \in DOMAIN D \ reads : Rests(Slots(g)[s], rd[s], D[s])
        /\ \A s \in DOMAIN E \ DOMAIN writes : Rests(Slots(g)[s], wr[s], E[s])
    BY <1>8, <1>10
  <2>4. reads \cap DOMAIN writes = {} /\ reads \subseteq DOMAIN D /\ DOMAIN writes \subseteq DOMAIN E
    BY <1>10
  <2>. HIDE DEF reads
  <2>. QED BY <1>2, <1>10, <2>1, <2>2, <2>3, <2>4, ReduceNames, TurnFlow
<1>13. ReduceAt(g, Moved(rd, D), Moved(wr, E))'
  <2>1. /\ Moved(rd, D)["offset12"] = <<u + 1, 0>> /\ Moved(rd, D)["offset1End2"] = <<u + 1, 0>>
        /\ Moved(rd, D)["row12"] = rd["row12"] /\ Moved(rd, D)["row1End2"] = <<n + 2, 0>>
        /\ Moved(wr, E)["row1Reduce"] = wr["row1Reduce"]
        /\ Moved(wr, E)["row1ReduceEnd"] = <<n + 2, 0>>
    BY <1>10 DEF Moved, Names, Between, Start
  <2>2. rd["row12"] = <<reduce.i + 1, 0>> /\ wr["row1Reduce"] = <<reduce.i + 1, 0>>
    BY <1>1 DEF ReduceAt
  <2>3. u + 1 = nLists + 1 /\ u + 1 \in 0 .. nLists + 1
    BY <1>1, <1>5
  <2>. QED BY <1>1, <1>6, <1>n, <1>11, <2>1, <2>2, <2>3 DEF ReduceAt
<1>. QED BY <1>10, <1>12, <1>13
-----------------------------------------------------------------------------
(* The pairs of lists: p is the next one from x on, or the end.            *)
IsNext(g, x, p) == /\ x \in Int /\ p \in KeptOrEnd(g) /\ x <= p
                   /\ \A y \in KeptOrEnd(g) : x <= y => p <= y

PairEnds == {"row1ReduceEnd", "offset2End", "row2DistEnd", "col1CopyEnd", "tcEnd"}

LEMMA PairFlag ==
  ASSUME NEW g \in Files, NEW rd \in [Names -> Place], NEW wr \in [Names -> Place],
         Flow(g, rd, wr), NEW s \in PairEnds, NEW x \in Int, rd[s] = <<x, 0>>, q[s] # << >>
  PROVE  \E p : /\ IsNext(g, x, p)
                /\ p = N(g) + 1 => Head(q[s]) = TRUE
                /\ p # N(g) + 1 => Head(q[s]) = FALSE
<1>1. s \in Names /\ Slots(g)[s] = Flat(KeptOrEnd(g)) /\ KeptOrEnd(g) \in SUBSET Int
  BY SlotFacts, SlotsArePlaces DEF PairEnds, Names, Between
<1>2. PICK z \in Flat(KeptOrEnd(g)) :
        /\ ~Before(z, <<x, 0>>) /\ Head(q[s]) = Says(g)[s][z]
        /\ \A y \in Flat(KeptOrEnd(g)) : Before(y, <<x, 0>>) \/ y = z \/ Before(z, y)
  BY <1>1, ValueRead
<1>3. PICK p \in KeptOrEnd(g) : z = <<p, 0>>
  <2>1. z[1] \in KeptOrEnd(g) /\ z = <<z[1], 0>>
    BY DEF Flat
  <2>. QED BY <2>1
<1>4. p \in Int /\ x <= p
  BY <1>1, <1>2, <1>3 DEF Before
<1>5. ASSUME NEW y \in KeptOrEnd(g), x <= y PROVE p <= y
  <2>1. <<y, 0>> \in Flat(KeptOrEnd(g)) /\ y \in Int
    BY <1>1 DEF Flat
  <2>2. Before(<<y, 0>>, <<x, 0>>) \/ <<y, 0>> = z \/ Before(z, <<y, 0>>)
    BY <1>2, <2>1
  <2>. QED BY <1>3, <1>4, <1>5, <2>1, <2>2 DEF Before
<1>6. /\ p = N(g) + 1 => Head(q[s]) = TRUE
      /\ p # N(g) + 1 => Head(q[s]) = FALSE
  <2>1. /\ p # N(g) + 1 => Says(g)[s][<<p, 0>>] = FALSE
        /\ p = N(g) + 1 => Says(g)[s][<<p, 0>>] = TRUE
    <3>1. 0 \in Int /\ p \in Int /\ Says(g)[s] = IsLastRow(g)
      BY <1>4, SaysFacts DEF PairEnds
    <3>2. /\ p # N(g) + 1 => IsLastRow(g)[<<p, 0>>] = FALSE
          /\ p = N(g) + 1 => IsLastRow(g)[<<p, 0>>] = TRUE
      BY <3>1, LastRowFlags, Zenon
    <3>. QED BY <3>1, <3>2, Zenon
  <2>. QED BY <1>2, <1>3, <2>1, Zenon
<1>. QED BY <1>4, <1>5, <1>6 DEF IsNext

LEMMA PairSlots ==
  ASSUME NEW g \in Files, NEW x, NEW p, IsNext(g, x, p)
  PROVE  /\ p \in Int /\ x \in Int /\ x <= p /\ <<p, 0>> \in Place /\ <<p + 1, 0>> \in Place
         /\ Passes(Flat(KeptOrEnd(g)), <<x, 0>>, <<p, 0>>, <<p + 1, 0>>)
         /\ p # N(g) + 1 => /\ p \in Kept(g) /\ p \in Rows(g)
                            /\ Passes(Flat(Kept(g)), <<x, 0>>, <<p, 0>>, <<p + 1, 0>>)
         /\ p = N(g) + 1 => /\ Rests(Flat(Kept(g)), <<x, 0>>, <<p + 1, 0>>)
                            /\ \A y \in Kept(g) : y < x
<1>1. /\ Kept(g) \in SUBSET Rows(g) /\ Kept(g) \in SUBSET Int /\ KeptOrEnd(g) \in SUBSET Int
      /\ N(g) \in Nat
  BY SlotsArePlaces
<1>2. p \in Int /\ x \in Int /\ x <= p
  BY <1>1 DEF IsNext
<1>3. Passes(Flat(KeptOrEnd(g)), <<x, 0>>, <<p, 0>>, <<p + 1, 0>>)
  BY <1>1, <1>2, FlatSlots DEF IsNext
<1>4. ASSUME p # N(g) + 1
      PROVE  /\ p \in Kept(g) /\ p \in Rows(g)
             /\ Passes(Flat(Kept(g)), <<x, 0>>, <<p, 0>>, <<p + 1, 0>>)
  <2>1. p \in Kept(g)
    BY <1>4 DEF IsNext, KeptOrEnd
  <2>2. \A y \in Kept(g) : x <= y => p <= y
    BY DEF IsNext, KeptOrEnd
  <2>. QED BY <1>1, <1>2, <2>1, <2>2, FlatSlots
<1>5. ASSUME p = N(g) + 1
      PROVE  Rests(Flat(Kept(g)), <<x, 0>>, <<p + 1, 0>>) /\ \A y \in Kept(g) : y < x
  <2>1. \A y \in Kept(g) : y < x
    <3>1. \A y \in Kept(g) : x <= y => p <= y
      BY DEF IsNext, KeptOrEnd
    <3>2. \A y \in Kept(g) : y \in Int /\ y <= N(g)
      BY <1>1 DEF Rows
    <3>. QED BY <1>1, <1>2, <1>5, <3>1, <3>2
  <2>2. \A z \in Flat(Kept(g)) : z[1] \in Int /\ z[1] < x /\ z[2] = 0
    BY <1>1, <2>1 DEF Flat
  <2>3. Rests(Flat(Kept(g)), <<x, 0>>, <<p + 1, 0>>)
    BY <1>2, <2>2 DEF Rests, Before
  <2>. QED BY <2>1, <2>3
<1>. QED BY <1>2, <1>3, <1>4, <1>5 DEF Place

LEMMA Along ==
  ASSUME NEW S, NEW a, NEW b, NEW c, NEW x, Rests(S, a, b)
  PROVE  /\ Rests(S, b, c) => Rests(S, a, c)
         /\ Passes(S, b, x, c) => Passes(S, a, x, c)
         /\ Passes(S, c, x, a) => Passes(S, c, x, b)
BY DEF Rests, Passes

(* Slots of lists, those of pair p between first and last.                 *)
LEMMA ListSlots ==
  ASSUME NEW S \in SUBSET Place, NEW p \in Int, NEW first \in Int, NEW last \in Int,
         \A z \in Place : z[1] = p => (z \in S <=> first <= z[2] /\ z[2] <= last),
         \A z \in S : z[2] >= 0
  PROVE  \A r \in Int :
           /\ <<p, r>> \in Place
           /\ first <= r /\ r <= last => Passes(S, <<p, r>>, <<p, r>>, <<p, r + 1>>)
           /\ r > last => Rests(S, <<p, r>>, <<p + 1, 0>>)
           /\ r <= first => Rests(S, <<p, r>>, <<p, first>>)
<1> SUFFICES ASSUME NEW r \in Int
             PROVE  /\ <<p, r>> \in Place
                    /\ first <= r /\ r <= last => Passes(S, <<p, r>>, <<p, r>>, <<p, r + 1>>)
                    /\ r > last => Rests(S, <<p, r>>, <<p + 1, 0>>)
                    /\ r <= first => Rests(S, <<p, r>>, <<p, first>>)
  OBVIOUS
<1>1. <<p, r>> \in Place
  BY DEF Place
<1>2. ASSUME NEW z \in S
      PROVE  /\ z[1] \in Int /\ z[2] \in Int /\ (z = <<p, r>> <=> z[1] = p /\ z[2] = r)
             /\ z[1] = p => first <= z[2] /\ z[2] <= last
  <2>1. z \in Place /\ z = <<z[1], z[2]>>
    BY DEF Place
  <2>. QED BY <2>1 DEF Place
<1>3. first <= r /\ r <= last => Passes(S, <<p, r>>, <<p, r>>, <<p, r + 1>>)
  <2> SUFFICES ASSUME first <= r, r <= last PROVE Passes(S, <<p, r>>, <<p, r>>, <<p, r + 1>>)
    OBVIOUS
  <2>1. <<p, r>>[1] = p /\ <<p, r>>[2] = r
    OBVIOUS
  <2>2. <<p, r>> \in S /\ ~Before(<<p, r>>, <<p, r>>)
    BY <1>1, <2>1 DEF Before
  <2>. QED BY <1>2, <2>2 DEF Passes, Before
<1>4. r > last => Rests(S, <<p, r>>, <<p + 1, 0>>)
  <2> SUFFICES ASSUME r > last, NEW z \in S
               PROVE  Before(z, <<p, r>>) <=> Before(z, <<p + 1, 0>>)
    BY DEF Rests
  <2>1. z[1] \in Int /\ z[2] \in Int /\ (z[1] = p => z[2] <= last) /\ z[2] >= 0
    BY <1>2
  <2>2. Before(z, <<p, r>>) <=> z[1] < p \/ (z[1] = p /\ z[2] < r)
    BY DEF Before
  <2>3. Before(z, <<p + 1, 0>>) <=> z[1] < p + 1 \/ (z[1] = p + 1 /\ z[2] < 0)
    BY DEF Before
  <2>. QED BY <2>1, <2>2, <2>3
<1>5. r <= first => Rests(S, <<p, r>>, <<p, first>>)
  BY <1>2 DEF Rests, Before
<1>. QED BY <1>1, <1>3, <1>4, <1>5

LEMMA PairListSlots ==
  ASSUME NEW g \in Files, NEW p \in Kept(g), NEW k \in {0, 1}
  PROVE  \A r \in Int :
           /\ p + 1 <= r /\ r <= ListEnd(g, p) + k
                => Passes(Upper(g, k), <<p, r>>, <<p, r>>, <<p, r + 1>>)
           /\ r > ListEnd(g, p) + k => Rests(Upper(g, k), <<p, r>>, <<p + 1, 0>>)
           /\ r <= p + 1 => Rests(Upper(g, k), <<p, r>>, <<p, p + 1>>)
           /\ OtherStart(g, p) <= r /\ r < OtherEnd(g, p) + k
                => Passes(Lower(g, k), <<p, r>>, <<p, r>>, <<p, r + 1>>)
           /\ r >= OtherEnd(g, p) + k => Rests(Lower(g, k), <<p, r>>, <<p + 1, 0>>)
           /\ r <= OtherStart(g, p) => Rests(Lower(g, k), <<p, r>>, <<p, OtherStart(g, p)>>)
<1>1. /\ p \in Rows(g) /\ p \in Int /\ p \in 1 .. N(g) /\ Kept(g) \in SUBSET Rows(g) /\ N(g) \in Nat
  BY SlotsArePlaces DEF Rows
<1>2. ListEnd(g, p) \in Int /\ OtherStart(g, p) \in Int /\ OtherEnd(g, p) \in Int
  <2>1. ListEnd(g, p) \in 1 .. N(g)
    BY <1>1, ListFacts
  <2>2. OtherStart(g, p) \in 0 .. N(g) /\ OtherEnd(g, p) \in 0 .. N(g)
    BY <1>1, OtherFacts
  <2>. QED BY <1>1, <2>1, <2>2
<1>3. \A z \in Upper(g, k) : z \in Place /\ z[2] >= 0
  BY <1>1 DEF Upper, Place, Rows
<1>4. \A z \in Lower(g, k) : z \in Place /\ z[2] >= 0
  <2> SUFFICES ASSUME NEW z \in Lower(g, k) PROVE z \in Place /\ z[2] >= 0
    OBVIOUS
  <2>1. z \in Place /\ z[1] \in Kept(g) /\ OtherStart(g, z[1]) <= z[2] /\ z[2] \in Int
    BY DEF Lower, Place
  <2>2. z[1] \in 1 .. N(g)
    BY <1>1, <2>1 DEF Rows
  <2>3. OtherStart(g, z[1]) \in 0 .. N(g)
    BY <2>2, OtherFacts
  <2>. QED BY <1>1, <2>1, <2>3
<1>5. \A z \in Place : z[1] = p => (z \in Upper(g, k) <=> p + 1 <= z[2] /\ z[2] <= ListEnd(g, p) + k)
  BY <1>1, <1>2 DEF Upper, Place
<1>6. \A z \in Place : z[1] = p => (z \in Lower(g, k) <=> OtherStart(g, p) <= z[2]
                                                         /\ z[2] <= OtherEnd(g, p) + k - 1)
  BY <1>1, <1>2 DEF Lower, Place
<1>7. ASSUME NEW r \in Int
      PROVE  /\ p + 1 <= r /\ r <= ListEnd(g, p) + k
                  => Passes(Upper(g, k), <<p, r>>, <<p, r>>, <<p, r + 1>>)
             /\ r > ListEnd(g, p) + k => Rests(Upper(g, k), <<p, r>>, <<p + 1, 0>>)
             /\ r <= p + 1 => Rests(Upper(g, k), <<p, r>>, <<p, p + 1>>)
  <2> DEFINE S == Upper(g, k)
             first == p + 1
             last == ListEnd(g, p) + k
  <2>1. /\ S \in SUBSET Place /\ first \in Int /\ last \in Int /\ \A z \in S : z[2] >= 0
        /\ \A z \in Place : z[1] = p => (z \in S <=> first <= z[2] /\ z[2] <= last)
    BY <1>1, <1>2, <1>3, <1>5
  <2>. HIDE DEF S, first, last
  <2>2. /\ first <= r /\ r <= last => Passes(S, <<p, r>>, <<p, r>>, <<p, r + 1>>)
        /\ r > last => Rests(S, <<p, r>>, <<p + 1, 0>>)
        /\ r <= first => Rests(S, <<p, r>>, <<p, first>>)
    BY <1>1, <2>1, ListSlots
  <2>. QED BY <2>2 DEF S, first, last
<1>8. ASSUME NEW r \in Int
      PROVE  /\ OtherStart(g, p) <= r /\ r < OtherEnd(g, p) + k
                  => Passes(Lower(g, k), <<p, r>>, <<p, r>>, <<p, r + 1>>)
             /\ r >= OtherEnd(g, p) + k => Rests(Lower(g, k), <<p, r>>, <<p + 1, 0>>)
             /\ r <= OtherStart(g, p) => Rests(Lower(g, k), <<p, r>>, <<p, OtherStart(g, p)>>)
  <2> DEFINE S == Lower(g, k)
             first == OtherStart(g, p)
             last == OtherEnd(g, p) + k - 1
  <2>1. /\ S \in SUBSET Place /\ first \in Int /\ last \in Int /\ \A z \in S : z[2] >= 0
        /\ \A z \in Place : z[1] = p => (z \in S <=> first <= z[2] /\ z[2] <= last)
    BY <1>1, <1>2, <1>4, <1>6
  <2>2. /\ r < OtherEnd(g, p) + k <=> r <= last
        /\ r >= OtherEnd(g, p) + k <=> r > last
    BY <1>2
  <2>. HIDE DEF S, first, last
  <2>3. /\ first <= r /\ r <= last => Passes(S, <<p, r>>, <<p, r>>, <<p, r + 1>>)
        /\ r > last => Rests(S, <<p, r>>, <<p + 1, 0>>)
        /\ r <= first => Rests(S, <<p, r>>, <<p, first>>)
    BY <1>1, <2>1, ListSlots
  <2>. QED BY <2>2, <2>3 DEF S, first
<1>. QED BY <1>7, <1>8

(* From one pair to the next no slot of a list is passed.                  *)
LEMMA PairGap ==
  ASSUME NEW g \in Files, NEW x, NEW p, IsNext(g, x, p), NEW k \in {0, 1}
  PROVE  /\ Rests(Upper(g, k), <<x, 0>>, <<p, 0>>) /\ Rests(Lower(g, k), <<x, 0>>, <<p, 0>>)
         /\ p = N(g) + 1 => /\ Rests(Upper(g, k), <<x, 0>>, <<p + 1, 0>>)
                            /\ Rests(Lower(g, k), <<x, 0>>, <<p + 1, 0>>)
<1>1. /\ p \in Int /\ x \in Int /\ x <= p /\ N(g) \in Nat
      /\ \A y \in Kept(g) : y \in Int /\ (x <= y => p <= y) /\ y <= N(g)
  BY PairSlots, SlotsArePlaces DEF IsNext, KeptOrEnd, Rows
<1>2. \A z \in Upper(g, k) : z[1] \in Kept(g) /\ z[2] \in Int
  BY DEF Upper, Place
<1>3. \A z \in Lower(g, k) : z[1] \in Kept(g) /\ z[2] \in Int
  BY DEF Lower, Place
<1>4. \A z \in Upper(g, k) : z[2] >= 0
  BY <1>2 DEF Upper, Kept
<1>5. \A z \in Lower(g, k) : z[2] >= 0
  <2> SUFFICES ASSUME NEW z \in Lower(g, k) PROVE z[2] >= 0
    OBVIOUS
  <2>1. z[1] \in 1 .. N(g) /\ OtherStart(g, z[1]) <= z[2] /\ z[2] \in Int
    BY <1>3 DEF Lower, Kept
  <2>. QED BY <1>1, <2>1, OtherFacts
<1>6. ASSUME NEW S, \A z \in S : z[1] \in Kept(g) /\ z[2] \in Int /\ z[2] >= 0
      PROVE  /\ Rests(S, <<x, 0>>, <<p, 0>>)
             /\ p = N(g) + 1 => Rests(S, <<x, 0>>, <<p + 1, 0>>)
  <2> SUFFICES ASSUME NEW z \in S
               PROVE  /\ Before(z, <<x, 0>>) <=> Before(z, <<p, 0>>)
                      /\ p = N(g) + 1 => (Before(z, <<x, 0>>) <=> Before(z, <<p + 1, 0>>))
    BY DEF Rests
  <2>1. z[1] \in Int /\ z[2] \in Int /\ z[2] >= 0 /\ (x <= z[1] => p <= z[1]) /\ z[1] <= N(g)
    BY <1>1, <1>6
  <2>. QED BY <1>1, <2>1 DEF Before
<1>. QED BY <1>2, <1>3, <1>4, <1>5, <1>6

LEMMA UpperSlots ==
  ASSUME NEW g \in Files, NEW p \in Kept(g), NEW r \in Int
  PROVE  /\ p + 1 <= r /\ r <= ListEnd(g, p)
              => Passes(Upper(g, 0), <<p, r>>, <<p, r>>, <<p, r + 1>>)
         /\ r > ListEnd(g, p) => Rests(Upper(g, 0), <<p, r>>, <<p + 1, 0>>)
         /\ r <= p + 1 => Rests(Upper(g, 0), <<p, r>>, <<p, p + 1>>)
         /\ p + 1 <= r /\ r <= ListEnd(g, p) + 1
              => Passes(Upper(g, 1), <<p, r>>, <<p, r>>, <<p, r + 1>>)
         /\ r > ListEnd(g, p) + 1 => Rests(Upper(g, 1), <<p, r>>, <<p + 1, 0>>)
         /\ r <= p + 1 => Rests(Upper(g, 1), <<p, r>>, <<p, p + 1>>)
<1>1. 0 \in {0, 1} /\ 1 \in {0, 1}
  OBVIOUS
<1>2. p \in Rows(g) /\ ListEnd(g, p) \in Int
  <2>1. p \in 1 .. N(g) /\ N(g) \in Nat
    BY SlotsArePlaces DEF Rows
  <2>. QED BY <2>1, ListFacts DEF Rows
<1>3. ListEnd(g, p) + 0 = ListEnd(g, p)
  BY <1>2
<1>4. /\ p + 1 <= r /\ r <= ListEnd(g, p) + 0
           => Passes(Upper(g, 0), <<p, r>>, <<p, r>>, <<p, r + 1>>)
      /\ r > ListEnd(g, p) + 0 => Rests(Upper(g, 0), <<p, r>>, <<p + 1, 0>>)
      /\ r <= p + 1 => Rests(Upper(g, 0), <<p, r>>, <<p, p + 1>>)
  BY <1>1, PairListSlots, Zenon
<1>5. /\ p + 1 <= r /\ r <= ListEnd(g, p) + 1
           => Passes(Upper(g, 1), <<p, r>>, <<p, r>>, <<p, r + 1>>)
      /\ r > ListEnd(g, p) + 1 => Rests(Upper(g, 1), <<p, r>>, <<p + 1, 0>>)
      /\ r <= p + 1 => Rests(Upper(g, 1), <<p, r>>, <<p, p + 1>>)
  BY <1>1, PairListSlots, Zenon
<1>. QED BY <1>3, <1>4, <1>5

LEMMA LowerSlots ==
  ASSUME NEW g \in Files, NEW p \in Kept(g), NEW r \in Int
  PROVE  /\ OtherStart(g, p) <= r /\ r < OtherEnd(g, p)
              => Passes(Lower(g, 0), <<p, r>>, <<p, r>>, <<p, r + 1>>)
         /\ r >= OtherEnd(g, p) => Rests(Lower(g, 0), <<p, r>>, <<p + 1, 0>>)
         /\ r <= OtherStart(g, p) => Rests(Lower(g, 0), <<p, r>>, <<p, OtherStart(g, p)>>)
         /\ OtherStart(g, p) <= r /\ r <= OtherEnd(g, p)
              => Passes(Lower(g, 1), <<p, r>>, <<p, r>>, <<p, r + 1>>)
         /\ r > OtherEnd(g, p) => Rests(Lower(g, 1), <<p, r>>, <<p + 1, 0>>)
         /\ r <= OtherStart(g, p) => Rests(Lower(g, 1), <<p, r>>, <<p, OtherStart(g, p)>>)
<1>1. 0 \in {0, 1} /\ 1 \in {0, 1}
  OBVIOUS
<1>2. OtherEnd(g, p) \in Int
  <2>1. p \in 1 .. N(g) /\ N(g) \in Nat
    BY SlotsArePlaces DEF Rows
  <2>. QED BY <2>1, OtherFacts
<1>3. OtherEnd(g, p) + 0 = OtherEnd(g, p) /\ (r > OtherEnd(g, p) <=> r >= OtherEnd(g, p) + 1)
      /\ (r <= OtherEnd(g, p) <=> r < OtherEnd(g, p) + 1)
  BY <1>2
<1>4. /\ OtherStart(g, p) <= r /\ r < OtherEnd(g, p) + 0
           => Passes(Lower(g, 0), <<p, r>>, <<p, r>>, <<p, r + 1>>)
      /\ r >= OtherEnd(g, p) + 0 => Rests(Lower(g, 0), <<p, r>>, <<p + 1, 0>>)
      /\ r <= OtherStart(g, p) => Rests(Lower(g, 0), <<p, r>>, <<p, OtherStart(g, p)>>)
  BY <1>1, PairListSlots, Zenon
<1>5. /\ OtherStart(g, p) <= r /\ r < OtherEnd(g, p) + 1
           => Passes(Lower(g, 1), <<p, r>>, <<p, r>>, <<p, r + 1>>)
      /\ r >= OtherEnd(g, p) + 1 => Rests(Lower(g, 1), <<p, r>>, <<p + 1, 0>>)
      /\ r <= OtherStart(g, p) => Rests(Lower(g, 1), <<p, r>>, <<p, OtherStart(g, p)>>)
  BY <1>1, PairListSlots, Zenon
<1>. QED BY <1>3, <1>4, <1>5

(* The same from any place between two pairs.                              *)
LEMMA ListGap ==
  ASSUME NEW g \in Files, NEW x, NEW p, IsNext(g, x, p), p # N(g) + 1
  PROVE  /\ Rests(Upper(g, 0), <<x, 0>>, <<p, p + 1>>)
         /\ Rests(Upper(g, 1), <<x, 0>>, <<p, p + 1>>)
         /\ Rests(Lower(g, 0), <<x, 0>>, <<p, OtherStart(g, p)>>)
         /\ Rests(Lower(g, 1), <<x, 0>>, <<p, OtherStart(g, p)>>)
<1>1. /\ p \in Kept(g) /\ p \in 1 .. N(g) /\ 0 <= p + 1
  <2>1. p \in Kept(g) /\ p \in Rows(g)
    BY PairSlots
  <2>. QED BY <2>1, SlotsArePlaces DEF Rows
<1>2. 0 <= OtherStart(g, p) /\ 0 \in {0, 1} /\ 1 \in {0, 1} /\ 0 \in Int
  BY <1>1, OtherFacts
<1>3. /\ Rests(Upper(g, 0), <<x, 0>>, <<p, 0>>) /\ Rests(Lower(g, 0), <<x, 0>>, <<p, 0>>)
      /\ Rests(Upper(g, 1), <<x, 0>>, <<p, 0>>) /\ Rests(Lower(g, 1), <<x, 0>>, <<p, 0>>)
  BY <1>2, PairGap, Zenon
<1>4. /\ Rests(Upper(g, 0), <<p, 0>>, <<p, p + 1>>) /\ Rests(Upper(g, 1), <<p, 0>>, <<p, p + 1>>)
      /\ Rests(Lower(g, 0), <<p, 0>>, <<p, OtherStart(g, p)>>)
      /\ Rests(Lower(g, 1), <<p, 0>>, <<p, OtherStart(g, p)>>)
  BY <1>1, <1>2, UpperSlots, LowerSlots, Zenon
<1>. QED BY <1>3, <1>4, Along

LEMMA LastGap ==
  ASSUME NEW g \in Files, NEW x, NEW p, IsNext(g, x, p), p = N(g) + 1
  PROVE  /\ Rests(Upper(g, 0), <<x, 0>>, <<p + 1, 0>>)
         /\ Rests(Upper(g, 1), <<x, 0>>, <<p + 1, 0>>)
         /\ Rests(Lower(g, 0), <<x, 0>>, <<p + 1, 0>>)
         /\ Rests(Lower(g, 1), <<x, 0>>, <<p + 1, 0>>)
         /\ Rests(Lower(g, 0), <<x, 0>>, <<p, 0>>)
<1>1. 0 \in {0, 1} /\ 1 \in {0, 1}
  OBVIOUS
<1>. QED BY <1>1, PairGap, Zenon
-----------------------------------------------------------------------------
(* The pairs preProcessData writes are those of the offsets, as long as    *)
(* the length given to the kernel reaches the word with the last offset.   *)
LastWordHeld == (NVertices \div T) * T < numVertex

LEMMA Division ==
  ASSUME NEW a \in Nat, NEW b \in Nat, b > 0
  PROVE  /\ a \div b \in Nat /\ a % b \in 0 .. b - 1 /\ a = b * (a \div b) + (a % b)
<1>1. a \div b \in Nat /\ a % b \in 0 .. b - 1
  OBVIOUS
<1>2. \A c, d \in Int : c = a \div b /\ d = a % b => a = b * c + d
  OBVIOUS
<1>. QED BY <1>1, <1>2

LEMMA Quotient ==
  ASSUME NEW b \in Nat, b > 0, NEW k \in Int, NEW m \in Int
  PROVE  /\ k <= m => b * k <= b * m
         /\ k < m => b * k + b <= b * m
<1>1. k <= m => b * k <= b * m
  OBVIOUS
<1>2. k < m => b * k + b <= b * m
  <2>1. k < m => k + 1 <= m
    OBVIOUS
  <2>2. k + 1 <= m => b * (k + 1) <= b * m
    OBVIOUS
  <2>3. b * (k + 1) = b * k + b
    OBVIOUS
  <2>. QED BY <2>1, <2>2, <2>3
<1>. QED BY <1>1, <1>2

LEMMA OffsetPairs ==
  ASSUME NEW g \in Files, off = g.offsets, LastWordHeld, NEW v \in Vertex
  PROVE  offset2Arr(v) = <<g.offsets[v], g.offsets[v + 1]>>
<1> DEFINE h == T \div 2
           i == v \div h
           r == v % h
           j == i \div 2
           b == i % 2
           n == r + b * h
           W == (numVertex - 1) \div T
<1>1. /\ T \in Nat /\ T > 0 /\ T = 2 * h /\ h \in Nat /\ h > 0
      /\ v \in Nat /\ v <= NVertices - 1 /\ NVertices \in Nat
      /\ numVertex - 1 \in Nat /\ NVertices <= numVertex /\ numVertex \in Int
      /\ DOMAIN off = 0 .. NVertices
  <2>1. T \in Nat /\ T > 0 /\ T % 2 = 0 /\ NVertices \in Nat \ {0}
        /\ numVertex \in {NVertices, NVertices + 1}
    BY TriangleAssumption
  <2>2. T = 2 * (T \div 2) + (T % 2) /\ T \div 2 \in Nat
    BY <2>1
  <2>3. T = 2 * h /\ h \in Nat /\ h > 0
    <3>. HIDE DEF h
    <3>1. h \in Nat /\ T = 2 * h + (T % 2)
      BY <2>2 DEF h
    <3>. QED BY <2>1, <3>1
  <2>4. v \in Nat /\ v <= NVertices - 1
    BY <2>1 DEF Vertex
  <2>5. numVertex - 1 \in Nat /\ NVertices <= numVertex /\ numVertex \in Int
    BY <2>1
  <2>6. DOMAIN off = 0 .. NVertices
    BY CsrFacts
  <2>. HIDE DEF h
  <2>. QED BY <2>1, <2>3, <2>4, <2>5, <2>6
<1>. HIDE DEF h
<1>2. i \in Nat /\ r \in Nat /\ r < h /\ v = h * i + r
  <2>1. i \in Nat /\ r \in 0 .. h - 1 /\ v = h * i + r
    BY <1>1, Division
  <2>. HIDE DEF i, r
  <2>. QED BY <1>1, <2>1
<1>. HIDE DEF i, r
<1>3. j \in Nat /\ b \in {0, 1} /\ i = 2 * j + b
  BY <1>2
<1>. HIDE DEF j, b
<1>4. h * i = T * j + b * h
  <2>1. h * (2 * j + b) = (2 * h) * j + b * h
    BY <1>1, <1>3
  <2>. QED BY <1>1, <1>3, <2>1
<1>5. n \in Nat /\ n < T /\ v = T * j + n
  <2>1. b * h \in {0, h} /\ T * j \in Int
    BY <1>1, <1>3
  <2> DEFINE x == b * h
             y == T * j
  <2>2. n = r + x /\ v = y + x + r /\ x \in {0, h} /\ y \in Int
    BY <1>2, <1>4, <2>1
  <2>. HIDE DEF x, y, n
  <2>. QED BY <1>1, <1>2, <2>2, SMTT(30) DEF y
<1>. HIDE DEF n
<1>6. W \in Nat /\ numVertex - 1 < T * W + T /\ T * W <= numVertex - 1
  <2>1. W \in Nat /\ (numVertex - 1) % T \in 0 .. T - 1
        /\ numVertex - 1 = T * W + ((numVertex - 1) % T)
    BY <1>1, Division
  <2> DEFINE y == T * W
             m == (numVertex - 1) % T
  <2>2. y \in Int /\ m \in 0 .. T - 1 /\ numVertex - 1 = y + m /\ W \in Nat
    BY <1>1, <2>1
  <2>. HIDE DEF W, m
  <2>3. T * W = y
    OBVIOUS
  <2>. HIDE DEF y
  <2>. QED BY <1>1, <2>2, <2>3
<1>. HIDE DEF W
<1>7. T * j \in Int /\ T * W \in Int /\ T * (j + 1) = T * j + T /\ T * (j + 1) \in Int
      /\ j * T = T * j /\ (j + 1) * T = T * (j + 1)
  BY <1>1, <1>3, <1>6
<1>8. j <= W
  <2>1. ~(W < j)
    <3>1. W < j => T * W + T <= T * j
      BY <1>1, <1>3, <1>6, Quotient
    <3> DEFINE y == T * W
               z == T * j
    <3>2. /\ W < j => y + T <= z
          /\ y \in Int /\ z \in Int /\ v = z + n /\ numVertex - 1 < y + T
      BY <1>5, <1>6, <1>7, <3>1
    <3>. HIDE DEF y, z
    <3>. QED BY <1>1, <1>3, <1>5, <1>6, <3>2
  <2>. QED BY <1>3, <1>6, <2>1
<1>9. LastWordRead(i - 1) = j
  <2>1. (i - 1 + 1) \div 2 = j
    BY <1>2, <1>3
  <2>. QED BY <1>3, <1>6, <1>8, <2>1 DEF LastWordRead, Smaller, W
<1>10. Held(i, n) = g.offsets[v]
  <2>1. (LastWordRead(i - 1) * T) + n = v
    BY <1>5, <1>7, <1>9
  <2>2. v \in DOMAIN off
    BY <1>1
  <2>. QED BY <1>5, <2>1, <2>2 DEF Held
<1>11. Held(i, n + 1) = g.offsets[v + 1]
  <2>1. v + 1 \in DOMAIN off
    BY <1>1
  <2>2. CASE n + 1 < T
    <3>1. (LastWordRead(i - 1) * T) + (n + 1) = v + 1
      BY <1>1, <1>5, <1>7, <1>9, SMTT(30)
    <3>. QED BY <2>1, <2>2, <3>1 DEF Held
  <2>3. CASE ~(n + 1 < T)
    <3>1. n + 1 = T /\ v + 1 = T * (j + 1) /\ n + 1 - T = 0
      BY <1>1, <1>5, <1>7, <2>3, SMTT(30)
    <3>2. b = 1
      <4>1. b = 0 => n = r
        BY <1>1, <1>2 DEF n
      <4>. QED BY <1>1, <1>2, <1>3, <3>1, <4>1
    <3>3. (i + 1) \div 2 = j + 1
      BY <1>2, <1>3, <3>2
    <3>4. v + 1 <= numVertex - 1
      <4>1. CASE v + 1 < NVertices
        BY <1>1, <4>1
      <4>2. CASE v + 1 = NVertices
        <5>1. NVertices \div T = j + 1
          <6>1. NVertices = T * (j + 1) + 0
            BY <1>1, <3>1, <4>2
          <6> DEFINE d == NVertices \div T
                     m == NVertices % T
          <6>2. d \in Nat /\ m \in 0 .. T - 1 /\ NVertices = T * d + m
            BY <1>1, Division
          <6>. HIDE DEF d, m
          <6>3. ~(d < j + 1)
            <7>1. d < j + 1 => T * d + T <= T * (j + 1)
              BY <1>1, <1>3, <6>2, Quotient
            <7>2. T * d \in Int
              BY <1>1, <6>2
            <7>. QED BY <1>1, <1>7, <6>1, <6>2, <7>1, <7>2
          <6>4. ~(j + 1 < d)
            <7>1. j + 1 < d => T * (j + 1) + T <= T * d
              BY <1>1, <1>3, <6>2, Quotient
            <7>2. T * d \in Int
              BY <1>1, <6>2
            <7>. QED BY <1>1, <1>7, <6>1, <6>2, <7>1, <7>2, SMTT(30)
          <6>. QED BY <1>3, <6>2, <6>3, <6>4 DEF d
        <5>2. (NVertices \div T) * T = v + 1
          BY <1>7, <3>1, <5>1
        <5>. QED BY <1>1, <4>2, <5>2 DEF LastWordHeld
      <4>. QED BY <1>1, <4>1, <4>2
    <3>5. j + 1 <= W
      <4>1. ~(W < j + 1)
        <5>1. W < j + 1 => T * W + T <= T * (j + 1)
          BY <1>1, <1>3, <1>6, Quotient
        <5>. QED BY <1>1, <1>6, <1>7, <3>1, <3>4, <5>1
      <4>. QED BY <1>3, <1>6, <4>1
    <3>6. LastWordRead(i) = j + 1
      BY <1>3, <1>6, <3>3, <3>5 DEF LastWordRead, Smaller, W
    <3>7. (LastWordRead(i) * T) + (n + 1 - T) = v + 1
      BY <1>1, <1>7, <3>1, <3>6
    <3>8. ~(n + 1 < T) /\ v + 1 \in DOMAIN off
      BY <2>1, <2>3
    <3>9. LastWordRead(i) * T \in Int /\ n \in Int /\ T \in Int
      BY <1>1, <1>5, <1>7, <3>6
    <3>. QED BY <3>7, <3>8, <3>9 DEF Held
  <2>. QED BY <2>2, <2>3
<1>. QED BY <1>10, <1>11 DEF offset2Arr, h, i, r, n, b
LEMMA RowBound ==
  ASSUME NEW g \in Files, NEW p \in Rows(g)
  PROVE  p + 1 \in Int /\ p + 1 <= N(g) + 1 /\ p + 1 # N(g) + 2
BY SlotsArePlaces DEF Rows
-----------------------------------------------------------------------------
(* offset2NoOrderReadPart2 has passed the pairs before x.                  *)
PairsReads  == {"row1Reduce", "row1ReduceEnd"}
PairsWrites == {"offset2", "offset2End"}

PairsAt(g, rd, wr) ==
  LET x == rd["row1ReduceEnd"][1] IN
  /\ x \in Int /\ pairs = [pc |-> pairs.pc]
  /\ \A s \in PairsReads : rd[s] = <<x, 0>>
  /\ \A s \in PairsWrites : wr[s] = <<x, 0>>
  /\ IF pairs.pc = "done" THEN x = N(g) + 2 ELSE pairs.pc = "row" /\ x <= N(g) + 1

LEMMA PairsNames ==
  /\ PairsReads \in SUBSET Names /\ PairsWrites \in SUBSET Names
  /\ PairsReads \cap PairsWrites = {}
BY DEF PairsReads, PairsWrites, Names, Between, Start

LEMMA PairsRowTurn ==
  ASSUME NEW g \in Files, off = g.offsets, rows = g.columns, NEW rd \in [Names -> Place],
         NEW wr \in [Names -> Place], Flow(g, rd, wr), PairsAt(g, rd, wr), LastWordHeld, PairsRow
  PROVE  \E D, E : /\ IsMove(D, PairsReads) /\ IsMove(E, PairsWrites)
                   /\ Flow(g, Moved(rd, D), Moved(wr, E))'
                   /\ PairsAt(g, Moved(rd, D), Moved(wr, E))'
<1>x. PICK x : x = rd["row1ReduceEnd"][1]
  OBVIOUS
<1>1. /\ x \in Int /\ rd["row1Reduce"] = <<x, 0>> /\ rd["row1ReduceEnd"] = <<x, 0>>
      /\ wr["offset2"] = <<x, 0>> /\ wr["offset2End"] = <<x, 0>>
  BY <1>x DEF PairsAt, PairsReads, PairsWrites
<1> DEFINE value == offset2Arr(Head(q["row1Reduce"]))
           writes == [offset2 |-> value, offset2End |-> FALSE]
<1>2. /\ Turn(PairsReads, writes) /\ Head(q["row1ReduceEnd"]) # TRUE /\ pairs.pc = "row"
      /\ q["row1ReduceEnd"] # << >> /\ q["row1Reduce"] # << >> /\ pairs' = pairs
  <2>1. /\ Turn({"row1ReduceEnd", "row1Reduce"}, writes) /\ More("row1ReduceEnd")
        /\ pairs.pc = "row" /\ pairs' = pairs
    BY DEF PairsRow
  <2>2. {"row1ReduceEnd", "row1Reduce"} = PairsReads
    BY DEF PairsReads
  <2>. HIDE DEF writes
  <2>. QED BY <2>1, <2>2 DEF Turn, More
<1>3. PICK p : IsNext(g, x, p) /\ p # N(g) + 1
  BY <1>1, <1>2, PairFlag DEF PairEnds
<1> DEFINE next == <<p + 1, 0>>
           D == [row1Reduce |-> next, row1ReduceEnd |-> next]
           E == [offset2 |-> next, offset2End |-> next]
<1>4. /\ p \in Int /\ p \in Kept(g) /\ p \in Rows(g) /\ <<p, 0>> \in Place /\ next \in Place
      /\ Passes(Slots(g)["row1Reduce"], rd["row1Reduce"], <<p, 0>>, next)
      /\ Passes(Slots(g)["row1ReduceEnd"], rd["row1ReduceEnd"], <<p, 0>>, next)
      /\ Passes(Slots(g)["offset2"], wr["offset2"], <<p, 0>>, next)
      /\ Passes(Slots(g)["offset2End"], wr["offset2End"], <<p, 0>>, next)
  BY <1>1, <1>3, PairSlots, SlotFacts
<1>5. value = Says(g)["offset2"][<<p, 0>>]
  <2>1. "row1Reduce" \in Names /\ q["row1Reduce"] # << >> /\ next \in Place
        /\ Passes(Slots(g)["row1Reduce"], rd["row1Reduce"], <<p, 0>>, next)
    BY <1>2, <1>4, PairsNames DEF PairsReads
  <2>2. Head(q["row1Reduce"]) = Says(g)["row1Reduce"][<<p, 0>>]
    BY <2>1, SlotRead
  <2>3. Head(q["row1Reduce"]) = g.columns[p]
    BY <1>4, <2>2, ColumnSaid
  <2>4. p \in 1 .. N(g)
    BY <1>4 DEF Rows
  <2>5. value = <<OtherStart(g, p), OtherEnd(g, p)>>
    BY <2>3, <2>4, OtherFacts, OffsetPairs DEF OtherStart, OtherEnd
  <2>. QED BY <1>4, <2>5, SaysFacts DEF OtherList
<1>6. Says(g)["offset2End"][<<p, 0>>] = FALSE
  <2>1. p # N(g) + 1 /\ p \in Int /\ 0 \in Int
    BY <1>3, <1>4
  <2>. QED BY <2>1, RowFlags, ZenonT(30)
<1>7. /\ DOMAIN D = PairsReads /\ DOMAIN E = PairsWrites /\ DOMAIN writes = PairsWrites
      /\ \A s \in PairsReads : D[s] = next
      /\ \A s \in PairsWrites : E[s] = next
      /\ writes["offset2"] = value /\ writes["offset2End"] = FALSE
  BY DEF PairsReads, PairsWrites
<1>. HIDE DEF D, E, writes, value
<1>8. Takes(g, rd, D, PairsReads) /\ Puts(g, wr, E, writes)
  BY <1>4, <1>5, <1>6, <1>7, ZenonT(30) DEF Takes, Puts, PairsReads, PairsWrites
<1>9. /\ IsMove(D, PairsReads) /\ IsMove(E, PairsWrites)
      /\ Flow(g, Moved(rd, D), Moved(wr, E))'
  BY <1>2, <1>7, <1>8, PairsNames, MoveFlow, ZenonT(30)
<1>10. PairsAt(g, Moved(rd, D), Moved(wr, E))'
  <2>1. /\ \A s \in PairsReads : Moved(rd, D)[s] = next
        /\ \A s \in PairsWrites : Moved(wr, E)[s] = next
        /\ Moved(rd, D)["row1ReduceEnd"] = next
    BY <1>7, PairsNames DEF Moved, PairsReads
  <2>. QED BY <1>2, <1>4, <2>1, RowBound DEF PairsAt
<1>. QED BY <1>9, <1>10

LEMMA PairsEndTurn ==
  ASSUME NEW g \in Files, off = g.offsets, rows = g.columns, NEW rd \in [Names -> Place],
         NEW wr \in [Names -> Place], Flow(g, rd, wr), PairsAt(g, rd, wr), PairsEnd
  PROVE  \E D, E : /\ IsMove(D, PairsReads) /\ IsMove(E, PairsWrites)
                   /\ Flow(g, Moved(rd, D), Moved(wr, E))'
                   /\ PairsAt(g, Moved(rd, D), Moved(wr, E))'
<1>x. PICK x : x = rd["row1ReduceEnd"][1]
  OBVIOUS
<1>1. /\ x \in Int /\ rd["row1Reduce"] = <<x, 0>> /\ rd["row1ReduceEnd"] = <<x, 0>>
      /\ wr["offset2"] = <<x, 0>> /\ wr["offset2End"] = <<x, 0>>
  BY <1>x DEF PairsAt, PairsReads, PairsWrites
<1> DEFINE writes == [offset2End |-> TRUE]
<1>2. /\ Turn({"row1ReduceEnd"}, writes) /\ Head(q["row1ReduceEnd"]) # FALSE
      /\ q["row1ReduceEnd"] # << >> /\ pairs' = [pc |-> "done"]
  BY DEF PairsEnd, Turn, Ends, PairsAt
<1>3. PICK p : IsNext(g, x, p) /\ p = N(g) + 1
  BY <1>1, <1>2, PairFlag, ZenonT(30) DEF PairEnds
<1> DEFINE next == <<p + 1, 0>>
           D == [row1Reduce |-> next, row1ReduceEnd |-> next]
           E == [offset2 |-> next, offset2End |-> next]
<1>4. /\ p \in Int /\ <<p, 0>> \in Place /\ next \in Place
      /\ Rests(Slots(g)["row1Reduce"], rd["row1Reduce"], next)
      /\ Passes(Slots(g)["row1ReduceEnd"], rd["row1ReduceEnd"], <<p, 0>>, next)
      /\ Rests(Slots(g)["offset2"], wr["offset2"], next)
      /\ Passes(Slots(g)["offset2End"], wr["offset2End"], <<p, 0>>, next)
  BY <1>1, <1>3, PairSlots, SlotFacts
<1>5. Says(g)["offset2End"][<<p, 0>>] = TRUE
  <2>1. p = N(g) + 1 /\ p \in Int /\ 0 \in Int
    BY <1>3, <1>4
  <2>. QED BY <2>1, RowFlags, Zenon
<1>6. /\ DOMAIN D = PairsReads /\ DOMAIN E = PairsWrites /\ DOMAIN writes = {"offset2End"}
      /\ \A s \in PairsReads : D[s] = next
      /\ \A s \in PairsWrites : E[s] = next
      /\ writes["offset2End"] = TRUE
  BY DEF PairsReads, PairsWrites
<1>. HIDE DEF D, E, writes
<1>7. Takes(g, rd, D, {"row1ReduceEnd"}) /\ Puts(g, wr, E, writes)
  BY <1>4, <1>5, <1>6, ZenonT(30) DEF Takes, Puts, PairsReads, PairsWrites
<1>8. /\ IsMove(D, PairsReads) /\ IsMove(E, PairsWrites)
      /\ Flow(g, Moved(rd, D), Moved(wr, E))'
  BY <1>2, <1>6, <1>7, PairsNames, MoveFlow, ZenonT(30)
<1>9. PairsAt(g, Moved(rd, D), Moved(wr, E))'
  <2>1. /\ \A s \in PairsReads : Moved(rd, D)[s] = next
        /\ \A s \in PairsWrites : Moved(wr, E)[s] = next
        /\ Moved(rd, D)["row1ReduceEnd"] = next
    BY <1>6, PairsNames DEF Moved, PairsReads
  <2>2. next[1] = N(g) + 2 /\ next[1] \in Int
    BY <1>3, <1>4, SlotsArePlaces
  <2>. QED BY <1>2, <2>1, <2>2 DEF PairsAt
<1>. QED BY <1>8, <1>9
-----------------------------------------------------------------------------
(* Lists are ascending, and shorter than the range of a distance.          *)
LEMMA Ascending ==
  ASSUME NEW g \in Files, NEW p \in Rows(g)
  PROVE  /\ \A i, j \in OtherStart(g, p) + 1 .. OtherEnd(g, p) :
              i < j => g.columns[i] < g.columns[j]
         /\ \A i \in OtherStart(g, p) + 1 .. OtherEnd(g, p) : g.columns[p] < g.columns[i]
         /\ \A i, j \in ListStart(g, p) + 1 .. ListEnd(g, p) :
              i < j => g.columns[i] < g.columns[j]
         /\ \A i \in ListStart(g, p) + 1 .. ListEnd(g, p) : Source(g)[p] < g.columns[i]
<1>1. /\ p \in 1 .. N(g) /\ g.columns[p] \in Vertex /\ Source(g)[p] \in Vertex
      /\ IsCsr(g)
  BY ListFacts, OtherFacts, TriangleAssumption DEF Rows
<1>2. \A u \in Vertex : \A i, j \in g.offsets[u] + 1 .. g.offsets[u + 1] :
        u < g.columns[i] /\ (i < j => g.columns[i] < g.columns[j])
  BY <1>1 DEF IsCsr
<1>. QED BY <1>1, <1>2 DEF OtherStart, OtherEnd, ListStart, ListEnd

LEMMA OtherIsShort ==
  ASSUME NEW g \in Files, NEW p \in Rows(g)
  PROVE  /\ OtherEnd(g, p) - OtherStart(g, p) \in 0 .. Modulus - 1
         /\ Distance(OtherStart(g, p), OtherEnd(g, p)) = OtherEnd(g, p) - OtherStart(g, p)
<1>b. PICK b : b = OtherStart(g, p)
  OBVIOUS
<1>e. PICK e : e = OtherEnd(g, p)
  OBVIOUS
<1>1. /\ b \in Nat /\ e \in Nat /\ b <= e /\ e <= N(g) /\ N(g) \in Nat
      /\ NVertices \in Nat \ {0} /\ Modulus \in Nat /\ Modulus > NVertices * NVertices
  BY <1>b, <1>e, OtherFacts, CsrFacts, TriangleAssumption DEF Rows
<1>2. /\ IsFiniteSet(Vertex) /\ Cardinality(Vertex) = NVertices
      /\ IsFiniteSet(b + 1 .. e) /\ Cardinality(b + 1 .. e) = e - b
  <2>1. 0 \in Int /\ NVertices - 1 \in Int /\ b + 1 \in Int /\ e \in Int
    BY <1>1
  <2>2. /\ IsFiniteSet(0 .. NVertices - 1)
        /\ Cardinality(0 .. NVertices - 1)
             = IF 0 > NVertices - 1 THEN 0 ELSE NVertices - 1 - 0 + 1
    BY <2>1, FS_Interval, Zenon
  <2>3. /\ IsFiniteSet(b + 1 .. e)
        /\ Cardinality(b + 1 .. e) = IF b + 1 > e THEN 0 ELSE e - (b + 1) + 1
    BY <2>1, FS_Interval, Zenon
  <2>. QED BY <1>1, <2>2, <2>3 DEF Vertex
<1>3. ~(NVertices < e - b)
  <2> DEFINE f == [i \in b + 1 .. e |-> g.columns[i]]
  <2>1. f \in [b + 1 .. e -> Vertex]
    BY <1>1, CsrFacts
  <2>2. ASSUME NEW i \in b + 1 .. e, NEW j \in b + 1 .. e, i # j PROVE f[i] # f[j]
    <3>1. f[i] = g.columns[i] /\ f[j] = g.columns[j] /\ f[i] \in Int /\ f[j] \in Int
      BY <2>1 DEF Vertex
    <3>2. (i < j => f[i] < f[j]) /\ (j < i => f[j] < f[i])
      BY <1>b, <1>e, <3>1, Ascending
    <3>. QED BY <1>1, <2>2, <3>1, <3>2
  <2>. HIDE DEF f
  <2> SUFFICES ASSUME NVertices < e - b PROVE FALSE
    OBVIOUS
  <2>3. Cardinality(Vertex) < Cardinality(b + 1 .. e)
    BY <1>2
  <2>4. \E i, j \in b + 1 .. e : i # j /\ f[i] = f[j]
    BY <1>2, <2>1, <2>3, FS_PigeonHole, Zenon
  <2>. QED BY <2>2, <2>4
<1>4. NVertices * NVertices >= NVertices
  BY <1>1
<1>5. e - b \in 0 .. Modulus - 1
  BY <1>1, <1>3, <1>4
<1>6. (e - b) % Modulus = e - b
  BY <1>1, <1>5
<1>. QED BY <1>b, <1>e, <1>5, <1>6 DEF Distance
-----------------------------------------------------------------------------
(* The addresses end with a flag after the last pair.                      *)
LEMMA WithEnd ==
  ASSUME NEW S, NEW z, NEW a, NEW b, NEW x, ~Before(z, a), ~Before(z, b)
  PROVE  /\ Rests(S, a, b) => Rests(S \cup {z}, a, b)
         /\ Passes(S, a, x, b) => Passes(S \cup {z}, a, x, b)
<1>1. Rests(S, a, b) => Rests(S \cup {z}, a, b)
  BY DEF Rests
<1>2. ASSUME Passes(S, a, x, b) PROVE Passes(S \cup {z}, a, x, b)
  <2>1. x \in S /\ Before(x, b) /\ z # x
    BY <1>2 DEF Passes
  <2>. QED BY <1>2, <2>1 DEF Passes
<1>. QED BY <1>1, <1>2

LEMMA NotPastEnd ==
  ASSUME NEW g \in Files, NEW a \in Int, NEW b \in Int, a <= N(g) \/ (a = N(g) + 1 /\ b = 0)
  PROVE  ~Before(<<N(g) + 1, 0>>, <<a, b>>)
BY SlotsArePlaces DEF Before

LEMMA AddressEnd ==
  ASSUME NEW g \in Files
  PROVE  LET n == N(g) + 1 IN
         /\ Passes(Lower(g, 0) \cup {<<n, 0>>}, <<n, 0>>, <<n, 0>>, <<n + 1, 0>>)
         /\ <<n, 0>> \in Place
<1>1. N(g) \in Nat /\ Kept(g) \in SUBSET Rows(g)
  BY SlotsArePlaces
<1>2. ASSUME NEW z \in Lower(g, 0) PROVE z[1] \in Int /\ z[2] \in Int /\ z[1] <= N(g)
  BY <1>1 DEF Lower, Place, Rows
<1> DEFINE n == N(g) + 1
<1>3. <<n, 0>> \in Place /\ ~Before(<<n, 0>>, <<n, 0>>) /\ Before(<<n, 0>>, <<n + 1, 0>>)
  BY <1>1 DEF Place, Before
<1>4. ASSUME NEW z \in Lower(g, 0) PROVE Before(z, <<n, 0>>) /\ Before(z, <<n + 1, 0>>)
  BY <1>1, <1>2 DEF Before
<1>. HIDE DEF n
<1>5. Passes(Lower(g, 0) \cup {<<n, 0>>}, <<n, 0>>, <<n, 0>>, <<n + 1, 0>>)
  BY <1>3, <1>4 DEF Passes
<1>. QED BY <1>3, <1>5 DEF n
-----------------------------------------------------------------------------
(* row2ImplPart1 has passed the pairs before x, of the last one perhaps    *)
(* not all addresses.                                                      *)
AddrReads  == {"offset2", "offset2End"}
AddrWrites == {"row2Addr", "row2AddrEnd", "row2Dist", "row2DistEnd"}
Addresses  == {"row2Addr", "row2AddrEnd"}
Distances  == {"row2Dist", "row2DistEnd"}

AddrAt(g, rd, wr) ==
  LET x == rd["offset2End"][1] IN
  /\ x \in Int /\ addr = [pc |-> addr.pc, i |-> addr.i, end |-> addr.end]
  /\ \A s \in AddrReads : rd[s] = <<x, 0>>
  /\ \A s \in Distances : wr[s] = <<x, 0>>
  /\ \/ /\ addr.pc = "row" /\ x - 1 \in Kept(g) /\ addr.end = OtherEnd(g, x - 1)
        /\ addr.i \in Int /\ OtherStart(g, x - 1) <= addr.i /\ addr.i < addr.end
        /\ \A s \in Addresses : wr[s] = <<x - 1, addr.i>>
     \/ /\ (addr.pc = "end" /\ x <= N(g) + 1) \/ (addr.pc = "done" /\ x = N(g) + 2)
        /\ \A s \in Addresses : wr[s] = <<x, 0>>

LEMMA AddrNames ==
  /\ AddrReads \in SUBSET Names /\ AddrWrites \in SUBSET Names
  /\ AddrReads \cap AddrWrites = {} /\ AddrWrites = Addresses \cup Distances
BY DEF AddrReads, AddrWrites, Addresses, Distances, Names, Between, Start

(* Both FIFOs of addresses move alike up to the flag that ends them.       *)
LEMMA BothAddresses ==
  ASSUME NEW g \in Files, NEW a \in Int, NEW b \in Int, NEW c \in Int, NEW d \in Int, NEW x,
         a <= N(g) \/ (a = N(g) + 1 /\ b = 0), c <= N(g) \/ (c = N(g) + 1 /\ d = 0)
  PROVE  /\ Rests(Lower(g, 0), <<a, b>>, <<c, d>>)
              => \A s \in Addresses : Rests(Slots(g)[s], <<a, b>>, <<c, d>>)
         /\ Passes(Lower(g, 0), <<a, b>>, x, <<c, d>>)
              => \A s \in Addresses : Passes(Slots(g)[s], <<a, b>>, x, <<c, d>>)
<1>1. ~Before(<<N(g) + 1, 0>>, <<a, b>>) /\ ~Before(<<N(g) + 1, 0>>, <<c, d>>)
  BY NotPastEnd
<1>2. /\ Slots(g)["row2Addr"] = Lower(g, 0)
      /\ Slots(g)["row2AddrEnd"] = Lower(g, 0) \cup {<<N(g) + 1, 0>>}
  BY SlotFacts
<1>3. Rests(Lower(g, 0), <<a, b>>, <<c, d>>)
        => Rests(Lower(g, 0) \cup {<<N(g) + 1, 0>>}, <<a, b>>, <<c, d>>)
  BY <1>1, WithEnd
<1>4. Passes(Lower(g, 0), <<a, b>>, x, <<c, d>>)
        => Passes(Lower(g, 0) \cup {<<N(g) + 1, 0>>}, <<a, b>>, x, <<c, d>>)
  BY <1>1, WithEnd
<1>5. \A s \in Addresses : s = "row2Addr" \/ s = "row2AddrEnd"
  BY DEF Addresses
<1>. QED BY <1>2, <1>3, <1>4, <1>5

LEMMA AddrPairTurn ==
  ASSUME NEW g \in Files, off = g.offsets, rows = g.columns, NEW rd \in [Names -> Place],
         NEW wr \in [Names -> Place], Flow(g, rd, wr), AddrAt(g, rd, wr), AddrPair
  PROVE  \E D, E : /\ IsMove(D, AddrReads) /\ IsMove(E, AddrWrites)
                   /\ Flow(g, Moved(rd, D), Moved(wr, E))'
                   /\ AddrAt(g, Moved(rd, D), Moved(wr, E))'
<1>x. PICK x : x = rd["offset2End"][1]
  OBVIOUS
<1> DEFINE begin == Head(q["offset2"])[1]
           end == Head(q["offset2"])[2]
           writes == [row2Dist |-> Distance(begin, end), row2DistEnd |-> FALSE]
<1>1. /\ x \in Int /\ rd["offset2"] = <<x, 0>> /\ rd["offset2End"] = <<x, 0>>
      /\ wr["row2Dist"] = <<x, 0>> /\ wr["row2DistEnd"] = <<x, 0>>
      /\ wr["row2Addr"] = <<x, 0>> /\ wr["row2AddrEnd"] = <<x, 0>>
  BY <1>x DEF AddrAt, AddrReads, Distances, Addresses, AddrPair
<1>2. /\ Turn(AddrReads, writes) /\ Head(q["offset2End"]) # TRUE
      /\ q["offset2End"] # << >> /\ q["offset2"] # << >>
      /\ addr' = [pc |-> IF begin < end THEN "row" ELSE "end", i |-> begin, end |-> end]
  <2>1. /\ Turn({"offset2End", "offset2"}, writes) /\ More("offset2End")
        /\ addr' = [pc |-> IF begin < end THEN "row" ELSE "end", i |-> begin, end |-> end]
    BY DEF AddrPair
  <2>2. {"offset2End", "offset2"} = AddrReads
    BY DEF AddrReads
  <2>. HIDE DEF writes, begin, end
  <2>. QED BY <2>1, <2>2 DEF Turn, More
<1>3. PICK p : IsNext(g, x, p) /\ p # N(g) + 1
  BY <1>1, <1>2, PairFlag DEF PairEnds
<1>b. PICK b : b = OtherStart(g, p)
  OBVIOUS
<1>e. PICK e : e = OtherEnd(g, p)
  OBVIOUS
<1> DEFINE next == <<p + 1, 0>>
           to == IF b < e THEN <<p, b>> ELSE next
           D == [offset2 |-> next, offset2End |-> next]
           E == [row2Dist |-> next, row2DistEnd |-> next, row2Addr |-> to, row2AddrEnd |-> to]
<1>4. /\ p \in Int /\ p \in Kept(g) /\ p \in Rows(g) /\ <<p, 0>> \in Place /\ next \in Place
      /\ Passes(Slots(g)["offset2"], rd["offset2"], <<p, 0>>, next)
      /\ Passes(Slots(g)["offset2End"], rd["offset2End"], <<p, 0>>, next)
      /\ Passes(Slots(g)["row2Dist"], wr["row2Dist"], <<p, 0>>, next)
      /\ Passes(Slots(g)["row2DistEnd"], wr["row2DistEnd"], <<p, 0>>, next)
  BY <1>1, <1>3, PairSlots, SlotFacts
<1>5. /\ b \in Nat /\ e \in Nat /\ p <= N(g) /\ N(g) \in Nat /\ x <= p
      /\ p + 1 <= N(g) \/ p + 1 = N(g) + 1
  <2>1. p \in 1 .. N(g) /\ N(g) \in Nat
    BY <1>4, SlotsArePlaces DEF Rows
  <2>2. b \in 0 .. N(g) /\ e \in 0 .. N(g)
    BY <1>b, <1>e, <2>1, OtherFacts
  <2>. QED BY <1>3, <1>4, <2>1, <2>2 DEF IsNext
<1>6. \A s \in Addresses : Rests(Slots(g)[s], wr[s], to) /\ to \in Place
  <2>2. Rests(Lower(g, 0), <<x, 0>>, <<p, b>>)
    BY <1>3, <1>b, ListGap
  <2>3. b >= e => Rests(Lower(g, 0), <<p, b>>, <<p + 1, 0>>)
    <3>1. p \in Kept(g) /\ b \in Int
      BY <1>4, <1>5
    <3>2. b >= OtherEnd(g, p) => Rests(Lower(g, 0), <<p, b>>, <<p + 1, 0>>)
      BY <3>1, LowerSlots, Zenon
    <3>. QED BY <1>e, <3>2
  <2>4. b >= e => Rests(Lower(g, 0), <<x, 0>>, <<p + 1, 0>>)
    BY <2>2, <2>3, Along
  <2>a. /\ x \in Int /\ p \in Int /\ b \in Int /\ 0 \in Int /\ p + 1 \in Int
        /\ x <= N(g) \/ (x = N(g) + 1 /\ 0 = 0)
        /\ p <= N(g) \/ (p = N(g) + 1 /\ b = 0)
        /\ p + 1 <= N(g) \/ (p + 1 = N(g) + 1 /\ 0 = 0)
    BY <1>1, <1>4, <1>5
  <2>5. /\ \A s \in Addresses : Rests(Slots(g)[s], <<x, 0>>, <<p, b>>)
        /\ b >= e => \A s \in Addresses : Rests(Slots(g)[s], <<x, 0>>, <<p + 1, 0>>)
    BY <2>a, <2>2, <2>4, BothAddresses, Zenon
  <2>6. \A s \in Addresses : wr[s] = <<x, 0>>
    BY <1>1 DEF Addresses
  <2>7. <<p, b>> \in Place
    BY <1>4, <1>5 DEF Place
  <2>. QED BY <1>4, <1>5, <2>5, <2>6, <2>7
<1>7. begin = b /\ end = e
  <2>1. "offset2" \in Names /\ q["offset2"] # << >> /\ next \in Place
        /\ Passes(Slots(g)["offset2"], rd["offset2"], <<p, 0>>, next)
    BY <1>2, <1>4, AddrNames DEF AddrReads
  <2>2. Head(q["offset2"]) = Says(g)["offset2"][<<p, 0>>]
    BY <2>1, SlotRead
  <2>3. Head(q["offset2"]) = <<b, e>>
    BY <1>4, <1>b, <1>e, <2>2, SaysFacts DEF OtherList
  <2>. QED BY <2>3
<1>8. /\ Says(g)["row2Dist"][<<p, 0>>] = writes["row2Dist"]
      /\ Says(g)["row2DistEnd"][<<p, 0>>] = FALSE
  <2>1. Says(g)["row2Dist"][<<p, 0>>] = e - b
    BY <1>4, <1>b, <1>e, SaysFacts DEF OtherLength
  <2>2. p # N(g) + 1 /\ p \in Int /\ 0 \in Int
    BY <1>3, <1>4
  <2>3. Says(g)["row2DistEnd"][<<p, 0>>] = FALSE
    BY <2>2, RowFlags, Zenon
  <2>. QED BY <1>4, <1>7, <1>b, <1>e, <2>1, <2>3, OtherIsShort
<1>9. /\ DOMAIN D = AddrReads /\ DOMAIN E = AddrWrites /\ DOMAIN writes = Distances
      /\ \A s \in AddrReads : D[s] = next
      /\ \A s \in Distances : E[s] = next
      /\ \A s \in Addresses : E[s] = to
      /\ writes["row2DistEnd"] = FALSE
  BY DEF AddrReads, AddrWrites, Distances, Addresses
<1>. HIDE DEF D, E, writes, to
<1>10. Takes(g, rd, D, AddrReads)
  BY <1>4, <1>9 DEF Takes, AddrReads
<1>11. Puts(g, wr, E, writes)
  <2>1. \A s \in Distances : \E z : Passes(Slots(g)[s], wr[s], z, E[s]) /\ writes[s] = Says(g)[s][z]
    BY <1>4, <1>8, <1>9 DEF Distances
  <2>2. \A s \in Addresses : s \notin Distances
    BY DEF Addresses, Distances
  <2>. QED BY <1>4, <1>6, <1>9, <2>1, <2>2, AddrNames DEF Puts
<1>12. /\ IsMove(D, AddrReads) /\ IsMove(E, AddrWrites)
       /\ Flow(g, Moved(rd, D), Moved(wr, E))'
  BY <1>2, <1>9, <1>10, <1>11, AddrNames, MoveFlow
<1>13. AddrAt(g, Moved(rd, D), Moved(wr, E))'
  <2>1. /\ \A s \in AddrReads : Moved(rd, D)[s] = next
        /\ \A s \in Distances : Moved(wr, E)[s] = next
        /\ \A s \in Addresses : Moved(wr, E)[s] = to
        /\ Moved(rd, D)["offset2End"] = next
    BY <1>9, AddrNames DEF Moved, AddrReads
  <2>2. next[1] = p + 1 /\ next[1] - 1 = p /\ next[1] \in Int
    BY <1>4
  <2>3. addr' = [pc |-> IF b < e THEN "row" ELSE "end", i |-> b, end |-> e]
    BY <1>2, <1>7
  <2>4. \/ b < e /\ to = <<p, b>>
        \/ ~(b < e) /\ to = next
    BY DEF to
  <2>. QED BY <1>4, <1>5, <1>b, <1>e, <2>1, <2>2, <2>3, <2>4 DEF AddrAt
<1>. QED BY <1>12, <1>13

LEMMA AddrRowTurn ==
  ASSUME NEW g \in Files, off = g.offsets, rows = g.columns, NEW rd \in [Names -> Place],
         NEW wr \in [Names -> Place], Flow(g, rd, wr), AddrAt(g, rd, wr), AddrRow
  PROVE  \E D, E : /\ IsMove(D, AddrReads) /\ IsMove(E, AddrWrites)
                   /\ Flow(g, Moved(rd, D), Moved(wr, E))'
                   /\ AddrAt(g, Moved(rd, D), Moved(wr, E))'
<1>x. PICK x : x = rd["offset2End"][1]
  OBVIOUS
<1>p. PICK p : p = x - 1
  OBVIOUS
<1>r. PICK r : r = addr.i
  OBVIOUS
<1>e. PICK e : e = addr.end
  OBVIOUS
<1> DEFINE to == IF r + 1 < e THEN <<p, r + 1>> ELSE <<p + 1, 0>>
           E == [row2Addr |-> to, row2AddrEnd |-> to]
           writes == [row2Addr |-> r, row2AddrEnd |-> FALSE]
<1>1. /\ x \in Int /\ p \in Kept(g) /\ e = OtherEnd(g, p) /\ r \in Int
      /\ OtherStart(g, p) <= r /\ r < e
      /\ \A s \in Addresses : wr[s] = <<p, r>>
  BY <1>x, <1>p, <1>r, <1>e DEF AddrAt, AddrRow
<1>2. /\ Turn({}, writes)
      /\ addr' = [pc |-> IF r + 1 < e THEN "row" ELSE "end", i |-> r + 1, end |-> e]
  <2>1. addr' = [addr EXCEPT !.i = r + 1, !.pc = IF r + 1 < e THEN "row" ELSE "end"]
        /\ Turn({}, writes)
    BY <1>r, <1>e DEF AddrRow
  <2>2. addr = [pc |-> addr.pc, i |-> addr.i, end |-> addr.end]
    BY DEF AddrAt
  <2>. QED BY <1>e, <2>1, <2>2
<1>3. /\ p \in Int /\ p \in 1 .. N(g) /\ p <= N(g) /\ N(g) \in Nat /\ e \in Int
      /\ p + 1 = x /\ x \in Int
  <2>1. p \in Rows(g) /\ N(g) \in Nat
    BY <1>1, SlotsArePlaces
  <2>2. p \in 1 .. N(g)
    BY <2>1 DEF Rows
  <2>3. OtherEnd(g, p) \in 0 .. N(g)
    BY <2>2, OtherFacts
  <2>. QED BY <1>1, <1>p, <2>1, <2>2, <2>3
<1>4. /\ to \in Place /\ <<p, r>> \in Place /\ r + 1 \in Int
      /\ Passes(Lower(g, 0), <<p, r>>, <<p, r>>, to)
  <2>1. Passes(Lower(g, 0), <<p, r>>, <<p, r>>, <<p, r + 1>>)
    BY <1>1, LowerSlots
  <2>2. r + 1 >= e => Rests(Lower(g, 0), <<p, r + 1>>, <<p + 1, 0>>)
    <3>1. r + 1 \in Int
      BY <1>1
    <3>2. r + 1 >= OtherEnd(g, p) => Rests(Lower(g, 0), <<p, r + 1>>, <<p + 1, 0>>)
      BY <1>1, <3>1, LowerSlots, Zenon
    <3>. QED BY <1>1, <3>2
  <2>3. r + 1 >= e => Passes(Lower(g, 0), <<p, r>>, <<p, r>>, <<p + 1, 0>>)
    BY <2>1, <2>2, Along
  <2>. QED BY <1>1, <1>3, <2>1, <2>3 DEF Place
<1>5. \A s \in Addresses : Passes(Slots(g)[s], <<p, r>>, <<p, r>>, to)
  <2>1. /\ p \in Int /\ r \in Int /\ r + 1 \in Int /\ p + 1 \in Int /\ 0 \in Int
        /\ p <= N(g) \/ (p = N(g) + 1 /\ r = 0)
        /\ p <= N(g) \/ (p = N(g) + 1 /\ r + 1 = 0)
        /\ p + 1 <= N(g) \/ (p + 1 = N(g) + 1 /\ 0 = 0)
    BY <1>1, <1>3
  <2>2. CASE r + 1 < e
    <3>1. to = <<p, r + 1>>
      BY <2>2
    <3>. QED BY <1>4, <2>1, <3>1, BothAddresses, Zenon
  <2>3. CASE ~(r + 1 < e)
    <3>1. to = <<p + 1, 0>>
      BY <2>3
    <3>. QED BY <1>4, <2>1, <3>1, BothAddresses, Zenon
  <2>. QED BY <2>2, <2>3
<1>6. /\ Says(g)["row2Addr"][<<p, r>>] = r
      /\ Says(g)["row2AddrEnd"][<<p, r>>] = FALSE
  <2>1. Says(g)["row2Addr"][<<p, r>>] = r
    BY <1>4, SaysFacts DEF Address
  <2>2. p # N(g) + 1 /\ p \in Int /\ r \in Int
    BY <1>1, <1>3
  <2>3. Says(g)["row2AddrEnd"][<<p, r>>] = FALSE
    BY <2>2, RowFlags, ZenonT(30)
  <2>. QED BY <2>1, <2>3
<1>7. /\ DOMAIN E = Addresses /\ DOMAIN writes = Addresses
      /\ \A s \in Addresses : E[s] = to
      /\ writes["row2Addr"] = r /\ writes["row2AddrEnd"] = FALSE
  BY DEF Addresses
<1>. HIDE DEF E, writes, to
<1>8. Puts(g, wr, E, writes)
  <2>1. \A s \in Addresses : writes[s] = Says(g)[s][<<p, r>>]
    BY <1>6, <1>7 DEF Addresses
  <2>. QED BY <1>1, <1>4, <1>5, <1>7, <2>1 DEF Puts
<1>9. /\ IsMove(Nothing, AddrReads) /\ IsMove(E, AddrWrites)
      /\ Flow(g, Moved(rd, Nothing), Moved(wr, E))'
  <2>1. Takes(g, rd, Nothing, {}) /\ DOMAIN Nothing \subseteq AddrReads
        /\ DOMAIN E \subseteq AddrWrites
    BY <1>7, NoMove, AddrNames
  <2>. QED BY <1>2, <1>8, <2>1, AddrNames, MoveFlow
<1>10. AddrAt(g, Moved(rd, Nothing), Moved(wr, E))'
  <2>1. /\ \A s \in AddrReads : Moved(rd, Nothing)[s] = rd[s]
        /\ \A s \in Distances : Moved(wr, E)[s] = wr[s]
        /\ \A s \in Addresses : Moved(wr, E)[s] = to
        /\ Moved(rd, Nothing)["offset2End"] = rd["offset2End"]
    <3>1. \A s \in Distances : s \notin Addresses
      BY DEF Distances, Addresses
    <3>. QED BY <1>7, <3>1, NoMove, AddrNames DEF Moved, AddrReads
  <2>2. /\ \A s \in AddrReads : rd[s] = <<x, 0>>
        /\ \A s \in Distances : wr[s] = <<x, 0>> /\ rd["offset2End"][1] = x /\ x - 1 = p
    BY <1>x, <1>p DEF AddrAt
  <2>3. \/ r + 1 < e /\ to = <<x - 1, r + 1>>
        \/ ~(r + 1 < e) /\ to = <<x, 0>>
    BY <1>3, <2>2 DEF to
  <2>4. OtherStart(g, p) \in Int
    BY <1>3, OtherFacts
  <2>. QED BY <1>1, <1>2, <1>3, <1>4, <1>p, <1>x, <2>1, <2>2, <2>3, <2>4 DEF AddrAt
<1>. QED BY <1>9, <1>10

LEMMA AddrEndTurn ==
  ASSUME NEW g \in Files, off = g.offsets, rows = g.columns, NEW rd \in [Names -> Place],
         NEW wr \in [Names -> Place], Flow(g, rd, wr), AddrAt(g, rd, wr), AddrEnd
  PROVE  \E D, E : /\ IsMove(D, AddrReads) /\ IsMove(E, AddrWrites)
                   /\ Flow(g, Moved(rd, D), Moved(wr, E))'
                   /\ AddrAt(g, Moved(rd, D), Moved(wr, E))'
<1>x. PICK x : x = rd["offset2End"][1]
  OBVIOUS
<1> DEFINE writes == [row2AddrEnd |-> TRUE, row2DistEnd |-> TRUE]
<1>1. /\ x \in Int /\ rd["offset2"] = <<x, 0>> /\ rd["offset2End"] = <<x, 0>>
      /\ wr["row2Dist"] = <<x, 0>> /\ wr["row2DistEnd"] = <<x, 0>>
      /\ wr["row2Addr"] = <<x, 0>> /\ wr["row2AddrEnd"] = <<x, 0>>
  BY <1>x DEF AddrAt, AddrReads, Distances, Addresses, AddrEnd
<1>2. /\ Turn({"offset2End"}, writes) /\ Head(q["offset2End"]) # FALSE
      /\ q["offset2End"] # << >> /\ addr' = [pc |-> "done", i |-> addr.i, end |-> addr.end]
  BY DEF AddrEnd, Turn, Ends, AddrAt
<1>3. PICK p : IsNext(g, x, p) /\ p = N(g) + 1
  BY <1>1, <1>2, PairFlag DEF PairEnds
<1> DEFINE next == <<p + 1, 0>>
           D == [offset2 |-> next, offset2End |-> next]
           E == [row2Dist |-> next, row2DistEnd |-> next, row2Addr |-> next, row2AddrEnd |-> next]
<1>4. /\ p \in Int /\ <<p, 0>> \in Place /\ next \in Place /\ x <= p
      /\ Rests(Slots(g)["offset2"], rd["offset2"], next)
      /\ Passes(Slots(g)["offset2End"], rd["offset2End"], <<p, 0>>, next)
      /\ Rests(Slots(g)["row2Dist"], wr["row2Dist"], next)
      /\ Passes(Slots(g)["row2DistEnd"], wr["row2DistEnd"], <<p, 0>>, next)
  BY <1>1, <1>3, PairSlots, SlotFacts
<1>5. /\ Rests(Slots(g)["row2Addr"], wr["row2Addr"], next)
      /\ Passes(Slots(g)["row2AddrEnd"], wr["row2AddrEnd"], <<p, 0>>, next)
  <2>1. /\ Rests(Lower(g, 0), <<x, 0>>, <<p + 1, 0>>)
        /\ Rests(Lower(g, 0), <<x, 0>>, <<p, 0>>)
    BY <1>3, LastGap
  <2>2. Passes(Slots(g)["row2AddrEnd"], <<p, 0>>, <<p, 0>>, <<p + 1, 0>>)
    BY <1>3, AddressEnd, SlotFacts
  <2>3. Rests(Slots(g)["row2AddrEnd"], <<x, 0>>, <<p, 0>>)
    <3>1. /\ x \in Int /\ p \in Int /\ 0 \in Int
          /\ x <= N(g) \/ (x = N(g) + 1 /\ 0 = 0)
          /\ p <= N(g) \/ (p = N(g) + 1 /\ 0 = 0)
      BY <1>1, <1>3, <1>4, SlotsArePlaces
    <3>2. "row2AddrEnd" \in Addresses
      BY DEF Addresses
    <3>. QED BY <2>1, <3>1, <3>2, BothAddresses, Zenon
  <2>4. Passes(Slots(g)["row2AddrEnd"], <<x, 0>>, <<p, 0>>, <<p + 1, 0>>)
    BY <2>2, <2>3, Along
  <2>. QED BY <1>1, <2>1, <2>4, SlotFacts
<1>6. Says(g)["row2AddrEnd"][<<p, 0>>] = TRUE /\ Says(g)["row2DistEnd"][<<p, 0>>] = TRUE
  <2>1. p = N(g) + 1 /\ p \in Int /\ 0 \in Int
    BY <1>3, <1>4
  <2>. QED BY <2>1, RowFlags, Zenon
<1>7. /\ DOMAIN D = AddrReads /\ DOMAIN E = AddrWrites
      /\ DOMAIN writes = {"row2AddrEnd", "row2DistEnd"}
      /\ \A s \in AddrReads : D[s] = next
      /\ \A s \in AddrWrites : E[s] = next
      /\ writes["row2AddrEnd"] = TRUE /\ writes["row2DistEnd"] = TRUE
  BY DEF AddrReads, AddrWrites
<1>. HIDE DEF D, E, writes
<1>8. Takes(g, rd, D, {"offset2End"}) /\ Puts(g, wr, E, writes)
  BY <1>4, <1>5, <1>6, <1>7, ZenonT(30) DEF Takes, Puts, AddrReads, AddrWrites
<1>9. /\ IsMove(D, AddrReads) /\ IsMove(E, AddrWrites)
      /\ Flow(g, Moved(rd, D), Moved(wr, E))'
  BY <1>2, <1>7, <1>8, AddrNames, MoveFlow
<1>10. AddrAt(g, Moved(rd, D), Moved(wr, E))'
  <2>1. /\ \A s \in AddrReads : Moved(rd, D)[s] = next
        /\ \A s \in Distances : Moved(wr, E)[s] = next
        /\ \A s \in Addresses : Moved(wr, E)[s] = next
        /\ Moved(rd, D)["offset2End"] = next
    BY <1>7, AddrNames DEF Moved, AddrReads
  <2>2. next[1] = N(g) + 2 /\ next[1] \in Int /\ next = <<next[1], 0>>
    BY <1>3, <1>4, SlotsArePlaces
  <2>. QED BY <1>2, <2>1, <2>2 DEF AddrAt
<1>. QED BY <1>9, <1>10
-----------------------------------------------------------------------------
(* Right after the first slot that is not passed.                          *)
LEMMA After ==
  ASSUME NEW S \in SUBSET Place, NEW r \in Place, NEW a \in Int, NEW b \in Int, <<a, b>> \in S,
         ~Before(<<a, b>>, r), \A y \in S : Before(y, r) \/ y = <<a, b>> \/ Before(<<a, b>>, y)
  PROVE  Passes(S, r, <<a, b>>, <<a, b + 1>>) /\ <<a, b + 1>> \in Place
<1> DEFINE z == <<a, b>>
           next == <<a, b + 1>>
<1>1. z \in Place /\ next \in Place /\ z[1] = a /\ z[2] = b /\ next[1] = a /\ next[2] = b + 1
  BY DEF Place
<1>2. ASSUME NEW y \in S PROVE Before(y, next) <=> y = z \/ Before(y, z)
  <2>1. y[1] \in Int /\ y[2] \in Int /\ y = <<y[1], y[2]>>
    BY DEF Place
  <2>2. y = z <=> y[1] = a /\ y[2] = b
    BY <2>1
  <2>. QED BY <2>1, <2>2 DEF Before
<1>3. ASSUME NEW y \in S PROVE Before(y, next) <=> Before(y, r) \/ y = z
  <2>1. y \in Place /\ (Before(y, r) \/ y = z \/ Before(z, y))
    OBVIOUS
  <2>2. Before(y, r) => Before(y, z)
    <3>1. z = r \/ Before(r, z)
      BY <1>1, BeforeIsLinear
    <3>. QED BY <1>1, <2>1, <3>1, BeforeIsLinear
  <2>3. ~(Before(y, z) /\ Before(z, y)) /\ ~Before(z, z)
    BY <1>1, <2>1, BeforeIsLinear
  <2>. QED BY <1>2, <2>1, <2>2, <2>3
<1>. HIDE DEF z, next
<1>4. z \in S /\ ~Before(z, r)
  BY DEF z
<1>5. Passes(S, r, z, next)
  BY <1>3, <1>4 DEF Passes
<1>. QED BY <1>1, <1>5 DEF z, next

LEMMA NextRead ==
  ASSUME NEW g \in Files, NEW rd \in [Names -> Place], NEW wr \in [Names -> Place],
         Flow(g, rd, wr), NEW s \in Names, q[s] # << >>
  PROVE  \E a, b \in Int :
           /\ <<a, b>> \in Slots(g)[s] /\ <<a, b + 1>> \in Place
           /\ Passes(Slots(g)[s], rd[s], <<a, b>>, <<a, b + 1>>)
           /\ Head(q[s]) = Says(g)[s][<<a, b>>]
           /\ \A y \in Slots(g)[s] : Before(y, rd[s]) \/ y = <<a, b>> \/ Before(<<a, b>>, y)
<1>1. PICK z \in Slots(g)[s] :
        /\ z \in Place /\ ~Before(z, rd[s]) /\ Head(q[s]) = Says(g)[s][z]
        /\ \A y \in Slots(g)[s] : Before(y, rd[s]) \/ y = z \/ Before(z, y)
  BY ValueRead
<1>2. PICK a \in Int, b \in Int : z = <<a, b>>
  BY <1>1 DEF Place
<1>3. Slots(g)[s] \in SUBSET Place /\ rd[s] \in Place
  BY SlotsArePlaces
<1>4. Passes(Slots(g)[s], rd[s], <<a, b>>, <<a, b + 1>>) /\ <<a, b + 1>> \in Place
  BY <1>1, <1>2, <1>3, After
<1>. QED BY <1>1, <1>2, <1>4

-----------------------------------------------------------------------------
(* row2ImplPart2 has passed all addresses before c; it has looked at the   *)
(* flag of the next one too when ok says so.                               *)
LoadReads  == {"row2Addr", "row2AddrEnd"}
LoadWrites == {"row2Continue"}

LoadAt(g, rd, wr) ==
  LET c == rd["row2Addr"]
      f == rd["row2AddrEnd"]
      S == Slots(g)["row2AddrEnd"]
  IN  /\ load = [pc |-> load.pc, ok |-> load.ok]
      /\ wr["row2Continue"] = c
      /\ load.pc # "done" => ~Before(<<N(g) + 1, 0>>, f)
      /\ \/ load.pc = "start" /\ f = c /\ load.ok = TRUE
         \/ load.pc = "turn" /\ load.ok = TRUE /\ \E z \in Lower(g, 0) : Passes(S, c, z, f)
         \/ load.pc = "turn" /\ load.ok = FALSE /\ f = c
         \/ /\ load.pc = "done" /\ load.ok = TRUE
            /\ \A y \in Lower(g, 0) : Before(y, c)
            /\ \A y \in S : Before(y, f)

LEMMA LoadNames ==
  /\ LoadReads \in SUBSET Names /\ LoadWrites \in SUBSET Names
  /\ LoadReads \cap LoadWrites = {}
BY DEF LoadReads, LoadWrites, Names, Between, Start

LEMMA NextAddress ==
  ASSUME NEW g \in Files, NEW rd \in [Names -> Place], NEW wr \in [Names -> Place],
         Flow(g, rd, wr), q["row2AddrEnd"] # << >>
  PROVE  \E z, f \in Place :
           /\ Passes(Slots(g)["row2AddrEnd"], rd["row2AddrEnd"], z, f)
           /\ \/ z \in Lower(g, 0) /\ Head(q["row2AddrEnd"]) = FALSE
              \/ /\ Head(q["row2AddrEnd"]) = TRUE
                 /\ \A y \in Lower(g, 0) : Before(y, rd["row2AddrEnd"])
                 /\ \A y \in Slots(g)["row2AddrEnd"] : Before(y, f)
<1> DEFINE S == Slots(g)["row2AddrEnd"]
           r == rd["row2AddrEnd"]
           n == N(g) + 1
<1>1. "row2AddrEnd" \in Names
  BY DEF Names, Between
<1>2. PICK a \in Int, b \in Int :
        /\ <<a, b>> \in S /\ <<a, b + 1>> \in Place
        /\ Passes(S, r, <<a, b>>, <<a, b + 1>>)
        /\ Head(q["row2AddrEnd"]) = Says(g)["row2AddrEnd"][<<a, b>>]
        /\ \A y \in S : Before(y, r) \/ y = <<a, b>> \/ Before(<<a, b>>, y)
  BY <1>1, NextRead
<1>3. /\ a # n => Head(q["row2AddrEnd"]) = FALSE
      /\ a = n => Head(q["row2AddrEnd"]) = TRUE
  <2>1. /\ a # N(g) + 1 => Says(g)["row2AddrEnd"][<<a, b>>] = FALSE
        /\ a = N(g) + 1 => Says(g)["row2AddrEnd"][<<a, b>>] = TRUE
    BY RowFlags, Zenon
  <2>. QED BY <1>2, <2>1, Zenon
<1>4. /\ S = Lower(g, 0) \cup {<<n, 0>>} /\ n \in Int
      /\ \A y \in Lower(g, 0) : y[1] \in Int /\ y[2] \in Int /\ y[1] < n
  <2>1. N(g) \in Nat /\ Kept(g) \in SUBSET Rows(g)
    BY SlotsArePlaces
  <2>. QED BY <2>1, SlotFacts DEF Lower, Place, Rows
<1>5. <<a, b>> \in Place /\ <<a, b>>[1] = a
  BY DEF Place
<1>6. CASE a # n
  <2>1. <<a, b>> \in Lower(g, 0)
    BY <1>2, <1>4, <1>6
  <2>. QED BY <1>2, <1>3, <1>5, <1>6, <2>1
<1>7. CASE a = n
  <2>1. <<a, b>> \notin Lower(g, 0) /\ <<a, b>> = <<n, 0>>
    <3>1. <<a, b>> \in Lower(g, 0) => <<a, b>>[1] < n
      BY <1>4
    <3>. QED BY <1>2, <1>4, <1>5, <1>7, <3>1
  <2>2. ASSUME NEW y \in Lower(g, 0) PROVE Before(y, r)
    <3>1. y \in S /\ Before(y, <<a, b>>) /\ ~Before(<<a, b>>, y) /\ y # <<a, b>>
      BY <1>4, <1>7, <2>1 DEF Before
    <3>. QED BY <1>2, <3>1
  <2>3. ASSUME NEW y \in S PROVE Before(y, <<a, b + 1>>)
    BY <1>2, <1>4, <2>1, <2>2 DEF Passes
  <2>. QED BY <1>2, <1>3, <1>5, <1>7, <2>2, <2>3
<1>. QED BY <1>6, <1>7

(* The flag that ends the addresses is not passed with an address.         *)
LEMMA EndNotPassed ==
  ASSUME NEW g \in Files, NEW c, NEW f, NEW z \in Lower(g, 0),
         Passes(Slots(g)["row2AddrEnd"], c, z, f), ~Before(<<N(g) + 1, 0>>, c)
  PROVE  ~Before(<<N(g) + 1, 0>>, f)
<1>1. /\ Slots(g)["row2AddrEnd"] = Lower(g, 0) \cup {<<N(g) + 1, 0>>}
      /\ Kept(g) \in SUBSET Rows(g) /\ N(g) \in Nat
  BY SlotFacts, SlotsArePlaces
<1>2. z[1] \in Rows(g)
  BY <1>1 DEF Lower
<1>3. <<N(g) + 1, 0>> # z
  <2>1. <<N(g) + 1, 0>>[1] = N(g) + 1
    OBVIOUS
  <2>. QED BY <1>1, <1>2, <2>1 DEF Rows
<1>. QED BY <1>1, <1>3 DEF Passes

LEMMA LoadFirstTurn ==
  ASSUME NEW g \in Files, off = g.offsets, rows = g.columns, NEW rd \in [Names -> Place],
         NEW wr \in [Names -> Place], Flow(g, rd, wr), LoadAt(g, rd, wr), LoadFirst
  PROVE  \E D, E : /\ IsMove(D, LoadReads) /\ IsMove(E, LoadWrites)
                   /\ Flow(g, Moved(rd, D), Moved(wr, E))'
                   /\ LoadAt(g, Moved(rd, D), Moved(wr, E))'
<1>c. PICK c : c = rd["row2Addr"]
  OBVIOUS
<1>1. /\ rd["row2AddrEnd"] = c /\ wr["row2Continue"] = c
      /\ q["row2AddrEnd"] # << >> /\ Turn({"row2AddrEnd"}, Nothing)
      /\ load' = [pc |-> IF Head(q["row2AddrEnd"]) THEN "done" ELSE "turn", ok |-> TRUE]
  <2>1. /\ rd["row2AddrEnd"] = c /\ wr["row2Continue"] = c
        /\ load = [pc |-> load.pc, ok |-> load.ok] /\ load.ok = TRUE
    BY <1>c DEF LoadAt, LoadFirst
  <2>2. /\ q["row2AddrEnd"] # << >> /\ Turn({"row2AddrEnd"}, Nothing)
        /\ load' = [load EXCEPT !.pc = IF Head(q["row2AddrEnd"]) THEN "done" ELSE "turn"]
    BY DEF LoadFirst
  <2>. QED BY <2>1, <2>2
<1>2. PICK z, f \in Place :
        /\ Passes(Slots(g)["row2AddrEnd"], rd["row2AddrEnd"], z, f)
        /\ \/ z \in Lower(g, 0) /\ Head(q["row2AddrEnd"]) = FALSE
           \/ /\ Head(q["row2AddrEnd"]) = TRUE
              /\ \A y \in Lower(g, 0) : Before(y, rd["row2AddrEnd"])
              /\ \A y \in Slots(g)["row2AddrEnd"] : Before(y, f)
  BY <1>1, NextAddress
<1> DEFINE D == [row2AddrEnd |-> f]
<1>3. DOMAIN D = {"row2AddrEnd"} /\ D["row2AddrEnd"] = f
  OBVIOUS
<1>. HIDE DEF D
<1>4. /\ IsMove(D, LoadReads) /\ IsMove(Nothing, LoadWrites)
      /\ Flow(g, Moved(rd, D), Moved(wr, Nothing))'
  <2>1. Takes(g, rd, D, {"row2AddrEnd"}) /\ Puts(g, wr, Nothing, Nothing)
    BY <1>2, <1>3, NoMove DEF Takes
  <2>2. DOMAIN D \subseteq LoadReads /\ DOMAIN Nothing \subseteq LoadWrites
    BY <1>3, NoMove DEF LoadReads
  <2>. QED BY <1>1, <2>1, <2>2, LoadNames, MoveFlow
<1>5. LoadAt(g, Moved(rd, D), Moved(wr, Nothing))'
  <2>1. /\ Moved(rd, D)["row2Addr"] = c /\ Moved(rd, D)["row2AddrEnd"] = f
        /\ Moved(wr, Nothing)["row2Continue"] = c
    BY <1>1, <1>3, <1>c, LoadNames, NoMove DEF Moved, LoadReads, LoadWrites
  <2>2. \/ load' = [pc |-> "turn", ok |-> TRUE]
           /\ \E y \in Lower(g, 0) : Passes(Slots(g)["row2AddrEnd"], c, y, f)
        \/ /\ load' = [pc |-> "done", ok |-> TRUE]
           /\ \A y \in Lower(g, 0) : Before(y, c)
           /\ \A y \in Slots(g)["row2AddrEnd"] : Before(y, f)
    BY <1>1, <1>2
  <2>3. load.pc = "start" /\ ~Before(<<N(g) + 1, 0>>, c)
    BY <1>1 DEF LoadFirst, LoadAt
  <2>4. load'.pc # "done" => ~Before(<<N(g) + 1, 0>>, f)
    BY <2>2, <2>3, EndNotPassed
  <2>. QED BY <2>1, <2>2, <2>4 DEF LoadAt
<1>. QED BY <1>4, <1>5

LEMMA LoadTurnTurn ==
  ASSUME NEW g \in Files, off = g.offsets, rows = g.columns, NEW rd \in [Names -> Place],
         NEW wr \in [Names -> Place], Flow(g, rd, wr), LoadAt(g, rd, wr), LoadTurn
  PROVE  \E D, E : /\ IsMove(D, LoadReads) /\ IsMove(E, LoadWrites)
                   /\ Flow(g, Moved(rd, D), Moved(wr, E))'
                   /\ LoadAt(g, Moved(rd, D), Moved(wr, E))'
<1>c. PICK c : c = rd["row2Addr"]
  OBVIOUS
<1>f. PICK f : f = rd["row2AddrEnd"]
  OBVIOUS
<1>1. /\ c \in Place /\ f \in Place /\ wr["row2Continue"] = c
      /\ \/ load.ok = TRUE /\ \E z \in Lower(g, 0) : Passes(Slots(g)["row2AddrEnd"], c, z, f)
         \/ load.ok = FALSE /\ f = c
  BY <1>c, <1>f, LoadNames DEF LoadAt, LoadTurn, LoadReads
(* Where the flags are read to.                                            *)
<1>2. \E f2 \in Place :
         /\ ~Look => f2 = f /\ load' = [pc |-> "turn", ok |-> FALSE]
         /\ Look => \E z : Passes(Slots(g)["row2AddrEnd"], f, z, f2)
         /\ Look => \/ /\ load' = [pc |-> "turn", ok |-> TRUE]
                       /\ \E y \in Lower(g, 0) : Passes(Slots(g)["row2AddrEnd"], f, y, f2)
                    \/ /\ load' = [pc |-> "done", ok |-> TRUE]
                       /\ \A y \in Lower(g, 0) : Before(y, f)
                       /\ \A y \in Slots(g)["row2AddrEnd"] : Before(y, f2)
  <2>1. load' = [pc |-> IF Look /\ Ends("row2AddrEnd") THEN "done" ELSE "turn", ok |-> Look]
    BY DEF LoadTurn
  <2>2. CASE ~Look
    <3>1. Look = FALSE
      BY <2>2 DEF Look
    <3>2. load' = [pc |-> "turn", ok |-> FALSE]
      BY <2>1, <3>1
    <3>. QED BY <1>1, <2>2, <3>2
  <2>3. CASE Look
    <3>1. q["row2AddrEnd"] # << >>
      BY <2>3 DEF Look
    <3>2. PICK z, f2 \in Place :
            /\ Passes(Slots(g)["row2AddrEnd"], f, z, f2)
            /\ \/ z \in Lower(g, 0) /\ Head(q["row2AddrEnd"]) = FALSE
               \/ /\ Head(q["row2AddrEnd"]) = TRUE
                  /\ \A y \in Lower(g, 0) : Before(y, f)
                  /\ \A y \in Slots(g)["row2AddrEnd"] : Before(y, f2)
      BY <3>1, <1>f, NextAddress
    <3>3. load' = [pc |-> IF Head(q["row2AddrEnd"]) THEN "done" ELSE "turn", ok |-> TRUE]
      BY <2>1, <2>3, <3>1 DEF Ends
    <3>4. \/ /\ load' = [pc |-> "turn", ok |-> TRUE] /\ z \in Lower(g, 0)
          \/ /\ load' = [pc |-> "done", ok |-> TRUE]
             /\ \A y \in Lower(g, 0) : Before(y, f)
             /\ \A y \in Slots(g)["row2AddrEnd"] : Before(y, f2)
      BY <3>2, <3>3
    <3>. QED BY <2>3, <3>2, <3>4
  <2>. QED BY <2>2, <2>3
<1>3. PICK f2 \in Place :
         /\ ~Look => f2 = f /\ load' = [pc |-> "turn", ok |-> FALSE]
         /\ Look => \E z : Passes(Slots(g)["row2AddrEnd"], f, z, f2)
         /\ Look => \/ /\ load' = [pc |-> "turn", ok |-> TRUE]
                       /\ \E y \in Lower(g, 0) : Passes(Slots(g)["row2AddrEnd"], f, y, f2)
                    \/ /\ load' = [pc |-> "done", ok |-> TRUE]
                       /\ \A y \in Lower(g, 0) : Before(y, f)
                       /\ \A y \in Slots(g)["row2AddrEnd"] : Before(y, f2)
  BY <1>2
<1> DEFINE D == [row2Addr |-> f, row2AddrEnd |-> f2]
           E == [row2Continue |-> f]
           flag == IF Look THEN {"row2AddrEnd"} ELSE {}
           reads == IF load.ok THEN {"row2Addr"} \cup flag ELSE flag
           writes == IF load.ok THEN [row2Continue |-> rows[Head(q["row2Addr"]) + 1]]
                     ELSE Nothing
<1>4. /\ Turn(reads, writes) /\ (load.ok => q["row2Addr"] # << >>)
      /\ reads \subseteq LoadReads
      /\ ("row2Addr" \in reads <=> load.ok) /\ ("row2AddrEnd" \in reads <=> Look)
  BY DEF LoadTurn, LoadReads
<1>5. Takes(g, rd, D, reads) /\ Puts(g, wr, E, writes)
  <2>1. CASE load.ok = TRUE
    <3>1. PICK z \in Lower(g, 0) : Passes(Slots(g)["row2AddrEnd"], c, z, f)
      BY <1>1, <2>1
    <3>2. Passes(Lower(g, 0), c, z, f)
      BY <3>1, SlotFacts DEF Passes
    <3>3. Head(q["row2Addr"]) = z[2] /\ z \in Place
      <4>1. Head(q["row2Addr"]) = Says(g)["row2Addr"][z]
        BY <1>1, <1>4, <2>1, <1>c, <3>2, LoadNames, SlotFacts, SlotRead DEF LoadReads
      <4>2. z \in Place
        BY <3>1 DEF Lower
      <4>. QED BY <4>1, <4>2, SaysFacts DEF Address
    <3>4. DOMAIN writes = {"row2Continue"} /\ writes["row2Continue"] = g.columns[z[2] + 1]
      BY <2>1, <3>3
    <3>5. Says(g)["row2Continue"][z] = g.columns[z[2] + 1]
      BY <3>3, SaysFacts, ZenonT(30) DEF LowerColumn
    <3>6. Puts(g, wr, E, writes)
      <4>1. Passes(Slots(g)["row2Continue"], wr["row2Continue"], z, f)
        BY <1>1, <3>2, SlotFacts
      <4>2. DOMAIN E = {"row2Continue"} /\ E["row2Continue"] = f
        OBVIOUS
      <4>. HIDE DEF writes, E
      <4>. QED BY <1>1, <3>4, <3>5, <4>1, <4>2 DEF Puts
    <3>7. Takes(g, rd, D, reads)
      <4>1. Passes(Slots(g)["row2Addr"], rd["row2Addr"], z, f)
        BY <1>c, <3>2, SlotFacts
      <4>2. DOMAIN D = LoadReads /\ D["row2Addr"] = f /\ D["row2AddrEnd"] = f2
        BY DEF LoadReads
      <4>3. Look => \E y : Passes(Slots(g)["row2AddrEnd"], rd["row2AddrEnd"], y, f2)
        BY <1>3, <1>f
      <4>4. ~Look => Rests(Slots(g)["row2AddrEnd"], rd["row2AddrEnd"], f2)
        BY <1>3, <1>f DEF Rests
      <4>. HIDE DEF reads, D
      <4>. QED BY <1>1, <1>3, <1>4, <2>1, <4>1, <4>2, <4>3, <4>4 DEF Takes, LoadReads
    <3>. QED BY <3>6, <3>7
  <2>2. CASE load.ok = FALSE
    <3>1. writes = Nothing /\ f = c
      BY <1>1, <2>2
    <3>2. Puts(g, wr, E, writes)
      <4>1. DOMAIN E = {"row2Continue"} /\ E["row2Continue"] = f
        OBVIOUS
      <4>2. Rests(Slots(g)["row2Continue"], wr["row2Continue"], f)
        BY <1>1, <3>1 DEF Rests
      <4>. HIDE DEF writes, E
      <4>. QED BY <1>1, <3>1, <4>1, <4>2, NoMove DEF Puts
    <3>3. Takes(g, rd, D, reads)
      <4>1. Rests(Slots(g)["row2Addr"], rd["row2Addr"], f)
        BY <1>c, <3>1 DEF Rests
      <4>2. DOMAIN D = LoadReads /\ D["row2Addr"] = f /\ D["row2AddrEnd"] = f2
        BY DEF LoadReads
      <4>3. Look => \E y : Passes(Slots(g)["row2AddrEnd"], rd["row2AddrEnd"], y, f2)
        BY <1>3, <1>f
      <4>4. ~Look => Rests(Slots(g)["row2AddrEnd"], rd["row2AddrEnd"], f2)
        BY <1>3, <1>f DEF Rests
      <4>. HIDE DEF reads, D
      <4>. QED BY <1>1, <1>3, <1>4, <2>2, <4>1, <4>2, <4>3, <4>4 DEF Takes, LoadReads
    <3>. QED BY <3>2, <3>3
  <2>. QED BY <1>1, <2>1, <2>2
<1>6. /\ DOMAIN D = LoadReads /\ DOMAIN E = LoadWrites
      /\ D["row2Addr"] = f /\ D["row2AddrEnd"] = f2 /\ E["row2Continue"] = f
  BY DEF LoadReads, LoadWrites
<1>. HIDE DEF D, E, reads, writes
<1>7. /\ IsMove(D, LoadReads) /\ IsMove(E, LoadWrites)
      /\ Flow(g, Moved(rd, D), Moved(wr, E))'
  BY <1>4, <1>5, <1>6, LoadNames, MoveFlow
<1>8. LoadAt(g, Moved(rd, D), Moved(wr, E))'
  <2>1. /\ Moved(rd, D)["row2Addr"] = f /\ Moved(rd, D)["row2AddrEnd"] = f2
        /\ Moved(wr, E)["row2Continue"] = f
    BY <1>6, LoadNames DEF Moved, LoadReads, LoadWrites
  <2>2. \/ load' = [pc |-> "turn", ok |-> FALSE] /\ f2 = f
        \/ load' = [pc |-> "turn", ok |-> TRUE]
           /\ \E y \in Lower(g, 0) : Passes(Slots(g)["row2AddrEnd"], f, y, f2)
        \/ /\ load' = [pc |-> "done", ok |-> TRUE]
           /\ \A y \in Lower(g, 0) : Before(y, f)
           /\ \A y \in Slots(g)["row2AddrEnd"] : Before(y, f2)
    BY <1>3
  <2>3. ~Before(<<N(g) + 1, 0>>, f)
    BY <1>f DEF LoadTurn, LoadAt
  <2>4. load'.pc # "done" => ~Before(<<N(g) + 1, 0>>, f2)
    BY <2>2, <2>3, EndNotPassed
  <2>. QED BY <2>1, <2>2, <2>4 DEF LoadAt
<1>. QED BY <1>7, <1>8
-----------------------------------------------------------------------------
(* row2ImplPart3 has taken the lengths of the pairs before x, of the last  *)
(* one perhaps not all vertices.                                           *)
BlockReads  == {"row2Dist", "row2DistEnd", "row2Continue"}
BlockWrites == {"row2", "row2BlockEnd"}

BlockAt(g, rd, wr) ==
  LET x == rd["row2DistEnd"][1]
      c == rd["row2Continue"]
  IN  /\ x \in Int /\ block = [pc |-> block.pc, left |-> block.left]
      /\ block.left \in 0 .. Modulus - 1
      /\ rd["row2Dist"] = <<x, 0>> /\ rd["row2DistEnd"] = <<x, 0>>
      /\ wr["row2"] = c /\ wr["row2BlockEnd"] = c
      /\ \/ /\ block.pc = "row" /\ x - 1 \in Kept(g)
            /\ c = <<x - 1, OtherEnd(g, x - 1) - block.left>>
            /\ OtherStart(g, x - 1) <= OtherEnd(g, x - 1) - block.left
         \/ /\ (block.pc = "end" /\ x <= N(g) + 1) \/ (block.pc = "done" /\ x = N(g) + 2)
            /\ c = <<x, 0>>

LEMMA BlockNames ==
  /\ BlockReads \in SUBSET Names /\ BlockWrites \in SUBSET Names
  /\ BlockReads \cap BlockWrites = {}
  BY DEF BlockReads, BlockWrites, Names, Between

LEMMA BlockPairTurn ==
  ASSUME NEW g \in Files, off = g.offsets, rows = g.columns, NEW rd \in [Names -> Place],
         NEW wr \in [Names -> Place], Flow(g, rd, wr), BlockAt(g, rd, wr), BlockPair
  PROVE  \E D, E : /\ IsMove(D, BlockReads) /\ IsMove(E, BlockWrites)
                   /\ Flow(g, Moved(rd, D), Moved(wr, E))'
                   /\ BlockAt(g, Moved(rd, D), Moved(wr, E))'
<1>x. PICK x : x = rd["row2DistEnd"][1]
  OBVIOUS
<1>1. /\ x \in Int /\ rd["row2Dist"] = <<x, 0>> /\ rd["row2DistEnd"] = <<x, 0>>
      /\ rd["row2Continue"] = <<x, 0>> /\ wr["row2"] = <<x, 0>> /\ wr["row2BlockEnd"] = <<x, 0>>
  BY <1>x DEF BlockAt, BlockPair
<1>2. /\ Turn({"row2DistEnd", "row2Dist"}, Nothing) /\ Head(q["row2DistEnd"]) # TRUE
      /\ q["row2DistEnd"] # << >> /\ q["row2Dist"] # << >>
      /\ block' = [pc |-> "row", left |-> Head(q["row2Dist"])]
  BY DEF BlockPair, Turn, More
<1>3. PICK p : IsNext(g, x, p) /\ p # N(g) + 1
  BY <1>1, <1>2, PairFlag DEF PairEnds
<1>r. PICK r : r = OtherStart(g, p)
  OBVIOUS
<1> DEFINE next == <<p + 1, 0>>
           to == <<p, r>>
           D == [row2Dist |-> next, row2DistEnd |-> next, row2Continue |-> to]
           E == [row2 |-> to, row2BlockEnd |-> to]
<1>4. /\ p \in Int /\ <<p, 0>> \in Place /\ next \in Place /\ p \in Kept(g) /\ p \in Rows(g)
      /\ Passes(Slots(g)["row2Dist"], rd["row2Dist"], <<p, 0>>, next)
      /\ Passes(Slots(g)["row2DistEnd"], rd["row2DistEnd"], <<p, 0>>, next)
  BY <1>1, <1>3, PairSlots, SlotFacts
<1>5. /\ r \in 0 .. N(g) /\ OtherEnd(g, p) \in 0 .. N(g) /\ r \in Int /\ to \in Place
      /\ OtherEnd(g, p) - r \in 0 .. Modulus - 1 /\ OtherEnd(g, p) \in Int
      /\ r <= OtherEnd(g, p)
  BY <1>4, <1>r, OtherFacts, OtherIsShort, SlotsArePlaces DEF Rows, Place
<1>6. /\ Rests(Slots(g)["row2Continue"], rd["row2Continue"], to)
      /\ Rests(Slots(g)["row2"], wr["row2"], to)
      /\ Rests(Slots(g)["row2BlockEnd"], wr["row2BlockEnd"], to)
  <2>1. /\ Rests(Lower(g, 0), <<x, 0>>, <<p, OtherStart(g, p)>>)
        /\ Rests(Lower(g, 1), <<x, 0>>, <<p, OtherStart(g, p)>>)
    BY <1>3, ListGap
  <2>2. rd["row2Continue"] = <<x, 0>> /\ wr["row2"] = <<x, 0>> /\ wr["row2BlockEnd"] = <<x, 0>>
    BY <1>1
  <2>3. /\ Slots(g)["row2Continue"] = Lower(g, 0) /\ Slots(g)["row2"] = Lower(g, 0)
        /\ Slots(g)["row2BlockEnd"] = Lower(g, 1)
    BY SlotFacts
  <2>. QED BY <1>r, <2>1, <2>2, <2>3, Zenon
<1>7. Head(q["row2Dist"]) = OtherEnd(g, p) - r
  <2>1. Head(q["row2Dist"]) = Says(g)["row2Dist"][<<p, 0>>]
    BY <1>2, <1>4, BlockNames, SlotRead DEF BlockReads
  <2>. QED BY <1>4, <1>r, <2>1, SaysFacts DEF OtherLength
<1>8. /\ DOMAIN D = BlockReads /\ DOMAIN E = BlockWrites
      /\ D["row2Dist"] = next /\ D["row2DistEnd"] = next /\ D["row2Continue"] = to
      /\ E["row2"] = to /\ E["row2BlockEnd"] = to
  BY DEF BlockReads, BlockWrites
<1>. HIDE DEF D, E
<1>9. Takes(g, rd, D, {"row2DistEnd", "row2Dist"}) /\ Puts(g, wr, E, Nothing)
  BY <1>4, <1>5, <1>6, <1>8, NoMove, ZenonT(30) DEF Takes, Puts, BlockReads, BlockWrites
<1>10. /\ IsMove(D, BlockReads) /\ IsMove(E, BlockWrites)
       /\ Flow(g, Moved(rd, D), Moved(wr, E))'
  BY <1>2, <1>8, <1>9, BlockNames, MoveFlow, ZenonT(30)
<1>11. BlockAt(g, Moved(rd, D), Moved(wr, E))'
  <2>1. /\ Moved(rd, D)["row2Dist"] = next /\ Moved(rd, D)["row2DistEnd"] = next
        /\ Moved(rd, D)["row2Continue"] = to
        /\ Moved(wr, E)["row2"] = to /\ Moved(wr, E)["row2BlockEnd"] = to
    BY <1>8, BlockNames DEF Moved, BlockReads, BlockWrites
  <2>2. /\ next[1] \in Int /\ next[1] - 1 = p /\ next = <<next[1], 0>>
        /\ to = <<p, OtherEnd(g, p) - (OtherEnd(g, p) - r)>>
    BY <1>4, <1>5
  <2>3. block' = [pc |-> "row", left |-> OtherEnd(g, p) - r]
    BY <1>2, <1>7
  <2>4. OtherStart(g, p) <= OtherEnd(g, p) - (OtherEnd(g, p) - r)
    BY <1>5, <1>r
  <2>. HIDE DEF next, to
  <2>. QED BY <1>4, <1>5, <2>1, <2>2, <2>3, <2>4 DEF BlockAt
<1>. QED BY <1>10, <1>11

LEMMA BlockRowTurn ==
  ASSUME NEW g \in Files, off = g.offsets, rows = g.columns, NEW rd \in [Names -> Place],
         NEW wr \in [Names -> Place], Flow(g, rd, wr), BlockAt(g, rd, wr), BlockRow
  PROVE  \E D, E : /\ IsMove(D, BlockReads) /\ IsMove(E, BlockWrites)
                   /\ Flow(g, Moved(rd, D), Moved(wr, E))'
                   /\ BlockAt(g, Moved(rd, D), Moved(wr, E))'
<1>x. PICK x : x = rd["row2DistEnd"][1]
  OBVIOUS
<1>p. PICK p : p = x - 1
  OBVIOUS
<1>l. PICK l : l = block.left
  OBVIOUS
<1>r. PICK r : r = OtherEnd(g, p) - l
  OBVIOUS
<1>1. /\ x \in Int /\ p \in Kept(g) /\ l \in 0 .. Modulus - 1 /\ l > 0
      /\ rd["row2Continue"] = <<p, r>> /\ wr["row2"] = <<p, r>> /\ wr["row2BlockEnd"] = <<p, r>>
      /\ rd["row2Dist"] = <<x, 0>> /\ rd["row2DistEnd"] = <<x, 0>>
      /\ OtherStart(g, p) <= r
  BY <1>x, <1>p, <1>l, <1>r DEF BlockAt, BlockRow
<1>2. /\ Turn({"row2Continue"}, [row2BlockEnd |-> FALSE, row2 |-> Head(q["row2Continue"])])
      /\ q["row2Continue"] # << >>
      /\ block' = [pc |-> "row", left |-> l - 1]
  <2>1. /\ block = [pc |-> block.pc, left |-> block.left] /\ block.pc = "row"
    BY DEF BlockAt, BlockRow
  <2>2. /\ Turn({"row2Continue"}, [row2BlockEnd |-> FALSE, row2 |-> Head(q["row2Continue"])])
        /\ q["row2Continue"] # << >> /\ block' = [block EXCEPT !.left = l - 1]
    BY <1>l DEF BlockRow
  <2>. QED BY <1>l, <2>1, <2>2
<1>3. /\ p \in Int /\ p \in Rows(g) /\ OtherEnd(g, p) \in Int /\ OtherStart(g, p) \in Int
      /\ r \in Int /\ r + 1 \in Int /\ r < OtherEnd(g, p) /\ r <= OtherEnd(g, p)
      /\ r # OtherEnd(g, p) /\ x = p + 1
      /\ r + 1 = OtherEnd(g, p) - (l - 1) /\ l - 1 \in 0 .. Modulus - 1
      /\ OtherStart(g, p) <= OtherEnd(g, p) - (l - 1)
  <2>1. p \in Rows(g) /\ p \in Int /\ N(g) \in Nat
    BY <1>1, SlotsArePlaces
  <2>2. OtherEnd(g, p) \in 0 .. N(g) /\ OtherStart(g, p) \in 0 .. N(g)
    BY <2>1, OtherFacts DEF Rows
  <2>3. Modulus \in Nat
    BY TriangleAssumption
  <2>. QED BY <1>1, <1>p, <1>r, <2>1, <2>2, <2>3
<1> DEFINE to == <<p, r + 1>>
           writes == [row2BlockEnd |-> FALSE, row2 |-> Head(q["row2Continue"])]
           D == [row2Continue |-> to]
           E == [row2 |-> to, row2BlockEnd |-> to]
<1>4. /\ to \in Place /\ <<p, r>> \in Place
      /\ Passes(Lower(g, 0), <<p, r>>, <<p, r>>, to)
      /\ Passes(Lower(g, 1), <<p, r>>, <<p, r>>, to)
  BY <1>1, <1>3, LowerSlots DEF Place
<1>5. Head(q["row2Continue"]) = Says(g)["row2"][<<p, r>>]
  <2>1. Head(q["row2Continue"]) = Says(g)["row2Continue"][<<p, r>>]
    <3>1. Passes(Slots(g)["row2Continue"], rd["row2Continue"], <<p, r>>, to)
      BY <1>1, <1>4, SlotFacts
    <3>2. "row2Continue" \in Names
      BY BlockNames DEF BlockReads
    <3>. QED BY <1>2, <1>4, <3>1, <3>2, SlotRead, SMTT(30)
  <2>. QED BY <2>1, SaysFacts
<1>6. Says(g)["row2BlockEnd"][<<p, r>>] = FALSE
  BY <1>3, LowerFlags, Zenon
<1>7. /\ DOMAIN D = {"row2Continue"} /\ DOMAIN E = BlockWrites /\ DOMAIN writes = BlockWrites
      /\ D["row2Continue"] = to /\ E["row2"] = to /\ E["row2BlockEnd"] = to
      /\ writes["row2BlockEnd"] = FALSE /\ writes["row2"] = Head(q["row2Continue"])
      /\ Turn({"row2Continue"}, writes)
  BY <1>2 DEF BlockWrites
<1>. HIDE DEF D, E, writes, to
<1>8. Takes(g, rd, D, {"row2Continue"})
  BY <1>1, <1>4, <1>7, SlotFacts DEF Takes
<1>9. Puts(g, wr, E, writes)
  <2>1. /\ Passes(Slots(g)["row2"], wr["row2"], <<p, r>>, to)
        /\ Passes(Slots(g)["row2BlockEnd"], wr["row2BlockEnd"], <<p, r>>, to)
    BY <1>1, <1>4, SlotFacts
  <2>2. /\ writes["row2"] = Says(g)["row2"][<<p, r>>]
        /\ writes["row2BlockEnd"] = Says(g)["row2BlockEnd"][<<p, r>>]
    BY <1>5, <1>6, <1>7
  <2>. QED BY <1>4, <1>7, <2>1, <2>2 DEF Puts, BlockWrites
<1>10. /\ IsMove(D, BlockReads) /\ IsMove(E, BlockWrites)
       /\ Flow(g, Moved(rd, D), Moved(wr, E))'
  <2>1. DOMAIN D \subseteq BlockReads
    BY <1>7 DEF BlockReads
  <2>. QED BY <1>7, <1>8, <1>9, <2>1, BlockNames, MoveFlow
<1>11. BlockAt(g, Moved(rd, D), Moved(wr, E))'
  <2>1. /\ Moved(rd, D)["row2Dist"] = <<x, 0>> /\ Moved(rd, D)["row2DistEnd"] = <<x, 0>>
        /\ Moved(rd, D)["row2Continue"] = to
        /\ Moved(wr, E)["row2"] = to /\ Moved(wr, E)["row2BlockEnd"] = to
    BY <1>1, <1>7, BlockNames DEF Moved, BlockReads, BlockWrites
  <2>2. to = <<x - 1, OtherEnd(g, x - 1) - (l - 1)>> /\ x - 1 = p
    BY <1>3, <1>p DEF to
  <2>. QED BY <1>1, <1>2, <1>3, <2>1, <2>2 DEF BlockAt
<1>. QED BY <1>10, <1>11

LEMMA BlockLastTurn ==
  ASSUME NEW g \in Files, off = g.offsets, rows = g.columns, NEW rd \in [Names -> Place],
         NEW wr \in [Names -> Place], Flow(g, rd, wr), BlockAt(g, rd, wr), BlockLast
  PROVE  \E D, E : /\ IsMove(D, BlockReads) /\ IsMove(E, BlockWrites)
                   /\ Flow(g, Moved(rd, D), Moved(wr, E))'
                   /\ BlockAt(g, Moved(rd, D), Moved(wr, E))'
<1>x. PICK x : x = rd["row2DistEnd"][1]
  OBVIOUS
<1>p. PICK p : p = x - 1
  OBVIOUS
<1>r. PICK r : r = OtherEnd(g, p)
  OBVIOUS
<1>1. /\ x \in Int /\ p \in Kept(g) /\ block.left = 0
      /\ rd["row2Continue"] = <<p, r - 0>> /\ wr["row2"] = <<p, r - 0>>
      /\ wr["row2BlockEnd"] = <<p, r - 0>>
      /\ rd["row2Dist"] = <<x, 0>> /\ rd["row2DistEnd"] = <<x, 0>>
  BY <1>x, <1>p, <1>r DEF BlockAt, BlockLast
<1>2. Turn({}, [row2BlockEnd |-> TRUE]) /\ block' = [pc |-> "end", left |-> 0]
  <2>1. Turn({}, [row2BlockEnd |-> TRUE]) /\ block' = [block EXCEPT !.pc = "end"]
    BY DEF BlockLast
  <2>2. block = [pc |-> block.pc, left |-> block.left]
    BY DEF BlockAt
  <2>. QED BY <1>1, <2>1, <2>2
<1>3. /\ p \in Int /\ p \in Rows(g) /\ OtherStart(g, p) \in Int /\ OtherStart(g, p) <= r
      /\ r \in Int /\ r + 1 \in Int /\ r >= r /\ r <= r /\ r + 1 > r /\ x = p + 1 /\ r - 0 = r
  <2>1. p \in Rows(g) /\ p \in Int /\ N(g) \in Nat
    BY <1>1, SlotsArePlaces
  <2>2. r \in 0 .. N(g) /\ OtherStart(g, p) \in 0 .. N(g) /\ OtherStart(g, p) <= r
    BY <1>r, <2>1, OtherFacts DEF Rows
  <2>. QED BY <1>1, <1>p, <2>1, <2>2
<1> DEFINE to == <<x, 0>>
           writes == [row2BlockEnd |-> TRUE]
           D == [row2Continue |-> to]
           E == [row2 |-> to, row2BlockEnd |-> to]
<1>4. /\ to \in Place /\ <<p, r>> \in Place /\ to = <<p + 1, 0>>
      /\ Rests(Lower(g, 0), <<p, r>>, to)
      /\ Passes(Lower(g, 1), <<p, r>>, <<p, r>>, to)
  <2>1. Rests(Lower(g, 0), <<p, r>>, <<p + 1, 0>>)
    BY <1>1, <1>3, <1>r, LowerSlots, Zenon
  <2>2. Passes(Lower(g, 1), <<p, r>>, <<p, r>>, <<p, r + 1>>)
    BY <1>1, <1>3, <1>r, LowerSlots, Zenon
  <2>3. Rests(Lower(g, 1), <<p, r + 1>>, <<p + 1, 0>>)
    BY <1>1, <1>3, <1>r, LowerSlots, Zenon
  <2>4. Passes(Lower(g, 1), <<p, r>>, <<p, r>>, <<p + 1, 0>>)
    BY <2>2, <2>3, Along
  <2>. QED BY <1>1, <1>3, <2>1, <2>4 DEF Place
<1>5. Says(g)["row2BlockEnd"][<<p, r>>] = TRUE
  BY <1>3, <1>r, LowerFlags, Zenon
<1>6. /\ DOMAIN D = {"row2Continue"} /\ DOMAIN E = BlockWrites
      /\ DOMAIN writes = {"row2BlockEnd"}
      /\ D["row2Continue"] = to /\ E["row2"] = to /\ E["row2BlockEnd"] = to
      /\ writes["row2BlockEnd"] = TRUE /\ Turn({}, writes)
  BY <1>2 DEF BlockWrites
<1>. HIDE DEF D, E, writes, to
<1>7. Takes(g, rd, D, {})
  BY <1>1, <1>3, <1>4, <1>6, SlotFacts DEF Takes
<1>8. Puts(g, wr, E, writes)
  <2>1. /\ Rests(Slots(g)["row2"], wr["row2"], to)
        /\ Passes(Slots(g)["row2BlockEnd"], wr["row2BlockEnd"], <<p, r>>, to)
    BY <1>1, <1>3, <1>4, SlotFacts
  <2>. QED BY <1>4, <1>5, <1>6, <2>1 DEF Puts, BlockWrites
<1>9. /\ IsMove(D, BlockReads) /\ IsMove(E, BlockWrites)
      /\ Flow(g, Moved(rd, D), Moved(wr, E))'
  <2>1. DOMAIN D \subseteq BlockReads
    BY <1>6 DEF BlockReads
  <2>. QED BY <1>6, <1>7, <1>8, <2>1, BlockNames, MoveFlow
<1>10. BlockAt(g, Moved(rd, D), Moved(wr, E))'
  <2>1. /\ Moved(rd, D)["row2Dist"] = <<x, 0>> /\ Moved(rd, D)["row2DistEnd"] = <<x, 0>>
        /\ Moved(rd, D)["row2Continue"] = to
        /\ Moved(wr, E)["row2"] = to /\ Moved(wr, E)["row2BlockEnd"] = to
    BY <1>1, <1>6, BlockNames DEF Moved, BlockReads, BlockWrites
  <2>2. 0 \in 0 .. Modulus - 1 /\ x <= N(g) + 1
    BY <1>3, RowBound, TriangleAssumption
  <2>. QED BY <1>1, <1>2, <2>1, <2>2 DEF BlockAt, to
<1>. QED BY <1>9, <1>10

LEMMA BlockEndTurn ==
  ASSUME NEW g \in Files, off = g.offsets, rows = g.columns, NEW rd \in [Names -> Place],
         NEW wr \in [Names -> Place], Flow(g, rd, wr), BlockAt(g, rd, wr), BlockEnd
  PROVE  \E D, E : /\ IsMove(D, BlockReads) /\ IsMove(E, BlockWrites)
                   /\ Flow(g, Moved(rd, D), Moved(wr, E))'
                   /\ BlockAt(g, Moved(rd, D), Moved(wr, E))'
<1>x. PICK x : x = rd["row2DistEnd"][1]
  OBVIOUS
<1>1. /\ x \in Int /\ rd["row2Dist"] = <<x, 0>> /\ rd["row2DistEnd"] = <<x, 0>>
      /\ rd["row2Continue"] = <<x, 0>> /\ wr["row2"] = <<x, 0>> /\ wr["row2BlockEnd"] = <<x, 0>>
      /\ block.left \in 0 .. Modulus - 1
  BY <1>x DEF BlockAt, BlockEnd
<1>2. /\ Turn({"row2DistEnd"}, Nothing) /\ Head(q["row2DistEnd"]) # FALSE
      /\ q["row2DistEnd"] # << >> /\ block' = [pc |-> "done", left |-> block.left]
  BY DEF BlockEnd, Turn, Ends, BlockAt
<1>3. PICK p : IsNext(g, x, p) /\ p = N(g) + 1
  BY <1>1, <1>2, PairFlag DEF PairEnds
<1> DEFINE next == <<p + 1, 0>>
           D == [row2Dist |-> next, row2DistEnd |-> next, row2Continue |-> next]
           E == [row2 |-> next, row2BlockEnd |-> next]
<1>4. /\ p \in Int /\ next \in Place
      /\ Rests(Slots(g)["row2Dist"], rd["row2Dist"], next)
      /\ Passes(Slots(g)["row2DistEnd"], rd["row2DistEnd"], <<p, 0>>, next)
  BY <1>1, <1>3, PairSlots, SlotFacts
<1>5. /\ Rests(Slots(g)["row2Continue"], rd["row2Continue"], next)
      /\ Rests(Slots(g)["row2"], wr["row2"], next)
      /\ Rests(Slots(g)["row2BlockEnd"], wr["row2BlockEnd"], next)
  <2>1. Rests(Lower(g, 0), <<x, 0>>, next) /\ Rests(Lower(g, 1), <<x, 0>>, next)
    BY <1>3, LastGap
  <2>. QED BY <1>1, <2>1, SlotFacts
<1>6. /\ DOMAIN D = BlockReads /\ DOMAIN E = BlockWrites
      /\ \A s \in BlockReads : D[s] = next
      /\ \A s \in BlockWrites : E[s] = next
  BY DEF BlockReads, BlockWrites
<1>. HIDE DEF D, E
<1>7. Takes(g, rd, D, {"row2DistEnd"}) /\ Puts(g, wr, E, Nothing)
  BY <1>4, <1>5, <1>6, NoMove, ZenonT(30) DEF Takes, Puts, BlockReads, BlockWrites
<1>8. /\ IsMove(D, BlockReads) /\ IsMove(E, BlockWrites)
      /\ Flow(g, Moved(rd, D), Moved(wr, E))'
  BY <1>2, <1>6, <1>7, BlockNames, MoveFlow
<1>9. BlockAt(g, Moved(rd, D), Moved(wr, E))'
  <2>1. /\ \A s \in BlockReads : Moved(rd, D)[s] = next
        /\ \A s \in BlockWrites : Moved(wr, E)[s] = next
    BY <1>6, BlockNames DEF Moved
  <2>2. next[1] = N(g) + 2 /\ next[1] \in Int /\ next = <<next[1], 0>>
    BY <1>3, <1>4, SlotsArePlaces
  <2>. QED BY <1>1, <1>2, <2>1, <2>2 DEF BlockAt, BlockReads, BlockWrites
<1>. QED BY <1>8, <1>9
-----------------------------------------------------------------------------
(* row1CopyImpl has taken V lists and, of the columns, those up to a.  The *)
(* i-th copy of a list is that of the pair at p.                           *)
CopyReads  == {"col1End", "copyNum", "col1", "col1BlockEnd"}
CopyWrites == {"col1CopyEnd", "col1CopyBlockEnd", "col1Copy"}
Copies     == {"col1CopyBlockEnd", "col1Copy"}

ListOf(g, first, last) == [k \in 1 .. last - first |-> g.columns[first + k]]

CopyTurns(g, V, a, blockEnd, wr) ==
  LET S == g.offsets[V - 1]
      E == g.offsets[V]
      p == S + copy.i + 1
  IN  /\ V \in 1 .. nLists /\ copy.num = E - S /\ copy.i \in 0 .. copy.num - 1
      /\ \/ /\ copy.pc = "copy"
            /\ \/ copy.i = 0 /\ copy.arr = << >> /\ a = S
               \/ copy.i > 0 /\ copy.arr = ListOf(g, S, E) /\ a = E
            /\ blockEnd = <<a + 1, 0>> /\ wr["col1CopyEnd"] = <<p, 0>>
            /\ \A s \in Copies : wr[s] = <<p, 0>>
         \/ /\ copy.pc = "first" /\ copy.i = 0
            /\ copy.arr = ListOf(g, S, a) /\ a \in S .. E
            /\ blockEnd = IF a = E THEN <<a, 1>> ELSE <<a + 1, 0>>
            /\ wr["col1CopyEnd"] = <<p + 1, 0>>
            /\ \A s \in Copies : wr[s] = <<p, a + 1>>
         \/ /\ copy.pc = "again" /\ copy.i > 0 /\ copy.j \in copy.i + 1 .. copy.num
            /\ copy.arr = ListOf(g, S, E) /\ a = E
            /\ blockEnd = <<a + 1, 0>> /\ wr["col1CopyEnd"] = <<p + 1, 0>>
            /\ \A s \in Copies : wr[s] = <<p, S + copy.j + 1>>

CopyAt(g, rd, wr) ==
  LET V == rd["col1End"][1]
      a == rd["col1"][1] - 1
  IN  /\ copy = [pc |-> copy.pc, num |-> copy.num, i |-> copy.i, j |-> copy.j, arr |-> copy.arr]
      /\ V \in 0 .. nLists + 1 /\ a \in 0 .. N(g)
      /\ rd["col1End"] = <<V, 0>> /\ rd["copyNum"] = <<V, 0>> /\ rd["col1"] = <<a + 1, 0>>
      /\ \/ /\ copy.pc = "end" \/ (copy.pc = "done" /\ V = nLists + 1)
            /\ a = IF copy.pc = "end" THEN g.offsets[V] ELSE N(g)
            /\ copy.pc = "end" => V <= nLists
            /\ rd["col1BlockEnd"] = <<a + 1, 0>>
            /\ wr["col1CopyEnd"] = <<IF copy.pc = "end" THEN a + 1 ELSE a + 2, 0>>
            /\ \A s \in Copies : wr[s] = <<a + 1, 0>>
         \/ CopyTurns(g, V, a, rd["col1BlockEnd"], wr)

LEMMA CopyNames ==
  /\ CopyReads \in SUBSET Names /\ CopyWrites \in SUBSET Names
  /\ CopyReads \cap CopyWrites = {} /\ CopyWrites = Copies \cup {"col1CopyEnd"}
  BY DEF CopyReads, CopyWrites, Copies, Names, Between

LEMMA InList ==
  ASSUME NEW g \in Files, NEW V \in 1 .. nLists, NEW p \in Int,
         g.offsets[V - 1] < p, p <= g.offsets[V]
  PROVE  /\ p \in Rows(g) /\ ListStart(g, p) = g.offsets[V - 1] /\ ListEnd(g, p) = g.offsets[V]
         /\ p \in Kept(g) <=> g.offsets[V] - g.offsets[V - 1] > 1
         /\ p \in Closing(g) <=> p = g.offsets[V]
         /\ g.offsets[V - 1] \in Nat /\ g.offsets[V] \in Nat /\ p <= N(g) /\ N(g) \in Nat
         /\ g.offsets[V] <= N(g)
<1>1. V - 1 \in 0 .. nLists /\ V \in 0 .. nLists /\ V - 1 # nLists /\ (V - 1) + 1 = V
  BY CsrFacts
<1>2. /\ g.offsets[V - 1] \in Nat /\ g.offsets[V] \in Nat /\ g.offsets[V] <= N(g)
      /\ V - 1 \in ListsOf(g) /\ N(g) \in Nat
  BY <1>1, OffsetFacts, SlotsArePlaces
<1>3. p \in 1 .. N(g)
  BY <1>2
<1>4. ListStart(g, p) = g.offsets[V - 1] /\ ListEnd(g, p) = g.offsets[V]
  BY <1>1, <1>2, <1>3, ListFacts
<1>. QED BY <1>2, <1>3, <1>4 DEF Rows, Kept, Closing

(* No slot of a list whose pair is not kept.                               *)
LEMMA OneSlots ==
  ASSUME NEW g \in Files, NEW p \in Rows(g), p \notin Kept(g), NEW b \in Int, NEW c \in Int
  PROVE  /\ Rests(Upper(g, 0), <<p, b>>, <<p, c>>) /\ Rests(Upper(g, 1), <<p, b>>, <<p, c>>)
         /\ Rests(Upper(g, 0), <<p, b>>, <<p + 1, 0>>)
         /\ Rests(Upper(g, 1), <<p, b>>, <<p + 1, 0>>)
         /\ Rests(Flat(KeptOrEnd(g)), <<p, 0>>, <<p + 1, 0>>)
<1>1. p \in Int /\ Kept(g) \in SUBSET Rows(g) /\ N(g) \in Nat /\ p # N(g) + 1
      /\ KeptOrEnd(g) \in SUBSET Int
  BY SlotsArePlaces DEF Rows
<1>2. \A k \in {0, 1} : \A y \in Upper(g, k) :
        y[1] \in Int /\ y[2] \in Int /\ y[1] # p /\ y[1] < y[2] /\ y[1] > 0
  BY <1>1 DEF Upper, Place, Rows
<1>3. \A k \in {0, 1} : /\ Rests(Upper(g, k), <<p, b>>, <<p, c>>)
                        /\ Rests(Upper(g, k), <<p, b>>, <<p + 1, 0>>)
  BY <1>1, <1>2 DEF Rests, Before
<1>4. Rests(Flat(KeptOrEnd(g)), <<p, 0>>, <<p + 1, 0>>)
  BY <1>1, FlatRests DEF KeptOrEnd
<1>. QED BY <1>3, <1>4

LEMMA ListOfFacts ==
  ASSUME NEW g, NEW S \in Nat, NEW a \in Nat, S <= a
  PROVE  /\ Append(ListOf(g, S, a), g.columns[a + 1]) = ListOf(g, S, a + 1)
         /\ Len(ListOf(g, S, a)) = a - S
         /\ ListOf(g, S, a) = << >> <=> a = S
<1> DEFINE n == a - S
           s == ListOf(g, S, a)
           t == ListOf(g, S, a + 1)
           W == {g.columns[S + k] : k \in 1 .. n + 1}
<1>1. n \in Nat /\ S + (n + 1) = a + 1 /\ (a + 1) - S = n + 1
  OBVIOUS
<1>2. /\ DOMAIN s = 1 .. n /\ \A k \in 1 .. n : s[k] = g.columns[S + k]
      /\ DOMAIN t = 1 .. n + 1 /\ \A k \in 1 .. n + 1 : t[k] = g.columns[S + k]
      /\ s \in [1 .. n -> W] /\ t \in [1 .. n + 1 -> W]
  BY <1>1 DEF ListOf
<1>. HIDE DEF s, t, n, W
<1>3. s \in Seq(W) /\ t \in Seq(W) /\ Len(s) = n /\ Len(t) = n + 1
  BY <1>1, <1>2
<1>4. g.columns[S + (n + 1)] \in W
  <2>1. n + 1 \in 1 .. n + 1
    BY <1>1
  <2>. QED BY <1>2, <2>1
<1>5. Append(s, g.columns[S + (n + 1)]) \in Seq(W)
      /\ Len(Append(s, g.columns[S + (n + 1)])) = n + 1
      /\ \A k \in 1 .. n + 1 : Append(s, g.columns[S + (n + 1)])[k] = t[k]
  BY <1>1, <1>2, <1>3, <1>4, SMTT(30)
<1>6. Append(s, g.columns[S + (n + 1)]) = t
  BY <1>1, <1>3, <1>5
<1>7. s = << >> <=> n = 0
  BY <1>1, <1>3
<1>. QED BY <1>1, <1>3, <1>6, <1>7 DEF s, t, n

LEMMA CopyVertexTurn ==
  ASSUME NEW g \in Files, off = g.offsets, rows = g.columns, NEW rd \in [Names -> Place],
         NEW wr \in [Names -> Place], Flow(g, rd, wr), CopyAt(g, rd, wr), CopyVertex
  PROVE  \E D, E : /\ IsMove(D, CopyReads) /\ IsMove(E, CopyWrites)
                   /\ Flow(g, Moved(rd, D), Moved(wr, E))'
                   /\ CopyAt(g, Moved(rd, D), Moved(wr, E))'
<1>v. PICK V : V = rd["col1End"][1]
  OBVIOUS
<1>a. PICK a : a = rd["col1"][1] - 1
  OBVIOUS
<1>1. /\ V \in 0 .. nLists /\ a \in 0 .. N(g) /\ a = g.offsets[V]
      /\ rd["col1End"] = <<V, 0>> /\ rd["copyNum"] = <<V, 0>> /\ rd["col1"] = <<a + 1, 0>>
      /\ rd["col1BlockEnd"] = <<a + 1, 0>> /\ wr["col1CopyEnd"] = <<a + 1, 0>>
      /\ \A s \in Copies : wr[s] = <<a + 1, 0>>
  <2>1. CopyAt(g, rd, wr) /\ copy.pc = "end" /\ copy.pc # "copy" /\ copy.pc # "first"
        /\ copy.pc # "again"
    BY DEF CopyVertex
  <2>2. ~CopyTurns(g, V, a, rd["col1BlockEnd"], wr)
    BY <2>1 DEF CopyTurns
  <2>3. V \in 0 .. nLists
    BY <1>v, <1>a, <2>1, <2>2, CsrFacts DEF CopyAt
  <2>. QED BY <1>v, <1>a, <2>1, <2>2, <2>3 DEF CopyAt
<1>n. PICK num : num = Head(q["copyNum"])
  OBVIOUS
<1>2. /\ Turn({"col1End", "copyNum"}, Nothing)
      /\ q["col1End"] # << >> /\ q["copyNum"] # << >> /\ Head(q["col1End"]) # TRUE
      /\ copy' = [pc |-> IF num = 0 THEN "end" ELSE "copy", num |-> num, i |-> 0,
                  j |-> copy.j, arr |-> << >>]
  <2>1. /\ Turn({"col1End", "copyNum"}, Nothing) /\ q["col1End"] # << >>
        /\ Head(q["col1End"]) # TRUE
        /\ copy' = [copy EXCEPT !.num = num, !.i = 0, !.arr = << >>,
                                !.pc = IF num = 0 THEN "end" ELSE "copy"]
    BY <1>n DEF CopyVertex, More
  <2>2. copy = [pc |-> copy.pc, num |-> copy.num, i |-> copy.i, j |-> copy.j, arr |-> copy.arr]
    BY DEF CopyAt
  <2>3. q["copyNum"] # << >>
    BY <2>1 DEF Turn
  <2>. QED BY <2>1, <2>2, <2>3
<1> DEFINE next == <<V + 1, 0>>
           D == [col1End |-> next, copyNum |-> next]
<1>3. /\ V \in Int /\ nLists \in Nat /\ ListsOf(g) \in SUBSET Int
  BY <1>1, SlotsArePlaces
<1>4. /\ Head(q["col1End"]) = Says(g)["col1End"][<<V, 0>>]
      /\ Passes(Slots(g)["col1End"], rd["col1End"], <<V, 0>>, next) /\ next \in Place
  <2>1. /\ "col1End" \in Names /\ Slots(g)["col1End"] = Flat(0 .. nLists) /\ (0 .. nLists) \in SUBSET Int
    BY SlotFacts, CopyNames, <1>3 DEF CopyReads
  <2>2. next \in Place
    BY <1>3 DEF Place
  <2>. QED BY <1>1, <1>2, <2>1, <2>2, FlatRead
<1>5. V # nLists /\ V \in ListsOf(g) /\ V + 1 \in 0 .. nLists /\ V + 1 \in 1 .. nLists
  <2>1. V # nLists
    BY <1>2, <1>3, <1>4, ListFlags, Zenon
  <2>. QED BY <1>1, <1>3, <2>1, OffsetFacts
<1>6. /\ num = Says(g)["copyNum"][<<V, 0>>]
      /\ Passes(Slots(g)["copyNum"], rd["copyNum"], <<V, 0>>, next)
  <2>1. "copyNum" \in Names /\ Slots(g)["copyNum"] = Flat(ListsOf(g))
    BY SlotFacts, CopyNames DEF CopyReads
  <2>. QED BY <1>n, <1>1, <1>2, <1>3, <1>5, <2>1, FlatRead
<1>7. /\ num = g.offsets[V + 1] - g.offsets[V] /\ g.offsets[V] <= g.offsets[V + 1]
      /\ g.offsets[V + 1] \in Nat /\ g.offsets[V + 1] <= N(g) /\ g.offsets[V] \in Nat
      /\ num \in Nat
  <2>1. num = g.offsets[V + 1] - g.offsets[V]
    <3>1. <<V, 0>> \in Place /\ <<V, 0>>[1] = V
      BY <1>3 DEF Place
    <3>. QED BY <1>6, <3>1, SaysFacts DEF ListLength
  <2>2. /\ g.offsets[V + 1] \in Nat /\ g.offsets[V + 1] <= N(g)
        /\ g.offsets[V] \in Nat /\ g.offsets[V] <= g.offsets[V + 1]
    BY <1>1, <1>5, OffsetFacts
  <2>. QED BY <2>1, <2>2
<1>8. DOMAIN D = {"col1End", "copyNum"} /\ D["col1End"] = next /\ D["copyNum"] = next
  OBVIOUS
<1>. HIDE DEF D
<1>9. /\ IsMove(D, CopyReads) /\ IsMove(Nothing, CopyWrites)
      /\ Flow(g, Moved(rd, D), Moved(wr, Nothing))'
  <2>1. Takes(g, rd, D, {"col1End", "copyNum"}) /\ Puts(g, wr, Nothing, Nothing)
    BY <1>4, <1>6, <1>8, NoMove DEF Takes
  <2>2. DOMAIN D \subseteq CopyReads /\ DOMAIN Nothing \subseteq CopyWrites
    BY <1>8, NoMove DEF CopyReads
  <2>. QED BY <1>2, <2>1, <2>2, CopyNames, MoveFlow
<1>10. CopyAt(g, Moved(rd, D), Moved(wr, Nothing))'
  <2>1. /\ Moved(rd, D)["col1End"] = <<V + 1, 0>> /\ Moved(rd, D)["copyNum"] = <<V + 1, 0>>
        /\ Moved(rd, D)["col1"] = <<a + 1, 0>> /\ Moved(rd, D)["col1BlockEnd"] = <<a + 1, 0>>
        /\ Moved(wr, Nothing)["col1CopyEnd"] = <<a + 1, 0>>
        /\ \A s \in Copies : Moved(wr, Nothing)[s] = <<a + 1, 0>>
    BY <1>1, <1>8, CopyNames, NoMove DEF Moved, CopyReads
  <2>2. /\ V + 1 \in 0 .. nLists + 1 /\ (a + 1) - 1 = a /\ (V + 1) - 1 = V /\ V + 1 <= nLists
    BY <1>1, <1>3, <1>5, SlotsArePlaces
  <2>3. CASE num = 0
    <3>1. a = g.offsets[V + 1]
      BY <1>1, <1>7, <2>3
    <3>2. copy' = [pc |-> "end", num |-> num, i |-> 0, j |-> copy.j, arr |-> << >>]
      BY <1>2, <2>3
    <3>. QED BY <1>1, <2>1, <2>2, <3>1, <3>2 DEF CopyAt
  <2>4. CASE num # 0
    <3>1. copy' = [pc |-> "copy", num |-> num, i |-> 0, j |-> copy.j, arr |-> << >>]
      BY <1>2, <2>4
    <3>2. 0 \in 0 .. num - 1 /\ a + 0 + 1 = a + 1
      BY <1>1, <1>7, <2>4
    <3>3. CopyTurns(g, V + 1, a, <<a + 1, 0>>, Moved(wr, Nothing))'
      BY <1>1, <1>5, <1>7, <2>1, <2>2, <3>1, <3>2 DEF CopyTurns
    <3>. QED BY <1>1, <2>1, <2>2, <3>1, <3>3 DEF CopyAt
  <2>. QED BY <2>3, <2>4
<1>. QED BY <1>9, <1>10

(* While a list is copied.                                                 *)
LEMMA CopyTurnFacts ==
  ASSUME NEW g \in Files, NEW rd \in [Names -> Place], NEW wr \in [Names -> Place],
         CopyAt(g, rd, wr), copy.pc \in {"copy", "first", "again"}
  PROVE  \E V, a, S, E, p \in Int :
           /\ V = rd["col1End"][1] /\ a = rd["col1"][1] - 1
           /\ S = g.offsets[V - 1] /\ E = g.offsets[V] /\ p = S + copy.i + 1
           /\ V \in 1 .. nLists /\ S \in Nat /\ E \in Nat /\ S < E /\ a \in 0 .. N(g)
           /\ copy.i \in Nat /\ copy.i <= (E - S) - 1 /\ copy.num = E - S
           /\ p \in Rows(g) /\ S < p /\ p <= E /\ E <= N(g) /\ N(g) \in Nat
           /\ ListStart(g, p) = S /\ ListEnd(g, p) = E
           /\ p \in Kept(g) <=> E - S > 1
           /\ CopyTurns(g, V, a, rd["col1BlockEnd"], wr)
           /\ rd["col1End"] = <<V, 0>> /\ rd["copyNum"] = <<V, 0>> /\ rd["col1"] = <<a + 1, 0>>
<1>v. PICK V : V = rd["col1End"][1]
  OBVIOUS
<1>a. PICK a : a = rd["col1"][1] - 1
  OBVIOUS
<1>s. PICK S : S = g.offsets[V - 1]
  OBVIOUS
<1>e. PICK E : E = g.offsets[V]
  OBVIOUS
<1>p. PICK p : p = S + copy.i + 1
  OBVIOUS
<1>1. /\ CopyTurns(g, V, a, rd["col1BlockEnd"], wr)
      /\ a \in 0 .. N(g)
      /\ rd["col1End"] = <<V, 0>> /\ rd["copyNum"] = <<V, 0>> /\ rd["col1"] = <<a + 1, 0>>
  BY <1>v, <1>a DEF CopyAt
<1>2. V \in 1 .. nLists /\ copy.num = E - S /\ copy.i \in 0 .. copy.num - 1
  BY <1>1, <1>s, <1>e DEF CopyTurns
<1>3. S \in Nat /\ E \in Nat
  <2>1. V - 1 \in 0 .. nLists /\ V \in 0 .. nLists
    BY <1>2, CsrFacts
  <2>. QED BY <2>1, <1>s, <1>e, OffsetFacts
<1>4. /\ copy.i \in Nat /\ copy.i <= (E - S) - 1 /\ S < E /\ p \in Int /\ S < p /\ p <= E
  BY <1>2, <1>3, <1>p
<1>5. /\ p \in Rows(g) /\ ListStart(g, p) = S /\ ListEnd(g, p) = E
      /\ p \in Kept(g) <=> E - S > 1
      /\ E <= N(g) /\ N(g) \in Nat
  BY <1>2, <1>4, <1>s, <1>e, InList
<1>. QED BY <1>1, <1>2, <1>3, <1>4, <1>5, <1>v, <1>a, <1>s, <1>e, <1>p

LEMMA CopyStartTurn ==
  ASSUME NEW g \in Files, off = g.offsets, rows = g.columns, NEW rd \in [Names -> Place],
         NEW wr \in [Names -> Place], Flow(g, rd, wr), CopyAt(g, rd, wr), CopyStart
  PROVE  \E D, E : /\ IsMove(D, CopyReads) /\ IsMove(E, CopyWrites)
                   /\ Flow(g, Moved(rd, D), Moved(wr, E))'
                   /\ CopyAt(g, Moved(rd, D), Moved(wr, E))'
<1>1. copy.pc = "copy"
  BY DEF CopyStart
<1>2. PICK V, a, S, E, p \in Int :
           /\ V = rd["col1End"][1] /\ a = rd["col1"][1] - 1
           /\ S = g.offsets[V - 1] /\ E = g.offsets[V] /\ p = S + copy.i + 1
           /\ V \in 1 .. nLists /\ S \in Nat /\ E \in Nat /\ S < E /\ a \in 0 .. N(g)
           /\ copy.i \in Nat /\ copy.i <= (E - S) - 1 /\ copy.num = E - S
           /\ p \in Rows(g) /\ S < p /\ p <= E /\ E <= N(g) /\ N(g) \in Nat
           /\ ListStart(g, p) = S /\ ListEnd(g, p) = E
           /\ p \in Kept(g) <=> E - S > 1
           /\ CopyTurns(g, V, a, rd["col1BlockEnd"], wr)
           /\ rd["col1End"] = <<V, 0>> /\ rd["copyNum"] = <<V, 0>> /\ rd["col1"] = <<a + 1, 0>>
  BY <1>1, CopyTurnFacts
<1>3. /\ wr["col1CopyEnd"] = <<p, 0>> /\ \A s \in Copies : wr[s] = <<p, 0>>
      /\ rd["col1BlockEnd"] = <<a + 1, 0>>
      /\ copy.num = E - S /\ copy.i \in 0 .. copy.num - 1
      /\ \/ copy.i = 0 /\ copy.arr = << >> /\ a = S
         \/ copy.i > 0 /\ copy.arr = ListOf(g, S, E) /\ a = E
  BY <1>1, <1>2 DEF CopyTurns
<1>r. PICK r : r = IF copy.i = 0 THEN p ELSE p + 1
  OBVIOUS
<1> DEFINE to == <<p, r>>
           F == [col1CopyEnd |-> <<p + 1, 0>>, col1Copy |-> to, col1CopyBlockEnd |-> to]
           writes == IF copy.num > 1 THEN [col1CopyEnd |-> FALSE] ELSE Nothing
<1>4. /\ Turn({}, writes)
      /\ copy' = [pc |-> IF copy.i = 0 THEN "first" ELSE "again", num |-> copy.num,
                  i |-> copy.i, j |-> copy.i + 1, arr |-> copy.arr]
  <2>1. copy = [pc |-> copy.pc, num |-> copy.num, i |-> copy.i, j |-> copy.j, arr |-> copy.arr]
    BY DEF CopyAt
  <2>2. /\ Turn({}, writes)
        /\ copy' = [copy EXCEPT !.pc = IF copy.i = 0 THEN "first" ELSE "again", !.j = copy.i + 1]
    BY DEF CopyStart
  <2>. QED BY <2>1, <2>2
<1>5. /\ r \in Int /\ p \in Int /\ to \in Place /\ <<p + 1, 0>> \in Place /\ p # N(g) + 1
      /\ 0 <= p + 1 /\ r <= p + 1 /\ KeptOrEnd(g) \in SUBSET Int
  <2>1. p <= N(g) /\ N(g) \in Nat /\ 0 < p /\ p \in Int /\ copy.i \in Nat
    BY <1>2
  <2>2. r \in Int /\ r <= p + 1 /\ p # N(g) + 1 /\ 0 <= p + 1
    BY <1>r, <2>1
  <2>. QED BY <2>1, <2>2, SlotsArePlaces DEF Place
<1>6. /\ Rests(Upper(g, 0), <<p, 0>>, to) /\ Rests(Upper(g, 1), <<p, 0>>, to)
  <2>1. CASE p \in Kept(g)
    <3>1. 0 \in Int /\ p \in Kept(g) /\ r \in Int
      BY <1>5, <2>1
    <3>2. /\ Rests(Upper(g, 0), <<p, 0>>, <<p, p + 1>>) /\ Rests(Upper(g, 1), <<p, 0>>, <<p, p + 1>>)
      BY <1>5, <3>1, UpperSlots, Zenon
    <3>3. /\ Rests(Upper(g, 0), <<p, r>>, <<p, p + 1>>) /\ Rests(Upper(g, 1), <<p, r>>, <<p, p + 1>>)
      BY <1>5, <3>1, UpperSlots, Zenon
    <3>. QED BY <3>2, <3>3 DEF Rests
  <2>2. CASE p \notin Kept(g)
    <3>1. p \in Rows(g) /\ p \notin Kept(g) /\ 0 \in Int /\ r \in Int
      BY <1>2, <1>5, <2>2
    <3>. QED BY <3>1, OneSlots, Zenon
  <2>. QED BY <2>1, <2>2
<1>7. /\ DOMAIN F = CopyWrites
      /\ F["col1CopyEnd"] = <<p + 1, 0>> /\ F["col1Copy"] = to /\ F["col1CopyBlockEnd"] = to
      /\ \A s \in Copies : F[s] = to
  BY DEF CopyWrites, Copies
<1>8. /\ copy.num > 1 => /\ DOMAIN writes = {"col1CopyEnd"} /\ writes["col1CopyEnd"] = FALSE
                         /\ Passes(Slots(g)["col1CopyEnd"], wr["col1CopyEnd"], <<p, 0>>, <<p + 1, 0>>)
                         /\ Says(g)["col1CopyEnd"][<<p, 0>>] = FALSE
      /\ ~(copy.num > 1) => /\ DOMAIN writes = {}
                            /\ Rests(Slots(g)["col1CopyEnd"], wr["col1CopyEnd"], <<p + 1, 0>>)
  <2>1. CASE copy.num > 1
    <3>1. DOMAIN writes = {"col1CopyEnd"} /\ writes["col1CopyEnd"] = FALSE
      BY <2>1
    <3>2. p \in KeptOrEnd(g)
      BY <1>2, <2>1 DEF KeptOrEnd
    <3>3. Passes(Flat(KeptOrEnd(g)), <<p, 0>>, <<p, 0>>, <<p + 1, 0>>)
      BY <1>5, <3>2, NextFlat
    <3>4. Says(g)["col1CopyEnd"][<<p, 0>>] = FALSE
      <4>1. Says(g)["col1CopyEnd"] = IsLastRow(g)
        BY SaysFacts
      <4>2. <<p, 0>> \in Place /\ <<p, 0>>[1] # N(g) + 1
        BY <1>5 DEF Place
      <4>3. IsLastRow(g)[<<p, 0>>] = FALSE
        BY <4>2 DEF IsLastRow
      <4>. QED BY <4>1, <4>3
    <3>. QED BY <1>3, <2>1, <3>1, <3>3, <3>4, SlotFacts
  <2>2. CASE ~(copy.num > 1)
    <3>1. DOMAIN writes = {}
      BY <2>2, NoMove
    <3>2. p \in Rows(g) /\ p \notin Kept(g) /\ 0 \in Int
      BY <1>2, <2>2
    <3>3. Rests(Flat(KeptOrEnd(g)), <<p, 0>>, <<p + 1, 0>>)
      BY <3>2, OneSlots, Zenon
    <3>. QED BY <1>3, <2>2, <3>1, <3>3, SlotFacts
  <2>. QED BY <2>1, <2>2
<1>. HIDE DEF F, writes, to
<1>9. Puts(g, wr, F, writes)
  <2>1. \A s \in Copies : Rests(Slots(g)[s], wr[s], F[s]) /\ F[s] \in Place
    BY <1>3, <1>5, <1>6, <1>7, SlotFacts DEF Copies
  <2>. QED BY <1>5, <1>7, <1>8, <2>1 DEF Puts, CopyWrites, Copies
<1>10. /\ IsMove(Nothing, CopyReads) /\ IsMove(F, CopyWrites)
       /\ Flow(g, Moved(rd, Nothing), Moved(wr, F))'
  <2>1. Takes(g, rd, Nothing, {}) /\ DOMAIN Nothing \subseteq CopyReads
        /\ DOMAIN F \subseteq CopyWrites
    BY <1>7, NoMove
  <2>. QED BY <1>4, <1>9, <2>1, CopyNames, MoveFlow
<1>11. CopyAt(g, Moved(rd, Nothing), Moved(wr, F))'
  <2>1. /\ \A s \in CopyReads : Moved(rd, Nothing)[s] = rd[s]
        /\ Moved(wr, F)["col1CopyEnd"] = <<p + 1, 0>>
        /\ \A s \in Copies : Moved(wr, F)[s] = to
    BY <1>7, CopyNames, NoMove DEF Moved, CopyWrites, Copies
  <2>2. /\ Moved(rd, Nothing)["col1End"] = <<V, 0>> /\ Moved(rd, Nothing)["copyNum"] = <<V, 0>>
        /\ Moved(rd, Nothing)["col1"] = <<a + 1, 0>>
        /\ Moved(rd, Nothing)["col1BlockEnd"] = <<a + 1, 0>> /\ (a + 1) - 1 = a
        /\ V \in 0 .. nLists + 1
    <3>1. V \in 1 .. nLists /\ nLists \in Nat /\ a \in Int
      BY <1>2, SlotsArePlaces, SMTT(30)
    <3>2. /\ rd["col1End"] = <<V, 0>> /\ rd["copyNum"] = <<V, 0>> /\ rd["col1"] = <<a + 1, 0>>
          /\ rd["col1BlockEnd"] = <<a + 1, 0>>
      BY <1>2, <1>3, SMTT(30)
    <3>. QED BY <2>1, <3>1, <3>2 DEF CopyReads
  <2>3. CASE copy.i = 0
    <3>1. copy' = [pc |-> "first", num |-> copy.num, i |-> 0, j |-> 1, arr |-> << >>]
      BY <1>3, <1>4, <2>3
    <3>2. /\ a = S /\ a \in S .. E /\ a # E /\ << >> = ListOf(g, S, a) /\ to = <<p, a + 1>>
          /\ p = S + 0 + 1
      <4>1. a = S /\ a # E /\ r = p /\ p = S + 0 + 1
        BY <1>2, <1>3, <1>r, <2>3
      <4>2. << >> = ListOf(g, S, a)
        <5>1. S \in Nat /\ a \in Nat /\ S <= a
          BY <1>2, <4>1
        <5>. QED BY <4>1, <5>1, ListOfFacts
      <4>3. to = <<p, a + 1>>
        BY <1>2, <4>1, SMTT(30) DEF to
      <4>4. a \in S .. E
        BY <1>2, <4>1
      <4>. QED BY <4>1, <4>2, <4>3, <4>4
    <3>3. CopyTurns(g, V, a, <<a + 1, 0>>, Moved(wr, F))'
      <4>1. S = g.offsets[V - 1] /\ E = g.offsets[V] /\ V \in 1 .. nLists
        BY <1>2
      <4>2. copy.num = E - S /\ 0 \in 0 .. copy.num - 1
        BY <1>3, <2>3, SMTT(30)
      <4>. QED BY <2>1, <3>1, <3>2, <4>1, <4>2 DEF CopyTurns
    <3>. QED BY <1>2, <2>2, <3>1, <3>3 DEF CopyAt
  <2>4. CASE copy.i # 0
    <3>1. copy' = [pc |-> "again", num |-> copy.num, i |-> copy.i, j |-> copy.i + 1,
                   arr |-> ListOf(g, S, E)]
      BY <1>2, <1>3, <1>4, <2>4
    <3>2. /\ a = E /\ copy.i > 0 /\ to = <<p, S + (copy.i + 1) + 1>>
          /\ copy.i + 1 \in copy.i + 1 .. copy.num
      <4>1. a = E /\ copy.i > 0 /\ copy.i \in Nat /\ copy.i + 1 <= copy.num
            /\ copy.num \in Int /\ r = p + 1 /\ p = S + copy.i + 1 /\ S \in Nat
        <5>1. copy.i > 0 /\ a = E /\ copy.i \in Nat /\ r = p + 1 /\ S \in Nat
              /\ p = S + copy.i + 1
          BY <1>2, <1>3, <1>r, <2>4
        <5>2. copy.i <= (E - S) - 1 /\ copy.num = E - S /\ E \in Nat
          BY <1>2
        <5>. QED BY <5>1, <5>2
      <4>2. p + 1 = S + (copy.i + 1) + 1 /\ copy.i + 1 \in copy.i + 1 .. copy.num
        BY <4>1
      <4>. QED BY <4>1, <4>2 DEF to
    <3>3. CopyTurns(g, V, a, <<a + 1, 0>>, Moved(wr, F))'
      <4>1. S = g.offsets[V - 1] /\ E = g.offsets[V] /\ V \in 1 .. nLists
            /\ p = S + copy.i + 1
        BY <1>2
      <4>. QED BY <1>3, <2>1, <3>1, <3>2, <4>1 DEF CopyTurns
    <3>. QED BY <1>2, <2>2, <3>1, <3>3, SMTT(30) DEF CopyAt
  <2>. QED BY <2>3, <2>4
<1>. QED BY <1>10, <1>11

(* In a first copy the flags end with the list.                            *)
LEMMA CopyNotLast ==
  ASSUME NEW g \in Files, NEW rd \in [Names -> Place], NEW wr \in [Names -> Place],
         Flow(g, rd, wr), q["col1BlockEnd"] # << >>, NEW V \in 1 .. nLists,
         NEW b \in Int, g.offsets[V - 1] < b, b <= g.offsets[V],
         rd["col1BlockEnd"] = <<b, 0>>
  PROVE  /\ Head(q["col1BlockEnd"]) = FALSE
         /\ Passes(Slots(g)["col1BlockEnd"], rd["col1BlockEnd"], <<b, 0>>,
                   IF b = g.offsets[V] THEN <<b, 1>> ELSE <<b + 1, 0>>)
<1>1. "col1BlockEnd" \in Names /\ Slots(g)["col1BlockEnd"] = Blocks(g)
  BY CopyNames, SlotFacts DEF CopyReads
<1>2. b \in Rows(g) /\ (b \in Closing(g) <=> b = g.offsets[V])
  BY InList
<1>3. Passes(Blocks(g), <<b, 0>>, <<b, 0>>, IF b \in Closing(g) THEN <<b, 1>> ELSE <<b + 1, 0>>)
      /\ <<b, 1>> \in Place /\ <<b + 1, 0>> \in Place
  BY <1>2, BlockSlots
<1>4. Passes(Slots(g)["col1BlockEnd"], rd["col1BlockEnd"], <<b, 0>>,
             IF b = g.offsets[V] THEN <<b, 1>> ELSE <<b + 1, 0>>)
  BY <1>1, <1>2, <1>3
<1>5. Head(q["col1BlockEnd"]) = Says(g)["col1BlockEnd"][<<b, 0>>]
  <2>1. PICK z \in Place : Passes(Slots(g)["col1BlockEnd"], rd["col1BlockEnd"], <<b, 0>>, z)
    BY <1>3, <1>4
  <2>. QED BY <1>1, <2>1, ValueRead
<1>6. Says(g)["col1BlockEnd"][<<b, 0>>] = FALSE
  <2>1. b \in Int /\ 0 \in Int /\ 0 # 1
    OBVIOUS
  <2>. QED BY <2>1, ClosingFlags, Zenon
<1>. QED BY <1>4, <1>5, <1>6

LEMMA CopyLast ==
  ASSUME NEW g \in Files, NEW rd \in [Names -> Place], NEW wr \in [Names -> Place],
         Flow(g, rd, wr), q["col1BlockEnd"] # << >>, NEW V \in 1 .. nLists,
         NEW a \in Int, g.offsets[V - 1] < a, a = g.offsets[V],
         rd["col1BlockEnd"] = <<a, 1>>
  PROVE  /\ Head(q["col1BlockEnd"]) = TRUE
         /\ Passes(Slots(g)["col1BlockEnd"], rd["col1BlockEnd"], <<a, 1>>, <<a + 1, 0>>)
<1>1. "col1BlockEnd" \in Names /\ Slots(g)["col1BlockEnd"] = Blocks(g)
  BY CopyNames, SlotFacts DEF CopyReads
<1>2. a \in Rows(g) /\ a \in Closing(g)
  BY InList
<1>3. Passes(Slots(g)["col1BlockEnd"], rd["col1BlockEnd"], <<a, 1>>, <<a + 1, 0>>)
      /\ <<a + 1, 0>> \in Place
  BY <1>1, <1>2, BlockSlots
<1>4. Head(q["col1BlockEnd"]) = Says(g)["col1BlockEnd"][<<a, 1>>]
  <2>1. PICK z \in Place : Passes(Slots(g)["col1BlockEnd"], rd["col1BlockEnd"], <<a, 1>>, z)
    BY <1>3
  <2>2. \A x, z2 : z2 \in Place /\ Passes(Slots(g)["col1BlockEnd"], rd["col1BlockEnd"], x, z2)
                    => Head(q["col1BlockEnd"]) = Says(g)["col1BlockEnd"][x]
    BY <1>1, ValueRead
  <2>. QED BY <2>1, <2>2
<1>5. Says(g)["col1BlockEnd"][<<a, 1>>] = TRUE
  <2>1. 1 \in Int /\ 1 = 1
    OBVIOUS
  <2>. QED BY <2>1, ClosingFlags, Zenon
<1>. QED BY <1>3, <1>4, <1>5

(* Both FIFOs of copies move alike within a list.                          *)
LEMMA CopyMoves ==
  ASSUME NEW g \in Files, NEW p \in Rows(g), NEW r \in Int
  PROVE  /\ p \in Kept(g) /\ p + 1 <= r /\ r <= ListEnd(g, p)
              => \A s \in Copies : Passes(Slots(g)[s], <<p, r>>, <<p, r>>, <<p, r + 1>>)
         /\ p \notin Kept(g) \/ r + 1 <= p + 1
              => \A s \in Copies : Rests(Slots(g)[s], <<p, r>>, <<p, r + 1>>)
<1>1. /\ r + 1 \in Int /\ p \in Int /\ (r <= ListEnd(g, p) => r <= ListEnd(g, p) + 1)
      /\ (r + 1 <= p + 1 => r <= p + 1)
  BY SlotsArePlaces, ListFacts DEF Rows
<1>2. ASSUME p \in Kept(g), p + 1 <= r, r <= ListEnd(g, p)
      PROVE  \A s \in Copies : Passes(Slots(g)[s], <<p, r>>, <<p, r>>, <<p, r + 1>>)
  <2>1. Passes(Upper(g, 0), <<p, r>>, <<p, r>>, <<p, r + 1>>)
    BY <1>2, UpperSlots, Zenon
  <2>2. Passes(Upper(g, 1), <<p, r>>, <<p, r>>, <<p, r + 1>>)
    BY <1>1, <1>2, UpperSlots, Zenon
  <2>. QED BY <2>1, <2>2, SlotFacts DEF Copies
<1>3. ASSUME p \in Kept(g), r + 1 <= p + 1
      PROVE  \A s \in Copies : Rests(Slots(g)[s], <<p, r>>, <<p, r + 1>>)
  <2>1. Rests(Upper(g, 0), <<p, r>>, <<p, p + 1>>) /\ Rests(Upper(g, 1), <<p, r>>, <<p, p + 1>>)
    BY <1>1, <1>3, UpperSlots, Zenon
  <2>2. /\ Rests(Upper(g, 0), <<p, r + 1>>, <<p, p + 1>>)
        /\ Rests(Upper(g, 1), <<p, r + 1>>, <<p, p + 1>>)
    BY <1>1, <1>3, UpperSlots, Zenon
  <2>3. Rests(Upper(g, 0), <<p, r>>, <<p, r + 1>>) /\ Rests(Upper(g, 1), <<p, r>>, <<p, r + 1>>)
    BY <2>1, <2>2 DEF Rests
  <2>. QED BY <2>3, SlotFacts DEF Copies
<1>4. ASSUME p \notin Kept(g)
      PROVE  \A s \in Copies : Rests(Slots(g)[s], <<p, r>>, <<p, r + 1>>)
  <2>1. Rests(Upper(g, 0), <<p, r>>, <<p, r + 1>>) /\ Rests(Upper(g, 1), <<p, r>>, <<p, r + 1>>)
    BY <1>1, <1>4, OneSlots
  <2>. QED BY <2>1, SlotFacts DEF Copies
<1>. QED BY <1>2, <1>3, <1>4

LEMMA CopyFirstTurn ==
  ASSUME NEW g \in Files, off = g.offsets, rows = g.columns, NEW rd \in [Names -> Place],
         NEW wr \in [Names -> Place], Flow(g, rd, wr), CopyAt(g, rd, wr), CopyFirst
  PROVE  \E D, E : /\ IsMove(D, CopyReads) /\ IsMove(E, CopyWrites)
                   /\ Flow(g, Moved(rd, D), Moved(wr, E))'
                   /\ CopyAt(g, Moved(rd, D), Moved(wr, E))'
<1>1. copy.pc = "first"
  BY DEF CopyFirst
<1>2. PICK V, a, S, E, p \in Int :
           /\ V = rd["col1End"][1] /\ a = rd["col1"][1] - 1
           /\ S = g.offsets[V - 1] /\ E = g.offsets[V] /\ p = S + copy.i + 1
           /\ V \in 1 .. nLists /\ S \in Nat /\ E \in Nat /\ S < E /\ a \in 0 .. N(g)
           /\ copy.i \in Nat /\ copy.i <= (E - S) - 1 /\ copy.num = E - S
           /\ p \in Rows(g) /\ S < p /\ p <= E /\ E <= N(g) /\ N(g) \in Nat
           /\ ListStart(g, p) = S /\ ListEnd(g, p) = E
           /\ p \in Kept(g) <=> E - S > 1
           /\ CopyTurns(g, V, a, rd["col1BlockEnd"], wr)
           /\ rd["col1End"] = <<V, 0>> /\ rd["copyNum"] = <<V, 0>> /\ rd["col1"] = <<a + 1, 0>>
  BY <1>1, CopyTurnFacts
<1>3. /\ wr["col1CopyEnd"] = <<p + 1, 0>> /\ \A s \in Copies : wr[s] = <<p, a + 1>>
      /\ rd["col1BlockEnd"] = (IF a = E THEN <<a, 1>> ELSE <<a + 1, 0>>)
      /\ copy.i = 0 /\ copy.arr = ListOf(g, S, a) /\ S <= a /\ a <= E /\ p = S + 1
  <2>1. /\ wr["col1CopyEnd"] = <<p + 1, 0>> /\ \A s \in Copies : wr[s] = <<p, a + 1>>
        /\ rd["col1BlockEnd"] = (IF a = E THEN <<a, 1>> ELSE <<a + 1, 0>>)
        /\ copy.i = 0 /\ copy.arr = ListOf(g, S, a) /\ a \in S .. E
    BY <1>1, <1>2 DEF CopyTurns
  <2>2. p = S + copy.i + 1 /\ S \in Nat /\ E \in Nat
    BY <1>2
  <2>. QED BY <2>1, <2>2
<1>c. PICK col : col = Head(q["col1"])
  OBVIOUS
<1> DEFINE sends == copy.arr # << >> /\ copy.num > 1
           writes == IF copy.arr # << >> /\ copy.num > 1
                     THEN [col1CopyBlockEnd |-> FALSE, col1Copy |-> col] ELSE Nothing
<1>4. /\ Turn({"col1BlockEnd", "col1"}, writes) /\ q["col1BlockEnd"] # << >> /\ q["col1"] # << >>
      /\ Head(q["col1BlockEnd"]) # TRUE
      /\ copy' = [pc |-> "first", num |-> copy.num, i |-> 0, j |-> copy.j,
                  arr |-> Append(copy.arr, col)]
  <2>1. copy = [pc |-> copy.pc, num |-> copy.num, i |-> copy.i, j |-> copy.j, arr |-> copy.arr]
    BY DEF CopyAt
  <2>2. /\ Turn({"col1BlockEnd", "col1"}, writes) /\ Head(q["col1BlockEnd"]) # TRUE
        /\ copy' = [copy EXCEPT !.arr = Append(copy.arr, col)]
    BY <1>c DEF CopyFirst, More
  <2>3. q["col1BlockEnd"] # << >> /\ q["col1"] # << >>
    BY <2>2 DEF Turn
  <2>4. copy' = [pc |-> copy.pc, num |-> copy.num, i |-> copy.i, j |-> copy.j,
                 arr |-> Append(copy.arr, col)]
    BY <2>1, <2>2
  <2>. QED BY <1>1, <1>3, <2>2, <2>3, <2>4
<1>b. PICK b : b = a + 1
  OBVIOUS
<1>t. PICK to : to = IF b = E THEN <<b, 1>> ELSE <<b + 1, 0>>
  OBVIOUS
<1>5. /\ a # E /\ Passes(Slots(g)["col1BlockEnd"], rd["col1BlockEnd"], <<b, 0>>, to)
  <2>1. /\ V \in 1 .. nLists /\ a \in Int /\ E \in Int /\ E = g.offsets[V]
        /\ g.offsets[V - 1] <= a /\ a <= E /\ g.offsets[V - 1] < E /\ g.offsets[V - 1] \in Nat
    BY <1>2, <1>3
  <2>2. ASSUME a = E PROVE FALSE
    <3>1. rd["col1BlockEnd"] = <<a, 1>> /\ g.offsets[V - 1] < a /\ a = g.offsets[V]
      BY <1>3, <2>1, <2>2
    <3>. QED BY <1>4, <2>1, <3>1, CopyLast
  <2>3. rd["col1BlockEnd"] = <<b, 0>> /\ g.offsets[V - 1] < b /\ b <= g.offsets[V] /\ b \in Int
    BY <1>3, <1>b, <2>1, <2>2
  <2>4. Passes(Slots(g)["col1BlockEnd"], rd["col1BlockEnd"], <<b, 0>>,
               IF b = g.offsets[V] THEN <<b, 1>> ELSE <<b + 1, 0>>)
    BY <1>4, <2>1, <2>3, CopyNotLast
  <2>. QED BY <1>t, <2>1, <2>2, <2>4
<1>6. /\ b \in Int /\ a < E /\ b <= E /\ b \in Rows(g) /\ b \in Nat /\ a \in Nat
      /\ to \in Place /\ <<b + 1, 0>> \in Place /\ <<p, b + 1>> \in Place /\ <<p, b>> \in Place
      /\ Passes(Slots(g)["col1"], rd["col1"], <<b, 0>>, <<b + 1, 0>>)
  <2>1. /\ b \in Int /\ a < E /\ b <= E /\ S < b /\ b \in Nat /\ a \in Nat
    BY <1>2, <1>3, <1>5, <1>b, SMTT(30)
  <2>2. b \in Rows(g)
    BY <1>2, <2>1, InList
  <2>3. Passes(Flat(Rows(g)), <<b, 0>>, <<b, 0>>, <<b + 1, 0>>)
    BY <2>2, NextFlat, SlotsArePlaces
  <2>4. /\ to \in Place /\ <<b + 1, 0>> \in Place /\ <<p, b + 1>> \in Place /\ <<p, b>> \in Place
    BY <1>t, <2>1 DEF Place
  <2>5. rd["col1"] = <<b, 0>>
    BY <1>2, <1>b
  <2>. QED BY <2>1, <2>2, <2>3, <2>4, <2>5, SlotFacts
<1>7. col = g.columns[b]
  <2>1. Head(q["col1"]) = Says(g)["col1"][<<b, 0>>]
    <3>1. "col1" \in Names
      BY CopyNames DEF CopyReads
    <3>2. PICK x, z : /\ Passes(Slots(g)["col1"], rd["col1"], x, z)
                      /\ x = <<b, 0>> /\ z \in Place
      BY <1>6
    <3>3. q["col1"] # << >>
      BY <1>4
    <3>4. \A y, r2 : r2 \in Place /\ Passes(Slots(g)["col1"], rd["col1"], y, r2)
                     => Head(q["col1"]) = Says(g)["col1"][y]
      BY <3>1, <3>3, ValueRead
    <3>5. Head(q["col1"]) = Says(g)["col1"][x]
      BY <3>2, <3>4
    <3>. QED BY <3>2, <3>5
  <2>2. b \in Int
    BY <1>6
  <2>. QED BY <1>c, <2>1, <2>2, ColumnSaid, Zenon
<1> DEFINE D == [col1 |-> <<b + 1, 0>>, col1BlockEnd |-> to]
           F == [col1Copy |-> <<p, b + 1>>, col1CopyBlockEnd |-> <<p, b + 1>>]
<1>8. /\ DOMAIN D = {"col1BlockEnd", "col1"} /\ D["col1"] = <<b + 1, 0>> /\ D["col1BlockEnd"] = to
      /\ DOMAIN F = Copies /\ \A s \in Copies : F[s] = <<p, b + 1>>
  BY DEF Copies
<1>9. ASSUME sends PROVE Puts(g, wr, F, writes)
  <2>1. DOMAIN writes = Copies /\ writes["col1CopyBlockEnd"] = FALSE /\ writes["col1Copy"] = col
    BY <1>9 DEF Copies
  <2>2. p \in Kept(g) /\ p + 1 <= b /\ b <= ListEnd(g, p)
    <3>1. a # S
      <4>1. S \in Nat /\ a \in Nat /\ S <= a
        BY <1>2, <1>3, <1>6, SMTT(30)
      <4>. QED BY <1>3, <1>9, <4>1, ListOfFacts, SMTT(30)
    <3>2. E - S > 1
      BY <1>2, <1>9, SMTT(30)
    <3>3. p \in Kept(g) /\ ListEnd(g, p) = E
      BY <1>2, <3>2, SMTT(30)
    <3>4. p = S + 1 /\ S <= a /\ S \in Nat
      BY <1>2, <1>3
    <3>. QED BY <1>6, <1>b, <3>1, <3>3, <3>4
  <2>3. \A s \in Copies : Passes(Slots(g)[s], <<p, b>>, <<p, b>>, <<p, b + 1>>)
    BY <1>2, <1>6, <2>2, CopyMoves, Zenon
  <2>4. Says(g)["col1CopyBlockEnd"][<<p, b>>] = FALSE
    <3>1. p \in Int /\ b \in Int /\ b # ListEnd(g, p) + 1
      BY <1>2, <1>6
    <3>. QED BY <3>1, UpperFlags, ZenonT(30)
  <2>5. Says(g)["col1Copy"][<<p, b>>] = col
    BY <1>6, <1>7, SaysFacts, ZenonT(30) DEF UpperColumn
  <2>6. \A s \in Copies : wr[s] = <<p, b>>
    BY <1>3, <1>b
  <2>7. \A s \in Copies : writes[s] = Says(g)[s][<<p, b>>]
    BY <2>1, <2>4, <2>5 DEF Copies
  <2>. HIDE DEF writes, F, sends
  <2>. QED BY <1>6, <1>8, <2>1, <2>3, <2>6, <2>7 DEF Puts
<1>10. ASSUME ~sends PROVE Puts(g, wr, F, writes)
  <2>1. DOMAIN writes = {}
    BY <1>10, NoMove
  <2>2. p \notin Kept(g) \/ b + 1 <= p + 1
    <3>1. CASE copy.arr = << >>
      <4>1. S \in Nat /\ a \in Nat /\ S <= a
        BY <1>2, <1>3, <1>6
      <4>2. a = S
        <5>1. ListOf(g, S, a) = << >> <=> a = S
          BY <4>1, ListOfFacts
        <5>. QED BY <1>3, <3>1, <5>1
      <4>. QED BY <1>3, <1>b, <4>1, <4>2
    <3>2. CASE ~(copy.num > 1)
      BY <1>2, <3>2
    <3>. QED BY <1>10, <3>1, <3>2
  <2>3. \A s \in Copies : Rests(Slots(g)[s], <<p, b>>, <<p, b + 1>>)
    BY <1>2, <1>6, <2>2, CopyMoves, Zenon
  <2>4. \A s \in Copies : wr[s] = <<p, b>>
    BY <1>3, <1>b
  <2>. HIDE DEF writes, F, sends
  <2>. QED BY <1>6, <1>8, <2>1, <2>3, <2>4, ZenonT(30) DEF Puts
<1>. HIDE DEF D, F, writes
<1>11. Takes(g, rd, D, {"col1BlockEnd", "col1"}) /\ Puts(g, wr, F, writes)
  BY <1>5, <1>6, <1>8, <1>9, <1>10 DEF Takes
<1>12. /\ IsMove(D, CopyReads) /\ IsMove(F, CopyWrites)
       /\ Flow(g, Moved(rd, D), Moved(wr, F))'
  <2>1. DOMAIN D \subseteq CopyReads /\ DOMAIN F \subseteq CopyWrites
    BY <1>8, CopyNames DEF CopyReads
  <2>. QED BY <1>4, <1>11, <2>1, CopyNames, MoveFlow
<1>13. CopyAt(g, Moved(rd, D), Moved(wr, F))'
  <2>1. /\ Moved(rd, D)["col1End"] = <<V, 0>> /\ Moved(rd, D)["copyNum"] = <<V, 0>>
        /\ Moved(rd, D)["col1"] = <<b + 1, 0>> /\ Moved(rd, D)["col1BlockEnd"] = to
        /\ Moved(wr, F)["col1CopyEnd"] = <<p + 1, 0>>
        /\ \A s \in Copies : Moved(wr, F)[s] = <<p, b + 1>>
    <3>1. "col1CopyEnd" \notin Copies
      BY DEF Copies
    <3>. QED BY <1>2, <1>3, <1>8, <3>1, CopyNames DEF Moved, CopyReads
  <2>2. /\ V \in 0 .. nLists + 1 /\ b \in 0 .. N(g) /\ (b + 1) - 1 = b
    <3>1. V \in 1 .. nLists /\ nLists \in Nat /\ E <= N(g) /\ N(g) \in Nat
      BY <1>2, SlotsArePlaces
    <3>. QED BY <1>6, <3>1, SMTT(30)
  <2>3. copy' = [pc |-> "first", num |-> copy.num, i |-> 0, j |-> copy.j, arr |-> ListOf(g, S, b)]
    <3>1. S \in Nat /\ a \in Nat /\ S <= a
      BY <1>2, <1>3, <1>6
    <3>2. Append(copy.arr, col) = ListOf(g, S, b)
      <4>1. Append(ListOf(g, S, a), g.columns[a + 1]) = ListOf(g, S, a + 1)
        BY <3>1, ListOfFacts, ZenonT(30)
      <4>. QED BY <1>3, <1>7, <1>b, <4>1
    <3>. QED BY <1>4, <3>2
  <2>4. CopyTurns(g, V, b, to, Moved(wr, F))'
    <3>1. S = g.offsets[V - 1] /\ E = g.offsets[V] /\ V \in 1 .. nLists /\ copy.num = E - S
          /\ p = S + 0 + 1
      BY <1>2, <1>3, SMTT(30)
    <3>2. b \in S .. E /\ 0 \in 0 .. copy.num - 1
      BY <1>2, <1>3, <1>6, <1>b
    <3>. QED BY <1>t, <2>1, <2>3, <3>1, <3>2 DEF CopyTurns
  <2>. QED BY <1>2, <2>1, <2>2, <2>3, <2>4, SMTT(30) DEF CopyAt
<1>. QED BY <1>12, <1>13

LEMMA CopyAgainTurn ==
  ASSUME NEW g \in Files, off = g.offsets, rows = g.columns, NEW rd \in [Names -> Place],
         NEW wr \in [Names -> Place], Flow(g, rd, wr), CopyAt(g, rd, wr), CopyAgain
  PROVE  \E D, E : /\ IsMove(D, CopyReads) /\ IsMove(E, CopyWrites)
                   /\ Flow(g, Moved(rd, D), Moved(wr, E))'
                   /\ CopyAt(g, Moved(rd, D), Moved(wr, E))'
<1>1. copy.pc = "again"
  BY DEF CopyAgain
<1>2. PICK V, a, S, E, p \in Int :
           /\ V = rd["col1End"][1] /\ a = rd["col1"][1] - 1
           /\ S = g.offsets[V - 1] /\ E = g.offsets[V] /\ p = S + copy.i + 1
           /\ V \in 1 .. nLists /\ S \in Nat /\ E \in Nat /\ S < E /\ a \in 0 .. N(g)
           /\ copy.i \in Nat /\ copy.i <= (E - S) - 1 /\ copy.num = E - S
           /\ p \in Rows(g) /\ S < p /\ p <= E /\ E <= N(g) /\ N(g) \in Nat
           /\ ListStart(g, p) = S /\ ListEnd(g, p) = E
           /\ p \in Kept(g) <=> E - S > 1
           /\ CopyTurns(g, V, a, rd["col1BlockEnd"], wr)
           /\ rd["col1End"] = <<V, 0>> /\ rd["copyNum"] = <<V, 0>> /\ rd["col1"] = <<a + 1, 0>>
  BY <1>1, CopyTurnFacts
<1>j. PICK j : j = copy.j
  OBVIOUS
<1>b. PICK b : b = S + j + 1
  OBVIOUS
<1>3. /\ wr["col1CopyEnd"] = <<p + 1, 0>> /\ \A s \in Copies : wr[s] = <<p, b>>
      /\ rd["col1BlockEnd"] = <<a + 1, 0>> /\ a = E
      /\ copy.i > 0 /\ copy.arr = ListOf(g, S, E) /\ j \in copy.i + 1 .. copy.num
  BY <1>1, <1>2, <1>j, <1>b, ZenonT(30) DEF CopyTurns
<1> DEFINE writes == [col1CopyBlockEnd |-> FALSE, col1Copy |-> copy.arr[j + 1]]
           F == [col1Copy |-> <<p, b + 1>>, col1CopyBlockEnd |-> <<p, b + 1>>]
<1>4. /\ Turn({}, writes) /\ copy.i + 1 < copy.num /\ j < Len(copy.arr)
      /\ copy' = [pc |-> "again", num |-> copy.num, i |-> copy.i, j |-> j + 1, arr |-> copy.arr]
  <2>1. copy = [pc |-> copy.pc, num |-> copy.num, i |-> copy.i, j |-> copy.j, arr |-> copy.arr]
    BY DEF CopyAt
  <2>2. /\ Turn({}, writes) /\ copy.i + 1 < copy.num /\ j < Len(copy.arr)
        /\ copy' = [copy EXCEPT !.j = j + 1]
    BY <1>j DEF CopyAgain, CopyFrom
  <2>. QED BY <1>1, <2>1, <2>2
<1>5. /\ j \in Int /\ b \in Int /\ p + 1 <= b /\ b <= E /\ p \in Kept(g) /\ j + 1 <= copy.num
      /\ copy.i + 1 <= j + 1 /\ copy.arr[j + 1] = g.columns[b]
      /\ <<p, b>> \in Place /\ <<p, b + 1>> \in Place
  <2>1. S \in Nat /\ E \in Nat /\ S <= E /\ copy.i \in Nat /\ copy.num = E - S /\ p = S + copy.i + 1
        /\ copy.num \in Int
    <3>1. S \in Nat /\ E \in Nat /\ S < E /\ copy.i \in Nat /\ copy.num = E - S
          /\ p = S + copy.i + 1
      BY <1>2, Zenon
    <3>. QED BY <3>1
  <2>2. Len(ListOf(g, S, E)) = E - S
        /\ \A k \in 1 .. E - S : ListOf(g, S, E)[k] = g.columns[S + k]
    <3>1. S \in Nat /\ E \in Nat /\ S <= E
      BY <2>1
    <3>2. Len(ListOf(g, S, E)) = E - S
      BY <3>1, ListOfFacts
    <3>. QED BY <3>2 DEF ListOf
  <2>3. j \in Int /\ j < E - S /\ copy.i + 1 <= j /\ j + 1 \in 1 .. E - S
    <3>1. j \in copy.i + 1 .. copy.num /\ copy.i \in Nat /\ copy.num \in Int
      BY <1>3, <2>1
    <3>2. j \in Int /\ copy.i + 1 <= j
      BY <3>1
    <3>3. j < E - S
      <4>1. j < Len(copy.arr) /\ copy.arr = ListOf(g, S, E)
        BY <1>3, <1>4
      <4>. QED BY <2>2, <4>1
    <3>4. E - S \in Int
      BY <2>1
    <3>. QED BY <3>1, <3>2, <3>3, <3>4
  <2>4. b \in Int /\ p + 1 <= b /\ b <= E /\ b = S + (j + 1)
    BY <1>b, <2>1, <2>3
  <2>5. copy.arr[j + 1] = g.columns[b]
    BY <1>3, <2>2, <2>3, <2>4, SMTT(30)
  <2>6. p \in Kept(g)
    <3>1. copy.i \in Nat /\ copy.i + 1 < E - S /\ E - S \in Int
      BY <1>4, <2>1
    <3>2. E - S > 1
      BY <3>1
    <3>. QED BY <1>2, <3>2, Zenon
  <2>7. j + 1 <= copy.num /\ copy.i + 1 <= j + 1
    BY <2>1, <2>3
  <2>8. <<p, b>> \in Place /\ <<p, b + 1>> \in Place
    BY <2>4 DEF Place
  <2>. QED BY <2>3, <2>4, <2>5, <2>6, <2>7, <2>8
<1>6. /\ DOMAIN F = Copies /\ \A s \in Copies : F[s] = <<p, b + 1>>
      /\ DOMAIN writes = Copies /\ writes["col1CopyBlockEnd"] = FALSE
      /\ writes["col1Copy"] = g.columns[b]
  BY <1>5 DEF Copies
<1>7. Puts(g, wr, F, writes)
  <2>1. \A s \in Copies : Passes(Slots(g)[s], <<p, b>>, <<p, b>>, <<p, b + 1>>)
    <3>1. p \in Rows(g) /\ b \in Int /\ p \in Kept(g) /\ p + 1 <= b /\ b <= ListEnd(g, p)
      BY <1>2, <1>5, SMTT(30)
    <3>. QED BY <3>1, CopyMoves, Zenon
  <2>2. Says(g)["col1CopyBlockEnd"][<<p, b>>] = FALSE
    <3>1. p \in Int /\ b \in Int /\ b # ListEnd(g, p) + 1
      BY <1>2, <1>5
    <3>. QED BY <3>1, UpperFlags, Zenon
  <2>3. Says(g)["col1Copy"][<<p, b>>] = g.columns[b]
    BY <1>5, SaysFacts, ZenonT(30) DEF UpperColumn
  <2>4. \A s \in Copies : writes[s] = Says(g)[s][<<p, b>>]
    BY <1>6, <2>2, <2>3 DEF Copies
  <2>. HIDE DEF writes, F
  <2>. QED BY <1>3, <1>5, <1>6, <2>1, <2>4 DEF Puts
<1>. HIDE DEF writes, F
<1>8. /\ IsMove(Nothing, CopyReads) /\ IsMove(F, CopyWrites)
      /\ Flow(g, Moved(rd, Nothing), Moved(wr, F))'
  <2>1. Takes(g, rd, Nothing, {}) /\ DOMAIN Nothing \subseteq CopyReads
        /\ DOMAIN F \subseteq CopyWrites
    BY <1>6, NoMove, CopyNames
  <2>. QED BY <1>4, <1>7, <2>1, CopyNames, MoveFlow
<1>9. CopyAt(g, Moved(rd, Nothing), Moved(wr, F))'
  <2>1. /\ Moved(rd, Nothing)["col1End"] = <<V, 0>> /\ Moved(rd, Nothing)["copyNum"] = <<V, 0>>
        /\ Moved(rd, Nothing)["col1"] = <<a + 1, 0>>
        /\ Moved(rd, Nothing)["col1BlockEnd"] = <<a + 1, 0>>
        /\ Moved(wr, F)["col1CopyEnd"] = <<p + 1, 0>>
        /\ \A s \in Copies : Moved(wr, F)[s] = <<p, b + 1>>
    <3>1. "col1CopyEnd" \notin Copies
      BY DEF Copies
    <3>. QED BY <1>2, <1>3, <1>6, <3>1, CopyNames, NoMove DEF Moved, CopyReads
  <2>2. V \in 0 .. nLists + 1 /\ (a + 1) - 1 = a
    <3>1. V \in 1 .. nLists /\ nLists \in Nat
      BY <1>2, SlotsArePlaces
    <3>. QED BY <3>1
  <2>3. CopyTurns(g, V, a, <<a + 1, 0>>, Moved(wr, F))'
    <3>1. S = g.offsets[V - 1] /\ E = g.offsets[V] /\ V \in 1 .. nLists /\ p = S + copy.i + 1
          /\ copy.num = E - S /\ copy.i \in 0 .. copy.num - 1
      BY <1>2
    <3>2. b + 1 = S + (j + 1) + 1 /\ j + 1 \in copy.i + 1 .. copy.num
      BY <1>2, <1>5, <1>b
    <3>. QED BY <1>3, <1>4, <2>1, <3>1, <3>2, ZenonT(30) DEF CopyTurns
  <2>. QED BY <1>2, <1>4, <2>1, <2>2, <2>3 DEF CopyAt
<1>. QED BY <1>8, <1>9

LEMMA CopyBlockTurn ==
  ASSUME NEW g \in Files, off = g.offsets, rows = g.columns, NEW rd \in [Names -> Place],
         NEW wr \in [Names -> Place], Flow(g, rd, wr), CopyAt(g, rd, wr), CopyBlock
  PROVE  \E D, E : /\ IsMove(D, CopyReads) /\ IsMove(E, CopyWrites)
                   /\ Flow(g, Moved(rd, D), Moved(wr, E))'
                   /\ CopyAt(g, Moved(rd, D), Moved(wr, E))'
<1>1. copy.pc \in {"first", "again"}
  BY DEF CopyBlock
<1>2. PICK V, a, S, E, p \in Int :
           /\ V = rd["col1End"][1] /\ a = rd["col1"][1] - 1
           /\ S = g.offsets[V - 1] /\ E = g.offsets[V] /\ p = S + copy.i + 1
           /\ V \in 1 .. nLists /\ S \in Nat /\ E \in Nat /\ S < E /\ a \in 0 .. N(g)
           /\ copy.i \in Nat /\ copy.i <= (E - S) - 1 /\ copy.num = E - S
           /\ p \in Rows(g) /\ S < p /\ p <= E /\ E <= N(g) /\ N(g) \in Nat
           /\ ListStart(g, p) = S /\ ListEnd(g, p) = E
           /\ p \in Kept(g) <=> E - S > 1
           /\ CopyTurns(g, V, a, rd["col1BlockEnd"], wr)
           /\ rd["col1End"] = <<V, 0>> /\ rd["copyNum"] = <<V, 0>> /\ rd["col1"] = <<a + 1, 0>>
  BY <1>1, CopyTurnFacts, ZenonT(30)
<1>i. PICK i : i = copy.i
  OBVIOUS
<1>n. PICK num : num = copy.num
  OBVIOUS
<1>3. /\ S \in Nat /\ E \in Nat /\ S < E /\ i \in Nat /\ i <= num - 1 /\ num = E - S /\ num \in Int
      /\ p = S + i + 1
  BY <1>2, <1>i, <1>n
<1>t. PICK to : to = <<a + 1, 0>>
  OBVIOUS
<1> DEFINE reads == IF copy.pc = "first" THEN {"col1BlockEnd"} ELSE {}
           writes == IF num > 1 THEN [col1CopyBlockEnd |-> TRUE] ELSE Nothing
           D == [col1BlockEnd |-> to]
           F == [col1Copy |-> <<p + 1, 0>>, col1CopyBlockEnd |-> <<p + 1, 0>>]
<1>4. /\ Turn(reads, writes)
      /\ copy' = [pc |-> IF i + 1 < num THEN "copy" ELSE "end", num |-> num, i |-> i + 1,
                  j |-> copy.j, arr |-> copy.arr]
  <2>1. copy = [pc |-> copy.pc, num |-> copy.num, i |-> copy.i, j |-> copy.j, arr |-> copy.arr]
    BY DEF CopyAt
  <2>2. /\ Turn(reads, writes)
        /\ copy' = [copy EXCEPT !.i = i + 1, !.pc = IF i + 1 < num THEN "copy" ELSE "end"]
    BY <1>i, <1>n DEF CopyBlock
  <2>. QED BY <1>n, <2>1, <2>2
<1>5. /\ a = E /\ copy.arr = ListOf(g, S, E) /\ wr["col1CopyEnd"] = <<p + 1, 0>>
      /\ \A s \in Copies : wr[s] = <<p, E + 1>>
      /\ DOMAIN D = {"col1BlockEnd"} /\ D["col1BlockEnd"] = to
      /\ Takes(g, rd, D, reads)
  <2>1. DOMAIN D = {"col1BlockEnd"} /\ D["col1BlockEnd"] = to /\ to \in Place
    BY <1>t DEF Place
  <2>2. CASE copy.pc = "first"
    <3>1. /\ wr["col1CopyEnd"] = <<p + 1, 0>> /\ \A s \in Copies : wr[s] = <<p, a + 1>>
          /\ rd["col1BlockEnd"] = (IF a = E THEN <<a, 1>> ELSE <<a + 1, 0>>)
          /\ copy.arr = ListOf(g, S, a) /\ a \in S .. E
      BY <1>2, <2>2 DEF CopyTurns
    <3>2. q["col1BlockEnd"] # << >> /\ Head(q["col1BlockEnd"]) # FALSE /\ reads = {"col1BlockEnd"}
      BY <2>2 DEF CopyBlock, Ends
    <3>3. /\ V \in 1 .. nLists /\ a \in Int /\ E \in Int /\ E = g.offsets[V]
          /\ g.offsets[V - 1] <= a /\ a <= E /\ g.offsets[V - 1] < E /\ g.offsets[V - 1] \in Nat
      <4>1. S \in Nat /\ E \in Nat /\ S < E /\ a \in S .. E
        BY <1>3, <3>1
      <4>2. a \in Int /\ S <= a /\ a <= E
        BY <4>1
      <4>3. V \in 1 .. nLists /\ S = g.offsets[V - 1] /\ E = g.offsets[V]
        BY <1>2
      <4>. QED BY <4>1, <4>2, <4>3
    <3>4. a = E /\ Passes(Slots(g)["col1BlockEnd"], rd["col1BlockEnd"], <<a, 1>>, <<a + 1, 0>>)
      <4>1. ASSUME a # E PROVE FALSE
        <5>1. /\ rd["col1BlockEnd"] = <<a + 1, 0>> /\ a + 1 \in Int /\ g.offsets[V - 1] < a + 1
              /\ a + 1 <= g.offsets[V]
          BY <3>1, <3>3, <4>1
        <5>. QED BY <3>2, <3>3, <5>1, CopyNotLast
      <4>2. rd["col1BlockEnd"] = <<a, 1>> /\ g.offsets[V - 1] < a /\ a = g.offsets[V]
        BY <3>1, <3>3, <4>1
      <4>. QED BY <3>2, <3>3, <4>1, <4>2, CopyLast
    <3>5. a = E /\ Passes(Slots(g)["col1BlockEnd"], rd["col1BlockEnd"], <<a, 1>>, to)
      BY <1>t, <3>2, <3>4
    <3>. HIDE DEF reads, D
    <3>6. Takes(g, rd, D, reads)
      BY <2>1, <3>2, <3>5 DEF Takes
    <3>. QED BY <2>1, <3>1, <3>5, <3>6, SMTT(30)
  <2>3. CASE copy.pc = "again"
    <3>1. /\ wr["col1CopyEnd"] = <<p + 1, 0>> /\ \A s \in Copies : wr[s] = <<p, S + copy.j + 1>>
          /\ rd["col1BlockEnd"] = <<a + 1, 0>> /\ a = E
          /\ copy.arr = ListOf(g, S, E) /\ copy.j \in i + 1 .. num
      BY <1>2, <1>i, <1>n, <2>3 DEF CopyTurns
    <3>2. ~(i + 1 < num /\ copy.j < Len(copy.arr)) /\ reads = {}
      BY <2>3, <1>i, <1>n DEF CopyBlock
    <3>3. Len(ListOf(g, S, E)) = E - S
      <4>1. S \in Nat /\ E \in Nat /\ S <= E
        BY <1>3
      <4>. QED BY <4>1, ListOfFacts
    <3>4. S + copy.j + 1 = E + 1
      <4>1. copy.j \in i + 1 .. num /\ i \in Int /\ num \in Int /\ num = E - S
        BY <1>3, <3>1
      <4>2. ~(i + 1 < num /\ copy.j < E - S)
        BY <3>1, <3>2, <3>3
      <4>3. copy.j \in Int /\ i + 1 <= copy.j /\ copy.j <= num
        BY <4>1
      <4>4. PICK k : k = copy.j
        OBVIOUS
      <4>5. k = num
        BY <4>1, <4>2, <4>3, <4>4
      <4>6. S \in Int /\ E \in Int
        BY <1>3
      <4>. QED BY <4>1, <4>4, <4>5, <4>6
    <3>. HIDE DEF reads, D
    <3>5. Takes(g, rd, D, reads)
      <4>1. Rests(Slots(g)["col1BlockEnd"], rd["col1BlockEnd"], to)
        BY <1>t, <3>1 DEF Rests
      <4>. QED BY <2>1, <3>2, <4>1 DEF Takes
    <3>. QED BY <2>1, <3>1, <3>4, <3>5, SMTT(30)
  <2>. QED BY <1>1, <2>2, <2>3
<1>6. DOMAIN F = Copies /\ \A s \in Copies : F[s] = <<p + 1, 0>>
  BY DEF Copies
<1>7. <<p + 1, 0>> \in Place /\ <<p, E + 1>> \in Place /\ E + 1 \in Int
  BY <1>3 DEF Place
<1>8. Puts(g, wr, F, writes)
  <2>1. CASE p \in Kept(g)
    <3>1. DOMAIN writes = {"col1CopyBlockEnd"} /\ writes["col1CopyBlockEnd"] = TRUE
      BY <1>2, <1>n, <2>1
    <3>2. /\ E + 1 \in Int /\ E + 1 > ListEnd(g, p) /\ p + 1 <= E + 1 /\ E + 1 <= ListEnd(g, p) + 1
          /\ (E + 1) + 1 \in Int /\ (E + 1) + 1 > ListEnd(g, p) + 1
      <4>1. ListEnd(g, p) = E /\ p <= E /\ E \in Nat
        BY <1>2
      <4>. QED BY <4>1
    <3>3. Rests(Upper(g, 0), <<p, E + 1>>, <<p + 1, 0>>)
      BY <2>1, <3>2, UpperSlots, Zenon
    <3>4. Passes(Upper(g, 1), <<p, E + 1>>, <<p, E + 1>>, <<p, (E + 1) + 1>>)
      BY <2>1, <3>2, UpperSlots, Zenon
    <3>5. Rests(Upper(g, 1), <<p, (E + 1) + 1>>, <<p + 1, 0>>)
      BY <2>1, <3>2, UpperSlots, Zenon
    <3>6. Passes(Upper(g, 1), <<p, E + 1>>, <<p, E + 1>>, <<p + 1, 0>>)
      BY <3>4, <3>5, Along
    <3>7. Says(g)["col1CopyBlockEnd"][<<p, E + 1>>] = TRUE
      <4>1. p \in Int /\ E + 1 \in Int /\ E + 1 = ListEnd(g, p) + 1
        BY <1>2, <1>7
      <4>. QED BY <4>1, UpperFlags, ZenonT(30)
    <3>8. /\ Rests(Slots(g)["col1Copy"], wr["col1Copy"], <<p + 1, 0>>)
          /\ Passes(Slots(g)["col1CopyBlockEnd"], wr["col1CopyBlockEnd"], <<p, E + 1>>, <<p + 1, 0>>)
      BY <1>5, <3>3, <3>6, SlotFacts DEF Copies
    <3>. HIDE DEF writes, F
    <3>. QED BY <1>6, <1>7, <3>1, <3>7, <3>8 DEF Puts, Copies
  <2>2. CASE p \notin Kept(g)
    <3>1. DOMAIN writes = {}
      BY <1>2, <1>n, <2>2, NoMove
    <3>2. p \in Rows(g) /\ p \notin Kept(g) /\ E + 1 \in Int
      BY <1>2, <1>7, <2>2
    <3>3. /\ Rests(Upper(g, 0), <<p, E + 1>>, <<p + 1, 0>>)
          /\ Rests(Upper(g, 1), <<p, E + 1>>, <<p + 1, 0>>)
      BY <3>2, OneSlots, Zenon
    <3>4. \A s \in Copies : Rests(Slots(g)[s], wr[s], <<p + 1, 0>>)
      BY <1>5, <3>3, SlotFacts DEF Copies
    <3>. HIDE DEF writes, F
    <3>. QED BY <1>6, <1>7, <3>1, <3>4 DEF Puts
  <2>. QED BY <2>1, <2>2
<1>. HIDE DEF reads, writes, D, F
<1>9. /\ IsMove(D, CopyReads) /\ IsMove(F, CopyWrites)
      /\ Flow(g, Moved(rd, D), Moved(wr, F))'
  <2>1. DOMAIN D \subseteq CopyReads /\ DOMAIN F \subseteq CopyWrites
    BY <1>5, <1>6, CopyNames DEF CopyReads
  <2>. QED BY <1>4, <1>5, <1>8, <2>1, CopyNames, MoveFlow
<1>10. CopyAt(g, Moved(rd, D), Moved(wr, F))'
  <2>1. /\ Moved(rd, D)["col1End"] = <<V, 0>> /\ Moved(rd, D)["copyNum"] = <<V, 0>>
        /\ Moved(rd, D)["col1"] = <<a + 1, 0>> /\ Moved(rd, D)["col1BlockEnd"] = <<a + 1, 0>>
        /\ Moved(wr, F)["col1CopyEnd"] = <<p + 1, 0>>
        /\ \A s \in Copies : Moved(wr, F)[s] = <<p + 1, 0>>
    <3>1. "col1CopyEnd" \notin Copies
      BY DEF Copies
    <3>. QED BY <1>2, <1>5, <1>6, <1>t, <3>1, CopyNames DEF Moved, CopyReads
  <2>2. V \in 0 .. nLists + 1 /\ (a + 1) - 1 = a /\ V <= nLists
    <3>1. V \in 1 .. nLists /\ nLists \in Nat
      BY <1>2, SlotsArePlaces
    <3>. QED BY <3>1
  <2>3. CASE i + 1 < num
    <3>1. copy' = [pc |-> "copy", num |-> num, i |-> i + 1, j |-> copy.j, arr |-> ListOf(g, S, E)]
      BY <1>4, <1>5, <2>3
    <3>2. /\ i + 1 \in 0 .. num - 1 /\ i + 1 > 0 /\ p + 1 = S + (i + 1) + 1
      BY <1>3, <2>3
    <3>3. S = g.offsets[V - 1] /\ E = g.offsets[V] /\ V \in 1 .. nLists /\ num = E - S
      BY <1>2, <1>n
    <3>4. CopyTurns(g, V, a, <<a + 1, 0>>, Moved(wr, F))'
      BY <1>5, <2>1, <3>1, <3>2, <3>3 DEF CopyTurns
    <3>. QED BY <1>2, <2>1, <2>2, <3>1, <3>4 DEF CopyAt
  <2>4. CASE ~(i + 1 < num)
    <3>1. copy' = [pc |-> "end", num |-> num, i |-> i + 1, j |-> copy.j, arr |-> ListOf(g, S, E)]
      BY <1>4, <1>5, <2>4
    <3>2. p + 1 = a + 1 /\ a = g.offsets[V]
      <4>1. a = E /\ E = g.offsets[V]
        BY <1>2, <1>5
      <4>. QED BY <1>3, <2>4, <4>1
    <3>. QED BY <1>2, <2>1, <2>2, <3>1, <3>2, ZenonT(30) DEF CopyAt
  <2>. QED BY <2>3, <2>4, SMTT(30)
<1>. QED BY <1>9, <1>10

LEMMA CopyEndTurn ==
  ASSUME NEW g \in Files, off = g.offsets, rows = g.columns, NEW rd \in [Names -> Place],
         NEW wr \in [Names -> Place], Flow(g, rd, wr), CopyAt(g, rd, wr), CopyEnd
  PROVE  \E D, E : /\ IsMove(D, CopyReads) /\ IsMove(E, CopyWrites)
                   /\ Flow(g, Moved(rd, D), Moved(wr, E))'
                   /\ CopyAt(g, Moved(rd, D), Moved(wr, E))'
<1>v. PICK V : V = rd["col1End"][1]
  OBVIOUS
<1>a. PICK a : a = rd["col1"][1] - 1
  OBVIOUS
<1>1. /\ V \in 0 .. nLists /\ a \in 0 .. N(g) /\ a = g.offsets[V]
      /\ rd["col1End"] = <<V, 0>> /\ rd["copyNum"] = <<V, 0>> /\ rd["col1"] = <<a + 1, 0>>
      /\ rd["col1BlockEnd"] = <<a + 1, 0>> /\ wr["col1CopyEnd"] = <<a + 1, 0>>
      /\ \A s \in Copies : wr[s] = <<a + 1, 0>>
  <2>1. CopyAt(g, rd, wr) /\ copy.pc = "end" /\ copy.pc # "copy" /\ copy.pc # "first"
        /\ copy.pc # "again"
    BY DEF CopyEnd
  <2>2. ~CopyTurns(g, V, a, rd["col1BlockEnd"], wr)
    BY <2>1 DEF CopyTurns
  <2>3. V \in 0 .. nLists
    BY <1>v, <1>a, <2>1, <2>2, CsrFacts DEF CopyAt
  <2>. QED BY <1>v, <1>a, <2>1, <2>2, <2>3 DEF CopyAt
<1> DEFINE writes == [col1CopyEnd |-> TRUE]
           next == <<V + 1, 0>>
           D == [col1End |-> next, copyNum |-> next]
           F == [col1CopyEnd |-> <<a + 2, 0>>]
<1>2. /\ Turn({"col1End"}, writes) /\ q["col1End"] # << >> /\ Head(q["col1End"]) # FALSE
      /\ copy' = [pc |-> "done", num |-> copy.num, i |-> copy.i, j |-> copy.j, arr |-> copy.arr]
  <2>1. /\ Turn({"col1End"}, writes) /\ q["col1End"] # << >> /\ Head(q["col1End"]) # FALSE
        /\ copy' = [copy EXCEPT !.pc = "done"]
    BY DEF CopyEnd, Ends
  <2>2. copy = [pc |-> copy.pc, num |-> copy.num, i |-> copy.i, j |-> copy.j, arr |-> copy.arr]
    BY DEF CopyAt
  <2>. QED BY <2>1, <2>2
<1>3. V \in Int /\ nLists \in Nat /\ N(g) \in Nat
  BY <1>1, SlotsArePlaces
<1>4. /\ Head(q["col1End"]) = Says(g)["col1End"][<<V, 0>>]
      /\ Passes(Slots(g)["col1End"], rd["col1End"], <<V, 0>>, next) /\ next \in Place
  <2>1. /\ "col1End" \in Names /\ Slots(g)["col1End"] = Flat(0 .. nLists) /\ (0 .. nLists) \in SUBSET Int
    BY SlotFacts, CopyNames, <1>3 DEF CopyReads
  <2>2. next \in Place
    BY <1>3 DEF Place
  <2>. QED BY <1>1, <1>2, <2>1, <2>2, FlatRead
<1>5. V = nLists /\ a = N(g) /\ V \notin ListsOf(g)
  <2>1. V = nLists
    BY <1>2, <1>3, <1>4, ListFlags, Zenon
  <2>. QED BY <1>1, <1>3, <2>1, CsrFacts DEF ListsOf
<1>6. Rests(Slots(g)["copyNum"], rd["copyNum"], next)
  BY <1>1, <1>3, <1>5, FlatRests, SlotsArePlaces, SlotFacts
<1>7. /\ Passes(Slots(g)["col1CopyEnd"], wr["col1CopyEnd"], <<a + 1, 0>>, <<a + 2, 0>>)
      /\ Says(g)["col1CopyEnd"][<<a + 1, 0>>] = TRUE
      /\ <<a + 2, 0>> \in Place
  <2>1. a + 1 \in KeptOrEnd(g) /\ KeptOrEnd(g) \in SUBSET Int /\ (a + 1) + 1 = a + 2
        /\ wr["col1CopyEnd"] = <<a + 1, 0>>
    BY <1>1, <1>3, <1>5, SlotsArePlaces DEF KeptOrEnd
  <2>2. Passes(Flat(KeptOrEnd(g)), <<a + 1, 0>>, <<a + 1, 0>>, <<(a + 1) + 1, 0>>)
        /\ <<(a + 1) + 1, 0>> \in Place
    BY <2>1, NextFlat
  <2>3. Says(g)["col1CopyEnd"][<<a + 1, 0>>] = TRUE
    <3>1. a + 1 = N(g) + 1 /\ a + 1 \in Int /\ 0 \in Int
      BY <1>3, <1>5
    <3>. QED BY <3>1, RowFlags, Zenon
  <2>. QED BY <2>1, <2>2, <2>3, SlotFacts
<1>8. /\ DOMAIN D = {"col1End", "copyNum"} /\ D["col1End"] = next /\ D["copyNum"] = next
      /\ DOMAIN F = {"col1CopyEnd"} /\ F["col1CopyEnd"] = <<a + 2, 0>>
      /\ DOMAIN writes = {"col1CopyEnd"} /\ writes["col1CopyEnd"] = TRUE
  OBVIOUS
<1>. HIDE DEF D, F, writes
<1>9. /\ IsMove(D, CopyReads) /\ IsMove(F, CopyWrites)
      /\ Flow(g, Moved(rd, D), Moved(wr, F))'
  <2>1. Takes(g, rd, D, {"col1End"}) /\ Puts(g, wr, F, writes)
    BY <1>4, <1>6, <1>7, <1>8 DEF Takes, Puts
  <2>2. DOMAIN D \subseteq CopyReads /\ DOMAIN F \subseteq CopyWrites
    BY <1>8 DEF CopyReads, CopyWrites
  <2>. QED BY <1>2, <2>1, <2>2, CopyNames, MoveFlow
<1>10. CopyAt(g, Moved(rd, D), Moved(wr, F))'
  <2>1. /\ Moved(rd, D)["col1End"] = <<V + 1, 0>> /\ Moved(rd, D)["copyNum"] = <<V + 1, 0>>
        /\ Moved(rd, D)["col1"] = <<a + 1, 0>> /\ Moved(rd, D)["col1BlockEnd"] = <<a + 1, 0>>
        /\ Moved(wr, F)["col1CopyEnd"] = <<a + 2, 0>>
        /\ \A s \in Copies : Moved(wr, F)[s] = <<a + 1, 0>>
    <3>1. "col1CopyEnd" \notin Copies
      BY DEF Copies
    <3>. QED BY <1>1, <1>8, <3>1, CopyNames DEF Moved, CopyReads
  <2>2. V + 1 \in 0 .. nLists + 1 /\ (a + 1) - 1 = a /\ a = N(g) /\ V + 1 = nLists + 1
    BY <1>1, <1>3, <1>5
  <2>. QED BY <1>1, <1>2, <2>1, <2>2 DEF CopyAt
<1>. QED BY <1>9, <1>10
-----------------------------------------------------------------------------
(* mergeImpl has taken, of the pair p, the vertices of its list before     *)
(* place r1 and those of the list it names up to place r2.                 *)
Firsts(g, p, r)  == {g.columns[k] : k \in p + 1 .. r - 1}
Seconds(g, p, r) == {g.columns[k] : k \in OtherStart(g, p) + 1 .. r}

LastFirst(g, p, r)  == IF r = p + 1 THEN 0 ELSE g.columns[r - 1]
LastSecond(g, p, r) == IF r = OtherStart(g, p) THEN 0 ELSE g.columns[r]

(* The values of two ascending lists, taken one by one or both at a time.  *)
UpTo(A, B, v, w) ==
  /\ A \in SUBSET Int /\ B \in SUBSET Int /\ IsFiniteSet(A) /\ IsFiniteSet(B)
  /\ v \in Int /\ w \in Int
  /\ \A x \in A : x <= v
  /\ \A x \in B : x = w \/ x <= v

Shared(A, B) == Cardinality(A \cap B)
Joined(A, c) == A \cup {c}

LEMMA TakeOne ==
  ASSUME NEW A, NEW B, NEW v, NEW w, UpTo(A, B, v, w), NEW c \in Int, v < c, c # w \/ w \in B
  PROVE  /\ c = w => Shared(Joined(A, c), B) = Shared(A, B) + 1
         /\ c # w => Shared(Joined(A, c), B) = Shared(A, B)
<1>1. IsFiniteSet(A \cap B) /\ c \notin A \cap B
  <2>1. c \notin A
    BY DEF UpTo
  <2>. QED BY <2>1, FS_Intersection DEF UpTo
<1>2. CASE c = w
  <2>1. (A \cup {c}) \cap B = (A \cap B) \cup {c}
    BY <1>2
  <2>2. Cardinality((A \cap B) \cup {c}) = Cardinality(A \cap B) + 1
    BY <1>1, FS_AddElement
  <2>. QED BY <1>2, <2>1, <2>2 DEF Shared, Joined
<1>3. CASE c # w
  <2>1. c \notin B
    BY <1>3 DEF UpTo
  <2>2. (A \cup {c}) \cap B = A \cap B
    BY <2>1
  <2>. QED BY <1>3, <2>2 DEF Shared, Joined
<1>. QED BY <1>2, <1>3

LEMMA TakeBoth ==
  ASSUME NEW A, NEW B, NEW v, UpTo(A, B, v, v), NEW c \in Int, NEW d \in Int, v < c, v < d
  PROVE  /\ c = d => Shared(Joined(A, c), Joined(B, d)) = Shared(A, B) + 1
         /\ c # d => Shared(Joined(A, c), Joined(B, d)) = Shared(A, B)
<1>1. IsFiniteSet(A \cap B) /\ c \notin A \cap B /\ c \notin B /\ d \notin A
  <2>1. IsFiniteSet(A \cap B)
    BY FS_Intersection DEF UpTo
  <2>2. c \notin A /\ c \notin B /\ d \notin A
    BY DEF UpTo
  <2>. QED BY <2>1, <2>2
<1>2. CASE c = d
  <2>1. (A \cup {c}) \cap (B \cup {d}) = (A \cap B) \cup {c}
    BY <1>2
  <2>2. Cardinality((A \cap B) \cup {c}) = Cardinality(A \cap B) + 1
    BY <1>1, FS_AddElement
  <2>. QED BY <1>2, <2>1, <2>2 DEF Shared, Joined
<1>3. CASE c # d
  <2>1. (A \cup {c}) \cap (B \cup {d}) = A \cap B
    BY <1>1, <1>3
  <2>. QED BY <1>3, <2>1 DEF Shared, Joined
<1>. QED BY <1>2, <1>3

LEMMA FirstsFacts ==
  ASSUME NEW g \in Files, NEW p \in Rows(g), NEW r \in Int, p + 1 <= r, r <= ListEnd(g, p) + 1
  PROVE  /\ Firsts(g, p, r) \in SUBSET Int /\ IsFiniteSet(Firsts(g, p, r))
         /\ LastFirst(g, p, r) \in Vertex /\ LastFirst(g, p, r) \in Int
         /\ \A x \in Firsts(g, p, r) : x <= LastFirst(g, p, r) /\ 0 < x
         /\ r # p + 1 => LastFirst(g, p, r) \in Firsts(g, p, r)
         /\ r = p + 1 => Firsts(g, p, r) = {} /\ LastFirst(g, p, r) = 0
         /\ r # ListEnd(g, p) + 1 =>
              /\ g.columns[r] \in Int /\ LastFirst(g, p, r) < g.columns[r] /\ 0 < g.columns[r]
              /\ Firsts(g, p, r + 1) = Firsts(g, p, r) \cup {g.columns[r]}
              /\ LastFirst(g, p, r + 1) = g.columns[r]
<1>1. /\ p \in Int /\ p \in 1 .. N(g) /\ N(g) \in Nat /\ ListEnd(g, p) \in 1 .. N(g)
      /\ ListStart(g, p) \in Nat /\ ListStart(g, p) < p /\ p <= ListEnd(g, p)
      /\ Source(g)[p] \in Vertex
  BY SlotsArePlaces, ListFacts DEF Rows
<1>e. PICK e : e = ListEnd(g, p)
  OBVIOUS
<1>2. /\ \A k \in p + 1 .. e : g.columns[k] \in Int /\ 0 < g.columns[k] /\ g.columns[k] \in Vertex
      /\ \A k, m \in p + 1 .. e : k < m => g.columns[k] < g.columns[m]
  <2>1. \A k \in p + 1 .. e : k \in ListStart(g, p) + 1 .. ListEnd(g, p) /\ k \in 1 .. N(g)
    BY <1>1, <1>e
  <2>2. g.columns \in [1 .. N(g) -> Vertex] /\ NVertices \in Nat
    BY CsrFacts
  <2>3. \A k \in p + 1 .. e : Source(g)[p] < g.columns[k]
    BY <2>1, Ascending
  <2>4. \A k, m \in p + 1 .. e : k < m => g.columns[k] < g.columns[m]
    BY <2>1, Ascending
  <2>5. \A k \in p + 1 .. e : g.columns[k] \in Vertex
    BY <2>1, <2>2
  <2>6. Source(g)[p] \in Nat /\ Vertex \subseteq Int
    BY <1>1, <2>2 DEF Vertex
  <2>8. \A k \in p + 1 .. e : g.columns[k] \in Int /\ 0 < g.columns[k]
    <3> SUFFICES ASSUME NEW k \in p + 1 .. e PROVE g.columns[k] \in Int /\ 0 < g.columns[k]
      OBVIOUS
    <3>1. PICK c : c = Source(g)[p]
      OBVIOUS
    <3>2. PICK d : d = g.columns[k]
      OBVIOUS
    <3>3. c \in Nat /\ d \in Int /\ c < d
      BY <2>3, <2>5, <2>6, <3>1, <3>2
    <3>4. 0 < d
      BY <3>3
    <3>. QED BY <3>2, <3>3, <3>4
  <2>. QED BY <2>4, <2>5, <2>8
<1>3. 0 \in Vertex
  BY CsrFacts DEF Vertex
<1>4. /\ Firsts(g, p, r) \in SUBSET Int /\ Firsts(g, p, r) \in SUBSET Vertex
      /\ \A x \in Firsts(g, p, r) : 0 < x
  BY <1>1, <1>2, <1>e DEF Firsts
<1>5. IsFiniteSet(Firsts(g, p, r))
  <2>1. IsFiniteSet(Vertex)
    <3>1. 0 \in Int /\ NVertices - 1 \in Int
      BY CsrFacts
    <3>. QED BY <3>1, FS_Interval DEF Vertex
  <2>. QED BY <1>4, <2>1, FS_Subset
<1>6. /\ LastFirst(g, p, r) \in Vertex
      /\ \A x \in Firsts(g, p, r) : x <= LastFirst(g, p, r)
      /\ r # p + 1 => LastFirst(g, p, r) \in Firsts(g, p, r)
      /\ r = p + 1 => Firsts(g, p, r) = {} /\ LastFirst(g, p, r) = 0
  <2>1. CASE r = p + 1
    <3>1. Firsts(g, p, r) = {} /\ LastFirst(g, p, r) = 0
      BY <1>1, <2>1 DEF Firsts, LastFirst
    <3>. QED BY <1>3, <2>1, <3>1
  <2>2. CASE r # p + 1
    <3>1. /\ LastFirst(g, p, r) = g.columns[r - 1] /\ r - 1 \in p + 1 .. e
          /\ r - 1 \in p + 1 .. r - 1
      BY <1>1, <2>2, <1>e DEF LastFirst
    <3>2. \A x \in Firsts(g, p, r) : x <= g.columns[r - 1]
      <4>1. \A k \in p + 1 .. r - 1 : k \in p + 1 .. e /\ (k = r - 1 \/ k < r - 1)
        BY <1>1, <1>e
      <4>2. g.columns[r - 1] \in Int /\ g.columns[r - 1] <= g.columns[r - 1]
        BY <1>2, <3>1
      <4>3. \A k \in p + 1 .. r - 1 : g.columns[k] <= g.columns[r - 1]
        BY <1>2, <3>1, <4>1, <4>2
      <4>. QED BY <4>3 DEF Firsts
    <3>3. g.columns[r - 1] \in Firsts(g, p, r)
      BY <3>1 DEF Firsts
    <3>4. g.columns[r - 1] \in Vertex
      BY <1>2, <3>1
    <3>. QED BY <2>2, <3>1, <3>2, <3>3, <3>4
  <2>. QED BY <2>1, <2>2
<1>7. ASSUME r # ListEnd(g, p) + 1
      PROVE  /\ g.columns[r] \in Int /\ LastFirst(g, p, r) < g.columns[r] /\ 0 < g.columns[r]
             /\ Firsts(g, p, r + 1) = Firsts(g, p, r) \cup {g.columns[r]}
             /\ LastFirst(g, p, r + 1) = g.columns[r]
  <2>1. r \in p + 1 .. e /\ (r + 1) - 1 = r /\ r + 1 # p + 1
    BY <1>1, <1>7, <1>e
  <2>2. p + 1 .. r = (p + 1 .. r - 1) \cup {r}
    BY <1>1
  <2>3. Firsts(g, p, r + 1) = Firsts(g, p, r) \cup {g.columns[r]}
    BY <2>1, <2>2 DEF Firsts
  <2>4. LastFirst(g, p, r) < g.columns[r]
    <3>1. CASE r = p + 1
      BY <1>2, <1>6, <2>1, <3>1
    <3>2. CASE r # p + 1
      <4>1. LastFirst(g, p, r) = g.columns[r - 1] /\ r - 1 \in p + 1 .. e /\ r - 1 < r
        BY <1>1, <3>2, <1>e DEF LastFirst
      <4>. QED BY <1>2, <2>1, <4>1
    <3>. QED BY <3>1, <3>2
  <2>. QED BY <1>2, <2>1, <2>3, <2>4 DEF LastFirst
<1>8. LastFirst(g, p, r) \in Int
  BY <1>6 DEF Vertex
<1>. QED BY <1>4, <1>5, <1>6, <1>7, <1>8

LEMMA SecondsFacts ==
  ASSUME NEW g \in Files, NEW p \in Rows(g), NEW r \in Int,
         OtherStart(g, p) <= r, r <= OtherEnd(g, p)
  PROVE  /\ Seconds(g, p, r) \in SUBSET Int /\ IsFiniteSet(Seconds(g, p, r))
         /\ LastSecond(g, p, r) \in Vertex /\ LastSecond(g, p, r) \in Int
         /\ \A x \in Seconds(g, p, r) : x <= LastSecond(g, p, r) /\ 0 < x
         /\ r # OtherStart(g, p) => LastSecond(g, p, r) \in Seconds(g, p, r)
         /\ r = OtherStart(g, p) => Seconds(g, p, r) = {} /\ LastSecond(g, p, r) = 0
         /\ r # OtherEnd(g, p) =>
              /\ g.columns[r + 1] \in Int /\ LastSecond(g, p, r) < g.columns[r + 1]
              /\ 0 < g.columns[r + 1]
              /\ Seconds(g, p, r + 1) = Seconds(g, p, r) \cup {g.columns[r + 1]}
              /\ LastSecond(g, p, r + 1) = g.columns[r + 1]
<1>s. PICK s : s = OtherStart(g, p)
  OBVIOUS
<1>e. PICK e : e = OtherEnd(g, p)
  OBVIOUS
<1>1. /\ p \in 1 .. N(g) /\ N(g) \in Nat /\ s \in 0 .. N(g) /\ e \in 0 .. N(g)
      /\ g.columns[p] \in Vertex /\ s \in Int /\ e \in Int
  BY <1>s, <1>e, SlotsArePlaces, OtherFacts DEF Rows
<1>2. /\ \A k \in s + 1 .. e : g.columns[k] \in Int /\ 0 < g.columns[k] /\ g.columns[k] \in Vertex
      /\ \A k, m \in s + 1 .. e : k < m => g.columns[k] < g.columns[m]
  <2>1. \A k \in s + 1 .. e : k \in 1 .. N(g)
    BY <1>1
  <2>2. g.columns \in [1 .. N(g) -> Vertex] /\ NVertices \in Nat
    BY CsrFacts
  <2>3. \A k \in s + 1 .. e : g.columns[p] < g.columns[k]
    BY <1>s, <1>e, Ascending
  <2>4. \A k, m \in s + 1 .. e : k < m => g.columns[k] < g.columns[m]
    BY <1>s, <1>e, Ascending
  <2>5. \A k \in s + 1 .. e : g.columns[k] \in Vertex
    BY <2>1, <2>2
  <2>6. g.columns[p] \in Nat /\ Vertex \subseteq Int
    BY <1>1, <2>2 DEF Vertex
  <2>8. \A k \in s + 1 .. e : g.columns[k] \in Int /\ 0 < g.columns[k]
    <3> SUFFICES ASSUME NEW k \in s + 1 .. e PROVE g.columns[k] \in Int /\ 0 < g.columns[k]
      OBVIOUS
    <3>1. PICK c : c = g.columns[p]
      OBVIOUS
    <3>2. PICK d : d = g.columns[k]
      OBVIOUS
    <3>3. c \in Nat /\ d \in Int /\ c < d
      BY <2>3, <2>5, <2>6, <3>1, <3>2
    <3>4. 0 < d
      BY <3>3
    <3>. QED BY <3>2, <3>3, <3>4
  <2>. QED BY <2>4, <2>5, <2>8
<1>3. 0 \in Vertex
  BY CsrFacts DEF Vertex
<1>4. /\ Seconds(g, p, r) \in SUBSET Int /\ Seconds(g, p, r) \in SUBSET Vertex
      /\ \A x \in Seconds(g, p, r) : 0 < x
  BY <1>1, <1>2, <1>s, <1>e DEF Seconds
<1>5. IsFiniteSet(Seconds(g, p, r))
  <2>1. IsFiniteSet(Vertex)
    <3>1. 0 \in Int /\ NVertices - 1 \in Int
      BY CsrFacts
    <3>. QED BY <3>1, FS_Interval DEF Vertex
  <2>. QED BY <1>4, <2>1, FS_Subset
<1>6. /\ LastSecond(g, p, r) \in Vertex
      /\ \A x \in Seconds(g, p, r) : x <= LastSecond(g, p, r)
      /\ r # s => LastSecond(g, p, r) \in Seconds(g, p, r)
      /\ r = s => Seconds(g, p, r) = {} /\ LastSecond(g, p, r) = 0
  <2>1. CASE r = s
    <3>1. Seconds(g, p, r) = {} /\ LastSecond(g, p, r) = 0
      BY <1>1, <1>s, <2>1 DEF Seconds, LastSecond
    <3>. QED BY <1>3, <2>1, <3>1
  <2>2. CASE r # s
    <3>1. /\ LastSecond(g, p, r) = g.columns[r] /\ r \in s + 1 .. e /\ r \in s + 1 .. r
      BY <1>1, <2>2, <1>s, <1>e DEF LastSecond
    <3>2. \A x \in Seconds(g, p, r) : x <= g.columns[r]
      <4>1. \A k \in s + 1 .. r : k \in s + 1 .. e /\ (k = r \/ k < r)
        BY <1>1, <1>e
      <4>2. g.columns[r] \in Int /\ g.columns[r] <= g.columns[r]
        BY <1>2, <3>1
      <4>3. \A k \in s + 1 .. r : g.columns[k] <= g.columns[r]
        BY <1>2, <3>1, <4>1, <4>2
      <4>. QED BY <1>s, <4>3 DEF Seconds
    <3>3. g.columns[r] \in Seconds(g, p, r)
      BY <1>s, <3>1 DEF Seconds
    <3>4. g.columns[r] \in Vertex
      BY <1>2, <3>1
    <3>. QED BY <2>2, <3>1, <3>2, <3>3, <3>4
  <2>. QED BY <2>1, <2>2
<1>7. ASSUME r # OtherEnd(g, p)
      PROVE  /\ g.columns[r + 1] \in Int /\ LastSecond(g, p, r) < g.columns[r + 1]
             /\ 0 < g.columns[r + 1]
             /\ Seconds(g, p, r + 1) = Seconds(g, p, r) \cup {g.columns[r + 1]}
             /\ LastSecond(g, p, r + 1) = g.columns[r + 1]
  <2>1. r + 1 \in s + 1 .. e /\ r + 1 # s
    BY <1>1, <1>7, <1>s, <1>e
  <2>2. s + 1 .. r + 1 = (s + 1 .. r) \cup {r + 1}
    BY <1>1, <1>s
  <2>3. Seconds(g, p, r + 1) = Seconds(g, p, r) \cup {g.columns[r + 1]}
    BY <1>s, <2>1, <2>2 DEF Seconds
  <2>4. LastSecond(g, p, r) < g.columns[r + 1]
    <3>1. CASE r = s
      BY <1>2, <1>6, <2>1, <3>1
    <3>2. CASE r # s
      <4>1. LastSecond(g, p, r) = g.columns[r] /\ r \in s + 1 .. e /\ r < r + 1
        BY <1>1, <3>2, <1>s, <1>e DEF LastSecond
      <4>. QED BY <1>2, <2>1, <4>1
    <3>. QED BY <3>1, <3>2
  <2>. QED BY <1>2, <1>s, <2>1, <2>3, <2>4 DEF LastSecond
<1>8. LastSecond(g, p, r) \in Int
  BY <1>6 DEF Vertex
<1>. QED BY <1>4, <1>5, <1>6, <1>7, <1>8, <1>s

(* What mergeImpl keeps then: the vertices in both, and of the list that   *)
(* it will not take from next nothing beyond the other's last.             *)
Merged(g, p, r1, r2, m) ==
  /\ r1 \in p + 1 .. ListEnd(g, p) + 1 /\ r2 \in OtherStart(g, p) .. OtherEnd(g, p)
  /\ m.end1 = IF r1 = ListEnd(g, p) + 1 THEN TRUE ELSE FALSE
  /\ m.end2 = IF r2 = OtherEnd(g, p) THEN TRUE ELSE FALSE
  /\ m.num = Cardinality(Firsts(g, p, r1) \cap Seconds(g, p, r2))
  /\ m.v1 = LastFirst(g, p, r1) /\ m.v2 = LastSecond(g, p, r2)
  /\ r1 # ListEnd(g, p) + 1 => \A x \in Seconds(g, p, r2) : x = m.v2 \/ x <= m.v1
  /\ r2 # OtherEnd(g, p)    => \A x \in Firsts(g, p, r1)  : x = m.v1 \/ x <= m.v2

LEMMA MergedStart ==
  ASSUME NEW g \in Files, NEW p \in Rows(g), NEW e1, NEW e2,
         e1 = IF p + 1 = ListEnd(g, p) + 1 THEN TRUE ELSE FALSE,
         e2 = IF OtherStart(g, p) = OtherEnd(g, p) THEN TRUE ELSE FALSE
  PROVE  Merged(g, p, p + 1, OtherStart(g, p),
                [pc |-> "turn", end1 |-> e1, end2 |-> e2, v1 |-> 0, v2 |-> 0, num |-> 0])
<1>1. /\ p \in Int /\ p \in 1 .. N(g) /\ p <= ListEnd(g, p) /\ ListEnd(g, p) \in Int
      /\ OtherStart(g, p) \in Int /\ OtherEnd(g, p) \in Int /\ OtherStart(g, p) <= OtherEnd(g, p)
  BY SlotsArePlaces, ListFacts, OtherFacts DEF Rows
<1>2. /\ Firsts(g, p, p + 1) = {} /\ LastFirst(g, p, p + 1) = 0
  <2>1. p + 1 \in Int /\ p + 1 <= p + 1 /\ p + 1 <= ListEnd(g, p) + 1
    BY <1>1
  <2>. QED BY <2>1, FirstsFacts
<1>3. /\ Seconds(g, p, OtherStart(g, p)) = {} /\ LastSecond(g, p, OtherStart(g, p)) = 0
  BY <1>1 DEF Seconds, LastSecond
<1>4. Cardinality({}) = 0
  BY FS_EmptySet
<1>5. p + 1 \in p + 1 .. ListEnd(g, p) + 1 /\ OtherStart(g, p) \in OtherStart(g, p) .. OtherEnd(g, p)
  BY <1>1
<1>. QED BY <1>2, <1>3, <1>4, <1>5 DEF Merged

(* A turn of the merge, which takes t1 and t2 values, and keeps it so.     *)
TakesOn(g, p, r1, r2, t1, t2, m, n) ==
  /\ t1 = IF r1 # ListEnd(g, p) + 1 /\ (m.v1 <= m.v2 \/ r2 = OtherEnd(g, p)) THEN 1 ELSE 0
  /\ t2 = IF r2 # OtherEnd(g, p) /\ (m.v1 >= m.v2 \/ r1 = ListEnd(g, p) + 1) THEN 1 ELSE 0
  /\ n.v1 = IF t1 = 1 THEN g.columns[r1] ELSE m.v1
  /\ n.v2 = IF t2 = 1 THEN g.columns[r2 + 1] ELSE m.v2
  /\ n.end1 = IF r1 + t1 = ListEnd(g, p) + 1 THEN TRUE ELSE FALSE
  /\ n.end2 = IF r2 + t2 = OtherEnd(g, p) THEN TRUE ELSE FALSE
  /\ n.num = IF n.v1 = n.v2 THEN m.num + 1 ELSE m.num

LEMMA MergedTurn ==
  ASSUME NEW g \in Files, NEW p \in Rows(g), NEW r1 \in Int, NEW r2 \in Int, NEW m, NEW t1, NEW t2,
         NEW n, Merged(g, p, r1, r2, m), TakesOn(g, p, r1, r2, t1, t2, m, n), t1 = 1 \/ t2 = 1
  PROVE  Merged(g, p, r1 + t1, r2 + t2, n)
<1>e. PICK e : e = ListEnd(g, p) + 1
  OBVIOUS
<1>s. PICK s : s = OtherStart(g, p)
  OBVIOUS
<1>f. PICK f : f = OtherEnd(g, p)
  OBVIOUS
<1>A. PICK A : A = Firsts(g, p, r1)
  OBVIOUS
<1>B. PICK B : B = Seconds(g, p, r2)
  OBVIOUS
<1>v. PICK v : v = m.v1
  OBVIOUS
<1>w. PICK w : w = m.v2
  OBVIOUS
<1>c. PICK c : c = g.columns[r1]
  OBVIOUS
<1>d. PICK d : d = g.columns[r2 + 1]
  OBVIOUS
<1>1. /\ p \in Int /\ e \in Int /\ s \in Int /\ f \in Int
      /\ p + 1 <= r1 /\ r1 <= e /\ s <= r2 /\ r2 <= f
  <2>1. /\ p \in Int /\ p \in 1 .. N(g)
    BY SlotsArePlaces DEF Rows
  <2>2. ListEnd(g, p) \in Int /\ s \in Int /\ f \in Int
    BY <1>s, <1>f, <2>1, SlotsArePlaces, ListFacts, OtherFacts
  <2>3. r1 \in p + 1 .. e /\ r2 \in s .. f
    BY <1>e, <1>s, <1>f DEF Merged
  <2>. QED BY <1>e, <2>1, <2>2, <2>3
<1>2. /\ m.num = Cardinality(A \cap B) /\ v = LastFirst(g, p, r1) /\ w = LastSecond(g, p, r2)
      /\ r1 # e => \A x \in B : x = w \/ x <= v
      /\ r2 # f => \A x \in A : x = v \/ x <= w
  BY <1>e, <1>f, <1>A, <1>B, <1>v, <1>w DEF Merged
<1>3. /\ A \in SUBSET Int /\ IsFiniteSet(A) /\ v \in Int
      /\ \A x \in A : x <= v /\ 0 < x
      /\ r1 = p + 1 => v = 0
      /\ r1 # p + 1 => v \in A
      /\ r1 # e => /\ c \in Int /\ v < c /\ 0 < c /\ Firsts(g, p, r1 + 1) = A \cup {c}
                   /\ LastFirst(g, p, r1 + 1) = c
  <2>1. p + 1 <= r1 /\ r1 <= ListEnd(g, p) + 1
    BY <1>1, <1>e
  <2>. QED BY <1>e, <1>A, <1>c, <1>2, <2>1, FirstsFacts
<1>4. /\ B \in SUBSET Int /\ IsFiniteSet(B) /\ w \in Int
      /\ \A x \in B : x <= w /\ 0 < x
      /\ r2 = s => w = 0
      /\ r2 # s => w \in B
      /\ r2 # f => /\ d \in Int /\ w < d /\ 0 < d /\ Seconds(g, p, r2 + 1) = B \cup {d}
                   /\ LastSecond(g, p, r2 + 1) = d
  <2>1. OtherStart(g, p) <= r2 /\ r2 <= OtherEnd(g, p)
    BY <1>1, <1>s, <1>f
  <2>. QED BY <1>s, <1>f, <1>B, <1>d, <1>2, <2>1, SecondsFacts
<1>5. Cardinality(A \cap B) \in Nat
  BY <1>3, FS_Intersection, FS_CardinalityType
<1>6. CASE t1 = 1 /\ t2 = 0
  <2>1. r1 # e /\ (r2 = f \/ v < w)
    BY <1>1, <1>3, <1>4, <1>6, <1>e, <1>f, <1>v, <1>w DEF TakesOn
  <2>2. n.v1 = c /\ n.v2 = w /\ n.num = IF c = w THEN m.num + 1 ELSE m.num
    BY <1>6, <1>c, <1>w DEF TakesOn
  <2>3. c # w \/ w \in B
    BY <1>3, <1>4, <2>1
  <2>4. Cardinality((A \cup {c}) \cap B) = (IF c = w THEN Cardinality(A \cap B) + 1
                                         ELSE Cardinality(A \cap B))
    <3>1. UpTo(A, B, v, w) /\ c \in Int /\ v < c
      BY <1>2, <1>3, <1>4, <2>1 DEF UpTo
    <3>2. /\ c = w => Shared(Joined(A, c), B) = Shared(A, B) + 1
          /\ c # w => Shared(Joined(A, c), B) = Shared(A, B)
      BY <2>3, <3>1, TakeOne
    <3>. QED BY <3>2 DEF Shared, Joined
  <2>5. n.num = Cardinality(Firsts(g, p, r1 + 1) \cap Seconds(g, p, r2))
    BY <1>2, <1>3, <1>B, <2>1, <2>2, <2>4
  <2>6. /\ \A x \in B : x = w \/ x <= c
        /\ r2 # f => \A x \in A \cup {c} : x = c \/ x <= w
    BY <1>2, <1>3, <1>4, <2>1
  <2>7. r1 + 1 \in p + 1 .. e /\ r2 \in s .. f
    BY <1>1, <2>1
  <2>8. /\ n.end1 = IF r1 + 1 = e THEN TRUE ELSE FALSE
        /\ n.end2 = IF r2 = f THEN TRUE ELSE FALSE
    <3>1. r2 + 0 = r2
      OBVIOUS
    <3>. QED BY <1>6, <1>e, <1>f, <3>1 DEF TakesOn
  <2>9. Merged(g, p, r1 + 1, r2, n)
    BY <1>2, <1>3, <1>e, <1>s, <1>f, <1>B, <2>1, <2>2, <2>5, <2>6, <2>7, <2>8 DEF Merged
  <2>10. r1 + t1 = r1 + 1 /\ r2 + t2 = r2
    BY <1>6
  <2>. QED BY <2>9, <2>10
<1>7. CASE t1 = 0 /\ t2 = 1
  <2>1. r2 # f /\ (r1 = e \/ w < v)
    BY <1>1, <1>3, <1>4, <1>7, <1>e, <1>f, <1>v, <1>w DEF TakesOn
  <2>2. n.v1 = v /\ n.v2 = d /\ n.num = IF d = v THEN m.num + 1 ELSE m.num
    BY <1>7, <1>d, <1>v DEF TakesOn
  <2>3. d # v \/ v \in A
    BY <1>3, <1>4, <2>1
  <2>4. Cardinality(A \cap (B \cup {d})) = (IF d = v THEN Cardinality(A \cap B) + 1
                                         ELSE Cardinality(A \cap B))
    <3>1. UpTo(B, A, w, v) /\ d \in Int /\ w < d
      BY <1>2, <1>3, <1>4, <2>1 DEF UpTo
    <3>2. /\ d = v => Shared(Joined(B, d), A) = Shared(B, A) + 1
          /\ d # v => Shared(Joined(B, d), A) = Shared(B, A)
      BY <2>3, <3>1, TakeOne
    <3>3. (B \cup {d}) \cap A = A \cap (B \cup {d}) /\ B \cap A = A \cap B
      OBVIOUS
    <3>. QED BY <3>2, <3>3 DEF Shared, Joined
  <2>5. n.num = Cardinality(Firsts(g, p, r1) \cap Seconds(g, p, r2 + 1))
    BY <1>2, <1>4, <1>A, <2>1, <2>2, <2>4
  <2>6. /\ \A x \in A : x = v \/ x <= d
        /\ r1 # e => \A x \in B \cup {d} : x = d \/ x <= v
    BY <1>2, <1>3, <1>4, <2>1
  <2>7. r2 + 1 \in s .. f /\ r1 \in p + 1 .. e
    BY <1>1, <2>1
  <2>8. /\ n.end1 = IF r1 = e THEN TRUE ELSE FALSE
        /\ n.end2 = IF r2 + 1 = f THEN TRUE ELSE FALSE
    <3>1. r1 + 0 = r1
      OBVIOUS
    <3>. QED BY <1>7, <1>e, <1>f, <3>1 DEF TakesOn
  <2>9. Merged(g, p, r1, r2 + 1, n)
    BY <1>2, <1>4, <1>e, <1>s, <1>f, <1>A, <2>1, <2>2, <2>5, <2>6, <2>7, <2>8 DEF Merged
  <2>10. r1 + t1 = r1 /\ r2 + t2 = r2 + 1
    BY <1>7
  <2>. QED BY <2>9, <2>10
<1>8. CASE t1 = 1 /\ t2 = 1
  <2>1. r1 # e /\ r2 # f /\ v = w
    BY <1>1, <1>3, <1>4, <1>8, <1>e, <1>f, <1>v, <1>w DEF TakesOn
  <2>2. n.v1 = c /\ n.v2 = d /\ n.num = IF c = d THEN m.num + 1 ELSE m.num
    BY <1>8, <1>c, <1>d DEF TakesOn
  <2>4. Cardinality((A \cup {c}) \cap (B \cup {d})) = (IF c = d THEN Cardinality(A \cap B) + 1
                                                    ELSE Cardinality(A \cap B))
    <3>1. v \in Int /\ c \in Int /\ d \in Int /\ v < c /\ w < d
      BY <1>3, <1>4, <2>1
    <3>2. v < d
      BY <2>1, <3>1
    <3>3. \A x \in B : x <= v
      <4>1. \A x \in B : x <= w
        BY <1>4
      <4>. QED BY <2>1, <4>1
    <3>4. UpTo(A, B, v, v)
      BY <1>3, <1>4, <3>1, <3>3 DEF UpTo
    <3>5. /\ c = d => Shared(Joined(A, c), Joined(B, d)) = Shared(A, B) + 1
          /\ c # d => Shared(Joined(A, c), Joined(B, d)) = Shared(A, B)
      BY <3>1, <3>2, <3>4, TakeBoth
    <3>. QED BY <3>5 DEF Shared, Joined
  <2>5. n.num = Cardinality(Firsts(g, p, r1 + 1) \cap Seconds(g, p, r2 + 1))
    BY <1>2, <1>3, <1>4, <2>1, <2>2, <2>4
  <2>6. /\ \A x \in A \cup {c} : x = c \/ x <= d
        /\ \A x \in B \cup {d} : x = d \/ x <= c
    <3>1. v \in Int /\ c \in Int /\ d \in Int /\ v < c /\ v < d
      BY <1>3, <1>4, <2>1
    <3>2. (\A x \in A : x \in Int /\ x <= v) /\ (\A x \in B : x \in Int /\ x <= v)
      <4>1. (\A x \in A : x \in Int /\ x <= v) /\ (\A x \in B : x \in Int /\ x <= w)
        BY <1>3, <1>4
      <4>. QED BY <2>1, <4>1
    <3>. QED BY <3>1, <3>2
  <2>7. r2 + 1 \in s .. f /\ r1 + 1 \in p + 1 .. e
    BY <1>1, <2>1
  <2>8. /\ n.end1 = IF r1 + 1 = e THEN TRUE ELSE FALSE
        /\ n.end2 = IF r2 + 1 = f THEN TRUE ELSE FALSE
    BY <1>8, <1>e, <1>f DEF TakesOn
  <2>9. Merged(g, p, r1 + 1, r2 + 1, n)
    BY <1>3, <1>4, <1>e, <1>s, <1>f, <2>1, <2>2, <2>5, <2>6, <2>7, <2>8 DEF Merged
  <2>. QED BY <1>8, <2>9
<1>9. (t1 = 1 \/ t1 = 0) /\ (t2 = 1 \/ t2 = 0)
  BY DEF TakesOn
<1>. QED BY <1>6, <1>7, <1>8, <1>9
-----------------------------------------------------------------------------
(* mergeImpl has passed the pairs before x; or it is at the pair p, with   *)
(* the results of those before y sent.                                     *)
MergeReads  == {"col1CopyEnd", "col1CopyBlockEnd", "col1Copy", "row2", "row2BlockEnd"}
MergeWrites == {"tc", "tcEnd"}

MergeTurns(g, rd, wr, p, y, r1, r2) ==
  /\ p \in Kept(g) /\ IsNext(g, y, p) /\ r1 \in Int /\ r2 \in Int
  /\ rd["col1CopyEnd"] = <<p + 1, 0>>
  /\ rd["col1Copy"] = <<p, r1>> /\ rd["col1CopyBlockEnd"] = <<p, r1 + 1>>
  /\ rd["row2"] = <<p, r2>> /\ rd["row2BlockEnd"] = <<p, r2 + 1>>
  /\ wr["tc"] = <<y, 0>> /\ wr["tcEnd"] = <<y, 0>>
  /\ Merged(g, p, r1, r2, merge)

MergeAt(g, rd, wr) ==
  /\ merge = [pc |-> merge.pc, end1 |-> merge.end1, end2 |-> merge.end2,
              v1 |-> merge.v1, v2 |-> merge.v2, num |-> merge.num]
  /\ \/ /\ merge.v1 = 0 /\ merge.v2 = 0 /\ merge.num = 0
        /\ \E x \in Int : /\ \/ merge.pc = "pair" /\ x <= N(g) + 1
                             \/ merge.pc = "done" /\ x = N(g) + 2
                          /\ \A s \in MergeReads : rd[s] = <<x, 0>>
                          /\ \A s \in MergeWrites : wr[s] = <<x, 0>>
     \/ merge.pc = "turn" /\ \E p, y, r1, r2 : MergeTurns(g, rd, wr, p, y, r1, r2)

LEMMA MergeNames ==
  /\ MergeReads \in SUBSET Names /\ MergeWrites \in SUBSET Names
  /\ MergeReads \cap MergeWrites = {}
  BY DEF MergeReads, MergeWrites, Names, Between

LEMMA MergePairTurn ==
  ASSUME NEW g \in Files, off = g.offsets, rows = g.columns, NEW rd \in [Names -> Place],
         NEW wr \in [Names -> Place], Flow(g, rd, wr), MergeAt(g, rd, wr), MergePair
  PROVE  \E D, E : /\ IsMove(D, MergeReads) /\ IsMove(E, MergeWrites)
                   /\ Flow(g, Moved(rd, D), Moved(wr, E))'
                   /\ MergeAt(g, Moved(rd, D), Moved(wr, E))'
<1>1. PICK x \in Int : /\ \A s \in MergeReads : rd[s] = <<x, 0>>
                       /\ \A s \in MergeWrites : wr[s] = <<x, 0>>
  BY DEF MergeAt, MergePair
<1>2. /\ Turn({"col1CopyEnd", "col1CopyBlockEnd", "row2BlockEnd"}, Nothing)
      /\ Head(q["col1CopyEnd"]) # TRUE /\ q["col1CopyEnd"] # << >>
      /\ q["col1CopyBlockEnd"] # << >> /\ q["row2BlockEnd"] # << >>
      /\ merge' = [pc |-> "turn", end1 |-> Head(q["col1CopyBlockEnd"]),
                   end2 |-> Head(q["row2BlockEnd"]), v1 |-> 0, v2 |-> 0, num |-> 0]
  BY DEF MergePair, Turn, More
<1>3. PICK p : IsNext(g, x, p) /\ p # N(g) + 1
  BY <1>1, <1>2, PairFlag DEF PairEnds, MergeReads
<1>r. PICK r : r = OtherStart(g, p)
  OBVIOUS
<1> DEFINE next == <<p + 1, 0>>
           D == [col1CopyEnd |-> next, col1Copy |-> <<p, p + 1>>,
                 col1CopyBlockEnd |-> <<p, p + 2>>,
                 row2 |-> <<p, r>>, row2BlockEnd |-> <<p, r + 1>>]
<1>4. /\ p \in Int /\ next \in Place /\ p \in Kept(g) /\ p \in Rows(g)
      /\ Passes(Slots(g)["col1CopyEnd"], rd["col1CopyEnd"], <<p, 0>>, next)
  BY <1>1, <1>3, PairSlots, SlotFacts, SMTT(30) DEF MergeReads
<1>5. /\ r \in Int /\ OtherEnd(g, p) \in Int /\ ListEnd(g, p) \in Int
      /\ r <= OtherEnd(g, p) /\ p <= ListEnd(g, p)
      /\ \A k \in Int : <<p, k>> \in Place
  BY <1>4, <1>r, OtherFacts, ListFacts, SlotsArePlaces DEF Rows, Place
<1>6. /\ Rests(Upper(g, 0), <<x, 0>>, <<p, p + 1>>) /\ Rests(Lower(g, 0), <<x, 0>>, <<p, r>>)
      /\ Passes(Upper(g, 1), <<x, 0>>, <<p, p + 1>>, <<p, p + 2>>)
      /\ Passes(Lower(g, 1), <<x, 0>>, <<p, r>>, <<p, r + 1>>)
  <2>1. /\ Rests(Upper(g, 0), <<x, 0>>, <<p, p + 1>>) /\ Rests(Lower(g, 0), <<x, 0>>, <<p, r>>)
        /\ Rests(Upper(g, 1), <<x, 0>>, <<p, p + 1>>) /\ Rests(Lower(g, 1), <<x, 0>>, <<p, r>>)
    BY <1>3, <1>r, ListGap, Zenon
  <2>2. p + 1 \in Int /\ p + 1 <= p + 1 /\ p + 1 <= ListEnd(g, p) + 1 /\ (p + 1) + 1 = p + 2
    BY <1>4, <1>5
  <2>3. Passes(Upper(g, 1), <<p, p + 1>>, <<p, p + 1>>, <<p, (p + 1) + 1>>)
    BY <1>4, <2>2, UpperSlots, Zenon
  <2>4. r <= r
    BY <1>5
  <2>5. Passes(Lower(g, 1), <<p, r>>, <<p, r>>, <<p, r + 1>>)
    BY <1>4, <1>5, <1>r, <2>4, LowerSlots, Zenon
  <2>. QED BY <2>1, <2>2, <2>3, <2>5, Along
<1>7. /\ Rests(Slots(g)["col1Copy"], rd["col1Copy"], <<p, p + 1>>)
      /\ Rests(Slots(g)["row2"], rd["row2"], <<p, r>>)
      /\ Passes(Slots(g)["col1CopyBlockEnd"], rd["col1CopyBlockEnd"], <<p, p + 1>>, <<p, p + 2>>)
      /\ Passes(Slots(g)["row2BlockEnd"], rd["row2BlockEnd"], <<p, r>>, <<p, r + 1>>)
  BY <1>1, <1>6, SlotFacts DEF MergeReads
<1>8. /\ Head(q["col1CopyBlockEnd"]) = IF p + 1 = ListEnd(g, p) + 1 THEN TRUE ELSE FALSE
      /\ Head(q["row2BlockEnd"]) = IF r = OtherEnd(g, p) THEN TRUE ELSE FALSE
  <2>1. <<p, p + 2>> \in Place /\ <<p, r + 1>> \in Place /\ p + 1 \in Int
    BY <1>4, <1>5
  <2>2. /\ "col1CopyBlockEnd" \in Names /\ "row2BlockEnd" \in Names
    BY MergeNames DEF MergeReads
  <2>3. /\ Head(q["col1CopyBlockEnd"]) = Says(g)["col1CopyBlockEnd"][<<p, p + 1>>]
        /\ Head(q["row2BlockEnd"]) = Says(g)["row2BlockEnd"][<<p, r>>]
    <3>1. \A z, w : w \in Place /\ Passes(Slots(g)["col1CopyBlockEnd"], rd["col1CopyBlockEnd"], z, w)
                   => Head(q["col1CopyBlockEnd"]) = Says(g)["col1CopyBlockEnd"][z]
      BY <1>2, <2>2, ValueRead, Zenon
    <3>2. \A z, w : w \in Place /\ Passes(Slots(g)["row2BlockEnd"], rd["row2BlockEnd"], z, w)
                   => Head(q["row2BlockEnd"]) = Says(g)["row2BlockEnd"][z]
      BY <1>2, <2>2, ValueRead, Zenon
    <3>. QED BY <1>7, <2>1, <3>1, <3>2, Zenon
  <2>4. /\ p + 1 # ListEnd(g, p) + 1 => Says(g)["col1CopyBlockEnd"][<<p, p + 1>>] = FALSE
        /\ p + 1 = ListEnd(g, p) + 1 => Says(g)["col1CopyBlockEnd"][<<p, p + 1>>] = TRUE
    BY <1>4, <2>1, UpperFlags, Zenon
  <2>5. /\ r # OtherEnd(g, p) => Says(g)["row2BlockEnd"][<<p, r>>] = FALSE
        /\ r = OtherEnd(g, p) => Says(g)["row2BlockEnd"][<<p, r>>] = TRUE
    BY <1>4, <1>5, LowerFlags, Zenon
  <2>. QED BY <2>3, <2>4, <2>5
<1>9. Merged(g, p, p + 1, r, merge')
  <2>1. Merged(g, p, p + 1, r, [pc |-> "turn", end1 |-> Head(q["col1CopyBlockEnd"]),
                   end2 |-> Head(q["row2BlockEnd"]), v1 |-> 0, v2 |-> 0, num |-> 0])
    BY <1>4, <1>8, <1>r, MergedStart, Zenon
  <2>. QED BY <1>2, <2>1
<1>10. /\ DOMAIN D = MergeReads /\ D["col1CopyEnd"] = next /\ D["col1Copy"] = <<p, p + 1>>
       /\ D["col1CopyBlockEnd"] = <<p, p + 2>>
       /\ D["row2"] = <<p, r>> /\ D["row2BlockEnd"] = <<p, r + 1>>
  BY DEF MergeReads
<1>. HIDE DEF D
<1>11. Takes(g, rd, D, {"col1CopyEnd", "col1CopyBlockEnd", "row2BlockEnd"})
  <2>1. /\ <<p, p + 1>> \in Place /\ <<p, p + 2>> \in Place /\ <<p, r>> \in Place
        /\ <<p, r + 1>> \in Place
    BY <1>4, <1>5
  <2>. QED BY <1>4, <1>7, <1>10, <2>1 DEF Takes, MergeReads
<1>12. /\ IsMove(D, MergeReads) /\ IsMove(Nothing, MergeWrites)
       /\ Flow(g, Moved(rd, D), Moved(wr, Nothing))'
  <2>1. /\ DOMAIN D \subseteq MergeReads /\ DOMAIN Nothing \subseteq MergeWrites
        /\ Puts(g, wr, Nothing, Nothing)
    BY <1>10, NoMove
  <2>. QED BY <1>2, <1>11, <2>1, MergeNames, MoveFlow
<1>13. MergeAt(g, Moved(rd, D), Moved(wr, Nothing))'
  <2>1. /\ Moved(rd, D)["col1CopyEnd"] = next /\ Moved(rd, D)["col1Copy"] = <<p, p + 1>>
        /\ Moved(rd, D)["col1CopyBlockEnd"] = <<p, p + 2>>
        /\ Moved(rd, D)["row2"] = <<p, r>> /\ Moved(rd, D)["row2BlockEnd"] = <<p, r + 1>>
    BY <1>10, MergeNames DEF Moved, MergeReads
  <2>2. Moved(wr, Nothing)["tc"] = <<x, 0>> /\ Moved(wr, Nothing)["tcEnd"] = <<x, 0>>
    BY <1>1, NoMove, MergeNames DEF Moved, MergeWrites
  <2>3. p + 1 \in Int /\ (p + 1) + 1 = p + 2
    BY <1>4
  <2>4. MergeTurns(g, Moved(rd, D), Moved(wr, Nothing), p, x, p + 1, r)'
    BY <1>3, <1>4, <1>5, <1>9, <2>1, <2>2, <2>3 DEF MergeTurns
  <2>. QED BY <1>2, <2>4 DEF MergeAt
<1>. QED BY <1>12, <1>13

LEMMA MergeTurnTurn ==
  ASSUME NEW g \in Files, off = g.offsets, rows = g.columns, NEW rd \in [Names -> Place],
         NEW wr \in [Names -> Place], Flow(g, rd, wr), MergeAt(g, rd, wr), MergeTurn
  PROVE  \E D, E : /\ IsMove(D, MergeReads) /\ IsMove(E, MergeWrites)
                   /\ Flow(g, Moved(rd, D), Moved(wr, E))'
                   /\ MergeAt(g, Moved(rd, D), Moved(wr, E))'
<1>1. PICK p, y, r1, r2 : MergeTurns(g, rd, wr, p, y, r1, r2)
  BY DEF MergeAt, MergeTurn
<1>2. /\ p \in Kept(g) /\ IsNext(g, y, p) /\ r1 \in Int /\ r2 \in Int
      /\ rd["col1CopyEnd"] = <<p + 1, 0>>
      /\ rd["col1Copy"] = <<p, r1>> /\ rd["col1CopyBlockEnd"] = <<p, r1 + 1>>
      /\ rd["row2"] = <<p, r2>> /\ rd["row2BlockEnd"] = <<p, r2 + 1>>
      /\ wr["tc"] = <<y, 0>> /\ wr["tcEnd"] = <<y, 0>>
      /\ Merged(g, p, r1, r2, merge)
  BY <1>1 DEF MergeTurns
<1>e. PICK e : e = ListEnd(g, p) + 1
  OBVIOUS
<1>f. PICK f : f = OtherEnd(g, p)
  OBVIOUS
<1>3. /\ merge.end1 = (IF r1 = e THEN TRUE ELSE FALSE)
      /\ merge.end2 = (IF r2 = f THEN TRUE ELSE FALSE)
      /\ r1 \in p + 1 .. e /\ r2 \in OtherStart(g, p) .. f
      /\ merge.v1 = LastFirst(g, p, r1) /\ merge.v2 = LastSecond(g, p, r2)
  BY <1>2, <1>e, <1>f DEF Merged
<1>4. /\ p \in Int /\ p \in Rows(g) /\ e \in Int /\ f \in Int /\ OtherStart(g, p) \in Int
      /\ \A k \in Int : <<p, k>> \in Place
  <2>1. p \in Int /\ p \in Rows(g) /\ p \in 1 .. N(g) /\ N(g) \in Nat
    BY <1>2, SlotsArePlaces DEF Rows
  <2>2. ListEnd(g, p) \in Int /\ OtherStart(g, p) \in Int /\ f \in Int
    BY <1>f, <2>1, OtherFacts, ListFacts
  <2>. QED BY <1>e, <2>1, <2>2 DEF Place
<1>5. merge.v1 \in Int /\ merge.v2 \in Int
  <2>1. p + 1 <= r1 /\ r1 <= ListEnd(g, p) + 1 /\ OtherStart(g, p) <= r2 /\ r2 <= OtherEnd(g, p)
    BY <1>2, <1>3, <1>4, <1>e, <1>f
  <2>2. LastFirst(g, p, r1) \in Int
    BY <1>2, <1>4, <2>1, FirstsFacts
  <2>3. LastSecond(g, p, r2) \in Int
    BY <1>2, <1>4, <2>1, SecondsFacts
  <2>. QED BY <1>3, <2>2, <2>3
<1>t. PICK t1, t2 :
        /\ t1 = IF r1 # e /\ (merge.v1 <= merge.v2 \/ r2 = f) THEN 1 ELSE 0
        /\ t2 = IF r2 # f /\ (merge.v1 >= merge.v2 \/ r1 = e) THEN 1 ELSE 0
  OBVIOUS
<1>6. /\ TakesFirst <=> t1 = 1
      /\ TakesSecond <=> t2 = 1
      /\ t1 = 1 \/ t2 = 1
  <2>1. ~(merge.end1 /\ merge.end2)
    BY DEF MergeTurn
  <2>2. r1 # e \/ r2 # f
    BY <1>3, <2>1
  <2>3. TakesFirst <=> r1 # e /\ (merge.v1 <= merge.v2 \/ r2 = f)
    BY <1>3 DEF TakesFirst
  <2>4. TakesSecond <=> r2 # f /\ (merge.v1 >= merge.v2 \/ r1 = e)
    BY <1>3 DEF TakesSecond
  <2>. QED BY <1>5, <1>t, <2>2, <2>3, <2>4
<1>R. PICK R : R = (IF TakesFirst THEN {"col1Copy", "col1CopyBlockEnd"} ELSE {})
                     \cup (IF TakesSecond THEN {"row2", "row2BlockEnd"} ELSE {})
  OBVIOUS
<1>7. /\ R = (IF t1 = 1 THEN {"col1Copy", "col1CopyBlockEnd"} ELSE {})
             \cup (IF t2 = 1 THEN {"row2", "row2BlockEnd"} ELSE {})
      /\ Turn(R, Nothing)
  BY <1>6, <1>R DEF MergeTurn
<1> DEFINE D == [col1Copy |-> <<p, r1 + t1>>, col1CopyBlockEnd |-> <<p, r1 + t1 + 1>>,
                 row2 |-> <<p, r2 + t2>>, row2BlockEnd |-> <<p, r2 + t2 + 1>>]
           moving == {"col1Copy", "col1CopyBlockEnd", "row2", "row2BlockEnd"}
<1>8. /\ t1 = 1 => /\ Passes(Slots(g)["col1Copy"], rd["col1Copy"], <<p, r1>>, <<p, r1 + 1>>)
                   /\ Passes(Slots(g)["col1CopyBlockEnd"], rd["col1CopyBlockEnd"],
                             <<p, r1 + 1>>, <<p, r1 + 1 + 1>>)
      /\ t2 = 1 => /\ Passes(Slots(g)["row2"], rd["row2"], <<p, r2>>, <<p, r2 + 1>>)
                   /\ Passes(Slots(g)["row2BlockEnd"], rd["row2BlockEnd"],
                             <<p, r2 + 1>>, <<p, r2 + 1 + 1>>)
  <2>1. ASSUME t1 = 1
        PROVE  /\ Passes(Slots(g)["col1Copy"], rd["col1Copy"], <<p, r1>>, <<p, r1 + 1>>)
               /\ Passes(Slots(g)["col1CopyBlockEnd"], rd["col1CopyBlockEnd"],
                         <<p, r1 + 1>>, <<p, r1 + 1 + 1>>)
    <3>1. /\ p + 1 <= r1 /\ r1 <= ListEnd(g, p)
          /\ p + 1 <= r1 + 1 /\ r1 + 1 <= ListEnd(g, p) + 1 /\ r1 + 1 \in Int
      <4>1. r1 # e
        BY <1>t, <2>1
      <4>2. ListEnd(g, p) = e - 1
        <5>1. ListEnd(g, p) \in Int
          BY <1>4, ListFacts DEF Rows
        <5>. QED BY <1>e, <5>1
      <4>. QED BY <1>2, <1>3, <1>4, <4>1, <4>2
    <3>2. Passes(Upper(g, 0), <<p, r1>>, <<p, r1>>, <<p, r1 + 1>>)
      BY <1>2, <3>1, UpperSlots, Zenon
    <3>3. Passes(Upper(g, 1), <<p, r1 + 1>>, <<p, r1 + 1>>, <<p, r1 + 1 + 1>>)
      BY <1>2, <3>1, UpperSlots, Zenon
    <3>. QED BY <1>2, <3>2, <3>3, SlotFacts
  <2>2. ASSUME t2 = 1
        PROVE  /\ Passes(Slots(g)["row2"], rd["row2"], <<p, r2>>, <<p, r2 + 1>>)
               /\ Passes(Slots(g)["row2BlockEnd"], rd["row2BlockEnd"],
                         <<p, r2 + 1>>, <<p, r2 + 1 + 1>>)
    <3>1. /\ OtherStart(g, p) <= r2 /\ r2 < OtherEnd(g, p)
          /\ OtherStart(g, p) <= r2 + 1 /\ r2 + 1 <= OtherEnd(g, p) /\ r2 + 1 \in Int
      <4>1. r2 # f
        BY <1>t, <2>2
      <4>. QED BY <1>2, <1>3, <1>4, <1>f, <4>1
    <3>2. Passes(Lower(g, 0), <<p, r2>>, <<p, r2>>, <<p, r2 + 1>>)
      BY <1>2, <3>1, LowerSlots, Zenon
    <3>3. Passes(Lower(g, 1), <<p, r2 + 1>>, <<p, r2 + 1>>, <<p, r2 + 1 + 1>>)
      BY <1>2, <3>1, LowerSlots, Zenon
    <3>. QED BY <1>2, <3>2, <3>3, SlotFacts
  <2>. QED BY <2>1, <2>2
<1>9. /\ t1 \in {0, 1} /\ t2 \in {0, 1} /\ r1 + t1 \in Int /\ r2 + t2 \in Int
      /\ r1 + 0 = r1 /\ r2 + 0 = r2 /\ \A s \in moving : D[s] \in Place
  <2>1. t1 \in {0, 1} /\ t2 \in {0, 1}
    BY <1>t
  <2>2. r1 + t1 \in Int /\ r2 + t2 \in Int /\ r1 + 0 = r1 /\ r2 + 0 = r2
    BY <1>2, <2>1
  <2>. QED BY <1>4, <2>1, <2>2
<1>10. /\ t1 = 1 => /\ Head(q["col1Copy"]) = g.columns[r1]
                    /\ Head(q["col1CopyBlockEnd"]) = (IF r1 + 1 = e THEN TRUE ELSE FALSE)
       /\ t2 = 1 => /\ Head(q["row2"]) = g.columns[r2 + 1]
                    /\ Head(q["row2BlockEnd"]) = (IF r2 + 1 = f THEN TRUE ELSE FALSE)
  <2>0. moving \subseteq Names /\ r1 + 1 \in Int /\ r2 + 1 \in Int
        /\ r1 + 1 + 1 \in Int /\ r2 + 1 + 1 \in Int
    BY <1>2, MergeNames DEF MergeReads
  <2>1. \A s \in R : q[s] # << >> /\ s \in Names
    BY <1>7, <2>0 DEF Turn
  <2>2. \A s \in R : \A z, w : w \in Place /\ Passes(Slots(g)[s], rd[s], z, w)
                                 => Head(q[s]) = Says(g)[s][z]
    BY <2>1, ValueRead, Zenon
  <2>3. /\ t1 = 1 => /\ Head(q["col1Copy"]) = Says(g)["col1Copy"][<<p, r1>>]
                     /\ Head(q["col1CopyBlockEnd"]) = Says(g)["col1CopyBlockEnd"][<<p, r1 + 1>>]
        /\ t2 = 1 => /\ Head(q["row2"]) = Says(g)["row2"][<<p, r2>>]
                     /\ Head(q["row2BlockEnd"]) = Says(g)["row2BlockEnd"][<<p, r2 + 1>>]
    <3>1. /\ t1 = 1 => "col1Copy" \in R /\ "col1CopyBlockEnd" \in R
          /\ t2 = 1 => "row2" \in R /\ "row2BlockEnd" \in R
      BY <1>7
    <3>2. /\ <<p, r1 + 1>> \in Place /\ <<p, r1 + 1 + 1>> \in Place
          /\ <<p, r2 + 1>> \in Place /\ <<p, r2 + 1 + 1>> \in Place
      BY <1>4, <2>0
    <3>. QED BY <1>8, <2>2, <3>1, <3>2, Zenon
  <2>4. /\ Says(g)["col1Copy"][<<p, r1>>] = g.columns[r1]
        /\ Says(g)["row2"][<<p, r2>>] = g.columns[r2 + 1]
    <3>1. /\ Says(g)["col1Copy"] = UpperColumn(g) /\ Says(g)["row2"] = LowerColumn(g)
          /\ <<p, r1>> \in Place /\ <<p, r2>> \in Place
      BY <1>2, <1>4, SaysFacts
    <3>. QED BY <3>1 DEF UpperColumn, LowerColumn
  <2>5. /\ r1 + 1 # e => Says(g)["col1CopyBlockEnd"][<<p, r1 + 1>>] = FALSE
        /\ r1 + 1 = e => Says(g)["col1CopyBlockEnd"][<<p, r1 + 1>>] = TRUE
    <3>1. p \in Int /\ r1 + 1 \in Int
      BY <1>4, <2>0
    <3>2. /\ r1 + 1 # ListEnd(g, p) + 1 => Says(g)["col1CopyBlockEnd"][<<p, r1 + 1>>] = FALSE
          /\ r1 + 1 = ListEnd(g, p) + 1 => Says(g)["col1CopyBlockEnd"][<<p, r1 + 1>>] = TRUE
      BY <3>1, UpperFlags, Zenon
    <3>. QED BY <3>2, <1>e
  <2>6. /\ r2 + 1 # f => Says(g)["row2BlockEnd"][<<p, r2 + 1>>] = FALSE
        /\ r2 + 1 = f => Says(g)["row2BlockEnd"][<<p, r2 + 1>>] = TRUE
    <3>1. p \in Int /\ r2 + 1 \in Int
      BY <1>4, <2>0
    <3>2. /\ r2 + 1 # OtherEnd(g, p) => Says(g)["row2BlockEnd"][<<p, r2 + 1>>] = FALSE
          /\ r2 + 1 = OtherEnd(g, p) => Says(g)["row2BlockEnd"][<<p, r2 + 1>>] = TRUE
      BY <3>1, LowerFlags, Zenon
    <3>. QED BY <3>2, <1>f
  <2>. QED BY <2>3, <2>4, <2>5, <2>6, Zenon

<1>11. /\ merge' = [pc |-> "turn", end1 |-> merge'.end1, end2 |-> merge'.end2,
                    v1 |-> merge'.v1, v2 |-> merge'.v2, num |-> merge'.num]
       /\ merge'.v1 = (IF t1 = 1 THEN Head(q["col1Copy"]) ELSE merge.v1)
       /\ merge'.v2 = (IF t2 = 1 THEN Head(q["row2"]) ELSE merge.v2)
       /\ merge'.end1 = (IF t1 = 1 THEN Head(q["col1CopyBlockEnd"]) ELSE merge.end1)
       /\ merge'.end2 = (IF t2 = 1 THEN Head(q["row2BlockEnd"]) ELSE merge.end2)
       /\ merge'.num = (IF merge'.v1 = merge'.v2 THEN merge.num + 1 ELSE merge.num)
  <2>1. merge' = LET v1 == IF t1 = 1 THEN Head(q["col1Copy"]) ELSE merge.v1
                     v2 == IF t2 = 1 THEN Head(q["row2"]) ELSE merge.v2
                 IN  [merge EXCEPT
                        !.v1 = v1, !.v2 = v2,
                        !.end1 = IF t1 = 1 THEN Head(q["col1CopyBlockEnd"]) ELSE @,
                        !.end2 = IF t2 = 1 THEN Head(q["row2BlockEnd"]) ELSE @,
                        !.num = IF v1 = v2 THEN @ + 1 ELSE @]
    BY <1>6 DEF MergeTurn
  <2>2. /\ merge = [pc |-> merge.pc, end1 |-> merge.end1, end2 |-> merge.end2,
                    v1 |-> merge.v1, v2 |-> merge.v2, num |-> merge.num]
        /\ merge.pc = "turn"
    BY DEF MergeAt, MergeTurn
  <2>. QED BY <2>1, <2>2
<1>12. Merged(g, p, r1 + t1, r2 + t2, merge')
  <2>1. /\ merge'.v1 = IF t1 = 1 THEN g.columns[r1] ELSE merge.v1
        /\ merge'.v2 = IF t2 = 1 THEN g.columns[r2 + 1] ELSE merge.v2
    BY <1>10, <1>11
  <2>2. /\ merge'.end1 = IF r1 + t1 = ListEnd(g, p) + 1 THEN TRUE ELSE FALSE
        /\ merge'.end2 = IF r2 + t2 = OtherEnd(g, p) THEN TRUE ELSE FALSE
    BY <1>3, <1>9, <1>10, <1>11, <1>e, <1>f, Zenon
  <2>3. /\ t1 = IF r1 # ListEnd(g, p) + 1 /\ (merge.v1 <= merge.v2 \/ r2 = OtherEnd(g, p))
                THEN 1 ELSE 0
        /\ t2 = IF r2 # OtherEnd(g, p) /\ (merge.v1 >= merge.v2 \/ r1 = ListEnd(g, p) + 1)
                THEN 1 ELSE 0
    BY <1>t, <1>e, <1>f, Zenon
  <2>4. TakesOn(g, p, r1, r2, t1, t2, merge, merge')
    BY <1>11, <2>1, <2>2, <2>3, Zenon DEF TakesOn
  <2>. QED BY <1>2, <1>4, <1>6, <2>4, MergedTurn, Zenon
<1>13. /\ DOMAIN D = moving
       /\ D["col1Copy"] = <<p, r1 + t1>> /\ D["col1CopyBlockEnd"] = <<p, r1 + t1 + 1>>
       /\ D["row2"] = <<p, r2 + t2>> /\ D["row2BlockEnd"] = <<p, r2 + t2 + 1>>
  OBVIOUS
<1>. HIDE DEF D
<1>14. Takes(g, rd, D, R)
  <2>1. \A s \in moving : IF s \in R THEN \E z : Passes(Slots(g)[s], rd[s], z, D[s])
                          ELSE Rests(Slots(g)[s], rd[s], D[s])
    <3>1. \A S, a : Rests(S, a, a)
      BY DEF Rests
    <3>2. IF "col1Copy" \in R THEN \E z : Passes(Slots(g)["col1Copy"], rd["col1Copy"], z, D["col1Copy"])
          ELSE Rests(Slots(g)["col1Copy"], rd["col1Copy"], D["col1Copy"])
      BY <1>2, <1>7, <1>8, <1>9, <1>13, <3>1
    <3>3. IF "col1CopyBlockEnd" \in R
          THEN \E z : Passes(Slots(g)["col1CopyBlockEnd"], rd["col1CopyBlockEnd"], z, D["col1CopyBlockEnd"])
          ELSE Rests(Slots(g)["col1CopyBlockEnd"], rd["col1CopyBlockEnd"], D["col1CopyBlockEnd"])
      BY <1>2, <1>7, <1>8, <1>9, <1>13, <3>1
    <3>4. IF "row2" \in R THEN \E z : Passes(Slots(g)["row2"], rd["row2"], z, D["row2"])
          ELSE Rests(Slots(g)["row2"], rd["row2"], D["row2"])
      BY <1>2, <1>7, <1>8, <1>9, <1>13, <3>1
    <3>5. IF "row2BlockEnd" \in R
          THEN \E z : Passes(Slots(g)["row2BlockEnd"], rd["row2BlockEnd"], z, D["row2BlockEnd"])
          ELSE Rests(Slots(g)["row2BlockEnd"], rd["row2BlockEnd"], D["row2BlockEnd"])
      BY <1>2, <1>7, <1>8, <1>9, <1>13, <3>1
    <3>. QED BY <3>2, <3>3, <3>4, <3>5, Zenon
  <2>2. R \subseteq moving
    BY <1>7
  <2>. QED BY <1>9, <1>13, <2>1, <2>2 DEF Takes
<1>15. /\ IsMove(D, MergeReads) /\ IsMove(Nothing, MergeWrites)
       /\ Flow(g, Moved(rd, D), Moved(wr, Nothing))'
  <2>1. /\ DOMAIN D \subseteq MergeReads /\ DOMAIN Nothing \subseteq MergeWrites
        /\ Puts(g, wr, Nothing, Nothing)
    BY <1>13, NoMove DEF MergeReads
  <2>. QED BY <1>7, <1>14, <2>1, MergeNames, MoveFlow
<1>16. MergeAt(g, Moved(rd, D), Moved(wr, Nothing))'
  <2>1. /\ Moved(rd, D)["col1CopyEnd"] = <<p + 1, 0>> /\ Moved(rd, D)["col1Copy"] = <<p, r1 + t1>>
        /\ Moved(rd, D)["col1CopyBlockEnd"] = <<p, r1 + t1 + 1>>
        /\ Moved(rd, D)["row2"] = <<p, r2 + t2>> /\ Moved(rd, D)["row2BlockEnd"] = <<p, r2 + t2 + 1>>
    BY <1>2, <1>13, MergeNames DEF Moved, MergeReads
  <2>2. Moved(wr, Nothing)["tc"] = <<y, 0>> /\ Moved(wr, Nothing)["tcEnd"] = <<y, 0>>
    BY <1>2, NoMove, MergeNames DEF Moved, MergeWrites
  <2>3. MergeTurns(g, Moved(rd, D), Moved(wr, Nothing), p, y, r1 + t1, r2 + t2)'
    BY <1>2, <1>9, <1>12, <2>1, <2>2 DEF MergeTurns
  <2>4. merge'.pc = "turn"
    BY <1>11
  <2>. QED BY <1>11, <2>3, <2>4 DEF MergeAt
<1>. QED BY <1>15, <1>16

LEMMA MergeLastTurn ==
  ASSUME NEW g \in Files, off = g.offsets, rows = g.columns, NEW rd \in [Names -> Place],
         NEW wr \in [Names -> Place], Flow(g, rd, wr), MergeAt(g, rd, wr), MergeLast
  PROVE  \E D, E : /\ IsMove(D, MergeReads) /\ IsMove(E, MergeWrites)
                   /\ Flow(g, Moved(rd, D), Moved(wr, E))'
                   /\ MergeAt(g, Moved(rd, D), Moved(wr, E))'
<1>1. PICK p, y, r1, r2 : MergeTurns(g, rd, wr, p, y, r1, r2)
  BY DEF MergeAt, MergeLast
<1>e. PICK e : e = ListEnd(g, p) + 1
  OBVIOUS
<1>f. PICK f : f = OtherEnd(g, p)
  OBVIOUS
<1>2. /\ p \in Kept(g) /\ IsNext(g, y, p) /\ r1 = e /\ r2 = f
      /\ rd["col1CopyEnd"] = <<p + 1, 0>>
      /\ rd["col1Copy"] = <<p, e>> /\ rd["col1CopyBlockEnd"] = <<p, e + 1>>
      /\ rd["row2"] = <<p, f>> /\ rd["row2BlockEnd"] = <<p, f + 1>>
      /\ wr["tc"] = <<y, 0>> /\ wr["tcEnd"] = <<y, 0>>
      /\ merge.num = Cardinality(Firsts(g, p, e) \cap Seconds(g, p, f))
  <2>1. /\ p \in Kept(g) /\ IsNext(g, y, p)
        /\ rd["col1CopyEnd"] = <<p + 1, 0>>
        /\ rd["col1Copy"] = <<p, r1>> /\ rd["col1CopyBlockEnd"] = <<p, r1 + 1>>
        /\ rd["row2"] = <<p, r2>> /\ rd["row2BlockEnd"] = <<p, r2 + 1>>
        /\ wr["tc"] = <<y, 0>> /\ wr["tcEnd"] = <<y, 0>>
        /\ Merged(g, p, r1, r2, merge)
    BY <1>1 DEF MergeTurns
  <2>2. /\ merge.end1 = (IF r1 = e THEN TRUE ELSE FALSE)
        /\ merge.end2 = (IF r2 = f THEN TRUE ELSE FALSE)
        /\ merge.num = Cardinality(Firsts(g, p, r1) \cap Seconds(g, p, r2))
    BY <2>1, <1>e, <1>f DEF Merged
  <2>3. r1 = e /\ r2 = f
    BY <2>2 DEF MergeLast
  <2>. QED BY <2>1, <2>2, <2>3
<1>3. /\ Turn({}, [tc |-> merge.num, tcEnd |-> FALSE])
      /\ merge' = [pc |-> "pair", end1 |-> merge.end1, end2 |-> merge.end2,
                   v1 |-> 0, v2 |-> 0, num |-> 0]
  <2>1. /\ Turn({}, [tc |-> merge.num, tcEnd |-> FALSE])
        /\ merge' = [merge EXCEPT !.pc = "pair", !.num = 0, !.v1 = 0, !.v2 = 0]
    BY DEF MergeLast
  <2>2. merge = [pc |-> merge.pc, end1 |-> merge.end1, end2 |-> merge.end2,
                 v1 |-> merge.v1, v2 |-> merge.v2, num |-> merge.num]
    BY DEF MergeAt
  <2>. QED BY <2>1, <2>2
<1>4. /\ p \in Int /\ p \in Rows(g) /\ p # N(g) + 1 /\ e \in Int /\ f \in Int
      /\ e > ListEnd(g, p) /\ e + 1 > ListEnd(g, p) + 1 /\ e + 1 \in Int /\ e - 1 = ListEnd(g, p)
      /\ f >= OtherEnd(g, p) /\ f + 1 > OtherEnd(g, p) /\ f + 1 \in Int
  <2>1. p \in Int /\ p \in Rows(g) /\ p \in 1 .. N(g) /\ N(g) \in Nat
    BY <1>2, SlotsArePlaces DEF Rows
  <2>2. ListEnd(g, p) \in Int /\ f \in Int
    BY <1>f, <2>1, OtherFacts, ListFacts
  <2>. QED BY <1>e, <1>f, <2>1, <2>2
<1> DEFINE next == <<p + 1, 0>>
           writes == [tc |-> merge.num, tcEnd |-> FALSE]
           D == [s \in MergeReads |-> next]
           E == [s \in MergeWrites |-> next]
<1>5. /\ next \in Place
      /\ Passes(Slots(g)["tc"], wr["tc"], <<p, 0>>, next)
      /\ Passes(Slots(g)["tcEnd"], wr["tcEnd"], <<p, 0>>, next)
  BY <1>2, <1>4, PairSlots, SlotFacts
<1>6. \A s \in MergeReads : Rests(Slots(g)[s], rd[s], next)
  <2>1. Rests(Upper(g, 0), <<p, e>>, next)
    BY <1>2, <1>4, UpperSlots, Zenon
  <2>2. Rests(Upper(g, 1), <<p, e + 1>>, next)
    BY <1>2, <1>4, UpperSlots, Zenon
  <2>3. Rests(Lower(g, 0), <<p, f>>, next)
    BY <1>2, <1>4, LowerSlots, Zenon
  <2>4. Rests(Lower(g, 1), <<p, f + 1>>, next)
    BY <1>2, <1>4, LowerSlots, Zenon
  <2>5. \A S : Rests(S, next, next)
    BY DEF Rests
  <2>6. /\ Slots(g)["col1Copy"] = Upper(g, 0) /\ Slots(g)["col1CopyBlockEnd"] = Upper(g, 1)
        /\ Slots(g)["row2"] = Lower(g, 0) /\ Slots(g)["row2BlockEnd"] = Lower(g, 1)
    BY SlotFacts
  <2>. HIDE DEF next
  <2>7. rd["col1CopyEnd"] = next
    BY <1>2 DEF next
  <2>. QED BY <1>2, <2>1, <2>2, <2>3, <2>4, <2>5, <2>6, <2>7 DEF MergeReads
<1>7. merge.num = Says(g)["tc"][<<p, 0>>]
  <2>1. Firsts(g, p, e) = Rest(g, p) /\ Seconds(g, p, f) = Other(g, p)
    BY <1>4, <1>f DEF Firsts, Seconds, Rest, Other
  <2>2. Says(g)["tc"] = Common(g) /\ <<p, 0>> \in Place /\ <<p, 0>>[1] = p
    BY <1>4, SaysFacts DEF Place
  <2>3. Common(g)[<<p, 0>>] = Cardinality(Rest(g, p) \cap Other(g, p))
    BY <2>2 DEF Common
  <2>. QED BY <1>2, <2>1, <2>2, <2>3
<1>8. Says(g)["tcEnd"][<<p, 0>>] = FALSE
  <2>1. Says(g)["tcEnd"] = IsLastRow(g) /\ <<p, 0>> \in Place /\ <<p, 0>>[1] = p
    BY <1>4, SaysFacts DEF Place
  <2>2. IsLastRow(g)[<<p, 0>>] = FALSE
    BY <1>4, <2>1 DEF IsLastRow
  <2>. QED BY <2>1, <2>2
<1>9. /\ DOMAIN D = MergeReads /\ DOMAIN E = MergeWrites
      /\ DOMAIN writes = {"tc", "tcEnd"}
      /\ \A s \in MergeReads : D[s] = next
      /\ \A s \in MergeWrites : E[s] = next
      /\ writes["tc"] = merge.num /\ writes["tcEnd"] = FALSE /\ Turn({}, writes)
  BY <1>3
<1>. HIDE DEF D, E, writes, next
<1>10. Takes(g, rd, D, {})
  BY <1>5, <1>6, <1>9 DEF Takes
<1>11. Puts(g, wr, E, writes)
  <2>1. /\ writes["tc"] = Says(g)["tc"][<<p, 0>>]
        /\ writes["tcEnd"] = Says(g)["tcEnd"][<<p, 0>>]
    BY <1>7, <1>8, <1>9, Zenon
  <2>. QED BY <1>5, <1>9, <2>1 DEF Puts, MergeWrites
<1>12. /\ IsMove(D, MergeReads) /\ IsMove(E, MergeWrites)
       /\ Flow(g, Moved(rd, D), Moved(wr, E))'
  BY <1>9, <1>10, <1>11, MergeNames, MoveFlow
<1>13. MergeAt(g, Moved(rd, D), Moved(wr, E))'
  <2>1. /\ \A s \in MergeReads : Moved(rd, D)[s] = next
        /\ \A s \in MergeWrites : Moved(wr, E)[s] = next
    BY <1>9, MergeNames DEF Moved
  <2>2. p + 1 \in Int /\ p + 1 <= N(g) + 1 /\ next = <<p + 1, 0>>
    BY <1>4, RowBound DEF next
  <2>. QED BY <1>3, <2>1, <2>2 DEF MergeAt
<1>. QED BY <1>12, <1>13

LEMMA MergeEndTurn ==
  ASSUME NEW g \in Files, off = g.offsets, rows = g.columns, NEW rd \in [Names -> Place],
         NEW wr \in [Names -> Place], Flow(g, rd, wr), MergeAt(g, rd, wr), MergeEnd
  PROVE  \E D, E : /\ IsMove(D, MergeReads) /\ IsMove(E, MergeWrites)
                   /\ Flow(g, Moved(rd, D), Moved(wr, E))'
                   /\ MergeAt(g, Moved(rd, D), Moved(wr, E))'
<1>1. PICK x \in Int : /\ \A s \in MergeReads : rd[s] = <<x, 0>>
                       /\ \A s \in MergeWrites : wr[s] = <<x, 0>>
  BY DEF MergeAt, MergeEnd
<1>2. /\ Turn({"col1CopyEnd"}, [tcEnd |-> TRUE])
      /\ Head(q["col1CopyEnd"]) # FALSE /\ q["col1CopyEnd"] # << >>
      /\ merge' = [pc |-> "done", end1 |-> merge.end1, end2 |-> merge.end2,
                   v1 |-> 0, v2 |-> 0, num |-> 0]
  <2>1. /\ Turn({"col1CopyEnd"}, [tcEnd |-> TRUE])
        /\ Head(q["col1CopyEnd"]) # FALSE /\ q["col1CopyEnd"] # << >>
        /\ merge' = [merge EXCEPT !.pc = "done"]
    BY DEF MergeEnd, Ends
  <2>2. /\ merge = [pc |-> merge.pc, end1 |-> merge.end1, end2 |-> merge.end2,
                    v1 |-> merge.v1, v2 |-> merge.v2, num |-> merge.num]
        /\ merge.v1 = 0 /\ merge.v2 = 0 /\ merge.num = 0
    BY DEF MergeAt, MergeEnd
  <2>. QED BY <2>1, <2>2
<1>3. PICK p : IsNext(g, x, p) /\ p = N(g) + 1
  BY <1>1, <1>2, PairFlag DEF PairEnds, MergeReads
<1> DEFINE next == <<p + 1, 0>>
           writes == [tcEnd |-> TRUE]
           D == [s \in MergeReads |-> next]
           E == [s \in MergeWrites |-> next]
<1>4. /\ p \in Int /\ next \in Place
      /\ Passes(Slots(g)["col1CopyEnd"], rd["col1CopyEnd"], <<p, 0>>, next)
      /\ Passes(Slots(g)["tcEnd"], wr["tcEnd"], <<p, 0>>, next)
      /\ Rests(Slots(g)["tc"], wr["tc"], next)
  <2>1. /\ p \in Int /\ next \in Place
        /\ Passes(Flat(KeptOrEnd(g)), <<x, 0>>, <<p, 0>>, next)
        /\ Rests(Flat(Kept(g)), <<x, 0>>, next)
    BY <1>3, PairSlots
  <2>2. rd["col1CopyEnd"] = <<x, 0>> /\ wr["tcEnd"] = <<x, 0>> /\ wr["tc"] = <<x, 0>>
    BY <1>1 DEF MergeReads, MergeWrites
  <2>. QED BY <2>1, <2>2, SlotFacts
<1>5. \A s \in MergeReads \ {"col1CopyEnd"} : Rests(Slots(g)[s], rd[s], next)
  <2>1. /\ Rests(Upper(g, 0), <<x, 0>>, next) /\ Rests(Upper(g, 1), <<x, 0>>, next)
        /\ Rests(Lower(g, 0), <<x, 0>>, next) /\ Rests(Lower(g, 1), <<x, 0>>, next)
    BY <1>3, LastGap
  <2>2. /\ Slots(g)["col1Copy"] = Upper(g, 0) /\ Slots(g)["col1CopyBlockEnd"] = Upper(g, 1)
        /\ Slots(g)["row2"] = Lower(g, 0) /\ Slots(g)["row2BlockEnd"] = Lower(g, 1)
    BY SlotFacts
  <2>. HIDE DEF next
  <2>. QED BY <1>1, <2>1, <2>2 DEF MergeReads
<1>6. Says(g)["tcEnd"][<<p, 0>>] = TRUE
  <2>1. Says(g)["tcEnd"] = IsLastRow(g) /\ <<p, 0>> \in Place /\ <<p, 0>>[1] = p
    BY <1>4, SaysFacts DEF Place
  <2>. QED BY <1>3, <2>1 DEF IsLastRow
<1>7. /\ DOMAIN D = MergeReads /\ DOMAIN E = MergeWrites /\ DOMAIN writes = {"tcEnd"}
      /\ \A s \in MergeReads : D[s] = next
      /\ \A s \in MergeWrites : E[s] = next
      /\ writes["tcEnd"] = TRUE /\ Turn({"col1CopyEnd"}, writes)
  BY <1>2
<1>. HIDE DEF D, E, writes
<1>8. Takes(g, rd, D, {"col1CopyEnd"})
  <2>. HIDE DEF next
  <2>. QED BY <1>4, <1>5, <1>7 DEF Takes, MergeReads
<1>9. Puts(g, wr, E, writes)
  <2>1. writes["tcEnd"] = Says(g)["tcEnd"][<<p, 0>>]
    BY <1>6, <1>7, Zenon
  <2>. HIDE DEF next
  <2>. QED BY <1>4, <1>7, <2>1 DEF Puts, MergeWrites
<1>10. /\ IsMove(D, MergeReads) /\ IsMove(E, MergeWrites)
       /\ Flow(g, Moved(rd, D), Moved(wr, E))'
  BY <1>7, <1>8, <1>9, MergeNames, MoveFlow, ZenonT(30)
<1>11. MergeAt(g, Moved(rd, D), Moved(wr, E))'
  <2>1. /\ \A s \in MergeReads : Moved(rd, D)[s] = next
        /\ \A s \in MergeWrites : Moved(wr, E)[s] = next
    BY <1>7, MergeNames DEF Moved
  <2>2. p + 1 \in Int /\ p + 1 = N(g) + 2 /\ next = <<p + 1, 0>>
    BY <1>3, <1>4, SlotsArePlaces
  <2>. HIDE DEF next
  <2>. QED BY <1>2, <2>1, <2>2 DEF MergeAt
<1>. QED BY <1>10, <1>11

-----------------------------------------------------------------------------
(* The triangles that are counted at the pairs of S, as the pair and the   *)
(* third vertex.                                                           *)
CornersOf(g, S) == {t \in Rows(g) \X Vertex : /\ <<t[1], 0>> \in S
                                              /\ t[2] \in Rest(g, t[1]) \cap Other(g, t[1])}

LEMMA CornersFacts ==
  ASSUME NEW g \in Files, NEW S
  PROVE  /\ IsFiniteSet(CornersOf(g, S)) /\ Cardinality(CornersOf(g, S)) \in Nat
         /\ \A U \in SUBSET S : /\ CornersOf(g, U) \subseteq CornersOf(g, S)
                                /\ Cardinality(CornersOf(g, U)) <= Cardinality(CornersOf(g, S))
<1>1. IsFiniteSet(Rows(g)) /\ IsFiniteSet(Vertex)
  <2>1. N(g) \in Int /\ NVertices - 1 \in Int /\ 0 \in Int /\ 1 \in Int
    BY CsrFacts
  <2>. QED BY <2>1, FS_Interval DEF Rows, Vertex
<1>2. IsFiniteSet(Rows(g) \X Vertex)
  BY <1>1, FS_Product
<1>3. \A U : CornersOf(g, U) \in SUBSET (Rows(g) \X Vertex)
  BY DEF CornersOf
<1>4. \A U : IsFiniteSet(CornersOf(g, U))
  BY <1>2, <1>3, FS_Subset
<1>5. \A U : Cardinality(CornersOf(g, U)) \in Nat
  BY <1>4, FS_CardinalityType
<1>6. \A U \in SUBSET S : CornersOf(g, U) \in SUBSET CornersOf(g, S)
  BY DEF CornersOf
<1>7. \A U \in SUBSET S : Cardinality(CornersOf(g, U)) <= Cardinality(CornersOf(g, S))
  BY <1>4, <1>6, FS_Subset
<1>. QED BY <1>4, <1>5, <1>6, <1>7

LEMMA CornersApart ==
  ASSUME NEW g \in Files, NEW S, NEW U, S \cap U = {}
  PROVE  Cardinality(CornersOf(g, S \cup U)) =
           Cardinality(CornersOf(g, S)) + Cardinality(CornersOf(g, U))
<1>1. /\ CornersOf(g, S \cup U) = CornersOf(g, S) \cup CornersOf(g, U)
      /\ CornersOf(g, S) \cap CornersOf(g, U) = {}
  BY DEF CornersOf
<1>2. /\ IsFiniteSet(CornersOf(g, S)) /\ IsFiniteSet(CornersOf(g, U))
      /\ Cardinality(CornersOf(g, S)) \in Nat /\ Cardinality(CornersOf(g, U)) \in Nat
  BY CornersFacts
<1>3. Cardinality({}) = 0
  BY FS_EmptySet
<1>4. Cardinality(CornersOf(g, S) \cup CornersOf(g, U)) =
        Cardinality(CornersOf(g, S)) + Cardinality(CornersOf(g, U))
          - Cardinality(CornersOf(g, S) \cap CornersOf(g, U))
  BY <1>2, FS_Union
<1>5. Cardinality(CornersOf(g, S) \cap CornersOf(g, U)) = 0
  BY <1>1, <1>3
<1>6. Cardinality(CornersOf(g, S) \cup CornersOf(g, U)) =
        Cardinality(CornersOf(g, S)) + Cardinality(CornersOf(g, U))
  BY <1>2, <1>4, <1>5
<1>. QED BY <1>1, <1>6

LEMMA CornersOfOne ==
  ASSUME NEW g \in Files, NEW p \in Rows(g)
  PROVE  /\ Cardinality(CornersOf(g, {<<p, 0>>})) = Common(g)[<<p, 0>>]
         /\ Common(g)[<<p, 0>>] = Cardinality(Rest(g, p) \cap Other(g, p))
         /\ Common(g)[<<p, 0>>] \in Nat
<1> DEFINE both == Rest(g, p) \cap Other(g, p)
<1>1. both \in SUBSET Vertex
  <2>1. g.columns \in [1 .. N(g) -> Vertex] /\ N(g) \in Nat
    BY CsrFacts
  <2>2. OtherStart(g, p) \in 0 .. N(g) /\ OtherEnd(g, p) \in 0 .. N(g)
    BY OtherFacts DEF Rows
  <2>3. \A r \in OtherStart(g, p) + 1 .. OtherEnd(g, p) : r \in 1 .. N(g)
    BY <2>1, <2>2
  <2>. QED BY <2>1, <2>3 DEF Other
<1>2. IsFiniteSet(both)
  <2>1. NVertices - 1 \in Int /\ 0 \in Int
    BY CsrFacts
  <2>2. IsFiniteSet(Vertex)
    BY <2>1, FS_Interval DEF Vertex
  <2>. QED BY <1>1, <2>2, FS_Subset
<1>3. CornersOf(g, {<<p, 0>>}) = {p} \X both
  BY <1>1 DEF CornersOf
<1>4. Cardinality({p} \X both) = Cardinality(both) /\ Cardinality(both) \in Nat
  <2>1. IsFiniteSet({p}) /\ Cardinality({p}) = 1
    BY FS_Singleton
  <2>2. Cardinality({p} \X both) = Cardinality({p}) * Cardinality(both)
    BY <1>2, <2>1, FS_Product
  <2>3. Cardinality(both) \in Nat
    BY <1>2, FS_CardinalityType
  <2>. QED BY <2>1, <2>2, <2>3
<1>5. Common(g)[<<p, 0>>] = Cardinality(both)
  <2>1. <<p, 0>> \in Place
    BY SlotsArePlaces DEF Place
  <2>. QED BY <2>1 DEF Common
<1>. QED BY <1>3, <1>4, <1>5

(* tcAccUnit has added the results of the pairs before x.                  *)
AccReads  == {"tc", "tcEnd"}
AccWrites == {}
Passed(S, r) == {x \in S : Before(x, r)}

AccAt(g, rd, wr) ==
  /\ acc = [pc |-> acc.pc, triangles |-> acc.triangles]
  /\ acc.triangles = Cardinality(CornersOf(g, Passed(Flat(Kept(g)), rd["tc"])))
  /\ \E x \in Int : /\ \/ acc.pc = "end" /\ x <= N(g) + 1
                       \/ acc.pc = "done" /\ x = N(g) + 2
                    /\ rd["tc"] = <<x, 0>> /\ rd["tcEnd"] = <<x, 0>>

LEMMA AccNames ==
  /\ AccReads \in SUBSET Names /\ AccWrites \in SUBSET Names
  /\ AccReads \cap AccWrites = {}
  BY DEF AccReads, AccWrites, Names, Between

LEMMA PassedFacts ==
  ASSUME NEW S, NEW r, NEW r2
  PROVE  /\ Rests(S, r, r2) => Passed(S, r2) = Passed(S, r)
         /\ \A x : Passes(S, r, x, r2) => /\ Passed(S, r2) = Passed(S, r) \cup {x}
                                          /\ Passed(S, r) \cap {x} = {}
  BY DEF Passed, Rests, Passes

LEMMA AccAddTurn ==
  ASSUME NEW g \in Files, off = g.offsets, rows = g.columns, NEW rd \in [Names -> Place],
         NEW wr \in [Names -> Place], Flow(g, rd, wr), AccAt(g, rd, wr), AccAdd
  PROVE  \E D, E : /\ IsMove(D, AccReads) /\ IsMove(E, AccWrites)
                   /\ Flow(g, Moved(rd, D), Moved(wr, E))'
                   /\ AccAt(g, Moved(rd, D), Moved(wr, E))'
<1>1. PICK x \in Int : rd["tc"] = <<x, 0>> /\ rd["tcEnd"] = <<x, 0>>
  BY DEF AccAt
<1>a. PICK a : a = acc.triangles
  OBVIOUS
<1>2. /\ Turn({"tcEnd", "tc"}, Nothing) /\ Head(q["tcEnd"]) # TRUE
      /\ q["tcEnd"] # << >> /\ q["tc"] # << >>
      /\ acc' = [pc |-> "end", triangles |-> a + Head(q["tc"])]
  <2>1. /\ Turn({"tcEnd", "tc"}, Nothing) /\ Head(q["tcEnd"]) # TRUE
        /\ q["tcEnd"] # << >> /\ q["tc"] # << >> /\ acc.pc = "end"
        /\ acc' = [acc EXCEPT !.triangles = @ + Head(q["tc"])]
    BY DEF AccAdd, Turn, More
  <2>2. acc = [pc |-> acc.pc, triangles |-> acc.triangles]
    BY DEF AccAt
  <2>. QED BY <1>a, <2>1, <2>2
<1>3. PICK p : IsNext(g, x, p) /\ p # N(g) + 1
  BY <1>1, <1>2, PairFlag DEF PairEnds
<1> DEFINE next == <<p + 1, 0>>
           D == [tc |-> next, tcEnd |-> next]
<1>4. /\ p \in Int /\ next \in Place /\ p \in Rows(g)
      /\ Passes(Flat(Kept(g)), <<x, 0>>, <<p, 0>>, next)
      /\ Passes(Slots(g)["tc"], rd["tc"], <<p, 0>>, next)
      /\ Passes(Slots(g)["tcEnd"], rd["tcEnd"], <<p, 0>>, next)
  BY <1>1, <1>3, PairSlots, SlotFacts
<1>5. Head(q["tc"]) = Common(g)[<<p, 0>>]
  <2>1. Head(q["tc"]) = Says(g)["tc"][<<p, 0>>]
    BY <1>2, <1>4, AccNames, SlotRead DEF AccReads
  <2>. QED BY <2>1, SaysFacts
<1>6. /\ DOMAIN D = AccReads /\ D["tc"] = next /\ D["tcEnd"] = next
  BY DEF AccReads
<1>. HIDE DEF D
<1>7. Takes(g, rd, D, {"tcEnd", "tc"})
  BY <1>4, <1>6 DEF Takes, AccReads
<1>8. /\ IsMove(D, AccReads) /\ IsMove(Nothing, AccWrites)
      /\ Flow(g, Moved(rd, D), Moved(wr, Nothing))'
  <2>1. /\ DOMAIN D \subseteq AccReads /\ DOMAIN Nothing \subseteq AccWrites
        /\ Puts(g, wr, Nothing, Nothing)
    BY <1>6, NoMove
  <2>. QED BY <1>2, <1>7, <2>1, AccNames, MoveFlow
<1>9. AccAt(g, Moved(rd, D), Moved(wr, Nothing))'
  <2>1. Moved(rd, D)["tc"] = next /\ Moved(rd, D)["tcEnd"] = next
    BY <1>6, AccNames DEF Moved, AccReads
  <2>2. a + Head(q["tc"]) = Cardinality(CornersOf(g, Passed(Flat(Kept(g)), next)))
    <3>1. /\ Passed(Flat(Kept(g)), next) = Passed(Flat(Kept(g)), <<x, 0>>) \cup {<<p, 0>>}
          /\ Passed(Flat(Kept(g)), <<x, 0>>) \cap {<<p, 0>>} = {}
      BY <1>4, PassedFacts
    <3>2. a = Cardinality(CornersOf(g, Passed(Flat(Kept(g)), <<x, 0>>)))
      BY <1>1, <1>a DEF AccAt
    <3>3. Head(q["tc"]) = Cardinality(CornersOf(g, {<<p, 0>>}))
      BY <1>4, <1>5, CornersOfOne
    <3>. QED BY <3>1, <3>2, <3>3, CornersApart
  <2>3. p + 1 \in Int /\ p + 1 <= N(g) + 1 /\ next = <<p + 1, 0>>
    BY <1>4, RowBound
  <2>. HIDE DEF next
  <2>. QED BY <1>2, <2>1, <2>2, <2>3 DEF AccAt
<1>. QED BY <1>8, <1>9

LEMMA AccEndTurn ==
  ASSUME NEW g \in Files, off = g.offsets, rows = g.columns, NEW rd \in [Names -> Place],
         NEW wr \in [Names -> Place], Flow(g, rd, wr), AccAt(g, rd, wr), AccEnd
  PROVE  \E D, E : /\ IsMove(D, AccReads) /\ IsMove(E, AccWrites)
                   /\ Flow(g, Moved(rd, D), Moved(wr, E))'
                   /\ AccAt(g, Moved(rd, D), Moved(wr, E))'
<1>1. PICK x \in Int : rd["tc"] = <<x, 0>> /\ rd["tcEnd"] = <<x, 0>>
  BY DEF AccAt
<1>a. PICK a : a = acc.triangles
  OBVIOUS
<1>2. /\ Turn({"tcEnd"}, Nothing) /\ Head(q["tcEnd"]) # FALSE
      /\ q["tcEnd"] # << >> /\ acc' = [pc |-> "done", triangles |-> a]
  <2>1. /\ Turn({"tcEnd"}, Nothing) /\ Head(q["tcEnd"]) # FALSE
        /\ q["tcEnd"] # << >> /\ acc' = [acc EXCEPT !.pc = "done"]
    BY DEF AccEnd, Ends
  <2>2. acc = [pc |-> acc.pc, triangles |-> acc.triangles]
    BY DEF AccAt
  <2>. QED BY <1>a, <2>1, <2>2
<1>3. PICK p : IsNext(g, x, p) /\ p = N(g) + 1
  BY <1>1, <1>2, PairFlag DEF PairEnds
<1> DEFINE next == <<p + 1, 0>>
           D == [tc |-> next, tcEnd |-> next]
<1>4. /\ p \in Int /\ next \in Place
      /\ Rests(Flat(Kept(g)), <<x, 0>>, next)
      /\ Rests(Slots(g)["tc"], rd["tc"], next)
      /\ Passes(Slots(g)["tcEnd"], rd["tcEnd"], <<p, 0>>, next)
  BY <1>1, <1>3, PairSlots, SlotFacts
<1>5. /\ DOMAIN D = AccReads /\ D["tc"] = next /\ D["tcEnd"] = next
  BY DEF AccReads
<1>. HIDE DEF D
<1>6. Takes(g, rd, D, {"tcEnd"})
  BY <1>4, <1>5 DEF Takes, AccReads
<1>7. /\ IsMove(D, AccReads) /\ IsMove(Nothing, AccWrites)
      /\ Flow(g, Moved(rd, D), Moved(wr, Nothing))'
  <2>1. /\ DOMAIN D \subseteq AccReads /\ DOMAIN Nothing \subseteq AccWrites
        /\ Puts(g, wr, Nothing, Nothing)
    BY <1>5, NoMove
  <2>. QED BY <1>2, <1>6, <2>1, AccNames, MoveFlow
<1>8. AccAt(g, Moved(rd, D), Moved(wr, Nothing))'
  <2>1. Moved(rd, D)["tc"] = next /\ Moved(rd, D)["tcEnd"] = next
    BY <1>5, AccNames DEF Moved, AccReads
  <2>2. a = Cardinality(CornersOf(g, Passed(Flat(Kept(g)), next)))
    <3>1. Passed(Flat(Kept(g)), next) = Passed(Flat(Kept(g)), <<x, 0>>)
      BY <1>4, PassedFacts
    <3>2. a = Cardinality(CornersOf(g, Passed(Flat(Kept(g)), <<x, 0>>)))
      BY <1>1, <1>a DEF AccAt
    <3>. QED BY <3>1, <3>2
  <2>3. p + 1 \in Int /\ p + 1 = N(g) + 2 /\ next = <<p + 1, 0>>
    BY <1>3, <1>4, SlotsArePlaces
  <2>. HIDE DEF next
  <2>. QED BY <1>2, <2>1, <2>2, <2>3 DEF AccAt
<1>. QED BY <1>7, <1>8

-----------------------------------------------------------------------------
(* A process stays where it is while the others move.                      *)
Same(places, other, S) == \A s \in S : other[s] = places[s]

LEMMA CoreStays ==
  ASSUME NEW g, NEW rd, NEW wr, NEW rd2, NEW wr2, CoreAt(g, rd, wr), UNCHANGED core,
         Same(rd, rd2, CoreReads), Same(wr, wr2, CoreWrites)
  PROVE  CoreAt(g, rd2, wr2)'
<1>1. /\ rd2["offset1"] = rd["offset1"] /\ rd2["offset1End"] = rd["offset1End"]
      /\ rd2["row1"] = rd["row1"] /\ rd2["row1End"] = rd["row1End"]
      /\ wr2["col1End"] = wr["col1End"] /\ wr2["copyNum"] = wr["copyNum"]
      /\ wr2["col1"] = wr["col1"] /\ wr2["col1BlockEnd"] = wr["col1BlockEnd"]
  BY DEF Same, CoreReads, CoreWrites
<1>. QED BY <1>1 DEF CoreAt

LEMMA CopyStays ==
  ASSUME NEW g, NEW rd, NEW wr, NEW rd2, NEW wr2, CopyAt(g, rd, wr), UNCHANGED copy,
         Same(rd, rd2, CopyReads), Same(wr, wr2, CopyWrites)
  PROVE  CopyAt(g, rd2, wr2)'
<1>1. /\ rd2["col1End"] = rd["col1End"] /\ rd2["copyNum"] = rd["copyNum"]
      /\ rd2["col1"] = rd["col1"] /\ rd2["col1BlockEnd"] = rd["col1BlockEnd"]
      /\ wr2["col1CopyEnd"] = wr["col1CopyEnd"] /\ \A s \in Copies : wr2[s] = wr[s]
  BY DEF Same, CopyReads, CopyWrites, Copies
<1>2. \A V, a, blockEnd : CopyTurns(g, V, a, blockEnd, wr) => CopyTurns(g, V, a, blockEnd, wr2)'
  BY <1>1 DEF CopyTurns
<1>. QED BY <1>1, <1>2 DEF CopyAt

LEMMA ReduceStays ==
  ASSUME NEW g, NEW rd, NEW wr, NEW rd2, NEW wr2, ReduceAt(g, rd, wr), UNCHANGED reduce,
         Same(rd, rd2, ReduceReads), Same(wr, wr2, ReduceWrites)
  PROVE  ReduceAt(g, rd2, wr2)'
  BY DEF ReduceAt, Same, ReduceReads, ReduceWrites

LEMMA PairsStays ==
  ASSUME NEW g, NEW rd, NEW wr, NEW rd2, NEW wr2, PairsAt(g, rd, wr), UNCHANGED pairs,
         Same(rd, rd2, PairsReads), Same(wr, wr2, PairsWrites)
  PROVE  PairsAt(g, rd2, wr2)'
  BY DEF PairsAt, Same, PairsReads, PairsWrites

LEMMA AddrStays ==
  ASSUME NEW g, NEW rd, NEW wr, NEW rd2, NEW wr2, AddrAt(g, rd, wr), UNCHANGED addr,
         Same(rd, rd2, AddrReads), Same(wr, wr2, AddrWrites)
  PROVE  AddrAt(g, rd2, wr2)'
  BY DEF AddrAt, Same, AddrReads, AddrWrites, Addresses, Distances

LEMMA LoadStays ==
  ASSUME NEW g, NEW rd, NEW wr, NEW rd2, NEW wr2, LoadAt(g, rd, wr), UNCHANGED load,
         Same(rd, rd2, LoadReads), Same(wr, wr2, LoadWrites)
  PROVE  LoadAt(g, rd2, wr2)'
  BY DEF LoadAt, Same, LoadReads, LoadWrites

LEMMA BlockStays ==
  ASSUME NEW g, NEW rd, NEW wr, NEW rd2, NEW wr2, BlockAt(g, rd, wr), UNCHANGED block,
         Same(rd, rd2, BlockReads), Same(wr, wr2, BlockWrites)
  PROVE  BlockAt(g, rd2, wr2)'
  BY DEF BlockAt, Same, BlockReads, BlockWrites

LEMMA MergeStays ==
  ASSUME NEW g, NEW rd, NEW wr, NEW rd2, NEW wr2, MergeAt(g, rd, wr), UNCHANGED merge,
         Same(rd, rd2, MergeReads), Same(wr, wr2, MergeWrites)
  PROVE  MergeAt(g, rd2, wr2)'
  BY DEF MergeAt, Same, MergeReads, MergeWrites, MergeTurns

LEMMA AccStays ==
  ASSUME NEW g, NEW rd, NEW wr, NEW rd2, NEW wr2, AccAt(g, rd, wr), UNCHANGED acc,
         Same(rd, rd2, AccReads), Same(wr, wr2, AccWrites)
  PROVE  AccAt(g, rd2, wr2)'
  BY DEF AccAt, Same, AccReads, AccWrites

(* The FIFOs that hold the input have been filled from the start.          *)
Filled(g, wr) == \A s \in Start : \A x \in Slots(g)[s] : Before(x, wr[s])

LEMMA FilledStays ==
  ASSUME NEW g, NEW wr, NEW wr2, NEW S, Filled(g, wr), Same(wr, wr2, Names \ S), S \cap Start = {}
  PROVE  Filled(g, wr2)
BY DEF Filled, Same, Names

(* Where all processes are.                                                *)
NetAt(g, rd, wr) ==
  /\ Flow(g, rd, wr)
  /\ Filled(g, wr)
  /\ CoreAt(g, rd, wr)
  /\ CopyAt(g, rd, wr)
  /\ ReduceAt(g, rd, wr)
  /\ PairsAt(g, rd, wr)
  /\ AddrAt(g, rd, wr)
  /\ LoadAt(g, rd, wr)
  /\ BlockAt(g, rd, wr)
  /\ MergeAt(g, rd, wr)
  /\ AccAt(g, rd, wr)

LEMMA CoreStepKeeps ==
  ASSUME NEW g \in Files, off = g.offsets, rows = g.columns, NEW rd \in [Names -> Place],
         NEW wr \in [Names -> Place], NetAt(g, rd, wr), CoreStep
  PROVE  \E rd2, wr2 \in [Names -> Place] : NetAt(g, rd2, wr2)'
<1>1. PICK D, E : /\ IsMove(D, CoreReads) /\ IsMove(E, CoreWrites)
                  /\ Flow(g, Moved(rd, D), Moved(wr, E))'
                  /\ CoreAt(g, Moved(rd, D), Moved(wr, E))'
  <2>0. Flow(g, rd, wr) /\ CoreAt(g, rd, wr)
    BY DEF NetAt
  <2>1. CASE CoreVertex
    BY <2>0, <2>1, CoreVertexTurn
  <2>2. CASE CoreRow
    BY <2>0, <2>2, CoreRowTurn
  <2>3. CASE CoreBlock
    BY <2>0, <2>3, CoreBlockTurn
  <2>4. CASE CoreEnd
    BY <2>0, <2>4, CoreEndTurn
  <2>. QED BY <2>1, <2>2, <2>3, <2>4 DEF CoreStep
<1>2. PICK rd2, wr2 : rd2 = Moved(rd, D) /\ wr2 = Moved(wr, E)
  OBVIOUS
<1>3. /\ rd2 \in [Names -> Place] /\ wr2 \in [Names -> Place]
      /\ Same(rd, rd2, Names \ CoreReads) /\ Same(wr, wr2, Names \ CoreWrites)
  BY <1>1, <1>2, CoreNames, MovedFacts DEF Same
<1>4. UNCHANGED <<copy, reduce, pairs, addr, load, block, merge, acc>>
  BY DEF CoreStep, CoreVertex, CoreRow, CoreBlock, CoreEnd
<1>5. /\ CopyReads \subseteq Names \ CoreReads /\ CopyWrites \subseteq Names \ CoreWrites
      /\ ReduceReads \subseteq Names \ CoreReads /\ ReduceWrites \subseteq Names \ CoreWrites
      /\ PairsReads \subseteq Names \ CoreReads /\ PairsWrites \subseteq Names \ CoreWrites
      /\ AddrReads \subseteq Names \ CoreReads /\ AddrWrites \subseteq Names \ CoreWrites
      /\ LoadReads \subseteq Names \ CoreReads /\ LoadWrites \subseteq Names \ CoreWrites
      /\ BlockReads \subseteq Names \ CoreReads /\ BlockWrites \subseteq Names \ CoreWrites
      /\ MergeReads \subseteq Names \ CoreReads /\ MergeWrites \subseteq Names \ CoreWrites
      /\ AccReads \subseteq Names \ CoreReads /\ AccWrites \subseteq Names \ CoreWrites
  BY DEF Names, Between, Start, CoreReads, CoreWrites, CopyReads, CopyWrites, ReduceReads, ReduceWrites,
         PairsReads, PairsWrites, AddrReads, AddrWrites, LoadReads, LoadWrites,
         BlockReads, BlockWrites, MergeReads, MergeWrites, AccReads, AccWrites
<1>6. /\ Same(rd, rd2, CopyReads) /\ Same(wr, wr2, CopyWrites)
      /\ Same(rd, rd2, ReduceReads) /\ Same(wr, wr2, ReduceWrites)
      /\ Same(rd, rd2, PairsReads) /\ Same(wr, wr2, PairsWrites)
      /\ Same(rd, rd2, AddrReads) /\ Same(wr, wr2, AddrWrites)
      /\ Same(rd, rd2, LoadReads) /\ Same(wr, wr2, LoadWrites)
      /\ Same(rd, rd2, BlockReads) /\ Same(wr, wr2, BlockWrites)
      /\ Same(rd, rd2, MergeReads) /\ Same(wr, wr2, MergeWrites)
      /\ Same(rd, rd2, AccReads) /\ Same(wr, wr2, AccWrites)
  BY <1>3, <1>5 DEF Same
<1>7. CopyAt(g, rd2, wr2)' /\ ReduceAt(g, rd2, wr2)' /\ PairsAt(g, rd2, wr2)' /\ AddrAt(g, rd2, wr2)'
  BY <1>4, <1>6, CopyStays, ReduceStays, PairsStays, AddrStays DEF NetAt
<1>8. LoadAt(g, rd2, wr2)' /\ BlockAt(g, rd2, wr2)' /\ MergeAt(g, rd2, wr2)' /\ AccAt(g, rd2, wr2)'
  BY <1>4, <1>6, LoadStays, BlockStays, MergeStays, AccStays DEF NetAt
<1>9. Flow(g, rd2, wr2)' /\ CoreAt(g, rd2, wr2)'
  BY <1>1, <1>2
<1>10. Filled(g, wr2)
  <2>1. CoreWrites \cap Start = {}
    BY DEF CoreWrites, Start
  <2>. QED BY <1>3, <2>1, FilledStays DEF NetAt
<1>. QED BY <1>3, <1>7, <1>8, <1>9, <1>10 DEF NetAt

LEMMA CopyStepKeeps ==
  ASSUME NEW g \in Files, off = g.offsets, rows = g.columns, NEW rd \in [Names -> Place],
         NEW wr \in [Names -> Place], NetAt(g, rd, wr), CopyStep
  PROVE  \E rd2, wr2 \in [Names -> Place] : NetAt(g, rd2, wr2)'
<1>1. PICK D, E : /\ IsMove(D, CopyReads) /\ IsMove(E, CopyWrites)
                  /\ Flow(g, Moved(rd, D), Moved(wr, E))'
                  /\ CopyAt(g, Moved(rd, D), Moved(wr, E))'
  <2>0. Flow(g, rd, wr) /\ CopyAt(g, rd, wr)
    BY DEF NetAt
  <2>1. CASE CopyVertex
    BY <2>0, <2>1, CopyVertexTurn
  <2>2. CASE CopyStart
    BY <2>0, <2>2, CopyStartTurn
  <2>3. CASE CopyFirst
    BY <2>0, <2>3, CopyFirstTurn
  <2>4. CASE CopyAgain
    BY <2>0, <2>4, CopyAgainTurn
  <2>5. CASE CopyBlock
    BY <2>0, <2>5, CopyBlockTurn
  <2>6. CASE CopyEnd
    BY <2>0, <2>6, CopyEndTurn
  <2>. QED BY <2>1, <2>2, <2>3, <2>4, <2>5, <2>6 DEF CopyStep
<1>2. PICK rd2, wr2 : rd2 = Moved(rd, D) /\ wr2 = Moved(wr, E)
  OBVIOUS
<1>3. /\ rd2 \in [Names -> Place] /\ wr2 \in [Names -> Place]
      /\ Same(rd, rd2, Names \ CopyReads) /\ Same(wr, wr2, Names \ CopyWrites)
  BY <1>1, <1>2, CopyNames, MovedFacts DEF Same
<1>4. UNCHANGED <<core, reduce, pairs, addr, load, block, merge, acc>>
  BY DEF CopyStep, CopyVertex, CopyStart, CopyFirst, CopyAgain, CopyBlock, CopyEnd
<1>5. /\ CoreReads \subseteq Names \ CopyReads /\ CoreWrites \subseteq Names \ CopyWrites
      /\ ReduceReads \subseteq Names \ CopyReads /\ ReduceWrites \subseteq Names \ CopyWrites
      /\ PairsReads \subseteq Names \ CopyReads /\ PairsWrites \subseteq Names \ CopyWrites
      /\ AddrReads \subseteq Names \ CopyReads /\ AddrWrites \subseteq Names \ CopyWrites
      /\ LoadReads \subseteq Names \ CopyReads /\ LoadWrites \subseteq Names \ CopyWrites
      /\ BlockReads \subseteq Names \ CopyReads /\ BlockWrites \subseteq Names \ CopyWrites
      /\ MergeReads \subseteq Names \ CopyReads /\ MergeWrites \subseteq Names \ CopyWrites
      /\ AccReads \subseteq Names \ CopyReads /\ AccWrites \subseteq Names \ CopyWrites
  BY DEF Names, Between, Start, CoreReads, CoreWrites, CopyReads, CopyWrites, ReduceReads, ReduceWrites,
         PairsReads, PairsWrites, AddrReads, AddrWrites, LoadReads, LoadWrites,
         BlockReads, BlockWrites, MergeReads, MergeWrites, AccReads, AccWrites
<1>6. /\ Same(rd, rd2, CoreReads) /\ Same(wr, wr2, CoreWrites)
      /\ Same(rd, rd2, ReduceReads) /\ Same(wr, wr2, ReduceWrites)
      /\ Same(rd, rd2, PairsReads) /\ Same(wr, wr2, PairsWrites)
      /\ Same(rd, rd2, AddrReads) /\ Same(wr, wr2, AddrWrites)
      /\ Same(rd, rd2, LoadReads) /\ Same(wr, wr2, LoadWrites)
      /\ Same(rd, rd2, BlockReads) /\ Same(wr, wr2, BlockWrites)
      /\ Same(rd, rd2, MergeReads) /\ Same(wr, wr2, MergeWrites)
      /\ Same(rd, rd2, AccReads) /\ Same(wr, wr2, AccWrites)
  BY <1>3, <1>5 DEF Same
<1>7. CoreAt(g, rd2, wr2)' /\ ReduceAt(g, rd2, wr2)' /\ PairsAt(g, rd2, wr2)' /\ AddrAt(g, rd2, wr2)'
  BY <1>4, <1>6, CoreStays, ReduceStays, PairsStays, AddrStays DEF NetAt
<1>8. LoadAt(g, rd2, wr2)' /\ BlockAt(g, rd2, wr2)' /\ MergeAt(g, rd2, wr2)' /\ AccAt(g, rd2, wr2)'
  BY <1>4, <1>6, LoadStays, BlockStays, MergeStays, AccStays DEF NetAt
<1>9. Flow(g, rd2, wr2)' /\ CopyAt(g, rd2, wr2)'
  BY <1>1, <1>2
<1>10. Filled(g, wr2)
  <2>1. CopyWrites \cap Start = {}
    BY DEF CopyWrites, Start
  <2>. QED BY <1>3, <2>1, FilledStays DEF NetAt
<1>. QED BY <1>3, <1>7, <1>8, <1>9, <1>10 DEF NetAt

LEMMA ReduceStepKeeps ==
  ASSUME NEW g \in Files, off = g.offsets, rows = g.columns, NEW rd \in [Names -> Place],
         NEW wr \in [Names -> Place], NetAt(g, rd, wr), ReduceStep
  PROVE  \E rd2, wr2 \in [Names -> Place] : NetAt(g, rd2, wr2)'
<1>1. PICK D, E : /\ IsMove(D, ReduceReads) /\ IsMove(E, ReduceWrites)
                  /\ Flow(g, Moved(rd, D), Moved(wr, E))'
                  /\ ReduceAt(g, Moved(rd, D), Moved(wr, E))'
  <2>0. Flow(g, rd, wr) /\ ReduceAt(g, rd, wr)
    BY DEF NetAt
  <2>1. CASE ReduceVertex
    BY <2>0, <2>1, ReduceVertexTurn
  <2>2. CASE ReduceRow
    BY <2>0, <2>2, ReduceRowTurn
  <2>3. CASE ReduceEnd
    BY <2>0, <2>3, ReduceEndTurn
  <2>. QED BY <2>1, <2>2, <2>3 DEF ReduceStep
<1>2. PICK rd2, wr2 : rd2 = Moved(rd, D) /\ wr2 = Moved(wr, E)
  OBVIOUS
<1>3. /\ rd2 \in [Names -> Place] /\ wr2 \in [Names -> Place]
      /\ Same(rd, rd2, Names \ ReduceReads) /\ Same(wr, wr2, Names \ ReduceWrites)
  BY <1>1, <1>2, ReduceNames, MovedFacts DEF Same
<1>4. UNCHANGED <<core, copy, pairs, addr, load, block, merge, acc>>
  BY DEF ReduceStep, ReduceVertex, ReduceRow, ReduceEnd
<1>5. /\ CoreReads \subseteq Names \ ReduceReads /\ CoreWrites \subseteq Names \ ReduceWrites
      /\ CopyReads \subseteq Names \ ReduceReads /\ CopyWrites \subseteq Names \ ReduceWrites
      /\ PairsReads \subseteq Names \ ReduceReads /\ PairsWrites \subseteq Names \ ReduceWrites
      /\ AddrReads \subseteq Names \ ReduceReads /\ AddrWrites \subseteq Names \ ReduceWrites
      /\ LoadReads \subseteq Names \ ReduceReads /\ LoadWrites \subseteq Names \ ReduceWrites
      /\ BlockReads \subseteq Names \ ReduceReads /\ BlockWrites \subseteq Names \ ReduceWrites
      /\ MergeReads \subseteq Names \ ReduceReads /\ MergeWrites \subseteq Names \ ReduceWrites
      /\ AccReads \subseteq Names \ ReduceReads /\ AccWrites \subseteq Names \ ReduceWrites
  BY DEF Names, Between, Start, CoreReads, CoreWrites, CopyReads, CopyWrites, ReduceReads, ReduceWrites,
         PairsReads, PairsWrites, AddrReads, AddrWrites, LoadReads, LoadWrites,
         BlockReads, BlockWrites, MergeReads, MergeWrites, AccReads, AccWrites
<1>6. /\ Same(rd, rd2, CoreReads) /\ Same(wr, wr2, CoreWrites)
      /\ Same(rd, rd2, CopyReads) /\ Same(wr, wr2, CopyWrites)
      /\ Same(rd, rd2, PairsReads) /\ Same(wr, wr2, PairsWrites)
      /\ Same(rd, rd2, AddrReads) /\ Same(wr, wr2, AddrWrites)
      /\ Same(rd, rd2, LoadReads) /\ Same(wr, wr2, LoadWrites)
      /\ Same(rd, rd2, BlockReads) /\ Same(wr, wr2, BlockWrites)
      /\ Same(rd, rd2, MergeReads) /\ Same(wr, wr2, MergeWrites)
      /\ Same(rd, rd2, AccReads) /\ Same(wr, wr2, AccWrites)
  BY <1>3, <1>5 DEF Same
<1>7. CoreAt(g, rd2, wr2)' /\ CopyAt(g, rd2, wr2)' /\ PairsAt(g, rd2, wr2)' /\ AddrAt(g, rd2, wr2)'
  BY <1>4, <1>6, CoreStays, CopyStays, PairsStays, AddrStays DEF NetAt
<1>8. LoadAt(g, rd2, wr2)' /\ BlockAt(g, rd2, wr2)' /\ MergeAt(g, rd2, wr2)' /\ AccAt(g, rd2, wr2)'
  BY <1>4, <1>6, LoadStays, BlockStays, MergeStays, AccStays DEF NetAt
<1>9. Flow(g, rd2, wr2)' /\ ReduceAt(g, rd2, wr2)'
  BY <1>1, <1>2
<1>10. Filled(g, wr2)
  <2>1. ReduceWrites \cap Start = {}
    BY DEF ReduceWrites, Start
  <2>. QED BY <1>3, <2>1, FilledStays DEF NetAt
<1>. QED BY <1>3, <1>7, <1>8, <1>9, <1>10 DEF NetAt

LEMMA PairsStepKeeps ==
  ASSUME NEW g \in Files, off = g.offsets, rows = g.columns, NEW rd \in [Names -> Place],
         NEW wr \in [Names -> Place], NetAt(g, rd, wr), LastWordHeld, PairsStep
  PROVE  \E rd2, wr2 \in [Names -> Place] : NetAt(g, rd2, wr2)'
<1>1. PICK D, E : /\ IsMove(D, PairsReads) /\ IsMove(E, PairsWrites)
                  /\ Flow(g, Moved(rd, D), Moved(wr, E))'
                  /\ PairsAt(g, Moved(rd, D), Moved(wr, E))'
  <2>0. Flow(g, rd, wr) /\ PairsAt(g, rd, wr)
    BY DEF NetAt
  <2>1. CASE PairsRow
    BY <2>0, <2>1, PairsRowTurn
  <2>2. CASE PairsEnd
    BY <2>0, <2>2, PairsEndTurn
  <2>. QED BY <2>1, <2>2 DEF PairsStep
<1>2. PICK rd2, wr2 : rd2 = Moved(rd, D) /\ wr2 = Moved(wr, E)
  OBVIOUS
<1>3. /\ rd2 \in [Names -> Place] /\ wr2 \in [Names -> Place]
      /\ Same(rd, rd2, Names \ PairsReads) /\ Same(wr, wr2, Names \ PairsWrites)
  BY <1>1, <1>2, PairsNames, MovedFacts DEF Same
<1>4. UNCHANGED <<core, copy, reduce, addr, load, block, merge, acc>>
  BY DEF PairsStep, PairsRow, PairsEnd
<1>5. /\ CoreReads \subseteq Names \ PairsReads /\ CoreWrites \subseteq Names \ PairsWrites
      /\ CopyReads \subseteq Names \ PairsReads /\ CopyWrites \subseteq Names \ PairsWrites
      /\ ReduceReads \subseteq Names \ PairsReads /\ ReduceWrites \subseteq Names \ PairsWrites
      /\ AddrReads \subseteq Names \ PairsReads /\ AddrWrites \subseteq Names \ PairsWrites
      /\ LoadReads \subseteq Names \ PairsReads /\ LoadWrites \subseteq Names \ PairsWrites
      /\ BlockReads \subseteq Names \ PairsReads /\ BlockWrites \subseteq Names \ PairsWrites
      /\ MergeReads \subseteq Names \ PairsReads /\ MergeWrites \subseteq Names \ PairsWrites
      /\ AccReads \subseteq Names \ PairsReads /\ AccWrites \subseteq Names \ PairsWrites
  BY DEF Names, Between, Start, CoreReads, CoreWrites, CopyReads, CopyWrites, ReduceReads, ReduceWrites,
         PairsReads, PairsWrites, AddrReads, AddrWrites, LoadReads, LoadWrites,
         BlockReads, BlockWrites, MergeReads, MergeWrites, AccReads, AccWrites
<1>6. /\ Same(rd, rd2, CoreReads) /\ Same(wr, wr2, CoreWrites)
      /\ Same(rd, rd2, CopyReads) /\ Same(wr, wr2, CopyWrites)
      /\ Same(rd, rd2, ReduceReads) /\ Same(wr, wr2, ReduceWrites)
      /\ Same(rd, rd2, AddrReads) /\ Same(wr, wr2, AddrWrites)
      /\ Same(rd, rd2, LoadReads) /\ Same(wr, wr2, LoadWrites)
      /\ Same(rd, rd2, BlockReads) /\ Same(wr, wr2, BlockWrites)
      /\ Same(rd, rd2, MergeReads) /\ Same(wr, wr2, MergeWrites)
      /\ Same(rd, rd2, AccReads) /\ Same(wr, wr2, AccWrites)
  BY <1>3, <1>5 DEF Same
<1>7. CoreAt(g, rd2, wr2)' /\ CopyAt(g, rd2, wr2)' /\ ReduceAt(g, rd2, wr2)' /\ AddrAt(g, rd2, wr2)'
  BY <1>4, <1>6, CoreStays, CopyStays, ReduceStays, AddrStays DEF NetAt
<1>8. LoadAt(g, rd2, wr2)' /\ BlockAt(g, rd2, wr2)' /\ MergeAt(g, rd2, wr2)' /\ AccAt(g, rd2, wr2)'
  BY <1>4, <1>6, LoadStays, BlockStays, MergeStays, AccStays DEF NetAt
<1>9. Flow(g, rd2, wr2)' /\ PairsAt(g, rd2, wr2)'
  BY <1>1, <1>2
<1>10. Filled(g, wr2)
  <2>1. PairsWrites \cap Start = {}
    BY DEF PairsWrites, Start
  <2>. QED BY <1>3, <2>1, FilledStays DEF NetAt
<1>. QED BY <1>3, <1>7, <1>8, <1>9, <1>10 DEF NetAt

LEMMA AddrStepKeeps ==
  ASSUME NEW g \in Files, off = g.offsets, rows = g.columns, NEW rd \in [Names -> Place],
         NEW wr \in [Names -> Place], NetAt(g, rd, wr), AddrStep
  PROVE  \E rd2, wr2 \in [Names -> Place] : NetAt(g, rd2, wr2)'
<1>1. PICK D, E : /\ IsMove(D, AddrReads) /\ IsMove(E, AddrWrites)
                  /\ Flow(g, Moved(rd, D), Moved(wr, E))'
                  /\ AddrAt(g, Moved(rd, D), Moved(wr, E))'
  <2>0. Flow(g, rd, wr) /\ AddrAt(g, rd, wr)
    BY DEF NetAt
  <2>1. CASE AddrPair
    BY <2>0, <2>1, AddrPairTurn
  <2>2. CASE AddrRow
    BY <2>0, <2>2, AddrRowTurn
  <2>3. CASE AddrEnd
    BY <2>0, <2>3, AddrEndTurn
  <2>. QED BY <2>1, <2>2, <2>3 DEF AddrStep
<1>2. PICK rd2, wr2 : rd2 = Moved(rd, D) /\ wr2 = Moved(wr, E)
  OBVIOUS
<1>3. /\ rd2 \in [Names -> Place] /\ wr2 \in [Names -> Place]
      /\ Same(rd, rd2, Names \ AddrReads) /\ Same(wr, wr2, Names \ AddrWrites)
  BY <1>1, <1>2, AddrNames, MovedFacts DEF Same
<1>4. UNCHANGED <<core, copy, reduce, pairs, load, block, merge, acc>>
  BY DEF AddrStep, AddrPair, AddrRow, AddrEnd
<1>5. /\ CoreReads \subseteq Names \ AddrReads /\ CoreWrites \subseteq Names \ AddrWrites
      /\ CopyReads \subseteq Names \ AddrReads /\ CopyWrites \subseteq Names \ AddrWrites
      /\ ReduceReads \subseteq Names \ AddrReads /\ ReduceWrites \subseteq Names \ AddrWrites
      /\ PairsReads \subseteq Names \ AddrReads /\ PairsWrites \subseteq Names \ AddrWrites
      /\ LoadReads \subseteq Names \ AddrReads /\ LoadWrites \subseteq Names \ AddrWrites
      /\ BlockReads \subseteq Names \ AddrReads /\ BlockWrites \subseteq Names \ AddrWrites
      /\ MergeReads \subseteq Names \ AddrReads /\ MergeWrites \subseteq Names \ AddrWrites
      /\ AccReads \subseteq Names \ AddrReads /\ AccWrites \subseteq Names \ AddrWrites
  BY DEF Names, Between, Start, CoreReads, CoreWrites, CopyReads, CopyWrites, ReduceReads, ReduceWrites,
         PairsReads, PairsWrites, AddrReads, AddrWrites, LoadReads, LoadWrites,
         BlockReads, BlockWrites, MergeReads, MergeWrites, AccReads, AccWrites
<1>6. /\ Same(rd, rd2, CoreReads) /\ Same(wr, wr2, CoreWrites)
      /\ Same(rd, rd2, CopyReads) /\ Same(wr, wr2, CopyWrites)
      /\ Same(rd, rd2, ReduceReads) /\ Same(wr, wr2, ReduceWrites)
      /\ Same(rd, rd2, PairsReads) /\ Same(wr, wr2, PairsWrites)
      /\ Same(rd, rd2, LoadReads) /\ Same(wr, wr2, LoadWrites)
      /\ Same(rd, rd2, BlockReads) /\ Same(wr, wr2, BlockWrites)
      /\ Same(rd, rd2, MergeReads) /\ Same(wr, wr2, MergeWrites)
      /\ Same(rd, rd2, AccReads) /\ Same(wr, wr2, AccWrites)
  BY <1>3, <1>5 DEF Same
<1>7. CoreAt(g, rd2, wr2)' /\ CopyAt(g, rd2, wr2)' /\ ReduceAt(g, rd2, wr2)' /\ PairsAt(g, rd2, wr2)'
  BY <1>4, <1>6, CoreStays, CopyStays, ReduceStays, PairsStays DEF NetAt
<1>8. LoadAt(g, rd2, wr2)' /\ BlockAt(g, rd2, wr2)' /\ MergeAt(g, rd2, wr2)' /\ AccAt(g, rd2, wr2)'
  BY <1>4, <1>6, LoadStays, BlockStays, MergeStays, AccStays DEF NetAt
<1>9. Flow(g, rd2, wr2)' /\ AddrAt(g, rd2, wr2)'
  BY <1>1, <1>2
<1>10. Filled(g, wr2)
  <2>1. AddrWrites \cap Start = {}
    BY DEF AddrWrites, Start
  <2>. QED BY <1>3, <2>1, FilledStays DEF NetAt
<1>. QED BY <1>3, <1>7, <1>8, <1>9, <1>10 DEF NetAt

LEMMA LoadStepKeeps ==
  ASSUME NEW g \in Files, off = g.offsets, rows = g.columns, NEW rd \in [Names -> Place],
         NEW wr \in [Names -> Place], NetAt(g, rd, wr), LoadStep
  PROVE  \E rd2, wr2 \in [Names -> Place] : NetAt(g, rd2, wr2)'
<1>1. PICK D, E : /\ IsMove(D, LoadReads) /\ IsMove(E, LoadWrites)
                  /\ Flow(g, Moved(rd, D), Moved(wr, E))'
                  /\ LoadAt(g, Moved(rd, D), Moved(wr, E))'
  <2>0. Flow(g, rd, wr) /\ LoadAt(g, rd, wr)
    BY DEF NetAt
  <2>1. CASE LoadFirst
    BY <2>0, <2>1, LoadFirstTurn
  <2>2. CASE LoadTurn
    BY <2>0, <2>2, LoadTurnTurn
  <2>. QED BY <2>1, <2>2 DEF LoadStep
<1>2. PICK rd2, wr2 : rd2 = Moved(rd, D) /\ wr2 = Moved(wr, E)
  OBVIOUS
<1>3. /\ rd2 \in [Names -> Place] /\ wr2 \in [Names -> Place]
      /\ Same(rd, rd2, Names \ LoadReads) /\ Same(wr, wr2, Names \ LoadWrites)
  BY <1>1, <1>2, LoadNames, MovedFacts DEF Same
<1>4. UNCHANGED <<core, copy, reduce, pairs, addr, block, merge, acc>>
  BY DEF LoadStep, LoadFirst, LoadTurn
<1>5. /\ CoreReads \subseteq Names \ LoadReads /\ CoreWrites \subseteq Names \ LoadWrites
      /\ CopyReads \subseteq Names \ LoadReads /\ CopyWrites \subseteq Names \ LoadWrites
      /\ ReduceReads \subseteq Names \ LoadReads /\ ReduceWrites \subseteq Names \ LoadWrites
      /\ PairsReads \subseteq Names \ LoadReads /\ PairsWrites \subseteq Names \ LoadWrites
      /\ AddrReads \subseteq Names \ LoadReads /\ AddrWrites \subseteq Names \ LoadWrites
      /\ BlockReads \subseteq Names \ LoadReads /\ BlockWrites \subseteq Names \ LoadWrites
      /\ MergeReads \subseteq Names \ LoadReads /\ MergeWrites \subseteq Names \ LoadWrites
      /\ AccReads \subseteq Names \ LoadReads /\ AccWrites \subseteq Names \ LoadWrites
  BY DEF Names, Between, Start, CoreReads, CoreWrites, CopyReads, CopyWrites, ReduceReads, ReduceWrites,
         PairsReads, PairsWrites, AddrReads, AddrWrites, LoadReads, LoadWrites,
         BlockReads, BlockWrites, MergeReads, MergeWrites, AccReads, AccWrites
<1>6. /\ Same(rd, rd2, CoreReads) /\ Same(wr, wr2, CoreWrites)
      /\ Same(rd, rd2, CopyReads) /\ Same(wr, wr2, CopyWrites)
      /\ Same(rd, rd2, ReduceReads) /\ Same(wr, wr2, ReduceWrites)
      /\ Same(rd, rd2, PairsReads) /\ Same(wr, wr2, PairsWrites)
      /\ Same(rd, rd2, AddrReads) /\ Same(wr, wr2, AddrWrites)
      /\ Same(rd, rd2, BlockReads) /\ Same(wr, wr2, BlockWrites)
      /\ Same(rd, rd2, MergeReads) /\ Same(wr, wr2, MergeWrites)
      /\ Same(rd, rd2, AccReads) /\ Same(wr, wr2, AccWrites)
  BY <1>3, <1>5 DEF Same
<1>7. CoreAt(g, rd2, wr2)' /\ CopyAt(g, rd2, wr2)' /\ ReduceAt(g, rd2, wr2)' /\ PairsAt(g, rd2, wr2)'
  BY <1>4, <1>6, CoreStays, CopyStays, ReduceStays, PairsStays DEF NetAt
<1>8. AddrAt(g, rd2, wr2)' /\ BlockAt(g, rd2, wr2)' /\ MergeAt(g, rd2, wr2)' /\ AccAt(g, rd2, wr2)'
  BY <1>4, <1>6, AddrStays, BlockStays, MergeStays, AccStays DEF NetAt
<1>9. Flow(g, rd2, wr2)' /\ LoadAt(g, rd2, wr2)'
  BY <1>1, <1>2
<1>10. Filled(g, wr2)
  <2>1. LoadWrites \cap Start = {}
    BY DEF LoadWrites, Start
  <2>. QED BY <1>3, <2>1, FilledStays DEF NetAt
<1>. QED BY <1>3, <1>7, <1>8, <1>9, <1>10 DEF NetAt

LEMMA BlockStepKeeps ==
  ASSUME NEW g \in Files, off = g.offsets, rows = g.columns, NEW rd \in [Names -> Place],
         NEW wr \in [Names -> Place], NetAt(g, rd, wr), BlockStep
  PROVE  \E rd2, wr2 \in [Names -> Place] : NetAt(g, rd2, wr2)'
<1>1. PICK D, E : /\ IsMove(D, BlockReads) /\ IsMove(E, BlockWrites)
                  /\ Flow(g, Moved(rd, D), Moved(wr, E))'
                  /\ BlockAt(g, Moved(rd, D), Moved(wr, E))'
  <2>0. Flow(g, rd, wr) /\ BlockAt(g, rd, wr)
    BY DEF NetAt
  <2>1. CASE BlockPair
    BY <2>0, <2>1, BlockPairTurn
  <2>2. CASE BlockRow
    BY <2>0, <2>2, BlockRowTurn
  <2>3. CASE BlockLast
    BY <2>0, <2>3, BlockLastTurn
  <2>4. CASE BlockEnd
    BY <2>0, <2>4, BlockEndTurn
  <2>. QED BY <2>1, <2>2, <2>3, <2>4 DEF BlockStep
<1>2. PICK rd2, wr2 : rd2 = Moved(rd, D) /\ wr2 = Moved(wr, E)
  OBVIOUS
<1>3. /\ rd2 \in [Names -> Place] /\ wr2 \in [Names -> Place]
      /\ Same(rd, rd2, Names \ BlockReads) /\ Same(wr, wr2, Names \ BlockWrites)
  BY <1>1, <1>2, BlockNames, MovedFacts DEF Same
<1>4. UNCHANGED <<core, copy, reduce, pairs, addr, load, merge, acc>>
  BY DEF BlockStep, BlockPair, BlockRow, BlockLast, BlockEnd
<1>5. /\ CoreReads \subseteq Names \ BlockReads /\ CoreWrites \subseteq Names \ BlockWrites
      /\ CopyReads \subseteq Names \ BlockReads /\ CopyWrites \subseteq Names \ BlockWrites
      /\ ReduceReads \subseteq Names \ BlockReads /\ ReduceWrites \subseteq Names \ BlockWrites
      /\ PairsReads \subseteq Names \ BlockReads /\ PairsWrites \subseteq Names \ BlockWrites
      /\ AddrReads \subseteq Names \ BlockReads /\ AddrWrites \subseteq Names \ BlockWrites
      /\ LoadReads \subseteq Names \ BlockReads /\ LoadWrites \subseteq Names \ BlockWrites
      /\ MergeReads \subseteq Names \ BlockReads /\ MergeWrites \subseteq Names \ BlockWrites
      /\ AccReads \subseteq Names \ BlockReads /\ AccWrites \subseteq Names \ BlockWrites
  BY DEF Names, Between, Start, CoreReads, CoreWrites, CopyReads, CopyWrites, ReduceReads, ReduceWrites,
         PairsReads, PairsWrites, AddrReads, AddrWrites, LoadReads, LoadWrites,
         BlockReads, BlockWrites, MergeReads, MergeWrites, AccReads, AccWrites
<1>6. /\ Same(rd, rd2, CoreReads) /\ Same(wr, wr2, CoreWrites)
      /\ Same(rd, rd2, CopyReads) /\ Same(wr, wr2, CopyWrites)
      /\ Same(rd, rd2, ReduceReads) /\ Same(wr, wr2, ReduceWrites)
      /\ Same(rd, rd2, PairsReads) /\ Same(wr, wr2, PairsWrites)
      /\ Same(rd, rd2, AddrReads) /\ Same(wr, wr2, AddrWrites)
      /\ Same(rd, rd2, LoadReads) /\ Same(wr, wr2, LoadWrites)
      /\ Same(rd, rd2, MergeReads) /\ Same(wr, wr2, MergeWrites)
      /\ Same(rd, rd2, AccReads) /\ Same(wr, wr2, AccWrites)
  BY <1>3, <1>5 DEF Same
<1>7. CoreAt(g, rd2, wr2)' /\ CopyAt(g, rd2, wr2)' /\ ReduceAt(g, rd2, wr2)' /\ PairsAt(g, rd2, wr2)'
  BY <1>4, <1>6, CoreStays, CopyStays, ReduceStays, PairsStays DEF NetAt
<1>8. AddrAt(g, rd2, wr2)' /\ LoadAt(g, rd2, wr2)' /\ MergeAt(g, rd2, wr2)' /\ AccAt(g, rd2, wr2)'
  BY <1>4, <1>6, AddrStays, LoadStays, MergeStays, AccStays DEF NetAt
<1>9. Flow(g, rd2, wr2)' /\ BlockAt(g, rd2, wr2)'
  BY <1>1, <1>2
<1>10. Filled(g, wr2)
  <2>1. BlockWrites \cap Start = {}
    BY DEF BlockWrites, Start
  <2>. QED BY <1>3, <2>1, FilledStays DEF NetAt
<1>. QED BY <1>3, <1>7, <1>8, <1>9, <1>10 DEF NetAt

LEMMA MergeStepKeeps ==
  ASSUME NEW g \in Files, off = g.offsets, rows = g.columns, NEW rd \in [Names -> Place],
         NEW wr \in [Names -> Place], NetAt(g, rd, wr), MergeStep
  PROVE  \E rd2, wr2 \in [Names -> Place] : NetAt(g, rd2, wr2)'
<1>1. PICK D, E : /\ IsMove(D, MergeReads) /\ IsMove(E, MergeWrites)
                  /\ Flow(g, Moved(rd, D), Moved(wr, E))'
                  /\ MergeAt(g, Moved(rd, D), Moved(wr, E))'
  <2>0. Flow(g, rd, wr) /\ MergeAt(g, rd, wr)
    BY DEF NetAt
  <2>1. CASE MergePair
    BY <2>0, <2>1, MergePairTurn
  <2>2. CASE MergeTurn
    BY <2>0, <2>2, MergeTurnTurn
  <2>3. CASE MergeLast
    BY <2>0, <2>3, MergeLastTurn
  <2>4. CASE MergeEnd
    BY <2>0, <2>4, MergeEndTurn
  <2>. QED BY <2>1, <2>2, <2>3, <2>4 DEF MergeStep
<1>2. PICK rd2, wr2 : rd2 = Moved(rd, D) /\ wr2 = Moved(wr, E)
  OBVIOUS
<1>3. /\ rd2 \in [Names -> Place] /\ wr2 \in [Names -> Place]
      /\ Same(rd, rd2, Names \ MergeReads) /\ Same(wr, wr2, Names \ MergeWrites)
  BY <1>1, <1>2, MergeNames, MovedFacts DEF Same
<1>4. UNCHANGED <<core, copy, reduce, pairs, addr, load, block, acc>>
  BY DEF MergeStep, MergePair, MergeTurn, MergeLast, MergeEnd
<1>5. /\ CoreReads \subseteq Names \ MergeReads /\ CoreWrites \subseteq Names \ MergeWrites
      /\ CopyReads \subseteq Names \ MergeReads /\ CopyWrites \subseteq Names \ MergeWrites
      /\ ReduceReads \subseteq Names \ MergeReads /\ ReduceWrites \subseteq Names \ MergeWrites
      /\ PairsReads \subseteq Names \ MergeReads /\ PairsWrites \subseteq Names \ MergeWrites
      /\ AddrReads \subseteq Names \ MergeReads /\ AddrWrites \subseteq Names \ MergeWrites
      /\ LoadReads \subseteq Names \ MergeReads /\ LoadWrites \subseteq Names \ MergeWrites
      /\ BlockReads \subseteq Names \ MergeReads /\ BlockWrites \subseteq Names \ MergeWrites
      /\ AccReads \subseteq Names \ MergeReads /\ AccWrites \subseteq Names \ MergeWrites
  BY DEF Names, Between, Start, CoreReads, CoreWrites, CopyReads, CopyWrites, ReduceReads, ReduceWrites,
         PairsReads, PairsWrites, AddrReads, AddrWrites, LoadReads, LoadWrites,
         BlockReads, BlockWrites, MergeReads, MergeWrites, AccReads, AccWrites
<1>6. /\ Same(rd, rd2, CoreReads) /\ Same(wr, wr2, CoreWrites)
      /\ Same(rd, rd2, CopyReads) /\ Same(wr, wr2, CopyWrites)
      /\ Same(rd, rd2, ReduceReads) /\ Same(wr, wr2, ReduceWrites)
      /\ Same(rd, rd2, PairsReads) /\ Same(wr, wr2, PairsWrites)
      /\ Same(rd, rd2, AddrReads) /\ Same(wr, wr2, AddrWrites)
      /\ Same(rd, rd2, LoadReads) /\ Same(wr, wr2, LoadWrites)
      /\ Same(rd, rd2, BlockReads) /\ Same(wr, wr2, BlockWrites)
      /\ Same(rd, rd2, AccReads) /\ Same(wr, wr2, AccWrites)
  BY <1>3, <1>5 DEF Same
<1>7. CoreAt(g, rd2, wr2)' /\ CopyAt(g, rd2, wr2)' /\ ReduceAt(g, rd2, wr2)' /\ PairsAt(g, rd2, wr2)'
  BY <1>4, <1>6, CoreStays, CopyStays, ReduceStays, PairsStays DEF NetAt
<1>8. AddrAt(g, rd2, wr2)' /\ LoadAt(g, rd2, wr2)' /\ BlockAt(g, rd2, wr2)' /\ AccAt(g, rd2, wr2)'
  BY <1>4, <1>6, AddrStays, LoadStays, BlockStays, AccStays DEF NetAt
<1>9. Flow(g, rd2, wr2)' /\ MergeAt(g, rd2, wr2)'
  BY <1>1, <1>2
<1>10. Filled(g, wr2)
  <2>1. MergeWrites \cap Start = {}
    BY DEF MergeWrites, Start
  <2>. QED BY <1>3, <2>1, FilledStays DEF NetAt
<1>. QED BY <1>3, <1>7, <1>8, <1>9, <1>10 DEF NetAt

LEMMA AccStepKeeps ==
  ASSUME NEW g \in Files, off = g.offsets, rows = g.columns, NEW rd \in [Names -> Place],
         NEW wr \in [Names -> Place], NetAt(g, rd, wr), AccStep
  PROVE  \E rd2, wr2 \in [Names -> Place] : NetAt(g, rd2, wr2)'
<1>1. PICK D, E : /\ IsMove(D, AccReads) /\ IsMove(E, AccWrites)
                  /\ Flow(g, Moved(rd, D), Moved(wr, E))'
                  /\ AccAt(g, Moved(rd, D), Moved(wr, E))'
  <2>0. Flow(g, rd, wr) /\ AccAt(g, rd, wr)
    BY DEF NetAt
  <2>1. CASE AccAdd
    BY <2>0, <2>1, AccAddTurn
  <2>2. CASE AccEnd
    BY <2>0, <2>2, AccEndTurn
  <2>. QED BY <2>1, <2>2 DEF AccStep
<1>2. PICK rd2, wr2 : rd2 = Moved(rd, D) /\ wr2 = Moved(wr, E)
  OBVIOUS
<1>3. /\ rd2 \in [Names -> Place] /\ wr2 \in [Names -> Place]
      /\ Same(rd, rd2, Names \ AccReads) /\ Same(wr, wr2, Names \ AccWrites)
  BY <1>1, <1>2, AccNames, MovedFacts DEF Same
<1>4. UNCHANGED <<core, copy, reduce, pairs, addr, load, block, merge>>
  BY DEF AccStep, AccAdd, AccEnd
<1>5. /\ CoreReads \subseteq Names \ AccReads /\ CoreWrites \subseteq Names \ AccWrites
      /\ CopyReads \subseteq Names \ AccReads /\ CopyWrites \subseteq Names \ AccWrites
      /\ ReduceReads \subseteq Names \ AccReads /\ ReduceWrites \subseteq Names \ AccWrites
      /\ PairsReads \subseteq Names \ AccReads /\ PairsWrites \subseteq Names \ AccWrites
      /\ AddrReads \subseteq Names \ AccReads /\ AddrWrites \subseteq Names \ AccWrites
      /\ LoadReads \subseteq Names \ AccReads /\ LoadWrites \subseteq Names \ AccWrites
      /\ BlockReads \subseteq Names \ AccReads /\ BlockWrites \subseteq Names \ AccWrites
      /\ MergeReads \subseteq Names \ AccReads /\ MergeWrites \subseteq Names \ AccWrites
  BY DEF Names, Between, Start, CoreReads, CoreWrites, CopyReads, CopyWrites, ReduceReads, ReduceWrites,
         PairsReads, PairsWrites, AddrReads, AddrWrites, LoadReads, LoadWrites,
         BlockReads, BlockWrites, MergeReads, MergeWrites, AccReads, AccWrites
<1>6. /\ Same(rd, rd2, CoreReads) /\ Same(wr, wr2, CoreWrites)
      /\ Same(rd, rd2, CopyReads) /\ Same(wr, wr2, CopyWrites)
      /\ Same(rd, rd2, ReduceReads) /\ Same(wr, wr2, ReduceWrites)
      /\ Same(rd, rd2, PairsReads) /\ Same(wr, wr2, PairsWrites)
      /\ Same(rd, rd2, AddrReads) /\ Same(wr, wr2, AddrWrites)
      /\ Same(rd, rd2, LoadReads) /\ Same(wr, wr2, LoadWrites)
      /\ Same(rd, rd2, BlockReads) /\ Same(wr, wr2, BlockWrites)
      /\ Same(rd, rd2, MergeReads) /\ Same(wr, wr2, MergeWrites)
  BY <1>3, <1>5 DEF Same
<1>7. CoreAt(g, rd2, wr2)' /\ CopyAt(g, rd2, wr2)' /\ ReduceAt(g, rd2, wr2)' /\ PairsAt(g, rd2, wr2)'
  BY <1>4, <1>6, CoreStays, CopyStays, ReduceStays, PairsStays DEF NetAt
<1>8. AddrAt(g, rd2, wr2)' /\ LoadAt(g, rd2, wr2)' /\ BlockAt(g, rd2, wr2)' /\ MergeAt(g, rd2, wr2)'
  BY <1>4, <1>6, AddrStays, LoadStays, BlockStays, MergeStays DEF NetAt
<1>9. Flow(g, rd2, wr2)' /\ AccAt(g, rd2, wr2)'
  BY <1>1, <1>2
<1>10. Filled(g, wr2)
  <2>1. AccWrites \cap Start = {}
    BY DEF AccWrites, Start
  <2>. QED BY <1>3, <2>1, FilledStays DEF NetAt
<1>. QED BY <1>3, <1>7, <1>8, <1>9, <1>10 DEF NetAt

-----------------------------------------------------------------------------
(* At the start the sources are full and the FIFOs between the processes   *)
(* empty.                                                                  *)
Lists == {"offset1", "offset1End", "offset12", "offset1End2", "copyNum", "col1End"}
First == [s \in Names |-> IF s \in Lists THEN <<0, 0>> ELSE <<1, 0>>]
FirstWritten(g) == [s \in Names |-> IF s \in Start THEN <<N(g) + nLists + 2, 0>> ELSE First[s]]

LEMMA FlatCarried ==
  ASSUME NEW lo \in Int, NEW n \in Nat, NEW seq, NEW f, NEW V, seq \in Seq(V), Len(seq) = n,
         \A i \in 1 .. n : seq[i] = f[<<lo + i - 1, 0>>]
  PROVE  Carries(seq, Flat(lo .. lo + n - 1), f)
<1> DEFINE S == Flat(lo .. lo + n - 1)
           t == [i \in 1 .. Len(seq) |-> <<lo + i - 1, 0>>]
<1>1. t \in [1 .. Len(seq) -> S]
  BY DEF Flat
<1>2. \A x \in S : \E i \in 1 .. Len(seq) : t[i] = x
  <2>1. ASSUME NEW x \in S
        PROVE  \E i \in 1 .. Len(seq) : t[i] = x
    <3>1. PICK k \in lo .. lo + n - 1 : x = <<k, 0>>
      BY DEF Flat
    <3>2. k - lo + 1 \in 1 .. Len(seq) /\ lo + (k - lo + 1) - 1 = k
      BY <3>1
    <3>. QED BY <3>1, <3>2
  <2>. QED BY <2>1
<1>3. \A i, j \in 1 .. Len(seq) : i < j => Before(t[i], t[j])
  BY DEF Before
<1>4. \A i \in 1 .. Len(seq) : seq[i] = f[t[i]]
  OBVIOUS
<1>. QED BY <1>1, <1>2, <1>3, <1>4 DEF Carries

(* A FIFO that holds all its slots, and one that holds none.               *)
LEMMA AllHeld ==
  ASSUME NEW seq, NEW lo \in Int, NEW n \in Nat, NEW f, NEW w \in Int, lo + n <= w,
         Carries(seq, Flat(lo .. lo + n - 1), f)
  PROVE  Holds(seq, Flat(lo .. lo + n - 1), f, <<lo, 0>>, <<w, 0>>)
<1>1. \A x \in Flat(lo .. lo + n - 1) : ~Before(x, <<lo, 0>>) /\ Before(x, <<w, 0>>)
  BY DEF Flat, Before
<1>2. {x \in Flat(lo .. lo + n - 1) : ~Before(x, <<lo, 0>>) /\ Before(x, <<w, 0>>)}
        = Flat(lo .. lo + n - 1)
  BY <1>1
<1>. QED BY <1>1, <1>2 DEF Holds

LEMMA NoneHeld ==
  ASSUME NEW S, NEW f, NEW a
  PROVE  Holds(<< >>, S, f, a, a)
<1>1. {x \in S : ~Before(x, a) /\ Before(x, a)} = {}
  OBVIOUS
<1>. QED BY <1>1, CarriesEmpty DEF Holds

LEMMA FlagsCarried ==
  ASSUME NEW lo \in Int, NEW n \in Nat, NEW f,
         \A a \in Int : f[<<a, 0>>] = IF a = lo + n THEN TRUE ELSE FALSE
  PROVE  Carries(Flags(n), Flat(lo .. lo + (n + 1) - 1), f)
<1>1. n + 1 \in Nat /\ Flags(n) \in Seq(BOOLEAN) /\ Len(Flags(n)) = n + 1
  BY DEF Flags
<1>2. \A i \in 1 .. n + 1 : lo + i - 1 \in Int /\ (lo + i - 1 = lo + n <=> i = n + 1)
  OBVIOUS
<1>3. \A i \in 1 .. n + 1 : (i = n + 1) = f[<<lo + i - 1, 0>>]
  <2>1. \A i \in 1 .. n + 1 : f[<<lo + i - 1, 0>>] = IF lo + i - 1 = lo + n THEN TRUE ELSE FALSE
    BY <1>2
  <2>. QED BY <1>2, <2>1, Zenon
<1>4. \A i \in 1 .. n + 1 : Flags(n)[i] = f[<<lo + i - 1, 0>>]
  BY <1>3, Zenon DEF Flags
<1>. QED BY <1>1, <1>4, FlatCarried, Zenon

LEMMA SourcesCarry ==
  ASSUME NEW g \in Files, off = g.offsets, rows = g.columns
  PROVE  /\ \A s \in {"offset1", "offset12"} :
              Carries(Sources(off, rows)[s], Flat(0 .. 0 + nLists - 1), EndOf(g))
         /\ \A s \in {"offset1End", "offset1End2"} :
              Carries(Sources(off, rows)[s], Flat(0 .. 0 + (nLists + 1) - 1), IsLastList(g))
         /\ \A s \in {"row1", "row12"} :
              Carries(Sources(off, rows)[s], Flat(1 .. 1 + N(g) - 1), Column(g))
         /\ \A s \in {"row1End", "row1End2"} :
              Carries(Sources(off, rows)[s], Flat(1 .. 1 + (N(g) + 1) - 1), IsLastRow(g))
<1>1. /\ nLists \in Nat /\ N(g) \in Nat /\ numVertex - 1 = nLists /\ 0 \in Int /\ 1 \in Int
      /\ nLists + 1 \in Nat /\ N(g) + 1 \in Nat
      /\ g.columns \in [1 .. N(g) -> Vertex] /\ g.columns \in Seq(Vertex)
      /\ g.offsets \in [0 .. NVertices -> 0 .. N(g)]
      /\ nLists \in {NVertices - 1, NVertices} /\ NVertices \in Nat
  BY CsrFacts DEF nLists, FirstOffset
<1>2. \A a \in Int : <<a, 0>> \in Place
  BY DEF Place
<1>3. Carries(Values(off, FirstOffset, numVertex), Flat(0 .. 0 + nLists - 1), EndOf(g))
  <2>1. Values(off, FirstOffset, numVertex) = [i \in 1 .. nLists |-> g.offsets[i]]
    BY <1>1 DEF Values, FirstOffset
  <2>2. /\ [i \in 1 .. nLists |-> g.offsets[i]] \in Seq(Nat)
        /\ Len([i \in 1 .. nLists |-> g.offsets[i]]) = nLists
    BY <1>1
  <2>3. \A i \in 1 .. nLists : g.offsets[i] = EndOf(g)[<<0 + i - 1, 0>>]
    BY <1>1, <1>2, SMTT(30) DEF EndOf
  <2>4. PICK v : v = [i \in 1 .. nLists |-> g.offsets[i]]
    OBVIOUS
  <2>5. v \in Seq(Nat) /\ Len(v) = nLists /\ \A i \in 1 .. nLists : v[i] = EndOf(g)[<<0 + i - 1, 0>>]
    BY <2>2, <2>3, <2>4
  <2>6. Carries(v, Flat(0 .. 0 + nLists - 1), EndOf(g))
    BY <1>1, <2>5, FlatCarried, Zenon
  <2>. QED BY <2>1, <2>4, <2>6
<1>4. Carries(Flags(numVertex - FirstOffset), Flat(0 .. 0 + (nLists + 1) - 1), IsLastList(g))
  <2>1. \A a \in Int : IsLastList(g)[<<a, 0>>] = IF a = 0 + nLists THEN TRUE ELSE FALSE
    <3>1. \A a \in Int : IsLastList(g)[<<a, 0>>] = IF a = nLists THEN TRUE ELSE FALSE
      BY <1>2 DEF IsLastList
    <3>2. 0 + nLists = nLists
      BY <1>1
    <3>. QED BY <3>1, <3>2
  <2>2. Carries(Flags(nLists), Flat(0 .. 0 + (nLists + 1) - 1), IsLastList(g))
    BY <1>1, <2>1, FlagsCarried, Zenon
  <2>. QED BY <1>1, <2>2 DEF FirstOffset
<1>5. Carries(rows, Flat(1 .. 1 + N(g) - 1), Column(g))
  <2>1. rows \in Seq(Vertex) /\ Len(rows) = N(g)
    BY <1>1 DEF N
  <2>2. \A i \in 1 .. N(g) : rows[i] = Column(g)[<<1 + i - 1, 0>>]
    BY <1>1, <1>2 DEF Column
  <2>. QED BY <1>1, <2>1, <2>2, FlatCarried
<1>6. Carries(Flags(Len(rows)), Flat(1 .. 1 + (N(g) + 1) - 1), IsLastRow(g))
  <2>1. \A a \in Int : IsLastRow(g)[<<a, 0>>] = IF a = 1 + N(g) THEN TRUE ELSE FALSE
    <3>1. \A a \in Int : IsLastRow(g)[<<a, 0>>] = IF a = N(g) + 1 THEN TRUE ELSE FALSE
      BY <1>2 DEF IsLastRow
    <3>2. N(g) + 1 = 1 + N(g)
      BY <1>1
    <3>. QED BY <3>1, <3>2
  <2>2. Carries(Flags(N(g)), Flat(1 .. 1 + (N(g) + 1) - 1), IsLastRow(g))
    BY <1>1, <2>1, FlagsCarried, Zenon
  <2>. QED BY <2>2 DEF N
<1>. QED BY <1>3, <1>4, <1>5, <1>6 DEF Sources

LEMMA StartNames == Start \cap Between = {} /\ Names = Between \cup Start
  BY DEF Start, Between, Names

LEMMA StartFlow ==
  ASSUME NEW g \in Files, off = g.offsets, rows = g.columns, Init
  PROVE  Flow(g, First, FirstWritten(g))
<1>0. q = [s \in Between \cup DOMAIN Sources(off, rows) |->
            IF s \in Between THEN << >> ELSE Sources(off, rows)[s]]
  BY DEF Init
<1>1. DOMAIN Sources(off, rows) = Start
  BY DEF Sources, Start
<1>2. /\ DOMAIN q = Names
      /\ \A s \in Between : q[s] = << >>
      /\ \A s \in Start : q[s] = Sources(off, rows)[s]
  BY <1>0, <1>1, StartNames
<1>3. \A s \in Between : Holds(q[s], Slots(g)[s], Says(g)[s], First[s], FirstWritten(g)[s])
  <2>1. \A s \in Between : FirstWritten(g)[s] = First[s]
    BY StartNames DEF FirstWritten
  <2>. QED BY <1>2, <2>1, NoneHeld
<1>4. \A s \in Start : Holds(q[s], Slots(g)[s], Says(g)[s], First[s], FirstWritten(g)[s])
  <2>w. PICK w : w = N(g) + nLists + 2
    OBVIOUS
  <2>1. /\ nLists \in Nat /\ N(g) \in Nat /\ nLists + 1 \in Nat /\ N(g) + 1 \in Nat
        /\ 0 \in Int /\ 1 \in Int /\ w \in Int
        /\ 0 + nLists <= w /\ 0 + (nLists + 1) <= w /\ 1 + N(g) <= w /\ 1 + (N(g) + 1) <= w
        /\ 0 + nLists - 1 = nLists - 1 /\ 0 + (nLists + 1) - 1 = nLists
        /\ 1 + N(g) - 1 = N(g) /\ 1 + (N(g) + 1) - 1 = N(g) + 1
    BY <2>w, SlotsArePlaces
  <2>2. \A s \in Start : FirstWritten(g)[s] = <<w, 0>>
    BY <2>w, StartNames DEF FirstWritten
  <2>3. /\ \A s \in {"offset1", "offset12", "offset1End", "offset1End2"} : First[s] = <<0, 0>>
        /\ \A s \in {"row1", "row12", "row1End", "row1End2"} : First[s] = <<1, 0>>
    BY StartNames DEF First, Lists, Start
  <2>4. \A s \in {"offset1", "offset12"} :
          Holds(q[s], Slots(g)[s], Says(g)[s], First[s], FirstWritten(g)[s])
    <3>1. \A s \in {"offset1", "offset12"} :
            Holds(Sources(off, rows)[s], Flat(0 .. 0 + nLists - 1), EndOf(g), <<0, 0>>, <<w, 0>>)
      BY <2>1, SourcesCarry, AllHeld
    <3>2. \A s \in {"offset1", "offset12"} :
            /\ s \in Start /\ Slots(g)[s] = Flat(0 .. 0 + nLists - 1) /\ Says(g)[s] = EndOf(g)
      BY <2>1, SlotFacts, SaysFacts DEF ListsOf, Start
    <3>. QED BY <1>2, <2>2, <2>3, <3>1, <3>2
  <2>5. \A s \in {"offset1End", "offset1End2"} :
          Holds(q[s], Slots(g)[s], Says(g)[s], First[s], FirstWritten(g)[s])
    <3>1. \A s \in {"offset1End", "offset1End2"} :
            Holds(Sources(off, rows)[s], Flat(0 .. 0 + (nLists + 1) - 1), IsLastList(g),
                  <<0, 0>>, <<w, 0>>)
      BY <2>1, SourcesCarry, AllHeld
    <3>2. \A s \in {"offset1End", "offset1End2"} :
            /\ s \in Start /\ Slots(g)[s] = Flat(0 .. 0 + (nLists + 1) - 1)
            /\ Says(g)[s] = IsLastList(g)
      BY <2>1, SlotFacts, SaysFacts DEF Start
    <3>. QED BY <1>2, <2>2, <2>3, <3>1, <3>2
  <2>6. \A s \in {"row1", "row12"} :
          Holds(q[s], Slots(g)[s], Says(g)[s], First[s], FirstWritten(g)[s])
    <3>1. \A s \in {"row1", "row12"} :
            Holds(Sources(off, rows)[s], Flat(1 .. 1 + N(g) - 1), Column(g), <<1, 0>>, <<w, 0>>)
      BY <2>1, SourcesCarry, AllHeld
    <3>2. \A s \in {"row1", "row12"} :
            /\ s \in Start /\ Slots(g)[s] = Flat(1 .. 1 + N(g) - 1) /\ Says(g)[s] = Column(g)
      BY <2>1, SlotFacts, SaysFacts DEF Rows, Start
    <3>. QED BY <1>2, <2>2, <2>3, <3>1, <3>2
  <2>7. \A s \in {"row1End", "row1End2"} :
          Holds(q[s], Slots(g)[s], Says(g)[s], First[s], FirstWritten(g)[s])
    <3>1. \A s \in {"row1End", "row1End2"} :
            Holds(Sources(off, rows)[s], Flat(1 .. 1 + (N(g) + 1) - 1), IsLastRow(g),
                  <<1, 0>>, <<w, 0>>)
      BY <2>1, SourcesCarry, AllHeld
    <3>2. \A s \in {"row1End", "row1End2"} :
            /\ s \in Start /\ Slots(g)[s] = Flat(1 .. 1 + (N(g) + 1) - 1)
            /\ Says(g)[s] = IsLastRow(g)
      BY <2>1, SlotFacts, SaysFacts DEF Start
    <3>. QED BY <1>2, <2>2, <2>3, <3>1, <3>2
  <2>. QED BY <2>4, <2>5, <2>6, <2>7 DEF Start
<1>. QED BY <1>2, <1>3, <1>4, StartNames DEF Flow

LEMMA StartBounds ==
  ASSUME NEW g \in Files
  PROVE  \A s \in Start : \A x \in Slots(g)[s] : x[1] \in Int /\ x[1] < N(g) + nLists + 2
<1>1. N(g) \in Nat /\ nLists \in Nat
  BY SlotsArePlaces
<1>2. \A a \in ListsOf(g) \cup (0 .. nLists) \cup Rows(g) \cup (1 .. N(g) + 1) :
        a \in Int /\ a < N(g) + nLists + 2
  BY <1>1 DEF ListsOf, Rows
<1>3. \A s \in Start :
        Slots(g)[s] \subseteq Flat(ListsOf(g) \cup (0 .. nLists) \cup Rows(g) \cup (1 .. N(g) + 1))
  BY SlotFacts DEF Start, Flat
<1>. QED BY <1>2, <1>3 DEF Flat

LEMMA InitNet ==
  ASSUME NEW g \in Files, off = g.offsets, rows = g.columns, Init
  PROVE  \E rd, wr \in [Names -> Place] : NetAt(g, rd, wr)
<1> DEFINE rd == First
           wr == FirstWritten(g)
<1>1. rd \in [Names -> Place] /\ wr \in [Names -> Place]
  <2>1. <<0, 0>> \in Place /\ <<1, 0>> \in Place /\ <<N(g) + nLists + 2, 0>> \in Place
    BY SlotsArePlaces DEF Place
  <2>. QED BY <2>1 DEF First, FirstWritten
<1>2. /\ \A s \in Lists : rd[s] = <<0, 0>>
      /\ \A s \in Names \ Lists : rd[s] = <<1, 0>>
      /\ wr["copyNum"] = <<0, 0>> /\ wr["col1End"] = <<0, 0>>
      /\ \A s \in Between \ Lists : wr[s] = <<1, 0>>
  BY DEF First, FirstWritten, Lists, Names, Between, Start
<1>3. /\ nLists \in Nat /\ N(g) \in Nat /\ g.offsets[0] = 0 /\ 0 \in 0 .. nLists + 1
      /\ 0 \in 0 .. N(g) /\ 0 <= nLists /\ 0 + 1 = 1 /\ 1 - 1 = 0 /\ 1 \in Int
      /\ 0 \in 0 .. Modulus - 1 /\ 1 <= N(g) + 1 /\ ~Before(<<N(g) + 1, 0>>, <<1, 0>>)
  <2>1. nLists \in Nat /\ N(g) \in Nat /\ g.offsets[0] = 0
    BY CsrFacts
  <2>2. 0 \in 0 .. Modulus - 1
    BY TriangleAssumption
  <2>3. ~Before(<<N(g) + 1, 0>>, <<1, 0>>)
    BY <2>1 DEF Before
  <2>. QED BY <2>1, <2>2, <2>3
<1>4. Flow(g, rd, wr)
  BY StartFlow
<1>. HIDE DEF rd, wr
<1>5. CoreAt(g, rd, wr)
  <2>1. /\ rd["offset1"] = <<0, 0>> /\ rd["offset1End"] = <<0, 0>>
        /\ wr["col1End"] = <<0, 0>> /\ wr["copyNum"] = <<0, 0>>
        /\ rd["row1"] = <<1, 0>> /\ wr["col1"] = <<1, 0>> /\ rd["row1End"] = <<1, 0>>
        /\ wr["col1BlockEnd"] = <<1, 0>>
    BY <1>2 DEF Lists, Names, Between, Start
  <2>2. core = [pc |-> "end", begin |-> 0, end |-> 0, i |-> 0]
    BY DEF Init
  <2>. QED BY <1>3, <2>1, <2>2 DEF CoreAt
<1>6. CopyAt(g, rd, wr)
  <2>1. /\ rd["col1End"] = <<0, 0>> /\ rd["copyNum"] = <<0, 0>> /\ rd["col1"] = <<1, 0>>
        /\ rd["col1BlockEnd"] = <<1, 0>> /\ wr["col1CopyEnd"] = <<1, 0>>
        /\ \A s \in Copies : wr[s] = <<1, 0>>
    BY <1>2 DEF Lists, Names, Between, Start, Copies
  <2>2. copy = [pc |-> "end", num |-> 0, i |-> 0, j |-> 0, arr |-> << >>]
    BY DEF Init
  <2>. QED BY <1>3, <2>1, <2>2 DEF CopyAt
<1>7. ReduceAt(g, rd, wr)
  <2>1. /\ rd["offset12"] = <<0, 0>> /\ rd["offset1End2"] = <<0, 0>>
        /\ rd["row12"] = <<1, 0>> /\ wr["row1Reduce"] = <<1, 0>> /\ rd["row1End2"] = <<1, 0>>
        /\ wr["row1ReduceEnd"] = <<1, 0>>
    BY <1>2 DEF Lists, Names, Between, Start
  <2>2. reduce = [pc |-> "end", begin |-> 0, end |-> 0, i |-> 0]
    BY DEF Init
  <2>. QED BY <1>3, <2>1, <2>2 DEF ReduceAt
<1>8. PairsAt(g, rd, wr)
  <2>1. (\A s \in PairsReads : rd[s] = <<1, 0>>) /\ (\A s \in PairsWrites : wr[s] = <<1, 0>>)
    BY <1>2 DEF Lists, Names, Between, Start, PairsReads, PairsWrites
  <2>2. pairs = [pc |-> "row"] /\ "row1ReduceEnd" \in PairsReads
    BY DEF Init, PairsReads
  <2>. QED BY <1>3, <2>1, <2>2 DEF PairsAt
<1>9. AddrAt(g, rd, wr)
  <2>1. (\A s \in AddrReads : rd[s] = <<1, 0>>) /\ (\A s \in AddrWrites : wr[s] = <<1, 0>>)
    BY <1>2 DEF Lists, Names, Between, Start, AddrReads, AddrWrites
  <2>2. addr = [pc |-> "end", i |-> 0, end |-> 0] /\ "offset2End" \in AddrReads
    BY DEF Init, AddrReads
  <2>. QED BY <1>3, <2>1, <2>2, AddrNames DEF AddrAt
<1>10. LoadAt(g, rd, wr)
  <2>1. rd["row2Addr"] = <<1, 0>> /\ rd["row2AddrEnd"] = <<1, 0>> /\ wr["row2Continue"] = <<1, 0>>
    BY <1>2 DEF Lists, Names, Between, Start
  <2>2. load = [pc |-> "start", ok |-> TRUE]
    BY DEF Init
  <2>. QED BY <1>3, <2>1, <2>2 DEF LoadAt
<1>11. BlockAt(g, rd, wr)
  <2>1. (\A s \in BlockReads : rd[s] = <<1, 0>>) /\ (\A s \in BlockWrites : wr[s] = <<1, 0>>)
    BY <1>2 DEF Lists, Names, Between, Start, BlockReads, BlockWrites
  <2>2. block = [pc |-> "end", left |-> 0]
    BY DEF Init
  <2>. QED BY <1>3, <2>1, <2>2 DEF BlockAt, BlockReads, BlockWrites
<1>12. MergeAt(g, rd, wr)
  <2>1. (\A s \in MergeReads : rd[s] = <<1, 0>>) /\ (\A s \in MergeWrites : wr[s] = <<1, 0>>)
    BY <1>2 DEF Lists, Names, Between, Start, MergeReads, MergeWrites
  <2>2. merge = [pc |-> "pair", end1 |-> TRUE, end2 |-> TRUE, v1 |-> 0, v2 |-> 0, num |-> 0]
    BY DEF Init
  <2>. QED BY <1>3, <2>1, <2>2 DEF MergeAt
<1>13. AccAt(g, rd, wr)
  <2>1. rd["tc"] = <<1, 0>> /\ rd["tcEnd"] = <<1, 0>>
    BY <1>2 DEF Lists, Names, Between, Start
  <2>2. acc = [pc |-> "end", triangles |-> 0]
    BY DEF Init
  <2>3. Cardinality(CornersOf(g, Passed(Flat(Kept(g)), <<1, 0>>))) = 0
    <3>1. \A p \in Kept(g) : p \in Int /\ 1 <= p
      BY SlotsArePlaces DEF Rows
    <3>2. Passed(Flat(Kept(g)), <<1, 0>>) = {}
      BY <3>1 DEF Passed, Flat, Before
    <3>3. CornersOf(g, {}) = {}
      BY DEF CornersOf
    <3>. QED BY <3>2, <3>3, FS_EmptySet
  <2>. QED BY <1>3, <2>1, <2>2, <2>3 DEF AccAt
<1>14. Filled(g, wr)
  <2>1. \A s \in Start : wr[s] = <<N(g) + nLists + 2, 0>>
    BY DEF FirstWritten, Names, wr
  <2>2. \A s \in Start : \A x \in Slots(g)[s] : x[1] \in Int /\ x[1] < N(g) + nLists + 2
    BY StartNames, StartBounds
  <2>. QED BY <2>1, <2>2 DEF Filled, Before
<1>. QED BY <1>1, <1>4, <1>5, <1>6, <1>7, <1>8, <1>9, <1>10, <1>11, <1>12, <1>13, <1>14 DEF NetAt

-----------------------------------------------------------------------------
(* The inductive invariant: there is a graph, and places of the readers    *)
(* and writers, by which all FIFOs and processes go; and no FIFO between   *)
(* processes is longer than it may be.                                     *)
Fits == \A s \in Between : Len(q[s]) <= Depth

Net == /\ Fits
       /\ \E g \in Files : /\ off = g.offsets /\ rows = g.columns
                           /\ \E rd, wr \in [Names -> Place] : NetAt(g, rd, wr)

LEMMA TurnFits ==
  ASSUME NEW g, NEW rd, NEW wr, Flow(g, rd, wr), Fits, NEW reads, NEW writes, Turn(reads, writes)
  PROVE  Fits'
<1>1. ASSUME NEW s \in Between PROVE Len(q'[s]) <= Depth
  <2>1. s \in DOMAIN q /\ \E V : q[s] \in Seq(V)
    BY StartNames DEF Flow, Holds, Carries
  <2>2. PICK V : q[s] \in Seq(V)
    BY <2>1
  <2>3. /\ s \in reads => q[s] # << >>
        /\ s \in DOMAIN writes => Len(q[s]) < Depth
        /\ q'[s] = LET rest == IF s \in reads THEN Tail(q[s]) ELSE q[s]
                   IN  IF s \in DOMAIN writes THEN Append(rest, writes[s]) ELSE rest
    BY <2>1 DEF Turn
  <2>4. PICK rest : rest = IF s \in reads THEN Tail(q[s]) ELSE q[s]
    OBVIOUS
  <2>5. rest \in Seq(V) /\ Len(rest) <= Len(q[s]) /\ Len(rest) \in Nat /\ Len(q[s]) \in Nat
    BY <2>2, <2>3, <2>4
  <2>6. Len(q[s]) <= Depth /\ Depth \in Nat
    BY TriangleAssumption DEF Fits
  <2>7. CASE s \in DOMAIN writes
    <3>1. q'[s] = Append(rest, writes[s])
      BY <2>3, <2>4, <2>7
    <3>2. PICK e : e = writes[s]
      OBVIOUS
    <3>3. rest \in Seq(V \cup {e})
      BY <2>5
    <3>4. Len(Append(rest, e)) = Len(rest) + 1
      BY <3>3
    <3>. QED BY <2>3, <2>5, <2>6, <2>7, <3>1, <3>2, <3>4
  <2>8. CASE s \notin DOMAIN writes
    BY <2>3, <2>4, <2>5, <2>6, <2>8
  <2>. QED BY <2>7, <2>8
<1>. QED BY <1>1 DEF Fits

LEMMA NextTurns ==
  ASSUME Next
  PROVE  UNCHANGED input /\ (UNCHANGED q \/ \E reads, writes : Turn(reads, writes))
<1>1. CASE CoreStep
  BY <1>1 DEF CoreStep, CoreVertex, CoreRow, CoreBlock, CoreEnd
<1>2. CASE CopyStep
  BY <1>2 DEF CopyStep, CopyVertex, CopyStart, CopyFirst, CopyAgain, CopyBlock, CopyEnd
<1>3. CASE ReduceStep
  BY <1>3 DEF ReduceStep, ReduceVertex, ReduceRow, ReduceEnd
<1>4. CASE PairsStep
  BY <1>4 DEF PairsStep, PairsRow, PairsEnd
<1>5. CASE AddrStep
  BY <1>5 DEF AddrStep, AddrPair, AddrRow, AddrEnd
<1>6. CASE LoadStep
  BY <1>6 DEF LoadStep, LoadFirst, LoadTurn
<1>7. CASE BlockStep
  BY <1>7 DEF BlockStep, BlockPair, BlockRow, BlockLast, BlockEnd
<1>8. CASE MergeStep
  BY <1>8 DEF MergeStep, MergePair, MergeTurn, MergeLast, MergeEnd
<1>9. CASE AccStep
  BY <1>9 DEF AccStep, AccAdd, AccEnd
<1>10. CASE Returned
  BY <1>10 DEF Returned, vars
<1>. QED BY <1>1, <1>2, <1>3, <1>4, <1>5, <1>6, <1>7, <1>8, <1>9, <1>10 DEF Next

(* In every state the FIFOs hold what the graph and the places of their    *)
(* readers and writers say, and each process is where its places say: the  *)
(* processes cannot get out of step, whatever the order of their turns.    *)
THEOREM NetHolds ==
  ASSUME LastWordHeld
  PROVE  Spec => []Net
<1>1. Init => Net
  <2>1. SUFFICES ASSUME Init PROVE Net
    OBVIOUS
  <2>2. PICK g \in Files : off = g.offsets /\ rows = g.columns
    BY <2>1 DEF Init
  <2>3. \E rd, wr \in [Names -> Place] : NetAt(g, rd, wr)
    BY <2>1, <2>2, InitNet
  <2>4. Fits
    <3>1. q = [s \in Between \cup DOMAIN Sources(off, rows) |->
                 IF s \in Between THEN << >> ELSE Sources(off, rows)[s]]
      BY <2>1 DEF Init
    <3>. QED BY <3>1, TriangleAssumption DEF Fits
  <2>. QED BY <2>2, <2>3, <2>4 DEF Net
<1>2. Net /\ [Next]_vars => Net'
  <2>1. SUFFICES ASSUME Net, [Next]_vars PROVE Net'
    OBVIOUS
  <2>2. PICK g \in Files : /\ off = g.offsets /\ rows = g.columns
                           /\ \E rd, wr \in [Names -> Place] : NetAt(g, rd, wr)
    BY <2>1 DEF Net
  <2>3. PICK rd, wr \in [Names -> Place] : NetAt(g, rd, wr)
    BY <2>2
  <2>4. CASE UNCHANGED vars
    <3>1. Fits'
      BY <2>1, <2>4 DEF Net, Fits, vars
    <3>2. Flow(g, rd, wr)'
      BY <2>3, <2>4 DEF NetAt, Flow, vars
    <3>3. Same(rd, rd, Names) /\ Same(wr, wr, Names) /\ \A S : Same(rd, rd, S) /\ Same(wr, wr, S)
      BY DEF Same
    <3>4. UNCHANGED processes
      BY <2>4 DEF vars
    <3>5. CoreAt(g, rd, wr)' /\ CopyAt(g, rd, wr)' /\ ReduceAt(g, rd, wr)'
          /\ PairsAt(g, rd, wr)' /\ AddrAt(g, rd, wr)'
      BY <2>3, <3>3, <3>4, CoreStays, CopyStays, ReduceStays, PairsStays, AddrStays DEF NetAt, processes
    <3>6. LoadAt(g, rd, wr)' /\ BlockAt(g, rd, wr)' /\ MergeAt(g, rd, wr)' /\ AccAt(g, rd, wr)'
      BY <2>3, <3>3, <3>4, LoadStays, BlockStays, MergeStays, AccStays DEF NetAt, processes
    <3>7. NetAt(g, rd, wr)'
      BY <2>3, <3>2, <3>5, <3>6 DEF NetAt, Filled
    <3>8. off' = g.offsets /\ rows' = g.columns
      BY <2>2, <2>4 DEF vars, input
    <3>. QED BY <3>1, <3>7, <3>8 DEF Net
  <2>5. CASE Next /\ ~UNCHANGED vars
    <3>1. Fits'
      <4>1. Flow(g, rd, wr) /\ Fits
        BY <2>1, <2>3 DEF NetAt, Net
      <4>2. UNCHANGED q \/ \E reads, writes : Turn(reads, writes)
        BY <2>5, NextTurns
      <4>3. CASE UNCHANGED q
        BY <4>1, <4>3 DEF Fits
      <4>. QED BY <4>1, <4>2, <4>3, TurnFits
    <3>2. \E rd2, wr2 \in [Names -> Place] : NetAt(g, rd2, wr2)'
      <4>1. \/ CoreStep \/ CopyStep \/ ReduceStep \/ PairsStep \/ AddrStep
            \/ LoadStep \/ BlockStep \/ MergeStep \/ AccStep
        BY <2>5 DEF Next, Returned
      <4>2. off = g.offsets /\ rows = g.columns
        BY <2>2
      <4>. QED BY <2>3, <4>1, <4>2, CoreStepKeeps, CopyStepKeeps, ReduceStepKeeps, PairsStepKeeps,
                  AddrStepKeeps, LoadStepKeeps, BlockStepKeeps, MergeStepKeeps, AccStepKeeps
    <3>3. off' = g.offsets /\ rows' = g.columns
      BY <2>2, <2>5, NextTurns DEF input
    <3>. QED BY <3>1, <3>2, <3>3 DEF Net
  <2>. QED BY <2>1, <2>4, <2>5
<1>. QED BY <1>1, <1>2, PTL DEF Spec

-----------------------------------------------------------------------------
(* The triangles of the graph are those counted at all the pairs: an edge  *)
(* is a place of the columns, and a common neighbour comes after it.       *)
LEMMA AllCorners ==
  ASSUME NEW g \in Files, off = g.offsets, rows = g.columns
  PROVE  /\ IsFiniteSet(Triangles)
         /\ Cardinality(Triangles) = Cardinality(CornersOf(g, Flat(Kept(g))))
<1> DEFINE S == CornersOf(g, Flat(Kept(g)))
           f == [t \in S |-> <<<<Source(g)[t[1]], g.columns[t[1]]>>, t[2]>>]
<1>1. /\ N(g) \in Nat /\ g.columns \in [1 .. N(g) -> Vertex] /\ NVertices \in Nat \ {0}
      /\ g.offsets \in [0 .. NVertices -> 0 .. N(g)]
      /\ nLists \in Nat /\ nLists \in {NVertices - 1, NVertices}
      /\ g.offsets[nLists] = N(g) /\ g.offsets[NVertices] = N(g)
  BY CsrFacts
<1>2. IsCsr(g)
  BY TriangleAssumption
<1>3. \A u \in Vertex : \A i, j \in g.offsets[u] + 1 .. g.offsets[u + 1] :
        u < g.columns[i] /\ (i < j => g.columns[i] < g.columns[j])
  BY <1>2 DEF IsCsr
<1>4. \A u \in Vertex : Row(u) = {g.columns[i] : i \in g.offsets[u] + 1 .. g.offsets[u + 1]}
  BY DEF Row
<1>5. ASSUME NEW t \in S
      PROVE  /\ t[1] \in Kept(g) /\ t[1] \in Rows(g) /\ t[2] \in Vertex
             /\ Source(g)[t[1]] \in Vertex /\ g.columns[t[1]] \in Vertex
             /\ t[1] \in g.offsets[Source(g)[t[1]]] + 1 .. g.offsets[Source(g)[t[1]] + 1]
             /\ t = <<t[1], t[2]>> /\ f[t] \in Triangles
  <2>1. /\ t[1] \in Kept(g) /\ t[1] \in Rows(g) /\ t[2] \in Vertex /\ t = <<t[1], t[2]>>
        /\ t[2] \in Rest(g, t[1]) /\ t[2] \in Other(g, t[1])
    BY DEF CornersOf, Flat
  <2>p. PICK p : p = t[1]
    OBVIOUS
  <2>u. PICK u : u = Source(g)[p]
    OBVIOUS
  <2>2. /\ p \in Int /\ u \in Vertex /\ g.columns[p] \in Vertex
        /\ g.offsets[u] \in Nat /\ g.offsets[u + 1] \in Nat
        /\ g.offsets[u] < p /\ p <= g.offsets[u + 1]
    <3>1. /\ Source(g)[p] \in Vertex /\ ListStart(g, p) \in Nat /\ ListEnd(g, p) \in Nat
          /\ ListStart(g, p) < p /\ p <= ListEnd(g, p)
      BY <2>1, <2>p, ListFacts DEF Rows
    <3>2. p \in Int /\ g.columns[p] \in Vertex
      BY <1>1, <2>1, <2>p DEF Rows
    <3>. QED BY <3>1, <3>2, <2>u DEF ListStart, ListEnd
  <2>3. p \in g.offsets[u] + 1 .. g.offsets[u + 1]
    BY <2>2
  <2>4. g.columns[p] \in Row(u)
    BY <1>4, <2>2, <2>3
  <2>5. t[2] \in Row(u)
    <3>1. PICK r \in p + 1 .. g.offsets[u + 1] : t[2] = g.columns[r]
      BY <2>1, <2>p, <2>u DEF Rest, ListEnd
    <3>2. r \in g.offsets[u] + 1 .. g.offsets[u + 1]
      BY <2>2
    <3>. QED BY <1>4, <2>2, <3>1, <3>2
  <2>6. t[2] \in Row(g.columns[p])
    BY <1>4, <2>1, <2>2, <2>p DEF Other, OtherStart, OtherEnd
  <2>7. <<u, g.columns[p]>> \in Edges
    BY <2>2, <2>4 DEF Edges
  <2>8. <<<<u, g.columns[p]>>, t[2]>> \in Triangles
    BY <2>1, <2>5, <2>6, <2>7 DEF Triangles
  <2>9. f[t] = <<<<u, g.columns[p]>>, t[2]>>
    BY <2>p, <2>u
  <2>. QED BY <2>1, <2>2, <2>3, <2>8, <2>9, <2>p, <2>u
<1>6. f \in [S -> Triangles]
  BY <1>5
<1>7. ASSUME NEW t \in S, NEW z \in S, f[t] = f[z] PROVE t = z
  <2>1. /\ Source(g)[t[1]] = Source(g)[z[1]] /\ g.columns[t[1]] = g.columns[z[1]] /\ t[2] = z[2]
    BY <1>7
  <2>u. PICK u : u = Source(g)[t[1]]
    OBVIOUS
  <2>2. /\ u \in Vertex /\ t[1] \in Int /\ z[1] \in Int
        /\ t[1] \in g.offsets[u] + 1 .. g.offsets[u + 1] /\ z[1] \in g.offsets[u] + 1 .. g.offsets[u + 1]
        /\ t = <<t[1], t[2]>> /\ z = <<z[1], z[2]>>
        /\ g.columns[t[1]] \in Int
    <3>1. /\ t[1] \in Kept(g) /\ z[1] \in Kept(g) /\ Source(g)[t[1]] \in Vertex
          /\ t[1] \in g.offsets[Source(g)[t[1]]] + 1 .. g.offsets[Source(g)[t[1]] + 1]
          /\ z[1] \in g.offsets[Source(g)[z[1]]] + 1 .. g.offsets[Source(g)[z[1]] + 1]
          /\ t = <<t[1], t[2]>> /\ z = <<z[1], z[2]>> /\ g.columns[t[1]] \in Vertex
      BY <1>5
    <3>2. t[1] \in Int /\ z[1] \in Int
      BY <3>1, SlotsArePlaces
    <3>3. g.columns[t[1]] \in Int
      BY <3>1 DEF Vertex
    <3>. HIDE DEF f, S
    <3>. QED BY <2>1, <2>u, <3>1, <3>2, <3>3
  <2>3. ~(t[1] < z[1]) /\ ~(z[1] < t[1])
    BY <1>3, <2>1, <2>2
  <2>. QED BY <2>1, <2>2, <2>3
<1>8. ASSUME NEW y \in Triangles PROVE \E t \in S : f[t] = y
  <2>1. PICK u, v, w \in Vertex : y = <<<<u, v>>, w>> /\ v \in Row(u) /\ w \in Row(u) /\ w \in Row(v)
    BY DEF Triangles, Edges
  <2>n. NVertices \in Nat
    BY <1>1
  <2>i. u \in Int /\ v \in Int /\ w \in Int /\ u \in 0 .. NVertices /\ u + 1 \in 0 .. NVertices
    BY <2>n DEF Vertex
  <2>o. /\ g.offsets[u] \in Nat /\ g.offsets[u + 1] \in Nat /\ N(g) \in Nat
        /\ g.offsets[u + 1] <= N(g)
    <3>1. g.offsets[u] \in 0 .. N(g) /\ g.offsets[u + 1] \in 0 .. N(g) /\ N(g) \in Nat
      BY <1>1, <2>i
    <3>. QED BY <3>1
  <2>2. PICK p \in g.offsets[u] + 1 .. g.offsets[u + 1] : v = g.columns[p]
    BY <1>4, <2>1
  <2>3. PICK r \in g.offsets[u] + 1 .. g.offsets[u + 1] : w = g.columns[r]
    BY <1>4, <2>1
  <2>4. PICK k \in g.offsets[v] + 1 .. g.offsets[v + 1] : w = g.columns[k]
    BY <1>4, <2>1
  <2>5. /\ g.offsets[u] \in Nat /\ g.offsets[u + 1] \in Nat /\ g.offsets[u + 1] <= N(g)
        /\ p \in Int /\ r \in Int /\ g.offsets[u] < p /\ p <= g.offsets[u + 1]
        /\ r <= g.offsets[u + 1] /\ v \in Int /\ w \in Int /\ u \in Int
    BY <2>i, <2>o
  <2>6. v < w
    BY <1>3, <2>1, <2>4
  <2>7. p < r
    <3>1. ~(r < p) /\ r # p
      BY <1>3, <2>1, <2>2, <2>3, <2>5, <2>6
    <3>. QED BY <2>5, <3>1
  <2>8. u \in ListsOf(g)
    <3>1. u # nLists
      <4>1. SUFFICES ASSUME u = nLists PROVE FALSE
        OBVIOUS
      <4>2. nLists = NVertices - 1
        BY <1>1, <2>1, <4>1 DEF Vertex
      <4>3. g.offsets[u] = N(g) /\ g.offsets[u + 1] = N(g)
        BY <1>1, <4>1, <4>2
      <4>. QED BY <1>1, <2>5, <4>3
    <3>. QED BY <1>1, <2>1, <3>1, SMTT(30) DEF ListsOf, Vertex
  <2>9. p \in 1 .. N(g) /\ p \in Rows(g)
    <3>1. 1 <= p /\ p <= N(g)
      BY <2>o, <2>5
    <3>. QED BY <2>o, <2>5, <3>1 DEF Rows
  <2>10. Source(g)[p] = u /\ ListStart(g, p) = g.offsets[u] /\ ListEnd(g, p) = g.offsets[u + 1]
    BY <2>5, <2>8, <2>9, ListFacts
  <2>11. p \in Kept(g)
    BY <2>5, <2>7, <2>9, <2>10 DEF Kept
  <2>12. w \in Rest(g, p) /\ w \in Other(g, p)
    <3>1. r \in p + 1 .. ListEnd(g, p)
      BY <2>5, <2>7, <2>10
    <3>2. k \in OtherStart(g, p) + 1 .. OtherEnd(g, p)
      BY <2>2, <2>4 DEF OtherStart, OtherEnd
    <3>. QED BY <2>3, <2>4, <3>1, <3>2 DEF Rest, Other
  <2>13. <<p, w>> \in S
    BY <2>1, <2>9, <2>11, <2>12 DEF CornersOf, Flat
  <2>14. f[<<p, w>>] = <<<<u, v>>, w>>
    BY <2>2, <2>10, <2>13
  <2>. QED BY <2>1, <2>13, <2>14
<1>9. ExistsBijection(S, Triangles)
  <2>. HIDE DEF f, S
  <2>1. f \in Injection(S, Triangles)
    BY <1>6, <1>7 DEF Injection, IsInjective
  <2>2. f \in Surjection(S, Triangles)
    BY <1>6, <1>8 DEF Surjection
  <2>. QED BY <2>1, <2>2 DEF ExistsBijection, Bijection
<1>. QED BY <1>9, CornersFacts, FS_Bijection

-----------------------------------------------------------------------------
(* The sums of the values of a sequence.                                   *)
Sums(s, f, n) == f = [k \in 0 .. n |-> IF k = 0 THEN 0 ELSE f[k - 1] + s[k]]

LEMMA SumsExist ==
  ASSUME NEW s, NEW n \in Nat
  PROVE  \E f : Sums(s, f, n)
<1> DEFINE W == {k \in Nat : ~ \E f : Sums(s, f, k)}
<1>1. SUFFICES ASSUME W # {} PROVE FALSE
  OBVIOUS
<1>2. PICK m \in W : \A k \in W : m <= k
  <2>1. W \in SUBSET Nat
    OBVIOUS
  <2>. HIDE DEF W
  <2>. QED BY <1>1, <2>1, Least
<1>3. m # 0
  <2>1. SUFFICES ASSUME m = 0 PROVE \E f : Sums(s, f, 0)
    BY <1>2
  <2> DEFINE f == [k \in 0 .. 0 |-> 0]
  <2>2. f = [k \in 0 .. 0 |-> IF k = 0 THEN 0 ELSE f[k - 1] + s[k]]
    OBVIOUS
  <2>. QED BY <2>2 DEF Sums
<1>4. m \in Nat /\ m - 1 \in Nat /\ m - 1 \notin W
  BY <1>2, <1>3
<1>5. PICK e : Sums(s, e, m - 1)
  BY <1>4
<1> DEFINE f == [k \in 0 .. m |-> IF k = m THEN e[m - 1] + s[m] ELSE e[k]]
<1>6. ASSUME NEW k \in 0 .. m PROVE f[k] = IF k = 0 THEN 0 ELSE f[k - 1] + s[k]
  <2>1. CASE k = m
    <3>1. f[k - 1] = e[m - 1]
      BY <1>3, <1>4, <2>1
    <3>. QED BY <1>3, <2>1, <3>1
  <2>2. CASE k # m
    <3>1. k \in 0 .. m - 1 /\ f[k] = e[k]
      BY <1>4, <2>2
    <3>2. e[k] = IF k = 0 THEN 0 ELSE e[k - 1] + s[k]
      BY <1>5, <3>1 DEF Sums
    <3>3. k # 0 => f[k - 1] = e[k - 1]
      BY <1>4, <3>1
    <3>. QED BY <3>1, <3>2, <3>3
  <2>. QED BY <2>1, <2>2
<1>7. f = [k \in 0 .. m |-> IF k = 0 THEN 0 ELSE f[k - 1] + s[k]]
  <2>1. f = [k \in 0 .. m |-> f[k]]
    OBVIOUS
  <2>. HIDE DEF f
  <2>. QED BY <1>6, <2>1
<1>8. Sums(s, f, m)
  <2>. HIDE DEF f
  <2>. QED BY <1>7 DEF Sums
<1>. QED BY <1>2, <1>8

LEMMA SumFacts ==
  ASSUME NEW s \in Seq(Int)
  PROVE  \E f \in [0 .. Len(s) -> Int] :
           /\ SumOf(s) = f[Len(s)] /\ f[0] = 0
           /\ \A k \in 1 .. Len(s) : f[k] = f[k - 1] + s[k]
<1> DEFINE sum[n \in 0 .. Len(s)] == IF n = 0 THEN 0 ELSE sum[n - 1] + s[n]
           n == Len(s)
<1>1. SumOf(s) = sum[n]
  BY DEF SumOf
<1>2. Sums(s, sum, n)
  <2>1. n \in Nat
    OBVIOUS
  <2>2. \E f : f = [k \in 0 .. Len(s) |-> IF k = 0 THEN 0 ELSE f[k - 1] + s[k]]
    BY <2>1, SumsExist DEF Sums
  <2>. QED BY <2>2 DEF Sums
<1>. HIDE DEF sum
<1>3. /\ n \in Nat /\ \A k \in 1 .. n : s[k] \in Int
      /\ sum = [k \in 0 .. n |-> sum[k]] /\ sum[0] = 0
      /\ \A k \in 1 .. n : sum[k] = sum[k - 1] + s[k]
  <2>1. n \in Nat /\ \A k \in 1 .. n : s[k] \in Int
    OBVIOUS
  <2>. HIDE DEF n
  <2>2. sum = [k \in 0 .. n |-> IF k = 0 THEN 0 ELSE sum[k - 1] + s[k]]
    BY <1>2 DEF Sums
  <2>3. \A k \in 0 .. n : sum[k] = IF k = 0 THEN 0 ELSE sum[k - 1] + s[k]
    BY <2>2
  <2>4. sum = [k \in 0 .. n |-> sum[k]]
    BY <2>2, <2>3
  <2>5. sum[0] = 0
    BY <2>1, <2>3
  <2>6. \A k \in 1 .. n : sum[k] = sum[k - 1] + s[k]
    BY <2>1, <2>3
  <2>. QED BY <2>1, <2>4, <2>5, <2>6
<1>. HIDE DEF n
<1>4. \A k \in 0 .. n : sum[k] \in Int
  <2> DEFINE W == {k \in 0 .. n : sum[k] \notin Int}
  <2>1. SUFFICES ASSUME W # {} PROVE FALSE
    OBVIOUS
  <2>2. PICK m \in W : \A k \in W : m <= k
    <3>1. W \in SUBSET Nat
      BY <1>3
    <3>. HIDE DEF W
    <3>. QED BY <2>1, <3>1, Least
  <2>3. m \in 1 .. n /\ m - 1 \in 0 .. n /\ m - 1 \notin W
    BY <1>3, <2>2
  <2>4. sum[m - 1] \in Int /\ s[m] \in Int /\ sum[m] = sum[m - 1] + s[m]
    BY <1>3, <2>3
  <2>5. sum[m] \in Int
    BY <2>4
  <2>. QED BY <2>2, <2>5
<1>5. sum \in [0 .. n -> Int]
  BY <1>3, <1>4
<1>. QED BY <1>1, <1>3, <1>5 DEF n

LEMMA SumParts ==
  /\ SumOf(<< >>) = 0
  /\ \A s \in Seq(Int) : s # << >> => SumOf(s) = Head(s) + SumOf(Tail(s))
<1>1. SumOf(<< >>) = 0
  <2>1. << >> \in Seq(Int) /\ Len(<< >>) = 0
    OBVIOUS
  <2>. QED BY <2>1, SumFacts
<1>2. ASSUME NEW s \in Seq(Int), s # << >> PROVE SumOf(s) = Head(s) + SumOf(Tail(s))
  <2>1. PICK f \in [0 .. Len(s) -> Int] :
           /\ SumOf(s) = f[Len(s)] /\ f[0] = 0
           /\ \A k \in 1 .. Len(s) : f[k] = f[k - 1] + s[k]
    BY SumFacts
  <2>2. PICK t : t = Tail(s)
    OBVIOUS
  <2>3. PICK n \in Nat : n = Len(t)
    BY <1>2, <2>2
  <2>4. /\ t \in Seq(Int) /\ Len(s) = n + 1 /\ Head(s) = s[1]
        /\ \A k \in 1 .. n : t[k] = s[k + 1] /\ t[k] \in Int
        /\ s[1] \in Int
    BY <1>2, <2>2, <2>3
  <2>5. PICK h \in [0 .. n -> Int] :
           /\ SumOf(t) = h[n] /\ h[0] = 0
           /\ \A k \in 1 .. n : h[k] = h[k - 1] + t[k]
    BY <2>3, <2>4, SumFacts
  <2> DEFINE W == {k \in 0 .. n : f[k + 1] # s[1] + h[k]}
  <2>6. W = {}
    <3>1. SUFFICES ASSUME W # {} PROVE FALSE
      OBVIOUS
    <3>2. PICK m \in W : \A k \in W : m <= k
      <4>1. W \in SUBSET Nat
        BY <2>3
      <4>. HIDE DEF W
      <4>. QED BY <3>1, <4>1, Least
    <3>3. m # 0
      <4>1. f[1] = f[0] + s[1] /\ f[1] = s[1]
        BY <2>1, <2>3, <2>4
      <4>. QED BY <2>4, <2>5, <3>2, <4>1
    <3>4. m \in 1 .. n /\ m - 1 \in 0 .. n /\ m - 1 \notin W
      <4>1. m \in 0 .. n
        BY <2>3, <3>2
      <4>. HIDE DEF W
      <4>2. m \in 1 .. n /\ m - 1 \in 0 .. n /\ ~(m <= m - 1)
        BY <2>3, <3>3, <4>1
      <4>. QED BY <3>2, <4>2
    <3>5. f[m] = s[1] + h[m - 1]
      BY <2>3, <3>4
    <3>6. f[m + 1] = f[m] + s[m + 1]
      <4>1. m + 1 \in 1 .. n + 1 /\ m + 1 - 1 = m
        BY <2>3, <3>4
      <4>. QED BY <2>1, <2>4, <4>1
    <3>7. h[m] = h[m - 1] + s[m + 1] /\ s[m + 1] \in Int /\ h[m - 1] \in Int /\ s[1] \in Int
      BY <2>4, <2>5, <3>4
    <3>8. f[m + 1] = s[1] + h[m]
      <4>. HIDE DEF W
      <4>1. PICK a, b, c \in Int : a = s[1] /\ b = h[m - 1] /\ c = s[m + 1]
        BY <3>7, Zenon
      <4>2. f[m + 1] = (a + b) + c /\ h[m] = b + c
        BY <3>5, <3>6, <3>7, <4>1, Zenon
      <4>3. (a + b) + c = a + (b + c)
        OBVIOUS
      <4>. QED BY <4>1, <4>2, <4>3, Zenon
    <3>. QED BY <3>2, <3>8
  <2>7. f[n + 1] = s[1] + h[n]
    <3>1. n \in 0 .. n
      BY <2>3
    <3>. QED BY <2>6, <3>1
  <2>. QED BY <2>1, <2>2, <2>4, <2>5, <2>7
<1>. QED BY <1>1, <1>2

LEMMA NumbersCarried ==
  ASSUME NEW seq, NEW S, NEW f, Carries(seq, S, f), \A x \in S : f[x] \in Int
  PROVE  seq \in Seq(Int)
<1>1. PICK V : seq \in Seq(V)
  BY DEF Carries
<1>2. PICK t \in [1 .. Len(seq) -> S] : \A i \in 1 .. Len(seq) : seq[i] = f[t[i]]
  BY DEF Carries
<1>3. \A i \in 1 .. Len(seq) : seq[i] \in Int
  BY <1>2
<1>. QED BY <1>1, <1>3

(* What tc carries adds up to the triangles of its pairs.                  *)
LEMMA SumCarried ==
  ASSUME NEW g \in Files, NEW seq, NEW S \in SUBSET Flat(Kept(g)),
         Carries(seq, S, Common(g))
  PROVE  SumOf(seq) = Cardinality(CornersOf(g, S))
<1> DEFINE Wrong(s, U) == /\ U \in SUBSET Flat(Kept(g)) /\ Carries(s, U, Common(g))
                          /\ SumOf(s) # Cardinality(CornersOf(g, U))
           W == {n \in Nat : \E s, U : Wrong(s, U) /\ Len(s) = n}
<1>1. W = {}
  <2>1. SUFFICES ASSUME W # {} PROVE FALSE
    OBVIOUS
  <2>2. PICK m \in W : \A k \in W : m <= k
    <3>1. W \in SUBSET Nat
      OBVIOUS
    <3>. HIDE DEF W
    <3>. QED BY <2>1, <3>1, Least
  <2>3. PICK s, U : Wrong(s, U) /\ Len(s) = m
    BY <2>2
  <2>4. U \in SUBSET Place
    <3>1. Flat(Kept(g)) \in SUBSET Place
      BY SlotsArePlaces, FlatSlots
    <3>. QED BY <2>3, <3>1
  <2>5. CASE s = << >>
    <3>1. U = {}
      BY <2>3, <2>5, CarriesNothing
    <3>2. Cardinality(CornersOf(g, {})) = 0
      <4>1. CornersOf(g, {}) = {}
        BY DEF CornersOf
      <4>. QED BY <4>1, FS_EmptySet
    <3>. QED BY <2>3, <2>5, <3>1, <3>2, SumParts
  <2>6. CASE s # << >>
    <3>1. PICK x \in U : /\ Head(s) = Common(g)[x] /\ Carries(Tail(s), U \ {x}, Common(g))
      BY <2>3, <2>4, <2>6, Taken
    <3>2. PICK p \in Kept(g) : x = <<p, 0>>
      <4>1. x \in Kept(g) \X {0}
        BY <2>3 DEF Flat
      <4>2. x[1] \in Kept(g) /\ x = <<x[1], 0>>
        BY <4>1
      <4>. QED BY <4>2
    <3>3. p \in Rows(g)
      BY SlotsArePlaces
    <3>4. Cardinality(CornersOf(g, {x})) = Common(g)[x] /\ Common(g)[x] \in Nat
      BY <3>2, <3>3, CornersOfOne
    <3>5. s \in Seq(Int) /\ Tail(s) \in Seq(Int)
      <4>1. \A y \in U : Common(g)[y] \in Int
        <5>1. ASSUME NEW y \in U PROVE Common(g)[y] \in Int
          <6>1. y \in Kept(g) \X {0}
            BY <2>3 DEF Flat
          <6>2. y[1] \in Kept(g) /\ y = <<y[1], 0>>
            BY <6>1
          <6>3. y[1] \in Rows(g)
            BY <6>2, SlotsArePlaces
          <6>4. Common(g)[<<y[1], 0>>] \in Nat
            BY <6>3, CornersOfOne
          <6>. QED BY <6>2, <6>4
        <5>. QED BY <5>1
      <4>2. s \in Seq(Int)
        BY <2>3, <4>1, NumbersCarried
      <4>. QED BY <2>6, <4>2
    <3>6. Len(Tail(s)) \in Nat /\ Len(Tail(s)) < m
      BY <2>3, <2>6, <3>5
    <3>7. PICK rest : rest = Tail(s)
      OBVIOUS
    <3>8. PICK L : L = U \ {x}
      OBVIOUS
    <3>9. ~Wrong(rest, L)
      <4>1. Len(rest) \in Nat /\ Len(rest) < m
        BY <3>6, <3>7
      <4>2. SUFFICES ASSUME Wrong(rest, L) PROVE FALSE
        OBVIOUS
      <4>3. Len(rest) \in W
        <5>. HIDE DEF Wrong
        <5>. QED BY <4>1, <4>2
      <4>. HIDE DEF W
      <4>4. m \in Nat /\ m <= Len(rest)
        BY <2>2, <2>3, <4>3
      <4>. QED BY <4>1, <4>4
    <3>10. SumOf(rest) = Cardinality(CornersOf(g, L))
      BY <2>3, <3>1, <3>7, <3>8, <3>9
    <3>11. SumOf(s) = Common(g)[x] + SumOf(rest)
      BY <2>6, <3>1, <3>5, <3>7, SumParts
    <3>12. Cardinality(CornersOf(g, U)) =
             Cardinality(CornersOf(g, {x})) + Cardinality(CornersOf(g, L))
      <4>1. {x} \cap L = {} /\ U = {x} \cup L
        BY <3>1, <3>8
      <4>2. Cardinality(CornersOf(g, {x} \cup L)) =
              Cardinality(CornersOf(g, {x})) + Cardinality(CornersOf(g, L))
        BY <4>1, CornersApart
      <4>. QED BY <4>1, <4>2
    <3>. QED BY <2>3, <3>4, <3>10, <3>11, <3>12
  <2>. QED BY <2>5, <2>6
<1>2. SUFFICES ASSUME SumOf(seq) # Cardinality(CornersOf(g, S)) PROVE FALSE
  OBVIOUS
<1>3. Len(seq) \in Nat
  BY DEF Carries
<1>4. Wrong(seq, S)
  BY <1>2
<1>. HIDE DEF Wrong
<1>5. Len(seq) \in W
  BY <1>3, <1>4
<1>. QED BY <1>1, <1>5

-----------------------------------------------------------------------------
LEMMA NetTypes ==
  ASSUME Net
  PROVE  TypeOK
<1>1. PICK g \in Files : /\ off = g.offsets /\ rows = g.columns
                         /\ \E rd, wr \in [Names -> Place] : NetAt(g, rd, wr)
  BY DEF Net
<1>2. PICK rd \in [Names -> Place], wr \in [Names -> Place] : NetAt(g, rd, wr)
  BY <1>1
<1>3. LoadAt(g, rd, wr) /\ BlockAt(g, rd, wr) /\ MergeAt(g, rd, wr) /\ AccAt(g, rd, wr)
  BY <1>2 DEF NetAt
<1>4. acc.triangles \in Nat
  BY <1>3, CornersFacts DEF AccAt
<1>5. block.left \in 0 .. Modulus - 1
  BY <1>3 DEF BlockAt
<1>6. load.ok \in BOOLEAN
  BY <1>3, Zenon DEF LoadAt
<1>7. merge.num \in Nat /\ merge.v1 \in Vertex /\ merge.v2 \in Vertex
  <2>1. CASE merge.v1 = 0 /\ merge.v2 = 0 /\ merge.num = 0
    <3>1. 0 \in Vertex
      BY TriangleAssumption DEF Vertex
    <3>. QED BY <2>1, <3>1
  <2>2. ASSUME NEW p, NEW y, NEW r1, NEW r2, MergeTurns(g, rd, wr, p, y, r1, r2)
        PROVE  merge.num \in Nat /\ merge.v1 \in Vertex /\ merge.v2 \in Vertex
    <3>1. /\ p \in Kept(g) /\ r1 \in Int /\ r2 \in Int /\ Merged(g, p, r1, r2, merge)
      BY <2>2 DEF MergeTurns
    <3>2. p \in Rows(g) /\ p \in 1 .. N(g)
      BY <3>1, SlotsArePlaces DEF Rows
    <3>3. /\ r1 \in p + 1 .. ListEnd(g, p) + 1 /\ r2 \in OtherStart(g, p) .. OtherEnd(g, p)
          /\ merge.num = Cardinality(Firsts(g, p, r1) \cap Seconds(g, p, r2))
          /\ merge.v1 = LastFirst(g, p, r1) /\ merge.v2 = LastSecond(g, p, r2)
      BY <3>1 DEF Merged
    <3>4. IsFiniteSet(Firsts(g, p, r1)) /\ LastFirst(g, p, r1) \in Vertex
      <4>1. p + 1 <= r1 /\ r1 <= ListEnd(g, p) + 1
        BY <3>3
      <4>. QED BY <3>1, <3>2, <4>1, FirstsFacts
    <3>5. LastSecond(g, p, r2) \in Vertex
      <4>1. OtherStart(g, p) <= r2 /\ r2 <= OtherEnd(g, p)
        BY <3>3
      <4>. QED BY <3>1, <3>2, <4>1, SecondsFacts
    <3>6. merge.num \in Nat
      <4>1. Firsts(g, p, r1) \cap Seconds(g, p, r2) \in SUBSET Firsts(g, p, r1)
        OBVIOUS
      <4>2. IsFiniteSet(Firsts(g, p, r1) \cap Seconds(g, p, r2))
        BY <3>4, <4>1, FS_Subset
      <4>. QED BY <3>3, <4>2, FS_CardinalityType
    <3>. QED BY <3>3, <3>4, <3>5, <3>6
  <2>. QED BY <1>3, <2>1, <2>2 DEF MergeAt
<1>. QED BY <1>4, <1>5, <1>6, <1>7 DEF TypeOK, Net, Fits

(* The first number of a slot is bounded by its FIFO's.                    *)
LEMMA SlotBounds ==
  ASSUME NEW g \in Files
  PROVE  /\ \A s \in Lists : \A y \in Slots(g)[s] : y[1] < nLists + 1
         /\ \A s \in {"row1", "row12", "col1", "col1BlockEnd"} :
              \A y \in Slots(g)[s] : y[1] < N(g) + 1
         /\ \A s \in Names \ Lists : \A y \in Slots(g)[s] : y[1] < N(g) + 2
<1>1. nLists \in Nat /\ N(g) \in Nat /\ Kept(g) \in SUBSET Rows(g) /\ Kept(g) \in SUBSET 1 .. N(g)
  BY SlotsArePlaces DEF Rows
<1>2. \A Q : \A y \in Flat(Q) : y[1] \in Q
  BY DEF Flat
<1>3. ASSUME NEW s \in Lists, NEW y \in Slots(g)[s] PROVE y[1] < nLists + 1
  <2>1. Slots(g)[s] = Flat(ListsOf(g)) \/ Slots(g)[s] = Flat(0 .. nLists)
    BY SlotFacts DEF Lists
  <2>2. y[1] \in 0 .. nLists
    <3>1. \A u \in ListsOf(g) : u \in 0 .. nLists
      BY <1>1 DEF ListsOf
    <3>. QED BY <1>2, <2>1, <3>1
  <2>. QED BY <1>1, <2>2
<1>4. ASSUME NEW s \in {"row1", "row12", "col1", "col1BlockEnd"}, NEW y \in Slots(g)[s]
      PROVE  y[1] \in 1 .. N(g)
  <2>1. Slots(g)[s] = Flat(Rows(g)) \/ Slots(g)[s] = Blocks(g)
    BY SlotFacts
  <2>2. Rows(g) = 1 .. N(g) /\ \A x \in Blocks(g) : x[1] \in Rows(g)
    BY DEF Rows, Blocks
  <2>. QED BY <1>2, <2>1, <2>2
<1>5. ASSUME NEW s \in Names \ Lists, NEW y \in Slots(g)[s] PROVE y[1] < N(g) + 2
  <2>1. CASE s \in {"row1", "row12", "col1", "col1BlockEnd"}
    <3>1. y[1] \in 1 .. N(g)
      BY <1>4, <2>1
    <3>. QED BY <1>1, <3>1
  <2>2. CASE s \in {"row1End", "row1End2"}
    <3>1. Slots(g)[s] = Flat(1 .. N(g) + 1)
      BY <2>2, SlotFacts
    <3>2. y[1] \in 1 .. N(g) + 1
      BY <1>2, <3>1
    <3>. QED BY <1>1, <3>2
  <2>3. CASE s \in {"row1Reduce", "offset2", "row2Dist", "tc"} \cup
                   {"row1ReduceEnd", "offset2End", "row2DistEnd", "col1CopyEnd", "tcEnd"}
    <3>1. Slots(g)[s] = Flat(Kept(g)) \/ Slots(g)[s] = Flat(KeptOrEnd(g))
      BY <2>3, SlotFacts
    <3>2. y[1] \in KeptOrEnd(g)
      BY <1>2, <3>1 DEF KeptOrEnd
    <3>3. y[1] \in 1 .. N(g) \/ y[1] = N(g) + 1
      BY <1>1, <3>2 DEF KeptOrEnd
    <3>. QED BY <1>1, <3>3
  <2>4. CASE s \in {"col1Copy", "col1CopyBlockEnd", "row2Addr", "row2AddrEnd", "row2Continue",
                    "row2", "row2BlockEnd"}
    <3>1. \A k : /\ \A x \in Upper(g, k) : x[1] \in Kept(g)
                 /\ \A x \in Lower(g, k) : x[1] \in Kept(g)
      BY DEF Upper, Lower
    <3>2. \/ Slots(g)[s] = Upper(g, 0) \/ Slots(g)[s] = Upper(g, 1)
          \/ Slots(g)[s] = Lower(g, 0) \/ Slots(g)[s] = Lower(g, 1)
          \/ Slots(g)[s] = Lower(g, 0) \cup {<<N(g) + 1, 0>>}
      BY <2>4, SlotFacts
    <3>3. y[1] \in Kept(g) \/ y[1] = N(g) + 1
      BY <3>1, <3>2
    <3>4. y[1] \in 1 .. N(g) \/ y[1] = N(g) + 1
      BY <1>1, <3>3
    <3>. QED BY <1>1, <3>4
  <2>. QED BY <2>1, <2>2, <2>3, <2>4 DEF Names, Between, Start, Lists
<1>6. \A a \in 1 .. N(g) : a < N(g) + 1
  BY <1>1
<1>. QED BY <1>3, <1>4, <1>5, <1>6

(* Where the readers are when all processes have returned.                 *)
LEMMA DonePlaces ==
  ASSUME NEW g \in Files, NEW rd \in [Names -> Place], NEW wr \in [Names -> Place],
         NetAt(g, rd, wr), Done
  PROVE  /\ \A s \in Lists : rd[s] = <<nLists + 1, 0>>
         /\ \A s \in {"row1", "row12", "col1", "col1BlockEnd"} : rd[s] = <<N(g) + 1, 0>>
         /\ \A s \in {"row2Addr", "row2AddrEnd"} : \A y \in Slots(g)[s] : Before(y, rd[s])
         /\ \A s \in {"row1End", "row1End2"} \cup PairsReads \cup AddrReads \cup BlockReads
                       \cup MergeReads \cup AccReads : rd[s] = <<N(g) + 2, 0>>
<1>1. /\ core.pc = "done" /\ copy.pc = "done" /\ reduce.pc = "done" /\ pairs.pc = "done"
      /\ addr.pc = "done" /\ load.pc = "done" /\ block.pc = "done" /\ merge.pc = "done"
      /\ acc.pc = "done"
  BY DEF Done
<1>2. N(g) \in Nat /\ N(g) + 1 + 1 = N(g) + 2
  BY SlotsArePlaces
<1>3. /\ rd["offset1"] = <<nLists + 1, 0>> /\ rd["offset1End"] = <<nLists + 1, 0>>
      /\ rd["row1"] = <<N(g) + 1, 0>> /\ rd["row1End"] = <<N(g) + 2, 0>>
  <2>1. CoreAt(g, rd, wr)
    BY DEF NetAt
  <2>. QED BY <1>1, <2>1 DEF CoreAt
<1>4. /\ rd["offset12"] = <<nLists + 1, 0>> /\ rd["offset1End2"] = <<nLists + 1, 0>>
      /\ rd["row12"] = <<N(g) + 1, 0>> /\ rd["row1End2"] = <<N(g) + 2, 0>>
  <2>1. ReduceAt(g, rd, wr)
    BY DEF NetAt
  <2>. QED BY <1>1, <2>1 DEF ReduceAt
<1>5. /\ rd["col1End"] = <<nLists + 1, 0>> /\ rd["copyNum"] = <<nLists + 1, 0>>
      /\ rd["col1"] = <<N(g) + 1, 0>> /\ rd["col1BlockEnd"] = <<N(g) + 1, 0>>
  <2>1. CopyAt(g, rd, wr)
    BY DEF NetAt
  <2>2. ~CopyTurns(g, rd["col1End"][1], rd["col1"][1] - 1, rd["col1BlockEnd"], wr)
    BY <1>1 DEF CopyTurns
  <2>3. rd["col1End"][1] = nLists + 1 /\ rd["col1"][1] - 1 = N(g)
    BY <1>1, <2>1, <2>2 DEF CopyAt
  <2>. QED BY <2>1, <2>2, <2>3 DEF CopyAt
<1>6. \A s \in PairsReads : rd[s] = <<N(g) + 2, 0>>
  <2>1. PairsAt(g, rd, wr)
    BY DEF NetAt
  <2>. QED BY <1>1, <2>1 DEF PairsAt
<1>7. \A s \in AddrReads : rd[s] = <<N(g) + 2, 0>>
  <2>1. AddrAt(g, rd, wr)
    BY DEF NetAt
  <2>. QED BY <1>1, <2>1 DEF AddrAt
<1>8. \A s \in BlockReads : rd[s] = <<N(g) + 2, 0>>
  <2>1. BlockAt(g, rd, wr)
    BY DEF NetAt
  <2>. QED BY <1>1, <2>1 DEF BlockAt, BlockReads
<1>9. \A s \in MergeReads : rd[s] = <<N(g) + 2, 0>>
  <2>1. MergeAt(g, rd, wr)
    BY DEF NetAt
  <2>. QED BY <1>1, <2>1 DEF MergeAt
<1>10. \A s \in AccReads : rd[s] = <<N(g) + 2, 0>>
  <2>1. AccAt(g, rd, wr)
    BY DEF NetAt
  <2>. QED BY <1>1, <2>1 DEF AccAt, AccReads
<1>11. \A s \in {"row2Addr", "row2AddrEnd"} : \A y \in Slots(g)[s] : Before(y, rd[s])
  <2>1. LoadAt(g, rd, wr) /\ Slots(g)["row2Addr"] = Lower(g, 0)
    BY SlotFacts DEF NetAt
  <2>. QED BY <1>1, <2>1 DEF LoadAt
<1>12. \A s \in Lists : rd[s] = <<nLists + 1, 0>>
  BY <1>3, <1>4, <1>5 DEF Lists
<1>. QED BY <1>3, <1>4, <1>5, <1>6, <1>7, <1>8, <1>9, <1>10, <1>11, <1>12

LEMMA NetLeavesNothing ==
  ASSUME Net
  PROVE  NothingLeftOver
<1>1. SUFFICES ASSUME Done, NEW s \in DOMAIN q PROVE q[s] = << >>
  BY DEF NothingLeftOver
<1>2. PICK g \in Files : /\ off = g.offsets /\ rows = g.columns
                         /\ \E rd, wr \in [Names -> Place] : NetAt(g, rd, wr)
  BY DEF Net
<1>3. PICK rd \in [Names -> Place], wr \in [Names -> Place] : NetAt(g, rd, wr)
  BY <1>2
<1>4. Flow(g, rd, wr)
  BY <1>3 DEF NetAt
<1>5. s \in Names /\ Holds(q[s], Slots(g)[s], Says(g)[s], rd[s], wr[s])
  BY <1>4 DEF Flow
<1>6. \A y \in Slots(g)[s] : Before(y, rd[s])
  <2>1. CASE s \in Lists
    <3>1. rd[s] = <<nLists + 1, 0>> /\ \A y \in Slots(g)[s] : y[1] < nLists + 1
      BY <1>1, <1>3, <2>1, DonePlaces, SlotBounds
    <3>. QED BY <3>1 DEF Before
  <2>2. CASE s \in {"row1", "row12", "col1", "col1BlockEnd"}
    <3>1. rd[s] = <<N(g) + 1, 0>> /\ \A y \in Slots(g)[s] : y[1] < N(g) + 1
      BY <1>1, <1>3, <2>2, DonePlaces, SlotBounds
    <3>. QED BY <3>1 DEF Before
  <2>3. CASE s \in {"row2Addr", "row2AddrEnd"}
    BY <1>1, <1>3, <2>3, DonePlaces
  <2>4. CASE s \in {"row1End", "row1End2"} \cup PairsReads \cup AddrReads \cup BlockReads
                     \cup MergeReads \cup AccReads
    <3>1. rd[s] = <<N(g) + 2, 0>>
      BY <1>1, <1>3, <2>4, DonePlaces
    <3>2. s \in Names \ Lists
      BY <1>5, <2>4 DEF Lists, PairsReads, AddrReads, BlockReads, MergeReads, AccReads
    <3>3. \A y \in Slots(g)[s] : y[1] < N(g) + 2
      BY <3>2, SlotBounds
    <3>. QED BY <3>1, <3>3 DEF Before
  <2>. QED BY <1>5, <2>1, <2>2, <2>3, <2>4
         DEF Names, Between, Start, Lists, PairsReads, AddrReads, BlockReads, MergeReads, AccReads
<1>. QED BY <1>5, <1>6, NothingAhead

LEMMA NetCounts ==
  ASSUME Net
  PROVE  CountsTriangles
<1>1. SUFFICES ASSUME Done PROVE acc.triangles = Cardinality(Triangles)
  BY DEF CountsTriangles
<1>2. PICK g \in Files : /\ off = g.offsets /\ rows = g.columns
                         /\ \E rd, wr \in [Names -> Place] : NetAt(g, rd, wr)
  BY DEF Net
<1>3. PICK rd \in [Names -> Place], wr \in [Names -> Place] : NetAt(g, rd, wr)
  BY <1>2
<1>4. rd["tc"] = <<N(g) + 2, 0>>
  BY <1>1, <1>3, DonePlaces DEF AccReads
<1>5. \A y \in Flat(Kept(g)) : Before(y, <<N(g) + 2, 0>>)
  <2>1. "tc" \in Names \ Lists /\ Slots(g)["tc"] = Flat(Kept(g))
    BY SlotFacts DEF Names, Between, Start, Lists
  <2>2. \A y \in Flat(Kept(g)) : y[1] < N(g) + 2
    BY <2>1, SlotBounds
  <2>. QED BY <2>2 DEF Before
<1>6. Passed(Flat(Kept(g)), rd["tc"]) = Flat(Kept(g))
  BY <1>4, <1>5 DEF Passed
<1>7. acc.triangles = Cardinality(CornersOf(g, Passed(Flat(Kept(g)), rd["tc"])))
  BY <1>3 DEF NetAt, AccAt
<1>. QED BY <1>2, <1>6, <1>7, AllCorners

(* What mergeImpl has found of a pair is not yet in tc.                    *)
LEMMA MergeAhead ==
  ASSUME NEW g \in Files, NEW rd \in [Names -> Place], NEW wr \in [Names -> Place],
         NetAt(g, rd, wr)
  PROVE  \E M \in SUBSET Flat(Kept(g)) :
           /\ \A x \in M : ~Before(x, wr["tc"])
           /\ merge.num <= Cardinality(CornersOf(g, M))
<1>1. MergeAt(g, rd, wr)
  BY DEF NetAt
<1>2. CASE merge.v1 = 0 /\ merge.v2 = 0 /\ merge.num = 0
  <2>1. 0 <= Cardinality(CornersOf(g, {}))
    <3>1. CornersOf(g, {}) = {}
      BY DEF CornersOf
    <3>. QED BY <3>1, FS_EmptySet
  <2>. QED BY <1>2, <2>1
<1>3. ASSUME NEW p, NEW y, NEW r1, NEW r2, MergeTurns(g, rd, wr, p, y, r1, r2)
      PROVE  /\ {<<p, 0>>} \in SUBSET Flat(Kept(g)) /\ ~Before(<<p, 0>>, wr["tc"])
             /\ merge.num <= Cardinality(CornersOf(g, {<<p, 0>>}))
  <2>1. /\ p \in Kept(g) /\ y \in Int /\ y <= p /\ r1 \in Int /\ r2 \in Int
        /\ wr["tc"] = <<y, 0>> /\ Merged(g, p, r1, r2, merge)
    BY <1>3 DEF MergeTurns, IsNext
  <2>2. p \in Rows(g) /\ p \in 1 .. N(g) /\ p \in Int
    BY <2>1, SlotsArePlaces DEF Rows
  <2>3. {<<p, 0>>} \in SUBSET Flat(Kept(g)) /\ ~Before(<<p, 0>>, wr["tc"])
    BY <2>1, <2>2 DEF Flat, Before
  <2>4. /\ r1 \in p + 1 .. ListEnd(g, p) + 1 /\ r2 \in OtherStart(g, p) .. OtherEnd(g, p)
        /\ merge.num = Cardinality(Firsts(g, p, r1) \cap Seconds(g, p, r2))
    BY <2>1 DEF Merged
  <2>5. ListEnd(g, p) \in Int /\ OtherStart(g, p) \in Int /\ OtherEnd(g, p) \in Int
    BY <2>2, ListFacts, OtherFacts
  <2>6. Firsts(g, p, r1) \subseteq Rest(g, p)
    <3>1. \A k \in p + 1 .. r1 - 1 : k \in p + 1 .. ListEnd(g, p)
      BY <2>2, <2>4, <2>5
    <3>. QED BY <3>1 DEF Firsts, Rest
  <2>7. Seconds(g, p, r2) \subseteq Other(g, p)
    <3>1. \A k \in OtherStart(g, p) + 1 .. r2 : k \in OtherStart(g, p) + 1 .. OtherEnd(g, p)
      BY <2>4, <2>5
    <3>. QED BY <3>1 DEF Seconds, Other
  <2>8. IsFiniteSet(Rest(g, p) \cap Other(g, p))
    <3>1. Rest(g, p) = Firsts(g, p, ListEnd(g, p) + 1)
      <4>1. PICK e \in Int : e = ListEnd(g, p)
        BY <2>5
      <4>2. p + 1 .. e + 1 - 1 = p + 1 .. e
        BY <2>2
      <4>3. Firsts(g, p, e + 1) = {g.columns[k] : k \in p + 1 .. e}
        BY <4>2 DEF Firsts
      <4>. QED BY <4>1, <4>3 DEF Rest
    <3>2. IsFiniteSet(Rest(g, p))
      <4>1. p + 1 <= ListEnd(g, p) + 1 /\ ListEnd(g, p) + 1 \in Int
        BY <2>2, <2>5, ListFacts
      <4>. QED BY <2>2, <3>1, <4>1, FirstsFacts
    <3>3. Rest(g, p) \cap Other(g, p) \in SUBSET Rest(g, p)
      OBVIOUS
    <3>. QED BY <3>2, <3>3, FS_Subset
  <2>9. merge.num <= Cardinality(Rest(g, p) \cap Other(g, p))
    <3>1. Firsts(g, p, r1) \cap Seconds(g, p, r2) \in SUBSET (Rest(g, p) \cap Other(g, p))
      BY <2>6, <2>7
    <3>. QED BY <2>4, <2>8, <3>1, FS_Subset
  <2>. QED BY <2>2, <2>3, <2>9, CornersOfOne
<1>. QED BY <1>1, <1>2, <1>3 DEF MergeAt

LEMMA NetNeverOvercounts ==
  ASSUME Net
  PROVE  NeverOvercounts
<1>1. PICK g \in Files : /\ off = g.offsets /\ rows = g.columns
                         /\ \E rd, wr \in [Names -> Place] : NetAt(g, rd, wr)
  BY DEF Net
<1>2. PICK rd \in [Names -> Place], wr \in [Names -> Place] : NetAt(g, rd, wr)
  BY <1>1
<1> DEFINE S == Flat(Kept(g))
           A == Passed(S, rd["tc"])
           B == {x \in S : ~Before(x, rd["tc"]) /\ Before(x, wr["tc"])}
<1>3. Holds(q["tc"], S, Common(g), rd["tc"], wr["tc"])
  <2>1. "tc" \in Names
    BY DEF Names, Between
  <2>2. Flow(g, rd, wr) /\ Slots(g)["tc"] = S /\ Says(g)["tc"] = Common(g)
    BY <1>2, SlotFacts, SaysFacts DEF NetAt
  <2>. QED BY <2>1, <2>2, Zenon DEF Flow
<1>4. acc.triangles = Cardinality(CornersOf(g, A))
  BY <1>2 DEF NetAt, AccAt
<1>5. SumOf(q["tc"]) = Cardinality(CornersOf(g, B))
  <2>1. B \in SUBSET S /\ Carries(q["tc"], B, Common(g))
    BY <1>3 DEF Holds
  <2>. HIDE DEF B
  <2>. QED BY <2>1, SumCarried
<1>6. PICK M \in SUBSET S : /\ \A x \in M : ~Before(x, wr["tc"])
                            /\ merge.num <= Cardinality(CornersOf(g, M))
  BY <1>2, MergeAhead
<1>7. A \cap B = {} /\ (A \cup B) \cap M = {} /\ (A \cup B) \cup M \in SUBSET S
  BY <1>3, <1>6 DEF Holds, Passed
<1>. HIDE DEF A, B, S
<1>8. Cardinality(CornersOf(g, (A \cup B) \cup M)) =
        (Cardinality(CornersOf(g, A)) + Cardinality(CornersOf(g, B)))
          + Cardinality(CornersOf(g, M))
  <2>1. Cardinality(CornersOf(g, (A \cup B) \cup M)) =
          Cardinality(CornersOf(g, A \cup B)) + Cardinality(CornersOf(g, M))
    BY <1>7, CornersApart
  <2>2. Cardinality(CornersOf(g, A \cup B)) =
          Cardinality(CornersOf(g, A)) + Cardinality(CornersOf(g, B))
    BY <1>7, CornersApart
  <2>. QED BY <2>1, <2>2
<1>9. Cardinality(CornersOf(g, (A \cup B) \cup M)) <= Cardinality(Triangles)
  <2>1. Cardinality(CornersOf(g, (A \cup B) \cup M)) <= Cardinality(CornersOf(g, S))
    BY <1>7, CornersFacts
  <2>2. Cardinality(Triangles) = Cardinality(CornersOf(g, S))
    BY <1>1, AllCorners DEF S
  <2>. QED BY <2>1, <2>2
<1>10. merge.num \in Nat
  BY NetTypes DEF TypeOK
<1>11. PICK a, b, c, d, m \in Int :
         /\ a = Cardinality(CornersOf(g, A)) /\ b = Cardinality(CornersOf(g, B))
         /\ c = Cardinality(CornersOf(g, M)) /\ m = merge.num
         /\ d = Cardinality(CornersOf(g, (A \cup B) \cup M))
  <2>1. \A U : Cardinality(CornersOf(g, U)) \in Int
    BY CornersFacts
  <2>. QED BY <1>10, <2>1
<1>12. d = (a + b) + c /\ m <= c /\ d <= Cardinality(Triangles)
  BY <1>6, <1>8, <1>9, <1>11, Zenon
<1>13. acc.triangles + SumOf(q["tc"]) + merge.num = (a + b) + m
  BY <1>4, <1>5, <1>11, Zenon
<1>14. Cardinality(Triangles) \in Nat
  BY <1>1, AllCorners, FS_CardinalityType
<1>15. (a + b) + m <= Cardinality(Triangles)
  BY <1>12, <1>14
<1>16. q.tc = q["tc"]
  OBVIOUS
<1>. QED BY <1>13, <1>15, <1>16 DEF NeverOvercounts
-----------------------------------------------------------------------------
(* The inductive invariant, and what follows from it in every state: the   *)
(* numbers are in range and no FIFO is longer than it may be, distances    *)
(* do not wrap around, and mergeImpl compares vertices only.               *)
THEOREM TypesHold ==
  ASSUME LastWordHeld
  PROVE  Spec => []TypeOK
<1>1. Spec => []Net
  BY NetHolds
<1>. QED BY <1>1, NetTypes, PTL

(* Whatever the order of the turns, a call that returns has counted each   *)
(* triangle once: tcAccUnit has added the sizes of the intersections of    *)
(* the right pairs of lists, and there is one pair for each edge.          *)
THEOREM TrianglesCounted ==
  ASSUME LastWordHeld
  PROVE  Spec => []CountsTriangles
<1>1. Spec => []Net
  BY NetHolds
<1>. QED BY <1>1, NetCounts, PTL

(* What tcAccUnit has added, the results on their way to it and what       *)
(* mergeImpl has found of the present pair are never more than the graph   *)
(* has.                                                                    *)
THEOREM NothingCountedTwice ==
  ASSUME LastWordHeld
  PROVE  Spec => []NeverOvercounts
<1>1. Spec => []Net
  BY NetHolds
<1>. QED BY <1>1, NetNeverOvercounts, PTL

(* The upper and the lower path send the same pairs: a call that returns   *)
(* has emptied every FIFO, so that the next one starts as the first did.   *)
THEOREM EverythingIsTaken ==
  ASSUME LastWordHeld
  PROVE  Spec => []NothingLeftOver
<1>1. Spec => []Net
  BY NetHolds
<1>. QED BY <1>1, NetLeavesNothing, PTL
=============================================================================
