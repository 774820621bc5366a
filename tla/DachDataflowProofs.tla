------------------------- MODULE DachDataflowProofs -------------------------
(***************************************************************************)
(* Proofs about DachDataflow for every geometry and policy of the cache,   *)
(* every number of ports, every latency and any number of iterations: the  *)
(* three processes keep in step, and seen through its ports the cache is a *)
(* plain array (PortMemory).                                               *)
(***************************************************************************)
EXTENDS DachDataflow, FiniteSetTheorems, TLAPS

-----------------------------------------------------------------------------
(* What the operators of Replacer do, as in DachCacheProofs.               *)

(* The ways are the integers from 0 to NWays - 1. *)
LEMMA WaysFacts == /\ Ways \subseteq Int
                   /\ 0 \in Ways /\ NWays - 1 \in Ways
                   /\ \A w \in Ways : 0 <= w /\ w <= NWays - 1
BY ReplacerAssumption DEF Ways

(* In an order, the search loop of notify_use finds the one index of w. *)
LEMMA PositionFound ==
  ASSUME NEW ord, IsOrder(ord), NEW i \in Ways
  PROVE  Position(ord, ord[i]) = i
<1> DEFINE P(k) == /\ ord[k] = ord[i]
                   /\ \A j \in Ways : ord[j] = ord[i] => j <= k
<1>1. \E k \in Ways : ord[k] = ord[i]
  OBVIOUS
<1>2. \A k \in Ways : P(k) => k = i
  BY DEF IsOrder
<1>3. P(i)
  BY WaysFacts DEF IsOrder
<1>4. (CHOOSE k \in Ways : P(k)) = i
  BY <1>2, <1>3
<1>. QED BY <1>1, <1>4 DEF Position

(* notify_use moves w to the end and keeps every other way exactly once. *)
LEMMA NotifyUseOrder ==
  ASSUME NEW ord, IsOrder(ord), NEW w \in Ways
  PROVE  IsOrder(NotifyUse(ord, w))
<1>1. CASE ~Lru
  BY <1>1 DEF NotifyUse
<1>2. CASE Lru
  <2>1. PICK p \in Ways : ord[p] = w
    BY DEF IsOrder
  <2>2. Position(ord, w) = p
    BY <2>1, PositionFound
  <2> DEFINE new == [i \in Ways |-> IF i = NWays - 1 THEN w
                                    ELSE IF i >= p THEN ord[i + 1]
                                    ELSE ord[i]]
  <2>3. NotifyUse(ord, w) = new
    BY <1>2, <2>2 DEF NotifyUse
  <2>a. \A i \in Ways : i # NWays - 1 => i + 1 \in Ways
    BY ReplacerAssumption DEF Ways
  <2>b. ord \in [Ways -> Ways] /\ \A i, j \in Ways : ord[i] = ord[j] => i = j
    BY DEF IsOrder
  <2>4. new \in [Ways -> Ways]
    BY <2>a, <2>b, WaysFacts
  <2>5. ASSUME NEW i \in Ways, NEW j \in Ways, new[i] = new[j]
        PROVE  i = j
    <3> DEFINE src(k) == IF k = NWays - 1 THEN p ELSE IF k >= p THEN k + 1 ELSE k
    <3>1. \A k \in Ways : src(k) \in Ways /\ new[k] = ord[src(k)]
      BY <2>1, <2>a
    <3>2. src(i) = src(j)
      BY <2>5, <2>b, <3>1
    <3>. QED BY <3>2, WaysFacts
  <2>6. ASSUME NEW v \in Ways
        PROVE  \E i \in Ways : new[i] = v
    <3>1. PICK k \in Ways : ord[k] = v
      BY DEF IsOrder
    <3>2. CASE k < p
      BY <2>1, <3>1, <3>2, WaysFacts
    <3>3. CASE k = p
      BY <2>1, <3>1, <3>3, WaysFacts
    <3>4. CASE k > p
      <4>1. k - 1 \in Ways /\ k - 1 # NWays - 1 /\ k - 1 >= p
        BY <3>4, ReplacerAssumption DEF Ways
      <4>2. new[k - 1] = ord[k]
        BY <4>1, WaysFacts
      <4>. QED BY <3>1, <4>1, <4>2
    <3>. QED BY <3>2, <3>3, <3>4, WaysFacts
  <2>. QED BY <2>3, <2>4, <2>5, <2>6 DEF IsOrder
<1>. QED BY <1>1, <1>2

(* init() puts every way in the order once. *)
LEMMA InitialOrderIsOrder == IsOrder(InitialOrder)
BY DEF IsOrder, InitialOrder

(* notify_insertion keeps the way counter in range. *)
LEMMA NotifyInsertionType ==
  ASSUME NEW n \in Ways PROVE NotifyInsertion(n) \in Ways
BY ReplacerAssumption DEF NotifyInsertion, Ways

(* get_way returns a way of the set under either policy. *)
LEMMA GetWayType ==
  ASSUME NEW ord \in [Ways -> Ways], NEW n \in Ways
  PROVE  GetWay(ord, n) \in Ways
BY WaysFacts DEF GetWay
-----------------------------------------------------------------------------
(* The inductive invariant. *)
ReadReq  == {r \in [op : {"READ"}, a : Addr, off : Off] : RdEnabled}
WriteReq == {r \in [op : {"WRITE"}, a : Addr, off : Off, data : Data] : WrEnabled}
PortReq  == ReadReq \cup WriteReq \cup {StopReq}
PipeRead == [port : Ports, a : Addr, off : Off, want : Data]

Fetching == core \in {"sendReq", "sendSt", "await"}
Ending   == core \in {"flush", "flushSt", "stopMem", "done"}

(* A stage of the pipeline holds at most one read on each port. *)
ClientOK ==
  /\ pipe \in Seq(Seq(PipeRead)) /\ Len(pipe) = Latency
  /\ \A i \in 1 .. Latency : \A j, k \in DOMAIN pipe[i] :
       pipe[i][j].port = pipe[i][k].port => j = k
  /\ client \in {"running", "done"} /\ iter \in 0 .. MaxIter /\ nextPort \in Ports
  /\ array \in [Addr -> Line]

PortsOK ==
  /\ coreReq \in [Ports -> Seq(PortReq)] /\ coreResp \in [Ports -> Seq(Line)]
  /\ \A p \in Ports : Len(coreReq[p]) <= CoreDepth /\ Len(coreResp[p]) <= CoreDepth

LinesOK == /\ LinesTypeOK /\ UniqueTags /\ LruHoldsEveryWay
           /\ ~WrEnabled => \A x \in Slot : valid[x] => ~dirty[x]

(* run_core knows whether the cache has the line it works on, and the      *)
(* loop counters of flush stand at the first line until flush begins.      *)
CoreOK ==
  /\ core \in {"poll", "sendReq", "sendSt", "await", "respond",
               "flush", "flushSt", "stopMem", "done"}
  /\ port \in Ports /\ way \in Ways /\ fset \in Set /\ fway \in Ways
  /\ Serving => req \in ReadReq \cup WriteReq
  /\ core \in {"sendSt", "flush", "flushSt"} => WrEnabled
  /\ core = "respond" =>
       req \in ReadReq /\ valid[ReqSlot] /\ tag[ReqSlot] = req.a[1]
  /\ Fetching => ~IsHit(req.a[1], req.a[2])
  /\ ~Ending => fset = 0 /\ fway = 0
  /\ core = "flushSt" => FlushDirty

(* What run_core asks of run_mem_if for a line, and the line it replaces. *)
Asked == [op |-> IF MustWriteBack(ReqSlot) THEN "READ_WRITE" ELSE "READ", a |-> req.a]
WrittenBack == MustWriteBack(ReqSlot) => mem[WriteBackAddr(ReqSlot)] = data[ReqSlot]
CopyOf(x) == [a |-> WriteBackAddr(x), line |-> data[x]]
FlushReq == [op |-> "WRITE", a |-> << >>]

(* run_mem_if is idle but for the one line run_core waits for; it has read *)
(* that line, and written the replaced one, before it responds.            *)
FetchOK ==
  /\ core \in {"poll", "respond", "sendReq"} =>
       memIf = "req" /\ memReq = << >> /\ memSt = << >> /\ memResp = << >>
  /\ core = "sendSt" =>
       /\ memSt = << >> /\ memResp = << >>
       /\ \/ memIf = "req" /\ memReq = <<Asked>>
          \/ memIf = "st" /\ memReq = << >> /\ mreq = Asked
  /\ core = "await" =>
       \/ /\ memIf = "req" /\ memReq = <<Asked>> /\ memResp = << >>
          /\ memSt = IF WrEnabled THEN <<CopyOf(ReqSlot)>> ELSE << >>
       \/ /\ memIf = "st" /\ WrEnabled /\ memReq = << >> /\ memResp = << >>
          /\ mreq = Asked /\ memSt = <<CopyOf(ReqSlot)>>
       \/ /\ memIf = "load" /\ ~WrEnabled /\ memReq = << >> /\ memResp = << >>
          /\ mreq = Asked /\ memSt = << >>
       \/ /\ memIf = "resp" /\ memReq = << >> /\ memSt = << >> /\ memResp = << >>
          /\ mline = mem[req.a] /\ WrittenBack
       \/ /\ memIf = "req" /\ memReq = << >> /\ memSt = << >>
          /\ memResp = <<mem[req.a]>> /\ WrittenBack

One(b) == IF b THEN 1 ELSE 0

(* While the cache is flushed, the write requests and the lines to write   *)
(* are as many, and the request to stop comes last.                        *)
StoresOK ==
  Ending =>
    /\ memResp = << >> /\ memIf \in {"req", "st", "done"}
    /\ memIf = "st" => mreq = FlushReq /\ WrEnabled
    /\ memReq \in Seq({FlushReq, StopReq}) /\ Len(memReq) <= MemDepth
    /\ \A j \in 1 .. Len(memReq) :
         /\ memReq[j] = StopReq <=> core = "done" /\ j = Len(memReq)
         /\ memReq[j] = FlushReq => WrEnabled
    /\ memIf = "done" => core = "done" /\ memReq = << >>
    /\ core = "done" /\ memIf # "done" => memReq # << >>
    /\ memSt \in Seq([a : Addr, line : Line]) /\ Len(memSt) <= MemDepth
    /\ Len(memReq) + One(memIf = "st")
         = Len(memSt) + One(core = "flushSt") + One(core = "done" /\ memIf # "done")
    /\ \A j \in 1 .. Len(memSt) :
         \E x \in Slot : valid[x] /\ ~dirty[x] /\ memSt[j] = CopyOf(x)

(* A line that is not dirty is the one in memory, or on its way there. *)
CleanOK ==
  \A x \in Slot : valid[x] /\ ~dirty[x] =>
    \/ data[x] = mem[WriteBackAddr(x)]
    \/ Ending /\ \E j \in 1 .. Len(memSt) : memSt[j] = CopyOf(x)

FlushedOK ==
  /\ core \in {"flush", "flushSt"} =>
       \A s \in Set, w \in Ways :
         (s < fset \/ (s = fset /\ w < fway)) => ~(valid[<<s, w>>] /\ dirty[<<s, w>>])
  /\ core \in {"stopMem", "done"} => \A x \in Slot : valid[x] => ~dirty[x]

MemOK == FetchOK /\ StoresOK /\ CleanOK /\ FlushedOK

-----------------------------------------------------------------------------
(* Numbers, sequences and sets of indices. *)

(* A number below 2n, modulo n. *)
LEMMA ModOnce ==
  ASSUME NEW n \in Nat \ {0}, NEW x \in 0 .. n + n - 1
  PROVE  x % n = IF x < n THEN x ELSE x - n
<1>1. CASE x < n
  BY <1>1
<1>2. CASE x >= n
  <2>1. x = n * (x \div n) + (x % n) /\ x % n \in 0 .. n - 1 /\ x \div n \in Nat
    OBVIOUS
  <2>2. x \div n >= 1
    <3>1. x \div n = 0 => n * (x \div n) = 0
      OBVIOUS
    <3>. QED BY <1>2, <2>1, <3>1
  <2>3. x \div n < 2
    <3>1. SUFFICES ASSUME x \div n >= 2 PROVE FALSE
      BY <2>1
    <3>2. PICK d \in Nat : x \div n = 2 + d
      <4>1. (x \div n) - 2 \in Nat
        BY <2>1, <3>1
      <4>. QED BY <4>1
    <3>3. n * (x \div n) = n + n + n * d /\ n * d \in Nat
      BY <3>2
    <3>. QED BY <2>1, <3>3
  <2>4. x \div n = 1
    BY <2>1, <2>2, <2>3
  <2>5. n * (x \div n) = n
    BY <2>4
  <2>. QED BY <1>2, <2>1, <2>5
<1>. QED BY <1>1, <1>2

(* One element in front of a sequence. *)
LEMMA InFront ==
  ASSUME NEW S, NEW s \in Seq(S), NEW x \in S
  PROVE  /\ <<x>> \o s \in Seq(S)
         /\ Len(<<x>> \o s) = Len(s) + 1
         /\ DOMAIN (<<x>> \o s) = 1 .. Len(s) + 1
         /\ (<<x>> \o s)[1] = x
         /\ \A k \in 1 .. Len(s) : (<<x>> \o s)[k + 1] = s[k]
         /\ Head(<<x>> \o s) = x
         /\ Tail(<<x>> \o s) = s
         /\ <<x>> \o s # << >>
<1>1. <<x>> \in Seq(S) /\ Len(<<x>>) = 1 /\ <<x>>[1] = x
  OBVIOUS
<1>2. /\ <<x>> \o s \in Seq(S) /\ Len(<<x>> \o s) = Len(s) + 1
      /\ (<<x>> \o s)[1] = x
      /\ \A k \in 1 .. Len(s) : (<<x>> \o s)[k + 1] = s[k]
  BY <1>1
<1>3. Tail(<<x>> \o s) = s
  <2>1. /\ Tail(<<x>> \o s) \in Seq(S) /\ Len(Tail(<<x>> \o s)) = Len(s)
        /\ \A k \in 1 .. Len(s) : Tail(<<x>> \o s)[k] = s[k]
    BY <1>2
  <2>. QED BY <2>1
<1>. QED BY <1>2, <1>3

LEMMA AtTheEnd ==
  ASSUME NEW S, NEW s \in Seq(S), NEW x \in S
  PROVE  /\ Append(s, x) \in Seq(S) /\ Len(Append(s, x)) = Len(s) + 1
         /\ DOMAIN Append(s, x) = 1 .. Len(s) + 1
         /\ Append(s, x)[Len(s) + 1] = x
         /\ \A k \in 1 .. Len(s) : Append(s, x)[k] = s[k]
OBVIOUS

LEMMA WithoutHead ==
  ASSUME NEW S, NEW s \in Seq(S), s # << >>
  PROVE  /\ Tail(s) \in Seq(S) /\ Len(Tail(s)) = Len(s) - 1 /\ Len(s) >= 1
         /\ DOMAIN Tail(s) = 1 .. Len(s) - 1
         /\ \A k \in 1 .. Len(s) - 1 : Tail(s)[k] = s[k + 1]
         /\ Head(s) = s[1] /\ s[1] \in S
OBVIOUS

(* A request in front of the others: appending and taking commute with it. *)
LEMMA InFrontAppend ==
  ASSUME NEW S, NEW s \in Seq(S), NEW x \in S, NEW y \in S
  PROVE  <<x>> \o Append(s, y) = Append(<<x>> \o s, y)
<1>1. /\ <<x>> \o Append(s, y) \in Seq(S) /\ Len(<<x>> \o Append(s, y)) = Len(s) + 2
      /\ (<<x>> \o Append(s, y))[1] = x
      /\ \A k \in 1 .. Len(s) : (<<x>> \o Append(s, y))[k + 1] = s[k]
      /\ (<<x>> \o Append(s, y))[Len(s) + 2] = y
  BY AtTheEnd, InFront
<1>2. /\ Append(<<x>> \o s, y) \in Seq(S) /\ Len(Append(<<x>> \o s, y)) = Len(s) + 2
      /\ Append(<<x>> \o s, y)[1] = x
      /\ \A k \in 1 .. Len(s) : Append(<<x>> \o s, y)[k + 1] = s[k]
      /\ Append(<<x>> \o s, y)[Len(s) + 2] = y
  BY AtTheEnd, InFront
<1>3. ASSUME NEW k \in 1 .. Len(s) + 2
      PROVE  (<<x>> \o Append(s, y))[k] = Append(<<x>> \o s, y)[k]
  <2>1. k = 1 \/ k = Len(s) + 2 \/ (k - 1 \in 1 .. Len(s) /\ k = (k - 1) + 1)
    OBVIOUS
  <2>. QED BY <1>1, <1>2, <2>1
<1>. QED BY <1>1, <1>2, <1>3

LEMMA HeadInFront ==
  ASSUME NEW S, NEW s \in Seq(S), s # << >>
  PROVE  <<Head(s)>> \o Tail(s) = s
<1>1. /\ <<Head(s)>> \o Tail(s) \in Seq(S) /\ Len(<<Head(s)>> \o Tail(s)) = Len(s)
      /\ (<<Head(s)>> \o Tail(s))[1] = s[1]
      /\ \A k \in 1 .. Len(s) - 1 : (<<Head(s)>> \o Tail(s))[k + 1] = s[k + 1]
  BY WithoutHead, InFront
<1>2. ASSUME NEW k \in 1 .. Len(s)
      PROVE  (<<Head(s)>> \o Tail(s))[k] = s[k]
  <2>1. k = 1 \/ (k - 1 \in 1 .. Len(s) - 1 /\ k = (k - 1) + 1)
    OBVIOUS
  <2>. QED BY <1>1, <2>1
<1>. QED BY <1>1, <1>2
-----------------------------------------------------------------------------
(* How many elements of a set of indices are no larger than n. *)
UpTo(S, n) == Cardinality(S \cap (1 .. n))

LEMMA UpToFacts ==
  ASSUME NEW m \in Nat, NEW S \in SUBSET (1 .. m), NEW n \in Nat
  PROVE  /\ IsFiniteSet((S \cap (1 .. n))) /\ UpTo(S, n) \in Nat
         /\ UpTo(S, n) <= n
         /\ UpTo(S, 0) = 0
         /\ IsFiniteSet(S) /\ Cardinality(S) \in Nat /\ Cardinality(S) <= m
         /\ UpTo(S, m) = Cardinality(S)
         /\ UpTo(S, n) <= Cardinality(S)
<1>1. IsFiniteSet(S) /\ Cardinality(S) \in Nat /\ Cardinality(S) <= m
  <2>1. IsFiniteSet(1 .. m) /\ Cardinality(1 .. m) = m
    BY FS_Interval
  <2>2. IsFiniteSet(S) /\ Cardinality(S) <= Cardinality(1 .. m)
    BY <2>1, FS_Subset
  <2>. QED BY <2>1, <2>2, FS_CardinalityType
<1>2. /\ IsFiniteSet((S \cap (1 .. n))) /\ UpTo(S, n) \in Nat
      /\ UpTo(S, n) <= Cardinality(S)
  BY <1>1, FS_Subset, FS_CardinalityType DEF UpTo
<1>3. UpTo(S, n) <= n
  <2>1. (S \cap (1 .. n)) \in SUBSET (1 .. n)
    OBVIOUS
  <2>2. IsFiniteSet(1 .. n) /\ Cardinality(1 .. n) = n
    BY FS_Interval
  <2>. QED BY <2>1, <2>2, FS_Subset DEF UpTo
<1>4. UpTo(S, 0) = 0
  <2>1. (S \cap (1 .. 0)) = {}
    OBVIOUS
  <2>. QED BY <2>1, FS_EmptySet DEF UpTo
<1>5. UpTo(S, m) = Cardinality(S)
  <2>1. (S \cap (1 .. m)) = S
    OBVIOUS
  <2>. QED BY <2>1 DEF UpTo
<1>. QED BY <1>1, <1>2, <1>3, <1>4, <1>5

(* An element counts one more than those before it. *)
LEMMA UpToMember ==
  ASSUME NEW m \in Nat, NEW S \in SUBSET (1 .. m), NEW i \in S, NEW n \in Nat
  PROVE  /\ n < i => UpTo(S, n) < UpTo(S, i)
         /\ i <= n => UpTo(S, n) >= 1
         /\ UpTo(S, i) >= 1
<1>1. ASSUME NEW k \in Nat, i <= k
      PROVE  \A j \in Nat : j < i => UpTo(S, j) < UpTo(S, k)
  <2> SUFFICES ASSUME NEW j \in Nat, j < i PROVE UpTo(S, j) < UpTo(S, k)
    OBVIOUS
  <2>1. (S \cap (1 .. j)) \in SUBSET (S \cap (1 .. k))
    BY <1>1
  <2>2. i \in (S \cap (1 .. k)) /\ i \notin (S \cap (1 .. j))
    BY <1>1
  <2>3. IsFiniteSet((S \cap (1 .. k))) /\ UpTo(S, k) \in Nat /\ UpTo(S, j) \in Nat
    BY UpToFacts
  <2>4. /\ UpTo(S, j) <= UpTo(S, k)
        /\ UpTo(S, k) = UpTo(S, j) => (S \cap (1 .. k)) = (S \cap (1 .. j))
    BY <2>1, <2>3, FS_Subset DEF UpTo
  <2>. QED BY <2>2, <2>3, <2>4
<1>2. UpTo(S, 0) = 0 /\ UpTo(S, i) \in Nat /\ UpTo(S, n) \in Nat
  <2>1. i \in Nat
    OBVIOUS
  <2>. QED BY <2>1, UpToFacts
<1>. QED BY <1>1, <1>2

(* Elements are told apart by how many there are up to them. *)
LEMMA UpToInjective ==
  ASSUME NEW m \in Nat, NEW S \in SUBSET (1 .. m), NEW i \in S, NEW j \in S,
         UpTo(S, i) = UpTo(S, j)
  PROVE  i = j
<1>1. i \in Nat /\ j \in Nat
  OBVIOUS
<1>2. UpTo(S, i) \in Nat /\ UpTo(S, j) \in Nat
  BY <1>1, UpToFacts
<1>3. i < j => UpTo(S, i) < UpTo(S, j)
  BY <1>1, UpToMember
<1>4. j < i => UpTo(S, j) < UpTo(S, i)
  BY <1>1, UpToMember
<1>. QED BY <1>1, <1>2, <1>3, <1>4

(* Sets that agree up to n count the same. *)
LEMMA UpToSame ==
  ASSUME NEW S \in SUBSET Nat, NEW U \in SUBSET Nat, NEW n \in Nat,
         \A j \in 1 .. n : j \in S <=> j \in U, 0 \notin S, 0 \notin U
  PROVE  UpTo(S, n) = UpTo(U, n)
<1>1. (S \cap (1 .. n)) = (U \cap (1 .. n))
  OBVIOUS
<1>. QED BY <1>1 DEF UpTo

(* The indices of a sequence that has lost its head. *)
LEMMA UpToShift ==
  ASSUME NEW m \in Nat, NEW S \in SUBSET (1 .. m), NEW U \in SUBSET (1 .. m),
         NEW n \in Nat, \A j \in 1 .. n : j \in U <=> j + 1 \in S
  PROVE  UpTo(U, n) = UpTo(S, n + 1) - (IF 1 \in S THEN 1 ELSE 0)
<1> DEFINE A == (S \cap (1 .. n + 1))
           B == (U \cap (1 .. n))
<1>1. IsFiniteSet(A) /\ IsFiniteSet(B)
  BY UpToFacts
<1>2. /\ IsFiniteSet(A \ {1})
      /\ Cardinality(A \ {1}) = IF 1 \in A THEN Cardinality(A) - 1 ELSE Cardinality(A)
  BY <1>1, FS_RemoveElement
<1>3. 1 \in A <=> 1 \in S
  OBVIOUS
<1>4. Cardinality(A \ {1}) = Cardinality(B)
  <2> DEFINE f == [j \in B |-> j + 1]
  <2>1. f \in [B -> A \ {1}]
    OBVIOUS
  <2>2. \A i, j \in B : f[i] = f[j] => i = j
    OBVIOUS
  <2>3. \A y \in A \ {1} : \E j \in B : f[j] = y
    <3> SUFFICES ASSUME NEW y \in A \ {1} PROVE \E j \in B : f[j] = y
      OBVIOUS
    <3>1. y - 1 \in 1 .. n /\ (y - 1) + 1 = y
      OBVIOUS
    <3>2. y - 1 \in B
      BY <3>1
    <3>3. f[y - 1] = y
      BY <3>1, <3>2
    <3>. QED BY <3>2, <3>3
  <2>4. f \in Bijection(B, A \ {1})
    BY <2>1, <2>2, <2>3 DEF Bijection, Injection, Surjection, IsInjective
  <2>5. ExistsBijection(B, A \ {1})
    BY <2>4 DEF ExistsBijection
  <2>. QED BY <1>1, <2>5, FS_Bijection
<1>5. Cardinality(A) \in Nat
  BY <1>1, FS_CardinalityType
<1>. QED BY <1>2, <1>3, <1>4, <1>5 DEF UpTo

(* One more index at the end. *)
LEMMA UpToNext ==
  ASSUME NEW m \in Nat, NEW S \in SUBSET (1 .. m), NEW n \in Nat
  PROVE  UpTo(S, n + 1) = UpTo(S, n) + (IF n + 1 \in S THEN 1 ELSE 0)
<1> DEFINE B == (S \cap (1 .. n))
<1>1. IsFiniteSet(B)
  BY UpToFacts
<1>2. CASE n + 1 \in S
  <2>1. (S \cap (1 .. n + 1)) = B \cup {n + 1} /\ n + 1 \notin B
    BY <1>2
  <2>. QED BY <1>1, <1>2, <2>1, FS_AddElement DEF UpTo
<1>3. CASE n + 1 \notin S
  <2>1. (S \cap (1 .. n + 1)) = B
    BY <1>3
  <2>2. UpTo(S, n) \in Nat
    BY UpToFacts
  <2>. QED BY <1>3, <2>1, <2>2 DEF UpTo
<1>. QED BY <1>2, <1>3
-----------------------------------------------------------------------------
(* What a word of the array is once the first k requests of a port have    *)
(* been served: the last set among them, or what it is now.                *)
SetsWord(r, a, o) == r.op = "WRITE" /\ r.a = a /\ r.off = o

IsWordAfter(v, q, store, k, a, o) ==
  \/ \E j \in 1 .. k : /\ SetsWord(q[j], a, o) /\ q[j].data = v
                       /\ \A l \in j + 1 .. k : ~SetsWord(q[l], a, o)
  \/ (\A j \in 1 .. k : ~SetsWord(q[j], a, o)) /\ store[a][o] = v

(* It depends on those k requests and on the word only. *)
LEMMA WordAfterSame ==
  ASSUME NEW q, NEW r, NEW store, NEW array2, NEW k \in Nat, NEW a, NEW o, NEW v,
         \A j \in 1 .. k : r[j] = q[j], array2[a][o] = store[a][o],
         IsWordAfter(v, q, store, k, a, o)
  PROVE  IsWordAfter(v, r, array2, k, a, o)
<1>1. \A j \in 1 .. k : SetsWord(r[j], a, o) <=> SetsWord(q[j], a, o)
  BY DEF SetsWord
<1>2. CASE (\A j \in 1 .. k : ~SetsWord(q[j], a, o)) /\ store[a][o] = v
  BY <1>1, <1>2 DEF IsWordAfter
<1>3. CASE \E j \in 1 .. k : /\ SetsWord(q[j], a, o) /\ q[j].data = v
                            /\ \A l \in j + 1 .. k : ~SetsWord(q[l], a, o)
  <2>1. PICK j \in 1 .. k : /\ SetsWord(q[j], a, o) /\ q[j].data = v
                            /\ \A l \in j + 1 .. k : ~SetsWord(q[l], a, o)
    BY <1>3
  <2>2. SetsWord(r[j], a, o) /\ r[j].data = v
    BY <1>1, <2>1
  <2>3. \A l \in j + 1 .. k : ~SetsWord(r[l], a, o)
    <3>1. j + 1 .. k \subseteq 1 .. k
      OBVIOUS
    <3>. QED BY <1>1, <2>1, <3>1
  <2>. QED BY <2>2, <2>3 DEF IsWordAfter
<1>. QED BY <1>2, <1>3 DEF IsWordAfter

(* It does not depend on a request behind them. *)
LEMMA WordJoined ==
  ASSUME NEW S, NEW q \in Seq(S), NEW r \in S, NEW store, NEW a, NEW o, NEW v,
         IsWordAfter(v, q, store, Len(q), a, o)
  PROVE  IsWordAfter(v, Append(q, r), store, Len(q), a, o)
<1>1. PICK k \in Nat : k = Len(q)
  OBVIOUS
<1>2. \A j \in 1 .. k : Append(q, r)[j] = q[j]
  BY <1>1, AtTheEnd
<1>. QED BY <1>1, <1>2, WordAfterSame

(* Serving the first request, which makes the array "later". *)
LEMMA WordAfterServed ==
  ASSUME NEW q, NEW r, NEW store, NEW later, NEW k \in Nat, NEW a, NEW o, NEW v,
         \A j \in 1 .. k : r[j] = q[j + 1],
         later[a][o] = (IF SetsWord(q[1], a, o) THEN q[1].data ELSE store[a][o]),
         IsWordAfter(v, q, store, k + 1, a, o)
  PROVE  IsWordAfter(v, r, later, k, a, o)
<1>1. \A j \in 1 .. k : SetsWord(r[j], a, o) <=> SetsWord(q[j + 1], a, o)
  BY DEF SetsWord
<1>2. CASE (\A j \in 1 .. k + 1 : ~SetsWord(q[j], a, o)) /\ store[a][o] = v
  <2>1. 1 \in 1 .. k + 1 /\ \A j \in 1 .. k : j + 1 \in 1 .. k + 1
    OBVIOUS
  <2>. QED BY <1>1, <1>2, <2>1 DEF IsWordAfter
<1>3. ASSUME NEW j \in 1 .. k + 1, SetsWord(q[j], a, o), q[j].data = v,
             \A l \in j + 1 .. k + 1 : ~SetsWord(q[l], a, o)
      PROVE  IsWordAfter(v, r, later, k, a, o)
  <2>1. CASE j = 1
    <3>1. \A l \in 1 .. k : l + 1 \in j + 1 .. k + 1
      BY <2>1
    <3>2. \A l \in 1 .. k : ~SetsWord(r[l], a, o)
      BY <1>1, <1>3, <3>1
    <3>. QED BY <1>3, <2>1, <3>2 DEF IsWordAfter
  <2>2. CASE j # 1
    <3>1. j - 1 \in 1 .. k /\ (j - 1) + 1 = j
      BY <2>2
    <3>2. SetsWord(r[j - 1], a, o) /\ r[j - 1].data = v
      BY <1>1, <1>3, <3>1
    <3>3. \A l \in (j - 1) + 1 .. k : ~SetsWord(r[l], a, o)
      <4>1. \A l \in (j - 1) + 1 .. k : l \in 1 .. k /\ l + 1 \in j + 1 .. k + 1
        BY <3>1
      <4>. QED BY <1>1, <1>3, <4>1
    <3>. QED BY <3>1, <3>2, <3>3 DEF IsWordAfter
  <2>. QED BY <2>1, <2>2
<1>. QED BY <1>2, <1>3 DEF IsWordAfter

(* A set at the end of the queue. *)
LEMMA WordAfterSet ==
  ASSUME NEW q, NEW store, NEW k \in Nat, NEW a, NEW o, NEW v,
         IF SetsWord(q[k + 1], a, o) THEN q[k + 1].data = v
         ELSE IsWordAfter(v, q, store, k, a, o)
  PROVE  IsWordAfter(v, q, store, k + 1, a, o)
<1>1. CASE SetsWord(q[k + 1], a, o)
  <2>1. k + 1 \in 1 .. k + 1 /\ (k + 1) + 1 .. k + 1 = {}
    OBVIOUS
  <2>. QED BY <1>1, <2>1 DEF IsWordAfter
<1>2. CASE ~SetsWord(q[k + 1], a, o)
  <2>1. IsWordAfter(v, q, store, k, a, o)
    BY <1>2
  <2>2. \A l \in 1 .. k + 1 : l \in 1 .. k \/ l = k + 1
    OBVIOUS
  <2>3. CASE (\A j \in 1 .. k : ~SetsWord(q[j], a, o)) /\ store[a][o] = v
    BY <1>2, <2>2, <2>3 DEF IsWordAfter
  <2>4. ASSUME NEW j \in 1 .. k, SetsWord(q[j], a, o), q[j].data = v,
               \A l \in j + 1 .. k : ~SetsWord(q[l], a, o)
        PROVE  IsWordAfter(v, q, store, k + 1, a, o)
    <3>1. j \in 1 .. k + 1 /\ \A l \in j + 1 .. k + 1 : l \in j + 1 .. k \/ l = k + 1
      OBVIOUS
    <3>2. \A l \in j + 1 .. k + 1 : ~SetsWord(q[l], a, o)
      BY <1>2, <2>4, <3>1
    <3>. QED BY <2>4, <3>1, <3>2 DEF IsWordAfter
  <2>. QED BY <2>1, <2>3, <2>4 DEF IsWordAfter
<1>. QED BY <1>1, <1>2
-----------------------------------------------------------------------------
(* Requests. *)
LEMMA RequestFacts ==
  ASSUME NEW r \in ReadReq \cup WriteReq
  PROVE  /\ r.a \in Addr /\ r.a[1] \in Tag /\ r.a[2] \in Set
         /\ r.a = <<r.a[1], r.a[2]>> /\ r.off \in Off
         /\ r # StopReq /\ r.op \in {"READ", "WRITE"}
         /\ r \in ReadReq <=> r.op = "READ"
         /\ IsRead(r) <=> r \in ReadReq
         /\ r \in WriteReq <=> r.op = "WRITE"
         /\ r \in WriteReq => r.data \in Data /\ WrEnabled
         /\ r \in ReadReq => RdEnabled
<1>1. CASE r \in ReadReq
  <2>1. r \in [op : {"READ"}, a : Addr, off : Off] /\ RdEnabled
    BY <1>1 DEF ReadReq
  <2>2. r.op = "READ" /\ r.a \in Addr /\ r.off \in Off
    BY <2>1
  <2>. QED BY <1>1, <2>1, <2>2 DEF WriteReq, IsRead, Addr, StopReq
<1>2. CASE r \in WriteReq
  <2>1. r \in [op : {"WRITE"}, a : Addr, off : Off, data : Data] /\ WrEnabled
    BY <1>2 DEF WriteReq
  <2>2. r.op = "WRITE" /\ r.a \in Addr /\ r.off \in Off /\ r.data \in Data
    BY <2>1
  <2>. QED BY <1>2, <2>1, <2>2 DEF ReadReq, IsRead, Addr, StopReq
<1>. QED BY <1>1, <1>2

LEMMA StopFacts == StopReq.op = "STOP" /\ StopReq \notin ReadReq \cup WriteReq
<1>1. StopReq.op = "STOP"
  BY DEF StopReq
<1>. QED BY <1>1, RequestFacts
-----------------------------------------------------------------------------
(* hit() *)

(* With unique tags a valid copy is the one hit() finds. *)
LEMMA HitFound ==
  ASSUME UniqueTags, NEW t, NEW s \in Set, NEW w \in Ways,
         valid[<<s, w>>], tag[<<s, w>>] = t
  PROVE  IsHit(t, s) /\ HitWay(t, s) = w
<1>1. HitWays(t, s) = {w}
  BY DEF HitWays, UniqueTags
<1>2. \A v \in {w} : v <= w
  BY WaysFacts
<1>. QED BY <1>1, <1>2 DEF IsHit, HitWay

(* On a hit, the way hit() returns is valid and holds the line. *)
LEMMA HitHolds ==
  ASSUME UniqueTags, NEW t, NEW s \in Set, IsHit(t, s)
  PROVE  /\ HitWay(t, s) \in Ways
         /\ valid[<<s, HitWay(t, s)>>] /\ tag[<<s, HitWay(t, s)>>] = t
<1>1. PICK w \in Ways : valid[<<s, w>>] /\ tag[<<s, w>>] = t
  BY DEF IsHit, HitWays
<1>. QED BY <1>1, HitFound

(* Where the array has its line for an address. *)
StoredIn(a, x) == valid[x] /\ WriteBackAddr(x) = a

Located ==
  \A a \in Addr :
    /\ IsHit(a[1], a[2]) <=> \E x \in Slot : StoredIn(a, x)
    /\ \A x \in Slot : StoredIn(a, x) => Stored[a] = data[x]
    /\ (\A x \in Slot : ~StoredIn(a, x)) => Stored[a] = mem[a]
    /\ \A x, y \in Slot : StoredIn(a, x) /\ StoredIn(a, y) => x = y

LEMMA LookupWorks == LinesOK => Located
<1> SUFFICES ASSUME LinesOK, NEW a \in Addr
             PROVE  /\ IsHit(a[1], a[2]) <=> \E x \in Slot : StoredIn(a, x)
                    /\ \A x \in Slot : StoredIn(a, x) => Stored[a] = data[x]
                    /\ (\A x \in Slot : ~StoredIn(a, x)) => Stored[a] = mem[a]
                    /\ \A x, y \in Slot : StoredIn(a, x) /\ StoredIn(a, y) => x = y
  BY DEF Located
<1>1. a = <<a[1], a[2]>> /\ a[1] \in Tag /\ a[2] \in Set
  BY DEF Addr
<1>2. \A x \in Slot : x = <<x[1], x[2]>> /\ x[1] \in Set /\ x[2] \in Ways
  BY DEF Slot
<1>3. \A x \in Slot : StoredIn(a, x) =>
        /\ x = <<a[2], x[2]>> /\ valid[<<a[2], x[2]>>] /\ tag[<<a[2], x[2]>>] = a[1]
  BY <1>1, <1>2 DEF StoredIn, WriteBackAddr
<1>4. \A x \in Slot : StoredIn(a, x) =>
        IsHit(a[1], a[2]) /\ HitWay(a[1], a[2]) = x[2]
  <2> SUFFICES ASSUME NEW x \in Slot, StoredIn(a, x)
               PROVE  IsHit(a[1], a[2]) /\ HitWay(a[1], a[2]) = x[2]
    OBVIOUS
  <2> DEFINE w == x[2]
  <2>1. w \in Ways /\ valid[<<a[2], w>>] /\ tag[<<a[2], w>>] = a[1]
    BY <1>2, <1>3
  <2> HIDE DEF w
  <2>2. IsHit(a[1], a[2]) /\ HitWay(a[1], a[2]) = w
    BY <1>1, <2>1, HitFound DEF LinesOK
  <2>. QED BY <2>2 DEF w
<1>5. IsHit(a[1], a[2]) =>
        <<a[2], HitWay(a[1], a[2])>> \in Slot /\ StoredIn(a, <<a[2], HitWay(a[1], a[2])>>)
  BY <1>1, HitHolds DEF LinesOK, StoredIn, WriteBackAddr, Slot
<1>6. Stored[a] = IF IsHit(a[1], a[2]) THEN data[<<a[2], HitWay(a[1], a[2])>>] ELSE mem[a]
  BY DEF Stored
<1>. QED BY <1>3, <1>4, <1>5, <1>6

LEMMA LookupWorksNext == LinesOK' => Located'
BY LookupWorks, PTL
-----------------------------------------------------------------------------
(* What each process leaves alone. *)
LEMMA ClientFrame ==
  Client => UNCHANGED <<mem, tag, valid, dirty, data, order, next, memReq, memSt,
                        memResp, core, port, req, way, fset, fway, memIf, mreq, mline>>
BY DEF Client, ClientGet, ClientSet, ClientStop, cacheVars, lines, replacer,
       memQueues, coreVars, memIfVars

LEMMA CoreFrame ==
  Core => UNCHANGED <<mem, client, pipe, nextPort, iter, array, memIf, mreq, mline>>
BY DEF Core, CorePoll, CoreBreak, CoreHit, CoreMiss, CoreSendReq, CoreSendSt, CoreFill,
       CoreRespond, CoreFlushClean, CoreFlushReq, CoreFlushSt, CoreStopMem,
       cacheVars, clientVars, memIfVars

LEMMA MemIfFrame ==
  MemIf => UNCHANGED <<tag, valid, dirty, data, order, next, client, pipe, nextPort,
                       iter, array, coreReq, coreResp, core, port, req, way, fset, fway>>
BY DEF MemIf, MemIfReq, MemIfLoad, MemIfExec, MemIfRespond, cacheVars, lines, replacer,
       clientVars, portQueues, coreVars

LEMMA StutterFrame ==
  UNCHANGED vars =>
    UNCHANGED <<mem, tag, valid, dirty, data, order, next, client, pipe, nextPort,
                iter, array, coreReq, coreResp, memReq, memSt, memResp, core, port,
                req, way, fset, fway, memIf, mreq, mline>>
BY DEF vars, cacheVars, lines, replacer, clientVars, portQueues, memQueues, coreVars,
       memIfVars

LEMMA NextCases ==
  [Next]_vars => Client \/ Core \/ MemIf \/ UNCHANGED vars
BY DEF Next, Finished
-----------------------------------------------------------------------------
(* The slot of the request being served, and of the line being flushed. *)
LEMMA SlotFacts ==
  ASSUME CoreOK
  PROVE  /\ FlushSlot \in Slot /\ FlushSlot = <<fset, fway>>
         /\ Serving => /\ ReqSlot \in Slot /\ ReqSlot = <<req.a[2], way>>
                       /\ req.a \in Addr /\ req.a[1] \in Tag /\ req.a[2] \in Set
                       /\ req.a = <<req.a[1], req.a[2]>>
<1>1. FlushSlot \in Slot
  BY DEF CoreOK, FlushSlot, Slot
<1>2. Serving => /\ req.a \in Addr /\ req.a[1] \in Tag /\ req.a[2] \in Set
                 /\ req.a = <<req.a[1], req.a[2]>>
  BY RequestFacts DEF CoreOK
<1>. QED BY <1>1, <1>2 DEF CoreOK, FlushSlot, ReqSlot, Slot
(* The request run_core takes. *)
LEMMA TakenFacts ==
  ASSUME CoreOK, PortsOK, TakeRequest
  PROVE  /\ Taken \in PortReq /\ (Taken # StopReq => Taken \in ReadReq \cup WriteReq)
         /\ coreReq' = [coreReq EXCEPT ![port] = Tail(coreReq[port])]
         /\ coreReq[port] \in Seq(PortReq) /\ coreReq[port] # << >>
<1>1. coreReq[port] \in Seq(PortReq) /\ coreReq[port] # << >>
  BY DEF TakeRequest, CoreOK, PortsOK
<1>2. Taken \in PortReq
  BY <1>1, WithoutHead DEF Taken
<1>. QED BY <1>1, <1>2 DEF PortReq, TakeRequest
-----------------------------------------------------------------------------
(* The registers of the lines. *)

(* The replacer's arrays hold every way once, and still do after a use. *)
LEMMA OrderUpdate ==
  ASSUME NEW f \in [Set -> [Ways -> Ways]], \A q \in Set : IsOrder(f[q]),
         NEW s \in Set, NEW w \in Ways, NEW g, g = [f EXCEPT ![s] = NotifyUse(f[s], w)]
  PROVE  g \in [Set -> [Ways -> Ways]] /\ \A q \in Set : IsOrder(g[q])
<1>1. IsOrder(NotifyUse(f[s], w))
  BY NotifyUseOrder
<1>2. NotifyUse(f[s], w) \in [Ways -> Ways]
  BY <1>1 DEF IsOrder
<1>3. g \in [Set -> [Ways -> Ways]]
  BY <1>2
<1>4. \A q \in Set : IsOrder(g[q])
  BY <1>1
<1>. QED BY <1>3, <1>4

(* A hit changes nothing but the order, and on a set a word and its mark. *)
LEMMA HitKeepsLines ==
  ASSUME LinesOK, CoreOK, PortsOK, CoreHit
  PROVE  LinesOK'
<1> DEFINE r == Taken
           s == r.a[2]
           w == HitWay(r.a[1], s)
<1>1. r \in ReadReq \cup WriteReq
  BY TakenFacts DEF CoreHit
<1>2. s \in Set /\ r.a[1] \in Tag /\ r.off \in Off /\ (r \in WriteReq => r.data \in Data /\ WrEnabled)
  BY <1>1, RequestFacts
<1>3. IsHit(r.a[1], s) /\ order' = [order EXCEPT ![s] = NotifyUse(order[s], w)]
  BY DEF CoreHit
<1>4. w \in Ways
  BY <1>2, <1>3, HitHolds DEF LinesOK
<1>5. UNCHANGED <<mem, tag, valid, next>>
  BY DEF CoreHit
<1>6. \/ IsRead(r) /\ UNCHANGED <<data, dirty>>
      \/ /\ ~IsRead(r)
         /\ data' = [data EXCEPT ![<<s, w>>] = [data[<<s, w>>] EXCEPT ![r.off] = r.data]]
         /\ dirty' = [dirty EXCEPT ![<<s, w>>] = TRUE]
  BY DEF CoreHit
<1>7. IsRead(r) <=> r \in ReadReq
  BY <1>1, RequestFacts
<1> HIDE DEF r, s, w
<1>8. order' \in [Set -> [Ways -> Ways]] /\ LruHoldsEveryWay'
  BY <1>2, <1>3, <1>4, OrderUpdate DEF LinesOK, LinesTypeOK, LruHoldsEveryWay
<1>9. data' \in [Slot -> Line] /\ dirty' \in [Slot -> BOOLEAN]
  <2>1. <<s, w>> \in Slot
    BY <1>2, <1>4 DEF Slot
  <2>2. CASE UNCHANGED <<data, dirty>>
    BY <2>2 DEF LinesOK, LinesTypeOK
  <2>3. CASE ~UNCHANGED <<data, dirty>>
    <3>1. r \in WriteReq
      BY <1>1, <1>6, <1>7, <2>3
    <3>2. [data[<<s, w>>] EXCEPT ![r.off] = r.data] \in Line
      BY <1>2, <2>1, <3>1 DEF LinesOK, LinesTypeOK, Line
    <3>. QED BY <1>6, <2>1, <2>3, <3>2 DEF LinesOK, LinesTypeOK
  <2>. QED BY <2>2, <2>3
<1>10. LinesTypeOK' /\ UniqueTags'
  BY <1>5, <1>8, <1>9 DEF LinesOK, LinesTypeOK, UniqueTags
<1>11. ~WrEnabled => \A x \in Slot : valid'[x] => ~dirty'[x]
  BY <1>1, <1>2, <1>5, <1>6, <1>7 DEF LinesOK
<1>. QED BY <1>8, <1>10, <1>11 DEF LinesOK

(* On a miss the victim becomes the last used way. *)
LEMMA MissKeepsLines ==
  ASSUME LinesOK, CoreOK, PortsOK, CoreMiss
  PROVE  LinesOK'
<1> DEFINE s == Taken.a[2]
           w == VictimWay(s)
<1>1. s \in Set
  BY TakenFacts, RequestFacts DEF CoreMiss
<1>2. order' = [order EXCEPT ![s] = NotifyUse(order[s], w)]
      /\ UNCHANGED <<mem, tag, valid, dirty, data, next>>
  BY DEF CoreMiss, lines
<1> HIDE DEF s
<1>3. w \in Ways
  <2>1. order[s] \in [Ways -> Ways] /\ next[s] \in Ways
    BY <1>1 DEF LinesOK, LinesTypeOK
  <2>. QED BY <2>1, WaysFacts DEF VictimWay, GetWay
<1> HIDE DEF w
<1>5. order' \in [Set -> [Ways -> Ways]] /\ LruHoldsEveryWay'
  BY <1>1, <1>2, <1>3, OrderUpdate DEF LinesOK, LinesTypeOK, LruHoldsEveryWay
<1>. QED BY <1>2, <1>5 DEF LinesOK, LinesTypeOK, UniqueTags

(* The line that arrives takes the slot of the victim. *)
LEMMA FillEffect ==
  ASSUME CoreOK, FetchOK, LinesOK, CoreFill
  PROVE  /\ memResp = <<mem[req.a]>> /\ memResp' = << >> /\ WrittenBack
         /\ tag' = [tag EXCEPT ![ReqSlot] = req.a[1]]
         /\ valid' = [valid EXCEPT ![ReqSlot] = TRUE]
         /\ dirty' = [dirty EXCEPT ![ReqSlot] = req \in WriteReq]
         /\ next' = [next EXCEPT ![req.a[2]] = NotifyInsertion(next[req.a[2]])]
         /\ \/ /\ req \in ReadReq /\ core' = "respond" /\ port' = port
               /\ data' = [data EXCEPT ![ReqSlot] = mem[req.a]]
            \/ /\ req \in WriteReq /\ core' = "poll" /\ port' = NextPort
               /\ data' = [data EXCEPT ![ReqSlot] =
                             [mem[req.a] EXCEPT ![req.off] = req.data]]
         /\ UNCHANGED <<mem, order, coreReq, coreResp, memReq, memSt, req, way, fset,
                        fway, memIf>>
         /\ mem[req.a] \in Line
<1>1. core = "await" /\ memResp # << >> /\ memResp' = Tail(memResp)
  BY DEF CoreFill
<1>2. memResp = <<mem[req.a]>> /\ WrittenBack
  BY <1>1 DEF FetchOK
<1>3. Head(memResp) = mem[req.a] /\ memResp' = << >>
  BY <1>1, <1>2
<1>4. req \in ReadReq \cup WriteReq
  BY <1>1 DEF CoreOK, Serving
<1>5. (IsRead(req) <=> req \in ReadReq) /\ (~IsRead(req) <=> req \in WriteReq) /\ req.a \in Addr
  BY <1>4, RequestFacts
<1>6. MarksDirty(req) = (req \in WriteReq)
  <2>1. MarksDirty(req) <=> req \in WriteReq
    BY <1>5 DEF MarksDirty
  <2>2. MarksDirty(req) \in BOOLEAN /\ (req \in WriteReq) \in BOOLEAN
    BY DEF MarksDirty
  <2>. QED BY <2>1, <2>2
<1>7. /\ tag' = [tag EXCEPT ![ReqSlot] = req.a[1]]
      /\ valid' = [valid EXCEPT ![ReqSlot] = TRUE]
      /\ dirty' = [dirty EXCEPT ![ReqSlot] = MarksDirty(req)]
      /\ next' = [next EXCEPT ![req.a[2]] = NotifyInsertion(next[req.a[2]])]
  BY DEF CoreFill
<1>8. \/ /\ IsRead(req) /\ core' = "respond" /\ port' = port
         /\ data' = [data EXCEPT ![ReqSlot] = Head(memResp)]
      \/ /\ ~IsRead(req) /\ core' = "poll" /\ port' = NextPort
         /\ data' = [data EXCEPT ![ReqSlot] = [Head(memResp) EXCEPT ![req.off] = req.data]]
  BY DEF CoreFill
<1>9. UNCHANGED <<mem, order, coreReq, coreResp, memReq, memSt, req, way, fset, fway, memIf>>
  BY DEF CoreFill, portQueues, memIfVars
<1>10. mem[req.a] \in Line
  BY <1>5 DEF LinesOK, LinesTypeOK
<1>11. \/ /\ req \in ReadReq /\ core' = "respond" /\ port' = port
          /\ data' = [data EXCEPT ![ReqSlot] = mem[req.a]]
       \/ /\ req \in WriteReq /\ core' = "poll" /\ port' = NextPort
          /\ data' = [data EXCEPT ![ReqSlot] = [mem[req.a] EXCEPT ![req.off] = req.data]]
  BY <1>3, <1>5, <1>8
<1>12. dirty' = [dirty EXCEPT ![ReqSlot] = req \in WriteReq]
  BY <1>6, <1>7
<1>. QED BY <1>2, <1>3, <1>7, <1>9, <1>10, <1>11, <1>12

LEMMA FillKeepsLines ==
  ASSUME LinesOK, CoreOK, FetchOK, CoreFill
  PROVE  LinesOK'
<1> DEFINE s == req.a[2]
           x == ReqSlot
<1>0. Serving /\ Fetching
  BY DEF CoreFill, Serving, Fetching
<1>1. x \in Slot /\ x = <<s, way>> /\ s \in Set /\ req.a[1] \in Tag /\ way \in Ways
  BY <1>0, SlotFacts DEF CoreOK
<1>2. /\ tag' = [tag EXCEPT ![x] = req.a[1]] /\ valid' = [valid EXCEPT ![x] = TRUE]
      /\ dirty' = [dirty EXCEPT ![x] = req \in WriteReq]
      /\ next' = [next EXCEPT ![s] = NotifyInsertion(next[s])]
      /\ \/ data' = [data EXCEPT ![x] = mem[req.a]]
         \/ /\ req \in WriteReq
            /\ data' = [data EXCEPT ![x] = [mem[req.a] EXCEPT ![req.off] = req.data]]
      /\ mem[req.a] \in Line /\ mem' = mem /\ order' = order
  BY FillEffect
<1>3. ~IsHit(req.a[1], s)
  BY <1>0 DEF CoreOK
<1> HIDE DEF s, x
<1>4. tag' \in [Slot -> Tag] /\ valid' \in [Slot -> BOOLEAN] /\ next' \in [Set -> Ways]
  <2>1. NotifyInsertion(next[s]) \in Ways
    BY <1>1, NotifyInsertionType DEF LinesOK, LinesTypeOK
  <2>. QED BY <1>1, <1>2, <2>1 DEF LinesOK, LinesTypeOK
<1>5. data' \in [Slot -> Line]
  <2>1. req \in WriteReq => [mem[req.a] EXCEPT ![req.off] = req.data] \in Line
    <3> SUFFICES ASSUME req \in WriteReq
                 PROVE  [mem[req.a] EXCEPT ![req.off] = req.data] \in Line
      OBVIOUS
    <3>1. req.off \in Off /\ req.data \in Data
      BY RequestFacts
    <3>. QED BY <1>2, <3>1 DEF Line
  <2>. QED BY <1>1, <1>2, <2>1 DEF LinesOK, LinesTypeOK
<1>6. dirty' \in [Slot -> BOOLEAN]
  BY <1>1, <1>2 DEF LinesOK, LinesTypeOK
<1>7. UniqueTags'
  <2> SUFFICES ASSUME NEW q \in Set, NEW u \in Ways, NEW v \in Ways,
                      valid'[<<q, u>>], valid'[<<q, v>>], tag'[<<q, u>>] = tag'[<<q, v>>]
               PROVE  u = v
    BY DEF UniqueTags
  <2>1. <<q, u>> \in Slot /\ <<q, v>> \in Slot
    BY DEF Slot
  <2>2. \A y \in Slot : y # x => tag'[y] = tag[y] /\ valid'[y] = valid[y]
    BY <1>2 DEF LinesOK, LinesTypeOK
  <2>3. tag'[x] = req.a[1]
    BY <1>1, <1>2 DEF LinesOK, LinesTypeOK
  <2>4. \A y \in Ways : valid[<<s, y>>] => tag[<<s, y>>] # req.a[1]
    BY <1>3 DEF IsHit, HitWays
  <2>5. CASE <<q, u>> # x /\ <<q, v>> # x
    BY <2>1, <2>2, <2>5 DEF LinesOK, UniqueTags
  <2>6. CASE <<q, u>> = x /\ <<q, v>> # x
    <3>1. q = s
      BY <1>1, <2>6
    <3>. QED BY <2>1, <2>2, <2>3, <2>4, <2>6, <3>1
  <2>7. CASE <<q, u>> # x /\ <<q, v>> = x
    <3>1. q = s
      BY <1>1, <2>7
    <3>. QED BY <2>1, <2>2, <2>3, <2>4, <2>7, <3>1
  <2>. QED BY <1>1, <2>5, <2>6, <2>7
<1>8. ~WrEnabled => \A y \in Slot : valid'[y] => ~dirty'[y]
  <2>1. ~WrEnabled => req \notin WriteReq
    BY DEF WriteReq
  <2>. QED BY <1>1, <1>2, <2>1 DEF LinesOK, LinesTypeOK
<1>9. LruHoldsEveryWay'
  BY <1>2 DEF LinesOK, LruHoldsEveryWay
<1>. QED BY <1>2, <1>4, <1>5, <1>6, <1>7, <1>8, <1>9 DEF LinesOK, LinesTypeOK

(* The head of m_mem_st_req, and what exec_mem_req does with it. *)
LEMMA ExecEffect ==
  ASSUME CoreOK, FetchOK, StoresOK, MemIfExec
  PROVE  /\ \/ /\ core = "await" /\ WrEnabled /\ memSt' = << >> /\ memIf' = "resp"
               /\ memReq = << >> /\ memResp = << >>
               /\ memSt = <<CopyOf(ReqSlot)>> /\ mreq = Asked
               /\ mline' = mem[req.a]
               /\ mem' = IF MustWriteBack(ReqSlot)
                         THEN [mem EXCEPT ![WriteBackAddr(ReqSlot)] = data[ReqSlot]]
                         ELSE mem
            \/ /\ Ending /\ memSt # << >> /\ memSt' = Tail(memSt) /\ memIf' = "req"
               /\ mreq = FlushReq /\ mline' = mline
               /\ \E x \in Slot :
                    /\ valid[x] /\ ~dirty[x] /\ Head(memSt) = CopyOf(x)
                    /\ mem' = [mem EXCEPT ![WriteBackAddr(x)] = data[x]]
         /\ UNCHANGED <<memReq, memResp, mreq>>
<1>1. /\ memIf = "st" /\ memSt # << >> /\ memSt' = Tail(memSt)
      /\ mline' = IF mreq.op = "WRITE" THEN mline ELSE mem[mreq.a]
      /\ mem' = IF mreq.op = "READ" THEN mem
                ELSE [mem EXCEPT ![Head(memSt).a] = Head(memSt).line]
      /\ memIf' = IF mreq.op = "WRITE" THEN "req" ELSE "resp"
      /\ UNCHANGED <<memReq, memResp, mreq>>
  BY DEF MemIfExec, StoreAddr
<1>2. \A x \in Slot : CopyOf(x).a = WriteBackAddr(x) /\ CopyOf(x).line = data[x]
  BY DEF CopyOf
<1>3. CASE core \in {"poll", "respond", "sendReq", "sendSt"}
  BY <1>1, <1>3 DEF FetchOK
<1>4. CASE core = "await"
  <2>1. /\ memIf = "st" /\ WrEnabled /\ memReq = << >> /\ memResp = << >>
        /\ mreq = Asked /\ memSt = <<CopyOf(ReqSlot)>>
    BY <1>1, <1>4 DEF FetchOK
  <2>2. Head(memSt) = CopyOf(ReqSlot) /\ memSt' = << >>
    BY <1>1, <2>1
  <2>3. ReqSlot \in Slot
    BY <1>4, SlotFacts DEF Serving
  <2>4. /\ mreq.op = (IF MustWriteBack(ReqSlot) THEN "READ_WRITE" ELSE "READ")
        /\ mreq.a = req.a
    BY <2>1 DEF Asked
  <2>5. /\ mline' = mem[req.a] /\ memIf' = "resp"
        /\ mem' = IF MustWriteBack(ReqSlot)
                  THEN [mem EXCEPT ![WriteBackAddr(ReqSlot)] = data[ReqSlot]]
                  ELSE mem
    <3>1. Head(memSt).a = WriteBackAddr(ReqSlot) /\ Head(memSt).line = data[ReqSlot]
      BY <1>2, <2>2, <2>3
    <3>. QED BY <1>1, <2>4, <3>1
  <2>. QED BY <1>1, <1>4, <2>1, <2>2, <2>5
<1>5. CASE Ending
  <2>1. mreq = FlushReq /\ mreq.op = "WRITE"
    BY <1>1, <1>5 DEF StoresOK, FlushReq
  <2>2. memSt \in Seq([a : Addr, line : Line]) /\ Len(memSt) >= 1 /\ memSt[1] = Head(memSt)
    BY <1>1, <1>5, WithoutHead DEF StoresOK
  <2>3. PICK x \in Slot : valid[x] /\ ~dirty[x] /\ memSt[1] = CopyOf(x)
    <3>1. 1 \in 1 .. Len(memSt)
      BY <2>2
    <3>. QED BY <1>5, <3>1 DEF StoresOK
  <2>4. mem' = [mem EXCEPT ![WriteBackAddr(x)] = data[x]]
    BY <1>1, <1>2, <2>1, <2>2, <2>3
  <2>. QED BY <1>1, <1>5, <2>1, <2>2, <2>3, <2>4
<1>. QED BY <1>3, <1>4, <1>5 DEF CoreOK, Ending

(* Either way a line of the cache is written to its place in memory. *)
LEMMA ExecWrites ==
  ASSUME CoreOK, FetchOK, StoresOK, MemIfExec
  PROVE  \/ mem' = mem
         \/ \E x \in Slot : valid[x] /\ mem' = [mem EXCEPT ![WriteBackAddr(x)] = data[x]]
<1>1. core = "await" => ReqSlot \in Slot
  BY SlotFacts DEF Serving
<1>2. MustWriteBack(ReqSlot) => valid[ReqSlot]
  BY DEF MustWriteBack
<1>. QED BY <1>1, <1>2, ExecEffect

LEMMA LinesFrame ==
  ASSUME LinesOK, UNCHANGED <<tag, valid, dirty, data, order, next>>,
         mem' \in [Addr -> Line]
  PROVE  LinesOK'
BY DEF LinesOK, LinesTypeOK, UniqueTags, LruHoldsEveryWay

LEMMA FlushStKeepsLines ==
  ASSUME LinesOK, CoreOK, CoreFlushSt
  PROVE  LinesOK'
<1>1. dirty' = [dirty EXCEPT ![FlushSlot] = FALSE] /\ UNCHANGED <<mem, tag, valid, data, order, next>>
  BY DEF CoreFlushSt, replacer
<1>2. FlushSlot \in Slot /\ WrEnabled
  BY SlotFacts DEF CoreFlushSt, CoreOK
<1> HIDE DEF FlushSlot
<1>3. dirty' \in [Slot -> BOOLEAN]
  BY <1>1, <1>2 DEF LinesOK, LinesTypeOK
<1>. QED BY <1>1, <1>2, <1>3 DEF LinesOK, LinesTypeOK, UniqueTags, LruHoldsEveryWay

LEMMA LinesNext ==
  ASSUME LinesOK, CoreOK, PortsOK, FetchOK, StoresOK, [Next]_vars
  PROVE  LinesOK'
<1>0. mem \in [Addr -> Line]
  BY DEF LinesOK, LinesTypeOK
<1>1. CASE Client \/ UNCHANGED vars
  BY <1>0, <1>1, ClientFrame, StutterFrame, LinesFrame
<1>2. CASE MemIf
  <2>1. mem' \in [Addr -> Line]
    <3>1. CASE MemIfExec
      <4>1. \A x \in Slot : valid[x] => [mem EXCEPT ![WriteBackAddr(x)] = data[x]] \in [Addr -> Line]
        BY <1>0 DEF LinesOK, LinesTypeOK
      <4>. QED BY <1>0, <3>1, <4>1, ExecWrites
    <3>2. CASE ~MemIfExec
      BY <1>0, <1>2, <3>2 DEF MemIf, MemIfReq, MemIfLoad, MemIfRespond, cacheVars
    <3>. QED BY <3>1, <3>2
  <2>. QED BY <1>2, <2>1, MemIfFrame, LinesFrame
<1>3. CASE Core
  <2>1. CASE CoreHit \/ CoreMiss \/ CoreFill \/ CoreFlushSt
    BY <2>1, HitKeepsLines, MissKeepsLines, FillKeepsLines, FlushStKeepsLines
  <2>2. CASE ~(CoreHit \/ CoreMiss \/ CoreFill \/ CoreFlushSt)
    <3>1. UNCHANGED <<mem, tag, valid, dirty, data, order, next>>
      BY <1>3, <2>2 DEF Core, CorePoll, CoreBreak, CoreSendReq, CoreSendSt, CoreRespond,
         CoreFlushClean, CoreFlushReq, CoreStopMem, cacheVars, lines, replacer
    <3>. QED BY <1>0, <3>1, LinesFrame
  <2>. QED BY <2>1, <2>2
<1>. QED BY <1>1, <1>2, <1>3, NextCases
-----------------------------------------------------------------------------
(* Where run_core is. *)
LEMMA PortsRotate ==
  /\ 0 \in Ports
  /\ \A p \in Ports : (p + 1) % NPorts \in Ports
  /\ port \in Ports => NextPort \in Ports /\ PolledNext \in Ports
<1>1. \A p \in Ports : (p + 1) % NPorts \in Ports
  BY DataflowAssumption DEF Ports
<1>. QED BY <1>1, DataflowAssumption DEF Ports, NextPort, PolledNext

(* Lines and fields of a request that run_core does not touch. *)
LEMMA CoreStays ==
  ASSUME CoreOK, UNCHANGED <<tag, valid, dirty, core, port, req, way, fset, fway>>
  PROVE  CoreOK'
BY DEF CoreOK, Serving, Ending, Fetching, ReqSlot, FlushDirty, FlushSlot, IsHit, HitWays

(* flush goes on to the next line, of the next set after the last way. *)
LEMMA FlushMoves ==
  ASSUME fset \in Set, fway \in Ways, FlushNext
  PROVE  /\ fset' \in Set /\ fway' \in Ways
         /\ \/ /\ fway < NWays - 1 /\ fway' = fway + 1 /\ fset' = fset /\ core' = "flush"
            \/ /\ fway = NWays - 1 /\ fset < NSets - 1 /\ fway' = 0 /\ fset' = fset + 1
               /\ core' = "flush"
            \/ /\ fway = NWays - 1 /\ fset = NSets - 1 /\ core' = "stopMem"
<1>1. /\ NWays \in Nat /\ NWays >= 1 /\ NSets \in Nat /\ NSets >= 1
      /\ fset \in 0 .. NSets - 1 /\ fway \in 0 .. NWays - 1
  BY ReplacerAssumption, CacheAssumption DEF Set, Ways
<1>2. /\ fway < NWays - 1 => (fway + 1) % NWays = fway + 1
      /\ fway = NWays - 1 => (fway + 1) % NWays = 0
  BY <1>1
<1>3. /\ fway' = (fway + 1) % NWays
      /\ fset' = IF fway < NWays - 1 \/ fset = NSets - 1 THEN fset ELSE fset + 1
      /\ core' = IF fway = NWays - 1 /\ fset = NSets - 1 THEN "stopMem" ELSE "flush"
  BY DEF FlushNext, FlushEnds
<1>. QED BY <1>1, <1>2, <1>3 DEF Set, Ways

LEMMA CoreNext ==
  ASSUME LinesOK, CoreOK, PortsOK, FetchOK, [Next]_vars
  PROVE  CoreOK'
<1>1. CASE Client \/ MemIf \/ UNCHANGED vars
  BY <1>1, ClientFrame, MemIfFrame, StutterFrame, CoreStays
<1>2. CASE CorePoll
  BY <1>2, PortsRotate DEF CorePoll, CoreOK, cacheVars, lines, Serving, Ending, Fetching
<1>3. CASE CoreBreak
  BY <1>3, CacheAssumption DEF CoreBreak, TakeRequest, CoreOK, cacheVars, lines, Serving, Ending, Fetching
<1>4. CASE CoreHit
  <2> DEFINE r == Taken
             s == r.a[2]
             w == HitWay(r.a[1], s)
  <2>1. r \in ReadReq \cup WriteReq /\ s \in Set
    BY <1>4, TakenFacts, RequestFacts DEF CoreHit
  <2>2. /\ core = "poll" /\ IsHit(r.a[1], s) /\ req' = r /\ way' = w
        /\ UNCHANGED <<tag, valid, fset, fway>>
        /\ \/ IsRead(r) /\ core' = "respond" /\ port' = port
           \/ core' = core /\ port' = NextPort
    BY <1>4 DEF CoreHit, TakeRequest
  <2>3. IsRead(r) => r \in ReadReq
    BY <2>1, RequestFacts
  <2> HIDE DEF r
  <2>4. w \in Ways /\ valid[<<s, w>>] /\ tag[<<s, w>>] = r.a[1]
    BY <2>1, <2>2, HitHolds DEF LinesOK
  <2> HIDE DEF w
  <2>5. ReqSlot' = <<s, w>>
    BY <2>2 DEF ReqSlot
  <2>. QED BY <2>1, <2>2, <2>3, <2>4, <2>5, PortsRotate DEF CoreOK, Serving, Ending, Fetching
<1>5. CASE CoreMiss
  <2> DEFINE r == Taken
             w == VictimWay(r.a[2])
  <2>1. r \in ReadReq \cup WriteReq /\ r.a[2] \in Set
    BY <1>5, TakenFacts, RequestFacts DEF CoreMiss
  <2>2. /\ core = "poll" /\ ~IsHit(r.a[1], r.a[2]) /\ req' = r /\ way' = w
        /\ UNCHANGED <<tag, valid, fset, fway, port>> /\ core' = "sendReq"
    BY <1>5 DEF CoreMiss, TakeRequest, lines
  <2> HIDE DEF r
  <2>3. w \in Ways
    <3>1. order[r.a[2]] \in [Ways -> Ways] /\ next[r.a[2]] \in Ways
      BY <2>1 DEF LinesOK, LinesTypeOK
    <3>. QED BY <3>1, GetWayType DEF VictimWay
  <2> HIDE DEF w
  <2>4. ~IsHit(req.a[1], req.a[2])'
    BY <2>2 DEF IsHit, HitWays
  <2>. QED BY <2>1, <2>2, <2>3, <2>4 DEF CoreOK, Serving, Ending, Fetching
<1>6. CASE CoreSendReq \/ CoreSendSt
  <2>1. /\ Fetching /\ Fetching' /\ core' \in {"sendSt", "await"}
        /\ core' = "sendSt" => WrEnabled
        /\ UNCHANGED <<tag, valid, dirty, port, req, way, fset, fway>>
    BY <1>6 DEF CoreSendReq, CoreSendSt, cacheVars, lines, StoreFollows, Fetching
  <2>2. ~IsHit(req.a[1], req.a[2])'
    BY <2>1 DEF CoreOK, IsHit, HitWays
  <2>. QED BY <2>1, <2>2 DEF CoreOK, Serving, Ending, Fetching
<1>7. CASE CoreFill
  <2> DEFINE x == ReqSlot
  <2>0. core = "await"
    BY <1>7 DEF CoreFill
  <2>1. x \in Slot /\ req.a \in Addr
    BY <2>0, SlotFacts DEF Serving
  <2>2. /\ tag' = [tag EXCEPT ![x] = req.a[1]] /\ valid' = [valid EXCEPT ![x] = TRUE]
        /\ \/ req \in ReadReq /\ core' = "respond" /\ port' = port
           \/ core' = "poll" /\ port' = NextPort
        /\ UNCHANGED <<req, way, fset, fway>>
    BY <1>7, FillEffect
  <2>3. ReqSlot' = x
    BY <2>2 DEF ReqSlot
  <2> HIDE DEF x
  <2>4. tag'[x] = req.a[1] /\ valid'[x]
    BY <2>1, <2>2 DEF LinesOK, LinesTypeOK
  <2>. QED BY <2>0, <2>2, <2>3, <2>4, PortsRotate DEF CoreOK, Serving, Ending, Fetching
<1>8. CASE CoreRespond
  BY <1>8, PortsRotate DEF CoreRespond, CoreOK, cacheVars, lines, Serving, Ending, Fetching
<1>9. CASE CoreFlushClean \/ CoreFlushSt
  <2>1. Ending /\ WrEnabled /\ FlushNext /\ UNCHANGED <<port, req, way>>
    BY <1>9 DEF CoreFlushClean, CoreFlushSt, CoreOK, Ending
  <2>2. fset' \in Set /\ fway' \in Ways /\ core' \in {"flush", "stopMem"}
    BY <2>1, FlushMoves DEF CoreOK
  <2>. QED BY <2>1, <2>2 DEF CoreOK, Serving, Ending, Fetching
<1>10. CASE CoreFlushReq
  <2>1. /\ core = "flush" /\ core' = "flushSt" /\ FlushDirty
        /\ UNCHANGED <<valid, dirty, port, req, way, fset, fway>>
    BY <1>10 DEF CoreFlushReq, cacheVars, lines
  <2>2. FlushDirty'
    BY <2>1 DEF FlushDirty, FlushSlot
  <2>. QED BY <2>1, <2>2 DEF CoreOK, Serving, Ending, Fetching
<1>11. CASE CoreStopMem
  BY <1>11 DEF CoreStopMem, CoreOK, Serving, Ending, Fetching
<1>. QED BY <1>1, <1>2, <1>3, <1>4, <1>5, <1>6, <1>7, <1>8, <1>9, <1>10, <1>11, NextCases DEF Core
-----------------------------------------------------------------------------
(* What one step of the client's pipeline does.  The stage that enters it  *)
(* holds the reads of an iteration, or nothing.                            *)
ReadOf(r) == [op |-> "READ", a |-> r.a, off |-> r.off]
WriteOf(a, o, d) == [op |-> "WRITE", a |-> a, off |-> o, data |-> d]

Moves(stage) ==
  /\ stage \in Seq(PipeRead)
  /\ \A j, k \in DOMAIN stage : stage[j].port = stage[k].port => j = k
  /\ client = "running" /\ client' = client
  /\ \A k \in DOMAIN pipe[1] : coreResp[pipe[1][k].port] # << >>
  /\ pipe' = Append(Tail(pipe), stage)
  /\ TakeResponses

(* Its requests reach the ports of its reads. *)
MovesGets(stage) ==
  /\ Moves(stage)
  /\ \A k \in DOMAIN stage :
       /\ stage[k].want = array[stage[k].a][stage[k].off]
       /\ ReadOf(stage[k]) \in ReadReq
       /\ HasRoom(coreReq[stage[k].port], CoreDepth)
       /\ coreReq'[stage[k].port] = Append(coreReq[stage[k].port], ReadOf(stage[k]))
  /\ \A p \in Ports : (\A k \in DOMAIN stage : stage[k].port # p) => coreReq'[p] = coreReq[p]
  /\ coreReq' \in [Ports -> Seq(PortReq)]
  /\ array' = array

MovesSet(a, o, d) ==
  /\ Moves(<< >>)
  /\ WriteOf(a, o, d) \in WriteReq /\ HasRoom(coreReq[0], CoreDepth) /\ Ports = {0}
  /\ coreReq' = [coreReq EXCEPT ![0] = Append(coreReq[0], WriteOf(a, o, d))]
  /\ array' = [array EXCEPT ![a] = [array[a] EXCEPT ![o] = d]]

LEMMA GetsFacts ==
  ASSUME NEW gets \in Gets
  PROVE  /\ gets \in Seq(Addr \X Off) /\ Len(gets) \in 0 .. NPorts
         /\ DOMAIN gets = 1 .. Len(gets)
         /\ gets # << >> => RdEnabled
<1>1. PICK n \in 0 .. IF RdEnabled THEN NPorts ELSE 0 : gets \in [1 .. n -> Addr \X Off]
  BY DEF Gets
<1>2. n \in Nat /\ gets \in Seq(Addr \X Off) /\ Len(gets) = n
  BY <1>1, DataflowAssumption
<1>. QED BY <1>1, <1>2, DataflowAssumption

LEMMA PortOfFacts ==
  ASSUME nextPort \in Ports
  PROVE  /\ \A i \in 1 .. NPorts : PortOf(i) \in Ports
         /\ \A i, j \in 1 .. NPorts : PortOf(i) = PortOf(j) => i = j
<1>1. NPorts \in Nat \ {0} /\ nextPort \in 0 .. NPorts - 1
  BY DataflowAssumption DEF Ports
<1>2. ASSUME NEW i \in 1 .. NPorts
      PROVE  PortOf(i) = IF nextPort + i - 1 < NPorts THEN nextPort + i - 1
                         ELSE nextPort + i - 1 - NPorts
  <2>1. PICK x \in 0 .. NPorts + NPorts - 1 : x = nextPort + i - 1
    BY <1>1
  <2>2. x % NPorts = IF x < NPorts THEN x ELSE x - NPorts
    BY <1>1, ModOnce
  <2>3. PortOf(i) = x % NPorts
    BY <2>1 DEF PortOf
  <2>. QED BY <1>1, <2>1, <2>2, <2>3
<1>3. \A i \in 1 .. NPorts : PortOf(i) \in Ports
  BY <1>1, <1>2 DEF Ports
<1>4. \A i, j \in 1 .. NPorts : PortOf(i) = PortOf(j) => i = j
  BY <1>1, <1>2
<1>. QED BY <1>3, <1>4

LEMMA GetMoves ==
  ASSUME ClientOK, PortsOK, NEW gets \in Gets, ClientGet(gets)
  PROVE  (\E stage : MovesGets(stage)) /\ nextPort' \in Ports /\ iter' \in 0 .. MaxIter
<1> DEFINE n == Len(gets)
           Read(i) == [port |-> PortOf(i), a |-> gets[i][1], off |-> gets[i][2],
                       want |-> array[gets[i][1]][gets[i][2]]]
           stage == [i \in DOMAIN gets |-> Read(i)]
<1>1. n \in 0 .. NPorts /\ n \in Nat /\ DOMAIN gets = 1 .. n /\ (gets # << >> => RdEnabled)
  BY GetsFacts, DataflowAssumption
<1>2. \A i \in 1 .. n : gets[i][1] \in Addr /\ gets[i][2] \in Off /\ RdEnabled
  <2>1. \A i \in 1 .. n : gets[i] \in Addr \X Off /\ gets # << >>
    BY GetsFacts
  <2>. QED BY <1>1, <2>1
<1>3. /\ \A i \in 1 .. n : PortOf(i) \in Ports
      /\ \A i, j \in 1 .. n : PortOf(i) = PortOf(j) => i = j
  <2>1. \A i \in 1 .. n : i \in 1 .. NPorts
    BY <1>1, DataflowAssumption
  <2>. QED BY <2>1, PortOfFacts DEF ClientOK
<1>4. \A i \in 1 .. n : Read(i) \in PipeRead
  BY <1>2, <1>3 DEF ClientOK, PipeRead, Line
<1>5. /\ stage \in Seq(PipeRead) /\ DOMAIN stage = 1 .. n
      /\ \A i \in 1 .. n : /\ stage[i].port = PortOf(i) /\ stage[i].a = gets[i][1]
                           /\ stage[i].off = gets[i][2]
                           /\ stage[i].want = array[gets[i][1]][gets[i][2]]
  <2>1. stage = [i \in 1 .. n |-> Read(i)]
    BY <1>1
  <2> HIDE DEF n
  <2>2. [i \in 1 .. n |-> Read(i)] \in Seq(PipeRead)
    BY <1>1, <1>4
  <2>. QED BY <2>1, <2>2
<1>6. pipe' = Append(Tail(pipe), stage)
  BY DEF ClientGet, MovePipe
<1>7. /\ client = "running" /\ client' = client /\ TakeResponses /\ array' = array
      /\ \A i \in DOMAIN pipe[1] : coreResp[pipe[1][i].port] # << >>
      /\ \A i \in 1 .. n : HasRoom(coreReq[PortOf(i)], CoreDepth)
      /\ coreReq' = [p \in Ports |->
           LET mine == {i \in DOMAIN gets : PortOf(i) = p} IN
           IF mine = {} THEN coreReq[p]
           ELSE LET g == gets[CHOOSE i \in mine : TRUE] IN
                Append(coreReq[p], [op |-> "READ", a |-> g[1], off |-> g[2]])]
  BY DEF ClientGet, CanMove
<1>8. \A i \in 1 .. n : ReadOf(stage[i]) = [op |-> "READ", a |-> gets[i][1], off |-> gets[i][2]]
  BY <1>5 DEF ReadOf
<1>9. \A i \in 1 .. n : ReadOf(stage[i]) \in ReadReq
  <2>1. \A a \in Addr, o \in Off :
          [op |-> "READ", a |-> a, off |-> o] \in [op : {"READ"}, a : Addr, off : Off]
    OBVIOUS
  <2>2. ASSUME NEW i \in 1 .. n PROVE ReadOf(stage[i]) \in ReadReq
    <3>1. gets[i][1] \in Addr /\ gets[i][2] \in Off /\ RdEnabled
      BY <1>2
    <3>2. ReadOf(stage[i]) = [op |-> "READ", a |-> gets[i][1], off |-> gets[i][2]]
      BY <1>8
    <3> HIDE DEF stage, n, ReadOf
    <3>3. [op |-> "READ", a |-> gets[i][1], off |-> gets[i][2]] \in ReadReq
      BY <2>1, <3>1 DEF ReadReq
    <3>. QED BY <3>2, <3>3
  <2>. QED BY <2>2
<1>10. \A i \in 1 .. n : coreReq'[PortOf(i)] = Append(coreReq[PortOf(i)], ReadOf(stage[i]))
  <2> SUFFICES ASSUME NEW i \in 1 .. n
               PROVE  coreReq'[PortOf(i)] = Append(coreReq[PortOf(i)], ReadOf(stage[i]))
    OBVIOUS
  <2>1. {j \in DOMAIN gets : PortOf(j) = PortOf(i)} = {i}
    BY <1>1, <1>3
  <2>2. (CHOOSE j \in {i} : TRUE) = i
    OBVIOUS
  <2>. QED BY <1>3, <1>7, <1>8, <2>1, <2>2
<1>11. \A p \in Ports : (\A i \in 1 .. n : PortOf(i) # p) => coreReq'[p] = coreReq[p]
  <2> SUFFICES ASSUME NEW p \in Ports, \A i \in 1 .. n : PortOf(i) # p
               PROVE  coreReq'[p] = coreReq[p]
    OBVIOUS
  <2>1. {i \in DOMAIN gets : PortOf(i) = p} = {}
    BY <1>1
  <2>. QED BY <1>7, <2>1
<1>12. coreReq' \in [Ports -> Seq(PortReq)]
  <2>1. ASSUME NEW p \in Ports PROVE coreReq'[p] \in Seq(PortReq)
    <3>1. coreReq[p] \in Seq(PortReq)
      BY DEF PortsOK
    <3>2. CASE \E i \in 1 .. n : PortOf(i) = p
      <4>1. PICK i \in 1 .. n : PortOf(i) = p
        BY <3>2
      <4>2. ReadOf(stage[i]) \in PortReq
        BY <1>9 DEF PortReq
      <4>3. coreReq'[p] = Append(coreReq[p], ReadOf(stage[i]))
        BY <1>10, <4>1
      <4>4. \A q \in Seq(PortReq), r \in PortReq : Append(q, r) \in Seq(PortReq)
        OBVIOUS
      <4>. QED BY <3>1, <4>2, <4>3, <4>4
    <3>3. CASE ~\E i \in 1 .. n : PortOf(i) = p
      BY <1>11, <3>1, <3>3
    <3>. QED BY <3>2, <3>3
  <2>2. coreReq' = [p \in Ports |-> coreReq'[p]]
    BY <1>7
  <2>. QED BY <2>1, <2>2
<1> HIDE DEF stage, n
<1>13. MovesGets(stage)
  <2>1. \A j, k \in DOMAIN stage : stage[j].port = stage[k].port => j = k
    BY <1>3, <1>5
  <2>2. Moves(stage)
    BY <1>5, <1>6, <1>7, <2>1 DEF Moves
  <2>3. \A k \in DOMAIN stage :
          /\ stage[k].want = array[stage[k].a][stage[k].off]
          /\ ReadOf(stage[k]) \in ReadReq
          /\ HasRoom(coreReq[stage[k].port], CoreDepth)
          /\ coreReq'[stage[k].port] = Append(coreReq[stage[k].port], ReadOf(stage[k]))
    BY <1>5, <1>7, <1>9, <1>10
  <2>4. \A p \in Ports : (\A k \in DOMAIN stage : stage[k].port # p) => coreReq'[p] = coreReq[p]
    BY <1>5, <1>11
  <2>. QED BY <1>7, <1>12, <2>2, <2>3, <2>4 DEF MovesGets
<1>14. nextPort' \in Ports
  <2>1. nextPort' = (nextPort + n) % NPorts
    BY DEF ClientGet, n
  <2>. QED BY <1>1, <2>1, DataflowAssumption DEF ClientOK, Ports
<1>15. iter' \in 0 .. MaxIter
  BY DataflowAssumption DEF ClientGet, ClientOK
<1>. QED BY <1>13, <1>14, <1>15

LEMMA SetMoves ==
  ASSUME ClientOK, PortsOK, NEW a \in Addr, NEW o \in Off, NEW d \in Data, ClientSet(a, o, d)
  PROVE  MovesSet(a, o, d) /\ nextPort' = nextPort /\ iter' \in 0 .. MaxIter
<1>1. /\ client = "running" /\ client' = client /\ TakeResponses /\ nextPort' = nextPort
      /\ \A i \in DOMAIN pipe[1] : coreResp[pipe[1][i].port] # << >>
      /\ HasRoom(coreReq[0], CoreDepth) /\ WrEnabled
      /\ coreReq' = [coreReq EXCEPT ![0] = Append(coreReq[0], WriteOf(a, o, d))]
      /\ array' = [array EXCEPT ![a] = [array[a] EXCEPT ![o] = d]]
  BY DEF ClientSet, CanMove, WriteOf
<1>2. pipe' = Append(Tail(pipe), << >>)
  <2>1. MovePipe(<< >>)
    BY DEF ClientSet
  <2>. QED BY <2>1 DEF MovePipe
<1>3. WriteOf(a, o, d) \in WriteReq
  <2>1. WriteOf(a, o, d) \in [op : {"WRITE"}, a : Addr, off : Off, data : Data]
    BY DEF WriteOf
  <2>. QED BY <1>1, <2>1 DEF WriteReq
<1>4. Ports = {0}
  BY <1>1, DataflowAssumption DEF Ports
<1>5. iter' \in 0 .. MaxIter
  BY DataflowAssumption DEF ClientSet, ClientOK
<1>6. << >> \in Seq(PipeRead) /\ DOMAIN << >> = {}
  OBVIOUS
<1>7. Moves(<< >>)
  BY <1>1, <1>2, <1>6 DEF Moves
<1>. QED BY <1>1, <1>3, <1>4, <1>5, <1>7 DEF MovesSet

(* The client's step is one of the two, or its last. *)
LEMMA ClientCases ==
  ASSUME ClientOK, PortsOK, Client
  PROVE  /\ \/ \E stage : MovesGets(stage)
            \/ \E a \in Addr, o \in Off, d \in Data : MovesSet(a, o, d)
            \/ ClientStop
         /\ nextPort' \in Ports /\ iter' \in 0 .. MaxIter
<1>1. CASE \E gets \in Gets : ClientGet(gets)
  BY <1>1, GetMoves
<1>2. CASE \E a \in Addr, o \in Off, d \in Data : ClientSet(a, o, d)
  BY <1>2, SetMoves DEF ClientOK
<1>3. CASE ClientStop
  BY <1>3 DEF ClientStop, ClientOK
<1>. QED BY <1>1, <1>2, <1>3 DEF Client

(* The stages of the pipeline after a step. *)
LEMMA PipeMoved ==
  ASSUME ClientOK, NEW stage, Moves(stage)
  PROVE  /\ pipe' \in Seq(Seq(PipeRead)) /\ Len(pipe') = Latency
         /\ \A i \in 1 .. Latency : pipe'[i] = IF i < Latency THEN pipe[i + 1] ELSE stage
<1>1. /\ pipe \in Seq(Seq(PipeRead)) /\ Len(pipe) = Latency /\ stage \in Seq(PipeRead)
      /\ pipe' = Append(Tail(pipe), stage) /\ Latency \in Nat /\ Latency >= 1
  BY DataflowAssumption DEF ClientOK, Moves
<1>. QED BY <1>1

LEMMA RoomFacts ==
  /\ CoreDepth \in Nat /\ CoreDepth >= Latency /\ Latency \in Nat /\ Latency >= 1
  /\ NPorts \in Nat /\ NPorts >= 1
<1>1. Latency * NPorts = Latency + Latency * (NPorts - 1) /\ Latency * (NPorts - 1) \in Nat
  BY DataflowAssumption
<1>. QED BY <1>1, DataflowAssumption DEF CoreDepth

LEMMA ClientNext ==
  ASSUME ClientOK, PortsOK, [Next]_vars
  PROVE  ClientOK'
<1>1. CASE Core \/ MemIf \/ UNCHANGED vars
  BY <1>1, CoreFrame, MemIfFrame, StutterFrame DEF ClientOK
<1>2. CASE Client
  <2>0. nextPort' \in Ports /\ iter' \in 0 .. MaxIter
    BY <1>2, ClientCases
  <2>1. ASSUME NEW stage, Moves(stage)
        PROVE  /\ pipe' \in Seq(Seq(PipeRead)) /\ Len(pipe') = Latency
               /\ \A i \in 1 .. Latency : \A j, k \in DOMAIN pipe'[i] :
                    pipe'[i][j].port = pipe'[i][k].port => j = k
               /\ client' \in {"running", "done"}
    <3>1. \A i \in 1 .. Latency : i < Latency => i + 1 \in 1 .. Latency
      BY DataflowAssumption
    <3>2. \A j, k \in DOMAIN stage : stage[j].port = stage[k].port => j = k
      BY <2>1 DEF Moves
    <3>3. ASSUME NEW i \in 1 .. Latency, NEW j \in DOMAIN pipe'[i], NEW k \in DOMAIN pipe'[i],
                 pipe'[i][j].port = pipe'[i][k].port
          PROVE  j = k
      <4>1. CASE i < Latency
        BY <2>1, <3>1, <3>3, <4>1, PipeMoved DEF ClientOK
      <4>2. CASE ~(i < Latency)
        BY <2>1, <3>2, <3>3, <4>2, PipeMoved
      <4>. QED BY <4>1, <4>2
    <3>. QED BY <2>1, <3>3, PipeMoved DEF Moves
  <2>2. CASE \E stage : MovesGets(stage)
    BY <2>0, <2>1, <2>2 DEF MovesGets, ClientOK
  <2>3. ASSUME NEW a \in Addr, NEW o \in Off, NEW d \in Data, MovesSet(a, o, d)
        PROVE  ClientOK'
    <3>1. array' \in [Addr -> Line]
      BY <2>3 DEF MovesSet, ClientOK, Line
    <3>. QED BY <2>0, <2>1, <2>3, <3>1 DEF MovesSet, ClientOK
  <2>4. CASE ClientStop
    BY <2>4, <2>0 DEF ClientStop, ClientOK
  <2>. QED BY <1>2, <2>2, <2>3, <2>4, ClientCases
<1>. QED BY <1>1, <1>2, NextCases

(* The answers the client takes. *)
LEMMA RespTaken ==
  ASSUME ClientOK, PortsOK, NEW stage, Moves(stage), NEW p \in Ports
  PROVE  /\ coreResp' \in [Ports -> Seq(Line)]
         /\ 1 \in Stages(p) => coreResp[p] # << >> /\ coreResp'[p] = Tail(coreResp[p])
         /\ 1 \notin Stages(p) => coreResp'[p] = coreResp[p]
<1>1. coreResp' = [q \in Ports |-> IF 1 \in Stages(q) THEN Tail(coreResp[q]) ELSE coreResp[q]]
  BY DEF Moves, TakeResponses
<1>2. \A q \in Ports : 1 \in Stages(q) => coreResp[q] # << >>
  BY DEF Moves, Stages
<1>3. \A q \in Ports : coreResp[q] \in Seq(Line)
  BY DEF PortsOK
<1>4. \A q \in Ports : 1 \in Stages(q) => Tail(coreResp[q]) \in Seq(Line)
  BY <1>2, <1>3
<1>. QED BY <1>1, <1>2, <1>3, <1>4

LEMMA StopMoves ==
  ASSUME ClientOK, PortsOK, ClientStop
  PROVE  /\ coreReq' = [coreReq EXCEPT ![0] = Append(coreReq[0], StopReq)]
         /\ coreResp' = coreResp /\ 0 \in Ports /\ HasRoom(coreReq[0], CoreDepth)
         /\ client = "running" /\ client' = "done" /\ HasReturned
         /\ UNCHANGED <<pipe, array>>
BY PortsRotate DEF ClientStop

(* A request reaches a port with room for it. *)
LEMMA RequestArrives ==
  ASSUME PortsOK, NEW p \in Ports, NEW r \in PortReq, HasRoom(coreReq[p], CoreDepth),
         coreReq' = [coreReq EXCEPT ![p] = Append(coreReq[p], r)]
  PROVE  /\ coreReq' \in [Ports -> Seq(PortReq)]
         /\ \A q \in Ports : Len(coreReq'[q]) <= CoreDepth
<1>1. /\ coreReq \in [Ports -> Seq(PortReq)] /\ Append(coreReq[p], r) \in Seq(PortReq)
      /\ Len(Append(coreReq[p], r)) = Len(coreReq[p]) + 1
  BY AtTheEnd DEF PortsOK
<1>2. coreReq' \in [Ports -> Seq(PortReq)]
  BY <1>1
<1>3. Len(coreReq[p]) \in Nat
  BY <1>1
<1>4. Len(coreReq[p]) + 1 <= CoreDepth
  BY <1>3, RoomFacts DEF HasRoom
<1>5. ASSUME NEW q \in Ports PROVE Len(coreReq'[q]) <= CoreDepth
  BY <1>1, <1>4 DEF PortsOK
<1>. QED BY <1>2, <1>5

LEMMA AnswersLeave ==
  ASSUME ClientOK, PortsOK, NEW stage, Moves(stage)
  PROVE  \A p \in Ports : Len(coreResp'[p]) <= CoreDepth
<1> SUFFICES ASSUME NEW p \in Ports PROVE Len(coreResp'[p]) <= CoreDepth
  OBVIOUS
<1>1. coreResp[p] \in Seq(Line) /\ Len(coreResp[p]) <= CoreDepth /\ Len(coreResp[p]) \in Nat
  BY DEF PortsOK
<1>2. 1 \in Stages(p) => Len(coreResp'[p]) = Len(coreResp[p]) - 1
  BY <1>1, RespTaken, WithoutHead
<1>. QED BY <1>1, <1>2, RespTaken, RoomFacts

LEMMA PortsNext ==
  ASSUME ClientOK, PortsOK, CoreOK, LinesOK, [Next]_vars
  PROVE  PortsOK'
<1>1. CASE MemIf \/ UNCHANGED vars
  BY <1>1, MemIfFrame, StutterFrame DEF PortsOK, CoreDepth
<1>2. CASE Client
  <2>1. ASSUME NEW stage, MovesGets(stage)
        PROVE  PortsOK'
    <3>1. Moves(stage) /\ coreReq' \in [Ports -> Seq(PortReq)]
      BY <2>1 DEF MovesGets
    <3>2. ASSUME NEW p \in Ports PROVE Len(coreReq'[p]) <= CoreDepth
      <4>1. CASE \E k \in DOMAIN stage : stage[k].port = p
        <5>1. PICK k \in DOMAIN stage : stage[k].port = p
          BY <4>1
        <5>2. /\ coreReq'[p] = Append(coreReq[p], ReadOf(stage[k]))
              /\ ReadOf(stage[k]) \in PortReq /\ Len(coreReq[p]) < CoreDepth
          BY <2>1, <5>1 DEF MovesGets, HasRoom, PortReq
        <5>3. coreReq[p] \in Seq(PortReq) /\ Len(coreReq[p]) \in Nat
          BY DEF PortsOK
        <5>4. Len(coreReq'[p]) = Len(coreReq[p]) + 1
          BY <5>2, <5>3, AtTheEnd
        <5>. QED BY <5>2, <5>3, <5>4, RoomFacts
      <4>2. CASE ~\E k \in DOMAIN stage : stage[k].port = p
        BY <2>1, <4>2 DEF MovesGets, PortsOK
      <4>. QED BY <4>1, <4>2
    <3>3. coreResp' \in [Ports -> Seq(Line)]
      BY <3>1, RespTaken, PortsRotate
    <3>4. \A p \in Ports : Len(coreResp'[p]) <= CoreDepth
      BY <3>1, AnswersLeave
    <3>. QED BY <3>1, <3>2, <3>3, <3>4 DEF PortsOK, CoreDepth
  <2>2. ASSUME NEW a \in Addr, NEW o \in Off, NEW d \in Data, MovesSet(a, o, d)
        PROVE  PortsOK'
    <3>1. /\ Moves(<< >>) /\ WriteOf(a, o, d) \in PortReq /\ 0 \in Ports
          /\ HasRoom(coreReq[0], CoreDepth)
          /\ coreReq' = [coreReq EXCEPT ![0] = Append(coreReq[0], WriteOf(a, o, d))]
      BY <2>2, PortsRotate DEF MovesSet, PortReq
    <3>2. /\ coreReq' \in [Ports -> Seq(PortReq)]
          /\ \A q \in Ports : Len(coreReq'[q]) <= CoreDepth
      BY <3>1, RequestArrives
    <3>3. coreResp' \in [Ports -> Seq(Line)]
      BY <3>1, RespTaken
    <3>4. \A p \in Ports : Len(coreResp'[p]) <= CoreDepth
      BY <3>1, AnswersLeave
    <3>. QED BY <3>2, <3>3, <3>4 DEF PortsOK, CoreDepth
  <2>3. CASE ClientStop
    <3>1. StopReq \in PortReq
      BY DEF PortReq
    <3>2. /\ coreReq' \in [Ports -> Seq(PortReq)]
          /\ \A q \in Ports : Len(coreReq'[q]) <= CoreDepth
      BY <2>3, <3>1, StopMoves, RequestArrives
    <3>. QED BY <2>3, <3>2, StopMoves DEF PortsOK, CoreDepth
  <2>. QED BY <1>2, <2>1, <2>2, <2>3, ClientCases
<1>3. CASE Core
  <2>1. CASE TakeRequest /\ coreResp' = coreResp
    <3>1. coreReq' = [coreReq EXCEPT ![port] = Tail(coreReq[port])]
          /\ coreReq[port] \in Seq(PortReq) /\ coreReq[port] # << >> /\ port \in Ports
      BY <2>1, TakenFacts DEF CoreOK
    <3>2. /\ Tail(coreReq[port]) \in Seq(PortReq)
          /\ Len(Tail(coreReq[port])) = Len(coreReq[port]) - 1 /\ Len(coreReq[port]) \in Nat
      BY <3>1, WithoutHead
    <3>3. coreReq' \in [Ports -> Seq(PortReq)]
      BY <3>1, <3>2 DEF PortsOK
    <3>4. ASSUME NEW q \in Ports PROVE Len(coreReq'[q]) <= CoreDepth
      BY <3>1, <3>2, RoomFacts DEF PortsOK
    <3>. QED BY <2>1, <3>3, <3>4 DEF PortsOK, CoreDepth
  <2>2. CASE CoreRespond
    <3>1. /\ coreResp' = [coreResp EXCEPT ![port] = Append(coreResp[port], data[ReqSlot])]
          /\ Len(coreResp[port]) < CoreDepth /\ coreReq' = coreReq /\ core = "respond"
      BY <2>2 DEF CoreRespond, RespondPort, HasRoom
    <3>2. data[ReqSlot] \in Line /\ port \in Ports
      BY <3>1, SlotFacts DEF LinesOK, LinesTypeOK, CoreOK, Serving
    <3>3. coreResp[port] \in Seq(Line) /\ Len(coreResp[port]) \in Nat
      BY <3>2 DEF PortsOK
    <3>4. /\ Append(coreResp[port], data[ReqSlot]) \in Seq(Line)
          /\ Len(Append(coreResp[port], data[ReqSlot])) = Len(coreResp[port]) + 1
      BY <3>2, <3>3, AtTheEnd
    <3>5. coreResp' \in [Ports -> Seq(Line)]
      BY <3>1, <3>4 DEF PortsOK
    <3>6. Len(coreResp[port]) + 1 <= CoreDepth
      BY <3>1, <3>3, RoomFacts
    <3>7. ASSUME NEW q \in Ports PROVE Len(coreResp'[q]) <= CoreDepth
      BY <3>1, <3>4, <3>6 DEF PortsOK
    <3>. QED BY <3>1, <3>5, <3>7 DEF PortsOK, CoreDepth
  <2>3. CASE UNCHANGED <<coreReq, coreResp>>
    BY <2>3 DEF PortsOK, CoreDepth
  <2>4. \/ TakeRequest /\ coreResp' = coreResp
        \/ CoreRespond
        \/ UNCHANGED <<coreReq, coreResp>>
    BY <1>3 DEF Core, CorePoll, CoreBreak, CoreHit, CoreMiss, CoreSendReq, CoreSendSt,
       CoreFill, CoreFlushClean, CoreFlushReq, CoreFlushSt, CoreStopMem, portQueues
  <2>. QED BY <2>1, <2>2, <2>3, <2>4
<1>. QED BY <1>1, <1>2, <1>3, NextCases
-----------------------------------------------------------------------------
(* run_core and run_mem_if.  While a request is served its own words stay. *)
LEMMA FetchWords ==
  ASSUME UNCHANGED <<req, way, tag, valid, dirty, data>>
  PROVE  /\ ReqSlot' = ReqSlot /\ Asked' = Asked /\ CopyOf(ReqSlot)' = CopyOf(ReqSlot)
         /\ MustWriteBack(ReqSlot)' = MustWriteBack(ReqSlot)
         /\ WriteBackAddr(ReqSlot)' = WriteBackAddr(ReqSlot)
         /\ data[ReqSlot]' = data[ReqSlot]
         /\ mem' = mem => WrittenBack' = WrittenBack
<1>1. ReqSlot' = ReqSlot
  BY DEF ReqSlot
<1>2. MustWriteBack(ReqSlot)' = MustWriteBack(ReqSlot)
  BY <1>1 DEF MustWriteBack
<1>3. WriteBackAddr(ReqSlot)' = WriteBackAddr(ReqSlot)
  BY <1>1 DEF WriteBackAddr
<1>. QED BY <1>1, <1>2, <1>3 DEF Asked, CopyOf, WrittenBack

LEMMA FetchNext ==
  ASSUME LinesOK, CoreOK, PortsOK, FetchOK, StoresOK, [Next]_vars
  PROVE  FetchOK'
<1>1. CASE Client \/ UNCHANGED vars
  <2>1. /\ UNCHANGED <<mem, tag, valid, dirty, data, req, way>>
        /\ UNCHANGED <<core, memIf, memReq, memSt, memResp, mreq, mline>>
    BY <1>1, ClientFrame, StutterFrame
  <2>2. Asked' = Asked /\ CopyOf(ReqSlot)' = CopyOf(ReqSlot) /\ WrittenBack' = WrittenBack
    BY <2>1, FetchWords
  <2>. QED BY <2>1, <2>2 DEF FetchOK
<1>2. CASE Core
  <2>0. UNCHANGED <<mem, memIf, mreq, mline>>
    BY <1>2, CoreFrame
  <2>1. CASE CorePoll \/ CoreHit \/ CoreMiss \/ CoreRespond
    <3>1. core \in {"poll", "respond"} /\ core' \in {"poll", "respond", "sendReq"}
          /\ UNCHANGED <<memReq, memSt, memResp>>
      BY <2>1 DEF CorePoll, CoreHit, CoreMiss, CoreRespond, TakeRequest, memQueues
    <3>. QED BY <2>0, <3>1 DEF FetchOK
  <2>2. CASE CoreSendReq
    <3>1. /\ core = "sendReq" /\ memReq' = Append(memReq, Asked)
          /\ core' = IF WrEnabled THEN "sendSt" ELSE "await"
          /\ UNCHANGED <<memSt, memResp, req, way, tag, valid, dirty, data>>
      BY <2>2 DEF CoreSendReq, StoreFollows, Asked, cacheVars, lines
    <3>2. memReq' = <<Asked>> /\ Asked' = Asked
      BY <3>1, FetchWords DEF FetchOK
    <3>. QED BY <2>0, <3>1, <3>2, CacheAssumption DEF FetchOK
  <2>3. CASE CoreSendSt
    <3>1. /\ core = "sendSt" /\ memSt' = Append(memSt, CopyOf(ReqSlot)) /\ core' = "await"
          /\ UNCHANGED <<memReq, memResp, req, way, tag, valid, dirty, data>>
      BY <2>3 DEF CoreSendSt, CopyOf, cacheVars, lines
    <3>2. memSt' = <<CopyOf(ReqSlot)>> /\ CopyOf(ReqSlot)' = CopyOf(ReqSlot) /\ Asked' = Asked
      BY <3>1, FetchWords DEF FetchOK
    <3>. QED BY <2>0, <3>1, <3>2 DEF FetchOK, CoreOK
  <2>4. CASE CoreFill
    <3>1. core = "await" /\ memResp # << >>
      BY <2>4 DEF CoreFill
    <3>2. memIf = "req" /\ memReq = << >> /\ memSt = << >>
      BY <3>1 DEF FetchOK
    <3>3. /\ core' \in {"poll", "respond"} /\ memResp' = << >>
          /\ UNCHANGED <<memReq, memSt, memIf>>
      BY <2>4, FillEffect
    <3>. QED BY <3>2, <3>3 DEF FetchOK
  <2>5. CASE CoreBreak \/ CoreFlushClean \/ CoreFlushReq \/ CoreFlushSt \/ CoreStopMem
    <3>1. core' \in {"flush", "flushSt", "stopMem", "done"}
      BY <2>5 DEF CoreBreak, CoreFlushClean, CoreFlushReq, CoreFlushSt, CoreStopMem, FlushNext
    <3>. QED BY <3>1 DEF FetchOK
  <2>. QED BY <1>2, <2>1, <2>2, <2>3, <2>4, <2>5 DEF Core
<1>3. CASE MemIf
  <2>0. UNCHANGED <<tag, valid, dirty, data, req, way, core>>
    BY <1>3, MemIfFrame
  <2>1. /\ Asked' = Asked /\ CopyOf(ReqSlot)' = CopyOf(ReqSlot)
        /\ mem' = mem => WrittenBack' = WrittenBack
        /\ Asked.a = req.a /\ Asked # StopReq
    BY <2>0, FetchWords DEF Asked, StopReq
  <2>2. CASE MemIfReq
    <3>1. /\ memIf = "req" /\ memReq # << >> /\ memReq' = Tail(memReq) /\ mreq' = Head(memReq)
          /\ memIf' = IF mreq' = StopReq THEN "done" ELSE IF WrEnabled THEN "st" ELSE "load"
          /\ UNCHANGED <<mem, memSt, memResp, mline>>
      BY <2>2 DEF MemIfReq, cacheVars
    <3>2. core \in {"sendSt", "await"} =>
            memReq = <<Asked>> /\ memReq' = << >> /\ mreq' = Asked
            /\ memIf' = IF WrEnabled THEN "st" ELSE "load"
      <4>1. core \in {"sendSt", "await"} => memReq = <<Asked>>
        BY <3>1 DEF FetchOK
      <4>2. memReq = <<Asked>> => memReq' = << >> /\ mreq' = Asked
        BY <3>1
      <4>. QED BY <2>1, <3>1, <4>1, <4>2
    <3>. QED BY <2>0, <2>1, <3>1, <3>2 DEF FetchOK, CoreOK
  <2>3. CASE MemIfLoad
    <3>1. /\ memIf = "load" /\ mline' = mem[mreq.a] /\ memIf' = "resp"
          /\ UNCHANGED <<mem, memReq, memSt, memResp, mreq>>
      BY <2>3 DEF MemIfLoad, cacheVars, memQueues
    <3>2. ~WrEnabled => WrittenBack
      BY DEF WrittenBack, MustWriteBack
    <3>. QED BY <2>0, <2>1, <3>1, <3>2 DEF FetchOK
  <2>4. CASE MemIfExec
    <3>1. CASE core = "await"
      <4>1. ReqSlot \in Slot /\ req.a \in Addr /\ req.a = <<req.a[1], req.a[2]>>
            /\ req.a[2] \in Set /\ ReqSlot = <<req.a[2], way>> /\ way \in Ways
        BY <3>1, SlotFacts DEF Serving, CoreOK
      <4>2. MustWriteBack(ReqSlot) => WriteBackAddr(ReqSlot) # req.a
        <5>1. ~IsHit(req.a[1], req.a[2])
          BY <3>1 DEF CoreOK, Fetching
        <5>2. valid[ReqSlot] => tag[ReqSlot] # req.a[1]
          BY <4>1, <5>1 DEF IsHit, HitWays
        <5>. QED BY <4>1, <5>2 DEF MustWriteBack, WriteBackAddr
      <4>3. WriteBackAddr(ReqSlot) \in Addr
        BY <4>1 DEF WriteBackAddr, Addr, LinesOK, LinesTypeOK
      <4>4. /\ memSt' = << >> /\ memIf' = "resp" /\ memReq' = << >> /\ memResp' = << >>
            /\ mline' = mem[req.a]
            /\ mem' = IF MustWriteBack(ReqSlot)
                      THEN [mem EXCEPT ![WriteBackAddr(ReqSlot)] = data[ReqSlot]]
                      ELSE mem
        BY <2>4, <3>1, ExecEffect DEF Ending
      <4>5. mem'[req.a] = mem[req.a]
            /\ (MustWriteBack(ReqSlot) => mem'[WriteBackAddr(ReqSlot)] = data[ReqSlot])
        BY <4>1, <4>2, <4>3, <4>4 DEF LinesOK, LinesTypeOK
      <4>6. WrittenBack'
        <5>1. /\ MustWriteBack(ReqSlot)' = MustWriteBack(ReqSlot)
              /\ WriteBackAddr(ReqSlot)' = WriteBackAddr(ReqSlot)
              /\ data[ReqSlot]' = data[ReqSlot]
          BY <2>0, FetchWords
        <5>. QED BY <4>5, <5>1 DEF WrittenBack
      <4>. QED BY <2>0, <3>1, <4>4, <4>5, <4>6 DEF FetchOK
    <3>2. CASE core # "await"
      <4>1. Ending
        BY <2>4, <3>2, ExecEffect
      <4>. QED BY <2>0, <4>1 DEF FetchOK, Ending
    <3>. QED BY <3>1, <3>2
  <2>5. CASE MemIfRespond
    <3>1. /\ memIf = "resp" /\ memResp' = Append(memResp, mline) /\ memIf' = "req"
          /\ UNCHANGED <<mem, memReq, memSt>>
      BY <2>5 DEF MemIfRespond, cacheVars
    <3>2. core \notin {"poll", "respond", "sendReq", "sendSt"}
      BY <3>1 DEF FetchOK
    <3>3. CASE core = "await"
      <4>1. /\ memReq = << >> /\ memSt = << >> /\ memResp = << >>
            /\ mline = mem[req.a] /\ WrittenBack
        BY <3>1, <3>3 DEF FetchOK
      <4>2. memResp' = <<mem[req.a]>>'
        BY <2>0, <3>1, <4>1
      <4>. QED BY <2>0, <2>1, <3>1, <3>3, <4>1, <4>2 DEF FetchOK
    <3>4. CASE core # "await"
      BY <2>0, <3>2, <3>4 DEF FetchOK
    <3>. QED BY <3>3, <3>4
  <2>. QED BY <1>3, <2>2, <2>3, <2>4, <2>5 DEF MemIf
<1>. QED BY <1>1, <1>2, <1>3, NextCases
-----------------------------------------------------------------------------
(* While the cache is flushed. *)
LEMMA EndingSteps ==
  ASSUME CoreOK, Core, Ending'
  PROVE  \/ CoreBreak \/ CoreFlushClean \/ CoreFlushReq \/ CoreFlushSt \/ CoreStopMem
<1>1. ~(CorePoll \/ CoreHit \/ CoreMiss \/ CoreSendReq \/ CoreSendSt \/ CoreFill \/ CoreRespond)
  BY DEF CorePoll, CoreHit, CoreMiss, CoreSendReq, CoreSendSt, CoreFill, CoreRespond,
     TakeRequest, Ending
<1>. QED BY <1>1 DEF Core

LEMMA RequestKinds == FlushReq # StopReq /\ FlushReq.op = "WRITE" /\ FlushReq.op # "READ"
<1>1. FlushReq.op = "WRITE" /\ StopReq.op = "STOP"
  BY DEF FlushReq, StopReq
<1>. QED BY <1>1

LEMMA BreakStores ==
  ASSUME FetchOK, CoreBreak
  PROVE  StoresOK'
<1>1. /\ core = "poll" /\ core' \in {"flush", "stopMem"}
      /\ UNCHANGED <<memIf, memReq, memSt, memResp, mreq>>
  BY DEF CoreBreak, TakeRequest, memQueues, memIfVars
<1>2. memIf = "req" /\ memReq = << >> /\ memSt = << >> /\ memResp = << >>
  BY <1>1 DEF FetchOK
<1>3. Len(memReq) = 0 /\ Len(memSt) = 0 /\ MemDepth \in Nat /\ 0 <= MemDepth
  BY <1>2 DEF MemDepth
<1>. QED BY <1>1, <1>2, <1>3 DEF StoresOK, One, MemDepth

(* The entries of m_mem_st_req are still copies of clean lines. *)
LEMMA CopiesStay ==
  ASSUME UNCHANGED <<tag, valid, data>>, \A x \in Slot : dirty'[x] => dirty[x]
  PROVE  /\ \A x : CopyOf(x)' = CopyOf(x)
         /\ \A e : (\E x \in Slot : valid[x] /\ ~dirty[x] /\ e = CopyOf(x))
                     => \E x \in Slot : valid'[x] /\ ~dirty'[x] /\ e = CopyOf(x)'
<1>1. \A x : CopyOf(x)' = CopyOf(x)
  BY DEF CopyOf, WriteBackAddr
<1>2. \A e, x : e = CopyOf(x) => e = CopyOf(x)'
  BY <1>1
<1>. QED BY <1>1, <1>2

LEMMA FlushCleanStores ==
  ASSUME StoresOK, CoreOK, CoreFlushClean
  PROVE  StoresOK'
<1>1. /\ core = "flush" /\ core' \in {"flush", "stopMem"} /\ Ending
      /\ UNCHANGED <<memIf, memReq, memSt, memResp, mreq, tag, valid, dirty, data>>
  BY DEF CoreFlushClean, FlushNext, memQueues, memIfVars, cacheVars, lines, Ending
<1>2. \A x : CopyOf(x)' = CopyOf(x)
  BY <1>1, CopiesStay
<1>. QED BY <1>1, <1>2 DEF StoresOK, One, MemDepth

LEMMA FlushReqStores ==
  ASSUME StoresOK, CoreOK, CoreFlushReq
  PROVE  StoresOK'
<1>1. /\ core = "flush" /\ core' = "flushSt" /\ Ending /\ WrEnabled
      /\ memReq' = Append(memReq, FlushReq) /\ Len(memReq) < MemDepth
      /\ UNCHANGED <<memIf, memSt, memResp, mreq, tag, valid, dirty, data>>
  BY DEF CoreFlushReq, CoreOK, memIfVars, cacheVars, lines, Ending, FlushReq, HasRoom
<1>2. \A x : CopyOf(x)' = CopyOf(x)
  BY <1>1, CopiesStay
<1>3. memReq \in Seq({FlushReq, StopReq}) /\ Len(memReq) \in Nat /\ FlushReq # StopReq
  BY <1>1, RequestKinds DEF StoresOK
<1> HIDE DEF FlushReq, StopReq
<1>4. /\ memReq' \in Seq({FlushReq, StopReq}) /\ Len(memReq') = Len(memReq) + 1
      /\ memReq'[Len(memReq) + 1] = FlushReq
      /\ \A j \in 1 .. Len(memReq) : memReq'[j] = memReq[j]
  BY <1>1, <1>3
<1>5. \A j \in 1 .. Len(memReq') : j \in 1 .. Len(memReq) \/ j = Len(memReq) + 1
  BY <1>3, <1>4
<1>6. \A j \in 1 .. Len(memReq') : memReq'[j] # StopReq
  BY <1>1, <1>3, <1>4, <1>5 DEF StoresOK
<1>7. Len(memReq') <= MemDepth /\ memReq' # << >>
  BY <1>1, <1>3, <1>4 DEF MemDepth
<1>8. Len(memReq') + One(memIf' = "st")
        = Len(memSt') + One(core' = "flushSt") + One(core' = "done" /\ memIf' # "done")
  <2>1. Len(memReq) + One(memIf = "st") = Len(memSt) /\ Len(memSt) \in Nat
    BY <1>1 DEF StoresOK, One
  <2>. QED BY <1>1, <1>3, <1>4, <2>1 DEF One
<1>9. memIf' # "done"
  BY <1>1 DEF StoresOK
<1>. QED BY <1>1, <1>2, <1>4, <1>6, <1>7, <1>8, <1>9 DEF StoresOK, MemDepth

LEMMA FlushStStores ==
  ASSUME StoresOK, CoreOK, LinesOK, CoreFlushSt
  PROVE  StoresOK'
<1>1. /\ core = "flushSt" /\ core' \in {"flush", "stopMem"} /\ Ending
      /\ memSt' = Append(memSt, CopyOf(FlushSlot)) /\ Len(memSt) < MemDepth
      /\ dirty' = [dirty EXCEPT ![FlushSlot] = FALSE]
      /\ UNCHANGED <<memIf, memReq, memResp, mreq, tag, valid, data>>
  BY DEF CoreFlushSt, FlushNext, memIfVars, Ending, CopyOf, HasRoom
<1>2. FlushSlot \in Slot /\ valid[FlushSlot]
  BY <1>1, SlotFacts DEF CoreOK, FlushDirty
<1>3. /\ memSt \in Seq([a : Addr, line : Line]) /\ Len(memSt) \in Nat
      /\ CopyOf(FlushSlot) \in [a : Addr, line : Line]
  BY <1>1, <1>2 DEF StoresOK, CopyOf, WriteBackAddr, LinesOK, LinesTypeOK, Addr, Slot
<1> HIDE DEF FlushSlot
<1>4. /\ dirty' \in [Slot -> BOOLEAN] /\ ~dirty'[FlushSlot]
      /\ \A x \in Slot : dirty'[x] => dirty[x]
  BY <1>1, <1>2 DEF LinesOK, LinesTypeOK
<1>5. /\ \A x : CopyOf(x)' = CopyOf(x)
      /\ \A e : (\E x \in Slot : valid[x] /\ ~dirty[x] /\ e = CopyOf(x))
                  => \E x \in Slot : valid'[x] /\ ~dirty'[x] /\ e = CopyOf(x)'
  BY <1>1, <1>4, CopiesStay
<1>6. /\ memSt' \in Seq([a : Addr, line : Line]) /\ Len(memSt') = Len(memSt) + 1
      /\ memSt'[Len(memSt) + 1] = CopyOf(FlushSlot)
      /\ \A j \in 1 .. Len(memSt) : memSt'[j] = memSt[j]
  BY <1>1, <1>3, AtTheEnd
<1>7. \A j \in 1 .. Len(memSt') : j \in 1 .. Len(memSt) \/ j = Len(memSt) + 1
  BY <1>3, <1>6
<1>8. ASSUME NEW j \in 1 .. Len(memSt')
      PROVE  \E x \in Slot : valid'[x] /\ ~dirty'[x] /\ memSt'[j] = CopyOf(x)'
  <2>1. CASE j \in 1 .. Len(memSt)
    <3>1. \E x \in Slot : valid[x] /\ ~dirty[x] /\ memSt[j] = CopyOf(x)
      BY <1>1, <2>1 DEF StoresOK
    <3>. QED BY <1>5, <1>6, <2>1, <3>1
  <2>2. CASE j = Len(memSt) + 1
    <3>1. memSt'[j] = CopyOf(FlushSlot) /\ valid'[FlushSlot] /\ ~dirty'[FlushSlot]
      BY <1>1, <1>2, <1>4, <1>6, <2>2
    <3>2. \A x : memSt'[j] = CopyOf(x) => memSt'[j] = CopyOf(x)'
      BY <1>5
    <3>. QED BY <1>2, <3>1, <3>2
  <2>. QED BY <1>7, <2>1, <2>2
<1>9. Len(memReq') + One(memIf' = "st")
        = Len(memSt') + One(core' = "flushSt") + One(core' = "done" /\ memIf' # "done")
  <2>1. Len(memReq) + One(memIf = "st") = Len(memSt) + 1
    BY <1>1 DEF StoresOK, One
  <2>. QED BY <1>1, <1>3, <1>6, <2>1 DEF One
<1>10. Len(memSt') <= MemDepth
  BY <1>1, <1>3, <1>6 DEF MemDepth
<1>. QED BY <1>1, <1>6, <1>8, <1>9, <1>10 DEF StoresOK, MemDepth

LEMMA StopMemStores ==
  ASSUME StoresOK, CoreOK, CoreStopMem
  PROVE  StoresOK'
<1>1. /\ core = "stopMem" /\ core' = "done" /\ Ending
      /\ memReq' = Append(memReq, StopReq) /\ Len(memReq) < MemDepth
      /\ UNCHANGED <<memIf, memSt, memResp, mreq, tag, valid, dirty, data>>
  BY DEF CoreStopMem, memIfVars, cacheVars, lines, Ending, HasRoom
<1>2. \A x : CopyOf(x)' = CopyOf(x)
  BY <1>1, CopiesStay
<1>3. memReq \in Seq({FlushReq, StopReq}) /\ Len(memReq) \in Nat /\ FlushReq # StopReq
  BY <1>1, RequestKinds DEF StoresOK
<1> HIDE DEF FlushReq, StopReq
<1>4. /\ memReq' \in Seq({FlushReq, StopReq}) /\ Len(memReq') = Len(memReq) + 1
      /\ memReq'[Len(memReq) + 1] = StopReq
      /\ \A j \in 1 .. Len(memReq) : memReq'[j] = memReq[j]
  BY <1>1, <1>3
<1>5. \A j \in 1 .. Len(memReq') : j \in 1 .. Len(memReq) \/ j = Len(memReq) + 1
  BY <1>3, <1>4
<1>6. \A j \in 1 .. Len(memReq') :
        /\ memReq'[j] = StopReq <=> j = Len(memReq')
        /\ memReq'[j] = FlushReq => WrEnabled
  BY <1>1, <1>3, <1>4, <1>5 DEF StoresOK
<1>7. Len(memReq') <= MemDepth /\ memReq' # << >>
  BY <1>1, <1>3, <1>4 DEF MemDepth
<1>8. memIf' # "done" /\ memIf # "done"
  BY <1>1 DEF StoresOK
<1>9. Len(memReq') + One(memIf' = "st")
        = Len(memSt') + One(core' = "flushSt") + One(core' = "done" /\ memIf' # "done")
  <2>1. Len(memReq) + One(memIf = "st") = Len(memSt) /\ Len(memSt) \in Nat
    BY <1>1 DEF StoresOK, One
  <2>. QED BY <1>1, <1>3, <1>4, <1>8, <2>1 DEF One
<1>. QED BY <1>1, <1>2, <1>4, <1>6, <1>7, <1>8, <1>9 DEF StoresOK, MemDepth

LEMMA MemIfReqStores ==
  ASSUME StoresOK, CoreOK, Ending, MemIfReq
  PROVE  StoresOK'
<1>1. /\ memIf = "req" /\ memReq # << >> /\ memReq' = Tail(memReq) /\ mreq' = Head(memReq)
      /\ memIf' = IF mreq' = StopReq THEN "done" ELSE IF WrEnabled THEN "st" ELSE "load"
      /\ UNCHANGED <<memSt, memResp, tag, valid, dirty, data, core>>
  BY DEF MemIfReq, coreVars, cacheVars, lines
<1>2. \A x : CopyOf(x)' = CopyOf(x)
  BY <1>1, CopiesStay
<1>3. memReq \in Seq({FlushReq, StopReq}) /\ Len(memReq) \in Nat /\ FlushReq # StopReq
  BY RequestKinds DEF StoresOK
<1> HIDE DEF FlushReq, StopReq
<1>4. /\ memReq' \in Seq({FlushReq, StopReq}) /\ Len(memReq') = Len(memReq) - 1
      /\ Len(memReq) >= 1 /\ mreq' = memReq[1] /\ mreq' \in {FlushReq, StopReq}
      /\ \A j \in 1 .. Len(memReq) - 1 : memReq'[j] = memReq[j + 1]
  BY <1>1, <1>3, WithoutHead
<1>5. /\ \A j \in 1 .. Len(memReq) :
           /\ memReq[j] = StopReq <=> core = "done" /\ j = Len(memReq)
           /\ memReq[j] = FlushReq => WrEnabled
      /\ 1 \in 1 .. Len(memReq)
      /\ \A j \in 1 .. Len(memReq) - 1 : j + 1 \in 1 .. Len(memReq)
  BY <1>4 DEF StoresOK
<1>6. \A j \in 1 .. Len(memReq') :
        /\ memReq'[j] = StopReq <=> core' = "done" /\ j = Len(memReq')
        /\ memReq'[j] = FlushReq => WrEnabled
  <2> SUFFICES ASSUME NEW j \in 1 .. Len(memReq')
               PROVE  /\ memReq'[j] = StopReq <=> core = "done" /\ j = Len(memReq')
                      /\ memReq'[j] = FlushReq => WrEnabled
    BY <1>1
  <2>1. j \in 1 .. Len(memReq) - 1 /\ j + 1 \in 1 .. Len(memReq)
        /\ memReq'[j] = memReq[j + 1]
    BY <1>3, <1>4
  <2>2. j + 1 = Len(memReq) <=> j = Len(memReq')
    BY <1>3, <1>4, <2>1
  <2>. QED BY <1>5, <2>1, <2>2
<1>7. /\ core \in {"flushSt", "done"} => Len(memReq) = Len(memSt) + 1
      /\ core \notin {"flushSt", "done"} => Len(memReq) = Len(memSt)
      /\ Len(memSt) \in Nat /\ Len(memReq) <= MemDepth
  <2>1. /\ Len(memReq) + One(memIf = "st")
             = Len(memSt) + One(core = "flushSt") + One(core = "done" /\ memIf # "done")
        /\ Len(memSt) \in Nat /\ Len(memReq) <= MemDepth
    BY DEF StoresOK
  <2>2. memIf # "st" /\ memIf # "done"
    BY <1>1
  <2>3. CASE core = "flushSt"
    BY <1>3, <2>1, <2>2, <2>3 DEF One
  <2>4. CASE core = "done"
    BY <1>3, <2>1, <2>2, <2>4 DEF One
  <2>5. CASE core # "flushSt" /\ core # "done"
    BY <1>3, <2>1, <2>2, <2>5 DEF One
  <2>. QED BY <2>3, <2>4, <2>5
<1>8. CASE mreq' = StopReq
  <2>1. memIf' = "done" /\ core = "done" /\ Len(memReq) = 1
    BY <1>1, <1>4, <1>5, <1>8
  <2>2. memReq' = << >> /\ Len(memReq') = 0
    BY <1>4, <2>1
  <2>3. Len(memSt) = 0
    BY <1>7, <2>1
  <2>4. Len(memReq') + One(memIf' = "st")
          = Len(memSt') + One(core' = "flushSt") + One(core' = "done" /\ memIf' # "done")
    BY <1>1, <2>1, <2>2, <2>3 DEF One
  <2>5. Len(memReq') <= MemDepth /\ \A j \in 1 .. Len(memReq') : FALSE
    BY <2>2 DEF MemDepth
  <2>6. memSt' = << >>
    BY <1>1, <2>3 DEF StoresOK
  <2>. QED BY <1>1, <1>4, <2>1, <2>2, <2>4, <2>5, <2>6 DEF StoresOK, MemDepth
<1>9. CASE mreq' = FlushReq
  <2>1. memIf' = "st" /\ WrEnabled
    BY <1>1, <1>3, <1>4, <1>5, <1>9
  <2>2. core = "done" => Len(memReq) >= 2
    <3>1. memReq[1] # StopReq
      BY <1>3, <1>4, <1>9
    <3>2. core = "done" => Len(memReq) # 1
      BY <1>5, <3>1
    <3>. QED BY <1>3, <1>4, <3>2
  <2>3. core = "done" => memReq' # << >>
    BY <1>4, <2>2
  <2>4. Len(memReq') + One(memIf' = "st")
          = Len(memSt') + One(core' = "flushSt") + One(core' = "done" /\ memIf' # "done")
    <3>1. Len(memReq') + 1 = Len(memReq) /\ memSt' = memSt /\ core' = core
      BY <1>1, <1>3, <1>4
    <3>2. CASE core = "flushSt"
      BY <1>3, <1>7, <2>1, <3>1, <3>2 DEF One
    <3>3. CASE core = "done"
      BY <1>3, <1>7, <2>1, <3>1, <3>3 DEF One
    <3>4. CASE core # "flushSt" /\ core # "done"
      BY <1>3, <1>7, <2>1, <3>1, <3>4 DEF One
    <3>. QED BY <3>2, <3>3, <3>4
  <2>5. Len(memReq') <= MemDepth
    BY <1>3, <1>4, <1>7 DEF MemDepth
  <2>. QED BY <1>1, <1>2, <1>4, <1>6, <1>9, <2>1, <2>3, <2>4, <2>5 DEF StoresOK, MemDepth
<1>. QED BY <1>4, <1>8, <1>9

LEMMA ExecStores ==
  ASSUME StoresOK, CoreOK, FetchOK, Ending, MemIfExec
  PROVE  StoresOK'
<1>1. /\ memIf = "st" /\ memSt # << >> /\ memSt' = Tail(memSt) /\ memIf' = "req"
      /\ UNCHANGED <<memReq, memResp, mreq, tag, valid, dirty, data, core>>
  BY ExecEffect DEF Ending, MemIfExec, coreVars, lines
<1>2. \A x : CopyOf(x)' = CopyOf(x)
  BY <1>1, CopiesStay
<1>3. memSt \in Seq([a : Addr, line : Line]) /\ Len(memSt) \in Nat
  BY DEF StoresOK
<1>4. /\ memSt' \in Seq([a : Addr, line : Line]) /\ Len(memSt') = Len(memSt) - 1
      /\ Len(memSt) >= 1
      /\ \A j \in 1 .. Len(memSt) - 1 : memSt'[j] = memSt[j + 1]
  BY <1>1, <1>3, WithoutHead
<1>5. \A j \in 1 .. Len(memSt') :
        \E x \in Slot : valid'[x] /\ ~dirty'[x] /\ memSt'[j] = CopyOf(x)'
  <2> SUFFICES ASSUME NEW j \in 1 .. Len(memSt')
               PROVE  \E x \in Slot : valid'[x] /\ ~dirty'[x] /\ memSt'[j] = CopyOf(x)'
    OBVIOUS
  <2>1. j + 1 \in 1 .. Len(memSt) /\ memSt'[j] = memSt[j + 1]
    BY <1>3, <1>4
  <2>2. PICK x \in Slot : valid[x] /\ ~dirty[x] /\ memSt[j + 1] = CopyOf(x)
    BY <2>1 DEF StoresOK
  <2>. QED BY <1>1, <1>2, <2>1, <2>2
<1>6. /\ Len(memReq) + One(memIf = "st")
           = Len(memSt) + One(core = "flushSt") + One(core = "done" /\ memIf # "done")
      /\ Len(memReq) \in Nat
  BY DEF StoresOK
<1>7. memReq' # << >> \/ core' # "done"
  BY <1>1 DEF StoresOK
<1>8. Len(memReq') + One(memIf' = "st")
        = Len(memSt') + One(core' = "flushSt") + One(core' = "done" /\ memIf' # "done")
  <2>1. CASE core = "flushSt"
    BY <1>1, <1>3, <1>4, <1>6, <2>1 DEF One
  <2>2. CASE core = "done"
    BY <1>1, <1>3, <1>4, <1>6, <2>2 DEF One
  <2>3. CASE core # "flushSt" /\ core # "done"
    <3>1. Len(memReq) + 1 = Len(memSt)
      BY <1>1, <1>3, <1>6, <2>3 DEF One
    <3>2. Len(memReq') = Len(memSt')
      <4>1. Len(memReq) = Len(memSt) - 1
        BY <1>3, <1>6, <3>1
      <4>. QED BY <1>1, <1>4, <4>1
    <3>. QED BY <1>1, <1>3, <1>4, <1>6, <2>3, <3>2 DEF One
  <2>. QED BY <2>1, <2>2, <2>3
<1>9. Len(memSt') <= MemDepth
  BY <1>3, <1>4 DEF StoresOK, MemDepth
<1>. QED BY <1>1, <1>4, <1>5, <1>7, <1>8, <1>9 DEF StoresOK, MemDepth

LEMMA StoresNext ==
  ASSUME LinesOK, CoreOK, FetchOK, StoresOK, [Next]_vars
  PROVE  StoresOK'
<1>1. CASE Client \/ UNCHANGED vars
  <2>1. UNCHANGED <<memIf, memReq, memSt, memResp, mreq, tag, valid, dirty, data, core>>
    BY <1>1, ClientFrame, StutterFrame
  <2>2. \A x : CopyOf(x)' = CopyOf(x)
    BY <2>1, CopiesStay
  <2>. QED BY <2>1, <2>2 DEF StoresOK, Ending, One, MemDepth
<1>2. CASE Core
  <2>1. CASE Ending'
    BY <1>2, <2>1, EndingSteps, BreakStores, FlushCleanStores, FlushReqStores,
       FlushStStores, StopMemStores
  <2>2. CASE ~Ending'
    BY <2>2 DEF StoresOK
  <2>. QED BY <2>1, <2>2
<1>3. CASE MemIf
  <2>1. core' = core
    BY <1>3, MemIfFrame
  <2>2. CASE Ending
    <3>1. ~MemIfLoad /\ ~MemIfRespond
      BY <2>2 DEF StoresOK, MemIfLoad, MemIfRespond
    <3>. QED BY <1>3, <2>2, <3>1, MemIfReqStores, ExecStores DEF MemIf
  <2>3. CASE ~Ending
    BY <2>1, <2>3 DEF StoresOK, Ending
  <2>. QED BY <2>2, <2>3
<1>. QED BY <1>1, <1>2, <1>3, NextCases
-----------------------------------------------------------------------------
(* Lines that are not dirty. *)
LEMMA CleanStays ==
  ASSUME CleanOK, UNCHANGED <<mem, tag, valid, dirty, data>>, Ending => Ending',
         UNCHANGED memSt \/ ~Ending
  PROVE  CleanOK'
<1>1. \A x : CopyOf(x)' = CopyOf(x)
  BY CopiesStay
<1>2. \A x : WriteBackAddr(x)' = WriteBackAddr(x)
  BY DEF WriteBackAddr
<1> SUFFICES ASSUME NEW x \in Slot, valid'[x], ~dirty'[x]
             PROVE  \/ data'[x] = mem'[WriteBackAddr(x)']
                    \/ Ending' /\ \E j \in 1 .. Len(memSt') : memSt'[j] = CopyOf(x)'
  BY DEF CleanOK
<1>3. \/ data[x] = mem[WriteBackAddr(x)]
      \/ Ending /\ \E j \in 1 .. Len(memSt) : memSt[j] = CopyOf(x)
  BY DEF CleanOK
<1>. QED BY <1>1, <1>2, <1>3

LEMMA ExecClean ==
  ASSUME LinesOK, CoreOK, FetchOK, StoresOK, CleanOK, MemIfExec
  PROVE  CleanOK'
<1>1. UNCHANGED <<tag, valid, dirty, data, core>>
  BY DEF MemIfExec, coreVars, lines
<1>2. /\ \A x : CopyOf(x)' = CopyOf(x)
      /\ \A x : WriteBackAddr(x)' = WriteBackAddr(x)
  BY <1>1, CopiesStay DEF WriteBackAddr
<1>3. \A x \in Slot : WriteBackAddr(x) \in Addr
  BY DEF WriteBackAddr, Addr, Slot, LinesOK, LinesTypeOK
<1>4. \A x, y \in Slot : valid[x] /\ valid[y] /\ WriteBackAddr(x) = WriteBackAddr(y) => x = y
  BY <1>3, LookupWorks DEF Located, StoredIn
<1>5. \A x, y \in Slot : CopyOf(x) = CopyOf(y) => WriteBackAddr(x) = WriteBackAddr(y)
  <2>1. \A x : CopyOf(x).a = WriteBackAddr(x)
    BY DEF CopyOf
  <2>. QED BY <2>1
<1>6. ASSUME NEW y \in Slot, valid[y], mem' = [mem EXCEPT ![WriteBackAddr(y)] = data[y]],
             NEW x \in Slot, valid[x]
      PROVE  x = y \/ mem'[WriteBackAddr(x)] = mem[WriteBackAddr(x)]
  BY <1>3, <1>4, <1>6 DEF LinesOK, LinesTypeOK
<1>7. ASSUME NEW y \in Slot, mem' = [mem EXCEPT ![WriteBackAddr(y)] = data[y]]
      PROVE  mem'[WriteBackAddr(y)] = data[y]
  BY <1>3, <1>7 DEF LinesOK, LinesTypeOK
<1> SUFFICES ASSUME NEW x \in Slot, valid[x], ~dirty[x]
             PROVE  \/ data[x] = mem'[WriteBackAddr(x)]
                    \/ Ending /\ \E j \in 1 .. Len(memSt') : memSt'[j] = CopyOf(x)
  BY <1>1, <1>2 DEF CleanOK, Ending
<1>8. CASE core = "await"
  <2>1. data[x] = mem[WriteBackAddr(x)]
    BY <1>8 DEF CleanOK, Ending
  <2>2. \/ mem' = mem
        \/ \E y \in Slot : valid[y] /\ mem' = [mem EXCEPT ![WriteBackAddr(y)] = data[y]]
    BY ExecWrites
  <2>. QED BY <1>6, <1>7, <2>1, <2>2
<1>9. CASE core # "await"
  <2>1. Ending /\ memSt # << >> /\ memSt' = Tail(memSt)
    BY <1>9, ExecEffect
  <2>2. PICK y \in Slot : /\ valid[y] /\ ~dirty[y] /\ Head(memSt) = CopyOf(y)
                          /\ mem' = [mem EXCEPT ![WriteBackAddr(y)] = data[y]]
    BY <1>9, ExecEffect
  <2>3. CASE x = y
    BY <1>7, <2>2, <2>3
  <2>4. CASE x # y
    <3>1. CASE data[x] = mem[WriteBackAddr(x)]
      BY <1>6, <2>2, <2>4, <3>1
    <3>2. ASSUME NEW j \in 1 .. Len(memSt), memSt[j] = CopyOf(x)
          PROVE  \E k \in 1 .. Len(memSt') : memSt'[k] = CopyOf(x)
      <4>1. /\ memSt[1] = CopyOf(y) /\ Len(memSt) \in Nat /\ Len(memSt') = Len(memSt) - 1
            /\ \A k \in 1 .. Len(memSt) - 1 : memSt'[k] = memSt[k + 1]
        BY <2>1, <2>2, WithoutHead DEF StoresOK
      <4>2. j # 1
        BY <1>4, <1>5, <2>2, <2>4, <3>2, <4>1
      <4>3. j - 1 \in 1 .. Len(memSt') /\ j - 1 \in 1 .. Len(memSt) - 1 /\ (j - 1) + 1 = j
        BY <4>1, <4>2
      <4>4. memSt'[j - 1] = CopyOf(x)
        BY <3>2, <4>1, <4>3
      <4>. QED BY <4>3, <4>4
    <3>. QED BY <2>1, <3>1, <3>2 DEF CleanOK
  <2>. QED BY <2>3, <2>4
<1>. QED BY <1>8, <1>9

(* A line that has just been loaded or written to. *)
LEMMA ServeClean ==
  ASSUME LinesOK, CoreOK, PortsOK, FetchOK, CleanOK, CoreHit \/ CoreFill
  PROVE  CleanOK'
<1>1. ~Ending
  BY DEF CoreHit, CoreFill, TakeRequest, Ending
<1>2. \A x \in Slot : valid[x] /\ ~dirty[x] => data[x] = mem[WriteBackAddr(x)]
  BY <1>1 DEF CleanOK
<1>3. CASE CoreHit
  <2> DEFINE x == <<Taken.a[2], HitWay(Taken.a[1], Taken.a[2])>>
  <2>1. Taken.a[2] \in Set /\ HitWay(Taken.a[1], Taken.a[2]) \in Ways
    BY <1>3, TakenFacts, RequestFacts, HitHolds DEF CoreHit, LinesOK
  <2>2. x \in Slot
    BY <2>1 DEF Slot
  <2>3. UNCHANGED <<mem, tag, valid>>
    BY <1>3 DEF CoreHit
  <2>4. \/ UNCHANGED <<data, dirty>>
        \/ /\ dirty' = [dirty EXCEPT ![x] = TRUE]
           /\ data' = [data EXCEPT ![x] = [data[x] EXCEPT ![Taken.off] = Taken.data]]
    BY <1>3 DEF CoreHit
  <2> HIDE DEF x
  <2>5. \A y \in Slot : ~dirty'[y] => ~dirty[y] /\ data'[y] = data[y]
    BY <2>2, <2>4 DEF LinesOK, LinesTypeOK
  <2>. QED BY <1>2, <2>3, <2>5 DEF CleanOK, WriteBackAddr
<1>4. CASE CoreFill
  <2> DEFINE x == ReqSlot
  <2>1. x \in Slot /\ x[1] = req.a[2] /\ req.a = <<req.a[1], req.a[2]>>
    BY <1>4, SlotFacts DEF CoreFill, Serving
  <2>2. /\ tag' = [tag EXCEPT ![x] = req.a[1]] /\ valid' = [valid EXCEPT ![x] = TRUE]
        /\ dirty' = [dirty EXCEPT ![x] = req \in WriteReq]
        /\ mem' = mem
        /\ \/ /\ req \in ReadReq /\ data' = [data EXCEPT ![x] = mem[req.a]]
           \/ /\ req \in WriteReq
              /\ data' = [data EXCEPT ![x] = [mem[req.a] EXCEPT ![req.off] = req.data]]
    BY <1>4, FillEffect
  <2> HIDE DEF x
  <2>3. \A y \in Slot : y # x => /\ tag'[y] = tag[y] /\ valid'[y] = valid[y]
                                 /\ dirty'[y] = dirty[y] /\ data'[y] = data[y]
    BY <2>2 DEF LinesOK, LinesTypeOK
  <2>4. ~dirty'[x] => data'[x] = mem[req.a] /\ tag'[x] = req.a[1]
    BY <2>1, <2>2 DEF LinesOK, LinesTypeOK
  <2>5. ASSUME NEW y \in Slot, valid'[y], ~dirty'[y]
        PROVE  data'[y] = mem'[WriteBackAddr(y)']
    <3>1. CASE y = x
      BY <2>1, <2>2, <2>4, <2>5, <3>1 DEF WriteBackAddr
    <3>2. CASE y # x
      BY <1>2, <2>2, <2>3, <2>5, <3>2 DEF WriteBackAddr
    <3>. QED BY <3>1, <3>2
  <2>. QED BY <2>5 DEF CleanOK
<1>. QED BY <1>3, <1>4

LEMMA FlushStClean ==
  ASSUME LinesOK, CoreOK, StoresOK, CleanOK, CoreFlushSt
  PROVE  CleanOK'
<1>1. /\ Ending /\ Ending' /\ memSt' = Append(memSt, CopyOf(FlushSlot))
      /\ dirty' = [dirty EXCEPT ![FlushSlot] = FALSE] /\ FlushSlot \in Slot
      /\ UNCHANGED <<mem, tag, valid, data>>
  BY SlotFacts DEF CoreFlushSt, FlushNext, Ending, CopyOf
<1>2. /\ \A x : CopyOf(x)' = CopyOf(x)
      /\ \A x : WriteBackAddr(x)' = WriteBackAddr(x)
  BY <1>1 DEF WriteBackAddr, CopyOf
<1> HIDE DEF FlushSlot
<1>3. \A x \in Slot : x # FlushSlot => dirty'[x] = dirty[x]
  BY <1>1 DEF LinesOK, LinesTypeOK
<1>4. memSt \in Seq([a : Addr, line : Line]) /\ Len(memSt) \in Nat
  BY <1>1 DEF StoresOK
<1>5. /\ Len(memSt') = Len(memSt) + 1 /\ memSt'[Len(memSt) + 1] = CopyOf(FlushSlot)
      /\ \A j \in 1 .. Len(memSt) : memSt'[j] = memSt[j]
  <2>1. \A q \in Seq([a : Addr, line : Line]) : \A e :
          /\ Len(Append(q, e)) = Len(q) + 1 /\ Append(q, e)[Len(q) + 1] = e
          /\ \A j \in 1 .. Len(q) : Append(q, e)[j] = q[j]
    OBVIOUS
  <2>. QED BY <1>1, <1>4, <2>1
<1>6. /\ Len(memSt) + 1 \in 1 .. Len(memSt')
      /\ \A j \in 1 .. Len(memSt) : j \in 1 .. Len(memSt')
  BY <1>4, <1>5
<1> SUFFICES ASSUME NEW x \in Slot, valid[x], ~dirty'[x]
             PROVE  \/ data[x] = mem[WriteBackAddr(x)]
                    \/ \E j \in 1 .. Len(memSt') : memSt'[j] = CopyOf(x)
  BY <1>1, <1>2 DEF CleanOK
<1>7. CASE x = FlushSlot
  BY <1>5, <1>6, <1>7
<1>8. CASE x # FlushSlot
  <2>1. \/ data[x] = mem[WriteBackAddr(x)]
        \/ \E j \in 1 .. Len(memSt) : memSt[j] = CopyOf(x)
    BY <1>3, <1>8 DEF CleanOK
  <2>. QED BY <1>5, <1>6, <2>1
<1>. QED BY <1>7, <1>8

LEMMA CleanNext ==
  ASSUME LinesOK, CoreOK, PortsOK, FetchOK, StoresOK, CleanOK, [Next]_vars
  PROVE  CleanOK'
<1>1. CASE Client \/ UNCHANGED vars
  BY <1>1, ClientFrame, StutterFrame, CleanStays DEF Ending
<1>2. CASE MemIf
  <2>1. CASE MemIfExec
    BY <2>1, ExecClean
  <2>2. CASE ~MemIfExec
    <3>1. UNCHANGED <<mem, memSt>>
      BY <1>2, <2>2 DEF MemIf, MemIfReq, MemIfLoad, MemIfRespond, cacheVars, memQueues
    <3>. QED BY <1>2, <3>1, MemIfFrame, CleanStays DEF Ending
  <2>. QED BY <2>1, <2>2
<1>3. CASE Core
  <2>1. CASE CoreHit \/ CoreFill \/ CoreFlushSt
    BY <2>1, ServeClean, FlushStClean
  <2>2. CASE ~(CoreHit \/ CoreFill \/ CoreFlushSt)
    <3>1. UNCHANGED <<mem, tag, valid, dirty, data>>
      BY <1>3, <2>2 DEF Core, CorePoll, CoreBreak, CoreMiss, CoreSendReq, CoreSendSt,
         CoreRespond, CoreFlushClean, CoreFlushReq, CoreStopMem, cacheVars, lines
    <3>2. (Ending => Ending') /\ (UNCHANGED memSt \/ ~Ending)
      BY <1>3, <2>2 DEF Core, CorePoll, CoreBreak, CoreMiss, CoreSendReq, CoreSendSt,
         CoreRespond, CoreFlushClean, CoreFlushReq, CoreStopMem, TakeRequest, FlushNext,
         memQueues, Ending
    <3>. QED BY <3>1, <3>2, CleanStays
  <2>. QED BY <2>1, <2>2
<1>. QED BY <1>1, <1>2, <1>3, NextCases

LEMMA FlushedNext ==
  ASSUME LinesOK, CoreOK, FlushedOK, [Next]_vars
  PROVE  FlushedOK'
<1>1. CASE Client \/ MemIf \/ UNCHANGED vars
  BY <1>1, ClientFrame, MemIfFrame, StutterFrame DEF FlushedOK
<1>2. CASE Core /\ ~Ending'
  BY <1>2 DEF FlushedOK, Ending
<1>3. CASE CoreBreak
  <2>1. /\ core = "poll" /\ core' = IF WrEnabled THEN "flush" ELSE "stopMem"
        /\ UNCHANGED <<valid, dirty, fset, fway>>
    BY <1>3 DEF CoreBreak, TakeRequest, cacheVars, lines
  <2>2. CASE WrEnabled
    <3>1. fset = 0 /\ fway = 0 /\ core' = "flush"
      BY <2>1, <2>2 DEF CoreOK, Ending
    <3>2. \A s \in Set, w \in Ways : ~(s < 0) /\ ~(w < 0)
      BY CacheAssumption, ReplacerAssumption DEF Set, Ways
    <3>. QED BY <2>1, <3>1, <3>2 DEF FlushedOK
  <2>3. CASE ~WrEnabled
    BY <2>1, <2>3 DEF FlushedOK, LinesOK
  <2>. QED BY <2>2, <2>3
<1>4. CASE CoreFlushClean \/ CoreFlushSt
  <2>1. core \in {"flush", "flushSt"} /\ FlushNext /\ valid' = valid /\ FlushSlot \in Slot
    BY <1>4, SlotFacts DEF CoreFlushClean, CoreFlushSt, cacheVars, lines
  <2>2. \A s \in Set, w \in Ways :
          s < fset \/ (s = fset /\ w < fway) \/ (s = fset /\ w = fway) => ~(valid'[<<s, w>>] /\ dirty'[<<s, w>>])
    <3>1. CASE CoreFlushClean
      <4>1. ~(valid[<<fset, fway>>] /\ dirty[<<fset, fway>>]) /\ UNCHANGED <<valid, dirty>>
        BY <3>1 DEF CoreFlushClean, FlushDirty, FlushSlot, cacheVars, lines
      <4>. QED BY <2>1, <4>1 DEF FlushedOK
    <3>2. CASE CoreFlushSt
      <4>1. dirty' = [dirty EXCEPT ![<<fset, fway>>] = FALSE]
        BY <3>2 DEF CoreFlushSt, FlushSlot
      <4>2. <<fset, fway>> \in Slot
        BY <2>1, SlotFacts
      <4>3. \A x \in Slot : (dirty'[x] => dirty[x]) /\ ~dirty'[<<fset, fway>>]
        BY <4>1, <4>2 DEF LinesOK, LinesTypeOK
      <4>4. \A s \in Set, w \in Ways : <<s, w>> \in Slot
        BY DEF Slot
      <4>. QED BY <2>1, <4>3, <4>4 DEF FlushedOK
    <3>. QED BY <1>4, <3>1, <3>2
  <2>3. /\ fset \in 0 .. NSets - 1 /\ fway \in 0 .. NWays - 1 /\ NSets \in Nat /\ NWays \in Nat
        /\ Set = 0 .. NSets - 1 /\ Ways = 0 .. NWays - 1
    BY CacheAssumption, ReplacerAssumption DEF CoreOK, Set, Ways
  <2>4. CASE fway < NWays - 1 /\ fway' = fway + 1 /\ fset' = fset /\ core' = "flush"
    <3>1. \A s \in Set, w \in Ways : s < fset' \/ (s = fset' /\ w < fway') =>
            s < fset \/ (s = fset /\ w < fway) \/ (s = fset /\ w = fway)
      BY <2>3, <2>4
    <3>. QED BY <2>2, <2>4, <3>1 DEF FlushedOK
  <2>5. CASE /\ fway = NWays - 1 /\ fset < NSets - 1 /\ fway' = 0 /\ fset' = fset + 1
             /\ core' = "flush"
    <3>1. \A s \in Set, w \in Ways : s < fset' \/ (s = fset' /\ w < fway') =>
            s < fset \/ (s = fset /\ w < fway) \/ (s = fset /\ w = fway)
      BY <2>3, <2>5
    <3>. QED BY <2>2, <2>5, <3>1 DEF FlushedOK
  <2>6. CASE fway = NWays - 1 /\ fset = NSets - 1 /\ core' = "stopMem"
    <3>1. \A s \in Set, w \in Ways :
            s < fset \/ (s = fset /\ w < fway) \/ (s = fset /\ w = fway)
      BY <2>3, <2>6
    <3>2. \A x \in Slot : \E s \in Set, w \in Ways : x = <<s, w>>
      BY DEF Slot
    <3>. QED BY <2>2, <2>6, <3>1, <3>2 DEF FlushedOK
  <2>. QED BY <2>1, <2>4, <2>5, <2>6, FlushMoves DEF CoreOK
<1>5. CASE CoreFlushReq \/ CoreStopMem
  BY <1>5 DEF CoreFlushReq, CoreStopMem, cacheVars, lines, FlushedOK
<1>. QED BY <1>1, <1>2, <1>3, <1>4, <1>5, NextCases, EndingSteps

LEMMA MemNext ==
  ASSUME LinesOK, CoreOK, PortsOK, MemOK, [Next]_vars
  PROVE  MemOK'
BY FetchNext, StoresNext, CleanNext, FlushedNext DEF MemOK
-----------------------------------------------------------------------------
(* The array and the requests seen through the ports. *)
LEMMA SeenAsFunctions ==
  /\ Stored = [a \in Addr |-> Stored[a]] /\ Stored' = [a \in Addr |-> Stored'[a]]
  /\ Pending = [p \in Ports |-> Pending[p]] /\ Pending' = [p \in Ports |-> Pending'[p]]
BY DEF Stored, Pending

LEMMA StoredType ==
  ASSUME LinesOK
  PROVE  Stored \in [Addr -> Line]
<1>1. ASSUME NEW a \in Addr PROVE Stored[a] \in Line
  <2>1. CASE \E x \in Slot : StoredIn(a, x)
    BY <2>1, LookupWorks DEF Located, LinesOK, LinesTypeOK
  <2>2. CASE ~\E x \in Slot : StoredIn(a, x)
    BY <2>2, LookupWorks DEF Located, LinesOK, LinesTypeOK
  <2>. QED BY <2>1, <2>2
<1>. QED BY <1>1, SeenAsFunctions

LEMMA StoredStays ==
  ASSUME UNCHANGED <<mem, tag, valid, data>>
  PROVE  Stored' = Stored
BY DEF Stored, IsHit, HitWay, HitWays

(* The line that arrives is the one the array had; the replaced one is in  *)
(* memory by then.                                                         *)
LEMMA StoredFill ==
  ASSUME LinesOK, LinesOK', CoreOK, FetchOK, CleanOK, CoreFill
  PROVE  /\ \A a \in Addr : a # req.a => Stored'[a] = Stored[a]
         /\ Stored[req.a] = mem[req.a]
         /\ req \in ReadReq => Stored'[req.a] = mem[req.a]
         /\ req \in WriteReq => Stored'[req.a] = [mem[req.a] EXCEPT ![req.off] = req.data]
<1>0. core = "await" /\ ReqSlot \in Slot
  BY SlotFacts DEF CoreFill, Serving
<1>p. PICK x \in Slot : x = ReqSlot
  BY <1>0
<1>1. /\ core = "await" /\ x \in Slot /\ x[1] = req.a[2] /\ req.a \in Addr
      /\ req.a = <<req.a[1], req.a[2]>>
  BY <1>p, SlotFacts DEF CoreFill, Serving
<1>2. /\ tag' = [tag EXCEPT ![x] = req.a[1]] /\ valid' = [valid EXCEPT ![x] = TRUE]
      /\ \/ /\ req \in ReadReq /\ data' = [data EXCEPT ![x] = mem[req.a]]
         \/ /\ req \in WriteReq
            /\ data' = [data EXCEPT ![x] = [mem[req.a] EXCEPT ![req.off] = req.data]]
      /\ mem' = mem /\ WrittenBack
  BY <1>p, FillEffect
<1>3. ~IsHit(req.a[1], req.a[2]) /\ ~Ending
  BY <1>1 DEF CoreOK, Fetching, Ending
<1>4. ~(req \in ReadReq /\ req \in WriteReq)
  BY RequestFacts
<1>5. valid[x] => data[x] = mem[WriteBackAddr(x)]
  BY <1>p, <1>1, <1>2, <1>3 DEF WrittenBack, MustWriteBack, CleanOK, LinesOK
<1>6. Located /\ Located'
  BY LookupWorks, LookupWorksNext
<1>7. \A y \in Slot : y # x =>
        /\ data'[y] = data[y]
        /\ \A a \in Addr : StoredIn(a, y)' <=> StoredIn(a, y)
  BY <1>2 DEF LinesOK, LinesTypeOK, StoredIn, WriteBackAddr
<1>8. \A a \in Addr : StoredIn(a, x)' <=> a = req.a
  <2>1. valid'[x] /\ <<tag'[x], x[1]>> = req.a
    BY <1>1, <1>2 DEF LinesOK, LinesTypeOK
  <2>. QED BY <2>1 DEF StoredIn, WriteBackAddr
<1>9. Stored[req.a] = mem[req.a]
  BY <1>1, <1>3, <1>6 DEF Located
<1>10. Stored'[req.a] = data'[x]
  BY <1>1, <1>6, <1>8 DEF Located
<1>11. ASSUME NEW a \in Addr, a # req.a
       PROVE  Stored'[a] = Stored[a]
  <2>1. CASE \E y \in Slot : y # x /\ StoredIn(a, y)
    <3>1. PICK y \in Slot : y # x /\ StoredIn(a, y)
      BY <2>1
    <3>2. StoredIn(a, y)' /\ data'[y] = data[y]
      BY <1>7, <3>1
    <3>3. Stored[a] = data[y]
      BY <1>6, <3>1 DEF Located
    <3>4. Stored'[a] = data'[y]
      BY <1>6, <3>2 DEF Located
    <3>. QED BY <3>2, <3>3, <3>4
  <2>2. CASE ~\E y \in Slot : y # x /\ StoredIn(a, y)
    <3>1. \A y \in Slot : ~StoredIn(a, y)'
      BY <1>7, <1>8, <1>11, <2>2
    <3>2. Stored'[a] = mem[a]
      BY <1>2, <1>6, <3>1 DEF Located
    <3>3. CASE StoredIn(a, x)
      <4>1. Stored[a] = data[x] /\ data[x] = mem[a]
        BY <1>1, <1>5, <1>6, <3>3 DEF Located, StoredIn
      <4>. QED BY <3>2, <4>1
    <3>4. CASE ~StoredIn(a, x)
      <4>1. \A y \in Slot : ~StoredIn(a, y)
        BY <2>2, <3>4
      <4>. QED BY <1>6, <3>2, <4>1 DEF Located
    <3>. QED BY <3>3, <3>4
  <2>. QED BY <2>1, <2>2
<1>12. data'[x] = IF req \in ReadReq THEN mem[req.a]
                  ELSE [mem[req.a] EXCEPT ![req.off] = req.data]
  BY <1>1, <1>2, <1>4 DEF LinesOK, LinesTypeOK
<1>. QED BY <1>4, <1>9, <1>10, <1>11, <1>12

(* A set that hits changes the one word. *)
LEMMA StoredHit ==
  ASSUME LinesOK, LinesOK', CoreOK, PortsOK, CoreHit, Taken \in WriteReq
  PROVE  Stored' = [Stored EXCEPT ![Taken.a] = [Stored[Taken.a] EXCEPT ![Taken.off] = Taken.data]]
<1> DEFINE r == Taken
           x == <<r.a[2], HitWay(r.a[1], r.a[2])>>
<1>1. r.a \in Addr /\ r.a = <<r.a[1], r.a[2]>> /\ r.a[2] \in Set /\ ~IsRead(r)
      /\ IsHit(r.a[1], r.a[2])
  <2>1. ~(r \in ReadReq)
    BY RequestFacts
  <2>. QED BY <2>1, RequestFacts DEF CoreHit
<1>2. /\ UNCHANGED <<mem, tag, valid>>
      /\ data' = [data EXCEPT ![x] = [data[x] EXCEPT ![r.off] = r.data]]
  BY <1>1 DEF CoreHit
<1>3. x \in Slot /\ StoredIn(r.a, x)
  <2>1. /\ HitWay(r.a[1], r.a[2]) \in Ways /\ valid[x] /\ tag[x] = r.a[1]
    BY <1>1, HitHolds DEF LinesOK
  <2>. QED BY <1>1, <2>1 DEF Slot, StoredIn, WriteBackAddr
<1> HIDE DEF r, x
<1>4. Located /\ Located'
  BY LookupWorks, LookupWorksNext
<1>5. \A a \in Addr, y \in Slot : StoredIn(a, y)' <=> StoredIn(a, y)
  BY <1>2 DEF StoredIn, WriteBackAddr
<1>6. data'[x] = [data[x] EXCEPT ![r.off] = r.data] /\ \A y \in Slot : y # x => data'[y] = data[y]
  BY <1>2, <1>3 DEF LinesOK, LinesTypeOK
<1>7. Stored[r.a] = data[x] /\ Stored'[r.a] = data'[x]
  BY <1>1, <1>3, <1>4, <1>5 DEF Located
<1>8. ASSUME NEW a \in Addr, a # r.a PROVE Stored'[a] = Stored[a]
  <2>1. CASE \E y \in Slot : StoredIn(a, y)
    <3>1. PICK y \in Slot : StoredIn(a, y)
      BY <2>1
    <3>2. y # x
      BY <1>3, <1>8, <3>1 DEF StoredIn
    <3>3. Stored[a] = data[y]
      BY <1>4, <3>1 DEF Located
    <3>4. Stored'[a] = data'[y]
      BY <1>4, <1>5, <3>1 DEF Located
    <3>. QED BY <1>6, <3>2, <3>3, <3>4
  <2>2. CASE \A y \in Slot : ~StoredIn(a, y)
    BY <1>2, <1>4, <1>5, <2>2 DEF Located
  <2>. QED BY <2>1, <2>2
<1>9. \A a \in Addr : Stored'[a] =
        IF a = r.a THEN [Stored[r.a] EXCEPT ![r.off] = r.data] ELSE Stored[a]
  BY <1>6, <1>7, <1>8
<1>10. Stored \in [Addr -> Line]
  BY StoredType
<1>. QED BY <1>9, <1>10, SeenAsFunctions DEF r

(* A line written back is one the cache has. *)
LEMMA StoredExec ==
  ASSUME LinesOK, LinesOK', CoreOK, FetchOK, StoresOK, MemIfExec
  PROVE  Stored' = Stored
<1>1. UNCHANGED <<tag, valid, data>>
  BY DEF MemIfExec, lines
<1>2. CASE mem' = mem
  BY <1>1, <1>2, StoredStays
<1>3. ASSUME NEW x \in Slot, valid[x], mem' = [mem EXCEPT ![WriteBackAddr(x)] = data[x]]
      PROVE  Stored' = Stored
  <2>1. Located /\ Located'
    BY LookupWorks, LookupWorksNext
  <2>2. \A a \in Addr, y \in Slot : StoredIn(a, y)' <=> StoredIn(a, y)
    BY <1>1 DEF StoredIn, WriteBackAddr
  <2>3. ASSUME NEW a \in Addr PROVE Stored'[a] = Stored[a]
    <3>1. CASE \E y \in Slot : StoredIn(a, y)
      BY <1>1, <2>1, <2>2, <3>1 DEF Located
    <3>2. CASE \A y \in Slot : ~StoredIn(a, y)
      <4>1. a # WriteBackAddr(x)
        BY <1>3, <3>2 DEF StoredIn
      <4>2. mem'[a] = mem[a]
        BY <1>3, <4>1 DEF LinesOK, LinesTypeOK
      <4>. QED BY <2>1, <2>2, <3>2, <4>2 DEF Located
    <3>. QED BY <3>1, <3>2
  <2>. QED BY <2>3, SeenAsFunctions
<1>. QED BY <1>2, <1>3, ExecWrites
-----------------------------------------------------------------------------
(* Requests waiting at the ports. *)
LEMMA PendingType ==
  ASSUME CoreOK, PortsOK
  PROVE  /\ Pending \in [Ports -> Seq(PortReq)]
         /\ \A p \in Ports : ~(Serving /\ p = port) => Pending[p] = coreReq[p]
         /\ Serving => /\ Pending[port] = <<req>> \o coreReq[port] /\ req \in PortReq
                       /\ Pending[port] # << >> /\ Head(Pending[port]) = req
                       /\ Tail(Pending[port]) = coreReq[port]
<1>1. \A p \in Ports : ~(Serving /\ p = port) => Pending[p] = coreReq[p]
  BY DEF Pending
<1>2. Serving => Pending[port] = <<req>> \o coreReq[port] /\ req \in PortReq /\ port \in Ports
  BY DEF Pending, CoreOK, PortReq
<1>3. \A p \in Ports : coreReq[p] \in Seq(PortReq)
  BY DEF PortsOK
<1>4. Serving => /\ <<req>> \o coreReq[port] \in Seq(PortReq)
                 /\ <<req>> \o coreReq[port] # << >>
                 /\ Head(<<req>> \o coreReq[port]) = req
                 /\ Tail(<<req>> \o coreReq[port]) = coreReq[port]
  <2> SUFFICES ASSUME Serving
               PROVE  /\ <<req>> \o coreReq[port] \in Seq(PortReq)
                      /\ <<req>> \o coreReq[port] # << >>
                      /\ Head(<<req>> \o coreReq[port]) = req
                      /\ Tail(<<req>> \o coreReq[port]) = coreReq[port]
    OBVIOUS
  <2>1. req \in PortReq /\ coreReq[port] \in Seq(PortReq)
    BY <1>2, <1>3
  <2>. QED BY <2>1, InFront
<1>5. \A p \in Ports : Pending[p] \in Seq(PortReq)
  BY <1>1, <1>2, <1>3, <1>4
<1>. QED BY <1>1, <1>2, <1>4, <1>5, SeenAsFunctions

(* run_core takes a request and is going to serve it. *)
LEMMA PendingTaken ==
  ASSUME CoreOK, PortsOK, TakeRequest, Serving', req' = Taken, port' = port
  PROVE  Pending' = Pending
<1>1. /\ coreReq' = [coreReq EXCEPT ![port] = Tail(coreReq[port])] /\ ~Serving
      /\ coreReq[port] \in Seq(PortReq) /\ coreReq[port] # << >> /\ port \in Ports
  BY TakenFacts DEF TakeRequest, Serving, CoreOK
<1>2. <<Taken>> \o Tail(coreReq[port]) = coreReq[port]
  BY <1>1, HeadInFront DEF Taken
<1>3. ASSUME NEW p \in Ports PROVE Pending'[p] = Pending[p]
  <2>1. coreReq'[p] = IF p = port THEN Tail(coreReq[port]) ELSE coreReq[p]
    BY <1>1 DEF PortsOK
  <2>. QED BY <1>1, <1>2, <2>1 DEF Pending
<1>. QED BY <1>3, SeenAsFunctions

(* run_core takes a request and is done with it at once. *)
LEMMA PendingServed ==
  ASSUME CoreOK, PortsOK, TakeRequest, ~Serving'
  PROVE  /\ Pending' = [Pending EXCEPT ![port] = Tail(Pending[port])]
         /\ Pending[port] # << >> /\ Head(Pending[port]) = Taken
<1>1. /\ coreReq' = [coreReq EXCEPT ![port] = Tail(coreReq[port])] /\ ~Serving
      /\ coreReq[port] # << >> /\ port \in Ports
  BY TakenFacts DEF TakeRequest, Serving, CoreOK
<1>2. \A p \in Ports : Pending[p] = coreReq[p] /\ Pending'[p] = coreReq'[p]
  BY <1>1 DEF Pending
<1>3. \A p \in Ports : coreReq'[p] = IF p = port THEN Tail(coreReq[port]) ELSE coreReq[p]
  BY <1>1 DEF PortsOK
<1>4. \A p \in Ports : Pending'[p] = IF p = port THEN Tail(Pending[port]) ELSE Pending[p]
  BY <1>1, <1>2, <1>3
<1>5. Pending \in [Ports -> Seq(PortReq)]
  BY PendingType
<1>. QED BY <1>1, <1>2, <1>4, <1>5, SeenAsFunctions DEF Taken

(* run_core is done with the request it has been serving. *)
LEMMA PendingDone ==
  ASSUME CoreOK, PortsOK, Serving, ~Serving', coreReq' = coreReq
  PROVE  /\ Pending' = [Pending EXCEPT ![port] = Tail(Pending[port])]
         /\ Pending[port] # << >> /\ Head(Pending[port]) = req
<1>1. port \in Ports /\ \A p \in Ports : Pending'[p] = coreReq[p]
  BY DEF Pending, CoreOK
<1>2. \A p \in Ports : Pending'[p] = IF p = port THEN Tail(Pending[port]) ELSE Pending[p]
  BY <1>1, PendingType
<1>. QED BY <1>1, <1>2, PendingType, SeenAsFunctions

LEMMA PendingStays ==
  ASSUME UNCHANGED coreReq,
         \/ UNCHANGED <<core, port, req>>
         \/ ~Serving /\ ~Serving'
         \/ Serving /\ Serving' /\ UNCHANGED <<port, req>>
  PROVE  Pending' = Pending
<1>1. \A p \in Ports : Pending'[p] = Pending[p]
  BY DEF Pending, Serving
<1>. QED BY <1>1, SeenAsFunctions

LEMMA CoreServes ==
  ASSUME LinesOK, LinesOK', CoreOK, PortsOK, MemOK, Core
  PROVE  \/ UNCHANGED Behind!vars
         \/ \E p \in Ports : Behind!ServeRead(p) \/ Behind!ServeWrite(p) \/ Behind!ServeStop(p)
<1>0. /\ port \in Ports /\ UNCHANGED <<mem, memIf>> /\ coreReq[port] \in Seq(PortReq)
      /\ Stored \in [Addr -> Line]
  BY CoreFrame, StoredType DEF CoreOK, PortsOK
<1>1. ReadReq \subseteq Behind!ReadRequest /\ WriteReq \subseteq Behind!WriteRequest
  BY DEF ReadReq, WriteReq, Behind!ReadRequest, Behind!WriteRequest
<1>2. CASE CorePoll \/ CoreSendReq \/ CoreSendSt \/ CoreFlushClean \/ CoreFlushReq
           \/ CoreFlushSt \/ CoreStopMem
  <2>1. UNCHANGED <<mem, tag, valid, data, coreReq, coreResp>>
    BY <1>2 DEF CorePoll, CoreSendReq, CoreSendSt, CoreFlushClean, CoreFlushReq,
       CoreFlushSt, CoreStopMem, cacheVars, lines, portQueues
  <2>2. /\ \/ ~Serving /\ ~Serving'
           \/ Serving /\ Serving' /\ UNCHANGED <<port, req>>
        /\ Ending' <=> Ending
    BY <1>2 DEF CorePoll, CoreSendReq, CoreSendSt, CoreFlushClean, CoreFlushReq,
       CoreFlushSt, CoreStopMem, FlushNext, StoreFollows, Serving, Ending
  <2>3. Stored' = Stored /\ Pending' = Pending
    BY <2>1, <2>2, StoredStays, PendingStays
  <2>. QED BY <1>0, <2>1, <2>2, <2>3 DEF Behind!vars, Ending
<1>3. CASE CoreMiss
  <2>1. /\ TakeRequest /\ Serving' /\ req' = Taken /\ port' = port /\ ~Ending /\ ~Ending'
        /\ UNCHANGED <<tag, valid, data, coreResp>>
    BY <1>3 DEF CoreMiss, TakeRequest, Serving, Ending, lines
  <2>2. Stored' = Stored /\ Pending' = Pending
    BY <1>0, <2>1, StoredStays, PendingTaken
  <2>. QED BY <1>0, <2>1, <2>2 DEF Behind!vars, Ending
<1>4. CASE CoreBreak
  <2>1. /\ TakeRequest /\ ~Serving' /\ Taken = StopReq /\ ~Ending /\ Ending'
        /\ UNCHANGED <<tag, valid, data, coreResp>>
    BY <1>4 DEF CoreBreak, TakeRequest, Serving, Ending, lines, cacheVars
  <2>2. Stored' = Stored
    BY <1>0, <2>1, StoredStays
  <2>3. Behind!ServeStop(port)
    BY <1>0, <2>1, <2>2, PendingServed DEF Behind!ServeStop, Behind!Serve, Ending
  <2>. QED BY <1>0, <2>3
<1>5. CASE CoreHit
  <2>0. Taken \in ReadReq \cup WriteReq
    BY <1>5, TakenFacts DEF CoreHit
  <2>1. CASE Taken \in ReadReq
    <3>1. IsRead(Taken)
      BY <2>1, RequestFacts
    <3>2. /\ TakeRequest /\ Serving' /\ req' = Taken /\ port' = port /\ ~Ending /\ ~Ending'
          /\ UNCHANGED <<tag, valid, data, coreResp>>
      BY <1>5, <3>1 DEF CoreHit, TakeRequest, Serving, Ending
    <3>3. Stored' = Stored /\ Pending' = Pending
      BY <1>0, <3>2, StoredStays, PendingTaken
    <3>. QED BY <1>0, <3>2, <3>3 DEF Behind!vars, Ending
  <2>2. CASE Taken \in WriteReq
    <3>1. ~IsRead(Taken)
      BY <2>2, RequestFacts
    <3>2. TakeRequest /\ ~Serving' /\ ~Ending /\ ~Ending' /\ coreResp' = coreResp
      BY <1>5, <3>1 DEF CoreHit, TakeRequest, Serving, Ending
    <3>3. Stored' = [Stored EXCEPT ![Taken.a] = [Stored[Taken.a] EXCEPT ![Taken.off] = Taken.data]]
      BY <1>5, <2>2, StoredHit
    <3>4. Behind!ServeWrite(port)
      BY <1>0, <1>1, <2>2, <3>2, <3>3, PendingServed DEF Behind!ServeWrite, Behind!Serve, Ending
    <3>. QED BY <1>0, <3>4
  <2>. QED BY <2>0, <2>1, <2>2
<1>6. CASE CoreFill
  <2>0. /\ core = "await" /\ Serving /\ ~Ending /\ req \in ReadReq \cup WriteReq
        /\ coreReq' = coreReq /\ coreResp' = coreResp /\ req.a \in Addr
    BY <1>6, FillEffect, SlotFacts DEF CoreFill, MemOK, Serving, Ending, CoreOK
  <2>1. CASE req \in ReadReq
    <3>1. req \notin WriteReq
      BY <2>1, RequestFacts
    <3>2. Serving' /\ UNCHANGED <<port, req>> /\ ~Ending'
      BY <1>6, <3>1, FillEffect DEF Serving, Ending, MemOK
    <3>3. \A a \in Addr : Stored'[a] = Stored[a]
      BY <1>6, <2>1, StoredFill DEF MemOK
    <3>4. Stored' = Stored /\ Pending' = Pending
      BY <2>0, <3>2, <3>3, SeenAsFunctions, PendingStays
    <3>. QED BY <1>0, <2>0, <3>2, <3>4 DEF Behind!vars, Ending
  <2>2. CASE req \in WriteReq
    <3>1. req \notin ReadReq
      BY <2>2, RequestFacts
    <3>2. ~Serving' /\ ~Ending'
      BY <1>6, <3>1, FillEffect DEF Serving, Ending, MemOK
    <3>3. \A a \in Addr : Stored'[a] =
            IF a = req.a THEN [Stored[req.a] EXCEPT ![req.off] = req.data] ELSE Stored[a]
      BY <1>6, <2>0, <2>2, StoredFill DEF MemOK
    <3>4. Stored' = [Stored EXCEPT ![req.a] = [Stored[req.a] EXCEPT ![req.off] = req.data]]
      BY <1>0, <3>3, SeenAsFunctions
    <3>5. Behind!ServeWrite(port)
      BY <1>0, <1>1, <2>0, <2>2, <3>2, <3>4, PendingDone DEF Behind!ServeWrite, Behind!Serve, Ending
    <3>. QED BY <1>0, <3>5
  <2>. QED BY <2>0, <2>1, <2>2
<1>7. CASE CoreRespond
  <2>1. /\ core = "respond" /\ Serving /\ ~Serving' /\ ~Ending /\ ~Ending'
        /\ coreResp' = [coreResp EXCEPT ![port] = Append(coreResp[port], data[ReqSlot])]
        /\ UNCHANGED <<tag, valid, data, coreReq>>
    BY <1>7 DEF CoreRespond, RespondPort, Serving, Ending, cacheVars, lines
  <2>2. Stored' = Stored
    BY <1>0, <2>1, StoredStays
  <2>3. req \in ReadReq /\ Stored[req.a] = data[ReqSlot]
    <3>1. /\ req \in ReadReq /\ valid[ReqSlot] /\ tag[ReqSlot] = req.a[1]
          /\ ReqSlot \in Slot /\ ReqSlot = <<req.a[2], way>> /\ req.a \in Addr
          /\ req.a = <<req.a[1], req.a[2]>>
      BY <2>1, SlotFacts DEF CoreOK
    <3>2. StoredIn(req.a, ReqSlot)
      BY <3>1 DEF StoredIn, WriteBackAddr
    <3>. QED BY <3>1, <3>2, LookupWorks DEF Located
  <2>4. Behind!ServeRead(port)
    BY <1>0, <1>1, <2>1, <2>2, <2>3, PendingDone DEF Behind!ServeRead, Behind!Serve, Ending
  <2>. QED BY <1>0, <2>4
<1>. QED BY <1>2, <1>3, <1>4, <1>5, <1>6, <1>7 DEF Core

(* Memory holds the array once the request to stop is all there is left. *)
LEMMA FlushedArray ==
  ASSUME LinesOK, CoreOK, StoresOK, CleanOK, FlushedOK, core = "done", memSt = << >>
  PROVE  mem = Stored
<1>1. \A x \in Slot : valid[x] => data[x] = mem[WriteBackAddr(x)]
  BY DEF FlushedOK, CleanOK
<1>2. ASSUME NEW a \in Addr PROVE Stored[a] = mem[a]
  <2>1. CASE \E x \in Slot : StoredIn(a, x)
    BY <1>1, <2>1, LookupWorks DEF Located, StoredIn
  <2>2. CASE ~\E x \in Slot : StoredIn(a, x)
    BY <2>2, LookupWorks DEF Located
  <2>. QED BY <2>1, <2>2
<1>. QED BY <1>2, SeenAsFunctions DEF LinesOK, LinesTypeOK

LEMMA MemIfServes ==
  ASSUME LinesOK, LinesOK', CoreOK, PortsOK, MemOK, MemIf
  PROVE  UNCHANGED Behind!vars \/ Behind!Return
<1>1. UNCHANGED <<tag, valid, data, core, port, req, coreReq, coreResp>>
  BY MemIfFrame
<1>2. Pending' = Pending
  BY <1>1, PendingStays
<1>3. Stored' = Stored
  <2>1. CASE MemIfExec
    BY <2>1, StoredExec DEF MemOK
  <2>2. CASE ~MemIfExec
    <3>1. mem' = mem
      BY <2>2 DEF MemIf, MemIfReq, MemIfLoad, MemIfRespond, cacheVars
    <3>. QED BY <1>1, <3>1, StoredStays
  <2>. QED BY <2>1, <2>2
<1>4. memIf # "done"
  BY DEF MemIf, MemIfReq, MemIfLoad, MemIfExec, MemIfRespond
<1>5. CASE memIf' # "done"
  BY <1>1, <1>2, <1>3, <1>4, <1>5 DEF Behind!vars
<1>6. CASE memIf' = "done"
  <2>1. MemIfReq /\ mem' = mem
    BY <1>6 DEF MemIf, MemIfReq, MemIfLoad, MemIfExec, MemIfRespond, cacheVars
  <2>2. /\ memIf = "req" /\ memReq # << >> /\ Head(memReq) = StopReq
    BY <1>6, <2>1 DEF MemIfReq
  <2>3. core = "done" /\ memSt = << >>
    <3>1. Ending
      <4>1. core \in {"sendSt", "await"} => memReq = <<Asked>>
        BY <2>2 DEF MemOK, FetchOK
      <4>2. Asked # StopReq
        BY DEF Asked, StopReq
      <4>3. core \notin {"poll", "respond", "sendReq"}
        BY <2>2 DEF MemOK, FetchOK
      <4>. QED BY <2>2, <4>1, <4>2, <4>3 DEF CoreOK, Ending
    <3>2. StoresOK'
      BY <2>1, <3>1, MemIfReqStores DEF MemOK
    <3>3. Ending' /\ core' = core /\ memSt' = memSt
      BY <1>1, <2>1, <3>1 DEF Ending, MemIfReq
    <3>4. core' = "done" /\ memReq' = << >> /\ memSt' \in Seq([a : Addr, line : Line])
          /\ Len(memReq') + One(memIf' = "st")
               = Len(memSt') + One(core' = "flushSt") + One(core' = "done" /\ memIf' # "done")
      BY <1>6, <3>2, <3>3 DEF StoresOK
    <3>5. Len(memSt') = 0
      BY <1>6, <3>4 DEF One
    <3>. QED BY <3>3, <3>4, <3>5
  <2>4. mem = Stored
    BY <2>3, FlushedArray DEF MemOK
  <2>. QED BY <1>1, <1>2, <1>3, <1>4, <1>6, <2>1, <2>3, <2>4 DEF Behind!Return
<1>. QED BY <1>5, <1>6
-----------------------------------------------------------------------------
(* The client's step: answers are taken, requests join the queues. *)
LEMMA PendingJoined ==
  ASSUME CoreOK, PortsOK, PortsOK', UNCHANGED <<core, port, req>>, NEW p \in Ports
  PROVE  /\ coreReq'[p] = coreReq[p] => Pending'[p] = Pending[p]
         /\ \A r \in PortReq : coreReq'[p] = Append(coreReq[p], r) =>
              Pending'[p] = Append(Pending[p], r)
<1>1. coreReq[p] \in Seq(PortReq)
  BY DEF PortsOK
<1>2. CASE Serving /\ p = port
  <2>1. /\ Pending[p] = <<req>> \o coreReq[p] /\ Pending'[p] = <<req>> \o coreReq'[p]
        /\ req \in PortReq
    BY <1>2, PendingType DEF Pending, Serving
  <2>2. \A r \in PortReq : <<req>> \o Append(coreReq[p], r) = Append(<<req>> \o coreReq[p], r)
    BY <1>1, <2>1, InFrontAppend
  <2>. QED BY <2>1, <2>2
<1>3. CASE ~(Serving /\ p = port)
  BY <1>3 DEF Pending, Serving
<1>. QED BY <1>2, <1>3

LEMMA ClientSees ==
  ASSUME LinesOK, CoreOK, PortsOK, PortsOK', ClientOK, Client
  PROVE  /\ Stored' = Stored /\ UNCHANGED <<core, port, req>>
         /\ (Ending' <=> Ending) /\ UNCHANGED <<mem, memIf>>
BY ClientFrame, StoredStays DEF Ending

LEMMA ClientServes ==
  ASSUME LinesOK, CoreOK, PortsOK, PortsOK', ClientOK, Client
  PROVE  \E taken, used \in SUBSET Ports : \E new \in [used -> Behind!Request] :
           Behind!Move(taken, new)
<1>1. /\ Stored' = Stored /\ UNCHANGED <<core, port, req>>
      /\ (Ending' <=> Ending) /\ UNCHANGED <<mem, memIf>>
  BY ClientSees
<1>2. PortReq \subseteq Behind!Request
  BY DEF PortReq, ReadReq, WriteReq, Behind!Request, Behind!ReadRequest, Behind!WriteRequest
<1>3. ASSUME NEW taken \in SUBSET Ports, NEW used \in SUBSET Ports,
             NEW new \in [used -> PortReq],
             \A p \in taken : coreResp[p] # << >>,
             coreResp' = [p \in Ports |-> IF p \in taken THEN Tail(coreResp[p]) ELSE coreResp[p]],
             \A p \in Ports : coreReq'[p] = IF p \in used THEN Append(coreReq[p], new[p])
                                            ELSE coreReq[p]
      PROVE  Behind!Move(taken, new)
  <2>1. DOMAIN new = used /\ \A p \in used : new[p] \in PortReq
    OBVIOUS
  <2>2. ASSUME NEW p \in Ports
        PROVE  Pending'[p] = IF p \in used THEN Append(Pending[p], new[p]) ELSE Pending[p]
    <3>1. CASE p \in used
      <4>1. coreReq'[p] = Append(coreReq[p], new[p]) /\ new[p] \in PortReq
        BY <1>3, <2>1, <3>1
      <4>. QED BY <1>1, <3>1, <4>1, PendingJoined
    <3>2. CASE p \notin used
      BY <1>1, <1>3, <3>2, PendingJoined
    <3>. QED BY <3>1, <3>2
  <2>3. Pending' = [p \in Ports |-> IF p \in DOMAIN new THEN Append(Pending[p], new[p])
                                    ELSE Pending[p]]
    BY <2>1, <2>2, SeenAsFunctions
  <2>. QED BY <1>1, <1>3, <2>3 DEF Behind!Move, Ending
<1>4. ASSUME NEW stage, MovesGets(stage)
      PROVE  \E taken, used \in SUBSET Ports : \E new \in [used -> PortReq] :
               Behind!Move(taken, new)
  <2> DEFINE taken == {p \in Ports : 1 \in Stages(p)}
             used  == {p \in Ports : \E k \in DOMAIN stage : stage[k].port = p}
             at(p) == CHOOSE k \in DOMAIN stage : stage[k].port = p
             new   == [p \in used |-> ReadOf(stage[at(p)])]
  <2>1. \A p \in used : at(p) \in DOMAIN stage /\ stage[at(p)].port = p
    OBVIOUS
  <2>2. \A k \in DOMAIN stage :
          /\ ReadOf(stage[k]) \in PortReq
          /\ coreReq'[stage[k].port] = Append(coreReq[stage[k].port], ReadOf(stage[k]))
    BY <1>4 DEF MovesGets, PortReq
  <2> HIDE DEF at
  <2>3. \A p \in used : ReadOf(stage[at(p)]) \in PortReq
    BY <2>1, <2>2
  <2>4. new \in [used -> PortReq]
    BY <2>3
  <2>5. \A p \in Ports : coreReq'[p] = IF p \in used THEN Append(coreReq[p], new[p])
                                       ELSE coreReq[p]
    BY <1>4, <2>1, <2>2 DEF MovesGets
  <2>6. /\ \A p \in taken : coreResp[p] # << >>
        /\ coreResp' = [p \in Ports |-> IF p \in taken THEN Tail(coreResp[p]) ELSE coreResp[p]]
    <3>1. Moves(stage)
      BY <1>4 DEF MovesGets
    <3>. QED BY <3>1, RespTaken DEF Moves, TakeResponses
  <2>7. taken \in SUBSET Ports /\ used \in SUBSET Ports
    OBVIOUS
  <2> HIDE DEF taken, used, new
  <2>8. Behind!Move(taken, new)
    BY <1>3, <2>4, <2>5, <2>6, <2>7
  <2>. QED BY <2>4, <2>7, <2>8
<1>5. ASSUME NEW p \in Ports, NEW r \in PortReq, NEW taken \in SUBSET Ports,
             \A q \in taken : coreResp[q] # << >>,
             coreResp' = [q \in Ports |-> IF q \in taken THEN Tail(coreResp[q]) ELSE coreResp[q]],
             coreReq' = [coreReq EXCEPT ![p] = Append(coreReq[p], r)]
      PROVE  \E t, used \in SUBSET Ports : \E new \in [used -> PortReq] : Behind!Move(t, new)
  <2> DEFINE new == [q \in {p} |-> r]
  <2>1. new \in [{p} -> PortReq] /\ {p} \in SUBSET Ports
    OBVIOUS
  <2>2. \A q \in Ports : coreReq'[q] = IF q \in {p} THEN Append(coreReq[q], new[q]) ELSE coreReq[q]
    BY <1>5 DEF PortsOK
  <2> HIDE DEF new
  <2>3. Behind!Move(taken, new)
    BY <1>3, <1>5, <2>1, <2>2
  <2>. QED BY <1>5, <2>1, <2>3
<1>6. ASSUME NEW a \in Addr, NEW o \in Off, NEW d \in Data, MovesSet(a, o, d)
      PROVE  \E t, used \in SUBSET Ports : \E new \in [used -> PortReq] : Behind!Move(t, new)
  <2> DEFINE taken == {p \in Ports : 1 \in Stages(p)}
  <2>1. /\ Moves(<< >>) /\ 0 \in Ports /\ WriteOf(a, o, d) \in PortReq
        /\ coreReq' = [coreReq EXCEPT ![0] = Append(coreReq[0], WriteOf(a, o, d))]
    BY <1>6, PortsRotate DEF MovesSet, PortReq
  <2>2. /\ \A p \in taken : coreResp[p] # << >>
        /\ coreResp' = [p \in Ports |-> IF p \in taken THEN Tail(coreResp[p]) ELSE coreResp[p]]
    BY <2>1, RespTaken DEF Moves, TakeResponses
  <2> HIDE DEF taken
  <2>3. taken \in SUBSET Ports
    BY DEF taken
  <2>. QED BY <1>5, <2>1, <2>2, <2>3
<1>7. ASSUME ClientStop
      PROVE  \E t, used \in SUBSET Ports : \E new \in [used -> PortReq] : Behind!Move(t, new)
  <2>1. /\ 0 \in Ports /\ StopReq \in PortReq /\ coreResp' = coreResp
        /\ coreReq' = [coreReq EXCEPT ![0] = Append(coreReq[0], StopReq)]
    BY <1>7, StopMoves DEF PortReq
  <2> DEFINE taken == {}
  <2>2. coreResp' = [q \in Ports |-> IF q \in taken THEN Tail(coreResp[q]) ELSE coreResp[q]]
    BY <2>1 DEF PortsOK
  <2>3. taken \in SUBSET Ports /\ \A q \in taken : coreResp[q] # << >>
    OBVIOUS
  <2> HIDE DEF taken
  <2>. QED BY <1>5, <2>1, <2>2, <2>3
<1>8. \A used \in SUBSET Ports : [used -> PortReq] \subseteq [used -> Behind!Request]
  BY <1>2
<1>. QED BY <1>4, <1>6, <1>7, <1>8, ClientCases
-----------------------------------------------------------------------------
(* The reads under way on a port: their stages in the pipeline, and the    *)
(* requests among those waiting that are reads.                            *)
ReadsIn(q) == {k \in 1 .. Len(q) : q[k].op = "READ"}

LEMMA ReadsAppend ==
  ASSUME NEW q \in Seq(PortReq), NEW r \in PortReq
  PROVE  /\ ReadsIn(q) \in SUBSET (1 .. Len(q)) /\ Len(q) \in Nat
         /\ ReadsIn(Append(q, r)) \in SUBSET (1 .. Len(q) + 1)
         /\ \A k \in 1 .. Len(q) : k \in ReadsIn(Append(q, r)) <=> k \in ReadsIn(q)
         /\ Len(q) + 1 \in ReadsIn(Append(q, r)) <=> r.op = "READ"
         /\ \A k \in 0 .. Len(q) : UpTo(ReadsIn(Append(q, r)), k) = UpTo(ReadsIn(q), k)
         /\ Cardinality(ReadsIn(Append(q, r)))
              = Cardinality(ReadsIn(q)) + (IF r.op = "READ" THEN 1 ELSE 0)
<1> DEFINE m == Len(q)
           S == ReadsIn(q)
           U == ReadsIn(Append(q, r))
<1>1. m \in Nat /\ S \in SUBSET (1 .. m) /\ U \in SUBSET (1 .. m + 1)
  BY AtTheEnd DEF ReadsIn
<1>2. \A k \in 1 .. m : k \in U <=> k \in S
  BY AtTheEnd DEF ReadsIn
<1>3. m + 1 \in U <=> r.op = "READ"
  BY <1>1, AtTheEnd DEF ReadsIn
<1> HIDE DEF S, U, m
<1>4. ASSUME NEW k \in 0 .. m PROVE UpTo(U, k) = UpTo(S, k)
  <2>1. k \in Nat /\ S \in SUBSET Nat /\ U \in SUBSET Nat /\ 0 \notin S /\ 0 \notin U
    BY <1>1
  <2>2. \A j \in 1 .. k : j \in U <=> j \in S
    BY <1>1, <1>2
  <2>. QED BY <2>1, <2>2, UpToSame, SMTT(30)
<1>5. UpTo(U, m + 1) = UpTo(U, m) + (IF m + 1 \in U THEN 1 ELSE 0)
  <2>1. m + 1 \in Nat
    BY <1>1
  <2>. QED BY <1>1, <2>1, UpToNext
<1>6. UpTo(U, m + 1) = Cardinality(U) /\ UpTo(S, m) = Cardinality(S)
  <2>1. m + 1 \in Nat
    BY <1>1
  <2>. QED BY <1>1, <2>1, UpToFacts
<1>7. UpTo(U, m) = UpTo(S, m)
  BY <1>1, <1>4
<1>8. Cardinality(U) = Cardinality(S) + (IF r.op = "READ" THEN 1 ELSE 0)
  BY <1>3, <1>5, <1>6, <1>7
<1>. QED BY <1>1, <1>2, <1>3, <1>4, <1>8 DEF S, U, m

LEMMA ReadsTail ==
  ASSUME NEW q \in Seq(PortReq), q # << >>
  PROVE  /\ Len(q) \in Nat /\ Len(q) >= 1 /\ Len(Tail(q)) = Len(q) - 1
         /\ ReadsIn(q) \in SUBSET (1 .. Len(q)) /\ ReadsIn(Tail(q)) \in SUBSET (1 .. Len(q))
         /\ \A k \in 1 .. Len(q) - 1 : Tail(q)[k] = q[k + 1]
         /\ \A k \in 1 .. Len(q) : k \in ReadsIn(Tail(q)) <=> k + 1 \in ReadsIn(q)
         /\ 1 \in ReadsIn(q) <=> Head(q).op = "READ"
         /\ \A k \in 0 .. Len(q) : UpTo(ReadsIn(Tail(q)), k)
              = UpTo(ReadsIn(q), k + 1) - (IF Head(q).op = "READ" THEN 1 ELSE 0)
         /\ Cardinality(ReadsIn(Tail(q)))
              = Cardinality(ReadsIn(q)) - (IF Head(q).op = "READ" THEN 1 ELSE 0)
<1> DEFINE m == Len(q)
           S == ReadsIn(q)
           U == ReadsIn(Tail(q))
<1>0. /\ m \in Nat /\ m >= 1 /\ Len(Tail(q)) = m - 1
      /\ \A k \in 1 .. m - 1 : Tail(q)[k] = q[k + 1]
  BY WithoutHead
<1>1. S \in SUBSET (1 .. m) /\ U \in SUBSET (1 .. m)
  BY <1>0 DEF ReadsIn
<1>2. \A k \in 1 .. m : k \in U <=> k + 1 \in S
  BY <1>0 DEF ReadsIn
<1>3. 1 \in S <=> Head(q).op = "READ"
  BY <1>0, WithoutHead DEF ReadsIn
<1> HIDE DEF S, U, m
<1>4. ASSUME NEW k \in 0 .. m
      PROVE  UpTo(U, k) = UpTo(S, k + 1) - (IF 1 \in S THEN 1 ELSE 0)
  <2>1. k \in Nat /\ \A j \in 1 .. k : j \in 1 .. m
    BY <1>0
  <2>2. \A j \in 1 .. k : j \in U <=> j + 1 \in S
    BY <1>2, <2>1
  <2>3. m \in Nat /\ k \in Nat
    BY <1>0
  <2>. QED BY <1>1, <2>2, <2>3, UpToShift, ZenonT(60)
<1>5. UpTo(U, m) = Cardinality(U)
  BY <1>0, <1>1, UpToFacts
<1>6. UpTo(S, m + 1) = Cardinality(S)
  <2>1. S \in SUBSET (1 .. m + 1) /\ m + 1 \in Nat
    BY <1>0, <1>1
  <2>. QED BY <2>1, UpToFacts
<1>7. UpTo(U, m) = UpTo(S, m + 1) - (IF 1 \in S THEN 1 ELSE 0)
  BY <1>0, <1>4
<1>8. Cardinality(U) = Cardinality(S) - (IF Head(q).op = "READ" THEN 1 ELSE 0)
  BY <1>3, <1>5, <1>6, <1>7
<1>9. \A k \in 0 .. m : UpTo(U, k) = UpTo(S, k + 1) - (IF Head(q).op = "READ" THEN 1 ELSE 0)
  BY <1>3, <1>4
<1>. QED BY <1>0, <1>1, <1>2, <1>3, <1>8, <1>9 DEF S, U, m

LEMMA StagesFacts ==
  ASSUME NEW p
  PROVE  /\ Stages(p) \in SUBSET (1 .. Latency) /\ Latency \in Nat /\ Latency >= 1
         /\ Cardinality(Stages(p)) \in Nat
         /\ \A i \in 1 .. Latency : Rank(p, i) = UpTo(Stages(p), i) /\ Rank(p, i) \in Nat
<1>1. Stages(p) \in SUBSET (1 .. Latency) /\ Latency \in Nat /\ Latency >= 1
  BY RoomFacts DEF Stages
<1>2. \A i \in 1 .. Latency : Rank(p, i) = UpTo(Stages(p), i)
  BY DEF Rank, UpTo
<1>3. \A i \in Nat : UpTo(Stages(p), i) \in Nat /\ Cardinality(Stages(p)) \in Nat
  BY <1>1, UpToFacts
<1>4. \A i \in 1 .. Latency : i \in Nat
  BY <1>1
<1>. QED BY <1>1, <1>2, <1>3, <1>4

(* The pipeline moves: every read is one stage further, the oldest leaves. *)
LEMMA StagesMoved ==
  ASSUME ClientOK, NEW stage, Moves(stage), NEW p \in Ports
  PROVE  /\ \A i \in 1 .. Latency - 1 : /\ i \in Stages(p)' <=> i + 1 \in Stages(p)
                                        /\ pipe'[i] = pipe[i + 1]
         /\ Latency \in Stages(p)' <=> \E k \in DOMAIN stage : stage[k].port = p
         /\ pipe'[Latency] = stage
         /\ \A i \in 1 .. Latency - 1 :
              Rank(p, i)' = Rank(p, i + 1) - (IF 1 \in Stages(p) THEN 1 ELSE 0)
         /\ Rank(p, Latency)' = Cardinality(Stages(p)')
         /\ Cardinality(Stages(p)') = Cardinality(Stages(p))
              - (IF 1 \in Stages(p) THEN 1 ELSE 0)
              + (IF \E k \in DOMAIN stage : stage[k].port = p THEN 1 ELSE 0)
<1> DEFINE S == Stages(p)
           U == Stages(p)'
<1>1. /\ S \in SUBSET (1 .. Latency) /\ U \in SUBSET (1 .. Latency)
      /\ Latency \in Nat /\ Latency >= 1 /\ Latency - 1 \in Nat
      /\ (Latency - 1) + 1 = Latency
  BY RoomFacts DEF Stages
<1>2. \A i \in 1 .. Latency - 1 : i + 1 \in 1 .. Latency /\ i \in 1 .. Latency /\ i < Latency
  BY <1>1
<1>3. /\ \A i \in 1 .. Latency - 1 : pipe'[i] = pipe[i + 1]
      /\ pipe'[Latency] = stage
  BY <1>1, <1>2, PipeMoved
<1>4. \A i \in 1 .. Latency - 1 : i \in U <=> i + 1 \in S
  BY <1>2, <1>3 DEF Stages
<1>5. Latency \in U <=> \E k \in DOMAIN stage : stage[k].port = p
  BY <1>1, <1>3 DEF Stages
<1>6. \A i \in 1 .. Latency : Rank(p, i) = UpTo(S, i) /\ Rank(p, i)' = UpTo(U, i)
  BY DEF Rank, UpTo
<1> HIDE DEF S, U
<1>7. ASSUME NEW i \in 0 .. Latency - 1
      PROVE  UpTo(U, i) = UpTo(S, i + 1) - (IF 1 \in S THEN 1 ELSE 0)
  <2>1. i \in Nat /\ \A j \in 1 .. i : j \in 1 .. Latency - 1
    BY <1>1
  <2>2. \A j \in 1 .. i : j \in U <=> j + 1 \in S
    BY <1>4, <2>1
  <2>3. /\ S \in SUBSET (1 .. Latency) /\ U \in SUBSET (1 .. Latency)
        /\ Latency \in Nat /\ i \in Nat
    BY <1>1
  <2>. QED BY <2>2, <2>3, UpToShift, ZenonT(60)
<1>8. UpTo(U, Latency) = Cardinality(U) /\ UpTo(S, Latency) = Cardinality(S)
  BY <1>1, UpToFacts
<1>9. UpTo(U, (Latency - 1) + 1) = UpTo(U, Latency - 1)
        + (IF (Latency - 1) + 1 \in U THEN 1 ELSE 0)
  BY <1>1, UpToNext
<1>10. UpTo(U, Latency - 1) = UpTo(S, Latency) - (IF 1 \in S THEN 1 ELSE 0)
  BY <1>1, <1>7
<1>11. UpTo(U, Latency) = UpTo(U, Latency - 1) + (IF Latency \in U THEN 1 ELSE 0)
  BY <1>1, <1>9
<1>12. Cardinality(U) = Cardinality(S) - (IF 1 \in S THEN 1 ELSE 0)
         + (IF \E k \in DOMAIN stage : stage[k].port = p THEN 1 ELSE 0)
  BY <1>5, <1>8, <1>10, <1>11
<1>13. \A i \in 1 .. Latency - 1 :
         Rank(p, i)' = Rank(p, i + 1) - (IF 1 \in S THEN 1 ELSE 0)
  BY <1>1, <1>2, <1>6, <1>7
<1>14. Rank(p, Latency)' = Cardinality(U)
  BY <1>1, <1>6, <1>8
<1>. QED BY <1>3, <1>4, <1>5, <1>12, <1>13, <1>14 DEF S, U
-----------------------------------------------------------------------------
(* Every read in the pipeline has its answer, or its request in a queue.   *)
CountOK ==
  \A p \in Ports :
    Cardinality(Stages(p)) = Len(coreResp[p]) + Cardinality(ReadsIn(Pending[p]))

(* A read whose request is the k-th on its port sees the word it wants     *)
(* once the requests before it have been served.                           *)
WillSee(r, p, k) == /\ Pending[p][k] = ReadOf(r)
                    /\ IsWordAfter(r.want, Pending[p], Stored, k - 1, r.a, r.off)

Answers(line, r) == line[r.off] = r.want

AnswersOK(p) ==
  \A n \in 1 .. Len(coreResp[p]) : \E i \in Stages(p) :
    /\ Rank(p, i) = n
    /\ \A j \in DOMAIN pipe[i] : pipe[i][j].port = p => Answers(coreResp[p][n], pipe[i][j])

AwaitedOK(p) ==
  \A k \in ReadsIn(Pending[p]) : \E i \in Stages(p) :
    /\ Rank(p, i) = Len(coreResp[p]) + UpTo(ReadsIn(Pending[p]), k)
    /\ \A j \in DOMAIN pipe[i] : pipe[i][j].port = p => WillSee(pipe[i][j], p, k)

MatchOK == \A p \in Ports : AnswersOK(p) /\ AwaitedOK(p)

(* The program's array is the cache's once all requests are served. *)
ArrayOK ==
  \A p \in Ports, a \in Addr, o \in Off :
    IsWordAfter(array[a][o], Pending[p], Stored, Len(Pending[p]), a, o)

SeenOK == CountOK /\ MatchOK /\ ArrayOK

(* What a step that serves the first request of port p does. *)
Served(p) ==
  LET r == Head(Pending[p]) IN
  /\ Pending[p] # << >> /\ Pending'[p] = Tail(Pending[p])
  /\ coreResp'[p] = IF r.op = "READ" THEN Append(coreResp[p], Stored[r.a]) ELSE coreResp[p]
  /\ \A a \in Addr, o \in Off :
       Stored'[a][o] = IF SetsWord(r, a, o) THEN r.data ELSE Stored[a][o]
  /\ \A q \in Ports : q # p => Pending'[q] = Pending[q] /\ coreResp'[q] = coreResp[q]
  /\ r.op = "WRITE" => Ports = {p}

LEMMA ServedIs ==
  ASSUME LinesOK, CoreOK, PortsOK, NEW p \in Ports,
         Behind!ServeRead(p) \/ Behind!ServeWrite(p) \/ Behind!ServeStop(p)
  PROVE  Served(p)
<1> DEFINE r == Head(Pending[p])
<1>1. /\ Pending[p] # << >> /\ Pending' = [Pending EXCEPT ![p] = Tail(Pending[p])]
  BY DEF Behind!ServeRead, Behind!ServeWrite, Behind!ServeStop, Behind!Serve
<1>2. Pending \in [Ports -> Seq(PortReq)] /\ r \in PortReq
  BY <1>1, PendingType
<1>3. Stored \in [Addr -> [Off -> Data]]
  BY StoredType DEF Line
<1>4. coreResp \in [Ports -> Seq(Line)]
  BY DEF PortsOK
<1>5. /\ Pending'[p] = Tail(Pending[p])
      /\ \A q \in Ports : q # p => Pending'[q] = Pending[q]
  BY <1>1, <1>2
<1> HIDE DEF r
<1>6. CASE Behind!ServeRead(p)
  <2>1. /\ r.op = "READ" /\ Stored' = Stored
        /\ coreResp' = [coreResp EXCEPT ![p] = Append(coreResp[p], Stored[r.a])]
    BY <1>6 DEF Behind!ServeRead, Behind!ReadRequest, r
  <2>2. \A a \in Addr, o \in Off : ~SetsWord(r, a, o)
    BY <2>1 DEF SetsWord
  <2>3. r.op # "WRITE"
    BY <2>1
  <2>4. /\ coreResp'[p] = Append(coreResp[p], Stored[r.a])
        /\ \A q \in Ports : q # p => coreResp'[q] = coreResp[q]
    BY <1>4, <2>1
  <2>. QED BY <1>1, <1>5, <2>1, <2>2, <2>3, <2>4 DEF Served, r
<1>7. CASE Behind!ServeWrite(p)
  <2>1. /\ r.op = "WRITE" /\ coreResp' = coreResp
        /\ Stored' = [Stored EXCEPT ![r.a] = [Stored[r.a] EXCEPT ![r.off] = r.data]]
        /\ r.a \in Addr /\ r.off \in Off
    BY <1>7 DEF Behind!ServeWrite, Behind!WriteRequest, r
  <2>2. Ports = {p}
    <3>1. r \in WriteReq
      BY <1>2, <2>1, RequestFacts, StopFacts DEF PortReq
    <3>2. NPorts = 1
      BY <3>1, DataflowAssumption DEF WriteReq
    <3>. QED BY <3>2 DEF Ports
  <2>3. \A a \in Addr, o \in Off :
          Stored'[a][o] = IF r.a = a /\ r.off = o THEN r.data ELSE Stored[a][o]
    BY <1>3, <2>1
  <2>4. r.op # "READ"
    BY <2>1
  <2>. QED BY <1>1, <1>5, <2>1, <2>2, <2>3, <2>4 DEF Served, SetsWord, r
<1>8. CASE Behind!ServeStop(p)
  <2>1. r.op = "STOP" /\ Stored' = Stored /\ coreResp' = coreResp
    BY <1>8, StopFacts DEF Behind!ServeStop, r
  <2>2. \A a \in Addr, o \in Off : ~SetsWord(r, a, o)
    BY <2>1 DEF SetsWord
  <2>3. r.op # "WRITE" /\ r.op # "READ"
    BY <2>1
  <2>. QED BY <1>1, <1>5, <2>1, <2>2, <2>3 DEF Served, r
<1>. QED BY <1>6, <1>7, <1>8

LEMMA StagesStay ==
  ASSUME UNCHANGED pipe
  PROVE  \A p : /\ Stages(p)' = Stages(p)
                /\ \A i : Rank(p, i)' = Rank(p, i)
BY DEF Stages, Rank

(* Serving a request keeps answers and reads in step. *)
LEMMA ServedCount ==
  ASSUME CoreOK, PortsOK, CountOK, UNCHANGED pipe, NEW p \in Ports, Served(p)
  PROVE  CountOK'
<1> DEFINE r == Head(Pending[p])
<1>1. /\ Pending[p] \in Seq(PortReq) /\ Pending[p] # << >>
      /\ coreResp[p] \in Seq(Line) /\ Len(coreResp[p]) \in Nat
  BY PendingType DEF PortsOK, Served
<1>2. /\ Pending'[p] = Tail(Pending[p])
      /\ coreResp'[p] = IF r.op = "READ" THEN Append(coreResp[p], Stored[r.a]) ELSE coreResp[p]
      /\ \A q \in Ports : q # p => Pending'[q] = Pending[q] /\ coreResp'[q] = coreResp[q]
  BY DEF Served
<1>3. Cardinality(ReadsIn(Pending'[p]))
        = Cardinality(ReadsIn(Pending[p])) - (IF r.op = "READ" THEN 1 ELSE 0)
  BY <1>1, <1>2, ReadsTail
<1>4. Len(coreResp'[p]) = Len(coreResp[p]) + (IF r.op = "READ" THEN 1 ELSE 0)
  <2>1. \A q \in Seq(Line) : \A x : Len(Append(q, x)) = Len(q) + 1
    OBVIOUS
  <2> HIDE DEF r
  <2>2. CASE r.op = "READ"
    BY <1>1, <1>2, <2>1, <2>2
  <2>3. CASE r.op # "READ"
    BY <1>1, <1>2, <2>3
  <2>. QED BY <2>2, <2>3
<1>5. Cardinality(ReadsIn(Pending[p])) \in Nat
  <2>1. ReadsIn(Pending[p]) \in SUBSET (1 .. Len(Pending[p])) /\ Len(Pending[p]) \in Nat
    BY <1>1, ReadsTail
  <2>. QED BY <2>1, UpToFacts
<1>6. Cardinality(Stages(p)) = Len(coreResp[p]) + Cardinality(ReadsIn(Pending[p]))
  BY DEF CountOK
<1> HIDE DEF r
<1>7. Cardinality(Stages(p)) = Len(coreResp'[p]) + Cardinality(ReadsIn(Pending'[p]))
  <2>1. CASE r.op = "READ"
    BY <1>1, <1>3, <1>4, <1>5, <1>6, <2>1
  <2>2. CASE r.op # "READ"
    BY <1>1, <1>3, <1>4, <1>5, <1>6, <2>2
  <2>. QED BY <2>1, <2>2
<1>8. \A q \in Ports : Cardinality(Stages(q)) = Len(coreResp'[q]) + Cardinality(ReadsIn(Pending'[q]))
  BY <1>2, <1>7 DEF CountOK
<1>9. \A q : Stages(q)' = Stages(q)
  BY StagesStay
<1>10. \A q \in Ports : Cardinality(Stages(q)') = Len(coreResp'[q]) + Cardinality(ReadsIn(Pending'[q]))
  BY <1>8, <1>9
<1>. QED BY <1>10 DEF CountOK, Ports, ReadsIn

(* Serving a request does not change what a word will be. *)
LEMMA ServedWords ==
  ASSUME CoreOK, PortsOK, NEW p \in Ports, Served(p), NEW a \in Addr, NEW o \in Off, NEW v
  PROVE  /\ \A k \in Nat : k + 1 <= Len(Pending[p])
                             /\ IsWordAfter(v, Pending[p], Stored, k + 1, a, o)
                           => IsWordAfter(v, Pending'[p], Stored', k, a, o)
         /\ \A q \in Ports, k \in Nat :
              q # p /\ IsWordAfter(v, Pending[q], Stored, k, a, o)
              => IsWordAfter(v, Pending'[q], Stored', k, a, o)
<1>1. /\ Pending[p] \in Seq(PortReq) /\ Pending[p] # << >> /\ Pending'[p] = Tail(Pending[p])
      /\ Len(Pending[p]) \in Nat /\ Head(Pending[p]) = Pending[p][1]
      /\ \A j \in 1 .. Len(Pending[p]) - 1 : Pending'[p][j] = Pending[p][j + 1]
  BY PendingType, WithoutHead DEF Served
<1>2. Stored'[a][o] = IF SetsWord(Pending[p][1], a, o) THEN Pending[p][1].data ELSE Stored[a][o]
  BY <1>1 DEF Served
<1>3. ASSUME NEW k \in Nat, k + 1 <= Len(Pending[p]),
             IsWordAfter(v, Pending[p], Stored, k + 1, a, o)
      PROVE  IsWordAfter(v, Pending'[p], Stored', k, a, o)
  <2>1. \A j \in 1 .. k : Pending'[p][j] = Pending[p][j + 1]
    BY <1>1, <1>3
  <2>. QED BY <1>2, <1>3, <2>1, WordAfterServed
<1>4. ASSUME NEW q \in Ports, NEW k \in Nat, q # p, IsWordAfter(v, Pending[q], Stored, k, a, o)
      PROVE  IsWordAfter(v, Pending'[q], Stored', k, a, o)
  <2>1. Pending'[q] = Pending[q] /\ Pending[p][1].op # "WRITE"
    BY <1>1, <1>4 DEF Served
  <2>2. Stored'[a][o] = Stored[a][o]
    BY <1>2, <2>1 DEF SetsWord
  <2>. QED BY <1>4, <2>1, <2>2, WordAfterSame
<1>. QED BY <1>3, <1>4

LEMMA ServedArray ==
  ASSUME CoreOK, PortsOK, ClientOK, ArrayOK, UNCHANGED array, NEW p \in Ports, Served(p)
  PROVE  ArrayOK'
<1> SUFFICES ASSUME NEW q \in Ports, NEW a \in Addr, NEW o \in Off
             PROVE  IsWordAfter(array[a][o], Pending'[q], Stored', Len(Pending'[q]), a, o)
  BY DEF ArrayOK, IsWordAfter, Ports, Addr, Set, SetsWord
<1>1. IsWordAfter(array[a][o], Pending[q], Stored, Len(Pending[q]), a, o)
  BY DEF ArrayOK
<1>2. Pending[q] \in Seq(PortReq) /\ Len(Pending[q]) \in Nat
  BY PendingType
<1>3. CASE q = p
  <2>1. /\ Len(Pending'[p]) = Len(Pending[p]) - 1 /\ Len(Pending[p]) - 1 \in Nat
        /\ (Len(Pending[p]) - 1) + 1 = Len(Pending[p])
    BY <1>2, <1>3, WithoutHead DEF Served
  <2>2. PICK k \in Nat : k = Len(Pending[p]) - 1
    BY <2>1
  <2>3. k + 1 <= Len(Pending[p]) /\ k + 1 = Len(Pending[p])
    BY <2>1, <2>2
  <2>4. IsWordAfter(array[a][o], Pending'[p], Stored', k, a, o)
    BY <1>1, <1>3, <2>3, ServedWords
  <2>. QED BY <1>3, <2>1, <2>2, <2>4
<1>4. CASE q # p
  <2>1. Pending'[q] = Pending[q]
    BY <1>4 DEF Served
  <2>. QED BY <1>1, <1>2, <1>4, <2>1, ServedWords
<1>. QED BY <1>3, <1>4

LEMMA PipeReads ==
  ASSUME ClientOK, NEW i \in 1 .. Latency, NEW j \in DOMAIN pipe[i]
  PROVE  pipe[i][j].a \in Addr /\ pipe[i][j].off \in Off
<1>1. pipe[i] \in Seq(PipeRead)
  BY DEF ClientOK
<1>2. pipe[i][j] \in PipeRead
  BY <1>1
<1>. QED BY <1>2 DEF PipeRead

LEMMA ServedMatch ==
  ASSUME CoreOK, PortsOK, ClientOK, MatchOK, UNCHANGED pipe, NEW p \in Ports, Served(p)
  PROVE  MatchOK'
<1> DEFINE R(q) == ReadsIn(Pending[q])
<1>1. /\ \A q : Stages(q)' = Stages(q)
      /\ \A q, i : Rank(q, i)' = Rank(q, i)
  BY StagesStay
<1>2. \A q \in Ports : /\ Pending[q] \in Seq(PortReq) /\ Len(Pending[q]) \in Nat
                       /\ coreResp[q] \in Seq(Line) /\ Len(coreResp[q]) \in Nat
  BY PendingType DEF PortsOK
<1>3. \A q \in Ports : AnswersOK(q) /\ AwaitedOK(q)
  BY DEF MatchOK
<1>4. \A q : \A i \in Stages(q) : i \in 1 .. Latency
  BY DEF Stages
<1>5. Pending[p] # << >> /\ Pending'[p] = Tail(Pending[p])
  BY DEF Served
<1>6. ASSUME NEW q \in Ports, q # p
      PROVE  AnswersOK(q)' /\ AwaitedOK(q)'
  <2>1. Pending'[q] = Pending[q] /\ coreResp'[q] = coreResp[q]
    BY <1>6 DEF Served
  <2>2. AnswersOK(q)'
    <3>1. AnswersOK(q)
      BY <1>3
    <3>2. ASSUME NEW n \in 1 .. Len(coreResp'[q])
          PROVE  \E i \in Stages(q) :
                   /\ Rank(q, i) = n
                   /\ \A j \in DOMAIN pipe[i] : pipe[i][j].port = q
                        => coreResp'[q][n][pipe[i][j].off] = pipe[i][j].want
      BY <2>1, <3>1 DEF AnswersOK, Answers
    <3>. QED BY <1>1, <3>2 DEF AnswersOK, Answers
  <2>3. ASSUME NEW k \in R(q), NEW i \in Stages(q), NEW j \in DOMAIN pipe[i],
               WillSee(pipe[i][j], q, k)
        PROVE  WillSee(pipe[i][j], q, k)'
    <3>1. pipe[i][j].a \in Addr /\ pipe[i][j].off \in Off
      BY <1>4, PipeReads
    <3>2. k - 1 \in Nat
      BY <1>2 DEF ReadsIn
    <3>3. IsWordAfter(pipe[i][j].want, Pending'[q], Stored', k - 1, pipe[i][j].a, pipe[i][j].off)
      BY <1>6, <2>3, <3>1, <3>2, ServedWords DEF WillSee
    <3>4. Pending'[q][k] = ReadOf(pipe[i][j])
      BY <2>1, <2>3 DEF WillSee
    <3>. QED BY <3>3, <3>4 DEF WillSee, ReadOf, IsWordAfter, SetsWord
  <2>4. AwaitedOK(q)'
    <3>1. ReadsIn(Pending'[q]) = R(q)
      BY <2>1
    <3>2. ASSUME NEW k \in R(q)
          PROVE  \E i \in Stages(q) :
                   /\ Rank(q, i) = Len(coreResp'[q]) + UpTo(R(q), k)
                   /\ \A j \in DOMAIN pipe[i] : pipe[i][j].port = q => WillSee(pipe[i][j], q, k)'
      <4>1. PICK i \in Stages(q) :
              /\ Rank(q, i) = Len(coreResp[q]) + UpTo(R(q), k)
              /\ \A j \in DOMAIN pipe[i] : pipe[i][j].port = q => WillSee(pipe[i][j], q, k)
        BY <1>3 DEF AwaitedOK
      <4>. QED BY <2>1, <2>3, <4>1
    <3>. QED BY <1>1, <3>1, <3>2 DEF AwaitedOK, UpTo, ReadsIn
  <2>. QED BY <2>2, <2>4
<1> DEFINE h == Head(Pending[p])
<1>7. /\ h = Pending[p][1] /\ h \in PortReq /\ Len(Pending[p]) >= 1
      /\ R(p) \in SUBSET (1 .. Len(Pending[p]))
      /\ ReadsIn(Pending'[p]) \in SUBSET (1 .. Len(Pending[p]))
      /\ \A k \in 1 .. Len(Pending[p]) : k \in ReadsIn(Pending'[p]) <=> k + 1 \in R(p)
      /\ 1 \in R(p) <=> h.op = "READ"
      /\ \A k \in 1 .. Len(Pending[p]) - 1 : Pending'[p][k] = Pending[p][k + 1]
  BY <1>2, <1>5, ReadsTail, WithoutHead
<1>8. \A k \in 0 .. Len(Pending[p]) : UpTo(ReadsIn(Pending'[p]), k)
        = UpTo(R(p), k + 1) - (IF h.op = "READ" THEN 1 ELSE 0)
  BY <1>2, <1>5, ReadsTail
<1>9. coreResp'[p] = IF h.op = "READ" THEN Append(coreResp[p], Stored[h.a]) ELSE coreResp[p]
  BY DEF Served
<1>10. \A x : Len(Append(coreResp[p], x)) = Len(coreResp[p]) + 1
  BY <1>2
<1> HIDE DEF h, R
<1>11. AnswersOK(p)'
  <2>1. ASSUME NEW n \in 1 .. Len(coreResp[p]), coreResp'[p][n] = coreResp[p][n]
        PROVE  \E i \in Stages(p) :
                 /\ Rank(p, i) = n
                 /\ \A j \in DOMAIN pipe[i] : pipe[i][j].port = p
                      => Answers(coreResp'[p][n], pipe[i][j])
    BY <1>3, <2>1 DEF AnswersOK
  <2>2. ASSUME h.op = "READ", NEW n, n = Len(coreResp[p]) + 1, coreResp'[p][n] = Stored[h.a]
        PROVE  \E i \in Stages(p) :
                 /\ Rank(p, i) = n
                 /\ \A j \in DOMAIN pipe[i] : pipe[i][j].port = p
                      => Answers(coreResp'[p][n], pipe[i][j])
    <3>1. 1 \in R(p)
      BY <1>7, <2>2
    <3>2. UpTo(R(p), 1) = 1
      <4>1. UpTo(R(p), 1) >= 1
        BY <1>2, <1>7, <3>1, UpToMember
      <4>2. UpTo(R(p), 1) \in Nat /\ UpTo(R(p), 1) <= 1
        BY <1>2, <1>7, UpToFacts
      <4>. QED BY <4>1, <4>2
    <3>3. PICK i \in Stages(p) :
            /\ Rank(p, i) = Len(coreResp[p]) + UpTo(R(p), 1)
            /\ \A j \in DOMAIN pipe[i] : pipe[i][j].port = p => WillSee(pipe[i][j], p, 1)
      BY <1>3, <3>1 DEF AwaitedOK, R
    <3>4. ASSUME NEW j \in DOMAIN pipe[i], pipe[i][j].port = p
          PROVE  Answers(coreResp'[p][n], pipe[i][j])
      <4>1. h = ReadOf(pipe[i][j])
        BY <1>7, <3>3, <3>4 DEF WillSee
      <4>2. Stored[pipe[i][j].a][pipe[i][j].off] = pipe[i][j].want
        BY <3>3, <3>4 DEF WillSee, IsWordAfter
      <4>. QED BY <2>2, <4>1, <4>2 DEF Answers, ReadOf
    <3>. QED BY <2>2, <3>2, <3>3, <3>4
  <2>3. CASE h.op = "READ"
    <3>1. /\ \A n \in 1 .. Len(coreResp[p]) : coreResp'[p][n] = coreResp[p][n]
          /\ coreResp'[p][Len(coreResp[p]) + 1] = Stored[h.a]
          /\ Len(coreResp'[p]) = Len(coreResp[p]) + 1
      BY <1>2, <1>9, <2>3
    <3>2. \A n \in 1 .. Len(coreResp'[p]) :
            n \in 1 .. Len(coreResp[p]) \/ n = Len(coreResp[p]) + 1
      BY <1>2, <3>1
    <3>. QED BY <1>1, <2>1, <2>2, <2>3, <3>1, <3>2 DEF AnswersOK, Answers
  <2>4. CASE h.op # "READ"
    <3>1. coreResp'[p] = coreResp[p]
      BY <1>9, <2>4
    <3>. QED BY <1>1, <2>1, <3>1 DEF AnswersOK, Answers
  <2>. QED BY <2>3, <2>4
<1>12. AwaitedOK(p)'
  <2>1. ASSUME NEW k \in ReadsIn(Pending'[p])
        PROVE  \E i \in Stages(p) :
                 /\ Rank(p, i) = Len(coreResp'[p]) + UpTo(ReadsIn(Pending'[p]), k)
                 /\ \A j \in DOMAIN pipe[i] : pipe[i][j].port = p => WillSee(pipe[i][j], p, k)'
    <3>1. k \in 1 .. Len(Pending[p]) /\ k + 1 \in R(p) /\ k + 1 \in Nat /\ k \in Nat
          /\ k + 1 <= Len(Pending[p]) /\ k - 1 \in Nat /\ (k - 1) + 1 = k /\ (k + 1) - 1 = k
          /\ k <= Len(Pending[p]) /\ k \in 1 .. Len(Pending[p]) - 1
      <4>1. Len(Pending[p]) \in Nat
        BY <1>2
      <4>2. k \in 1 .. Len(Pending[p])
        BY <1>7
      <4>3. k + 1 \in R(p)
        BY <1>7, <4>2
      <4>4. k + 1 \in 1 .. Len(Pending[p])
        BY <1>7, <4>3
      <4>. QED BY <4>1, <4>2, <4>3, <4>4
    <3>2. PICK i \in Stages(p) :
            /\ Rank(p, i) = Len(coreResp[p]) + UpTo(R(p), k + 1)
            /\ \A j \in DOMAIN pipe[i] : pipe[i][j].port = p => WillSee(pipe[i][j], p, k + 1)
      BY <1>3, <3>1 DEF AwaitedOK, R
    <3>3. Rank(p, i) = Len(coreResp'[p]) + UpTo(ReadsIn(Pending'[p]), k)
      <4>1. UpTo(R(p), k + 1) \in Nat
        BY <1>2, <1>7, <3>1, UpToFacts
      <4>2. k \in 0 .. Len(Pending[p])
        BY <3>1
      <4>3. UpTo(ReadsIn(Pending'[p]), k) = UpTo(R(p), k + 1) - (IF h.op = "READ" THEN 1 ELSE 0)
        BY <1>8, <4>2
      <4>4. CASE h.op = "READ"
        <5>1. Len(coreResp'[p]) = Len(coreResp[p]) + 1
          BY <1>9, <1>10, <4>4
        <5>. QED BY <1>2, <3>2, <4>1, <4>3, <4>4, <5>1
      <4>5. CASE h.op # "READ"
        <5>1. Len(coreResp'[p]) = Len(coreResp[p])
          BY <1>9, <4>5
        <5>. QED BY <1>2, <3>2, <4>1, <4>3, <4>5, <5>1
      <4>. QED BY <4>4, <4>5
    <3>4. ASSUME NEW j \in DOMAIN pipe[i], pipe[i][j].port = p
          PROVE  WillSee(pipe[i][j], p, k)'
      <4>1. pipe[i][j].a \in Addr /\ pipe[i][j].off \in Off
        BY <1>4, PipeReads
      <4>2. /\ Pending[p][k + 1] = ReadOf(pipe[i][j])
            /\ IsWordAfter(pipe[i][j].want, Pending[p], Stored, k, pipe[i][j].a, pipe[i][j].off)
        BY <3>1, <3>2, <3>4 DEF WillSee
      <4>3. Pending'[p][k] = ReadOf(pipe[i][j])
        BY <1>7, <3>1, <4>2
      <4>4. IsWordAfter(pipe[i][j].want, Pending'[p], Stored', k - 1, pipe[i][j].a, pipe[i][j].off)
        BY <3>1, <4>1, <4>2, ServedWords
      <4>. QED BY <4>3, <4>4 DEF WillSee, ReadOf, IsWordAfter, SetsWord
    <3>. QED BY <3>2, <3>3, <3>4
  <2>. QED BY <1>1, <2>1 DEF AwaitedOK, UpTo, ReadsIn
<1>. QED BY <1>6, <1>11, <1>12 DEF MatchOK

(* A step that changes nothing of what the ports show. *)
LEMMA SeenStays ==
  ASSUME SeenOK, UNCHANGED <<Stored, Pending, coreResp, pipe, array>>
  PROVE  SeenOK'
<1>1. /\ \A q : Stages(q)' = Stages(q)
      /\ \A q, i : Rank(q, i)' = Rank(q, i)
  BY StagesStay
<1>2. \A r, p, k : WillSee(r, p, k)' <=> WillSee(r, p, k)
  BY DEF WillSee, ReadOf, IsWordAfter, SetsWord
<1>3. CountOK'
  BY <1>1 DEF SeenOK, CountOK, Ports, ReadsIn
<1>4. MatchOK'
  <2> SUFFICES ASSUME NEW p \in Ports PROVE AnswersOK(p)' /\ AwaitedOK(p)'
    BY DEF MatchOK, Ports
  <2>1. AnswersOK(p) /\ AwaitedOK(p)
    BY DEF SeenOK, MatchOK
  <2>2. AnswersOK(p)'
    BY <1>1, <2>1 DEF AnswersOK, Answers
  <2>3. AwaitedOK(p)'
    <3>1. /\ ReadsIn(Pending'[p]) = ReadsIn(Pending[p])
          /\ \A k : UpTo(ReadsIn(Pending'[p]), k) = UpTo(ReadsIn(Pending[p]), k)
      OBVIOUS
    <3>2. ASSUME NEW k \in ReadsIn(Pending[p])
          PROVE  \E i \in Stages(p) :
                   /\ Rank(p, i) = Len(coreResp'[p]) + UpTo(ReadsIn(Pending'[p]), k)
                   /\ \A j \in DOMAIN pipe[i] : pipe[i][j].port = p => WillSee(pipe[i][j], p, k)'
      BY <1>2, <2>1, <3>1, <3>2 DEF AwaitedOK
    <3>. QED BY <1>1, <3>1, <3>2 DEF AwaitedOK, UpTo, ReadsIn
  <2>. QED BY <2>2, <2>3
<1>5. ArrayOK'
  BY DEF SeenOK, ArrayOK, Ports, Addr, Set, IsWordAfter, SetsWord
<1>. QED BY <1>3, <1>4, <1>5 DEF SeenOK
-----------------------------------------------------------------------------
(* What the client's step adds to the requests of port p, with the reads   *)
(* in the stage that enters the pipeline.                                  *)
Joins(stage, p) ==
  /\ \A j \in DOMAIN stage : stage[j].port = p =>
       /\ ReadOf(stage[j]) \in PortReq
       /\ Pending'[p] = Append(Pending[p], ReadOf(stage[j]))
       /\ stage[j].want = array[stage[j].a][stage[j].off]
  /\ (\A j \in DOMAIN stage : stage[j].port # p) =>
       \/ Pending'[p] = Pending[p]
       \/ \E r \in PortReq : r.op # "READ" /\ Pending'[p] = Append(Pending[p], r)
  /\ Stored' = Stored

LEMMA GetsJoin ==
  ASSUME LinesOK, CoreOK, PortsOK, PortsOK', ClientOK, Client,
         NEW stage, MovesGets(stage), NEW p \in Ports
  PROVE  Joins(stage, p)
<1>1. Stored' = Stored /\ UNCHANGED <<core, port, req>>
  BY ClientSees
<1>2. ASSUME NEW j \in DOMAIN stage, stage[j].port = p
      PROVE  /\ ReadOf(stage[j]) \in PortReq
             /\ Pending'[p] = Append(Pending[p], ReadOf(stage[j]))
             /\ stage[j].want = array[stage[j].a][stage[j].off]
  <2>1. /\ ReadOf(stage[j]) \in PortReq
        /\ coreReq'[p] = Append(coreReq[p], ReadOf(stage[j]))
        /\ stage[j].want = array[stage[j].a][stage[j].off]
    BY <1>2 DEF MovesGets, PortReq
  <2>. QED BY <1>1, <2>1, PendingJoined
<1>3. ASSUME \A j \in DOMAIN stage : stage[j].port # p
      PROVE  Pending'[p] = Pending[p]
  BY <1>1, <1>3, PendingJoined DEF MovesGets
<1>. QED BY <1>1, <1>2, <1>3 DEF Joins

LEMMA SetJoins ==
  ASSUME LinesOK, CoreOK, PortsOK, PortsOK', ClientOK, Client,
         NEW a \in Addr, NEW o \in Off, NEW d \in Data, MovesSet(a, o, d), NEW p \in Ports
  PROVE  /\ Joins(<< >>, p)
         /\ Pending'[p] = Append(Pending[p], WriteOf(a, o, d)) /\ WriteOf(a, o, d) \in PortReq
<1>1. Stored' = Stored /\ UNCHANGED <<core, port, req>>
  BY ClientSees
<1>2. WriteOf(a, o, d) \in PortReq /\ p = 0 /\ coreReq'[p] = Append(coreReq[p], WriteOf(a, o, d))
  BY DEF MovesSet, PortReq, PortsOK
<1>3. Pending'[p] = Append(Pending[p], WriteOf(a, o, d))
  BY <1>1, <1>2, PendingJoined
<1>4. WriteOf(a, o, d).op # "READ"
  BY DEF WriteOf
<1>. QED BY <1>1, <1>2, <1>3, <1>4 DEF Joins

(* The requests already waiting keep their place and their words. *)
LEMMA WillSeeStays ==
  ASSUME CoreOK, PortsOK, NEW p \in Ports, Stored' = Stored,
         Pending'[p] = Pending[p] \/ \E r \in PortReq : Pending'[p] = Append(Pending[p], r),
         NEW k \in 1 .. Len(Pending[p])
  PROVE  /\ k \in ReadsIn(Pending'[p]) <=> k \in ReadsIn(Pending[p])
         /\ UpTo(ReadsIn(Pending'[p]), k) = UpTo(ReadsIn(Pending[p]), k)
         /\ \A r : WillSee(r, p, k) => WillSee(r, p, k)'
<1>1. Pending[p] \in Seq(PortReq) /\ Len(Pending[p]) \in Nat /\ k \in Nat /\ k - 1 \in Nat
      /\ k \in 0 .. Len(Pending[p])
  BY PendingType
<1>2. /\ \A j \in 1 .. Len(Pending[p]) : Pending'[p][j] = Pending[p][j]
      /\ k \in ReadsIn(Pending'[p]) <=> k \in ReadsIn(Pending[p])
      /\ UpTo(ReadsIn(Pending'[p]), k) = UpTo(ReadsIn(Pending[p]), k)
  <2>1. CASE Pending'[p] = Pending[p]
    BY <2>1
  <2>2. CASE \E r \in PortReq : Pending'[p] = Append(Pending[p], r)
    BY <1>1, <2>2, AtTheEnd, ReadsAppend
  <2>. QED BY <2>1, <2>2
<1>3. ASSUME NEW r, WillSee(r, p, k) PROVE WillSee(r, p, k)'
  <2>1. \A j \in 1 .. k - 1 : Pending'[p][j] = Pending[p][j]
    BY <1>1, <1>2
  <2>2. IsWordAfter(r.want, Pending'[p], Stored', k - 1, r.a, r.off)
    <3>1. IsWordAfter(r.want, Pending[p], Stored, k - 1, r.a, r.off)
      BY <1>3 DEF WillSee
    <3>2. Stored'[r.a][r.off] = Stored[r.a][r.off]
      OBVIOUS
    <3>3. PICK m \in Nat : m = k - 1
      BY <1>1
    <3>4. IsWordAfter(r.want, Pending'[p], Stored', m, r.a, r.off)
      BY <2>1, <3>1, <3>2, <3>3, WordAfterSame
    <3>. QED BY <3>3, <3>4
  <2>3. Pending'[p][k] = ReadOf(r)
    BY <1>2, <1>3 DEF WillSee
  <2>. QED BY <2>2, <2>3 DEF WillSee, ReadOf, IsWordAfter, SetsWord
<1>. QED BY <1>2, <1>3

(* The client's step keeps answers, requests and reads in step. *)
LEMMA MovedCount ==
  ASSUME CoreOK, ClientOK, PortsOK, CountOK, NEW stage, Moves(stage),
         NEW p \in Ports, Joins(stage, p)
  PROVE  /\ Cardinality(Stages(p)') = Len(coreResp'[p]) + Cardinality(ReadsIn(Pending'[p]))
         /\ Len(coreResp'[p]) = Len(coreResp[p]) - (IF 1 \in Stages(p) THEN 1 ELSE 0)
         /\ Len(coreResp'[p]) \in Nat
<1> DEFINE enters == \E k \in DOMAIN stage : stage[k].port = p
           leaves == 1 \in Stages(p)
<1>1. /\ Pending[p] \in Seq(PortReq) /\ coreResp[p] \in Seq(Line)
      /\ Len(coreResp[p]) \in Nat
  BY PendingType DEF PortsOK
<1>2. Cardinality(Stages(p)) = Len(coreResp[p]) + Cardinality(ReadsIn(Pending[p]))
  BY DEF CountOK
<1>3. Cardinality(ReadsIn(Pending[p])) \in Nat
  <2>1. ReadsIn(Pending[p]) \in SUBSET (1 .. Len(Pending[p])) /\ Len(Pending[p]) \in Nat
    BY <1>1 DEF ReadsIn
  <2>. QED BY <2>1, UpToFacts
<1>4. Cardinality(Stages(p)') = Cardinality(Stages(p))
        - (IF leaves THEN 1 ELSE 0) + (IF enters THEN 1 ELSE 0)
  BY StagesMoved
<1>5. Cardinality(ReadsIn(Pending'[p]))
        = Cardinality(ReadsIn(Pending[p])) + (IF enters THEN 1 ELSE 0)
  <2>1. CASE enters
    <3>1. PICK j \in DOMAIN stage : stage[j].port = p
      BY <2>1
    <3>2. ReadOf(stage[j]) \in PortReq /\ Pending'[p] = Append(Pending[p], ReadOf(stage[j]))
      BY <3>1 DEF Joins
    <3>3. ReadOf(stage[j]).op = "READ"
      BY DEF ReadOf
    <3>. QED BY <1>1, <2>1, <3>2, <3>3, ReadsAppend
  <2>2. CASE ~enters
    <3>1. \/ Pending'[p] = Pending[p]
          \/ \E r \in PortReq : r.op # "READ" /\ Pending'[p] = Append(Pending[p], r)
      BY <2>2 DEF Joins
    <3>2. CASE Pending'[p] = Pending[p]
      BY <1>3, <2>2, <3>2
    <3>3. ASSUME NEW r \in PortReq, r.op # "READ", Pending'[p] = Append(Pending[p], r)
          PROVE  Cardinality(ReadsIn(Pending'[p])) = Cardinality(ReadsIn(Pending[p])) + 0
      BY <1>1, <3>3, ReadsAppend
    <3>. QED BY <2>2, <3>1, <3>2, <3>3
  <2>. QED BY <2>1, <2>2
<1>6. Len(coreResp'[p]) = Len(coreResp[p]) - (IF leaves THEN 1 ELSE 0) /\ Len(coreResp'[p]) \in Nat
  <2>1. CASE leaves
    <3>1. coreResp[p] # << >> /\ coreResp'[p] = Tail(coreResp[p])
      BY <2>1, RespTaken
    <3>2. Len(Tail(coreResp[p])) = Len(coreResp[p]) - 1 /\ Len(coreResp[p]) >= 1
      BY <1>1, <3>1, WithoutHead
    <3>. QED BY <1>1, <2>1, <3>1, <3>2
  <2>2. CASE ~leaves
    <3>1. coreResp'[p] = coreResp[p]
      BY <2>2, RespTaken
    <3>. QED BY <1>1, <2>2, <3>1
  <2>. QED BY <2>1, <2>2
<1> HIDE DEF enters, leaves
<1>7. Cardinality(Stages(p)') = Len(coreResp'[p]) + Cardinality(ReadsIn(Pending'[p]))
  <2>1. CASE leaves
    <3>1. CASE enters
      BY <1>1, <1>2, <1>3, <1>4, <1>5, <1>6, <2>1, <3>1
    <3>2. CASE ~enters
      BY <1>1, <1>2, <1>3, <1>4, <1>5, <1>6, <2>1, <3>2
    <3>. QED BY <3>1, <3>2
  <2>2. CASE ~leaves
    <3>1. CASE enters
      BY <1>1, <1>2, <1>3, <1>4, <1>5, <1>6, <2>2, <3>1
    <3>2. CASE ~enters
      BY <1>1, <1>2, <1>3, <1>4, <1>5, <1>6, <2>2, <3>2
    <3>. QED BY <3>1, <3>2
  <2>. QED BY <2>1, <2>2
<1>. QED BY <1>6, <1>7 DEF leaves

(* A read that has not reached the last stage is one stage further on, one *)
(* place nearer to its answer if a read of its port has left.              *)
LEMMA ReadMoves ==
  ASSUME ClientOK, NEW stage, Moves(stage), NEW p \in Ports, NEW i \in Stages(p),
         Rank(p, i) > (IF 1 \in Stages(p) THEN 1 ELSE 0)
  PROVE  /\ i - 1 \in 1 .. Latency - 1 /\ i - 1 \in Stages(p)' /\ pipe'[i - 1] = pipe[i]
         /\ Rank(p, i - 1)' = Rank(p, i) - (IF 1 \in Stages(p) THEN 1 ELSE 0)
<1>1. /\ Stages(p) \in SUBSET (1 .. Latency) /\ Latency \in Nat /\ i \in 1 .. Latency
      /\ \A k \in 1 .. Latency : Rank(p, k) = UpTo(Stages(p), k) /\ Rank(p, k) \in Nat
  BY StagesFacts
<1>2. UpTo(Stages(p), 1) \in Nat /\ UpTo(Stages(p), 1) <= 1
  BY <1>1, UpToFacts
<1>3. i # 1
  BY <1>1, <1>2
<1>4. PICK m \in 1 .. Latency - 1 : m = i - 1 /\ i = m + 1
  BY <1>1, <1>3
<1>5. /\ m \in Stages(p)' <=> m + 1 \in Stages(p)
      /\ pipe'[m] = pipe[m + 1]
      /\ Rank(p, m)' = Rank(p, m + 1) - (IF 1 \in Stages(p) THEN 1 ELSE 0)
  BY <1>4, StagesMoved
<1>. QED BY <1>4, <1>5

LEMMA MovedAnswers ==
  ASSUME CoreOK, ClientOK, PortsOK, CountOK, NEW stage, Moves(stage),
         NEW p \in Ports, Joins(stage, p), AnswersOK(p)
  PROVE  AnswersOK(p)'
<1> DEFINE gone == IF 1 \in Stages(p) THEN 1 ELSE 0
<1>1. coreResp[p] \in Seq(Line) /\ Len(coreResp[p]) \in Nat
  BY DEF PortsOK
<1>2. Len(coreResp'[p]) = Len(coreResp[p]) - gone /\ Len(coreResp'[p]) \in Nat
  BY MovedCount
<1>3. \A n \in 1 .. Len(coreResp'[p]) : coreResp'[p][n] = coreResp[p][n + gone]
  <2>1. CASE 1 \in Stages(p)
    <3>1. coreResp[p] # << >> /\ coreResp'[p] = Tail(coreResp[p]) /\ gone = 1
      BY <2>1, RespTaken
    <3>2. \A n \in 1 .. Len(coreResp[p]) - 1 : Tail(coreResp[p])[n] = coreResp[p][n + 1]
      BY <1>1, <3>1, WithoutHead
    <3> HIDE DEF gone
    <3>. QED BY <1>2, <3>1, <3>2
  <2>2. CASE 1 \notin Stages(p)
    BY <1>1, <1>2, <2>2, RespTaken
  <2>. QED BY <2>1, <2>2
<1>4. gone \in Nat
  OBVIOUS
<1>5. \A i : i \in Stages(p) /\ Rank(p, i) > gone =>
               /\ i - 1 \in Stages(p)' /\ pipe'[i - 1] = pipe[i]
               /\ Rank(p, i - 1)' = Rank(p, i) - gone
  BY ReadMoves
<1> HIDE DEF gone
<1>6. ASSUME NEW n \in 1 .. Len(coreResp'[p])
      PROVE  \E i \in Stages(p)' :
               /\ Rank(p, i)' = n
               /\ \A j \in DOMAIN pipe'[i] : pipe'[i][j].port = p
                    => Answers(coreResp'[p][n], pipe'[i][j])
  <2>1. n + gone \in 1 .. Len(coreResp[p]) /\ n + gone > gone /\ (n + gone) - gone = n
    BY <1>1, <1>2, <1>4
  <2>2. PICK i \in Stages(p) :
          /\ Rank(p, i) = n + gone
          /\ \A j \in DOMAIN pipe[i] : pipe[i][j].port = p
               => Answers(coreResp[p][n + gone], pipe[i][j])
    BY <2>1 DEF AnswersOK
  <2>3. /\ i - 1 \in Stages(p)' /\ pipe'[i - 1] = pipe[i] /\ Rank(p, i - 1)' = n
    BY <1>5, <2>1, <2>2
  <2>. QED BY <1>3, <2>2, <2>3
<1>. QED BY <1>6 DEF AnswersOK, Answers

LEMMA MovedAwaited ==
  ASSUME CoreOK, ClientOK, PortsOK, CountOK, ArrayOK, NEW stage, Moves(stage),
         NEW p \in Ports, Joins(stage, p), AwaitedOK(p)
  PROVE  AwaitedOK(p)'
<1> DEFINE gone == IF 1 \in Stages(p) THEN 1 ELSE 0
           Ahead(k) == UpTo(ReadsIn(Pending'[p]), k)
           SeesThen(r, k) ==
             /\ Pending'[p][k] = ReadOf(r)
             /\ IsWordAfter(r.want, Pending'[p], Stored', k - 1, r.a, r.off)
<1>1. /\ coreResp[p] \in Seq(Line) /\ Len(coreResp[p]) \in Nat
      /\ Pending[p] \in Seq(PortReq) /\ Len(Pending[p]) \in Nat
  BY PendingType DEF PortsOK
<1>2. /\ Len(coreResp'[p]) = Len(coreResp[p]) - gone /\ Len(coreResp'[p]) \in Nat
      /\ Cardinality(Stages(p)') = Len(coreResp'[p]) + Cardinality(ReadsIn(Pending'[p]))
  BY MovedCount
<1>3. gone \in Nat
  OBVIOUS
<1>4. \A i : i \in Stages(p) /\ Rank(p, i) > gone =>
               /\ i - 1 \in Stages(p)' /\ pipe'[i - 1] = pipe[i]
               /\ Rank(p, i - 1)' = Rank(p, i) - gone
  BY ReadMoves
<1>5. \/ Pending'[p] = Pending[p]
      \/ \E r \in PortReq : Pending'[p] = Append(Pending[p], r)
  BY DEF Joins
<1>6. Stored' = Stored
  BY DEF Joins
<1>9. /\ \A r, k : WillSee(r, p, k)' => SeesThen(r, k)
      /\ \A i, j, k : SeesThen(pipe'[i][j], k) => WillSee(pipe[i][j], p, k)'
  BY DEF WillSee, ReadOf, IsWordAfter, SetsWord
<1> HIDE DEF gone, Ahead, SeesThen
<1>7. ASSUME NEW k \in ReadsIn(Pending'[p]), k <= Len(Pending[p])
      PROVE  \E i \in Stages(p)' :
               /\ Rank(p, i)' = Len(coreResp'[p]) + Ahead(k)
               /\ \A j \in DOMAIN pipe'[i] : pipe'[i][j].port = p => SeesThen(pipe'[i][j], k)
  <2>1. k \in 1 .. Len(Pending[p])
    <3>1. k \in 1 .. Len(Pending'[p])
      BY DEF ReadsIn
    <3>. QED BY <1>1, <1>7, <3>1
  <2>2. /\ k \in ReadsIn(Pending[p]) /\ Ahead(k) = UpTo(ReadsIn(Pending[p]), k)
        /\ \A r : WillSee(r, p, k) => SeesThen(r, k)
    BY <1>5, <1>6, <1>7, <1>9, <2>1, WillSeeStays DEF Ahead
  <2>3. PICK i \in Stages(p) :
          /\ Rank(p, i) = Len(coreResp[p]) + Ahead(k)
          /\ \A j \in DOMAIN pipe[i] : pipe[i][j].port = p => WillSee(pipe[i][j], p, k)
    BY <2>2 DEF AwaitedOK
  <2>4. Ahead(k) \in Nat /\ Ahead(k) >= 1
    <3>1. ReadsIn(Pending[p]) \in SUBSET (1 .. Len(Pending[p])) /\ k \in Nat
      BY <1>1, <2>1 DEF ReadsIn
    <3>. QED BY <1>1, <2>2, <3>1, UpToFacts, UpToMember
  <2>5. /\ Rank(p, i) > gone
        /\ Rank(p, i) - gone = Len(coreResp'[p]) + Ahead(k)
    <3>1. PICK x \in Nat, y \in Nat, z \in Nat :
            x = Len(coreResp[p]) /\ y = Len(coreResp'[p]) /\ z = Ahead(k)
      BY <1>1, <1>2, <2>4
    <3>2. y = x - gone /\ z >= 1 /\ Rank(p, i) = x + z
      BY <1>2, <2>3, <2>4, <3>1
    <3>3. x + z > gone /\ (x + z) - gone = y + z
      BY <1>3, <3>2
    <3>. QED BY <3>1, <3>2, <3>3
  <2>6. i - 1 \in Stages(p)' /\ pipe'[i - 1] = pipe[i]
        /\ Rank(p, i - 1)' = Len(coreResp'[p]) + Ahead(k)
    BY <1>4, <2>5
  <2>7. \A j \in DOMAIN pipe'[i - 1] : pipe'[i - 1][j].port = p => SeesThen(pipe'[i - 1][j], k)
    BY <2>2, <2>3, <2>6
  <2>. QED BY <2>6, <2>7
<1>8. ASSUME NEW k \in ReadsIn(Pending'[p]), ~(k <= Len(Pending[p]))
      PROVE  \E i \in Stages(p)' :
               /\ Rank(p, i)' = Len(coreResp'[p]) + Ahead(k)
               /\ \A j \in DOMAIN pipe'[i] : pipe'[i][j].port = p => SeesThen(pipe'[i][j], k)
  <2>1. k \in 1 .. Len(Pending'[p])
    BY DEF ReadsIn
  <2>2. PICK r \in PortReq : Pending'[p] = Append(Pending[p], r)
    <3>1. Pending'[p] # Pending[p]
      BY <1>1, <1>8, <2>1
    <3>. QED BY <1>5, <3>1
  <2>3. /\ Len(Pending'[p]) = Len(Pending[p]) + 1 /\ Pending'[p][Len(Pending[p]) + 1] = r
        /\ \A j \in 1 .. Len(Pending[p]) : Pending'[p][j] = Pending[p][j]
    BY <1>1, <2>2, AtTheEnd
  <2>4. k = Len(Pending[p]) + 1 /\ k - 1 = Len(Pending[p])
    BY <1>1, <1>8, <2>1, <2>3
  <2>5. r.op = "READ" /\ Pending'[p][k] = r
    BY <2>3, <2>4 DEF ReadsIn
  <2>6. PICK e \in DOMAIN stage : stage[e].port = p
    <3>1. CASE \A j \in DOMAIN stage : stage[j].port # p
      <4>1. \/ Pending'[p] = Pending[p]
            \/ \E x \in PortReq : x.op # "READ" /\ Pending'[p] = Append(Pending[p], x)
        BY <3>1 DEF Joins
      <4>2. Pending'[p] # Pending[p]
        BY <1>1, <2>3
      <4>3. PICK x \in PortReq : x.op # "READ" /\ Pending'[p] = Append(Pending[p], x)
        BY <4>1, <4>2
      <4>4. x = r
        BY <1>1, <2>3, <4>3, AtTheEnd
      <4>. QED BY <2>5, <4>3, <4>4
    <3>. QED BY <3>1
  <2>7. /\ r = ReadOf(stage[e]) /\ stage[e].want = array[stage[e].a][stage[e].off]
    <3>1. /\ Pending'[p] = Append(Pending[p], ReadOf(stage[e])) /\ ReadOf(stage[e]) \in PortReq
          /\ stage[e].want = array[stage[e].a][stage[e].off]
      BY <2>6 DEF Joins
    <3>2. Pending'[p][Len(Pending[p]) + 1] = ReadOf(stage[e])
      BY <1>1, <3>1, AtTheEnd
    <3>. QED BY <2>3, <3>1, <3>2
  <2>8. stage[e].a \in Addr /\ stage[e].off \in Off
    <3>1. stage \in Seq(PipeRead)
      BY DEF Moves
    <3>2. stage[e] \in PipeRead
      BY <3>1
    <3>. QED BY <3>2 DEF PipeRead
  <2>9. /\ Latency \in Stages(p)' /\ pipe'[Latency] = stage
        /\ Rank(p, Latency)' = Cardinality(Stages(p)')
    BY <2>6, StagesMoved
  <2>10. Cardinality(ReadsIn(Pending'[p])) = Ahead(k)
    <3>1. ReadsIn(Pending'[p]) \in SUBSET (1 .. k) /\ k \in Nat
      BY <1>1, <2>3, <2>4 DEF ReadsIn
    <3>. QED BY <3>1, UpToFacts DEF Ahead
  <2>11. SeesThen(stage[e], k)
    <3>1. IsWordAfter(stage[e].want, Pending[p], Stored, Len(Pending[p]), stage[e].a, stage[e].off)
      BY <2>7, <2>8 DEF ArrayOK
    <3>2. IsWordAfter(stage[e].want, Pending'[p], Stored', Len(Pending[p]), stage[e].a, stage[e].off)
      BY <1>1, <1>6, <2>2, <3>1, WordJoined
    <3>. QED BY <2>4, <2>5, <2>7, <3>2 DEF SeesThen
  <2>12. \A j \in DOMAIN stage : stage[j].port = p => j = e
    BY <2>6 DEF Moves
  <2>. QED BY <1>2, <2>9, <2>10, <2>11, <2>12
<1>10. ASSUME NEW k \in ReadsIn(Pending'[p])
       PROVE  \E i \in Stages(p)' :
                /\ Rank(p, i)' = Len(coreResp'[p]) + Ahead(k)
                /\ \A j \in DOMAIN pipe'[i] : pipe'[i][j].port = p => WillSee(pipe[i][j], p, k)'
  BY <1>7, <1>8, <1>9
<1>. QED BY <1>10 DEF AwaitedOK, Ahead, UpTo, ReadsIn

(* A request that joins port p sets its own word, and no other. *)
LEMMA JoinedWord ==
  ASSUME CoreOK, PortsOK, NEW p \in Ports, Stored' = Stored, NEW a, NEW o, NEW v, NEW w,
         IsWordAfter(w, Pending[p], Stored, Len(Pending[p]), a, o),
         NEW r \in PortReq, Pending'[p] = Append(Pending[p], r),
         IF SetsWord(r, a, o) THEN r.data = v ELSE v = w
  PROVE  IsWordAfter(v, Pending'[p], Stored', Len(Pending'[p]), a, o)
<1>1. Pending[p] \in Seq(PortReq) /\ Len(Pending[p]) \in Nat
  BY PendingType
<1>2. Len(Pending'[p]) = Len(Pending[p]) + 1 /\ Pending'[p][Len(Pending[p]) + 1] = r
  BY <1>1, AtTheEnd
<1>3. IsWordAfter(w, Pending'[p], Stored', Len(Pending[p]), a, o)
  BY <1>1, WordJoined
<1>4. PICK k \in Nat : k = Len(Pending[p])
  BY <1>1
<1>5. IF SetsWord(Pending'[p][k + 1], a, o) THEN Pending'[p][k + 1].data = v
      ELSE IsWordAfter(v, Pending'[p], Stored', k, a, o)
  <2>1. CASE SetsWord(r, a, o)
    BY <1>2, <1>4, <2>1
  <2>2. CASE ~SetsWord(r, a, o)
    BY <1>2, <1>3, <1>4, <2>2
  <2>. QED BY <2>1, <2>2
<1>6. IsWordAfter(v, Pending'[p], Stored', k + 1, a, o)
  BY <1>5, WordAfterSet
<1>. QED BY <1>2, <1>4, <1>6

LEMMA GetsArray ==
  ASSUME CoreOK, PortsOK, PortsOK', ArrayOK, UNCHANGED <<core, port, req>>, NEW stage, MovesGets(stage),
         \A p \in Ports : Joins(stage, p)
  PROVE  ArrayOK'
<1> SUFFICES ASSUME NEW p \in Ports, NEW a \in Addr, NEW o \in Off
             PROVE  IsWordAfter(array'[a][o], Pending'[p], Stored', Len(Pending'[p]), a, o)
  BY DEF ArrayOK, IsWordAfter, Ports, Addr, Set, SetsWord
<1>1. array' = array /\ Stored' = Stored
  BY DEF MovesGets, Joins
<1>2. IsWordAfter(array[a][o], Pending[p], Stored, Len(Pending[p]), a, o)
  BY DEF ArrayOK
<1>3. \/ Pending'[p] = Pending[p]
      \/ \E r \in PortReq : r.op # "WRITE" /\ Pending'[p] = Append(Pending[p], r)
  <2>1. CASE \A j \in DOMAIN stage : stage[j].port # p
    <3>1. coreReq'[p] = coreReq[p]
      BY <2>1 DEF MovesGets
    <3>. QED BY <3>1, PendingJoined
  <2>2. ASSUME NEW j \in DOMAIN stage, stage[j].port = p
        PROVE  \E r \in PortReq : r.op # "WRITE" /\ Pending'[p] = Append(Pending[p], r)
    BY <2>2 DEF Joins, ReadOf
  <2>. QED BY <2>1, <2>2
<1>4. CASE Pending'[p] = Pending[p]
  BY <1>1, <1>2, <1>4
<1>5. ASSUME NEW r \in PortReq, r.op # "WRITE", Pending'[p] = Append(Pending[p], r)
      PROVE  IsWordAfter(array'[a][o], Pending'[p], Stored', Len(Pending'[p]), a, o)
  <2>1. ~SetsWord(r, a, o)
    BY <1>5 DEF SetsWord
  <2>2. array'[a][o] = array[a][o]
    BY <1>1
  <2>. QED BY <1>1, <1>2, <1>5, <2>1, <2>2, JoinedWord
<1>. QED BY <1>3, <1>4, <1>5

LEMMA SetArray ==
  ASSUME CoreOK, PortsOK, ClientOK, ArrayOK, NEW a \in Addr, NEW o \in Off, NEW d \in Data,
         MovesSet(a, o, d), Stored' = Stored,
         \A p \in Ports : /\ Pending'[p] = Append(Pending[p], WriteOf(a, o, d))
                          /\ WriteOf(a, o, d) \in PortReq
  PROVE  ArrayOK'
<1> SUFFICES ASSUME NEW p \in Ports, NEW b \in Addr, NEW c \in Off
             PROVE  IsWordAfter(array'[b][c], Pending'[p], Stored', Len(Pending'[p]), b, c)
  BY DEF ArrayOK, IsWordAfter, Ports, Addr, Set, SetsWord
<1>1. IsWordAfter(array[b][c], Pending[p], Stored, Len(Pending[p]), b, c)
  BY DEF ArrayOK
<1>2. array'[b][c] = IF a = b /\ o = c THEN d ELSE array[b][c]
  BY DEF MovesSet, ClientOK, Line
<1>3. SetsWord(WriteOf(a, o, d), b, c) <=> a = b /\ o = c
  BY DEF SetsWord, WriteOf
<1>4. WriteOf(a, o, d).data = d
  BY DEF WriteOf
<1> DEFINE w == WriteOf(a, o, d)
<1>5. IF SetsWord(w, b, c) THEN w.data = array'[b][c] ELSE array'[b][c] = array[b][c]
  BY <1>2, <1>3, <1>4
<1>6. w \in PortReq /\ Pending'[p] = Append(Pending[p], w)
  OBVIOUS
<1> HIDE DEF w
<1>. QED BY <1>1, <1>5, <1>6, JoinedWord

(* stop() sends its request when no read is under way. *)
LEMMA StopSeen ==
  ASSUME LinesOK, CoreOK, PortsOK, PortsOK', ClientOK, SeenOK, Client, ClientStop
  PROVE  SeenOK'
<1>1. /\ Stored' = Stored /\ UNCHANGED <<core, port, req>>
      /\ coreReq' = [coreReq EXCEPT ![0] = Append(coreReq[0], StopReq)]
      /\ UNCHANGED <<coreResp, pipe, array>> /\ 0 \in Ports
  BY ClientSees, StopMoves
<1>2. StopReq \in PortReq /\ StopReq.op = "STOP"
  BY StopFacts DEF PortReq
<1>3. /\ Pending'[0] = Append(Pending[0], StopReq)
      /\ \A p \in Ports : p # 0 => Pending'[p] = Pending[p]
  <2>1. /\ coreReq'[0] = Append(coreReq[0], StopReq)
        /\ \A p \in Ports : p # 0 => coreReq'[p] = coreReq[p]
    BY <1>1 DEF PortsOK
  <2>. QED BY <1>1, <1>2, <2>1, PendingJoined
<1>4. /\ \A q : Stages(q)' = Stages(q)
      /\ \A q, i : Rank(q, i)' = Rank(q, i)
  BY <1>1, StagesStay
<1>5. \A p \in Ports : Pending[p] \in Seq(PortReq) /\ Len(Pending[p]) \in Nat
  BY PendingType
<1>6. \A p \in Ports : \/ Pending'[p] = Pending[p]
                       \/ \E r \in PortReq : Pending'[p] = Append(Pending[p], r)
  BY <1>2, <1>3
<1>7. ASSUME NEW p \in Ports
      PROVE  /\ \A k \in ReadsIn(Pending'[p]) : k \in 1 .. Len(Pending[p])
             /\ Cardinality(ReadsIn(Pending'[p])) = Cardinality(ReadsIn(Pending[p]))
  <2>1. CASE p = 0
    <3>1. /\ Len(Pending'[0]) = Len(Pending[0]) + 1
          /\ Pending'[0][Len(Pending[0]) + 1] = StopReq
      BY <1>1, <1>2, <1>3, <1>5, AtTheEnd
    <3>2. Cardinality(ReadsIn(Pending'[0])) = Cardinality(ReadsIn(Pending[0])) + 0
      BY <1>1, <1>2, <1>3, <1>5, ReadsAppend
    <3>3. Cardinality(ReadsIn(Pending[0])) \in Nat
      <4>1. ReadsIn(Pending[0]) \in SUBSET (1 .. Len(Pending[0])) /\ Len(Pending[0]) \in Nat
        BY <1>1, <1>5 DEF ReadsIn
      <4>. QED BY <4>1, UpToFacts
    <3>4. \A k \in ReadsIn(Pending'[0]) : k \in 1 .. Len(Pending[0])
      BY <1>1, <1>2, <1>5, <3>1 DEF ReadsIn
    <3>. QED BY <2>1, <3>2, <3>3, <3>4
  <2>2. CASE p # 0
    <3>1. Pending'[p] = Pending[p]
      BY <1>3, <2>2
    <3>. QED BY <3>1 DEF ReadsIn
  <2>. QED BY <2>1, <2>2
<1>8. CountOK'
  BY <1>1, <1>4, <1>7 DEF SeenOK, CountOK, Ports, ReadsIn
<1>9. ASSUME NEW p \in Ports PROVE AnswersOK(p)' /\ AwaitedOK(p)'
  <2>1. AnswersOK(p) /\ AwaitedOK(p)
    BY DEF SeenOK, MatchOK
  <2>2. AnswersOK(p)'
    BY <1>1, <1>4, <2>1 DEF AnswersOK, Answers
  <2>3. ASSUME NEW k \in ReadsIn(Pending'[p])
        PROVE  \E i \in Stages(p) :
                 /\ Rank(p, i) = Len(coreResp[p]) + UpTo(ReadsIn(Pending'[p]), k)
                 /\ \A j \in DOMAIN pipe[i] : pipe[i][j].port = p => WillSee(pipe[i][j], p, k)'
    <3>1. /\ k \in ReadsIn(Pending[p])
          /\ UpTo(ReadsIn(Pending'[p]), k) = UpTo(ReadsIn(Pending[p]), k)
          /\ \A r : WillSee(r, p, k) => WillSee(r, p, k)'
      BY <1>1, <1>6, <1>7, WillSeeStays
    <3>2. PICK i \in Stages(p) :
            /\ Rank(p, i) = Len(coreResp[p]) + UpTo(ReadsIn(Pending[p]), k)
            /\ \A j \in DOMAIN pipe[i] : pipe[i][j].port = p => WillSee(pipe[i][j], p, k)
      BY <2>1, <3>1 DEF AwaitedOK
    <3>3. ASSUME NEW j, WillSee(pipe[i][j], p, k) PROVE WillSee(pipe[i][j], p, k)'
      <4>1. PICK r : r = pipe[i][j]
        OBVIOUS
      <4>2. WillSee(r, p, k)' /\ pipe'[i][j] = r
        BY <1>1, <3>1, <3>3, <4>1
      <4>. QED BY <4>2 DEF WillSee, ReadOf, IsWordAfter, SetsWord
    <3>. QED BY <3>1, <3>2, <3>3
  <2>4. AwaitedOK(p)'
    BY <1>1, <1>4, <2>3 DEF AwaitedOK, UpTo, ReadsIn
  <2>. QED BY <2>2, <2>4
<1>10. ArrayOK'
  <2> SUFFICES ASSUME NEW p \in Ports, NEW a \in Addr, NEW o \in Off
               PROVE  IsWordAfter(array'[a][o], Pending'[p], Stored', Len(Pending'[p]), a, o)
    BY DEF ArrayOK, IsWordAfter, Ports, Addr, Set, SetsWord
  <2> USE <1>1
  <2>1. IsWordAfter(array[a][o], Pending[p], Stored, Len(Pending[p]), a, o)
    BY DEF SeenOK, ArrayOK
  <2>2. CASE p = 0
    <3>1. ~SetsWord(StopReq, a, o)
      BY <1>2 DEF SetsWord
    <3>. QED BY <1>1, <1>2, <1>3, <2>1, <2>2, <3>1, JoinedWord
  <2>3. CASE p # 0
    BY <1>1, <1>3, <2>1, <2>3
  <2>. QED BY <2>2, <2>3
<1>. QED BY <1>8, <1>9, <1>10 DEF SeenOK, MatchOK, Ports

LEMMA ClientSeen ==
  ASSUME LinesOK, CoreOK, PortsOK, PortsOK', ClientOK, SeenOK, Client
  PROVE  SeenOK'
<1>1. ASSUME NEW stage, Moves(stage), \A p \in Ports : Joins(stage, p)
      PROVE  CountOK' /\ MatchOK'
  <2>1. CountOK /\ ArrayOK /\ \A p \in Ports : AnswersOK(p) /\ AwaitedOK(p)
    BY DEF SeenOK, MatchOK
  <2>2. \A p \in Ports : Cardinality(Stages(p)') = Len(coreResp'[p]) + Cardinality(ReadsIn(Pending'[p]))
    BY <1>1, <2>1, MovedCount
  <2>3. ASSUME NEW p \in Ports PROVE AnswersOK(p)' /\ AwaitedOK(p)'
    <3>1. AnswersOK(p)'
      BY <1>1, <2>1, MovedAnswers
    <3>2. AwaitedOK(p)'
      BY <1>1, <2>1, MovedAwaited
    <3>. QED BY <3>1, <3>2
  <2>4. CountOK'
    BY <2>2 DEF CountOK, Ports, ReadsIn
  <2>. QED BY <2>3, <2>4 DEF MatchOK, Ports
<1>2. ArrayOK
  BY DEF SeenOK
<1>3. ASSUME NEW stage, MovesGets(stage) PROVE SeenOK'
  <2>1. Moves(stage) /\ \A p \in Ports : Joins(stage, p)
    BY <1>3, GetsJoin DEF MovesGets
  <2>2. ArrayOK'
    BY <1>2, <1>3, <2>1, ClientSees, GetsArray
  <2>. QED BY <1>1, <2>1, <2>2 DEF SeenOK
<1>4. ASSUME NEW a \in Addr, NEW o \in Off, NEW d \in Data, MovesSet(a, o, d) PROVE SeenOK'
  <2>1. /\ Moves(<< >>) /\ Stored' = Stored
        /\ \A p \in Ports : /\ Joins(<< >>, p) /\ WriteOf(a, o, d) \in PortReq
                            /\ Pending'[p] = Append(Pending[p], WriteOf(a, o, d))
    BY <1>4, SetJoins, ClientSees DEF MovesSet
  <2>2. ArrayOK'
    BY <1>2, <1>4, <2>1, SetArray
  <2>. QED BY <1>1, <2>1, <2>2 DEF SeenOK
<1>5. CASE ClientStop
  BY <1>5, StopSeen
<1>. QED BY <1>3, <1>4, <1>5, ClientCases

LEMMA SeenNext ==
  ASSUME LinesOK, LinesOK', CoreOK, PortsOK, PortsOK', ClientOK, MemOK, SeenOK, [Next]_vars
  PROVE  SeenOK'
<1>1. CASE Client
  BY <1>1, ClientSeen
<1>2. CASE Core
  <2>1. UNCHANGED <<pipe, array>>
    BY <1>2, CoreFrame
  <2>2. CASE UNCHANGED Behind!vars
    BY <2>1, <2>2, SeenStays DEF Behind!vars
  <2>3. ASSUME NEW p \in Ports, Behind!ServeRead(p) \/ Behind!ServeWrite(p) \/ Behind!ServeStop(p)
        PROVE  SeenOK'
    <3>1. Served(p)
      BY <2>3, ServedIs
    <3>2. CountOK /\ MatchOK /\ ArrayOK
      BY DEF SeenOK
    <3>3. CountOK'
      BY <2>1, <3>1, <3>2, ServedCount
    <3>4. MatchOK'
      BY <2>1, <3>1, <3>2, ServedMatch
    <3>5. ArrayOK'
      BY <2>1, <3>1, <3>2, ServedArray
    <3>. QED BY <3>3, <3>4, <3>5 DEF SeenOK
  <2>. QED BY <1>2, <2>2, <2>3, CoreServes
<1>3. CASE MemIf
  <2>1. UNCHANGED <<pipe, array>>
    BY <1>3, MemIfFrame
  <2>2. UNCHANGED <<Stored, Pending, coreResp>>
    BY <1>3, MemIfServes DEF Behind!vars, Behind!Return
  <2>. QED BY <2>1, <2>2, SeenStays
<1>4. CASE UNCHANGED vars
  <2>1. UNCHANGED <<pipe, array, coreResp, mem, tag, valid, data, coreReq, core, port, req>>
    BY <1>4, StutterFrame
  <2>2. Stored' = Stored
    BY <2>1, StoredStays
  <2>3. Pending' = Pending
    BY <2>1, PendingStays
  <2>. QED BY <2>1, <2>2, <2>3, SeenStays
<1>. QED BY <1>1, <1>2, <1>3, <1>4, NextCases
-----------------------------------------------------------------------------
(* The request to stop is the last of the call: it comes when no read is   *)
(* under way, behind every write, and when it is taken nothing is left.    *)
StopOK ==
  /\ client = "running" =>
       ~Ending /\ \A p \in Ports : \A k \in 1 .. Len(coreReq[p]) : coreReq[p][k] # StopReq
  /\ client = "done" => HasReturned
  /\ client = "done" /\ ~Ending =>
       coreReq[0] # << >> /\ coreReq[0][Len(coreReq[0])] = StopReq
  /\ \A p \in Ports : \A k \in 1 .. Len(coreReq[p]) :
       coreReq[p][k] = StopReq => p = 0 /\ k = Len(coreReq[p])
  /\ Ending => \A p \in Ports : coreReq[p] = << >>

LEMMA NothingUnderWay ==
  ASSUME CoreOK, PortsOK, CountOK, NEW p \in Ports, Stages(p) = {}
  PROVE  coreResp[p] = << >> /\ \A k \in 1 .. Len(Pending[p]) : Pending[p][k].op # "READ"
<1>1. /\ Pending[p] \in Seq(PortReq) /\ Len(Pending[p]) \in Nat
      /\ coreResp[p] \in Seq(Line) /\ Len(coreResp[p]) \in Nat
  BY PendingType DEF PortsOK
<1>2. ReadsIn(Pending[p]) \in SUBSET (1 .. Len(Pending[p]))
  BY DEF ReadsIn
<1>3. Cardinality(ReadsIn(Pending[p])) \in Nat
  BY <1>1, <1>2, UpToFacts
<1>4. Cardinality(Stages(p)) = 0
  BY FS_EmptySet
<1>5. Cardinality(Stages(p)) = Len(coreResp[p]) + Cardinality(ReadsIn(Pending[p]))
  BY DEF CountOK
<1>6. Len(coreResp[p]) = 0 /\ Cardinality(ReadsIn(Pending[p])) = 0
  BY <1>1, <1>3, <1>4, <1>5
<1>7. ASSUME NEW k \in ReadsIn(Pending[p]) PROVE FALSE
  <2>1. k \in Nat
    BY <1>1, <1>2
  <2>2. UpTo(ReadsIn(Pending[p]), k) >= 1 /\ UpTo(ReadsIn(Pending[p]), k) \in Nat
        /\ UpTo(ReadsIn(Pending[p]), k) <= Cardinality(ReadsIn(Pending[p]))
    BY <1>1, <1>2, <2>1, UpToFacts, UpToMember
  <2>. QED BY <1>6, <2>2
<1>. QED BY <1>1, <1>6, <1>7 DEF ReadsIn

LEMMA ReturnedStages ==
  ASSUME ClientOK, HasReturned
  PROVE  \A p : Stages(p) = {}
<1>1. \A i \in 1 .. Latency : pipe[i] = << >>
  <2>1. DOMAIN pipe = 1 .. Latency
    BY DEF ClientOK
  <2>. QED BY <2>1 DEF HasReturned
<1>. QED BY <1>1 DEF Stages

(* run_core takes the request to stop from port 0, and nothing is left. *)
LEMMA BreakDrains ==
  ASSUME ClientOK, CoreOK, PortsOK, CountOK, StopOK, CoreBreak
  PROVE  \A p \in Ports : coreReq'[p] = << >>
<1>1. /\ coreReq[port] \in Seq(PortReq) /\ coreReq[port] # << >> /\ port \in Ports
      /\ coreReq' = [coreReq EXCEPT ![port] = Tail(coreReq[port])]
      /\ coreReq \in [Ports -> Seq(PortReq)] /\ coreReq[port][1] = StopReq
      /\ Len(coreReq[port]) >= 1 /\ core = "poll"
  BY TakenFacts, WithoutHead DEF CoreBreak, TakeRequest, CoreOK, PortsOK, Taken
<1>2. port = 0 /\ Len(coreReq[port]) = 1
  <2>1. 1 \in 1 .. Len(coreReq[port])
    BY <1>1
  <2>. QED BY <1>1, <2>1 DEF StopOK
<1>3. coreReq'[0] = << >>
  BY <1>1, <1>2, WithoutHead
<1>4. client = "done" /\ HasReturned
  BY <1>1 DEF StopOK, ClientOK
<1>5. ASSUME NEW p \in Ports, p # 0 PROVE coreReq[p] = << >>
  <2>1. \A k \in 1 .. Len(coreReq[p]) : coreReq[p][k].op # "READ"
    <3>1. Pending[p] = coreReq[p]
      BY <1>1, PendingType DEF Serving
    <3>. QED BY <1>4, <3>1, ReturnedStages, NothingUnderWay
  <2>2. ~WrEnabled
    <3>1. NPorts # 1
      BY <1>5 DEF Ports
    <3>. QED BY <3>1, DataflowAssumption
  <2>3. \A r \in PortReq : r.op = "READ" \/ r = StopReq
    BY <2>2, StopFacts DEF PortReq, ReadReq, WriteReq
  <2>4. coreReq[p] \in Seq(PortReq)
    BY DEF PortsOK
  <2>5. \A k \in 1 .. Len(coreReq[p]) : coreReq[p][k] # StopReq
    BY <1>5 DEF StopOK
  <2>6. coreReq[p] # << >> => 1 \in 1 .. Len(coreReq[p]) /\ coreReq[p][1] \in PortReq
    BY <2>4, WithoutHead
  <2>. QED BY <2>1, <2>3, <2>5, <2>6
<1>. QED BY <1>1, <1>2, <1>3, <1>5

LEMMA TakenStop ==
  ASSUME CoreOK, PortsOK, StopOK, CoreHit \/ CoreMiss
  PROVE  StopOK'
<1>1. /\ coreReq[port] \in Seq(PortReq) /\ coreReq[port] # << >> /\ port \in Ports
      /\ coreReq' = [coreReq EXCEPT ![port] = Tail(coreReq[port])]
      /\ coreReq \in [Ports -> Seq(PortReq)] /\ coreReq[port][1] # StopReq
      /\ Len(coreReq[port]) \in Nat
  <2>1. TakeRequest /\ Taken # StopReq
    BY DEF CoreHit, CoreMiss
  <2>. QED BY <2>1, TakenFacts, WithoutHead DEF CoreOK, PortsOK, Taken
<1>2. /\ Len(Tail(coreReq[port])) = Len(coreReq[port]) - 1 /\ Len(coreReq[port]) >= 1
      /\ \A k \in 1 .. Len(coreReq[port]) - 1 : Tail(coreReq[port])[k] = coreReq[port][k + 1]
  BY <1>1, WithoutHead
<1>3. ~Ending /\ ~Ending' /\ UNCHANGED <<client, pipe>>
  BY CoreFrame DEF CoreHit, CoreMiss, TakeRequest, Ending, clientVars
<1>4. ASSUME NEW p \in Ports, NEW k \in 1 .. Len(coreReq'[p])
      PROVE  \E l \in 1 .. Len(coreReq[p]) :
               coreReq'[p][k] = coreReq[p][l] /\ (l = Len(coreReq[p]) => k = Len(coreReq'[p]))
  <2>1. CASE p = port
    <3>1. /\ k \in 1 .. Len(coreReq[port]) - 1 /\ coreReq'[p][k] = coreReq[port][k + 1]
          /\ Len(coreReq'[p]) = Len(coreReq[port]) - 1 /\ k + 1 \in 1 .. Len(coreReq[port])
      BY <1>1, <1>2, <1>4, <2>1
    <3>. QED BY <2>1, <3>1
  <2>2. CASE p # port
    BY <1>1, <2>2
  <2>. QED BY <2>1, <2>2
<1>5. ASSUME client = "done"
      PROVE  coreReq'[0] # << >> /\ coreReq'[0][Len(coreReq'[0])] = StopReq
  <2>1. coreReq[0] # << >> /\ coreReq[0][Len(coreReq[0])] = StopReq
    BY <1>3, <1>5 DEF StopOK
  <2>2. CASE port = 0
    <3>1. Len(coreReq[0]) # 1
      BY <1>1, <2>1, <2>2
    <3>2. /\ coreReq'[0] = Tail(coreReq[0]) /\ Len(coreReq'[0]) = Len(coreReq[0]) - 1
          /\ Len(coreReq[0]) - 1 \in 1 .. Len(coreReq[0]) - 1
          /\ (Len(coreReq[0]) - 1) + 1 = Len(coreReq[0])
      BY <1>1, <1>2, <2>2, <3>1
    <3>3. Tail(coreReq[0])[Len(coreReq[0]) - 1] = coreReq[0][Len(coreReq[0])]
      BY <1>2, <2>2, <3>2
    <3>4. coreReq'[0] # << >>
      <4>1. PICK m : m = Len(coreReq[0]) - 1
        OBVIOUS
      <4>2. m \in Nat /\ m >= 1 /\ Len(coreReq'[0]) = m
        BY <1>1, <1>2, <2>2, <3>2, <4>1
      <4>3. Len(<< >>) = 0
        OBVIOUS
      <4>. QED BY <4>2, <4>3
    <3>. QED BY <2>1, <3>2, <3>3, <3>4
  <2>3. CASE port # 0
    BY <1>1, <2>1, <2>3
  <2>. QED BY <2>2, <2>3
<1>6. client = "done" => HasReturned'
  BY <1>3 DEF StopOK, HasReturned
<1>7. ASSUME NEW p \in Ports, NEW k \in 1 .. Len(coreReq'[p])
      PROVE  /\ client = "running" => coreReq'[p][k] # StopReq
             /\ coreReq'[p][k] = StopReq => p = 0 /\ k = Len(coreReq'[p])
  <2>1. PICK l \in 1 .. Len(coreReq[p]) :
          coreReq'[p][k] = coreReq[p][l] /\ (l = Len(coreReq[p]) => k = Len(coreReq'[p]))
    BY <1>4
  <2>. QED BY <2>1 DEF StopOK
<1>. QED BY <1>3, <1>5, <1>6, <1>7 DEF StopOK, Ports, StopReq

LEMMA JoinedStop ==
  ASSUME CoreOK, PortsOK, ClientOK, StopOK, NEW stage, Moves(stage), UNCHANGED core,
         \A p \in Ports : \/ coreReq'[p] = coreReq[p]
                          \/ \E r \in ReadReq \cup WriteReq : coreReq'[p] = Append(coreReq[p], r)
  PROVE  StopOK'
<1>1. client = "running" /\ client' = "running" /\ (Ending' <=> Ending)
  BY DEF Moves, Ending
<1>2. \A p \in Ports : \A k \in 1 .. Len(coreReq[p]) : coreReq[p][k] # StopReq /\ ~Ending
  BY <1>1 DEF StopOK
<1>3. \A p \in Ports : coreReq[p] \in Seq(PortReq)
  BY DEF PortsOK
<1>4. ASSUME NEW p \in Ports, NEW k \in 1 .. Len(coreReq'[p])
      PROVE  coreReq'[p][k] # StopReq
  <2>1. CASE coreReq'[p] = coreReq[p]
    BY <1>2, <2>1
  <2>2. ASSUME NEW r \in ReadReq \cup WriteReq, coreReq'[p] = Append(coreReq[p], r)
        PROVE  coreReq'[p][k] # StopReq
    <3>1. r \in PortReq /\ r # StopReq /\ Len(coreReq[p]) \in Nat
      BY <1>3, RequestFacts DEF PortReq
    <3>2. /\ coreReq'[p][Len(coreReq[p]) + 1] = r /\ Len(coreReq'[p]) = Len(coreReq[p]) + 1
          /\ \A l \in 1 .. Len(coreReq[p]) : coreReq'[p][l] = coreReq[p][l]
      BY <1>3, <2>2, <3>1, AtTheEnd
    <3>3. k \in 1 .. Len(coreReq[p]) \/ k = Len(coreReq[p]) + 1
      BY <3>1, <3>2
    <3>. QED BY <1>2, <3>1, <3>2, <3>3
  <2>. QED BY <2>1, <2>2
<1>. QED BY <1>1, <1>4 DEF StopOK, Ports, StopReq

LEMMA ClientStopsLast ==
  ASSUME LinesOK, CoreOK, PortsOK, PortsOK', ClientOK, StopOK, Client
  PROVE  StopOK'
<1>1. UNCHANGED core
  BY ClientSees
<1>2. ASSUME NEW stage, MovesGets(stage) PROVE StopOK'
  <2>1. ASSUME NEW p \in Ports
        PROVE  \/ coreReq'[p] = coreReq[p]
               \/ \E r \in ReadReq \cup WriteReq : coreReq'[p] = Append(coreReq[p], r)
    BY <1>2 DEF MovesGets
  <2>. QED BY <1>1, <1>2, <2>1, JoinedStop DEF MovesGets
<1>3. ASSUME NEW a \in Addr, NEW o \in Off, NEW d \in Data, MovesSet(a, o, d) PROVE StopOK'
  <2>1. ASSUME NEW p \in Ports
        PROVE  \E r \in ReadReq \cup WriteReq : coreReq'[p] = Append(coreReq[p], r)
    BY <1>3 DEF MovesSet, PortsOK
  <2>. QED BY <1>1, <1>3, <2>1, JoinedStop DEF MovesSet
<1>4. CASE ClientStop
  <2>1. /\ coreReq' = [coreReq EXCEPT ![0] = Append(coreReq[0], StopReq)]
        /\ client = "running" /\ client' = "done" /\ HasReturned /\ pipe' = pipe /\ 0 \in Ports
    BY <1>4, StopMoves
  <2>2. StopReq \in PortReq /\ coreReq[0] \in Seq(PortReq) /\ coreReq \in [Ports -> Seq(PortReq)]
    BY <2>1 DEF PortReq, PortsOK
  <2>3. /\ Len(coreReq'[0]) = Len(coreReq[0]) + 1 /\ Len(coreReq[0]) \in Nat
        /\ coreReq'[0][Len(coreReq[0]) + 1] = StopReq
        /\ \A k \in 1 .. Len(coreReq[0]) : coreReq'[0][k] = coreReq[0][k]
        /\ \A p \in Ports : p # 0 => coreReq'[p] = coreReq[p]
    BY <2>1, <2>2, AtTheEnd
  <2>4. ~Ending /\ ~Ending'
    BY <1>1, <2>1 DEF StopOK, Ending
  <2>5. \A p \in Ports : \A k \in 1 .. Len(coreReq[p]) : coreReq[p][k] # StopReq
    BY <2>1 DEF StopOK
  <2>6. ASSUME NEW p \in Ports, NEW k \in 1 .. Len(coreReq'[p]), coreReq'[p][k] = StopReq
        PROVE  p = 0 /\ k = Len(coreReq'[p])
    <3>1. CASE p = 0
      <4>1. k \in 1 .. Len(coreReq[0]) \/ k = Len(coreReq[0]) + 1
        BY <2>3, <3>1
      <4>. QED BY <2>1, <2>3, <2>5, <2>6, <3>1, <4>1
    <3>2. CASE p # 0
      BY <2>3, <2>5, <2>6, <3>2
    <3>. QED BY <3>1, <3>2
  <2>7. HasReturned' /\ coreReq'[0] # << >>
    BY <2>1, <2>3 DEF HasReturned
  <2>. QED BY <2>1, <2>3, <2>4, <2>6, <2>7 DEF StopOK, Ports, StopReq
<1>. QED BY <1>2, <1>3, <1>4, ClientCases

LEMMA StopStays ==
  ASSUME StopOK, UNCHANGED <<client, pipe, coreReq>>, Ending' <=> Ending
  PROVE  StopOK'
BY DEF StopOK, HasReturned, Ports, StopReq

LEMMA StopNext ==
  ASSUME LinesOK, CoreOK, PortsOK, PortsOK', ClientOK, SeenOK, StopOK, [Next]_vars
  PROVE  StopOK'
<1>1. CASE Client
  BY <1>1, ClientStopsLast
<1>2. CASE Core
  <2>1. UNCHANGED <<client, pipe>>
    BY <1>2, CoreFrame
  <2>2. CASE CoreBreak
    <3>1. \A p \in Ports : coreReq'[p] = << >>
      BY <2>2, BreakDrains DEF SeenOK
    <3>2. Ending' /\ client = "done" /\ HasReturned'
      <4>1. Ending'
        BY <2>2 DEF CoreBreak, Ending
      <4>2. coreReq[port] # << >> /\ coreReq[port][1] = StopReq /\ port \in Ports
            /\ 1 \in 1 .. Len(coreReq[port])
        <5>1. coreReq[port] \in Seq(PortReq) /\ coreReq[port] # << >> /\ port \in Ports
          BY <2>2, TakenFacts DEF CoreBreak, CoreOK
        <5>2. Taken = coreReq[port][1] /\ Len(coreReq[port]) >= 1 /\ Taken = StopReq
          BY <2>2, <5>1, WithoutHead DEF CoreBreak, Taken
        <5>. QED BY <5>1, <5>2
      <4>3. client = "done"
        BY <4>2 DEF StopOK, ClientOK
      <4>. QED BY <2>1, <4>1, <4>3 DEF StopOK, HasReturned
    <3>. QED BY <2>1, <3>1, <3>2 DEF StopOK, Ports, StopReq
  <2>3. CASE CoreHit \/ CoreMiss
    BY <2>3, TakenStop
  <2>4. CASE CorePoll \/ CoreSendReq \/ CoreSendSt \/ CoreFill \/ CoreRespond
    BY <2>1, <2>4, StopStays
       DEF CorePoll, CoreSendReq, CoreSendSt, CoreFill, CoreRespond, portQueues, Ending
  <2>5. CASE CoreFlushClean \/ CoreFlushReq \/ CoreFlushSt \/ CoreStopMem
    BY <2>1, <2>5, StopStays
       DEF CoreFlushClean, CoreFlushReq, CoreFlushSt, CoreStopMem, FlushNext, portQueues, Ending
  <2>. QED BY <1>2, <2>2, <2>3, <2>4, <2>5 DEF Core
<1>3. CASE MemIf
  BY <1>3, MemIfFrame, StopStays DEF Ending
<1>4. CASE UNCHANGED vars
  BY <1>4, StutterFrame, StopStays DEF Ending
<1>. QED BY <1>1, <1>2, <1>3, <1>4, NextCases
-----------------------------------------------------------------------------
Inv == /\ LinesOK /\ CoreOK /\ ClientOK /\ PortsOK
       /\ MemOK /\ SeenOK /\ StopOK

LEMMA InitSeen ==
  ASSUME Init
  PROVE  /\ Pending = [p \in Ports |-> << >>] /\ \A p : Stages(p) = {}
         /\ Stored = mem
<1>1. core = "poll" /\ coreReq = [p \in Ports |-> << >>]
  BY DEF Init
<1>2. \A p \in Ports : ~(Serving /\ p = port) => Pending[p] = coreReq[p]
  BY DEF Pending
<1>3. \A p \in Ports : Pending[p] = << >>
  BY <1>1, <1>2 DEF Serving
<1>4. Pending = [p \in Ports |-> Pending[p]] /\ Stored = [a \in Addr |-> Stored[a]]
  BY SeenAsFunctions
<1>5. \A p : Stages(p) = {}
  BY DEF Init, Stages
<1>6. \A a \in Addr : Stored[a] = mem[a]
  <2>1. ASSUME NEW a \in Addr PROVE ~IsHit(a[1], a[2])
    BY DEF Init, LinesInit, IsHit, HitWays, Slot, Addr
  <2>. QED BY <2>1 DEF Stored
<1>7. mem \in [Addr -> Line]
  BY DEF Init, LinesInit
<1>8. \A e : (\A p \in Ports : e[p] = << >>) /\ e = [p \in Ports |-> e[p]]
               => e = [p \in Ports |-> << >>]
  OBVIOUS
<1>9. \A e : (\A a \in Addr : e[a] = mem[a]) /\ e = [a \in Addr |-> e[a]] => e = mem
  BY <1>7
<1> HIDE DEF Pending, Stored
<1>. QED BY <1>3, <1>4, <1>5, <1>6, <1>8, <1>9

LEMMA InitHolds == Init => Inv
<1> SUFFICES ASSUME Init PROVE Inv
  OBVIOUS
<1>1. /\ core = "poll" /\ port = 0 /\ way = 0 /\ fset = 0 /\ fway = 0
      /\ client = "running" /\ memIf = "req" /\ iter = 0 /\ nextPort = 0 /\ array = mem
      /\ memReq = << >> /\ memSt = << >> /\ memResp = << >>
      /\ pipe = [i \in 1 .. Latency |-> << >>]
      /\ coreReq = [p \in Ports |-> << >>] /\ coreResp = [p \in Ports |-> << >>]
      /\ valid = [slot \in Slot |-> FALSE] /\ mem \in [Addr -> Line]
  BY DEF Init, LinesInit
<1>2. /\ Pending = [p \in Ports |-> << >>] /\ \A p : Stages(p) = {}
      /\ Stored = mem
  BY InitSeen
<1>3. /\ 0 \in Ports /\ 0 \in Ways /\ 0 \in Set /\ Latency \in Nat /\ CoreDepth \in Nat
      /\ MaxIter \in Nat
  BY PortsRotate, RoomFacts, WaysFacts, CacheAssumption, DataflowAssumption DEF Set
<1>4. LinesOK
  <2>1. LinesTypeOK
    BY InitialOrderIsOrder, WaysFacts, <1>3 DEF Init, LinesInit, LinesTypeOK, IsOrder
  <2>2. LruHoldsEveryWay
    BY InitialOrderIsOrder DEF Init, LinesInit, LruHoldsEveryWay
  <2>3. \A x \in Slot : ~valid[x]
    BY <1>1
  <2>. QED BY <2>1, <2>2, <2>3 DEF LinesOK, UniqueTags, Slot
<1>5. CoreOK
  BY <1>1, <1>3 DEF CoreOK, Serving, Fetching, Ending
<1>6. ClientOK
  <2>1. pipe \in Seq(Seq(PipeRead)) /\ Len(pipe) = Latency
    BY <1>1, <1>3
  <2>2. \A i \in 1 .. Latency : DOMAIN pipe[i] = {}
    BY <1>1
  <2>. QED BY <1>1, <1>3, <2>1, <2>2 DEF ClientOK
<1>7. PortsOK
  BY <1>1, <1>3 DEF PortsOK
<1>8. MemOK
  <2>1. FetchOK
    BY <1>1 DEF FetchOK
  <2>2. StoresOK /\ FlushedOK /\ CleanOK
    BY <1>1 DEF StoresOK, FlushedOK, CleanOK, Ending, Slot
  <2>. QED BY <2>1, <2>2 DEF MemOK
<1>9. SeenOK
  <2>1. \A p \in Ports : Pending[p] = << >> /\ ReadsIn(Pending[p]) = {}
    BY <1>2 DEF ReadsIn
  <2>2. CountOK
    <3>1. Cardinality({}) = 0 /\ Len(<< >>) = 0
      BY FS_EmptySet
    <3>2. \A p \in Ports : coreResp[p] = << >>
      BY <1>1
    <3> HIDE DEF Pending, ReadsIn
    <3>3. \A p \in Ports : Cardinality(Stages(p)) = Len(coreResp[p]) + Cardinality(ReadsIn(Pending[p]))
      <4> SUFFICES ASSUME NEW p \in Ports
                   PROVE  Cardinality(Stages(p)) = Len(coreResp[p]) + Cardinality(ReadsIn(Pending[p]))
        OBVIOUS
      <4>1. Stages(p) = {} /\ coreResp[p] = << >> /\ ReadsIn(Pending[p]) = {}
        BY <1>2, <2>1, <3>2
      <4>. QED BY <3>1, <4>1
    <3>. QED BY <3>3 DEF CountOK
  <2>3. MatchOK
    <3> SUFFICES ASSUME NEW p \in Ports PROVE AnswersOK(p) /\ AwaitedOK(p)
      BY DEF MatchOK
    <3>1. AwaitedOK(p)
      BY <2>1 DEF AwaitedOK
    <3>2. Len(coreResp[p]) = 0
      BY <1>1
    <3>. QED BY <3>1, <3>2 DEF AnswersOK
  <2>4. ArrayOK
    <3>1. \A p \in Ports : Len(Pending[p]) = 0
      BY <2>1
    <3>. QED BY <1>1, <1>2, <3>1 DEF ArrayOK, IsWordAfter
  <2>. QED BY <2>2, <2>3, <2>4 DEF SeenOK
<1>10. StopOK
  BY <1>1 DEF StopOK, Ending
<1>. QED BY <1>4, <1>5, <1>6, <1>7, <1>8, <1>9, <1>10 DEF Inv

LEMMA InvNext == Inv /\ [Next]_vars => Inv'
<1> SUFFICES ASSUME Inv, [Next]_vars PROVE Inv'
  OBVIOUS
<1>1. LinesOK /\ CoreOK /\ ClientOK /\ PortsOK /\ MemOK /\ SeenOK /\ StopOK
      /\ FetchOK /\ StoresOK
  BY DEF Inv, MemOK
<1>2. LinesOK'
  BY <1>1, LinesNext
<1>3. CoreOK'
  BY <1>1, CoreNext
<1>4. ClientOK'
  BY <1>1, ClientNext
<1>5. PortsOK'
  BY <1>1, PortsNext
<1>6. MemOK'
  BY <1>1, MemNext
<1>7. SeenOK'
  BY <1>1, <1>2, <1>5, SeenNext
<1>8. StopOK'
  BY <1>1, <1>5, StopNext
<1>. QED BY <1>2, <1>3, <1>4, <1>5, <1>6, <1>7, <1>8 DEF Inv

(* The three processes, the FIFOs between them and the lines of the cache  *)
(* keep in step in every reachable state.                                  *)
THEOREM DataflowInvariant == Spec => []Inv
BY InitHolds, InvNext, PTL DEF Spec
-----------------------------------------------------------------------------
(* No FIFO is ever filled beyond its depth, run_core polls a port that     *)
(* exists and flush stays inside the cache.                                *)
THEOREM TypesHold == Spec => []TypeOK
<1>1. Inv => TypeOK
  <2> SUFFICES ASSUME Inv PROVE TypeOK
    OBVIOUS
  <2>1. LinesOK /\ CoreOK /\ ClientOK /\ PortsOK /\ FetchOK /\ StoresOK
    BY DEF Inv, MemOK
  <2>2. /\ Len(memReq) <= MemDepth /\ Len(memSt) <= MemDepth /\ Len(memResp) <= MemDepth
        /\ memIf \in {"req", "st", "load", "resp", "done"}
    <3>0. Len(<< >>) = 0 /\ MemDepth = 2 /\ \A x : Len(<<x>>) = 1
      BY DEF MemDepth
    <3>1. CASE Ending
      BY <2>1, <3>0, <3>1 DEF StoresOK
    <3>2. CASE core \in {"poll", "respond", "sendReq"}
      BY <2>1, <3>0, <3>2 DEF FetchOK
    <3>3. CASE core = "sendSt"
      BY <2>1, <3>0, <3>3 DEF FetchOK
    <3>4. CASE core = "await"
      <4>1. /\ memReq = << >> \/ memReq = <<Asked>>
            /\ memSt = << >> \/ memSt = <<CopyOf(ReqSlot)>>
            /\ memResp = << >> \/ memResp = <<mem[req.a]>>
            /\ memIf \in {"req", "st", "load", "resp", "done"}
        BY <2>1, <3>4 DEF FetchOK
      <4>2. /\ Len(<<Asked>>) = 1 /\ Len(<<CopyOf(ReqSlot)>>) = 1
            /\ Len(<<mem[req.a]>>) = 1
        BY <3>0
      <4>3. /\ Len(memReq) <= MemDepth /\ Len(memSt) <= MemDepth
            /\ Len(memResp) <= MemDepth
        <5>1. MemDepth = 2 /\ \A x : x = 0 \/ x = 1 => x <= 2
          BY <3>0
        <5>2. /\ Len(memReq) \in {0, 1} /\ Len(memSt) \in {0, 1}
              /\ Len(memResp) \in {0, 1}
          BY <3>0, <4>1, <4>2
        <5>. QED BY <5>1, <5>2
      <4>. QED BY <4>1, <4>3
    <3>. QED BY <2>1, <3>1, <3>2, <3>3, <3>4 DEF CoreOK, Ending
  <2>. QED BY <2>1, <2>2 DEF TypeOK, LinesOK, CoreOK, ClientOK, PortsOK
<1>. QED BY <1>1, DataflowInvariant, PTL

(* Every answer that waits on a port is the one its read expects: the word *)
(* as the last set before it in program order left it.                     *)
THEOREM AnswersMatch == Spec => []ResponsesMatchReads
<1>1. Inv => ResponsesMatchReads
  <2> SUFFICES ASSUME Inv, NEW p \in Ports, NEW n \in DOMAIN coreResp[p]
               PROVE  \E i \in Stages(p) :
                        /\ Rank(p, i) = n
                        /\ \A k \in DOMAIN pipe[i] : pipe[i][k].port = p =>
                             coreResp[p][n][pipe[i][k].off] = pipe[i][k].want
    BY DEF ResponsesMatchReads
  <2>1. AnswersOK(p) /\ coreResp[p] \in Seq(Line)
    BY DEF Inv, SeenOK, MatchOK, PortsOK
  <2>2. n \in 1 .. Len(coreResp[p])
    BY <2>1
  <2>. QED BY <2>1, <2>2 DEF AnswersOK, Answers
<1>. QED BY <1>1, DataflowInvariant, PTL

(* When all three processes have ended, flush has brought every set to     *)
(* main memory and the call leaves nothing in a FIFO for the next one.     *)
THEOREM DrainsAtTheEnd == Spec => []DrainedAtTheEnd
<1>1. Inv => DrainedAtTheEnd
  <2> SUFFICES ASSUME Inv, AllDone
               PROVE  /\ mem = array
                      /\ \A p \in Ports : coreReq[p] = << >> /\ coreResp[p] = << >>
                      /\ memReq = << >> /\ memSt = << >> /\ memResp = << >>
    BY DEF DrainedAtTheEnd
  <2>1. LinesOK /\ CoreOK /\ ClientOK /\ PortsOK /\ StoresOK /\ CleanOK /\ FlushedOK
        /\ CountOK /\ ArrayOK /\ StopOK
    BY DEF Inv, MemOK, SeenOK
  <2>2. client = "done" /\ core = "done" /\ memIf = "done" /\ Ending /\ ~Serving
    BY DEF AllDone, Ending, Serving
  <2>3. memReq = << >> /\ memSt = << >> /\ memResp = << >>
    <3>1. memReq = << >> /\ memResp = << >> /\ memSt \in Seq([a : Addr, line : Line])
      BY <2>1, <2>2 DEF StoresOK
    <3>2. Len(memReq) + One(memIf = "st")
            = Len(memSt) + One(core = "flushSt") + One(core = "done" /\ memIf # "done")
      BY <2>1, <2>2 DEF StoresOK
    <3>3. Len(memSt) = 0
      BY <2>2, <3>1, <3>2 DEF One
    <3>. QED BY <3>1, <3>3
  <2>4. \A p \in Ports : coreReq[p] = << >> /\ coreResp[p] = << >> /\ Pending[p] = << >>
    <3>1. \A p \in Ports : coreReq[p] = << >> /\ Stages(p) = {}
      BY <2>1, <2>2, ReturnedStages DEF StopOK
    <3>2. \A p \in Ports : Pending[p] = coreReq[p]
      BY <2>1, <2>2, PendingType
    <3>. QED BY <2>1, <3>1, <3>2, NothingUnderWay
  <2>5. mem = Stored
    BY <2>1, <2>2, <2>3, FlushedArray
  <2>6. \A a \in Addr, o \in Off : Stored[a][o] = array[a][o]
    <3>1. 0 \in Ports /\ Len(Pending[0]) = 0
      BY <2>4, PortsRotate
    <3>. QED BY <2>1, <3>1 DEF ArrayOK, IsWordAfter
  <2>7. mem \in [Addr -> Line] /\ array \in [Addr -> Line]
    BY <2>1 DEF LinesOK, LinesTypeOK, ClientOK
  <2>8. \A a \in Addr, o \in Off : mem[a][o] = array[a][o]
    BY <2>5, <2>6
  <2>9. mem = array
    BY <2>7, <2>8 DEF Line
  <2>. QED BY <2>3, <2>4, <2>9
<1>. QED BY <1>1, DataflowInvariant, PTL

(* run_core finds room for the answer it has: a port has no more reads     *)
(* under way than the pipeline has stages, and the one served is not yet   *)
(* answered.                                                               *)
LEMMA RoomToRespond ==
  ASSUME CoreOK, PortsOK, CountOK, core = "respond"
  PROVE  HasRoom(coreResp[port], CoreDepth)
<1>1. /\ port \in Ports /\ Pending[port] \in Seq(PortReq) /\ Pending[port] # << >>
      /\ Head(Pending[port]) = req /\ req.op = "READ"
      /\ coreResp[port] \in Seq(Line) /\ Len(coreResp[port]) \in Nat
  <2>1. port \in Ports /\ Serving /\ req \in ReadReq
    BY DEF CoreOK, Serving
  <2>. QED BY <2>1, PendingType DEF PortsOK, ReadReq
<1>2. 1 \in ReadsIn(Pending[port])
  BY <1>1, ReadsTail
<1>3. ReadsIn(Pending[port]) \in SUBSET (1 .. Len(Pending[port])) /\ Len(Pending[port]) \in Nat
  BY <1>1, ReadsTail
<1>4. Cardinality(ReadsIn(Pending[port])) \in Nat /\ Cardinality(ReadsIn(Pending[port])) >= 1
  <2>1. UpTo(ReadsIn(Pending[port]), 1) >= 1
    BY <1>2, <1>3, UpToMember
  <2>2. /\ UpTo(ReadsIn(Pending[port]), 1) \in Nat
        /\ UpTo(ReadsIn(Pending[port]), 1) <= Cardinality(ReadsIn(Pending[port]))
        /\ Cardinality(ReadsIn(Pending[port])) \in Nat
    BY <1>3, UpToFacts
  <2>. QED BY <2>1, <2>2
<1>5. Stages(port) \in SUBSET (1 .. Latency) /\ Latency \in Nat
      /\ Cardinality(Stages(port)) \in Nat
  BY StagesFacts
<1>6. Cardinality(Stages(port)) <= Latency
  BY <1>5, UpToFacts
<1>7. Cardinality(Stages(port)) = Len(coreResp[port]) + Cardinality(ReadsIn(Pending[port]))
  BY <1>1 DEF CountOK
<1>8. CoreDepth \in Nat /\ CoreDepth >= Latency
  BY RoomFacts
<1>. QED BY <1>1, <1>4, <1>5, <1>6, <1>7, <1>8 DEF HasRoom

(* run_core polling ports that are all empty is not what the client waits  *)
(* for: a read in the last stage has its answer.                           *)
LEMMA PolledInVain ==
  ASSUME CoreOK, PortsOK, ClientOK, CountOK, StopOK, core = "poll",
         \A p \in Ports : coreReq[p] = << >>
  PROVE  ~ClientWaits
<1>1. \A p \in Ports : Pending[p] = << >>
  BY PendingType DEF Serving
<1>2. ~Ending /\ 0 \in Ports
  BY PortsRotate DEF Ending
<1>3. client # "done"
  BY <1>2 DEF StopOK
<1>4. \A p \in Ports : HasRoom(coreReq[p], CoreDepth)
  <2>1. Len(<< >>) < CoreDepth
    BY RoomFacts
  <2>. QED BY <2>1 DEF HasRoom
<1>5. ASSUME NEW i \in DOMAIN pipe[1], coreResp[pipe[1][i].port] = << >>
      PROVE  FALSE
  <2>1. PICK p : p = pipe[1][i].port
    OBVIOUS
  <2>2. 1 \in 1 .. Latency
    BY RoomFacts
  <2>3. p \in Ports
    <3>1. pipe[1] \in Seq(PipeRead)
      BY <2>2 DEF ClientOK
    <3>2. pipe[1][i] \in PipeRead
      BY <3>1
    <3>. QED BY <2>1, <3>2 DEF PipeRead
  <2>4. 1 \in Stages(p)
    BY <2>1, <2>2 DEF Stages
  <2>5. ReadsIn(Pending[p]) = {}
    BY <1>1, <2>3 DEF ReadsIn
  <2>6. Cardinality(Stages(p)) = 0
    <3>1. Cardinality(ReadsIn(Pending[p])) = 0
      BY <2>5, FS_EmptySet
    <3>2. Len(coreResp[p]) = 0
      BY <1>5, <2>1
    <3>. QED BY <2>3, <3>1, <3>2 DEF CountOK
  <2>7. Stages(p) \in SUBSET (1 .. Latency) /\ Latency \in Nat
    BY StagesFacts
  <2>8. UpTo(Stages(p), 1) >= 1 /\ UpTo(Stages(p), 1) <= Cardinality(Stages(p))
        /\ UpTo(Stages(p), 1) \in Nat
    BY <2>4, <2>7, UpToFacts, UpToMember
  <2>. QED BY <2>6, <2>8
<1>. QED BY <1>3, <1>4, <1>5 DEF ClientWaits

(* The FIFOs as they are declared are deep enough: the processes of the    *)
(* dataflow region never all wait for each other.                          *)
THEOREM NeverAllWait == Spec => []NoCircularWait
<1>1. Inv => NoCircularWait
  <2> SUFFICES ASSUME Inv, ClientWaits, CoreWaits, MemIfWaits PROVE AllDone
    BY DEF NoCircularWait
  <2>1. CoreOK /\ ClientOK /\ PortsOK /\ FetchOK /\ StoresOK /\ CountOK /\ StopOK
    BY DEF Inv, MemOK, SeenOK
  <2>2. Len(<< >>) = 0 /\ MemDepth = 2
    BY DEF MemDepth
  <2>3. CASE Ending
    <3>1. /\ memReq \in Seq({FlushReq, StopReq}) /\ memSt \in Seq([a : Addr, line : Line])
          /\ memIf \in {"req", "st", "done"} /\ Len(memReq) <= 2 /\ Len(memSt) <= 2
          /\ memIf = "done" => core = "done" /\ memReq = << >>
          /\ core = "done" /\ memIf # "done" => memReq # << >>
          /\ Len(memReq) + One(memIf = "st")
               = Len(memSt) + One(core = "flushSt") + One(core = "done" /\ memIf # "done")
      BY <2>1, <2>2, <2>3 DEF StoresOK
    <3>2. Len(memReq) \in Nat /\ Len(memSt) \in Nat
      BY <3>1
    <3>3. client = "done"
      BY <2>1, <2>3 DEF StopOK, ClientOK
    <3>4. CASE memIf = "done"
      BY <3>1, <3>3, <3>4 DEF AllDone
    <3>5. CASE memIf = "req"
      <4>1. memReq = << >> /\ Len(memReq) = 0
        BY <2>2, <3>5 DEF MemIfWaits
      <4>2. core # "done"
        BY <3>1, <3>5, <4>1
      <4>3. Len(memSt) = 0
        BY <3>1, <3>2, <3>5, <4>1, <4>2 DEF One
      <4>4. HasRoom(memReq, MemDepth) /\ HasRoom(memSt, MemDepth)
        BY <2>2, <4>1, <4>3 DEF HasRoom
      <4>. QED BY <2>3, <4>2, <4>4 DEF CoreWaits, Ending
    <3>6. CASE memIf = "st"
      <4>1. memSt = << >> /\ Len(memSt) = 0
        BY <2>2, <3>6 DEF MemIfWaits
      <4>2. Len(memReq) + 1 = One(core = "flushSt") + One(core = "done")
        BY <3>1, <3>2, <3>6, <4>1 DEF One
      <4>3. core \in {"flushSt", "done"} /\ Len(memReq) = 0
        BY <3>2, <4>2 DEF One
      <4>4. core = "flushSt"
        BY <3>1, <3>6, <4>3
      <4>5. HasRoom(memSt, MemDepth)
        BY <2>2, <4>1 DEF HasRoom
      <4>. QED BY <4>4, <4>5 DEF CoreWaits
    <3>. QED BY <3>1, <3>4, <3>5, <3>6
  <2>4. CASE core = "poll"
    BY <2>1, <2>4, PolledInVain DEF CoreWaits
  <2>5. CASE core = "respond"
    BY <2>1, <2>5, RoomToRespond DEF CoreWaits
  <2>6. CASE core = "sendReq"
    BY <2>1, <2>2, <2>6 DEF CoreWaits, FetchOK, HasRoom
  <2>7. CASE core = "sendSt"
    BY <2>1, <2>2, <2>7 DEF CoreWaits, FetchOK, HasRoom
  <2>8. CASE core = "await"
    <3>1. memResp = << >> /\ HasRoom(memResp, MemDepth)
      BY <2>2, <2>8 DEF CoreWaits, HasRoom
    <3>2. \A x : <<x>> # << >>
      OBVIOUS
    <3>3. \/ memIf = "req" /\ memReq # << >>
          \/ memIf = "st" /\ memSt # << >>
          \/ memIf = "load" \/ memIf = "resp"
      BY <2>1, <2>8, <3>1, <3>2 DEF FetchOK
    <3>. QED BY <3>1, <3>3 DEF MemIfWaits
  <2>. QED BY <2>1, <2>3, <2>4, <2>5, <2>6, <2>7, <2>8 DEF CoreOK, Ending
<1>. QED BY <1>1, DataflowInvariant, PTL
-----------------------------------------------------------------------------
LEMMA BehindInit == Init => Behind!Init
<1> SUFFICES ASSUME Init PROVE Behind!Init
  OBVIOUS
<1>1. LinesOK
  BY InitHolds DEF Inv
<1>2. Stored \in [Addr -> [Off -> Data]]
  BY <1>1, StoredType DEF Line
<1>3. Pending = [p \in Ports |-> << >>] /\ coreResp = [p \in Ports |-> << >>]
  BY InitSeen DEF Init
<1>4. core = "poll" /\ memIf = "req"
  BY DEF Init
<1>. QED BY <1>2, <1>3, <1>4 DEF Behind!Init

LEMMA BehindNext == Inv /\ Inv' /\ [Next]_vars => [Behind!Next]_(Behind!vars)
<1> SUFFICES ASSUME Inv, Inv', [Next]_vars PROVE [Behind!Next]_(Behind!vars)
  OBVIOUS
<1>1. /\ LinesOK /\ CoreOK /\ ClientOK /\ PortsOK /\ MemOK
      /\ LinesOK' /\ PortsOK'
  BY DEF Inv
<1>2. CASE Client
  BY <1>1, <1>2, ClientServes DEF Behind!Next
<1>3. CASE Core
  BY <1>1, <1>3, CoreServes DEF Behind!Next
<1>4. CASE MemIf
  BY <1>1, <1>4, MemIfServes DEF Behind!Next
<1>5. CASE UNCHANGED vars
  <2>1. UNCHANGED <<coreResp, mem, tag, valid, data, coreReq, core, port, req, memIf>>
    BY <1>5, StutterFrame
  <2>2. Stored' = Stored
    BY <2>1, StoredStays
  <2>3. Pending' = Pending
    BY <2>1, PendingStays
  <2>. QED BY <2>1, <2>2, <2>3 DEF Behind!vars
<1>. QED BY <1>2, <1>3, <1>4, <1>5, NextCases

(* Seen through its ports the cache of three processes is a plain array    *)
(* that serves each request in one step, port by port in order, and gives  *)
(* the host the array back with every set in it.                           *)
THEOREM CacheIsPortMemory == Spec => IsPortMemory
<1>1. Init => Behind!Init
  BY BehindInit
<1>2. Inv /\ Inv' /\ [Next]_vars => [Behind!Next]_(Behind!vars)
  BY BehindNext
<1>. QED BY <1>1, <1>2, DataflowInvariant, PTL DEF Spec, IsPortMemory, Behind!Spec
=============================================================================
