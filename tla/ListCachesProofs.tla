-------------------------- MODULE ListCachesProofs --------------------------
(***************************************************************************)
(* For every graph, every list of edges and every size of the caches: the  *)
(* buffers and caches hold what their tags say, and each edge is           *)
(* intersected exactly once, with the lists that memory has.               *)
(***************************************************************************)
EXTENDS ListCaches, FiniteSetTheorems, TLAPS

(* The lists that loadOffset asks for. *)
List  == {NoList} \cup {ListOf(v) : v \in {w \in Vertex : Size(w) > 0}}
Lanes == [Lane -> List]
Batch == [a : Lanes, b : Lanes, more : BOOLEAN]

NumLines == (Offsets[Len(Offsets)] + T - 1) \div T

EntryOf(v) == [tag |-> v, offset |-> Begin(v), length |-> Size(v)]

OffsetCaches == {c \in [0 .. OffsetCacheSize - 1 -> Entries] :
                   \A i \in 0 .. OffsetCacheSize - 1 :
                     c[i].tag \in Vertex => c[i] = EntryOf(c[i].tag)}

SenderTypeOK ==
  /\ edges \in Seq(Vertex \X Vertex)
  /\ sent \in 0 .. Len(edges) /\ sender \in {"edges", "end", "done"}
  /\ batch \in Seq(List \X List) /\ Len(batch) < Parallel
  /\ offCache.a \in OffsetCaches /\ offCache.b \in OffsetCaches

LoopTypeOK ==
  /\ strm \in Seq(Batch) /\ Len(strm) <= Depth
  /\ req \in Batch
  /\ pc \in {"read", "process", "a", "b", "done"}
  /\ pp \in {0, 1} /\ lane \in 1 .. Parallel + 1
  /\ pc = "a" => lane \in Lane

ATypeOK ==
  /\ listA \in [Side -> [Lane -> Buffer]]
  /\ tagA \in [Side -> [Lane -> Nat \cup {None}]]
  /\ cacheA.tag \in Nat \cup {None} /\ cacheA.line \in Buffer

BTypeOK ==
  /\ listB \in [Side -> [Lane -> Buffer]]
  /\ cacheB \in [Index -> [tag : Nat \cup {None}, line : Buffer]]
  /\ burst \in [on : BOOLEAN, begin : Int, end : Int]
  /\ pending \in [Index -> Lane \cup {None}]

BurstIsInMemory ==
  IF burst.on THEN burst.begin \in Nat /\ burst.end <= NumLines
              ELSE burst = NoBurst

(* An entry that waits is the place of a list of this batch, and the burst *)
(* being put together has all of that list's lines.                        *)
WaitingForBurst ==
  \A x \in Index : Waiting(x) =>
    /\ pc = "b"
    /\ Place(req.b[pending[x]]) = x
    /\ Lines(req.b[pending[x]]) \subseteq BurstLines

ListInv == /\ SenderTypeOK /\ LoopTypeOK /\ ATypeOK /\ BTypeOK
           /\ BurstIsInMemory /\ WaitingForBurst
           /\ BCacheIsTrue
-----------------------------------------------------------------------------
(* Quotients and remainders. *)
LEMMA Division ==
  ASSUME NEW n \in Nat \ {0}, NEW a \in Nat
  PROVE  /\ a = n * (a \div n) + (a % n)
         /\ a % n \in 0 .. n - 1
         /\ a \div n \in Nat
OBVIOUS

LEMMA QuotientOrder ==
  ASSUME NEW n \in Nat \ {0}, NEW q \in Nat, NEW r \in Nat,
         NEW i \in 0 .. n - 1, NEW j \in 0 .. n - 1, n * q + i <= n * r + j
  PROVE  q <= r
<1>1. SUFFICES ASSUME r + 1 <= q PROVE FALSE
  OBVIOUS
<1>2. PICK d \in Nat : q = r + 1 + d
  <2>1. q - (r + 1) \in Nat
    BY <1>1
  <2>. QED BY <2>1
<1>3. n * q = n * (r + 1) + n * d /\ n * (r + 1) = n * r + n
  BY <1>2
<1>4. n * q \in Int /\ n * (r + 1) \in Int /\ n * r \in Int /\ n * d \in Nat
  OBVIOUS
<1>. QED BY <1>3, <1>4

LEMMA DivisionIsMonotone ==
  ASSUME NEW n \in Nat \ {0}, NEW a \in Nat, NEW b \in Nat, a <= b
  PROVE  a \div n <= b \div n
BY Division, QuotientOrder

LEMMA SameQuotient ==
  ASSUME NEW n \in Nat \ {0}, NEW a \in Nat, NEW b \in Nat,
         a \div n = b \div n, a % n = b % n
  PROVE  a = b
BY Division
-----------------------------------------------------------------------------
LEMMA OffsetFacts ==
  /\ \A v \in Vertex : /\ v \in Nat /\ Begin(v) \in Nat /\ Size(v) \in Nat
                       /\ Begin(v) + Size(v) <= Offsets[Len(Offsets)]
  /\ \A v, w \in Vertex : v < w => Begin(v) + Size(v) <= Begin(w)
  /\ Offsets[Len(Offsets)] \in Nat
<1>1. Len(Offsets) \in Nat \ {0} /\ DOMAIN Offsets = 1 .. Len(Offsets)
  BY ListAssumption
<1>2. \A i \in DOMAIN Offsets : Offsets[i] \in Nat
  BY ListAssumption
<1>3. \A v \in Vertex : v \in Nat /\ v + 1 \in DOMAIN Offsets /\ v + 2 \in DOMAIN Offsets
  BY <1>1 DEF Vertex
<1>4. \A v \in Vertex : Size(v) \in Nat
  <2> SUFFICES ASSUME NEW v \in Vertex PROVE Size(v) \in Nat
    OBVIOUS
  <2>1. Offsets[v + 1] <= Offsets[v + 2]
    BY <1>3, ListAssumption
  <2>. QED BY <2>1, <1>2, <1>3 DEF Size
<1>5. \A v \in Vertex : /\ Begin(v) \in Nat
                        /\ Begin(v) + Size(v) = Offsets[v + 2]
  BY <1>2, <1>3 DEF Begin, Size
<1>6. \A v \in Vertex : Offsets[v + 2] <= Offsets[Len(Offsets)]
  <2> SUFFICES ASSUME NEW v \in Vertex PROVE Offsets[v + 2] <= Offsets[Len(Offsets)]
    OBVIOUS
  <2>1. Len(Offsets) \in DOMAIN Offsets /\ v + 2 <= Len(Offsets)
    BY <1>1, <1>3
  <2>. QED BY <2>1, <1>3, ListAssumption
<1>7. \A v, w \in Vertex : v < w => Offsets[v + 2] <= Offsets[w + 1]
  <2> SUFFICES ASSUME NEW v \in Vertex, NEW w \in Vertex, v < w
               PROVE  Offsets[v + 2] <= Offsets[w + 1]
    OBVIOUS
  <2>1. v + 2 <= w + 1
    BY <1>3
  <2>. QED BY <2>1, <1>3, ListAssumption
<1>8. Offsets[Len(Offsets)] \in Nat
  BY <1>1, <1>2
<1>. QED BY <1>3, <1>4, <1>5, <1>6, <1>7, <1>8 DEF Begin

(* Two lists with words in them do not start at the same offset. *)
LEMMA OffsetTellsList ==
  ASSUME NEW v \in Vertex, NEW w \in Vertex, Size(v) > 0, Size(w) > 0,
         Begin(v) = Begin(w)
  PROVE  v = w
BY OffsetFacts

LEMMA ListFacts ==
  ASSUME NEW r \in List
  PROVE  /\ r \in Requests
         /\ First(r) \in Nat /\ End(r) \in Nat
         /\ First(r) <= End(r) /\ End(r) <= NumLines
         /\ Place(r) \in Index /\ Tag(r) \in Nat
         /\ r = NoList => Lines(r) = {}
<1>1. T \in Nat \ {0} /\ CacheSize \in Nat \ {0}
  BY ListAssumption
<1>2. r \in Requests
  BY OffsetFacts DEF List, NoList, ListOf, Requests
<1>3. /\ r.offset \in Nat /\ r.length \in Nat
      /\ r.offset + r.length <= Offsets[Len(Offsets)]
  BY OffsetFacts DEF List, NoList, ListOf
<1>4. First(r) \in Nat /\ End(r) \in Nat /\ First(r) <= End(r)
  <2>1. r.offset + r.length + T - 1 \in Nat /\ r.offset <= r.offset + r.length + T - 1
    BY <1>1, <1>3
  <2>. QED BY <1>1, <1>3, <2>1, Division, DivisionIsMonotone DEF First, End
<1>5. End(r) <= NumLines
  <2>1. /\ r.offset + r.length + T - 1 \in Nat
        /\ Offsets[Len(Offsets)] + T - 1 \in Nat
        /\ r.offset + r.length + T - 1 <= Offsets[Len(Offsets)] + T - 1
    BY <1>1, <1>3, OffsetFacts
  <2>. QED BY <1>1, <2>1, DivisionIsMonotone DEF End, NumLines
<1>6. Place(r) \in Index /\ Tag(r) \in Nat
  BY <1>1, <1>3, Division DEF Place, Tag, Index
<1>7. ASSUME r = NoList PROVE Lines(r) = {}
  <2>1. End(r) = (T - 1) \div T
    BY <1>1, <1>7 DEF End, NoList
  <2>2. (T - 1) \div T = 0
    <3>1. /\ T - 1 = T * ((T - 1) \div T) + ((T - 1) % T)
          /\ (T - 1) % T \in 0 .. T - 1 /\ (T - 1) \div T \in Nat
      BY <1>1, Division
    <3>2. T * ((T - 1) \div T) + ((T - 1) % T) <= T * 0 + (T - 1)
      BY <1>1, <3>1
    <3>3. T - 1 \in 0 .. T - 1
      BY <1>1
    <3>4. (T - 1) \div T <= 0
      BY <1>1, <3>1, <3>2, <3>3, QuotientOrder
    <3>. QED BY <3>1, <3>4
  <2>. QED BY <1>4, <2>1, <2>2 DEF Lines
<1>. QED BY <1>2, <1>4, <1>5, <1>6, <1>7

LEMMA MemoryLines == Line = 0 .. NumLines - 1 /\ NumLines \in Nat
<1>1. T \in Nat \ {0} /\ Offsets[Len(Offsets)] + T - 1 \in Nat
  BY ListAssumption, OffsetFacts
<1>. QED BY <1>1, Division DEF Line, NumLines

LEMMA LinesAreInMemory ==
  ASSUME NEW r \in List
  PROVE  Lines(r) \subseteq Line
BY ListFacts, MemoryLines DEF Lines

(* A list with words in it that has the place and the tag of another.      *)
LEMMA PlaceAndTagTellList ==
  ASSUME NEW r \in List, r # NoList, NEW v \in Vertex, Size(v) > 0,
         Place(ListOf(v)) = Place(r), Tag(ListOf(v)) = Tag(r)
  PROVE  r = ListOf(v)
<1>1. PICK w \in Vertex : Size(w) > 0 /\ r = ListOf(w)
  BY DEF List
<1>2. Begin(v) % CacheSize = Begin(w) % CacheSize /\ Begin(v) \div CacheSize = Begin(w) \div CacheSize
  BY <1>1 DEF Place, Tag, ListOf
<1>3. Begin(v) = Begin(w)
  BY <1>2, OffsetFacts, ListAssumption, SameQuotient
<1>. QED BY <1>1, <1>3, OffsetTellsList

(* What the lists of an entry, a buffer and a burst hold. *)
LEMMA EntryIsTrue ==
  ASSUME NEW c \in OffsetCaches, NEW v \in Vertex
  PROVE  Entry(c, v) = EntryOf(v) /\ Load(c, v) \in OffsetCaches
<1>1. v % OffsetCacheSize \in 0 .. OffsetCacheSize - 1
  BY ListAssumption, OffsetFacts, Division
<1>2. EntryOf(v) \in Entries
  BY OffsetFacts DEF EntryOf, Entries
<1>3. Entry(c, v) = EntryOf(v)
  BY <1>1 DEF Entry, EntryOf, OffsetCaches
<1>. QED BY <1>1, <1>2, <1>3 DEF Load, OffsetCaches, EntryOf

LEMMA FillFacts ==
  ASSUME NEW buffer \in Buffer, NEW r \in List, NEW lines
  PROVE  /\ Fill(buffer, r, lines) \in Buffer
         /\ \A k \in 0 .. End(r) - First(r) - 1 :
              Lines(r) \subseteq lines => Fill(buffer, r, lines)[k] = First(r) + k
<1>1. /\ First(r) \in Nat /\ End(r) \in Nat /\ End(r) <= NumLines
      /\ Lines(r) = First(r) .. End(r) - 1 /\ Lines(r) \subseteq Line
  BY ListFacts, LinesAreInMemory DEF Lines
<1>2. Fill(buffer, r, lines) \in Buffer
  BY <1>1 DEF Fill, Buffer
<1>3. ASSUME NEW k \in 0 .. End(r) - First(r) - 1, Lines(r) \subseteq lines
      PROVE  Fill(buffer, r, lines)[k] = First(r) + k
  <2>1. k \in Line /\ First(r) + k \in Lines(r)
    BY <1>1, MemoryLines
  <2>. QED BY <2>1, <1>3 DEF Fill
<1>. QED BY <1>2, <1>3

LEMMA CopyType ==
  ASSUME NEW from \in Buffer, NEW to \in Buffer, NEW n
  PROVE  Copy(from, n, to) \in Buffer
BY DEF Copy, Buffer
-----------------------------------------------------------------------------
LEMMA InitEstablishesInv == Init => ListInv
<1> SUFFICES ASSUME Init PROVE ListInv
  OBVIOUS
<1>1. SenderTypeOK
  <2>1. Empty \in Entries /\ Empty.tag \notin Vertex
    BY DEF Empty, Entries, Vertex, None
  <2>2. offCache.a \in OffsetCaches /\ offCache.b \in OffsetCaches
    BY <2>1 DEF Init, OffsetCaches
  <2>. QED BY <2>2, ListAssumption DEF Init, SenderTypeOK
<1>2. LoopTypeOK
  <2>1. [j \in Lane |-> NoList] \in Lanes
    BY DEF Lanes, List
  <2>2. req \in Batch
    BY <2>1 DEF Init, Batch, NoLists
  <2>. QED BY <2>2, ListAssumption DEF Init, LoopTypeOK
<1>3. Garbage \in Buffer
  BY DEF Garbage, Buffer
<1>4. ATypeOK
  BY <1>3 DEF Init, ATypeOK
<1>5. BTypeOK
  BY <1>3 DEF Init, BTypeOK, NoBurst
<1>6. BurstIsInMemory /\ WaitingForBurst
  BY DEF Init, BurstIsInMemory, WaitingForBurst, Waiting, NoBurst
<1>7. BCacheIsTrue
  <2> SUFFICES ASSUME NEW v \in Vertex, Tag(ListOf(v)) = None, Size(v) > 0 PROVE FALSE
    BY DEF Init, BCacheIsTrue
  <2>1. ListOf(v) \in List
    BY DEF List
  <2>. QED BY <2>1, ListFacts DEF None
<1>. QED BY <1>1, <1>2, <1>4, <1>5, <1>6, <1>7 DEF ListInv

(* A step that leaves the cache of lists B, its burst and, while they are  *)
(* in use, the requests as they are.                                       *)
LEMMA BKept ==
  ASSUME ListInv, UNCHANGED bVars, pc # "b" \/ UNCHANGED <<pc, req>>
  PROVE  BTypeOK' /\ BurstIsInMemory' /\ WaitingForBurst' /\ BCacheIsTrue'
<1>1. BTypeOK'
  BY DEF ListInv, BTypeOK, bVars
<1>2. BurstIsInMemory'
  BY DEF ListInv, BurstIsInMemory, bVars, NoBurst
<1>3. WaitingForBurst'
  BY DEF ListInv, WaitingForBurst, Waiting, bVars, BurstLines
<1>4. BCacheIsTrue'
  BY DEF ListInv, BCacheIsTrue, bVars, Holds
<1>. QED BY <1>1, <1>2, <1>3, <1>4

LEMMA SendType ==
  ASSUME LoopTypeOK, NEW pairs \in Seq(List \X List), NEW more \in BOOLEAN,
         Send(pairs, more)
  PROVE  strm' \in Seq(Batch) /\ Len(strm') <= Depth
<1>1. \A x \in {1, 2} : Padded(pairs, x) \in Lanes
  BY ListAssumption DEF Padded, Lanes, Lane, List
<1>2. [a |-> Padded(pairs, 1), b |-> Padded(pairs, 2), more |-> more] \in Batch
  BY <1>1 DEF Batch
<1>. QED BY <1>2, ListAssumption DEF Send, LoopTypeOK

(* The pair of lists of an edge, added to the batch. *)
LEMMA OffsetPairs ==
  ASSUME ListInv, LoadOffset
  PROVE  LET u == edges[sent + 1][1]
             v == edges[sent + 1][2]
             a == Request(Entry(offCache.a, u))
             b == Request(Entry(offCache.b, v))
             pairs == IF a.length > 0 /\ b.length > 0 THEN Append(batch, <<a, b>>) ELSE batch
         IN  /\ u \in Vertex /\ v \in Vertex /\ a = ListOf(u) /\ b = ListOf(v)
             /\ pairs \in Seq(List \X List) /\ Len(pairs) <= Parallel
<1> DEFINE u == edges[sent + 1][1]
           v == edges[sent + 1][2]
           a == Request(Entry(offCache.a, u))
           b == Request(Entry(offCache.b, v))
           pairs == IF a.length > 0 /\ b.length > 0 THEN Append(batch, <<a, b>>) ELSE batch
<1>1. u \in Vertex /\ v \in Vertex
  <2>1. sent + 1 \in 1 .. Len(edges)
    BY DEF ListInv, SenderTypeOK, LoadOffset
  <2>2. edges[sent + 1] \in Vertex \X Vertex
    BY <2>1 DEF ListInv, SenderTypeOK
  <2>. QED BY <2>2
<1>2. a = ListOf(u) /\ b = ListOf(v)
  <2> HIDE DEF u, v
  <2>1. Entry(offCache.a, u) = EntryOf(u)
    BY <1>1, EntryIsTrue DEF ListInv, SenderTypeOK
  <2>2. Entry(offCache.b, v) = EntryOf(v)
    BY <1>1, EntryIsTrue DEF ListInv, SenderTypeOK
  <2>. QED BY <2>1, <2>2 DEF Request, EntryOf, ListOf
<1>3. pairs \in Seq(List \X List) /\ Len(pairs) <= Parallel
  <2>1. CASE a.length > 0 /\ b.length > 0
    <3>1. a \in List /\ b \in List
      BY <1>1, <1>2, <2>1 DEF List, ListOf
    <3> HIDE DEF a, b
    <3>. QED BY <2>1, <3>1, ListAssumption DEF ListInv, SenderTypeOK
  <2>2. CASE ~(a.length > 0 /\ b.length > 0)
    BY <2>2, ListAssumption DEF ListInv, SenderTypeOK
  <2>. QED BY <2>1, <2>2
<1>. QED BY <1>1, <1>2, <1>3

LEMMA LoadOffsetKeepsInv ==
  ASSUME ListInv, LoadOffset
  PROVE  ListInv'
<1> DEFINE u == edges[sent + 1][1]
           v == edges[sent + 1][2]
           a == Request(Entry(offCache.a, u))
           b == Request(Entry(offCache.b, v))
           pairs == IF a.length > 0 /\ b.length > 0 THEN Append(batch, <<a, b>>) ELSE batch
<1>1. u \in Vertex /\ v \in Vertex
  BY OffsetPairs
<1>3. pairs \in Seq(List \X List) /\ Len(pairs) <= Parallel
  BY OffsetPairs
<1>4. offCache'.a \in OffsetCaches /\ offCache'.b \in OffsetCaches
  BY <1>1, EntryIsTrue DEF ListInv, SenderTypeOK, LoadOffset
<1>5. IF Len(pairs) = Parallel THEN Send(pairs, TRUE) /\ batch' = << >>
                               ELSE UNCHANGED strm /\ batch' = pairs
  BY DEF LoadOffset
<1>6. /\ sent' = sent + 1 /\ sent < Len(edges)
      /\ UNCHANGED <<input, sender, loop, aVars, bVars, counted>>
  BY DEF LoadOffset
<1> HIDE DEF pairs
<1>7. SenderTypeOK'
  <2>1. batch' \in Seq(List \X List) /\ Len(batch') < Parallel
    <3>1. Len(pairs) \in Nat /\ Parallel \in Nat \ {0}
      BY <1>3, ListAssumption
    <3>2. CASE Len(pairs) = Parallel
      <4>1. batch' = << >>
        BY <1>5, <3>2
      <4>. QED BY <3>1, <4>1
    <3>3. CASE Len(pairs) # Parallel
      <4>1. batch' = pairs
        BY <1>5, <3>3
      <4>. QED BY <1>3, <3>1, <3>3, <4>1
    <3>. QED BY <3>2, <3>3
  <2>2. edges' \in Seq(Vertex \X Vertex) /\ sender' \in {"edges", "end", "done"}
    BY <1>6 DEF ListInv, SenderTypeOK, input
  <2>3. sent' \in 0 .. Len(edges')
    BY <1>6 DEF ListInv, SenderTypeOK, input
  <2>. QED BY <1>4, <2>1, <2>2, <2>3 DEF SenderTypeOK
<1>8. strm' \in Seq(Batch) /\ Len(strm') <= Depth
  BY <1>3, <1>5, SendType DEF ListInv, LoopTypeOK
<1>9. LoopTypeOK' /\ ATypeOK'
  BY <1>6, <1>8 DEF ListInv, LoopTypeOK, ATypeOK, loop, aVars
<1>. QED BY <1>6, <1>7, <1>9, BKept DEF ListInv, loop

LEMMA SendRestKeepsInv ==
  ASSUME ListInv, SendLast \/ SendEnd
  PROVE  ListInv'
<1>1. /\ UNCHANGED <<input, sent, batch, offCache, loop, aVars, bVars, counted>>
      /\ sender' \in {"end", "done"}
      /\ \E more \in BOOLEAN : Send(batch, more)
  BY DEF SendLast, SendEnd
<1>2. strm' \in Seq(Batch) /\ Len(strm') <= Depth
  BY <1>1, SendType DEF ListInv, SenderTypeOK
<1>3. SenderTypeOK' /\ LoopTypeOK' /\ ATypeOK'
  BY <1>1, <1>2 DEF ListInv, SenderTypeOK, LoopTypeOK, ATypeOK, input, loop, aVars
<1>. QED BY <1>1, <1>3, BKept DEF ListInv, loop

LEMMA ReadOrProcessKeepsInv ==
  ASSUME ListInv, ReadBatch \/ ProcessList
  PROVE  ListInv'
<1>1. SenderTypeOK' /\ ATypeOK'
  BY DEF ListInv, SenderTypeOK, ATypeOK, ReadBatch, ProcessList, input, offsetVars, aVars
<1>2. LoopTypeOK'
  <2>1. CASE ReadBatch
    <3>1. strm # << >> /\ strm \in Seq(Batch)
      BY <2>1 DEF ListInv, LoopTypeOK, ReadBatch
    <3>2. Head(strm) \in Batch /\ Tail(strm) \in Seq(Batch) /\ Len(Tail(strm)) = Len(strm) - 1
      BY <3>1
    <3>. QED BY <2>1, <3>1, <3>2, ListAssumption DEF ListInv, LoopTypeOK, ReadBatch
  <2>2. CASE ProcessList
    BY <2>2, ListAssumption DEF ListInv, LoopTypeOK, ProcessList, Lane
  <2>. QED BY <2>1, <2>2
<1>. QED BY <1>1, <1>2, BKept DEF ListInv, ReadBatch, ProcessList

LEMMA SideFacts == pp \in {0, 1} => Loaded \in Side /\ Processed \in Side
BY DEF Loaded, Processed, Other, Side

LEMMA LoadAKeepsInv ==
  ASSUME ListInv, AHeld \/ ACached \/ AMissed
  PROVE  ListInv'
<1>1. /\ pc = "a" /\ ToNextLaneA /\ lane \in Lane /\ Loaded \in Side
      /\ ARequest \in List
  BY SideFacts DEF ListInv, LoopTypeOK, AHeld, ACached, AMissed, ARequest, Batch, Lanes
<1>2. SenderTypeOK'
  BY <1>1 DEF ListInv, SenderTypeOK, ToNextLaneA, input, offsetVars
<1>3. LoopTypeOK'
  BY <1>1, ListAssumption DEF ListInv, LoopTypeOK, ToNextLaneA, Lane
<1>4. ATypeOK'
  <2>1. CASE AHeld
    BY <2>1 DEF ListInv, ATypeOK, AHeld, aVars
  <2>2. CASE ACached
    <3>1. Copy(cacheA.line, cacheA.len, listA[Loaded][lane]) \in Buffer
      BY <1>1, CopyType DEF ListInv, ATypeOK
    <3>2. listA' \in [Side -> [Lane -> Buffer]]
      BY <1>1, <2>2, <3>1 DEF ListInv, ATypeOK, ACached
    <3>3. tagA' \in [Side -> [Lane -> Nat \cup {None}]] /\ UNCHANGED cacheA
      BY <1>1, <2>2 DEF ListInv, ATypeOK, ACached
    <3>. QED BY <3>2, <3>3 DEF ListInv, ATypeOK
  <2>3. CASE AMissed
    <3> DEFINE r == ARequest
    <3>1. /\ Fill(listA[Loaded][lane], r, Lines(r)) \in Buffer
          /\ Fill(cacheA.line, r, Lines(r)) \in Buffer
          /\ r.offset \in Nat
      BY <1>1, FillFacts, ListFacts DEF ListInv, ATypeOK, Requests
    <3>2. /\ listA' = [listA EXCEPT ![Loaded][lane] = Fill(@, r, Lines(r))]
          /\ tagA' = [tagA EXCEPT ![Loaded][lane] = r.offset]
          /\ cacheA'.tag = r.offset /\ cacheA'.line = Fill(cacheA.line, r, Lines(r))
      BY <2>3 DEF AMissed
    <3> HIDE DEF r
    <3>3. listA' \in [Side -> [Lane -> Buffer]]
      BY <1>1, <3>1, <3>2 DEF ListInv, ATypeOK
    <3>4. tagA' \in [Side -> [Lane -> Nat \cup {None}]]
      BY <1>1, <3>1, <3>2 DEF ListInv, ATypeOK
    <3>. QED BY <3>1, <3>2, <3>3, <3>4 DEF ATypeOK
  <2>. QED BY <2>1, <2>2, <2>3
<1>5. UNCHANGED bVars
  BY <1>1 DEF ToNextLaneA
<1>. QED BY <1>1, <1>2, <1>3, <1>4, <1>5, BKept DEF ListInv
-----------------------------------------------------------------------------
LEMMA RequestFacts ==
  ASSUME ListInv
  PROVE  /\ \A j \in Lane : req.b[j] \in List
         /\ \A x \in Index : Waiting(x) => pending[x] \in Lane
         /\ Loaded \in Side
BY SideFacts DEF ListInv, LoopTypeOK, BTypeOK, Batch, Lanes, Waiting

(* A burst leaves every entry of the cache true: one that it writes waited *)
(* for a list all of whose lines the burst has.                            *)
LEMMA BurstKeepsCacheTrue ==
  ASSUME ListInv, LoadBurst(BurstLines)
  PROVE  /\ listB' \in [Side -> [Lane -> Buffer]]
         /\ cacheB' \in [Index -> [tag : Nat \cup {None}, line : Buffer]]
         /\ BCacheIsTrue'
<1>1. listB' \in [Side -> [Lane -> Buffer]]
  <2>1. \A j \in Lane : Fill(listB[Loaded][j], req.b[j], BurstLines) \in Buffer
    BY RequestFacts, FillFacts DEF ListInv, BTypeOK
  <2>. QED BY <2>1, RequestFacts DEF ListInv, BTypeOK, LoadBurst
<1> DEFINE r(x) == req.b[pending[x]]
           written(x) == Waiting(x) /\ Lines(r(x)) \cap BurstLines # {}
<1>2. \A x \in Index : Waiting(x) => /\ r(x) \in List
                                     /\ Fill(cacheB[x].line, r(x), BurstLines) \in Buffer
                                     /\ Tag(r(x)) \in Nat
                                     /\ Place(r(x)) = x
                                     /\ Lines(r(x)) \subseteq BurstLines
  BY RequestFacts, FillFacts, ListFacts DEF ListInv, BTypeOK, WaitingForBurst
<1>3. cacheB' = [x \in Index |-> IF written(x)
                   THEN [tag |-> Tag(r(x)), line |-> Fill(cacheB[x].line, r(x), BurstLines)]
                   ELSE cacheB[x]]
  BY DEF LoadBurst
<1>4. cacheB' \in [Index -> [tag : Nat \cup {None}, line : Buffer]]
  <2> SUFFICES ASSUME NEW x \in Index
               PROVE  (IF written(x) THEN [tag |-> Tag(r(x)), line |-> Fill(cacheB[x].line, r(x), BurstLines)]
                                     ELSE cacheB[x]) \in [tag : Nat \cup {None}, line : Buffer]
    BY <1>3
  <2>. QED BY <1>2 DEF ListInv, BTypeOK
<1>5. BCacheIsTrue'
  <2> SUFFICES ASSUME NEW x \in Index, NEW v \in Vertex, Size(v) > 0,
                      Place(ListOf(v)) = x, cacheB'[x].tag = Tag(ListOf(v))
               PROVE  Holds(cacheB'[x].line, v)
    BY DEF BCacheIsTrue
  <2>1. CASE written(x)
    <3>1. /\ cacheB'[x].line = Fill(cacheB[x].line, r(x), BurstLines)
          /\ Tag(r(x)) = Tag(ListOf(v))
      BY <1>3, <2>1
    <3>2. r(x) # NoList
      BY <1>2, <2>1, ListFacts
    <3>3. r(x) = ListOf(v)
      BY <1>2, <2>1, <3>1, <3>2, PlaceAndTagTellList
    <3>4. cacheB[x].line \in Buffer
      BY DEF ListInv, BTypeOK
    <3>. QED BY <1>2, <2>1, <3>1, <3>3, <3>4, FillFacts DEF Holds
  <2>2. CASE ~written(x)
    <3>1. cacheB'[x] = cacheB[x]
      BY <1>3, <2>2
    <3>. QED BY <3>1 DEF ListInv, BCacheIsTrue
  <2>. QED BY <2>1, <2>2
<1>. QED BY <1>1, <1>4, <1>5

(* The next lane of a batch, whose request b now waits in its place.       *)
LEMMA NextLane ==
  ASSUME ListInv, pc = "b", lane <= Parallel, ToNextLaneB
  PROVE  /\ SenderTypeOK' /\ LoopTypeOK' /\ ATypeOK'
         /\ lane \in Lane /\ BRequest \in List /\ UNCHANGED <<pc, req>>
BY ListAssumption
   DEF ListInv, SenderTypeOK, LoopTypeOK, ATypeOK, ToNextLaneB, input, offsetVars, aVars,
       BRequest, Batch, Lanes, Lane

LEMMA BHitKeepsInv ==
  ASSUME ListInv, BHit
  PROVE  ListInv'
<1>1. /\ SenderTypeOK' /\ LoopTypeOK' /\ ATypeOK'
      /\ lane \in Lane /\ BRequest \in List /\ UNCHANGED <<pc, req, cacheB, burst, pending>>
  BY NextLane DEF BHit, BHits
<1>2. Place(BRequest) \in Index /\ Loaded \in Side
  BY <1>1, ListFacts, RequestFacts
<1>3. Copy(cacheB[Place(BRequest)].line, End(BRequest) - First(BRequest), listB[Loaded][lane]) \in Buffer
  BY <1>1, <1>2, CopyType DEF ListInv, BTypeOK
<1>4. listB' \in [Side -> [Lane -> Buffer]]
  BY <1>1, <1>2, <1>3 DEF ListInv, BTypeOK, BHit
<1>5. BTypeOK'
  BY <1>1, <1>4 DEF ListInv, BTypeOK
<1>6. BurstIsInMemory' /\ WaitingForBurst'
  BY <1>1 DEF ListInv, BurstIsInMemory, NoBurst, WaitingForBurst, Waiting, BurstLines
<1>7. BCacheIsTrue'
  BY <1>1 DEF ListInv, BCacheIsTrue
<1>. QED BY <1>1, <1>5, <1>6, <1>7 DEF ListInv

(* Bursts that hold the lines of a list and nothing outside memory. *)
LEMMA NewBurst ==
  ASSUME NEW r \in List
  PROVE  /\ BurstOf(r) \in [on : BOOLEAN, begin : Int, end : Int] /\ BurstOf(r).on
         /\ BurstOf(r).begin \in Nat /\ BurstOf(r).end <= NumLines
         /\ Lines(r) = BurstOf(r).begin .. BurstOf(r).end - 1
BY ListFacts DEF BurstOf, Lines

LEMMA JoinedBurst ==
  ASSUME BTypeOK, BurstIsInMemory, burst.on, NEW r \in List
  PROVE  /\ Joined(r) \in [on : BOOLEAN, begin : Int, end : Int] /\ Joined(r).on
         /\ Joined(r).begin \in Nat /\ Joined(r).end <= NumLines
         /\ Lines(r) \subseteq Joined(r).begin .. Joined(r).end - 1
         /\ BurstLines \subseteq Joined(r).begin .. Joined(r).end - 1
<1>1. burst.begin \in Nat /\ burst.end \in Int /\ burst.end <= NumLines
  BY DEF BTypeOK, BurstIsInMemory
<1>2. Joined(r) = [on |-> TRUE, begin |-> Smaller(burst.begin, First(r)),
                   end |-> Larger(burst.end, End(r))]
  BY DEF Joined
<1>. QED BY <1>1, <1>2, ListFacts DEF Smaller, Larger, Lines, BurstLines

(* Whatever waited before is in the old burst and stays in the new one; of *)
(* the entries that a loaded burst leaves waiting, none has any lines.     *)
LEMMA MissKeepsWaiting ==
  ASSUME ListInv, NEW still \in [Index -> Lane \cup {None}], NEW new,
         pc = "b", lane \in Lane, UNCHANGED <<pc, req>>, burst' = new,
         pending' = [still EXCEPT ![Place(BRequest)] = lane],
         Lines(BRequest) \subseteq new.begin .. new.end - 1,
         \A x \in Index : still[x] # None =>
           /\ still[x] = pending[x]
           /\ Lines(req.b[pending[x]]) \subseteq new.begin .. new.end - 1
  PROVE  pending' \in [Index -> Lane \cup {None}] /\ WaitingForBurst'
<1>1. Place(BRequest) \in Index /\ BRequest \in List
  BY RequestFacts, ListFacts DEF BRequest
<1>2. pending' \in [Index -> Lane \cup {None}]
  BY <1>1
<1>3. WaitingForBurst'
  <2> SUFFICES ASSUME NEW x \in Index, pending'[x] # None
               PROVE  /\ pc' = "b" /\ Place(req'.b[pending'[x]]) = x
                      /\ Lines(req'.b[pending'[x]]) \subseteq burst'.begin .. burst'.end - 1
    BY DEF WaitingForBurst, Waiting, BurstLines
  <2>1. CASE x = Place(BRequest)
    BY <1>1, <2>1 DEF BRequest
  <2>2. CASE x # Place(BRequest)
    <3>1. pending'[x] = pending[x] /\ still[x] # None
      BY <2>2
    <3>. QED BY <3>1 DEF ListInv, WaitingForBurst, Waiting
  <2>. QED BY <2>1, <2>2
<1>. QED BY <1>2, <1>3

LEMMA BMissKeepsInv ==
  ASSUME ListInv, BFirstMiss \/ BMissNear \/ BMissApart
  PROVE  ListInv'
<1>1. pc = "b" /\ lane <= Parallel /\ ToNextLaneB
  BY DEF BFirstMiss, BMissNear, BMissApart, BMisses
<1>2. /\ SenderTypeOK' /\ LoopTypeOK' /\ ATypeOK'
      /\ lane \in Lane /\ BRequest \in List /\ UNCHANGED <<pc, req>>
  BY <1>1, NextLane
<1>3. pending \in [Index -> Lane \cup {None}]
  BY DEF ListInv, BTypeOK
<1>4. CASE BFirstMiss
  <2>1. /\ burst' = BurstOf(BRequest) /\ burst = NoBurst
        /\ pending' = [pending EXCEPT ![Place(BRequest)] = lane]
        /\ UNCHANGED <<listB, cacheB>>
    BY <1>4 DEF BFirstMiss, ListInv, BurstIsInMemory
  <2>2. BurstLines = {}
    BY <2>1 DEF BurstLines, NoBurst
  <2>3. pending' \in [Index -> Lane \cup {None}] /\ WaitingForBurst'
    BY <1>1, <1>2, <1>3, <2>1, <2>2, NewBurst, MissKeepsWaiting
       DEF ListInv, WaitingForBurst, Waiting
  <2>4. BTypeOK' /\ BurstIsInMemory'
    BY <1>2, <2>1, <2>3, NewBurst DEF ListInv, BTypeOK, BurstIsInMemory
  <2>5. BCacheIsTrue'
    BY <2>1 DEF ListInv, BCacheIsTrue
  <2>. QED BY <1>2, <2>3, <2>4, <2>5 DEF ListInv
<1>5. CASE BMissNear
  <2>1. /\ burst' = Joined(BRequest) /\ burst.on
        /\ pending' = [pending EXCEPT ![Place(BRequest)] = lane]
        /\ UNCHANGED <<listB, cacheB>>
    BY <1>5 DEF BMissNear
  <2>2. BTypeOK /\ BurstIsInMemory /\ WaitingForBurst
    BY DEF ListInv
  <2>3. pending' \in [Index -> Lane \cup {None}] /\ WaitingForBurst'
    <3>1. \A x \in Index : pending[x] # None =>
            Lines(req.b[pending[x]]) \subseteq Joined(BRequest).begin .. Joined(BRequest).end - 1
      BY <1>2, <2>1, <2>2, JoinedBurst DEF WaitingForBurst, Waiting
    <3>. QED BY <1>1, <1>2, <1>3, <2>1, <2>2, <3>1, JoinedBurst, MissKeepsWaiting
  <2>4. BTypeOK' /\ BurstIsInMemory'
    BY <1>2, <2>1, <2>2, <2>3, JoinedBurst DEF BTypeOK, BurstIsInMemory
  <2>5. BCacheIsTrue'
    BY <2>1 DEF ListInv, BCacheIsTrue
  <2>. QED BY <1>2, <2>3, <2>4, <2>5 DEF ListInv
<1>6. CASE BMissApart
  <2> DEFINE still == StillWaiting(BurstLines)
  <2>1. /\ burst' = BurstOf(BRequest) /\ LoadBurst(BurstLines)
        /\ pending' = [still EXCEPT ![Place(BRequest)] = lane]
    BY <1>6 DEF BMissApart
  <2>2. still \in [Index -> Lane \cup {None}]
    BY <1>3 DEF StillWaiting
  <2>3. \A x \in Index : still[x] # None =>
          /\ still[x] = pending[x] /\ Lines(req.b[pending[x]]) = {}
    <3> SUFFICES ASSUME NEW x \in Index, still[x] # None
                 PROVE  still[x] = pending[x] /\ Lines(req.b[pending[x]]) = {}
      OBVIOUS
    <3>1. /\ still[x] = pending[x] /\ Waiting(x)
          /\ End(req.b[pending[x]]) - 1 \notin Lines(req.b[pending[x]]) \cap BurstLines
      BY DEF StillWaiting, Waiting
    <3>2. Lines(req.b[pending[x]]) \subseteq BurstLines /\ req.b[pending[x]] \in List
      BY <3>1, RequestFacts DEF ListInv, WaitingForBurst
    <3>3. Lines(req.b[pending[x]]) = {}
      BY <3>1, <3>2, ListFacts DEF Lines
    <3>. QED BY <3>1, <3>3
  <2> HIDE DEF still
  <2>4. pending' \in [Index -> Lane \cup {None}] /\ WaitingForBurst'
    <3> DEFINE new == BurstOf(BRequest)
    <3>1. Lines(BRequest) \subseteq new.begin .. new.end - 1
      BY <1>2, NewBurst
    <3>2. \A x \in Index : still[x] # None =>
            /\ still[x] = pending[x]
            /\ Lines(req.b[pending[x]]) \subseteq new.begin .. new.end - 1
      BY <2>3
    <3>3. burst' = new
      BY <2>1
    <3> HIDE DEF new
    <3>. QED BY <1>1, <1>2, <2>1, <2>2, <3>1, <3>2, <3>3, MissKeepsWaiting
  <2>5. /\ listB' \in [Side -> [Lane -> Buffer]]
        /\ cacheB' \in [Index -> [tag : Nat \cup {None}, line : Buffer]]
        /\ BCacheIsTrue'
    BY <2>1, BurstKeepsCacheTrue
  <2>6. BTypeOK' /\ BurstIsInMemory'
    BY <1>2, <2>1, <2>4, <2>5, NewBurst DEF BTypeOK, BurstIsInMemory
  <2>. QED BY <1>2, <2>4, <2>5, <2>6 DEF ListInv
<1>. QED BY <1>4, <1>5, <1>6

LEMMA BEndKeepsInv ==
  ASSUME ListInv, BEnd
  PROVE  ListInv'
<1>1. SenderTypeOK' /\ LoopTypeOK' /\ ATypeOK'
  BY DEF ListInv, SenderTypeOK, LoopTypeOK, ATypeOK, BEnd, input, offsetVars, aVars
<1>2. burst' = NoBurst /\ pending' = [x \in Index |-> None]
  BY DEF BEnd
<1>3. BurstIsInMemory' /\ WaitingForBurst'
  BY <1>2 DEF BurstIsInMemory, WaitingForBurst, Waiting, NoBurst
<1>4. /\ listB' \in [Side -> [Lane -> Buffer]]
      /\ cacheB' \in [Index -> [tag : Nat \cup {None}, line : Buffer]]
      /\ BCacheIsTrue'
  <2>1. CASE burst.on
    BY <2>1, BurstKeepsCacheTrue DEF BEnd
  <2>2. CASE ~burst.on
    BY <2>2 DEF BEnd, ListInv, BTypeOK, BCacheIsTrue
  <2>. QED BY <2>1, <2>2
<1>5. BTypeOK'
  BY <1>2, <1>4 DEF BTypeOK, NoBurst
<1>. QED BY <1>1, <1>3, <1>4, <1>5 DEF ListInv
-----------------------------------------------------------------------------
(* Every step keeps the types, the burst, the entries that wait for it and *)
(* the contents of the cache.                                              *)
THEOREM ListInvariant == Spec => []ListInv
<1>1. ListInv /\ [Next]_vars => ListInv'
  <2> SUFFICES ASSUME ListInv, [Next]_vars PROVE ListInv'
    OBVIOUS
  <2>1. CASE LoadOffset
    BY <2>1, LoadOffsetKeepsInv
  <2>2. CASE SendLast \/ SendEnd
    BY <2>2, SendRestKeepsInv
  <2>3. CASE ReadBatch \/ ProcessList
    BY <2>3, ReadOrProcessKeepsInv
  <2>4. CASE AHeld \/ ACached \/ AMissed
    BY <2>4, LoadAKeepsInv
  <2>5. CASE BHit
    BY <2>5, BHitKeepsInv
  <2>6. CASE BFirstMiss \/ BMissNear \/ BMissApart
    BY <2>6, BMissKeepsInv
  <2>7. CASE BEnd
    BY <2>7, BEndKeepsInv
  <2>8. CASE UNCHANGED vars
    <3>1. SenderTypeOK' /\ LoopTypeOK' /\ ATypeOK'
      BY <2>8 DEF ListInv, SenderTypeOK, LoopTypeOK, ATypeOK, vars, input, offsetVars,
                  loop, aVars
    <3>2. UNCHANGED bVars /\ UNCHANGED <<pc, req>>
      BY <2>8 DEF vars, loop
    <3>. QED BY <3>1, <3>2, BKept DEF ListInv
  <2>. QED BY <2>1, <2>2, <2>3, <2>4, <2>5, <2>6, <2>7, <2>8 DEF Next, Returned
<1>. QED BY <1>1, InitEstablishesInv, PTL DEF Spec

(* Streams keep their depth, buffers hold lines of memory, and a burst     *)
(* stays inside memory, whatever the graph, the edges and the sizes.       *)
THEOREM ListCachesTypeCorrect == Spec => []TypeOK
<1>1. ListInv => TypeOK
  <2> SUFFICES ASSUME ListInv PROVE TypeOK
    OBVIOUS
  <2>1. \A x \in {"a", "b"} : offCache[x] \in [0 .. OffsetCacheSize - 1 -> Entries]
    BY DEF ListInv, SenderTypeOK, OffsetCaches
  <2>2. req.a \in [Lane -> Requests] /\ req.b \in [Lane -> Requests]
    BY ListFacts DEF ListInv, LoopTypeOK, Batch, Lanes
  <2>3. burst.on => BurstLines \subseteq Line
    BY MemoryLines DEF ListInv, BTypeOK, BurstIsInMemory, BurstLines
  <2>4. \A x \in Index : cacheB[x].line \in Buffer
    BY DEF ListInv, BTypeOK
  <2>. QED BY <2>1, <2>2, <2>3, <2>4
       DEF ListInv, SenderTypeOK, LoopTypeOK, ATypeOK, BTypeOK, TypeOK
<1>. QED BY <1>1, ListInvariant, PTL

(* A tagged entry of list_b_cache holds the whole list its tag says.       *)
THEOREM BCacheStaysTrue == Spec => []BCacheIsTrue
<1>1. ListInv => BCacheIsTrue
  BY DEF ListInv
<1>. QED BY <1>1, ListInvariant, PTL
-----------------------------------------------------------------------------
(* The buffers and the cache of lists A.  Every batch but the last two has *)
(* a list in every lane.                                                   *)
Full(b) == \A j \in Lane : b.a[j].length > 0

NothingLoaded == /\ cacheA.tag = None
                 /\ \A s \in Side, j \in Lane : tagA[s][j] = None

BatchesInOrder ==
  /\ \A i \in 1 .. Len(batch) : batch[i][1].length > 0
  /\ sender = "edges" => \A i \in 1 .. Len(strm) : Full(strm[i])
  /\ \A i, j \in 1 .. Len(strm) : i <= j /\ Full(strm[j]) => Full(strm[i])

PaddingComesLast ==
  ~Full(req) => \/ pc = "read" /\ NothingLoaded
                \/ sender # "edges" /\ \A i \in 1 .. Len(strm) : ~Full(strm[i])

(* Tags tell what they are on, and so does what a copy from the cache      *)
(* takes.                                                                  *)
TagsAreTrue ==
  \A v \in Vertex : Size(v) > 0 =>
    /\ cacheA.tag = Begin(v) => /\ Holds(cacheA.line, v)
                                /\ cacheA.len = End(ListOf(v)) - First(ListOf(v))
    /\ \A s \in Side, j \in Lane : tagA[s][j] = Begin(v) => Holds(listA[s][j], v)

CacheAHasLength ==
  Full(req) => \A v \in Vertex : Size(v) > 0 /\ cacheA.tag = Begin(v) =>
                 cacheA.len = End(ListOf(v)) - First(ListOf(v))

AInv == /\ BatchesInOrder /\ PaddingComesLast
        /\ CacheAHasLength /\ ATagsAreTrue

LEMMA InitEstablishesAInv == Init => AInv
<1> SUFFICES ASSUME Init PROVE AInv
  OBVIOUS
<1>1. Parallel \in Lane
  BY ListAssumption DEF Lane
<1>2. ~Full(req)
  BY <1>1 DEF Init, Full, NoLists, NoList
<1>3. PaddingComesLast
  BY DEF Init, PaddingComesLast, NothingLoaded
<1>4. BatchesInOrder
  BY DEF Init, BatchesInOrder
<1>5. CacheAHasLength /\ ATagsAreTrue
  BY <1>2 DEF CacheAHasLength, ATagsAreTrue, Full
<1>. QED BY <1>3, <1>4, <1>5 DEF AInv

(* A batch put behind the others. *)
LEMMA SendKeepsOrder ==
  ASSUME ListInv, BatchesInOrder, NEW pairs \in Seq(List \X List), NEW more \in BOOLEAN,
         Send(pairs, more),
         \/ sender = "edges" /\ Len(pairs) = Parallel
              /\ \A i \in 1 .. Len(pairs) : pairs[i][1].length > 0
         \/ Len(pairs) < Parallel
  PROVE  /\ \A i, j \in 1 .. Len(strm') : i <= j /\ Full(strm'[j]) => Full(strm'[i])
         /\ \A i \in 1 .. Len(strm') - 1 : strm'[i] = strm[i]
         /\ Len(strm') - 1 = Len(strm)
         /\ IF Len(pairs) < Parallel THEN ~Full(strm'[Len(strm')])
                                     ELSE Full(strm'[Len(strm')])
<1> DEFINE new == [a |-> Padded(pairs, 1), b |-> Padded(pairs, 2), more |-> more]
<1>1. strm' = Append(strm, new) /\ strm \in Seq(Batch)
  BY DEF Send, ListInv, LoopTypeOK
<1>2. Len(pairs) \in Nat /\ Parallel \in Nat \ {0}
  BY ListAssumption
<1>3. CASE Len(pairs) < Parallel
  <2>1. Padded(pairs, 1)[Parallel] = NoList /\ Parallel \in Lane
    BY <1>2, <1>3 DEF Padded, Lane
  <2>2. ~Full(new)
    BY <2>1 DEF Full, NoList
  <2> HIDE DEF new
  <2>. QED BY <1>1, <1>2, <1>3, <2>2 DEF BatchesInOrder
<1>4. CASE ~(Len(pairs) < Parallel)
  <2>1. \A j \in Lane : Padded(pairs, 1)[j] = pairs[j][1] /\ j \in 1 .. Len(pairs)
    BY <1>2, <1>4 DEF Padded, Lane
  <2>2. Full(new)
    BY <1>4, <2>1 DEF Full
  <2> HIDE DEF new
  <2>. QED BY <1>1, <1>2, <1>4, <2>2 DEF BatchesInOrder
<1>. QED BY <1>3, <1>4

(* Sending leaves the buffers alone. *)
LEMMA SendKeepsAInv ==
  ASSUME ListInv, AInv, LoadOffset \/ SendLast \/ SendEnd
  PROVE  AInv'
<1>1. UNCHANGED <<req, pc, aVars>>
  BY DEF LoadOffset, SendLast, SendEnd, loop
<1>2. CacheAHasLength' /\ ATagsAreTrue'
  BY <1>1 DEF AInv, CacheAHasLength, ATagsAreTrue, Full, aVars, Holds
<1>3. BatchesInOrder /\ PaddingComesLast
  BY DEF AInv
<1>4. NothingLoaded => NothingLoaded'
  BY <1>1 DEF NothingLoaded, aVars
<1>5. strm \in Seq(Batch) /\ batch \in Seq(List \X List) /\ Len(batch) < Parallel
  BY DEF ListInv, LoopTypeOK, SenderTypeOK
<1>6. CASE LoadOffset
  <2> DEFINE a == Request(Entry(offCache.a, edges[sent + 1][1]))
             b == Request(Entry(offCache.b, edges[sent + 1][2]))
             pairs == IF a.length > 0 /\ b.length > 0 THEN Append(batch, <<a, b>>) ELSE batch
  <2>1. /\ sender = "edges" /\ sender' = sender
        /\ IF Len(pairs) = Parallel THEN Send(pairs, TRUE) /\ batch' = << >>
                                    ELSE UNCHANGED strm /\ batch' = pairs
    BY <1>6 DEF LoadOffset
  <2>2. \A i \in 1 .. Len(pairs) : pairs[i][1].length > 0
    <3> HIDE DEF a, b
    <3>. QED BY <1>3, <1>5 DEF BatchesInOrder
  <2>3. pairs \in Seq(List \X List)
    BY <1>6, OffsetPairs
  <2> HIDE DEF pairs
  <2>4. CASE Len(pairs) = Parallel
    <3>1. Send(pairs, TRUE) /\ batch' = << >>
      BY <2>1, <2>4
    <3>2. /\ \A i, j \in 1 .. Len(strm') : i <= j /\ Full(strm'[j]) => Full(strm'[i])
          /\ Full(strm'[Len(strm')]) /\ Len(strm') - 1 = Len(strm)
      <4>1. Parallel \in Nat /\ ~(Len(pairs) < Parallel) /\ TRUE \in BOOLEAN
        BY <2>4, ListAssumption
      <4>2. sender = "edges" /\ Len(pairs) = Parallel
              /\ \A i \in 1 .. Len(pairs) : pairs[i][1].length > 0
        BY <2>1, <2>2, <2>4
      <4>. QED BY <1>3, <2>3, <3>1, <4>1, <4>2, SendKeepsOrder
    <3>3. Len(strm) \in Nat
      BY <1>5
    <3>4. \A i \in 1 .. Len(strm') : Full(strm'[i])
      BY <3>2, <3>3
    <3>5. BatchesInOrder'
      BY <3>1, <3>4 DEF BatchesInOrder
    <3>. QED BY <1>1, <1>2, <1>3, <1>4, <2>1, <3>5 DEF AInv, PaddingComesLast
  <2>5. CASE Len(pairs) # Parallel
    <3>1. UNCHANGED strm /\ batch' = pairs
      BY <2>1, <2>5
    <3>2. BatchesInOrder'
      BY <1>3, <2>1, <2>2, <3>1 DEF BatchesInOrder
    <3>. QED BY <1>1, <1>2, <1>3, <1>4, <2>1, <3>2 DEF AInv, PaddingComesLast
  <2>. QED BY <2>4, <2>5
<1>7. CASE SendLast \/ SendEnd
  <2>1. /\ \E more \in BOOLEAN : Send(batch, more)
        /\ sender' # "edges" /\ UNCHANGED batch
    BY <1>7 DEF SendLast, SendEnd
  <2>2. /\ \A i, j \in 1 .. Len(strm') : i <= j /\ Full(strm'[j]) => Full(strm'[i])
        /\ \A i \in 1 .. Len(strm') - 1 : strm'[i] = strm[i]
        /\ Len(strm') - 1 = Len(strm) /\ ~Full(strm'[Len(strm')])
    BY <1>3, <1>5, <2>1, SendKeepsOrder
  <2>3. BatchesInOrder'
    BY <1>3, <2>1, <2>2 DEF BatchesInOrder
  <2>4. Len(strm) \in Nat
    BY <1>5
  <2>5. (\A i \in 1 .. Len(strm) : ~Full(strm[i])) => \A i \in 1 .. Len(strm') : ~Full(strm'[i])
    BY <2>2, <2>4
  <2>6. PaddingComesLast'
    BY <1>1, <1>3, <1>4, <2>1, <2>5 DEF PaddingComesLast
  <2>. QED BY <1>2, <2>3, <2>6 DEF AInv
<1>. QED BY <1>6, <1>7

(* A full batch is read before one that is not. *)
LEMMA ReadKeepsAInv ==
  ASSUME ListInv, AInv, ReadBatch
  PROVE  AInv'
<1>1. /\ pc = "read" /\ strm # << >> /\ strm \in Seq(Batch)
      /\ req' = strm[1] /\ strm' = Tail(strm) /\ pc' = "process"
      /\ UNCHANGED <<batch, sender, aVars>>
  BY DEF ReadBatch, ListInv, LoopTypeOK, offsetVars
<1>2. /\ Len(strm) \in Nat /\ Len(strm) >= 1 /\ Len(strm') = Len(strm) - 1
      /\ \A i \in 1 .. Len(strm') : strm'[i] = strm[i + 1] /\ i + 1 \in 1 .. Len(strm)
  BY <1>1
<1>3. BatchesInOrder /\ PaddingComesLast /\ CacheAHasLength /\ ATagsAreTrue
  BY DEF AInv
<1>4. BatchesInOrder'
  <2>1. sender' = "edges" => \A i \in 1 .. Len(strm') : Full(strm'[i])
    BY <1>1, <1>2, <1>3 DEF BatchesInOrder
  <2>2. \A i, j \in 1 .. Len(strm') : i <= j /\ Full(strm'[j]) => Full(strm'[i])
    <3> SUFFICES ASSUME NEW i \in 1 .. Len(strm'), NEW j \in 1 .. Len(strm'),
                        i <= j, Full(strm'[j])
                 PROVE  Full(strm'[i])
      OBVIOUS
    <3>1. i + 1 <= j + 1 /\ i + 1 \in 1 .. Len(strm) /\ j + 1 \in 1 .. Len(strm)
      BY <1>2
    <3>. QED BY <1>2, <1>3, <3>1 DEF BatchesInOrder
  <2>. QED BY <1>1, <1>3, <2>1, <2>2 DEF BatchesInOrder
<1>5. CASE Full(strm[1])
  <2>1. Full(req) \/ NothingLoaded
    BY <1>2, <1>3, <1>5 DEF PaddingComesLast
  <2>2. \A v \in Vertex : Begin(v) # None
    BY OffsetFacts DEF None
  <2>3. CacheAHasLength' /\ ATagsAreTrue'
    <3>1. CASE Full(req)
      BY <1>1, <1>3, <3>1 DEF CacheAHasLength, ATagsAreTrue, Full, aVars, Holds
    <3>2. CASE NothingLoaded
      BY <1>1, <2>2, <3>2 DEF CacheAHasLength, ATagsAreTrue, NothingLoaded, aVars
    <3>. QED BY <2>1, <3>1, <3>2
  <2>4. PaddingComesLast'
    BY <1>1, <1>5 DEF PaddingComesLast
  <2>. QED BY <1>4, <2>3, <2>4 DEF AInv
<1>6. CASE ~Full(strm[1])
  <2>1. \A i \in 1 .. Len(strm) : ~Full(strm[i])
    BY <1>2, <1>3, <1>6 DEF BatchesInOrder
  <2>2. sender # "edges"
    BY <1>2, <1>3, <1>6 DEF BatchesInOrder
  <2>3. PaddingComesLast'
    BY <1>1, <1>2, <2>1, <2>2 DEF PaddingComesLast
  <2>4. ~Full(req)'
    BY <1>1, <1>6
  <2>5. CacheAHasLength' /\ ATagsAreTrue'
    BY <2>4 DEF CacheAHasLength, ATagsAreTrue, Full
  <2>. QED BY <1>4, <2>3, <2>5 DEF AInv
<1>. QED BY <1>5, <1>6

(* Steps that leave the buffers of lists A and the requests alone. *)
LEMMA OthersKeepAInv ==
  ASSUME AInv, UNCHANGED <<req, strm, batch, sender, aVars>>,
         pc # "read" \/ UNCHANGED pc
  PROVE  AInv'
<1>1. BatchesInOrder'
  BY DEF AInv, BatchesInOrder
<1>2. PaddingComesLast'
  BY DEF AInv, PaddingComesLast, NothingLoaded, aVars
<1>3. CacheAHasLength' /\ ATagsAreTrue'
  BY DEF AInv, CacheAHasLength, ATagsAreTrue, Full, aVars, Holds
<1>. QED BY <1>1, <1>2, <1>3 DEF AInv

(* Nothing tags a buffer before the lines of the list are in it. *)
LEMMA LoadAKeepsTags ==
  ASSUME ListInv, TagsAreTrue, AHeld \/ ACached \/ AMissed, ARequest.length > 0
  PROVE  /\ TagsAreTrue'
         /\ tagA'[Loaded][lane] = ARequest.offset
<1>1. lane \in Lane /\ Loaded \in Side /\ ARequest \in List
  BY SideFacts DEF ListInv, LoopTypeOK, AHeld, ACached, AMissed, ARequest, Batch, Lanes
<1>2. PICK w \in Vertex : Size(w) > 0 /\ ARequest = ListOf(w)
  <2>1. ARequest # NoList
    BY DEF NoList
  <2>. QED BY <1>1, <2>1 DEF List
<1>3. ARequest.offset = Begin(w) /\ ListOf(w) \in List
  BY <1>1, <1>2 DEF ListOf
<1>4. \A v \in Vertex : Size(v) > 0 /\ Begin(v) = Begin(w) => v = w
  BY <1>2, OffsetTellsList
<1>5. ATypeOK
  BY DEF ListInv
<1>6. CASE AHeld
  <2>1. UNCHANGED aVars /\ tagA[Loaded][lane] = ARequest.offset
    BY <1>6 DEF AHeld
  <2>. QED BY <2>1 DEF aVars, TagsAreTrue, Holds
<1>7. CASE ACached
  <2>1. cacheA.tag = Begin(w) /\ UNCHANGED cacheA
    BY <1>3, <1>7 DEF ACached
  <2>2. Holds(cacheA.line, w) /\ cacheA.len = End(ListOf(w)) - First(ListOf(w))
    BY <1>2, <2>1 DEF TagsAreTrue
  <2> DEFINE copy == Copy(cacheA.line, cacheA.len, listA[Loaded][lane])
  <2>3. Holds(copy, w)
    <3> SUFFICES ASSUME NEW k \in 0 .. End(ListOf(w)) - First(ListOf(w)) - 1
                 PROVE  copy[k] = First(ListOf(w)) + k
      BY DEF Holds
    <3>1. First(ListOf(w)) \in Nat /\ End(ListOf(w)) \in Nat /\ End(ListOf(w)) <= NumLines
      BY <1>3, ListFacts
    <3>2. k \in Line /\ k < cacheA.len
      BY <2>2, <3>1, MemoryLines
    <3>. QED BY <2>2, <3>2 DEF Copy, Holds
  <2>4. /\ tagA' = [tagA EXCEPT ![Loaded][lane] = Begin(w)]
        /\ listA' = [listA EXCEPT ![Loaded][lane] = copy]
    BY <2>1, <1>7 DEF ACached
  <2> HIDE DEF copy
  <2>. QED BY <1>1, <1>3, <1>4, <1>5, <2>1, <2>2, <2>3, <2>4 DEF ATypeOK, TagsAreTrue
<1>8. CASE AMissed
  <2> DEFINE r == ARequest
             loaded == Fill(listA[Loaded][lane], r, Lines(r))
             cached == Fill(cacheA.line, r, Lines(r))
  <2>1. /\ listA' = [listA EXCEPT ![Loaded][lane] = loaded]
        /\ tagA' = [tagA EXCEPT ![Loaded][lane] = Begin(w)]
        /\ cacheA'.tag = Begin(w) /\ cacheA'.line = cached
        /\ cacheA'.len = End(r) - First(r)
    BY <1>3, <1>8 DEF AMissed
  <2>2. Holds(loaded, w) /\ Holds(cached, w)
    <3>1. listA[Loaded][lane] \in Buffer /\ cacheA.line \in Buffer
      BY <1>1, <1>5 DEF ATypeOK
    <3>. QED BY <1>1, <1>2, <3>1, FillFacts DEF Holds
  <2> HIDE DEF loaded, cached
  <2>. QED BY <1>1, <1>2, <1>3, <1>4, <1>5, <2>1, <2>2 DEF ATypeOK, TagsAreTrue
<1>. QED BY <1>6, <1>7, <1>8

LEMMA LoadAKeepsAInv ==
  ASSUME ListInv, AInv, AHeld \/ ACached \/ AMissed
  PROVE  AInv'
<1>1. pc = "a" /\ pc' \in {"a", "b"} /\ lane \in Lane /\ UNCHANGED <<req, strm, batch, sender>>
  BY DEF ListInv, LoopTypeOK, AHeld, ACached, AMissed, ToNextLaneA, offsetVars
<1>2. BatchesInOrder' /\ PaddingComesLast'
  BY <1>1 DEF AInv, BatchesInOrder, PaddingComesLast
<1>3. CASE Full(req)
  <2>1. TagsAreTrue
    BY <1>3 DEF AInv, ATagsAreTrue, CacheAHasLength, TagsAreTrue, Full
  <2>2. ARequest.length > 0
    BY <1>1, <1>3 DEF ARequest, Full
  <2>3. TagsAreTrue'
    BY <2>1, <2>2, LoadAKeepsTags
  <2>. QED BY <1>2, <2>3 DEF AInv, TagsAreTrue, ATagsAreTrue, CacheAHasLength
<1>4. CASE ~Full(req)
  BY <1>1, <1>2, <1>4 DEF AInv, CacheAHasLength, ATagsAreTrue, Full
<1>. QED BY <1>3, <1>4

(* In every state the tags of lists A are true while batches are full. *)
THEOREM AInvariant == Spec => []AInv
<1>1. ListInv /\ AInv /\ [Next]_vars => AInv'
  <2> SUFFICES ASSUME ListInv, AInv, [Next]_vars PROVE AInv'
    OBVIOUS
  <2>1. CASE LoadOffset \/ SendLast \/ SendEnd
    BY <2>1, SendKeepsAInv
  <2>2. CASE ReadBatch
    BY <2>2, ReadKeepsAInv
  <2>3. CASE AHeld \/ ACached \/ AMissed
    BY <2>3, LoadAKeepsAInv
  <2>4. CASE ProcessList \/ BHit \/ BFirstMiss \/ BMissApart \/ BMissNear \/ BEnd
    <3>1. UNCHANGED <<req, strm, batch, sender, aVars>> /\ pc # "read"
      BY <2>4 DEF ProcessList, BHit, BFirstMiss, BMissApart, BMissNear, BEnd,
                  BHits, BMisses, ToNextLaneB, offsetVars
    <3>. QED BY <3>1, OthersKeepAInv
  <2>5. CASE UNCHANGED vars
    BY <2>5, OthersKeepAInv DEF vars, offsetVars, loop
  <2>. QED BY <2>1, <2>2, <2>3, <2>4, <2>5 DEF Next, Returned
<1>. QED BY <1>1, InitEstablishesAInv, ListInvariant, PTL DEF Spec

(* While every batch was full, a buffer or the cache of lists A with a tag *)
(* holds that whole list.                                                  *)
THEOREM ATagsStayTrue == Spec => []ATagsAreTrue
<1>1. AInv => ATagsAreTrue
  BY DEF AInv
<1>. QED BY <1>1, AInvariant, PTL
-----------------------------------------------------------------------------
(* The edges one after the other.  A batch is known by its number: it      *)
(* carries the edges that follow those of the batches before it.           *)
Turn      == Len(counted)
Read      == IF pc = "process" THEN Turn + 1 ELSE Turn
Before(q) == q * Parallel

(* What a lane carries: the lists of the k-th edge, or none after the last. *)
IsPair(k, a, b) ==
  \/ \E e \in Kept : Rank(e) = k /\ a = ListOf(edges[e][1]) /\ b = ListOf(edges[e][2])
  \/ k > Cardinality(Kept) /\ a = NoList /\ b = NoList

Carries(b, q) == \A j \in Lane : IsPair(Before(q) + j, b.a[j], b.b[j])

(* The batch sent last has no edges; the one before it may be short. *)
Numbered(b, q) == IF b.more THEN Before(q) <= Cardinality(Kept) /\ Carries(b, q)
                            ELSE Cardinality(Kept) < Before(q)

SentInOrder ==
  /\ \A i \in 1 .. Len(strm) : Numbered(strm[i], Read + i - 1)
  /\ sender = "edges" =>
       /\ Rank(sent) = Before(Read + Len(strm)) + Len(batch)
       /\ \A i \in 1 .. Len(batch) :
            IsPair(Before(Read + Len(strm)) + i, batch[i][1], batch[i][2])
  /\ sender = "end" => Cardinality(Kept) < Before(Read + Len(strm))

ReadInOrder ==
  /\ pc \in {"process", "a", "b"} => Numbered(req, Read - 1)
  /\ pc \in {"a", "b", "done"} => Turn > 0
  /\ pc = "done" => Cardinality(Kept) < Before(Turn - 1)
  /\ pc = "read" /\ Turn > 0 => req.more /\ Numbered(req, Turn - 1)
  /\ Turn = 0 => NothingLoaded

HoldsList(buffer, r) == \A k \in 0 .. End(r) - First(r) - 1 : buffer[k] = First(r) + k

(* The batch loaded last is in the buffers that come next. *)
LoadedBefore ==
  /\ out = [s \in Side |-> out[s]]
  /\ pc \in {"read", "process"} /\ Turn > 0 =>
       /\ Carries(out[Processed], Turn - 1)
       /\ \A j \in Lane : /\ HoldsList(listA[Processed][j], out[Processed].a[j])
                          /\ HoldsList(listB[Processed][j], out[Processed].b[j])

(* A list A is in its buffer after its lane's turn; tags are true until    *)
(* the padding begins.                                                     *)
LoadsA ==
  req.more =>
    /\ pc = "process" => TagsAreTrue
    /\ pc = "a" /\ (\A j \in Lane : j < lane => req.a[j].length > 0) => TagsAreTrue
    /\ \A j \in Lane : pc = "b" \/ (pc = "a" /\ j < lane) =>
         HoldsList(listA[Loaded][j], req.a[j])

(* A list B is in its buffer after its lane's turn, or the burst under way *)
(* has all of it.                                                          *)
LoadsB ==
  pc = "b" => \A j \in Lane : j < lane =>
    \/ HoldsList(listB[Loaded][j], req.b[j])
    \/ burst.on /\ Lines(req.b[j]) \subseteq BurstLines

CountedInOrder ==
  /\ \E S : counted \in Seq(S)
  /\ \A n \in 2 .. Turn, j \in Lane :
       \/ \E e \in Kept : Rank(e) = Before(n - 2) + j /\ counted[n][j] = Pair(edges[e])
       \/ /\ Before(n - 2) + j > Cardinality(Kept)
          /\ \A x \in {1, 2} : counted[n][j][x].r = NoList

OnceInv == /\ SentInOrder /\ ReadInOrder /\ LoadedBefore
           /\ LoadsA /\ LoadsB /\ CountedInOrder

LEMMA BeforeFacts ==
  /\ \A q \in Nat : Before(q) \in Nat /\ Before(q + 1) = Before(q) + Parallel
  /\ Before(0) = 0
  /\ Parallel \in Nat \ {0}
<1>1. Parallel \in Nat \ {0}
  BY ListAssumption
<1>2. \A q \in Nat : q * Parallel \in Nat /\ (q + 1) * Parallel = q * Parallel + Parallel
  BY <1>1
<1>. QED BY <1>1, <1>2 DEF Before

(* The edges that are kept, counted up to one of them. *)
LEMMA RankFacts ==
  ASSUME edges \in Seq(Vertex \X Vertex)
  PROVE  /\ Cardinality(Kept) \in Nat /\ Rank(0) = 0
         /\ Rank(Len(edges)) = Cardinality(Kept)
         /\ \A n \in Nat : /\ Rank(n) \in Nat /\ Rank(n) <= Cardinality(Kept)
                           /\ Rank(n + 1) = Rank(n) + (IF n + 1 \in Kept THEN 1 ELSE 0)
<1>1. Kept \subseteq 1 .. Len(edges) /\ Len(edges) \in Nat
  BY DEF Kept
<1>2. IsFiniteSet(Kept) /\ Cardinality(Kept) \in Nat
  <2>1. IsFiniteSet(1 .. Len(edges))
    BY <1>1, FS_Interval
  <2>2. IsFiniteSet(Kept)
    BY <1>1, <2>1, FS_Subset
  <2>. QED BY <2>2, FS_CardinalityType
<1>3. \A n \in Nat : IsFiniteSet(Kept \cap (1 .. n)) /\ Rank(n) \in Nat /\ Rank(n) <= Cardinality(Kept)
  <2> SUFFICES ASSUME NEW n \in Nat
               PROVE  IsFiniteSet(Kept \cap (1 .. n)) /\ Rank(n) \in Nat /\ Rank(n) <= Cardinality(Kept)
    OBVIOUS
  <2>1. Kept \cap (1 .. n) \subseteq Kept
    OBVIOUS
  <2>. QED BY <1>2, <2>1, FS_Subset, FS_CardinalityType DEF Rank
<1>4. Rank(0) = 0
  <2>1. Kept \cap (1 .. 0) = {}
    OBVIOUS
  <2>. QED BY <2>1, FS_EmptySet DEF Rank
<1>5. Rank(Len(edges)) = Cardinality(Kept)
  <2>1. Kept \cap (1 .. Len(edges)) = Kept
    BY <1>1
  <2>. QED BY <2>1 DEF Rank
<1>6. ASSUME NEW n \in Nat
      PROVE  Rank(n + 1) = Rank(n) + (IF n + 1 \in Kept THEN 1 ELSE 0)
  <2>1. CASE n + 1 \in Kept
    <3>1. Kept \cap (1 .. n + 1) = (Kept \cap (1 .. n)) \cup {n + 1}
      BY <2>1
    <3>2. n + 1 \notin Kept \cap (1 .. n)
      OBVIOUS
    <3>3. Cardinality((Kept \cap (1 .. n)) \cup {n + 1}) = Cardinality(Kept \cap (1 .. n)) + 1
      BY <1>3, <3>2, FS_AddElement
    <3>. QED BY <2>1, <3>1, <3>3 DEF Rank
  <2>2. CASE n + 1 \notin Kept
    <3>1. Kept \cap (1 .. n + 1) = Kept \cap (1 .. n)
      BY <2>2
    <3>2. Rank(n + 1) = Rank(n) /\ Rank(n) \in Nat
      BY <1>3, <3>1 DEF Rank
    <3>. QED BY <2>2, <3>2
  <2>. QED BY <2>1, <2>2
<1>. QED BY <1>2, <1>3, <1>4, <1>5, <1>6

(* The input stays as it is, and with it what a batch has to carry. *)
LEMMA EdgesStay ==
  ASSUME UNCHANGED edges
  PROVE  /\ Kept' = Kept /\ \A e : Rank(e)' = Rank(e)
         /\ \A k, a, b : IsPair(k, a, b)' <=> IsPair(k, a, b)
         /\ \A b, q : Carries(b, q)' <=> Carries(b, q)
         /\ \A b, q : Numbered(b, q)' <=> Numbered(b, q)
<1>1. Kept' = Kept
  BY DEF Kept
<1>2. \A e : Rank(e)' = Rank(e)
  BY <1>1 DEF Rank
<1>3. \A k, a, b : IsPair(k, a, b)' <=> IsPair(k, a, b)
  BY <1>1, <1>2 DEF IsPair
<1>4. \A b, q : Carries(b, q)' <=> Carries(b, q)
  BY <1>3 DEF Carries
<1>5. \A b, q : Numbered(b, q)' <=> Numbered(b, q)
  BY <1>1, <1>4 DEF Numbered
<1>. QED BY <1>1, <1>2, <1>3, <1>4, <1>5

(* A lane of a batch that has an edge to carry has both its lists. *)
LEMMA CarriedPair ==
  ASSUME ListInv, NEW k \in Nat, NEW a, NEW b, IsPair(k, a, b)
  PROVE  /\ a \in List /\ b \in List
         /\ IF k <= Cardinality(Kept) THEN a.length > 0 /\ b.length > 0
                                      ELSE a = NoList /\ b = NoList
<1>1. edges \in Seq(Vertex \X Vertex) /\ Kept \subseteq 1 .. Len(edges)
  BY DEF ListInv, SenderTypeOK, Kept
<1>2. CASE \E e \in Kept : Rank(e) = k /\ a = ListOf(edges[e][1]) /\ b = ListOf(edges[e][2])
  <2>1. PICK e \in Kept : Rank(e) = k /\ a = ListOf(edges[e][1]) /\ b = ListOf(edges[e][2])
    BY <1>2
  <2>2. edges[e] \in Vertex \X Vertex /\ e \in Nat
    BY <1>1
  <2>3. edges[e][1] \in Vertex /\ edges[e][2] \in Vertex
    BY <2>2
  <2>4. Size(edges[e][1]) > 0 /\ Size(edges[e][2]) > 0
    BY DEF Kept
  <2>5. a.length > 0 /\ b.length > 0
    BY <2>1, <2>4 DEF ListOf
  <2>6. k <= Cardinality(Kept)
    BY <1>1, <2>1, <2>2, RankFacts
  <2>. QED BY <2>1, <2>3, <2>4, <2>5, <2>6 DEF List
<1>3. CASE k > Cardinality(Kept) /\ a = NoList /\ b = NoList
  <2>1. Cardinality(Kept) \in Nat
    BY <1>1, RankFacts
  <2>. QED BY <1>3, <2>1 DEF List
<1>. QED BY <1>2, <1>3 DEF IsPair

(* A batch put behind the others has the next number. *)
LEMMA SendKeepsNumbers ==
  ASSUME ListInv, SentInOrder, Turn \in Nat,
         NEW pairs \in Seq(List \X List), NEW more \in BOOLEAN,
         Send(pairs, more), UNCHANGED <<edges, pc, counted>>,
         Numbered([a |-> Padded(pairs, 1), b |-> Padded(pairs, 2), more |-> more],
                  Read + Len(strm))
  PROVE  /\ (\A i \in 1 .. Len(strm) : Numbered(strm[i], Read + i - 1))'
         /\ Len(strm') = Len(strm) + 1 /\ Read' = Read /\ Read \in Nat
<1> DEFINE new == [a |-> Padded(pairs, 1), b |-> Padded(pairs, 2), more |-> more]
<1>1. strm' = Append(strm, new) /\ strm \in Seq(Batch) /\ Numbered(new, Read + Len(strm))
  BY DEF Send, ListInv, LoopTypeOK
<1>2. Read' = Read /\ Read \in Nat
  BY DEF Read, Turn
<1> HIDE DEF new
<1>3. /\ Len(strm) \in Nat /\ Len(strm') = Len(strm) + 1
      /\ strm'[Len(strm) + 1] = new
      /\ \A i \in 1 .. Len(strm) : strm'[i] = strm[i]
  BY <1>1
<1>4. ASSUME NEW i \in 1 .. Len(strm')
      PROVE  Numbered(strm'[i], Read + i - 1)
  <2>1. CASE i \in 1 .. Len(strm)
    BY <1>3, <2>1 DEF SentInOrder
  <2>2. CASE i = Len(strm) + 1
    <3>1. Read + i - 1 = Read + Len(strm)
      BY <1>2, <1>3, <2>2
    <3>. QED BY <1>1, <1>3, <2>2, <3>1
  <2>. QED BY <1>3, <2>1, <2>2
<1>5. Kept' = Kept
  BY EdgesStay
<1>6. \A i \in 1 .. Len(strm') : (Numbered(strm[i], Read + i - 1))'
  BY <1>2, <1>4, <1>5 DEF Numbered, Carries, IsPair, Rank, Before
<1>. QED BY <1>2, <1>3, <1>6

(* One more edge: its lists come next, if it is kept. *)
LEMMA NextPair ==
  ASSUME ListInv, Turn \in Nat, SentInOrder, LoadOffset,
         NEW u, NEW v, NEW pairs, NEW q \in Nat,
         u = edges[sent + 1][1], v = edges[sent + 1][2], q = Read + Len(strm),
         pairs = IF ListOf(u).length > 0 /\ ListOf(v).length > 0
                 THEN Append(batch, <<ListOf(u), ListOf(v)>>) ELSE batch
  PROVE  /\ Rank(sent + 1) = Before(q) + Len(pairs)
         /\ \A i \in 1 .. Len(pairs) : IsPair(Before(q) + i, pairs[i][1], pairs[i][2])
<1>1. /\ edges \in Seq(Vertex \X Vertex) /\ sent \in Nat /\ sent + 1 \in 1 .. Len(edges)
      /\ batch \in Seq(List \X List) /\ Len(batch) \in Nat /\ sender = "edges"
  BY DEF ListInv, SenderTypeOK, LoadOffset
<1>2. /\ Rank(sent) = Before(q) + Len(batch)
      /\ \A i \in 1 .. Len(batch) : IsPair(Before(q) + i, batch[i][1], batch[i][2])
  BY <1>1 DEF SentInOrder
<1>3. Rank(sent + 1) = Rank(sent) + (IF sent + 1 \in Kept THEN 1 ELSE 0) /\ Rank(sent) \in Nat
  BY <1>1, RankFacts
<1>4. sent + 1 \in Kept <=> ListOf(u).length > 0 /\ ListOf(v).length > 0
  BY <1>1 DEF Kept, ListOf
<1>5. CASE sent + 1 \in Kept
  <2> DEFINE pair == <<ListOf(u), ListOf(v)>>
  <2>1. pairs = Append(batch, pair)
    BY <1>4, <1>5
  <2>2. IsPair(Rank(sent + 1), pair[1], pair[2])
    BY <1>5 DEF IsPair
  <2> HIDE DEF pair
  <2>3. Len(pairs) = Len(batch) + 1 /\ pairs[Len(batch) + 1] = pair
        /\ \A i \in 1 .. Len(batch) : pairs[i] = batch[i]
    <3>1. batch \in Seq(List \X List \cup {pair})
      BY <1>1
    <3>. QED BY <1>1, <2>1, <3>1
  <2>4. Before(q) \in Nat
    BY BeforeFacts
  <2>5. Rank(sent + 1) = Before(q) + (Len(batch) + 1)
    BY <1>1, <1>2, <1>3, <1>5, <2>4
  <2>6. ASSUME NEW i \in 1 .. Len(pairs) PROVE IsPair(Before(q) + i, pairs[i][1], pairs[i][2])
    <3>1. CASE i \in 1 .. Len(batch)
      BY <1>2, <2>3, <3>1
    <3>2. CASE i = Len(batch) + 1
      BY <2>2, <2>3, <2>5, <3>2
    <3>. QED BY <1>1, <2>3, <3>1, <3>2
  <2>. QED BY <2>3, <2>5, <2>6
<1>6. CASE sent + 1 \notin Kept
  <2>1. pairs = batch
    BY <1>4, <1>6
  <2>. QED BY <1>2, <1>3, <1>6, <2>1
<1>. QED BY <1>5, <1>6

LEMMA LoadOffsetKeepsOrder ==
  ASSUME ListInv, Turn \in Nat, SentInOrder, LoadOffset
  PROVE  SentInOrder'
<1>1. PICK u : u = edges[sent + 1][1]
  OBVIOUS
<1>2. PICK v : v = edges[sent + 1][2]
  OBVIOUS
<1>3. PICK q : q = Read + Len(strm)
  OBVIOUS
<1>4. PICK pairs : pairs = IF ListOf(u).length > 0 /\ ListOf(v).length > 0
                           THEN Append(batch, <<ListOf(u), ListOf(v)>>) ELSE batch
  OBVIOUS
<1>5. pairs \in Seq(List \X List) /\ Len(pairs) <= Parallel
  BY <1>1, <1>2, <1>4, OffsetPairs
<1>6. /\ IF Len(pairs) = Parallel THEN Send(pairs, TRUE) /\ batch' = << >>
                                  ELSE UNCHANGED strm /\ batch' = pairs
      /\ sent' = sent + 1 /\ sender' = "edges" /\ UNCHANGED <<edges, pc, counted>>
  BY <1>1, <1>2, <1>4, OffsetPairs DEF LoadOffset, input, loop
<1>7. Read' = Read /\ q \in Nat /\ Len(strm) \in Nat /\ Read \in Nat
  BY <1>3, <1>6 DEF Read, Turn, ListInv, LoopTypeOK
<1>8. /\ Rank(sent + 1) = Before(q) + Len(pairs)
      /\ \A i \in 1 .. Len(pairs) : IsPair(Before(q) + i, pairs[i][1], pairs[i][2])
  BY <1>1, <1>2, <1>3, <1>4, <1>7, NextPair
<1>9. Kept' = Kept
  BY <1>6, EdgesStay
<1>10. Before(q) \in Nat /\ Before(q + 1) = Before(q) + Parallel /\ Parallel \in Nat
       /\ Len(pairs) \in Nat
  <2>1. Len(pairs) \in Nat
    BY <1>5
  <2>. QED BY <1>7, <2>1, BeforeFacts
<1>11. CASE Len(pairs) = Parallel
  <2> DEFINE new == [a |-> Padded(pairs, 1), b |-> Padded(pairs, 2), more |-> TRUE]
  <2>1. Send(pairs, TRUE) /\ batch' = << >>
    BY <1>6, <1>11
  <2>2. Carries(new, q)
    <3>1. \A j \in Lane : j \in 1 .. Len(pairs) /\ new.a[j] = pairs[j][1] /\ new.b[j] = pairs[j][2]
      BY <1>11 DEF Padded, Lane
    <3>. QED BY <1>8, <3>1 DEF Carries
  <2>3. Before(q) <= Cardinality(Kept)
    <3>1. Rank(sent + 1) \in Nat /\ Rank(sent + 1) <= Cardinality(Kept) /\ Cardinality(Kept) \in Nat
      BY RankFacts DEF ListInv, SenderTypeOK
    <3>. QED BY <1>8, <1>10, <3>1
  <2>4. Numbered(new, q)
    BY <2>2, <2>3 DEF Numbered
  <2>5. /\ (\A i \in 1 .. Len(strm) : Numbered(strm[i], Read + i - 1))'
        /\ Len(strm') = Len(strm) + 1
    BY <1>3, <1>5, <1>6, <2>1, <2>4, SendKeepsNumbers
  <2>6. Read' + Len(strm') = q + 1
    BY <1>3, <1>7, <2>5
  <2>7. Rank(sent)' = Before(q + 1) + 0
    <3>1. Rank(sent)' = Rank(sent + 1)
      BY <1>6, <1>9 DEF Rank
    <3>. QED BY <1>8, <1>10, <1>11, <3>1
  <2>. QED BY <1>6, <2>1, <2>5, <2>6, <2>7 DEF SentInOrder, Before
<1>12. CASE Len(pairs) # Parallel
  <2>1. UNCHANGED strm /\ batch' = pairs
    BY <1>6, <1>12
  <2>2. (\A i \in 1 .. Len(strm) : Numbered(strm[i], Read + i - 1))'
    BY <1>6, <1>7, <1>9, <2>1 DEF SentInOrder, Numbered, Carries, IsPair, Rank, Before
  <2>3. (Rank(sent) = Before(Read + Len(strm)) + Len(batch))'
    BY <1>3, <1>6, <1>7, <1>8, <1>9, <2>1 DEF Rank, Before
  <2>4. (\A i \in 1 .. Len(batch) : IsPair(Before(Read + Len(strm)) + i, batch[i][1], batch[i][2]))'
    BY <1>3, <1>6, <1>7, <1>8, <1>9, <2>1 DEF IsPair, Rank, Before
  <2>. QED BY <1>6, <2>2, <2>3, <2>4 DEF SentInOrder
<1>. QED BY <1>11, <1>12

(* The batch that is not full, and the one that follows it. *)
LEMMA SendRestKeepsOrder ==
  ASSUME ListInv, Turn \in Nat, SentInOrder, SendLast \/ SendEnd
  PROVE  SentInOrder'
<1>1. PICK q : q = Read + Len(strm)
  OBVIOUS
<1>2. /\ batch \in Seq(List \X List) /\ Len(batch) \in Nat /\ Len(batch) < Parallel
      /\ sent \in Nat /\ edges \in Seq(Vertex \X Vertex)
  BY DEF ListInv, SenderTypeOK
<1>3. UNCHANGED <<edges, pc, counted, sent, batch>>
  BY DEF SendLast, SendEnd, input, loop
<1>4. q \in Nat /\ Len(strm) \in Nat /\ Read \in Nat
  BY <1>1 DEF Read, Turn, ListInv, LoopTypeOK
<1>5. Before(q) \in Nat /\ Before(q + 1) = Before(q) + Parallel /\ Parallel \in Nat
  BY <1>4, BeforeFacts
<1>6. Cardinality(Kept) \in Nat
  BY <1>2, RankFacts
<1>7. CASE SendLast
  <2> DEFINE new == [a |-> Padded(batch, 1), b |-> Padded(batch, 2), more |-> TRUE]
  <2>1. Send(batch, TRUE) /\ sender' = "end" /\ sender = "edges" /\ sent = Len(edges)
    BY <1>7 DEF SendLast
  <2>2. Cardinality(Kept) = Before(q) + Len(batch)
    <3>1. Rank(sent) = Cardinality(Kept)
      BY <1>2, <2>1, RankFacts
    <3>. QED BY <1>1, <2>1, <3>1 DEF SentInOrder
  <2>3. Carries(new, q)
    <3> SUFFICES ASSUME NEW j \in Lane PROVE IsPair(Before(q) + j, new.a[j], new.b[j])
      BY DEF Carries
    <3>1. CASE j <= Len(batch)
      <4>1. new.a[j] = batch[j][1] /\ new.b[j] = batch[j][2]
        BY <3>1 DEF Padded
      <4>2. j \in 1 .. Len(batch)
        BY <1>2, <3>1 DEF Lane
      <4>. QED BY <1>1, <2>1, <4>1, <4>2 DEF SentInOrder
    <3>2. CASE ~(j <= Len(batch))
      <4>1. new.a[j] = NoList /\ new.b[j] = NoList
        BY <3>2 DEF Padded
      <4>2. Before(q) + j > Cardinality(Kept)
        BY <1>2, <1>5, <2>2, <3>2 DEF Lane
      <4>. QED BY <4>1, <4>2 DEF IsPair
    <3>. QED BY <3>1, <3>2
  <2>4. Numbered(new, q)
    BY <1>2, <1>5, <2>2, <2>3 DEF Numbered
  <2>5. /\ (\A i \in 1 .. Len(strm) : Numbered(strm[i], Read + i - 1))'
        /\ Len(strm') = Len(strm) + 1 /\ Read' = Read
    BY <1>1, <1>2, <1>3, <2>1, <2>4, SendKeepsNumbers
  <2>6. (Cardinality(Kept) < Before(Read + Len(strm)))'
    <3>1. Read' + Len(strm') = q + 1
      BY <1>1, <1>4, <2>5
    <3>2. Cardinality(Kept) < Before(q + 1)
      BY <1>2, <1>5, <2>2
    <3>3. Kept' = Kept
      BY <1>3, EdgesStay
    <3>. QED BY <3>1, <3>2, <3>3 DEF Before
  <2>. QED BY <2>1, <2>5, <2>6 DEF SentInOrder
<1>8. CASE SendEnd
  <2> DEFINE new == [a |-> Padded(batch, 1), b |-> Padded(batch, 2), more |-> FALSE]
  <2>1. Send(batch, FALSE) /\ sender' = "done" /\ sender = "end"
    BY <1>8 DEF SendEnd
  <2>2. Cardinality(Kept) < Before(q)
    BY <1>1, <2>1 DEF SentInOrder
  <2>3. Numbered(new, q)
    BY <2>2 DEF Numbered
  <2>4. (\A i \in 1 .. Len(strm) : Numbered(strm[i], Read + i - 1))'
    BY <1>1, <1>2, <1>3, <2>1, <2>3, SendKeepsNumbers
  <2>. QED BY <2>1, <2>4 DEF SentInOrder
<1>. QED BY <1>7, <1>8
-----------------------------------------------------------------------------
(* Sending changes nothing that the loop has read. *)
LEMMA SendKeepsOnce ==
  ASSUME ListInv, OnceInv, LoadOffset \/ SendLast \/ SendEnd
  PROVE  OnceInv'
<1>1. UNCHANGED <<edges, pc, pp, lane, req, out, aVars, bVars, counted>>
  BY DEF LoadOffset, SendLast, SendEnd, input, loop
<1>2. Turn' = Turn /\ Read' = Read /\ Kept' = Kept
  BY <1>1, EdgesStay DEF Turn, Read
<1>3. SentInOrder'
  BY LoadOffsetKeepsOrder, SendRestKeepsOrder DEF OnceInv, CountedInOrder, Turn
<1>4. ReadInOrder'
  BY <1>1, <1>2 DEF OnceInv, ReadInOrder, Numbered, Carries, IsPair, Rank, Before,
                    NothingLoaded, aVars
<1>5. LoadedBefore'
  BY <1>1, <1>2 DEF OnceInv, LoadedBefore, Carries, IsPair, Rank, Before, Processed, Loaded,
                    Other, HoldsList, aVars, bVars
<1>6. LoadsA'
  BY <1>1 DEF OnceInv, LoadsA, TagsAreTrue, Holds, HoldsList, Loaded, aVars
<1>7. LoadsB'
  BY <1>1 DEF OnceInv, LoadsB, HoldsList, Loaded, BurstLines, bVars
<1>8. CountedInOrder'
  BY <1>1, <1>2 DEF OnceInv, CountedInOrder, Rank, Before, Pair
<1>. QED BY <1>3, <1>4, <1>5, <1>6, <1>7, <1>8 DEF OnceInv

(* Before a batch with edges all tags are true: nothing was loaded yet, or *)
(* the batch before it was full.                                           *)
LEMMA TagsBeforeBatch ==
  ASSUME ListInv, AInv, OnceInv, pc = "read", Before(Turn) <= Cardinality(Kept)
  PROVE  TagsAreTrue
<1>1. Turn \in Nat
  BY DEF OnceInv, CountedInOrder, Turn
<1>2. CASE Turn = 0
  <2>1. NothingLoaded
    BY <1>2 DEF OnceInv, ReadInOrder
  <2>2. \A v \in Vertex : Begin(v) # None
    BY OffsetFacts DEF None
  <2>. QED BY <2>1, <2>2 DEF NothingLoaded, TagsAreTrue
<1>3. CASE Turn > 0
  <2>1. PICK q \in Nat : Turn = q + 1
    BY <1>1, <1>3
  <2>2. Turn - 1 = q
    BY <2>1
  <2>3. Carries(req, q)
    BY <1>3, <2>2 DEF OnceInv, ReadInOrder, Numbered
  <2>4. Before(q) \in Nat /\ Before(q + 1) = Before(q) + Parallel /\ Parallel \in Nat
    BY BeforeFacts
  <2>5. Cardinality(Kept) \in Nat
    BY RankFacts DEF ListInv, SenderTypeOK
  <2>6. Full(req)
    <3> SUFFICES ASSUME NEW j \in Lane PROVE req.a[j].length > 0
      BY DEF Full
    <3>1. IsPair(Before(q) + j, req.a[j], req.b[j])
      BY <2>3 DEF Carries
    <3>2. Before(q) + j \in Nat /\ Before(q) + j <= Cardinality(Kept)
      BY <2>1, <2>4, <2>5 DEF Lane
    <3>. QED BY <3>1, <3>2, CarriedPair
  <2>. QED BY <2>6 DEF AInv, ATagsAreTrue, CacheAHasLength, TagsAreTrue, Full
<1>. QED BY <1>1, <1>2, <1>3

LEMMA ReadKeepsOnce ==
  ASSUME ListInv, AInv, OnceInv, ReadBatch
  PROVE  OnceInv'
<1>1. /\ pc = "read" /\ strm # << >> /\ strm \in Seq(Batch)
      /\ req' = strm[1] /\ strm' = Tail(strm) /\ pc' = "process"
      /\ UNCHANGED <<edges, sent, batch, sender, pp, lane, out, aVars, bVars, counted>>
  BY DEF ReadBatch, ListInv, LoopTypeOK, offsetVars, input
<1>2. /\ Len(strm) \in Nat /\ Len(strm) >= 1 /\ Len(strm') = Len(strm) - 1
      /\ \A i \in 1 .. Len(strm') : strm'[i] = strm[i + 1] /\ i + 1 \in 1 .. Len(strm)
  BY <1>1
<1>3. Turn \in Nat /\ Turn' = Turn /\ Read = Turn /\ Read' = Turn + 1
  <2>1. Turn \in Nat
    BY DEF OnceInv, CountedInOrder, Turn
  <2>. QED BY <1>1, <2>1 DEF Turn, Read
<1>4. Kept' = Kept
  BY <1>1, EdgesStay
<1>5. Read' + Len(strm') = Read + Len(strm)
  BY <1>2, <1>3
<1>6. Numbered(strm[1], Turn)
  <2>1. 1 \in 1 .. Len(strm) /\ Read + 1 - 1 = Turn
    BY <1>2, <1>3
  <2>2. Numbered(strm[1], Read + 1 - 1)
    BY <2>1 DEF OnceInv, SentInOrder
  <2>. QED BY <2>1, <2>2
<1>7. SentInOrder'
  <2>1. \A i \in 1 .. Len(strm') : Numbered(strm'[i], Read' + i - 1)
    <3> SUFFICES ASSUME NEW i \in 1 .. Len(strm')
                 PROVE  Numbered(strm'[i], Read' + i - 1)
      OBVIOUS
    <3>1. Read + (i + 1) - 1 = Read' + i - 1 /\ i + 1 \in 1 .. Len(strm) /\ strm'[i] = strm[i + 1]
      BY <1>2, <1>3
    <3>2. Numbered(strm[i + 1], Read + (i + 1) - 1)
      BY <3>1 DEF OnceInv, SentInOrder
    <3>. QED BY <3>1, <3>2
  <2>2. (\A i \in 1 .. Len(strm) : Numbered(strm[i], Read + i - 1))'
    BY <1>1, <1>4, <2>1 DEF Numbered, Carries, IsPair, Rank, Before
  <2>3. (sender = "edges" =>
         /\ Rank(sent) = Before(Read + Len(strm)) + Len(batch)
         /\ \A i \in 1 .. Len(batch) :
              IsPair(Before(Read + Len(strm)) + i, batch[i][1], batch[i][2]))'
    BY <1>1, <1>4, <1>5 DEF OnceInv, SentInOrder, IsPair, Rank, Before
  <2>4. (sender = "end" => Cardinality(Kept) < Before(Read + Len(strm)))'
    BY <1>1, <1>4, <1>5 DEF OnceInv, SentInOrder, Before
  <2>. QED BY <2>2, <2>3, <2>4 DEF SentInOrder
<1>8. ReadInOrder'
  <2>1. Numbered(req, Read - 1)'
    <3>1. Read' - 1 = Turn
      BY <1>3
    <3>. QED BY <1>1, <1>4, <1>6, <3>1 DEF Numbered, Carries, IsPair, Rank, Before
  <2>2. Turn' = 0 => NothingLoaded'
    BY <1>1, <1>3 DEF OnceInv, ReadInOrder, NothingLoaded, aVars
  <2>. QED BY <1>1, <2>1, <2>2 DEF ReadInOrder
<1>9. LoadedBefore'
  BY <1>1, <1>3, <1>4 DEF OnceInv, LoadedBefore, Carries, IsPair, Rank, Before, Processed,
                          Loaded, Other, HoldsList, aVars, bVars
<1>10. LoadsA'
  <2>1. req'.more => TagsAreTrue
    BY <1>1, <1>6, TagsBeforeBatch DEF Numbered
  <2>2. TagsAreTrue => TagsAreTrue'
    BY <1>1 DEF TagsAreTrue, Holds, aVars
  <2>. QED BY <1>1, <2>1, <2>2 DEF LoadsA
<1>11. LoadsB'
  BY <1>1 DEF LoadsB
<1>12. CountedInOrder'
  BY <1>1, <1>3, <1>4 DEF OnceInv, CountedInOrder, Rank, Before, Pair
<1>. QED BY <1>7, <1>8, <1>9, <1>10, <1>11, <1>12 DEF OnceInv

(* A buffer that holds a list is seen as the list memory has. *)
LEMMA SeenIsFetched ==
  ASSUME NEW v \in Vertex, ListOf(v) \in List, NEW buffer, HoldsList(buffer, ListOf(v))
  PROVE  Seen(buffer, ListOf(v)) = Fetched(v)
<1>1. /\ First(ListOf(v)) \in Nat /\ End(ListOf(v)) \in Nat /\ End(ListOf(v)) <= NumLines
  BY ListFacts
<1>2. \A k \in 0 .. End(ListOf(v)) - First(ListOf(v)) - 1 :
        /\ buffer[k] = First(ListOf(v)) + k
        /\ [l \in Line |-> First(ListOf(v)) + l][k] = First(ListOf(v)) + k
  <2> SUFFICES ASSUME NEW k \in 0 .. End(ListOf(v)) - First(ListOf(v)) - 1
               PROVE  k \in Line
    BY DEF HoldsList
  <2>. QED BY <1>1, MemoryLines
<1>. QED BY <1>2 DEF Seen, Fetched

(* A turn intersects the lists of the batch loaded before. *)
LEMMA ProcessKeepsOnce ==
  ASSUME ListInv, OnceInv, ProcessList
  PROVE  OnceInv'
<1> DEFINE side == Processed
           seen == [j \in Lane |-> <<Seen(listA[side][j], out[side].a[j]),
                                     Seen(listB[side][j], out[side].b[j])>>]
<1>1. /\ pc = "process" /\ pc' = "a" /\ lane' = 1 /\ counted' = Append(counted, seen)
      /\ UNCHANGED <<edges, sent, batch, sender, strm, pp, req, out, aVars, bVars>>
  BY DEF ProcessList, offsetVars, input
<1>2. PICK S : counted \in Seq(S)
  BY DEF OnceInv, CountedInOrder
<1> HIDE DEF seen
<1>3. /\ counted' \in Seq(S \cup {seen}) /\ Turn \in Nat /\ Turn' = Turn + 1
      /\ counted'[Turn + 1] = seen
      /\ \A n \in 1 .. Turn : counted'[n] = counted[n]
  <2>1. counted \in Seq(S \cup {seen})
    BY <1>2
  <2>. QED BY <1>1, <2>1 DEF Turn
<1>4. Read' = Read /\ Read = Turn + 1
  BY <1>1, <1>3 DEF Read
<1>5. Kept' = Kept
  BY <1>1, EdgesStay
<1>6. SentInOrder'
  BY <1>1, <1>4, <1>5 DEF OnceInv, SentInOrder, Numbered, Carries, IsPair, Rank, Before
<1>7. ReadInOrder'
  <2>1. Numbered(req, Read - 1)'
    BY <1>1, <1>4, <1>5 DEF OnceInv, ReadInOrder, Numbered, Carries, IsPair, Rank, Before
  <2>2. Turn' > 0
    BY <1>3
  <2>. QED BY <1>1, <2>1, <2>2 DEF ReadInOrder
<1>8. LoadedBefore'
  BY <1>1 DEF OnceInv, LoadedBefore
<1>9. LoadsA'
  <2>1. TagsAreTrue => TagsAreTrue'
    BY <1>1 DEF TagsAreTrue, Holds, aVars
  <2>2. \A j \in Lane : ~(j < lane')
    BY <1>1 DEF Lane
  <2>. QED BY <1>1, <2>1, <2>2 DEF OnceInv, LoadsA
<1>10. LoadsB'
  BY <1>1 DEF LoadsB
<1>11. CountedInOrder'
  <2>1. ASSUME NEW j \in Lane, Turn > 0
        PROVE  \/ \E e \in Kept : Rank(e) = Before(Turn - 1) + j /\ seen[j] = Pair(edges[e])
               \/ /\ Before(Turn - 1) + j > Cardinality(Kept)
                  /\ \A x \in {1, 2} : seen[j][x].r = NoList
    <3> DEFINE a == out[side].a[j]
               b == out[side].b[j]
    <3>1. /\ IsPair(Before(Turn - 1) + j, a, b)
          /\ HoldsList(listA[side][j], a) /\ HoldsList(listB[side][j], b)
      BY <1>1, <2>1 DEF OnceInv, LoadedBefore, Carries
    <3>2. seen[j] = <<Seen(listA[side][j], a), Seen(listB[side][j], b)>>
      BY DEF seen
    <3>3. CASE \E e \in Kept : /\ Rank(e) = Before(Turn - 1) + j
                               /\ a = ListOf(edges[e][1]) /\ b = ListOf(edges[e][2])
      <4>1. PICK e \in Kept : /\ Rank(e) = Before(Turn - 1) + j
                              /\ a = ListOf(edges[e][1]) /\ b = ListOf(edges[e][2])
        BY <3>3
      <4>2. edges[e][1] \in Vertex /\ edges[e][2] \in Vertex
        <5>1. edges[e] \in Vertex \X Vertex
          BY DEF Kept, ListInv, SenderTypeOK
        <5>. QED BY <5>1
      <4>3. ListOf(edges[e][1]) \in List /\ ListOf(edges[e][2]) \in List
        BY <4>2 DEF Kept, List
      <4> HIDE DEF a, b
      <4>4. /\ Seen(listA[side][j], a) = Fetched(edges[e][1])
            /\ Seen(listB[side][j], b) = Fetched(edges[e][2])
        BY <3>1, <4>1, <4>2, <4>3, SeenIsFetched
      <4>5. seen[j] = Pair(edges[e])
        BY <3>2, <4>4 DEF Pair
      <4>. QED BY <4>1, <4>5
    <3>4. CASE Before(Turn - 1) + j > Cardinality(Kept) /\ a = NoList /\ b = NoList
      <4>1. Seen(listA[side][j], a).r = a /\ Seen(listB[side][j], b).r = b
        BY DEF Seen
      <4>. QED BY <3>2, <3>4, <4>1
    <3>. QED BY <3>1, <3>3, <3>4 DEF IsPair
  <2>2. ASSUME NEW n \in 2 .. Turn', NEW j \in Lane
        PROVE  \/ \E e \in Kept : Rank(e) = Before(n - 2) + j /\ counted'[n][j] = Pair(edges[e])
               \/ /\ Before(n - 2) + j > Cardinality(Kept)
                  /\ \A x \in {1, 2} : counted'[n][j][x].r = NoList
    <3>1. CASE n \in 2 .. Turn
      <4>1. counted'[n] = counted[n]
        BY <1>3, <3>1
      <4>. QED BY <3>1, <4>1 DEF OnceInv, CountedInOrder
    <3>2. CASE n = Turn + 1
      <4>1. n - 2 = Turn - 1 /\ Turn > 0 /\ counted'[n] = seen
        BY <1>3, <3>2
      <4>. QED BY <2>1, <4>1
    <3>. QED BY <1>3, <3>1, <3>2
  <2>. QED BY <1>1, <1>3, <1>5, <2>2 DEF CountedInOrder, Rank, Before, Pair
<1>. QED BY <1>6, <1>7, <1>8, <1>9, <1>10, <1>11 DEF OnceInv
-----------------------------------------------------------------------------
(* What a lane does to its buffer changes no order and no other batch. *)
LEMMA LaneKeepsOrder ==
  ASSUME ListInv, OnceInv, pc \in {"a", "b"}, pc' \in {"a", "b"},
         UNCHANGED <<edges, sent, batch, sender, strm, pp, req, out, counted>>
  PROVE  SentInOrder' /\ ReadInOrder' /\ LoadedBefore' /\ CountedInOrder'
<1>1. Turn' = Turn /\ Read' = Read /\ Kept' = Kept
  BY EdgesStay DEF Turn, Read
<1>2. SentInOrder'
  BY <1>1 DEF OnceInv, SentInOrder, Numbered, Carries, IsPair, Rank, Before
<1>3. ReadInOrder'
  <2>1. Turn \in Nat /\ Turn > 0
    BY DEF OnceInv, ReadInOrder, CountedInOrder, Turn
  <2>2. Numbered(req, Read - 1)'
    BY <1>1 DEF OnceInv, ReadInOrder, Numbered, Carries, IsPair, Rank, Before
  <2>. QED BY <1>1, <2>1, <2>2 DEF ReadInOrder
<1>4. LoadedBefore'
  BY DEF OnceInv, LoadedBefore
<1>5. CountedInOrder'
  BY <1>1 DEF OnceInv, CountedInOrder, Rank, Before, Pair
<1>. QED BY <1>2, <1>3, <1>4, <1>5

LEMMA EmptyListIsHeld ==
  ASSUME NEW r \in List, Lines(r) = {}, NEW buffer
  PROVE  HoldsList(buffer, r)
<1>1. First(r) \in Nat /\ End(r) \in Nat /\ First(r) .. End(r) - 1 = {}
  BY ListFacts DEF Lines
<1>2. 0 .. End(r) - First(r) - 1 = {}
  BY <1>1
<1>. QED BY <1>2 DEF HoldsList

LEMMA LoadAKeepsOnce ==
  ASSUME ListInv, OnceInv, AHeld \/ ACached \/ AMissed
  PROVE  OnceInv'
<1>1. /\ pc = "a" /\ lane \in Lane /\ Loaded \in Side /\ ARequest \in List
      /\ IF lane < Parallel THEN lane' = lane + 1 /\ pc' = "a" ELSE lane' = 1 /\ pc' = "b"
      /\ UNCHANGED <<edges, sent, batch, sender, strm, pp, req, out, bVars, counted>>
      /\ ARequest = req.a[lane]
  BY SideFacts DEF ListInv, LoopTypeOK, AHeld, ACached, AMissed, ToNextLaneA, ARequest,
                   Batch, Lanes, offsetVars, input
<1>2. SentInOrder' /\ ReadInOrder' /\ LoadedBefore' /\ CountedInOrder'
  BY <1>1, LaneKeepsOrder
<1>3. LoadsB'
  BY <1>1 DEF LoadsB, Lane
<1>4. \A j \in Lane : j # lane => listA'[Loaded][j] = listA[Loaded][j]
  BY <1>1 DEF AHeld, ACached, AMissed, aVars, ListInv, ATypeOK
<1>5. \A j \in Lane : pc' = "b" \/ (pc' = "a" /\ j < lane') => j = lane \/ j < lane
  BY <1>1, ListAssumption DEF Lane
<1>6. ASSUME req.more
      PROVE  /\ pc' = "a" /\ (\A j \in Lane : j < lane' => req.a[j].length > 0) => TagsAreTrue'
             /\ HoldsList(listA'[Loaded][lane], ARequest)
  <2>1. CASE ARequest.length > 0
    <3>1. PICK w \in Vertex : Size(w) > 0 /\ ARequest = ListOf(w)
      <4>1. ARequest # NoList
        BY <2>1 DEF NoList
      <4>. QED BY <1>1, <4>1 DEF List
    <3>2. \A j \in Lane : j < lane => req.a[j].length > 0
      <4> SUFFICES ASSUME NEW j \in Lane, j < lane PROVE req.a[j].length > 0
        OBVIOUS
      <4>1. PICK q : q = Read - 1
        OBVIOUS
      <4>2. IsPair(Before(q) + j, req.a[j], req.b[j]) /\ IsPair(Before(q) + lane, ARequest, req.b[lane])
        BY <1>1, <1>6, <4>1 DEF OnceInv, ReadInOrder, Numbered, Carries
      <4>3. q \in Nat
        BY <1>1, <4>1 DEF OnceInv, ReadInOrder, CountedInOrder, Turn, Read
      <4>4. Before(q) + j \in Nat /\ Before(q) + lane \in Nat /\ Before(q) + j < Before(q) + lane
        BY <1>1, <4>3, BeforeFacts DEF Lane
      <4>5. Cardinality(Kept) \in Nat
        BY RankFacts DEF ListInv, SenderTypeOK
      <4>6. Before(q) + lane <= Cardinality(Kept)
        BY <2>1, <4>2, <4>4, CarriedPair DEF NoList
      <4>. QED BY <4>2, <4>4, <4>5, <4>6, CarriedPair
    <3>3. TagsAreTrue
      BY <1>1, <1>6, <3>2 DEF OnceInv, LoadsA
    <3>4. TagsAreTrue' /\ tagA'[Loaded][lane] = ARequest.offset
      BY <2>1, <3>3, LoadAKeepsTags
    <3>5. Holds(listA'[Loaded][lane], w)
      BY <1>1, <3>1, <3>4 DEF TagsAreTrue, ListOf
    <3>. QED BY <3>1, <3>4, <3>5 DEF Holds, HoldsList
  <2>2. CASE ~(ARequest.length > 0)
    <3>1. ARequest = NoList
      BY <1>1, <2>2 DEF List, ListOf
    <3>2. HoldsList(listA'[Loaded][lane], ARequest)
      BY <1>1, <3>1, ListFacts, EmptyListIsHeld
    <3>3. pc' = "a" => lane < lane'
      BY <1>1 DEF Lane
    <3>. QED BY <1>1, <2>2, <3>2, <3>3
  <2>. QED BY <2>1, <2>2
<1>7. LoadsA'
  <2>1. ASSUME req.more, NEW j \in Lane, pc' = "b" \/ (pc' = "a" /\ j < lane')
        PROVE  HoldsList(listA'[Loaded][j], req.a[j])
    <3>1. CASE j = lane
      BY <1>1, <1>6, <2>1, <3>1
    <3>2. CASE j # lane
      <4>1. HoldsList(listA[Loaded][j], req.a[j])
        BY <1>1, <1>5, <2>1, <3>2 DEF OnceInv, LoadsA
      <4>. QED BY <1>4, <3>2, <4>1
    <3>. QED BY <3>1, <3>2
  <2>2. Loaded' = Loaded
    BY <1>1 DEF Loaded
  <2>3. \A j \in Lane : req.more /\ (pc' = "b" \/ (pc' = "a" /\ j < lane')) =>
          HoldsList(listA[Loaded][j], req.a[j])'
    BY <1>1, <2>1, <2>2 DEF HoldsList
  <2>. QED BY <1>1, <1>6, <2>3 DEF LoadsA
<1>. QED BY <1>2, <1>3, <1>7 DEF OnceInv

(* A burst brings each lane of the batch what it has of its list. *)
LEMMA BurstLoads ==
  ASSUME ListInv, LoadBurst(BurstLines), NEW j \in Lane,
         HoldsList(listB[Loaded][j], req.b[j]) \/ Lines(req.b[j]) \subseteq BurstLines
  PROVE  HoldsList(listB'[Loaded][j], req.b[j])
<1> DEFINE r == req.b[j]
           buffer == listB[Loaded][j]
<1>1. r \in List /\ buffer \in Buffer /\ Loaded \in Side
  BY RequestFacts DEF ListInv, BTypeOK
<1>2. listB'[Loaded][j] = Fill(buffer, r, BurstLines)
  BY <1>1 DEF LoadBurst, ListInv, BTypeOK
<1> SUFFICES ASSUME NEW k \in 0 .. End(r) - First(r) - 1
             PROVE  Fill(buffer, r, BurstLines)[k] = First(r) + k
  BY <1>2 DEF HoldsList
<1>3. CASE Lines(r) \subseteq BurstLines
  BY <1>1, <1>3, FillFacts
<1>4. CASE HoldsList(buffer, r)
  <2>1. buffer[k] = First(r) + k
    BY <1>4 DEF HoldsList
  <2>2. k \in Line
    BY <1>1, ListFacts, MemoryLines
  <2> HIDE DEF buffer, r
  <2>. QED BY <2>1, <2>2 DEF Fill
<1>. QED BY <1>3, <1>4

LEMMA LoadBKeepsOnce ==
  ASSUME ListInv, OnceInv, BHit \/ BFirstMiss \/ BMissNear \/ BMissApart
  PROVE  OnceInv'
<1>1. /\ pc = "b" /\ pc' = "b" /\ lane \in Lane /\ lane' = lane + 1
      /\ UNCHANGED <<edges, sent, batch, sender, strm, pp, req, out, aVars, counted>>
      /\ BRequest \in List /\ BRequest = req.b[lane] /\ Loaded \in Side
  BY NextLane, RequestFacts
     DEF BHit, BFirstMiss, BMissNear, BMissApart, BHits, BMisses, ToNextLaneB, BRequest,
         offsetVars, input
<1>2. SentInOrder' /\ ReadInOrder' /\ LoadedBefore' /\ CountedInOrder'
  BY <1>1, LaneKeepsOrder
<1>3. LoadsA'
  BY <1>1 DEF OnceInv, LoadsA, HoldsList, Loaded, aVars
<1>4. BTypeOK /\ BurstIsInMemory /\ BCacheIsTrue
  BY DEF ListInv
<1>5. \A j \in Lane : j < lane' => j = lane \/ j < lane
  BY <1>1 DEF Lane
<1>6. SUFFICES ASSUME NEW j \in Lane, j = lane \/ j < lane
               PROVE  \/ HoldsList(listB'[Loaded][j], req.b[j])
                      \/ burst'.on /\ Lines(req.b[j]) \subseteq burst'.begin .. burst'.end - 1
  <2>1. Loaded' = Loaded
    BY <1>1 DEF Loaded
  <2>2. LoadsB' <=> \A j \in Lane : j < lane' =>
                      \/ HoldsList(listB'[Loaded][j], req.b[j])
                      \/ burst'.on /\ Lines(req.b[j]) \subseteq burst'.begin .. burst'.end - 1
    BY <1>1, <2>1 DEF LoadsB, HoldsList, BurstLines
  <2>. QED BY <1>2, <1>3, <1>5, <1>6, <2>2 DEF OnceInv
<1>7. j < lane => \/ HoldsList(listB[Loaded][j], req.b[j])
                  \/ burst.on /\ Lines(req.b[j]) \subseteq BurstLines
  BY <1>1 DEF OnceInv, LoadsB
<1>8. req.b[j] \in List
  BY RequestFacts
<1>9. CASE BHit
  <2> DEFINE x == Place(BRequest)
             copy == Copy(cacheB[x].line, End(BRequest) - First(BRequest), listB[Loaded][lane])
  <2>1. /\ listB' = [listB EXCEPT ![Loaded][lane] = copy] /\ UNCHANGED burst
        /\ cacheB[x].tag = Tag(BRequest) /\ x \in Index
    BY <1>1, <1>9, ListFacts DEF BHit, BHits
  <2>2. CASE j = lane
    <3>1. CASE BRequest = NoList
      BY <1>1, <1>8, <2>2, <3>1, ListFacts, EmptyListIsHeld
    <3>2. CASE BRequest # NoList
      <4>1. PICK v \in Vertex : Size(v) > 0 /\ BRequest = ListOf(v)
        BY <1>1, <3>2 DEF List
      <4>2. HoldsList(cacheB[x].line, BRequest)
        BY <1>4, <2>1, <4>1 DEF BCacheIsTrue, Holds, HoldsList
      <4>3. HoldsList(copy, BRequest)
        <5> SUFFICES ASSUME NEW k \in 0 .. End(BRequest) - First(BRequest) - 1
                     PROVE  copy[k] = First(BRequest) + k
          BY DEF HoldsList
        <5>1. k \in Line /\ k < End(BRequest) - First(BRequest)
          BY <1>1, ListFacts, MemoryLines
        <5>2. cacheB[x].line[k] = First(BRequest) + k
          BY <4>2 DEF HoldsList
        <5> HIDE DEF x
        <5>. QED BY <5>1, <5>2 DEF Copy
      <4> HIDE DEF copy
      <4>4. listB'[Loaded][lane] = copy
        BY <1>1, <1>4, <2>1 DEF BTypeOK
      <4>. QED BY <1>1, <2>2, <4>3, <4>4
    <3>. QED BY <3>1, <3>2
  <2>3. CASE j # lane
    <3>1. listB'[Loaded][j] = listB[Loaded][j]
      BY <1>1, <1>4, <2>1, <2>3 DEF BTypeOK
    <3>. QED BY <1>6, <1>7, <2>1, <2>3, <3>1 DEF BurstLines
  <2>. QED BY <2>2, <2>3
<1>10. CASE BFirstMiss
  <2>1. burst' = BurstOf(BRequest) /\ ~burst.on /\ UNCHANGED listB
    BY <1>10 DEF BFirstMiss
  <2>. QED BY <1>1, <1>6, <1>7, <2>1, NewBurst
<1>11. CASE BMissNear
  <2>1. burst' = Joined(BRequest) /\ burst.on /\ UNCHANGED listB
    BY <1>11 DEF BMissNear
  <2>. QED BY <1>1, <1>4, <1>6, <1>7, <2>1, JoinedBurst
<1>12. CASE BMissApart
  <2>1. burst' = BurstOf(BRequest) /\ LoadBurst(BurstLines)
    BY <1>12 DEF BMissApart
  <2>2. CASE j = lane
    BY <1>1, <2>1, <2>2, NewBurst
  <2>3. CASE j # lane
    BY <1>6, <1>7, <2>1, <2>3, BurstLoads
  <2>. QED BY <2>2, <2>3
<1>. QED BY <1>9, <1>10, <1>11, <1>12

(* After the last lane all lists are in the buffers, or come with the last *)
(* burst; these buffers are the ones processed in the next turn.           *)
LEMMA BEndKeepsOnce ==
  ASSUME ListInv, OnceInv, BEnd
  PROVE  OnceInv'
<1>1. /\ pc = "b" /\ lane > Parallel /\ pc' = IF req.more THEN "read" ELSE "done"
      /\ out' = [out EXCEPT ![Loaded] = [a |-> req.a, b |-> req.b]] /\ pp' = 1 - pp
      /\ UNCHANGED <<edges, sent, batch, sender, strm, req, aVars, counted>>
  BY DEF BEnd, offsetVars, input
<1>2. Turn' = Turn /\ Read' = Read /\ Kept' = Kept /\ Read = Turn
  BY <1>1, EdgesStay DEF Turn, Read
<1>3. Turn \in Nat /\ Turn > 0 /\ Numbered(req, Turn - 1)
  BY <1>1, <1>2 DEF OnceInv, ReadInOrder, CountedInOrder, Turn
<1>4. Loaded \in Side /\ Processed' = Loaded
  BY <1>1, SideFacts DEF ListInv, LoopTypeOK, Processed, Loaded, Other
<1>5. SentInOrder'
  BY <1>1, <1>2 DEF OnceInv, SentInOrder, Numbered, Carries, IsPair, Rank, Before
<1>6. ReadInOrder'
  <2>1. req.more => Numbered(req, Turn - 1)'
    BY <1>1, <1>2, <1>3 DEF Numbered, Carries, IsPair, Rank, Before
  <2>2. ~req.more => (Cardinality(Kept) < Before(Turn - 1))'
    BY <1>2, <1>3 DEF Numbered, Before
  <2>. QED BY <1>1, <1>2, <1>3, <2>1, <2>2 DEF ReadInOrder
<1>7. LoadedBefore'
  <2>1. out' = [s \in Side |-> out'[s]] /\ out'[Loaded] = [a |-> req.a, b |-> req.b]
    BY <1>1, <1>4 DEF OnceInv, LoadedBefore
  <2>2. ASSUME req.more
        PROVE  /\ Carries(req, Turn - 1)
               /\ \A j \in Lane : /\ HoldsList(listA[Loaded][j], req.a[j])
                                  /\ HoldsList(listB'[Loaded][j], req.b[j])
    <3>1. Carries(req, Turn - 1)
      BY <1>3, <2>2 DEF Numbered
    <3>2. \A j \in Lane : HoldsList(listA[Loaded][j], req.a[j])
      BY <1>1, <2>2 DEF OnceInv, LoadsA
    <3>3. ASSUME NEW j \in Lane PROVE HoldsList(listB'[Loaded][j], req.b[j])
      <4>1. j < lane
        <5>1. lane \in Nat /\ Parallel \in Nat
          BY BeforeFacts DEF ListInv, LoopTypeOK
        <5>. QED BY <1>1, <5>1 DEF Lane
      <4>2. \/ HoldsList(listB[Loaded][j], req.b[j])
            \/ burst.on /\ Lines(req.b[j]) \subseteq BurstLines
        BY <1>1, <4>1 DEF OnceInv, LoadsB
      <4>3. CASE burst.on
        BY <4>2, <4>3, BurstLoads DEF BEnd
      <4>4. CASE ~burst.on
        BY <4>2, <4>4 DEF BEnd
      <4>. QED BY <4>3, <4>4
    <3>. QED BY <3>1, <3>2, <3>3
  <2>3. ASSUME req.more
        PROVE  /\ Carries(out[Processed], Turn - 1)'
               /\ (\A j \in Lane : /\ HoldsList(listA[Processed][j], out[Processed].a[j])
                                   /\ HoldsList(listB[Processed][j], out[Processed].b[j]))'
    BY <1>1, <1>2, <1>4, <2>1, <2>2, <2>3
       DEF HoldsList, Carries, IsPair, Rank, Before, aVars
  <2>4. (out = [s \in Side |-> out[s]])'
    BY <2>1
  <2>. QED BY <1>1, <2>3, <2>4 DEF LoadedBefore
<1>8. LoadsA' /\ LoadsB'
  BY <1>1 DEF LoadsA, LoadsB
<1>9. CountedInOrder'
  BY <1>1, <1>2 DEF OnceInv, CountedInOrder, Rank, Before, Pair
<1>. QED BY <1>5, <1>6, <1>7, <1>8, <1>9 DEF OnceInv

LEMMA InitEstablishesOnce == Init => OnceInv
<1> SUFFICES ASSUME Init PROVE OnceInv
  OBVIOUS
<1>1. edges \in Seq(Vertex \X Vertex)
  BY ListAssumption DEF Init
<1>2. Turn = 0 /\ Read = 0 /\ Len(strm) = 0 /\ Len(batch) = 0 /\ pc = "read"
  BY DEF Init, Turn, Read
<1>3. SentInOrder
  <2>1. Rank(sent) = Before(Read + Len(strm)) + Len(batch)
    BY <1>1, <1>2, RankFacts, BeforeFacts DEF Init
  <2>. QED BY <1>2, <2>1 DEF Init, SentInOrder
<1>4. ReadInOrder
  BY <1>2 DEF Init, ReadInOrder, NothingLoaded
<1>5. LoadedBefore
  BY <1>2 DEF Init, LoadedBefore, Side
<1>6. LoadsA /\ LoadsB
  BY <1>2 DEF LoadsA, LoadsB
<1>7. CountedInOrder
  <2>1. counted \in Seq({})
    BY DEF Init
  <2>. QED BY <1>2, <2>1 DEF CountedInOrder
<1>. QED BY <1>3, <1>4, <1>5, <1>6, <1>7 DEF OnceInv

LEMMA StutterKeepsOnce ==
  ASSUME OnceInv, UNCHANGED vars
  PROVE  OnceInv'
<1>1. /\ UNCHANGED <<edges, sent, batch, sender, strm, pc, pp, lane, req, out>>
      /\ UNCHANGED <<aVars, bVars, counted>>
  BY DEF vars, input, offsetVars, loop
<1>2. Turn' = Turn /\ Read' = Read /\ Kept' = Kept /\ Loaded' = Loaded /\ Processed' = Processed
  BY <1>1, EdgesStay DEF Turn, Read, Loaded, Processed, Other
<1>3. SentInOrder'
  BY <1>1, <1>2 DEF OnceInv, SentInOrder, Numbered, Carries, IsPair, Rank, Before
<1>4. ReadInOrder'
  BY <1>1, <1>2 DEF OnceInv, ReadInOrder, NothingLoaded, Numbered, Carries, IsPair, Rank,
                    Before, aVars
<1>5. LoadedBefore'
  BY <1>1, <1>2 DEF OnceInv, LoadedBefore, HoldsList, Carries, IsPair, Rank, Before, aVars, bVars
<1>6. LoadsA'
  BY <1>1, <1>2 DEF OnceInv, LoadsA, TagsAreTrue, HoldsList, aVars
<1>7. LoadsB'
  BY <1>1, <1>2 DEF OnceInv, LoadsB, HoldsList, BurstLines, bVars
<1>8. CountedInOrder'
  BY <1>1, <1>2 DEF OnceInv, CountedInOrder, Rank, Before, Pair
<1>. QED BY <1>3, <1>4, <1>5, <1>6, <1>7, <1>8 DEF OnceInv

(* In every state the batches, from loadOffset through the streams and the *)
(* two sets of buffers to the count, carry the edges in order, and each    *)
(* buffer has the list of its lane when its turn comes.                    *)
THEOREM OnceInvariant == Spec => []OnceInv
<1>1. ListInv /\ AInv /\ OnceInv /\ [Next]_vars => OnceInv'
  <2> SUFFICES ASSUME ListInv, AInv, OnceInv, [Next]_vars PROVE OnceInv'
    OBVIOUS
  <2>1. CASE LoadOffset \/ SendLast \/ SendEnd
    BY <2>1, SendKeepsOnce
  <2>2. CASE ReadBatch
    BY <2>2, ReadKeepsOnce
  <2>3. CASE ProcessList
    BY <2>3, ProcessKeepsOnce
  <2>4. CASE AHeld \/ ACached \/ AMissed
    BY <2>4, LoadAKeepsOnce
  <2>5. CASE BHit \/ BFirstMiss \/ BMissNear \/ BMissApart
    BY <2>5, LoadBKeepsOnce
  <2>6. CASE BEnd
    BY <2>6, BEndKeepsOnce
  <2>7. CASE UNCHANGED vars
    BY <2>7, StutterKeepsOnce
  <2>. QED BY <2>1, <2>2, <2>3, <2>4, <2>5, <2>6, <2>7 DEF Next, Returned
<1>. QED BY <1>1, InitEstablishesOnce, ListInvariant, AInvariant, PTL DEF Spec

(* From the second turn on the lanes intersect the lists of every edge     *)
(* once, in order and as memory has them, whatever the graph, the edges,   *)
(* the caches' sizes and what of a list a buffer or a cache still held.    *)
THEOREM EveryEdgeCountedOnce == Spec => []CountsEveryEdgeOnce
<1>1. ListInv /\ OnceInv => CountsEveryEdgeOnce
  <2> SUFFICES ASSUME ListInv, OnceInv PROVE CountsEveryEdgeOnce
    OBVIOUS
  <2>1. ASSUME NEW n \in 2 .. Len(counted), NEW j \in Lane
        PROVE  LET k == (n - 2) * Parallel + j IN
               \/ \E e \in Kept : Rank(e) = k /\ counted[n][j] = Pair(edges[e])
               \/ k > Cardinality(Kept) /\ \A x \in {1, 2} : counted[n][j][x].r = NoList
    BY <2>1 DEF OnceInv, CountedInOrder, Turn, Before
  <2>2. Done => Cardinality(Kept) <= (Len(counted) - 1) * Parallel
    <3> SUFFICES ASSUME Done PROVE Cardinality(Kept) <= (Len(counted) - 1) * Parallel
      OBVIOUS
    <3>1. Turn \in Nat /\ Turn > 0 /\ Cardinality(Kept) < Before(Turn - 1)
      BY DEF OnceInv, ReadInOrder, CountedInOrder, Turn, Done
    <3>2. edges \in Seq(Vertex \X Vertex)
      BY DEF ListInv, SenderTypeOK
    <3>3. Cardinality(Kept) \in Nat /\ Before(Turn - 1) \in Nat
      BY <3>1, <3>2, RankFacts, BeforeFacts
    <3>4. Cardinality(Kept) <= Before(Turn - 1)
      BY <3>1, <3>3
    <3>. QED BY <3>4 DEF Before, Turn
  <2>. QED BY <2>1, <2>2 DEF CountsEveryEdgeOnce
<1>. QED BY <1>1, ListInvariant, OnceInvariant, PTL
=============================================================================
