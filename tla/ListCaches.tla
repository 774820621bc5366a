----------------------------- MODULE ListCaches -----------------------------
(***************************************************************************)
(* TriangleCount of acc_impl/src/tc_refactor_cache.cpp: loadOffset turns   *)
(* edges into batches of Parallel pairs of lists; a loop loads a batch     *)
(* into one set of buffers while it intersects what is in the other        *)
(* (ping-pong).  Lists come from memory, from the buffer itself when it    *)
(* still holds the list, or from a cache of lists; misses that are close   *)
(* together in memory are loaded in one burst.                             *)
(*                                                                         *)
(* A line of memory (T words) is known by its number: what a buffer or a   *)
(* cache holds is which lines of memory it holds, and in which order.      *)
(* The three streams are always written and read together and are one      *)
(* here.  Within a turn the parts of the loop touch different buffers, so  *)
(* that they may follow each other in the order of the code, also where    *)
(* the hardware overlaps them; loadOffset runs beside the loop.            *)
(***************************************************************************)
EXTENDS Integers, Sequences, FiniteSets

CONSTANTS Offsets,          \* offset_list_1 = offset_list_2, from vertex 0 on
          EdgeLists,        \* the edge lists considered
          Leftovers,        \* batches a_ele_out_ping, b_ele_out_ping may hold
          T,                \* words in a line, 16
          Parallel,         \* lists in a batch, 8
          OffsetCacheSize,  \* 16
          CacheSize,        \* Cache_size, 8
          CoalesceDist,     \* COALESCE_DIST, 8
          Depth             \* depth of the three streams, 16

Vertex == 0 .. Len(Offsets) - 2
Begin(v) == Offsets[v + 1]
Size(v)  == Offsets[v + 2] - Offsets[v + 1]

ASSUME ListAssumption ==
  /\ T \in Nat \ {0} /\ Parallel \in Nat \ {0} /\ Depth \in Nat \ {0}
  /\ OffsetCacheSize \in Nat \ {0} /\ CacheSize \in Nat \ {0}
  /\ CoalesceDist \in Nat
  /\ Offsets \in Seq(Nat) /\ Offsets # << >>
  /\ \A i, j \in DOMAIN Offsets : i <= j => Offsets[i] <= Offsets[j]
  /\ EdgeLists \subseteq Seq(Vertex \X Vertex)

Lane  == 1 .. Parallel
Index == 0 .. CacheSize - 1
Side  == {"ping", "pong"}
None  == -1

(* A list is asked for by its offset and length, in words. *)
NoList == [offset |-> 0, length |-> 0]
First(r) == r.offset \div T

(* Mutant: a list that ends with its line takes another line. *)
EndAfter(r) == (r.offset + r.length + T) \div T

End(r)   == (r.offset + r.length + T - 1) \div T
Lines(r) == First(r) .. End(r) - 1

Line == 0 .. ((Offsets[Len(Offsets)] + T - 1) \div T) - 1
Garbage == [k \in Line |-> None]

VARIABLES
  edges, stale,               \* the input; what a_ele_out_ping, b_ele_out_ping hold
  sent, batch, offCache, sender,       \* loadOffset
  strm,                       \* ctrlStrm, offLenStrmA and offLenStrmB
  pc, pp, lane, req,          \* the loop: where it is, pp, i, what it read
  out,                        \* per buffer, the batch it was loaded with
  listA, tagA, cacheA,        \* list_a_*, list_a_*_tag, list_a_cache(_tag)
  listB, cacheB,              \* list_b_*, list_b_cache(_tag)
  burst, pending,             \* coalesce_*; update_cache_id with map_cache_id
  counted                     \* history: per turn and lane, the lists intersected

input   == <<edges, stale>>
offsetVars == <<sent, batch, offCache, sender>>
aVars   == <<listA, tagA, cacheA>>
bVars   == <<listB, cacheB, burst, pending>>
loop    == <<pc, pp, lane, req, out>>
vars == <<input, offsetVars, strm, loop, aVars, bVars, counted>>
-----------------------------------------------------------------------------
(* cacheLoad: the entry of the vertex, looked up or read. *)
Entry(cache, v) ==
  LET e == cache[v % OffsetCacheSize]
  IN  IF e.tag = v THEN e ELSE [tag |-> v, offset |-> Begin(v), length |-> Size(v)]

Load(cache, v) == [cache EXCEPT ![v % OffsetCacheSize] = Entry(cache, v)]

Request(e) == [offset |-> e.offset, length |-> e.length]

Padded(pairs, x) ==
  [j \in Lane |-> IF j <= Len(pairs) THEN pairs[j][x] ELSE NoList]

Send(pairs, more) ==
  /\ Len(strm) < Depth
  /\ strm' = Append(strm, [a |-> Padded(pairs, 1), b |-> Padded(pairs, 2), more |-> more])

(* One edge; a full batch is sent at once. *)
LoadOffset ==
  /\ sender = "edges" /\ sent < Len(edges)
  /\ LET u == edges[sent + 1][1]
         v == edges[sent + 1][2]
         a == Request(Entry(offCache.a, u))
         b == Request(Entry(offCache.b, v))
         pairs == IF a.length > 0 /\ b.length > 0 THEN Append(batch, <<a, b>>) ELSE batch
     IN  /\ offCache' = [a |-> Load(offCache.a, u), b |-> Load(offCache.b, v)]
         /\ IF Len(pairs) = Parallel
            THEN Send(pairs, TRUE) /\ batch' = << >>
            ELSE UNCHANGED strm /\ batch' = pairs
  /\ sent' = sent + 1
  /\ UNCHANGED <<input, sender, loop, aVars, bVars, counted>>

(* The rest is sent twice: the second time to have the first processed. *)
SendLast ==
  /\ sender = "edges" /\ sent = Len(edges)
  /\ Send(batch, TRUE) /\ sender' = "end"
  /\ UNCHANGED <<input, sent, batch, offCache, loop, aVars, bVars, counted>>

SendEnd ==
  /\ sender = "end"
  /\ Send(batch, FALSE) /\ sender' = "done"
  /\ UNCHANGED <<input, sent, batch, offCache, loop, aVars, bVars, counted>>
-----------------------------------------------------------------------------
Other(side) == IF side = "ping" THEN "pong" ELSE "ping"

(* list_a_pong and list_b_pong are loaded while pp is 1. *)
Loaded    == IF pp = 1 THEN "pong" ELSE "ping"
Processed == Other(Loaded)

ReadBatch ==
  /\ pc = "read" /\ strm # << >>
  /\ req' = Head(strm) /\ strm' = Tail(strm) /\ pc' = "process"
  /\ UNCHANGED <<input, offsetVars, pp, lane, out, aVars, bVars, counted>>

(* What setIntersection sees of a list in a buffer. *)
Seen(buffer, r) == [r |-> r, lines |-> [k \in 0 .. End(r) - First(r) - 1 |-> buffer[k]]]

(* processList; a lane with nothing in a list adds nothing to the count. *)
ProcessList ==
  /\ pc = "process"
  /\ counted' = Append(counted,
       [j \in Lane |-> <<Seen(listA[Processed][j], out[Processed].a[j]),
                         Seen(listB[Processed][j], out[Processed].b[j])>>])
  /\ pc' = "a" /\ lane' = 1
  /\ UNCHANGED <<input, offsetVars, strm, pp, req, out, aVars, bVars>>

-----------------------------------------------------------------------------
(* loadCpyListA, one lane at a time. *)
ARequest == req.a[lane]

ToNextLaneA ==
  /\ IF lane < Parallel THEN lane' = lane + 1 /\ pc' = "a"
                        ELSE lane' = 1 /\ pc' = "b"
  /\ UNCHANGED <<input, offsetVars, strm, pp, req, out, bVars, counted>>

(* The buffer still holds the list. *)
AHeld ==
  /\ pc = "a" /\ ARequest.offset = tagA[Loaded][lane]
  /\ UNCHANGED aVars
  /\ ToNextLaneA

(* The first n lines of one buffer, the others of another. *)
Copy(from, n, to) == [k \in Line |-> IF k < n THEN from[k] ELSE to[k]]

(* Mutant: the copy keeps the buffer's tag. *)
ACachedKeepsTag ==
  /\ pc = "a" /\ ARequest.offset # tagA[Loaded][lane]
  /\ ARequest.offset = cacheA.tag
  /\ listA' = [listA EXCEPT ![Loaded][lane] = Copy(cacheA.line, cacheA.len, @)]
  /\ UNCHANGED <<tagA, cacheA>>
  /\ ToNextLaneA

(* The cache holds the list loaded last. *)
ACached ==
  /\ pc = "a" /\ ARequest.offset # tagA[Loaded][lane]
  /\ ARequest.offset = cacheA.tag
  /\ tagA' = [tagA EXCEPT ![Loaded][lane] = cacheA.tag]
  /\ listA' = [listA EXCEPT ![Loaded][lane] = Copy(cacheA.line, cacheA.len, @)]
  /\ UNCHANGED cacheA
  /\ ToNextLaneA

(* The lines of a list, from the start of a buffer on, where they are      *)
(* among those that are loaded.                                            *)
Fill(buffer, r, burstLines) ==
  [k \in Line |-> IF First(r) + k \in Lines(r) \cap burstLines THEN First(r) + k
                  ELSE buffer[k]]

AMissed ==
  /\ pc = "a" /\ ARequest.offset \notin {tagA[Loaded][lane], cacheA.tag}
  /\ LET r == ARequest IN
     /\ listA' = [listA EXCEPT ![Loaded][lane] = Fill(@, r, Lines(r))]
     /\ cacheA' = [tag |-> r.offset, len |-> End(r) - First(r),
                   line |-> Fill(cacheA.line, r, Lines(r))]
     /\ tagA' = [tagA EXCEPT ![Loaded][lane] = r.offset]
  /\ ToNextLaneA
-----------------------------------------------------------------------------
(* loadCpyListB, one lane at a time, then what is left to load. *)
BRequest == req.b[lane]
Place(r) == r.offset % CacheSize
Tag(r)   == r.offset \div CacheSize

BHits == pc = "b" /\ lane <= Parallel /\ cacheB[Place(BRequest)].tag = Tag(BRequest)
BMisses == pc = "b" /\ lane <= Parallel /\ cacheB[Place(BRequest)].tag # Tag(BRequest)

ToNextLaneB ==
  /\ lane' = lane + 1
  /\ UNCHANGED <<input, offsetVars, strm, pc, pp, req, out, aVars, counted>>

BHit ==
  /\ BHits
  /\ LET r == BRequest IN
     listB' = [listB EXCEPT ![Loaded][lane] =
                 Copy(cacheB[Place(r)].line, End(r) - First(r), @)]
  /\ UNCHANGED <<cacheB, burst, pending>>
  /\ ToNextLaneB

(* Entries of the cache that wait for a list of which lines are loaded. *)
Waiting(x) == pending[x] # None

(* A burst goes to every lane of the batch and every waiting entry that    *)
(* it has lines for; an entry waits until its last line has come.          *)
LoadBurst(lines) ==
  /\ listB' = [listB EXCEPT ![Loaded] =
                 [j \in Lane |-> Fill(@[j], req.b[j], lines)]]
  /\ cacheB' = [x \in Index |->
       IF Waiting(x) /\ Lines(req.b[pending[x]]) \cap lines # {}
       THEN [tag |-> Tag(req.b[pending[x]]),
             line |-> Fill(cacheB[x].line, req.b[pending[x]], lines)]
       ELSE cacheB[x]]

StillWaiting(lines) ==
  [x \in Index |->
     IF Waiting(x) /\ End(req.b[pending[x]]) - 1 \in Lines(req.b[pending[x]]) \cap lines
     THEN None ELSE pending[x]]

BurstLines == burst.begin .. burst.end - 1
NoBurst == [on |-> FALSE, begin |-> -1, end |-> -1]
BurstOf(r) == [on |-> TRUE, begin |-> First(r), end |-> End(r)]

Smaller(m, n) == IF m < n THEN m ELSE n
Larger(m, n)  == IF m > n THEN m ELSE n

(* Mutant: a joined burst only grows at its end. *)
JoinedForward(r) == [on |-> TRUE, begin |-> burst.begin,
                     end |-> Larger(burst.end, End(r))]

Joined(r) == [on |-> TRUE, begin |-> Smaller(burst.begin, First(r)),
                           end   |-> Larger(burst.end, End(r))]

(* The two bursts are further apart than CoalesceDist lines. *)
Apart(r) == (burst.end - burst.begin) + (End(r) - First(r)) + CoalesceDist
              < Joined(r).end - Joined(r).begin

(* Mutant: the entry is tagged before its lines have come. *)
BFirstMissTagsEarly ==
  /\ BMisses /\ ~burst.on
  /\ burst' = BurstOf(BRequest)
  /\ pending' = [pending EXCEPT ![Place(BRequest)] = lane]
  /\ cacheB' = [cacheB EXCEPT ![Place(BRequest)].tag = Tag(BRequest)]
  /\ UNCHANGED listB
  /\ ToNextLaneB

BFirstMiss ==
  /\ BMisses /\ ~burst.on
  /\ burst' = BurstOf(BRequest)
  /\ pending' = [pending EXCEPT ![Place(BRequest)] = lane]
  /\ UNCHANGED <<listB, cacheB>>
  /\ ToNextLaneB

BMissApart ==
  /\ BMisses /\ burst.on /\ Apart(BRequest)
  /\ LoadBurst(BurstLines)
  /\ burst' = BurstOf(BRequest)
  /\ pending' = [StillWaiting(BurstLines) EXCEPT ![Place(BRequest)] = lane]
  /\ ToNextLaneB

BMissNear ==
  /\ BMisses /\ burst.on /\ ~Apart(BRequest)
  /\ burst' = Joined(BRequest)
  /\ pending' = [pending EXCEPT ![Place(BRequest)] = lane]
  /\ UNCHANGED <<listB, cacheB>>
  /\ ToNextLaneB

(* The last burst; the buffers change sides, and the loop ends or goes on. *)
BEnd ==
  /\ pc = "b" /\ lane > Parallel
  /\ IF burst.on THEN LoadBurst(BurstLines) ELSE UNCHANGED <<listB, cacheB>>
  /\ burst' = NoBurst /\ pending' = [x \in Index |-> None]
  /\ out' = [out EXCEPT ![Loaded] = [a |-> req.a, b |-> req.b]]
  /\ pp' = 1 - pp
  /\ pc' = IF req.more THEN "read" ELSE "done"
  /\ UNCHANGED <<input, offsetVars, strm, lane, req, aVars, counted>>
-----------------------------------------------------------------------------
NoLists == [a |-> [j \in Lane |-> NoList], b |-> [j \in Lane |-> NoList]]
Empty   == [tag |-> None, offset |-> 0, length |-> 0]

(* The tags are reset at the start of a call.  a_ele_out_* and b_ele_out_* *)
(* are not: the first turn processes what they hold by chance.             *)
Init ==
  /\ edges \in EdgeLists
  /\ stale \in Leftovers
  /\ sent = 0 /\ batch = << >> /\ sender = "edges"
  /\ offCache = [x \in {"a", "b"} |-> [i \in 0 .. OffsetCacheSize - 1 |-> Empty]]
  /\ strm = << >>
  /\ pc = "read" /\ pp = 0 /\ lane = 1
  /\ req = [a |-> NoLists.a, b |-> NoLists.b, more |-> TRUE]
  /\ out = [ping |-> NoLists, pong |-> [a |-> Padded(stale, 1), b |-> Padded(stale, 2)]]
  /\ listA = [s \in Side |-> [j \in Lane |-> Garbage]] /\ listB = listA
  /\ tagA = [s \in Side |-> [j \in Lane |-> None]]
  /\ cacheA = [tag |-> None, len |-> 0, line |-> Garbage]
  /\ cacheB = [x \in Index |-> [tag |-> None, line |-> Garbage]]
  /\ burst = NoBurst /\ pending = [x \in Index |-> None]
  /\ counted = << >>

Done == pc = "done"

(* tc_number is written and the call returns. *)
Returned == Done /\ UNCHANGED vars

Next == \/ LoadOffset \/ SendLast \/ SendEnd
        \/ ReadBatch \/ ProcessList
        \/ AHeld \/ ACached \/ AMissed
        \/ BHit \/ BFirstMiss \/ BMissApart \/ BMissNear \/ BEnd
        \/ Returned

Spec == Init /\ [][Next]_vars
-----------------------------------------------------------------------------
Entries == [tag : Vertex \cup {None}, offset : Nat, length : Nat]
Requests == [offset : Nat, length : Nat]
Buffer == [Line -> Line \cup {None}]

(* Type invariant: the streams keep their depth, buffers and caches hold   *)
(* lines of memory, and a burst stays inside memory.                       *)
TypeOK ==
  /\ sent \in 0 .. Len(edges) /\ sender \in {"edges", "end", "done"}
  /\ Len(batch) < Parallel /\ Len(strm) <= Depth
  /\ \A x \in {"a", "b"} : offCache[x] \in [0 .. OffsetCacheSize - 1 -> Entries]
  /\ pc \in {"read", "process", "a", "b", "done"}
  /\ pp \in {0, 1} /\ lane \in 1 .. Parallel + 1
  /\ req.a \in [Lane -> Requests] /\ req.b \in [Lane -> Requests]
  /\ \A s \in Side : \A j \in Lane :
       listA[s][j] \in Buffer /\ listB[s][j] \in Buffer /\ tagA[s][j] \in Nat \cup {None}
  /\ cacheA.line \in Buffer /\ \A x \in Index : cacheB[x].line \in Buffer
  /\ burst.on => BurstLines \subseteq Line
  /\ pending \in [Index -> Lane \cup {None}]

ListOf(v) == [offset |-> Begin(v), length |-> Size(v)]

(* The buffer holds the lines of the list, from its start on. *)
Holds(buffer, v) == \A k \in 0 .. End(ListOf(v)) - First(ListOf(v)) - 1 :
                      buffer[k] = First(ListOf(v)) + k

(* The lists of an edge as memory has them. *)
Fetched(v) == Seen([k \in Line |-> First(ListOf(v)) + k], ListOf(v))

Pair(edge) == <<Fetched(edge[1]), Fetched(edge[2])>>

(* The edges with two lists that are not empty, and their number in order. *)
Kept    == {e \in DOMAIN edges : Size(edges[e][1]) > 0 /\ Size(edges[e][2]) > 0}
Rank(e) == Cardinality(Kept \cap (1 .. e))

(* From the second turn on (the first counts what the registers hold by    *)
(* chance) the lanes intersect, turn after turn, the lists of the edges,   *)
(* each exactly once, in order and with the contents that memory has,      *)
(* whatever mixture of held lists, cached lists, joined bursts and padding *)
(* brought them to the buffers; then there are only empty lanes.           *)
CountsEveryEdgeOnce ==
  /\ \A n \in 2 .. Len(counted), j \in Lane :
       LET k == (n - 2) * Parallel + j IN
       \/ \E e \in Kept : Rank(e) = k /\ counted[n][j] = Pair(edges[e])
       \/ k > Cardinality(Kept) /\ \A x \in {1, 2} : counted[n][j][x].r = NoList
  /\ Done => Cardinality(Kept) <= (Len(counted) - 1) * Parallel

(* An entry of list_b_cache with a tag holds that whole list, although it  *)
(* is written line by line, from a burst that other lists share and after  *)
(* a decision taken before later lanes asked for the same entry.           *)
BCacheIsTrue ==
  \A x \in Index, v \in Vertex :
    Size(v) > 0 /\ Place(ListOf(v)) = x /\ cacheB[x].tag = Tag(ListOf(v))
    => Holds(cacheB[x].line, v)

(* As long as every batch was full, list_a_*_tag and list_a_cache_tag tell *)
(* which list a buffer holds.  The padding of the last batches breaks      *)
(* that: it leaves the tag of the list at offset 0 on lines never loaded.  *)
ATagsAreTrue ==
  (\A j \in Lane : req.a[j].length > 0) =>
    \A v \in Vertex : Size(v) > 0 =>
      /\ cacheA.tag = Begin(v) => Holds(cacheA.line, v)
      /\ \A s \in Side, j \in Lane : tagA[s][j] = Begin(v) => Holds(listA[s][j], v)
=============================================================================
