----------------------------- MODULE SingleCore ------------------------------
(***************************************************************************)
(* acc_impl/src/tc_single_core_nopp.cpp: the ping-pong kernel for lists of *)
(* at most T elements.  A list is loaded to the start of its buffer, from  *)
(* the one or two words of memory it lies in; list B has a cache of lists  *)
(* that is looked up by the offset of the list.                            *)
(*                                                                         *)
(* What a buffer holds is known by the place in memory of each element.    *)
(* The parts of a turn of the loop touch different buffers and are one     *)
(* step.                                                                   *)
(***************************************************************************)
EXTENDS Lists
LOCAL INSTANCE SequencesExt

CONSTANTS Graphs, EdgeLists(_),
          Burst,            \* E_per_burst, edges in a word, 8
          Parallel,         \* lists in a batch, 8
          OffsetCacheSize,  \* OFFSET_CACHE_SIZE, 512
          CacheLength,      \* CACHE_B_LEN, 512 lists
          Depth             \* depth of the streams, 16

VARIABLES
  args,   \* the graph and the edge list
  mem,    \* tc_number
  st      \* the streams, and the variables of the two processes

vars == <<args, mem, st>>

G    == args.graph
Lane == 1 .. Parallel
Empty  == List(None, 0)
NoPair == [a |-> Empty, b |-> Empty]
-----------------------------------------------------------------------------
(* The cache of offsets, one for both ends of an edge: tagCache,           *)
(* offsetCache and lengthCache.                                            *)
Looked(cache, v) ==
  LET x == v % OffsetCacheSize
  IN  IF cache[x].tag = v THEN cache
      ELSE [cache EXCEPT ![x] = [tag |-> v, list |-> List(G.offset[v], G.offset[v + 1] - G.offset[v])]]

Found(cache, v) == Looked(cache, v)[v % OffsetCacheSize].list

(* Mutant: both ends are looked up before the first is taken. *)
LookUpTogether(c, e) ==
  LET both == Looked(Looked(c.cache, e[1]), e[2])
  IN  [cache |-> both, pairs |-> Append(c.pairs, [a |-> both[e[1] % OffsetCacheSize].list,
                                                  b |-> both[e[2] % OffsetCacheSize].list])]

LookUp(c, e) ==
  LET first == Looked(c.cache, e[1])
  IN  [cache |-> Looked(first, e[2]),
       pairs |-> Append(c.pairs, [a |-> Found(c.cache, e[1]), b |-> Found(first, e[2])])]

(* The edges of a word both of whose lists have elements join the batch;   *)
(* it is sent when it is full.                                             *)
loadOffset ==
  /\ st.sent < Len(args.edges)
  /\ LET word == SubSeq(args.edges, st.sent + 1, Smaller(st.sent + Burst, Len(args.edges)))
         look == FoldLeft(LookUp, [cache |-> st.cache, pairs |-> << >>], word)
         batch == st.batch \o SelectSeq(look.pairs, LAMBDA p : p.a.length > 0 /\ p.b.length > 0)
         next == [st EXCEPT !.sent = @ + Burst, !.cache = look.cache]
     IN  IF Len(batch) < Parallel THEN st' = [next EXCEPT !.batch = batch]
         ELSE /\ Len(st.batches) < Depth
              /\ st' = [next EXCEPT
                          !.batch = SubSeq(batch, Parallel + 1, Len(batch)),
                          !.batches = Append(@, [pair |-> SubSeq(batch, 1, Parallel), more |-> TRUE])]
  /\ UNCHANGED <<args, mem>>

Padded(batch) == [j \in Lane |-> IF j <= Len(batch) THEN batch[j] ELSE NoPair]

(* What is left is sent twice: the second time to have the first processed. *)
lastBatches ==
  /\ st.sent >= Len(args.edges) /\ st.ends < 2 /\ Len(st.batches) < Depth
  /\ st' = [st EXCEPT !.ends = @ + 1,
                      !.batches = Append(@, [pair |-> Padded(st.batch), more |-> st.ends = 0])]
  /\ UNCHANGED <<args, mem>>
-----------------------------------------------------------------------------
Skipped(r) == r.length <= 0 \/ r.offset < 0

(* Mutant: the list stays where it starts in its word. *)
ShiftedNot(buffer, r) ==
  [i \in DOMAIN buffer |-> IF First(r) * T + i < End(r) * T THEN First(r) * T + i ELSE buffer[i]]

(* A list moved to the start of a buffer.  Its words bring, behind its     *)
(* last element, what follows it in memory.                                *)
Shifted(buffer, r) ==
  [i \in DOMAIN buffer |-> IF r.offset + i < End(r) * T THEN r.offset + i ELSE buffer[i]]

(* loadCpyListA for one lane.  tagRead is the tag of the cache as it was   *)
(* before the batch: list_cache_tag is not read again after a miss.        *)
LoadListA(c, j, r, tagRead) ==
  IF Skipped(r) \/ r.offset = c.tag[j] THEN c
  ELSE IF r.offset = tagRead
  THEN [c EXCEPT !.tag[j] = tagRead, !.buffer[j] = c.cached.buffer]
  ELSE [tag |-> [c.tag EXCEPT ![j] = r.offset],
        buffer |-> [c.buffer EXCEPT ![j] = Shifted(@, r)],
        cached |-> [tag |-> r.offset, buffer |-> Shifted(c.cached.buffer, r)]]

loadCpyListA(side, pairs) ==
  FoldLeft(LAMBDA c, j : LoadListA(c, j, pairs[j].a, st.cachedA.tag),
           [tag |-> st.tagA[side], buffer |-> st.listA[side], cached |-> st.cachedA], [j \in Lane |-> j])

(* loadCpyListB for one lane *)
LoadListB(c, j, r) ==
  LET x == r.offset % CacheLength
  IN  IF Skipped(r) THEN c
      ELSE IF c.cache[x].tag = r.offset THEN [c EXCEPT !.buffer[j] = c.cache[x].buffer]
      ELSE [buffer |-> [c.buffer EXCEPT ![j] = Shifted(@, r)],
            cache |-> [c.cache EXCEPT ![x] = [tag |-> r.offset, buffer |-> Shifted(@.buffer, r)]]]

loadCpyListB(side, pairs) ==
  FoldLeft(LAMBDA c, j : LoadListB(c, j, pairs[j].b),
           [buffer |-> st.listB[side], cache |-> st.cacheB], [j \in Lane |-> j])
-----------------------------------------------------------------------------
(* The first length elements of a buffer.                                  *)
Seen(buffer, length) ==
  [i \in 1 .. length |-> IF i - 1 \in DOMAIN buffer /\ buffer[i - 1] \in DOMAIN G.column
                         THEN G.column[buffer[i - 1]] ELSE None]

processList(side) ==
  Sum([j \in Lane |-> Matches(Seen(st.listA[side][j], st.out[side][j].a.length),
                              Seen(st.listB[side][j], st.out[side][j].b.length))])

(* A turn of the loop: what was loaded in the turn before is intersected.  *)
turn ==
  /\ st.batches # << >> /\ ~st.done
  /\ LET pairs == Head(st.batches).pair
         a == loadCpyListA(st.side, pairs)
         b == loadCpyListB(st.side, pairs)
     IN  st' = [st EXCEPT !.batches = Tail(@), !.count = @ + processList(1 - st.side),
                          !.tagA[st.side] = a.tag, !.listA[st.side] = a.buffer, !.cachedA = a.cached,
                          !.listB[st.side] = b.buffer, !.cacheB = b.cache,
                          !.out[st.side] = pairs, !.side = 1 - @, !.done = ~Head(st.batches).more]
  /\ mem' = IF Head(st.batches).more THEN mem ELSE st'.count
  /\ UNCHANGED args
-----------------------------------------------------------------------------
Side == {0, 1}   \* pp: ping and pong

NoLists == [j \in Lane |-> Blank(T)]

Init ==
  /\ \E g \in Graphs : \E edges \in EdgeLists(g) : args = [graph |-> g, edges |-> edges]
  /\ mem = None
  /\ st = [sent |-> 0, batch |-> << >>, batches |-> << >>, ends |-> 0,
           cache |-> [i \in 0 .. OffsetCacheSize - 1 |-> [tag |-> None, list |-> Empty]],
           listA |-> [s \in Side |-> NoLists], listB |-> [s \in Side |-> NoLists],
           tagA  |-> [s \in Side |-> [j \in Lane |-> None]],
           cachedA |-> [tag |-> None, buffer |-> Blank(T)],
           cacheB |-> [x \in 0 .. CacheLength - 1 |-> [tag |-> None, buffer |-> Blank(T)]],
           out |-> [s \in Side |-> Padded(<< >>)], side |-> 0, count |-> 0, done |-> FALSE]

Done == st.done

Next == loadOffset \/ lastBatches \/ turn

Spec == Init /\ [][Next]_vars /\ WF_vars(Next)
-----------------------------------------------------------------------------
(* The edges of each first vertex stand together, as in the lists that the *)
(* dataset scripts write.                                                  *)
Grouped(edges) ==
  \A i, j \in DOMAIN edges : i < j /\ edges[i][1] = edges[j][1] =>
    \A k \in i .. j : edges[k][1] = edges[i][1]

(* The number that is returned is that of the triangles on the edges.  It  *)
(* need not be when a first vertex comes back: the lists of two vertices   *)
(* are then mixed up (LoadListA).                                          *)
CountsTriangles == Done /\ Grouped(args.edges) => mem = Triangles(G, args.edges)

(* The buffers of a side hold the lists of the batch that was loaded into  *)
(* them, and the cache of lists B what its tags say.                       *)
BuffersHoldTheirLists ==
  Grouped(args.edges) => \A s \in Side, j \in Lane :
    LET pair == st.out[s][j]
    IN  pair.a.length > 0 =>
          /\ Seen(st.listA[s][j], pair.a.length) = InMemory(G.column, pair.a)
          /\ Seen(st.listB[s][j], pair.b.length) = InMemory(G.column, pair.b)
=============================================================================
