--------------------------- MODULE ParallelMerge -----------------------------
(***************************************************************************)
(* acc_impl/src/parallel_merge.cpp: the ping-pong kernel whose             *)
(* setIntersection chooses between a binary search, for lists of very      *)
(* different lengths, a comparison of whole words for two long lists, and  *)
(* a merge.                                                                *)
(*                                                                         *)
(* loadEdgeList and loadOffset run beside the loop; the parts of a turn of *)
(* the loop touch different buffers and are one step.                      *)
(***************************************************************************)
EXTENDS Lists
LOCAL INSTANCE SequencesExt
LOCAL INSTANCE FiniteSets
LOCAL INSTANCE FiniteSetsExt

CONSTANTS Graphs, EdgeLists(_),
          Parallel,    \* T_2: edges in a word and lists in a batch, 8
          BufDepth,    \* BUF_DEPTH, 512 words
          MaxBurst,    \* 65516 elements
          Ratio,       \* 32: from which ratio of the lengths on it searches
          LongList,    \* 36: from which length on words are compared
          Depth        \* depth of the streams

VARIABLES
  args,   \* the graph and the edge list
  mem,    \* tc_number
  st      \* the streams, and the variables of the two processes

vars == <<args, mem, st>>

G    == args.graph
Lane == 1 .. Parallel
NoPair == [a |-> List(0, 0), b |-> List(0, 0)]
ListOf(v) == List(G.offset[v], G.offset[v + 1] - G.offset[v])
-----------------------------------------------------------------------------
(* The edges of a word both of whose lists have elements join the batch;   *)
(* it is sent when it is full.                                             *)
loadOffset ==
  /\ st.sent < Len(args.edges)
  /\ LET word == SubSeq(args.edges, st.sent + 1, Smaller(st.sent + Parallel, Len(args.edges)))
         pairs == [j \in DOMAIN word |-> [a |-> ListOf(word[j][1]), b |-> ListOf(word[j][2])]]
         batch == st.batch \o SelectSeq(pairs, LAMBDA p : p.a.length > 0 /\ p.b.length > 0)
     IN  IF Len(batch) < Parallel THEN st' = [st EXCEPT !.sent = @ + Parallel, !.batch = batch]
         ELSE /\ Len(st.batches) < Depth
              /\ st' = [st EXCEPT !.sent = @ + Parallel,
                                  !.batch = SubSeq(batch, Parallel + 1, Len(batch)),
                                  !.batches = Append(@, [pair |-> SubSeq(batch, 1, Parallel), more |-> TRUE])]
  /\ UNCHANGED <<args, mem>>

Padded(batch) == [j \in Lane |-> IF j <= Len(batch) THEN batch[j] ELSE NoPair]

(* What is left is sent twice: the second time to have the first processed. *)
lastBatches ==
  /\ st.sent >= Len(args.edges) /\ st.ends < 2 /\ Len(st.batches) < Depth
  /\ st' = [st EXCEPT !.ends = @ + 1,
                      !.batches = Append(@, [pair |-> Padded(st.batch), more |-> st.ends = 0])]
  /\ UNCHANGED <<args, mem>>
-----------------------------------------------------------------------------
loadCpyListA(side, pairs) ==
  FoldLeft(LAMBDA c, j : LoadA(c, j, pairs[j].a),
           [tag |-> st.tagA[side], buffer |-> st.listA[side], cached |-> st.cachedA], [j \in Lane |-> j])

(* Mutant: lists go into one burst wherever they are. *)
FollowsAny(r, next, length) == next.length > 0

(* The next list lies right behind this one.                               *)
Follows(r, next, length) == r.offset + r.length = next.offset /\ length < MaxBurst

(* Lists that follow each other are loaded in one burst, from the first    *)
(* word of the first (lane c.start) to the last word of the last.          *)
LoadB(c, j, requests) ==
  IF j < Parallel /\ Follows(requests[j], requests[j + 1], c.length)
  THEN [c EXCEPT !.length = @ + requests[j].length]
  ELSE [length |-> 0, start |-> j + 1,
        buffer |-> Spread(c.buffer, requests, First(requests[c.start]), End(requests[j]))]

loadListB(side, pairs) ==
  FoldLeft(LAMBDA c, j : LoadB(c, j, [l \in Lane |-> pairs[l].b]),
           [length |-> 0, start |-> 1, buffer |-> st.listB[side]], [j \in Lane |-> j]).buffer
-----------------------------------------------------------------------------
(* The elements of the short list that are in the long one.                *)
setIntersectionBiSearch(short, long) ==
  Cardinality({i \in DOMAIN short : lbitBinarySearch(long, short[i])})

(* The elements of list r in word w of its buffer, as far as they are r's. *)
InWord(buffer, r, w) ==
  {Element(G.column, buffer, w * T + i) : i \in {i \in 0 .. T - 1 :
      w * T + i >= r.offset % T /\ w * T + i < (r.offset % T) + r.length}}

LastInWord(buffer, w) == Element(G.column, buffer, w * T + T - 1)

(* Mutant: the word with the larger last element is left first. *)
Ahead(last, other) == last > other

Behind(last, other) == last < other

(* Words of A from wa on against words of B from wb on.  The word whose    *)
(* last element is smaller is left; both when the last elements are equal. *)
RECURSIVE WordMatches(_, _, _, _, _, _)
WordMatches(bufA, a, bufB, b, wa, wb) ==
  LET wordsA == ((a.offset % T) + a.length + T - 1) \div T
      wordsB == ((b.offset % T) + b.length + T - 1) \div T
      lastA  == LastInWord(bufA, wa)
      lastB  == LastInWord(bufB, wb)
      here   == Cardinality({x \in InWord(bufA, a, wa) : x \in InWord(bufB, b, wb)})
      rest(x, y) == here + WordMatches(bufA, a, bufB, b, x, y)
  IN  IF wa >= wordsA \/ wb >= wordsB THEN 0
      ELSE IF wa = wordsA - 1 THEN rest(wa, wb + 1)
      ELSE IF wb = wordsB - 1 THEN rest(wa + 1, wb)
      ELSE IF lastA = lastB THEN rest(wa + 1, wb + 1)
      ELSE IF Behind(lastA, lastB) THEN rest(wa + 1, wb) ELSE rest(wa, wb + 1)

Seen(buffer, r) == Elements(G.column, buffer, r.offset % T, r.length)

setIntersectionMerge(bufA, a, bufB, b) ==
  IF a.length >= LongList /\ b.length >= LongList THEN WordMatches(bufA, a, bufB, b, 0, 0)
  ELSE Matches(Seen(bufA, a), Seen(bufB, b))

(* Two empty lists, those of a batch that is not full, are searched in too: *)
(* no element is looked for.                                               *)
setIntersection(bufA, a, bufB, b) ==
  IF b.length >= a.length * Ratio THEN setIntersectionBiSearch(Seen(bufA, a), Seen(bufB, b))
  ELSE IF a.length >= b.length * Ratio THEN setIntersectionBiSearch(Seen(bufB, b), Seen(bufA, a))
  ELSE setIntersectionMerge(bufA, a, bufB, b)

processList(side) ==
  Sum([j \in Lane |-> setIntersection(st.listA[side][j], st.out[side][j].a,
                                      st.listB[side][j], st.out[side][j].b)])

(* A turn of the loop: what was loaded in the turn before is intersected.  *)
turn ==
  /\ st.batches # << >> /\ ~st.done
  /\ LET pairs == Head(st.batches).pair
         a == loadCpyListA(st.side, pairs)
     IN  st' = [st EXCEPT !.batches = Tail(@), !.count = @ + processList(1 - st.side),
                          !.tagA[st.side] = a.tag, !.listA[st.side] = a.buffer, !.cachedA = a.cached,
                          !.listB[st.side] = loadListB(st.side, pairs),
                          !.out[st.side] = pairs, !.side = 1 - @, !.done = ~Head(st.batches).more]
  /\ mem' = IF Head(st.batches).more THEN mem ELSE st'.count
  /\ UNCHANGED args
-----------------------------------------------------------------------------
Side == {0, 1}   \* pp: ping and pong

Init ==
  /\ \E g \in Graphs : \E edges \in EdgeLists(g) : args = [graph |-> g, edges |-> edges]
  /\ mem = None
  /\ st = [sent |-> 0, batch |-> << >>, batches |-> << >>, ends |-> 0,
           listA |-> [s \in Side |-> [j \in Lane |-> Blank(BufDepth)]],
           listB |-> [s \in Side |-> [j \in Lane |-> Blank(BufDepth)]],
           tagA  |-> [s \in Side |-> [j \in Lane |-> None]],
           cachedA |-> [tag |-> None, len |-> 0, buffer |-> Blank(BufDepth)],
           out |-> [s \in Side |-> Padded(<< >>)], side |-> 0, count |-> 0, done |-> FALSE]

Done == st.done

Next == loadOffset \/ lastBatches \/ turn

Spec == Init /\ [][Next]_vars /\ WF_vars(Next)
-----------------------------------------------------------------------------
(* The number that is returned is that of the triangles on the edges,      *)
(* whichever of the three ways each pair of lists is intersected in.       *)
CountsTriangles == Done => mem = Triangles(G, args.edges)

(* The buffers of a side hold the lists of the batch that was loaded into  *)
(* them, also those that came in a burst for several lanes.                *)
BuffersHoldTheirLists ==
  \A s \in Side, j \in Lane :
    LET pair == st.out[s][j]
    IN  pair.a.length > 0 => /\ Seen(st.listA[s][j], pair.a) = InMemory(G.column, pair.a)
                             /\ Seen(st.listB[s][j], pair.b) = InMemory(G.column, pair.b)
=============================================================================
