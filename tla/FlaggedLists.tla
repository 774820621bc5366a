---------------------------- MODULE FlaggedLists -----------------------------
(***************************************************************************)
(* acc_impl/src/tc_backup.cpp: the ping-pong kernel whose loadOffset finds *)
(* the lists B that are to be loaded together and flags them: the first    *)
(* list of a group with the length of the whole group, the others with -1, *)
(* a list of its own with its length.                                      *)
(*                                                                         *)
(* The parts of a turn of the loop touch different buffers and are one     *)
(* step.                                                                   *)
(***************************************************************************)
EXTENDS Lists
LOCAL INSTANCE SequencesExt
LOCAL INSTANCE FiniteSetsExt

CONSTANTS Graphs, EdgeLists(_),
          Parallel,   \* T_2: edges in a word and lists in a batch, 8
          BufDepth,   \* BUF_DEPTH, 512 words
          MaxBurst,   \* 65516 elements
          Depth       \* depth of the streams

VARIABLES
  args,   \* the graph and the edge list
  mem,    \* tc_number
  st      \* the streams, and the variables of the two processes

vars == <<args, mem, st>>

G     == args.graph
Lane  == 1 .. Parallel
Words == (Len(args.edges) + Parallel - 1) \div Parallel
ListOf(v) == List(G.offset[v], G.offset[v + 1] - G.offset[v])
-----------------------------------------------------------------------------
(* The list belongs to the next vertex.                                    *)
Continues(c, v, r) == v = c.vertex + 1 /\ c.length + r.length < MaxBurst

(* Mutant: a list of its own leaves the group open. *)
FlagGroupStays(c, v, r) ==
  IF Continues(c, v, r)
  THEN [vertex |-> v, start |-> c.start, length |-> c.length + r.length,
        flag |-> Append([c.flag EXCEPT ![c.start] = c.length + r.length], -1)]
  ELSE [vertex |-> v, start |-> c.start, length |-> r.length, flag |-> Append(c.flag, r.length)]

(* One edge: c holds the vertex before, where its group starts, the length *)
(* of the group, and the flags.                                            *)
Flag(c, v, r) ==
  LET j == Len(c.flag) + 1
  IN  IF Continues(c, v, r)
      THEN [vertex |-> v, start |-> c.start, length |-> c.length + r.length,
            flag |-> Append([c.flag EXCEPT ![c.start] = c.length + r.length], -1)]
      ELSE [vertex |-> v, start |-> j, length |-> r.length, flag |-> Append(c.flag, r.length)]

(* A word of edges; what is missing at its end are empty lists.  The word  *)
(* after the last one has none: it has the last batch processed.           *)
loadOffset ==
  /\ st.word <= Words /\ Len(st.batches) < Depth
  /\ LET word == SubSeq(args.edges, st.word * Parallel + 1,
                        Smaller((st.word + 1) * Parallel, Len(args.edges)))
         flagged == FoldLeft(LAMBDA c, e : Flag(c, e[2], ListOf(e[2])),
                             [vertex |-> -2, start |-> 1, length |-> 0, flag |-> << >>], word)
         edge(j) == IF j <= Len(word)
                    THEN [a |-> ListOf(word[j][1]), b |-> ListOf(word[j][2]), flag |-> flagged.flag[j]]
                    ELSE [a |-> List(0, 0), b |-> List(0, 0), flag |-> 0]
     IN  st' = [st EXCEPT !.word = @ + 1, !.batches = Append(@, [j \in Lane |-> edge(j)])]
  /\ UNCHANGED <<args, mem>>
-----------------------------------------------------------------------------
(* loadCpyListA for one lane; a copy from the cache keeps the lane's tag.  *)
LoadListA(c, j, r) ==
  IF HeldA(c, j, r) THEN c
  ELSE IF CachedA(c, r) THEN [LoadA(c, j, r) EXCEPT !.tag = c.tag]
  ELSE LoadA(c, j, r)

loadCpyListA(side, batch) ==
  FoldLeft(LAMBDA c, j : LoadListA(c, j, batch[j].a),
           [tag |-> st.tagA[side], buffer |-> st.listA[side], cached |-> st.cachedA], [j \in Lane |-> j])

(* The last lane whose list is not loaded by itself.                       *)
LastGrouped(batch) == Max({0} \cup {j \in Lane : batch[j].flag # batch[j].b.length})

(* loadListB for one lane: its own list, or those of the group it starts.  *)
LoadListB(buffers, j, batch) ==
  LET r == batch[j].b
      burst == Spread(buffers, [l \in Lane |-> batch[l].b],
                      First(r), End(List(r.offset, batch[j].flag)))
  IN  IF batch[j].flag = r.length THEN [buffers EXCEPT ![j] = Copied(@, First(r), End(r))]
      ELSE IF batch[j].flag > r.length
      THEN [l \in Lane |-> IF l \in j .. LastGrouped(batch) THEN burst[l] ELSE buffers[l]]
      ELSE buffers

loadListB(side, batch) ==
  FoldLeft(LAMBDA buffers, j : LoadListB(buffers, j, batch), st.listB[side], [j \in Lane |-> j])
-----------------------------------------------------------------------------
Seen(buffer, r) == Elements(G.column, buffer, r.offset % T, r.length)

(* setIntersection merges or searches, which gives the same (see           *)
(* ParallelMerge).                                                         *)
processList(side) ==
  Sum([j \in Lane |-> Matches(Seen(st.listA[side][j], st.out[side][j].a),
                              Seen(st.listB[side][j], st.out[side][j].b))])

(* A turn of the loop: what was loaded in the turn before is intersected.  *)
turn ==
  /\ st.batches # << >>
  /\ LET batch == Head(st.batches)
         a == loadCpyListA(st.side, batch)
         last == st.turns = Words
     IN  /\ st' = [st EXCEPT !.batches = Tail(@), !.count = @ + processList(1 - st.side),
                             !.tagA[st.side] = a.tag, !.listA[st.side] = a.buffer, !.cachedA = a.cached,
                             !.listB[st.side] = loadListB(st.side, batch),
                             !.out[st.side] = batch, !.side = 1 - @, !.turns = @ + 1]
         /\ mem' = IF last THEN st'.count ELSE mem
  /\ UNCHANGED args
-----------------------------------------------------------------------------
Side == {0, 1}   \* pp: ping and pong

NoEdge == [a |-> List(0, 0), b |-> List(0, 0), flag |-> 0]

Init ==
  /\ \E g \in Graphs : \E edges \in EdgeLists(g) : args = [graph |-> g, edges |-> edges]
  /\ mem = None
  /\ st = [word |-> 0, batches |-> << >>, turns |-> 0, side |-> 0, count |-> 0,
           listA |-> [s \in Side |-> [j \in Lane |-> Blank(BufDepth)]],
           listB |-> [s \in Side |-> [j \in Lane |-> Blank(BufDepth)]],
           tagA  |-> [s \in Side |-> [j \in Lane |-> None]],
           cachedA |-> [tag |-> None, len |-> 0, buffer |-> Blank(BufDepth)],
           out |-> [s \in Side |-> [j \in Lane |-> NoEdge]]]

Done == st.turns = Words + 1

Next == loadOffset \/ turn

Spec == Init /\ [][Next]_vars /\ WF_vars(Next)
-----------------------------------------------------------------------------
(* No first vertex comes back after another one, and none is without       *)
(* neighbours: else a lane's tag, which a copy from the cache does not     *)
(* change, may name a list that the buffer no longer holds.                *)
Grouped(edges) ==
  /\ \A i \in DOMAIN edges : ListOf(edges[i][1]).length > 0
  /\ \A i, j \in DOMAIN edges : i < j /\ edges[i][1] = edges[j][1] =>
       \A k \in i .. j : edges[k][1] = edges[i][1]

(* The number that is returned is that of the triangles on the edges.      *)
CountsTriangles == Done /\ Grouped(args.edges) => mem = Triangles(G, args.edges)

(* Every list of a batch was loaded by its own lane or by the one that its *)
(* group starts with.                                                      *)
BuffersHoldTheirLists ==
  Grouped(args.edges) => \A s \in Side, j \in Lane :
    LET e == st.out[s][j]
    IN  /\ Seen(st.listA[s][j], e.a) = InMemory(G.column, e.a)
        /\ Seen(st.listB[s][j], e.b) = InMemory(G.column, e.b)
=============================================================================
