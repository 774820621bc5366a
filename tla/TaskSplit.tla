----------------------------- MODULE TaskSplit -------------------------------
(***************************************************************************)
(* The task splitting kernel, acc_impl/src/tc_etaskSplit.cpp.  loadOffset  *)
(* looks up the lists of a burst of edges, elistTaskSplitter cuts long     *)
(* lists into pieces of L_LEN elements and pairs every piece of list A     *)
(* with every piece of list B, and the loop loads a batch of such tasks    *)
(* into one set of buffers while it intersects what is in the other.       *)
(*                                                                         *)
(* The parts of a turn of the loop touch different buffers; they are one   *)
(* step.  The streams between two processes are read and written together. *)
(***************************************************************************)
EXTENDS Lists
LOCAL INSTANCE SequencesExt

CONSTANTS Graphs, EdgeLists(_),
          Leftovers,        \* batches the registers *_ele_out_ping may hold
          Distances,        \* values of dist_coal
          Burst,            \* E_per_burst, edges in a word, 8
          Parallel,         \* tasks in a batch, 8
          BufDepth,         \* BUF_DEPTH, 4 words
          TaskLength,       \* L_LEN, 32
          OffsetCacheSize,  \* OFFSET_CACHE_SIZE, 256
          Depth             \* depth of the streams, 16 and 64

VARIABLES
  args,   \* graph, edge list, dist_coal, what the registers hold
  mem,    \* tc_number
  st      \* the streams, and the variables of the three processes

vars == <<args, mem, st>>

G    == args.graph
Lane == 1 .. Parallel
NoTask == [a |-> List(0, 0), b |-> List(0, 0)]
-----------------------------------------------------------------------------
(* cacheLoad: the cache after a lookup of vertex v.                        *)
cacheLoad(cache, v) ==
  LET x == v % OffsetCacheSize
  IN  IF cache[x].tag = v THEN cache
      ELSE [cache EXCEPT ![x] = [tag |-> v, list |-> List(G.offset[v], G.offset[v + 1] - G.offset[v])]]

Found(cache, v) == cacheLoad(cache, v)[v % OffsetCacheSize].list

(* A burst of edges; what is missing at its end are empty lists.           *)
loadOffset ==
  /\ st.sent < Len(args.edges) /\ Len(st.bursts) < Depth
  /\ LET edge(c, j) ==
           IF st.sent + j <= Len(args.edges)
           THEN LET e == args.edges[st.sent + j]
                IN  [a |-> cacheLoad(c.a, e[1]), b |-> cacheLoad(c.b, e[2]),
                     out |-> Append(c.out, [a |-> Found(c.a, e[1]), b |-> Found(c.b, e[2])])]
           ELSE [c EXCEPT !.out = Append(@, NoTask)]
         c == FoldLeft(edge, [a |-> st.cache.a, b |-> st.cache.b, out |-> << >>],
                       [j \in 1 .. Burst |-> j])
     IN  st' = [st EXCEPT !.sent = @ + Burst, !.cache = [a |-> c.a, b |-> c.b],
                          !.bursts = Append(@, c.out)]
  /\ UNCHANGED <<args, mem>>
-----------------------------------------------------------------------------
(* Mutant: a list's last, shorter piece is left out. *)
PiecesWhole(r) ==
  [k \in 1 .. r.length \div TaskLength |-> List(r.offset + (k - 1) * TaskLength, TaskLength)]

(* A list in pieces of L_LEN elements, the last one shorter.               *)
Pieces(r) ==
  [k \in 1 .. (r.length + TaskLength - 1) \div TaskLength |->
     LET done == (k - 1) * TaskLength
     IN  List(r.offset + done, IF r.length - done < TaskLength THEN r.length - done ELSE TaskLength)]

Tasks(pair) ==
  LET as == Pieces(pair.a)
      bs == Pieces(pair.b)
  IN  FlattenSeq([k \in DOMAIN as |-> [l \in DOMAIN bs |-> [a |-> as[k], b |-> bs[l]]]])

takeBurst ==
  /\ st.bursts # << >> /\ st.tasks = << >>
  /\ st' = [st EXCEPT !.bursts = Tail(@), !.tasks = FlattenSeq([j \in 1 .. Burst |-> Tasks(Head(st.bursts)[j])])]
  /\ UNCHANGED <<args, mem>>

(* A full batch is sent at once.                                           *)
elistTaskSplitter ==
  /\ st.tasks # << >>
  /\ LET batch == Append(st.batch, Head(st.tasks))
     IN  IF Len(batch) < Parallel
         THEN st' = [st EXCEPT !.tasks = Tail(@), !.batch = batch]
         ELSE /\ Len(st.batches) < Depth
              /\ st' = [st EXCEPT !.tasks = Tail(@), !.batch = << >>,
                                  !.batches = Append(@, [task |-> batch, more |-> TRUE])]
  /\ UNCHANGED <<args, mem>>

SplitAll == st.sent >= Len(args.edges) /\ st.bursts = << >> /\ st.tasks = << >>

Padded(batch) == [j \in Lane |-> IF j <= Len(batch) THEN batch[j] ELSE NoTask]

(* What is left is sent twice: the second time to have the first processed. *)
lastBatches ==
  /\ SplitAll /\ st.ends < 2 /\ Len(st.batches) < Depth
  /\ st' = [st EXCEPT !.ends = @ + 1,
                      !.batches = Append(@, [task |-> Padded(st.batch), more |-> st.ends = 0])]
  /\ UNCHANGED <<args, mem>>
-----------------------------------------------------------------------------
loadCpyListA(side, tasks) ==
  FoldLeft(LAMBDA c, j : LoadA(c, j, tasks[j].a),
           [tag |-> st.tagA[side], buffer |-> st.listA[side], cached |-> st.cachedA], [j \in Lane |-> j])
-----------------------------------------------------------------------------
(* Mutant: joined requests start where the first one does. *)
JoinedForward(c, r) == [c EXCEPT !.hi = Larger(c.hi, End(r))]

(* The words of two requests and all between them.                         *)
Joined(c, r) == [c EXCEPT !.lo = Smaller(c.lo, First(r)), !.hi = Larger(c.hi, End(r))]

Joins(c, r) == Joined(c, r).hi - Joined(c, r).lo <= (c.hi - c.lo) + r.length + args.distance

(* One lane: its request begins a new range when none is pending, and the  *)
(* range is loaded unless the next lane's request joins it.                *)
LoadB(c, j, tasks) ==
  LET range == IF c.hi = c.lo THEN [c EXCEPT !.lo = First(tasks[j].b), !.hi = End(tasks[j].b)] ELSE c
  IN  IF j < Parallel /\ Joins(range, tasks[j + 1].b) THEN Joined(range, tasks[j + 1].b)
      ELSE [lo |-> 0, hi |-> 0, buffer |-> Spread(range.buffer, [l \in Lane |-> tasks[l].b], range.lo, range.hi)]

loadCpyListB(side, tasks) ==
  FoldLeft(LAMBDA c, j : LoadB(c, j, tasks), [lo |-> 0, hi |-> 0, buffer |-> st.listB[side]],
           [j \in Lane |-> j]).buffer
-----------------------------------------------------------------------------
Seen(buffer, r) == Elements(G.column, buffer, r.offset % T, r.length)

processList(side) ==
  Sum([j \in Lane |-> Matches(Seen(st.listA[side][j], st.out[side][j].a),
                              Seen(st.listB[side][j], st.out[side][j].b))])

(* A turn of the loop: what was loaded in the turn before is intersected.  *)
turn ==
  /\ st.batches # << >> /\ ~st.done
  /\ LET tasks == Head(st.batches).task
         a == loadCpyListA(st.side, tasks)
     IN  st' = [st EXCEPT !.batches = Tail(@), !.count = @ + processList(1 - st.side),
                          !.tagA[st.side] = a.tag, !.listA[st.side] = a.buffer, !.cachedA = a.cached,
                          !.listB[st.side] = loadCpyListB(st.side, tasks),
                          !.out[st.side] = tasks, !.side = 1 - @, !.done = ~Head(st.batches).more]
  /\ mem' = IF Head(st.batches).more THEN mem ELSE st'.count
  /\ UNCHANGED args
-----------------------------------------------------------------------------
Side == {0, 1}   \* pp: ping and pong

Init ==
  /\ \E g \in Graphs : \E edges \in EdgeLists(g), d \in Distances, stale \in Leftovers :
       args = [graph |-> g, edges |-> edges, distance |-> d, stale |-> Padded(stale)]
  /\ mem = None
  /\ st = [sent |-> 0, bursts |-> << >>, tasks |-> << >>, batch |-> << >>, batches |-> << >>, ends |-> 0,
           cache |-> [x \in {"a", "b"} |-> [i \in 0 .. OffsetCacheSize - 1 |->
                                              [tag |-> None, list |-> List(0, 0)]]],
           listA |-> [s \in Side |-> [j \in Lane |-> Blank(BufDepth)]],
           listB |-> [s \in Side |-> [j \in Lane |-> Blank(BufDepth)]],
           tagA  |-> [s \in Side |-> [j \in Lane |-> None]],
           cachedA |-> [tag |-> None, len |-> 0, buffer |-> Blank(BufDepth)],
           out |-> [s \in Side |-> args.stale], side |-> 0, count |-> 0, done |-> FALSE]

Done == st.done

Next == loadOffset \/ takeBurst \/ elistTaskSplitter \/ lastBatches \/ turn

Spec == Init /\ [][Next]_vars /\ WF_vars(Next)
-----------------------------------------------------------------------------
(* The number that is returned is that of the triangles on the edges: the  *)
(* pieces of two lists meet each other once.  It is not when the registers *)
(* for the lengths held a batch at the start of the call.                  *)
CountsTriangles ==
  Done /\ args.stale = Padded(<< >>) => mem = Triangles(G, args.edges)

(* When a turn ends the buffers it loaded hold the lists of its tasks,     *)
(* whichever of memory, the cache or a burst for other lanes they are from. *)
BuffersHoldTheirTasks ==
  \A s \in Side, j \in Lane :
    LET task == st.out[s][j]
    IN  st.out[s] # args.stale /\ task.a.length > 0 =>
          /\ Seen(st.listA[s][j], task.a) = InMemory(G.column, task.a)
          /\ Seen(st.listB[s][j], task.b) = InMemory(G.column, task.b)
=============================================================================
