-------------------------------- MODULE Mst --------------------------------
(***************************************************************************)
(* Minimum spanning tree by Prim's algorithm with a binary heap,           *)
(* acc_fpga/include/hw/mst.hpp.  The heap holds vertices, elems_[1] the    *)
(* nearest; idxs_ says where a vertex is.  Exchanges of places are made in *)
(* both arrays, in that order.  One action takes a vertex from the heap,   *)
(* one looks at one of its edges.                                          *)
(***************************************************************************)
EXTENDS GraphMemory
LOCAL INSTANCE FiniteSetsExt
LOCAL INSTANCE Functions

CONSTANTS Graphs,  \* undirected weighted graphs, in CSR format
          Far      \* the key of a vertex not reached, 100.0

VARIABLES
  args,   \* graph with column and weight, source
  mem,    \* mstRes, the parents
  st      \* keys, mstVert, inQ, the heap, the vertex tmp and its edge i

vars == <<args, mem, st>>

G      == args.graph
Vertex == 0 .. G.num - 1

Parent(i) == i \div 2
Left(i)   == 2 * i
Right(i)  == 2 * i + 1
-----------------------------------------------------------------------------
(* A heap h has elems, idxs, size and keys.                                *)
Key(h, i) == h.keys[h.elems[i]]

(* exchange_idx, then exchange: the vertices at i and j change places.     *)
Exchange(h, i, j) ==
  LET a == h.elems[i]
      b == h.elems[j]
  IN  [h EXCEPT !.idxs[a] = h.idxs[b], !.idxs[b] = h.idxs[a], !.elems[i] = b, !.elems[j] = a]

(* getLeftWeight and getRightWeight: Far past the end of the heap.         *)
WeightAt(h, i) == IF i > h.size THEN Far ELSE Key(h, i)
PlaceAt(h, i, cur) == IF i > h.size THEN cur ELSE i

(* Mutant: the right child is only looked at when the left is not smaller. *)
SmallestLeftFirst(h, cur) ==
  IF Key(h, cur) > WeightAt(h, Left(cur)) THEN PlaceAt(h, Left(cur), cur)
  ELSE IF Key(h, cur) > WeightAt(h, Right(cur)) THEN PlaceAt(h, Right(cur), cur)
  ELSE cur

(* The smallest of cur and its children.                                   *)
Smallest(h, cur) ==
  LET lw == WeightAt(h, Left(cur))
      rw == WeightAt(h, Right(cur))
  IN  IF Key(h, cur) > lw
      THEN IF lw > rw THEN PlaceAt(h, Right(cur), cur) ELSE PlaceAt(h, Left(cur), cur)
      ELSE IF Key(h, cur) > rw THEN PlaceAt(h, Right(cur), cur) ELSE cur

RECURSIVE Heapify(_, _)
Heapify(h, cur) ==
  IF cur > h.size \div 2 \/ Smallest(h, cur) = cur THEN h
  ELSE Heapify(Exchange(h, cur, Smallest(h, cur)), Smallest(h, cur))

(* The loop of push and of decrease_key.                                   *)
RECURSIVE Rise(_, _)
Rise(h, i) ==
  IF i > 1 /\ Key(h, Parent(i)) > Key(h, i)
  THEN Rise(Exchange(h, i, Parent(i)), Parent(i)) ELSE h

Popped(h) == Heapify([Exchange(h, 1, h.size) EXCEPT !.size = @ - 1], 1)

Push(h, elem) ==
  LET n == h.size + 1
  IN  Rise([h EXCEPT !.size = n, !.elems[n] = elem, !.idxs[elem] = n], n)

DecreaseKey(h, elem, key) == Rise([h EXCEPT !.keys[elem] = key], h.idxs[elem])
-----------------------------------------------------------------------------
(* Mutant: a vertex may join the tree again. *)
NearerAny(to, w) == w < st.heap.keys[to]

Nearer(to, w) == ~st.mstVert[to] /\ w < st.heap.keys[to]

Pop ==
  /\ st.pc = "pop" /\ st.heap.size # 0
  /\ LET tmp == st.heap.elems[1]
     IN  st' = [st EXCEPT !.pc = "edges", !.heap = Popped(@), !.mstVert[tmp] = TRUE,
                          !.tmp = tmp, !.i = G.offset[tmp]]
  /\ UNCHANGED <<args, mem>>

Relax ==
  /\ st.pc = "edges" /\ st.i < G.offset[st.tmp + 1]
  /\ LET to == G.column[st.i]
         w  == G.weight[st.i]
     IN  IF Nearer(to, w)
         THEN /\ mem' = [mem EXCEPT ![to] = st.tmp]
              /\ st' = [st EXCEPT !.i = @ + 1, !.inQ[to] = TRUE,
                                  !.heap = IF st.inQ[to] THEN DecreaseKey(@, to, w)
                                           ELSE Push([@ EXCEPT !.keys[to] = w], to)]
         ELSE st' = [st EXCEPT !.i = @ + 1] /\ UNCHANGED mem
  /\ UNCHANGED args

NextVertex ==
  /\ st.pc = "edges" /\ st.i = G.offset[st.tmp + 1]
  /\ st' = [st EXCEPT !.pc = "pop"]
  /\ UNCHANGED <<args, mem>>

Finish ==
  /\ st.pc = "pop" /\ st.heap.size = 0
  /\ st' = [st EXCEPT !.pc = "done"]
  /\ UNCHANGED <<args, mem>>
-----------------------------------------------------------------------------
NoParent == -1   \* what mstRes held before the call

(* loop0 and the source.  elems_ and idxs_ are static and keep old values. *)
Init ==
  /\ \E g \in Graphs : args = [graph |-> g, source |-> 0]
  /\ mem = [v \in Vertex |-> IF v = args.source THEN v ELSE NoParent]
  /\ st = [pc |-> "pop", tmp |-> 0, i |-> 0,
           mstVert |-> [v \in Vertex |-> FALSE],
           inQ |-> [v \in Vertex |-> v = args.source],
           heap |-> Push([elems |-> [i \in 1 .. G.num |-> 0], idxs |-> [v \in Vertex |-> 0],
                          size |-> 0,
                          keys |-> [v \in Vertex |-> IF v = args.source THEN 0 ELSE Far]],
                         args.source)]

Done == st.pc = "done"

Next == Pop \/ Relax \/ NextVertex \/ Finish

Spec == Init /\ [][Next]_vars /\ WF_vars(Next)
-----------------------------------------------------------------------------
(* The vertices joined to v by edges of a set of triples <<u, v, weight>>. *)
JoinedTo(v, edges) ==
  LET near[n \in 0 .. G.num] ==
        IF n = 0 THEN {v}
        ELSE LET old == near[n - 1] IN old \cup {e[2] : e \in {e \in edges : e[1] \in old}}
  IN  near[G.num]

Weighted(v, i) == <<v, G.column[i], G.weight[i]>>

Edges == UNION {{Weighted(v, i) : i \in G.offset[v] .. G.offset[v + 1] - 1} : v \in Vertex}

Tree == {e \in Edges : mem[e[1]] = e[2] \/ mem[e[2]] = e[1]}

(* The parents form a tree over the vertices joined to the source by edges *)
(* below the limit of a key, and it is a minimum one: whatever w, what is  *)
(* joined by edges of at most w is joined by such edges of the tree.       *)
TreeIsMinimal ==
  Done =>
    LET usable == {e \in Edges : e[3] < Far}
        reached == JoinedTo(args.source, usable)
        UpTo(edges, w) == {e \in edges : e[3] <= w}
    IN  /\ {v \in Vertex : mem[v] # NoParent} = reached
        /\ \A v \in reached \ {args.source} : <<mem[v], v>> \in {<<e[1], e[2]>> : e \in usable}
        /\ \A e \in usable :
             e[1] \in reached => e[2] \in JoinedTo(e[1], UpTo({t \in Tree : t[3] < Far}, e[3]))

(* Whatever was pushed, popped and moved, the heap is ordered and idxs_    *)
(* finds every vertex in it, so that a later decrease_key moves that one.  *)
HeapIsConsistent ==
  LET h == st.heap IN
  /\ \A i \in 2 .. h.size : Key(h, Parent(i)) <= Key(h, i)
  /\ \A i \in 1 .. h.size : h.idxs[h.elems[i]] = i
  /\ {h.elems[i] : i \in 1 .. h.size} = {v \in Vertex : st.inQ[v] /\ ~st.mstVert[v]}
=============================================================================
