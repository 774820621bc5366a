------------------------------- MODULE CsrCsc -------------------------------
(***************************************************************************)
(* From rows to columns of the adjacency matrix, acc_fpga/include/hw/      *)
(* convert_csr_csc.hpp: count the entries of every column (calcuDegree),   *)
(* sum them up (calcuOffset), then give every edge, row by row, the next   *)
(* place of its column (calcuIndex), a counter that lives in a LineCache.  *)
(* offsetTmp0 holds the degrees, offsetTmp1 the next places.               *)
(***************************************************************************)
EXTENDS LineCache
LOCAL INSTANCE SequencesExt
LOCAL INSTANCE FiniteSets

CONSTANTS Graphs,   \* graphs considered, in CSR format
          Depth     \* places in addrStrm and indexG2Strm, 256

VARIABLES
  args,   \* graph: offsetIn and indexIn
  mem,    \* offsetTmp0, offsetTmp1, offsetOut and indexOut
  st      \* pc, cache, edge j of row i, the stream of places and sources

vars == <<args, mem, st>>

G == args.graph
NumEdge == G.offset[G.num]

Words == (G.num + T) \div T        \* lines of an array of offsets
Lines == (G.num + T - 1) \div T    \* iteration, lines of an array of degrees
-----------------------------------------------------------------------------
calcuDegree ==
  /\ st.pc = "degree" /\ st.j < NumEdge
  /\ LET val == G.column[st.j]
     IN  /\ mem' = [mem EXCEPT !.tmp0 = Evicted(st.cache, @, val)]
         /\ st' = [st EXCEPT !.j = @ + 1, !.cache = Counted(@, mem.tmp0, val, 1)]
  /\ UNCHANGED args

DegreeOut ==
  /\ st.pc = "degree" /\ st.j = NumEdge
  /\ mem' = [mem EXCEPT !.tmp0 = WrittenOut(st.cache, @, Lines)]
  /\ st' = [st EXCEPT !.pc = "offset", !.j = 0, !.cache = Empty]
  /\ UNCHANGED args

(* The sums of the degrees before each place.                              *)
SumBefore(degree) ==
  FoldLeft(LAMBDA s, i : Append(s, Last(s) + degree[i - 1]), <<0>>, [i \in 1 .. T * Words |-> i])

calcuOffset ==
  /\ st.pc = "offset"
  /\ LET sums == SumBefore(mem.tmp0)
         offset == [i \in DOMAIN mem.tmp0 |-> sums[i + 1]]
     IN  mem' = [mem EXCEPT !.offsetOut = offset, !.tmp1 = offset]
  /\ st' = [st EXCEPT !.pc = "index"]
  /\ UNCHANGED args

(* Mutant: rows without edges are not counted. *)
RowAmongFull(j) ==
  Cardinality({i \in 0 .. G.num - 1 : G.offset[i + 1] <= j /\ G.offset[i] < G.offset[i + 1]})

(* The row that edge j belongs to: rows without edges are passed over.     *)
RowOf(j) == CHOOSE i \in 0 .. G.num - 1 : G.offset[i] <= j /\ j < G.offset[i + 1]

calcuIndex ==
  /\ st.pc = "index" /\ st.j < NumEdge /\ Len(st.q) < Depth
  /\ LET val == G.column[st.j]
         dest == Fetched(st.cache, mem.tmp1, val)[val % T]
     IN  /\ mem' = [mem EXCEPT !.tmp1 = Evicted(st.cache, @, val)]
         /\ st' = [st EXCEPT !.j = @ + 1, !.cache = Counted(@, mem.tmp1, val, 1),
                             !.q = Append(@, [addr |-> dest, index |-> RowOf(st.j)])]
  /\ UNCHANGED args

IndexOut ==
  /\ st.pc = "index" /\ st.j = NumEdge
  /\ mem' = [mem EXCEPT !.tmp1 = WrittenOut(st.cache, @, Lines)]
  /\ st' = [st EXCEPT !.pc = "written"]
  /\ UNCHANGED args

writeDDRByAddr ==
  /\ st.q # << >>
  /\ mem' = [mem EXCEPT !.indexOut[Head(st.q).addr] = Head(st.q).index]
  /\ st' = [st EXCEPT !.q = Tail(@)]
  /\ UNCHANGED args
-----------------------------------------------------------------------------
(* The host clears offsetTmp0; the other arrays hold anything.             *)
Init ==
  /\ \E g \in Graphs : args = [graph |-> g]
  /\ LET blank == [i \in 0 .. T * Words - 1 |-> 0]
     IN  mem = [tmp0 |-> blank, tmp1 |-> blank, offsetOut |-> blank,
                indexOut |-> [i \in 0 .. NumEdge - 1 |-> -1]]
  /\ st = [pc |-> "degree", j |-> 0, cache |-> Empty, q |-> << >>]

Done == st.pc = "written" /\ st.q = << >>

Next == \/ calcuDegree \/ DegreeOut \/ calcuOffset
        \/ calcuIndex \/ IndexOut \/ writeDDRByAddr

Spec == Init /\ [][Next]_vars /\ WF_vars(Next)
-----------------------------------------------------------------------------
(* The sources of the edges to a vertex, in the order of the rows. *)
InRow(v) ==
  LET edges(u) == {j \in G.offset[u] .. G.offset[u + 1] - 1 : G.column[j] = v}
  IN  FlattenSeq([i \in 1 .. G.num |-> [k \in 1 .. Cardinality(edges(i - 1)) |-> i - 1]])

(* The result is the transposed matrix: every column has its entries, each *)
(* exactly once and in ascending order, between its offsets.               *)
IsTransposed ==
  Done => \A v \in 0 .. G.num - 1 :
    [i \in 1 .. mem.offsetOut[v + 1] - mem.offsetOut[v] |-> mem.indexOut[mem.offsetOut[v] + i - 1]]
      = InRow(v)

(* No place is given to two edges, however often the lines of counters     *)
(* leave the cache and come back between.                                  *)
PlacesAreDistinct ==
  /\ \A i, j \in DOMAIN st.q : st.q[i].addr = st.q[j].addr => i = j
  /\ \A i \in DOMAIN st.q : mem.indexOut[st.q[i].addr] = -1
=============================================================================
