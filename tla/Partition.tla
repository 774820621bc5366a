------------------------------ MODULE Partition ------------------------------
(***************************************************************************)
(* From a file of edges to a number of triangles, as the first version of  *)
(* the program did: dataset_adj_test/generate.py cleans the edges, cuts    *)
(* the graph into parts by the second vertex of an edge and counts with a  *)
(* pool of processes; then src/tc_kernel.cpp or c_model/TConePar.cpp,      *)
(* whose loop over the parts is the same, counts from the files.           *)
(***************************************************************************)
EXTENDS Lists
LOCAL INSTANCE TLC
LOCAL INSTANCE SequencesExt
LOCAL INSTANCE FiniteSets
LOCAL INSTANCE FiniteSetsExt

CONSTANTS Files,      \* edges as a file has them, any order and direction
          Interval,   \* partition_interval, 16
          Batch,      \* edges in edge_list_buf, 16
          BufDepth,   \* words of a buffer, 4096
          Ratio       \* from which ratio of the lengths on it searches, 32

VARIABLES
  args,   \* the file, the program that counts
  mem,    \* txt_array, the number of vertices, the parts in the CSR format
  st      \* pc; the numbers of the pool; part, edge and buffers of the program

vars == <<args, mem, st>>
-----------------------------------------------------------------------------
Ascending(e, f) == e[1] < f[1] \/ (e[1] = f[1] /\ e[2] < f[2])

Turned(e) == IF e[1] >= e[2] THEN <<e[2], e[1]>> ELSE e

(* Mutant: an edge is dropped that shares one end with the one before. *)
SameSource(e, f) == e[1] = f[1]

Duplicate(e, f) == e[1] = f[1] /\ e[2] = f[2]

(* Edges from the lower to the higher vertex, sorted, once each, no loops. *)
Cleaned(file) ==
  LET sorted == SortSeq([i \in DOMAIN file |-> Turned(file[i])], Ascending)
      simple == SelectSeq(sorted, LAMBDA e : e[1] # e[2])
  IN  FoldLeft(LAMBDA r, i : IF i > 1 /\ Duplicate(simple[i], simple[i - 1]) THEN r ELSE Append(r, simple[i]),
               << >>, [i \in DOMAIN simple |-> i])

Load ==
  /\ st.pc = "load"
  /\ LET txt == Cleaned(args.file)
     IN  mem' = [mem EXCEPT !.txt = txt, !.dim = 1 + Max({e[2] : e \in ToSet(txt)})]
  /\ st' = [st EXCEPT !.pc = "partition"]
  /\ UNCHANGED args

Dim == mem.dim
Num == (Dim + Interval - 1) \div Interval

Parts == IF st.pc = "load" THEN {} ELSE 0 .. Num - 1

(* partition_index: the first vertex of part p.                            *)
Index(p) == IF p = Num THEN Dim ELSE (Dim * p) \div Num

(* Mutant: the first vertex of the next part belongs to this one too. *)
InPartWide(p, v) == v >= Index(p) /\ v <= Index(p + 1)

InPart(p, v) == v >= Index(p) /\ v < Index(p + 1)

Csr(rows) ==
  [row |-> [v \in 0 .. Dim |-> FoldLeft(LAMBDA n, u : n + Len(rows[u - 1]), 0, [u \in 1 .. v |-> u])],
   col |-> LET all == FlattenSeq([u \in 1 .. Dim |-> rows[u - 1]])
           IN  [i \in 0 .. Len(all) - 1 |-> all[i + 1]]]

(* The same with every list filled up with zeros to whole words.           *)
Padding(n) == (T - (n % T)) % T

Aligned(rows) ==
  Csr([v \in DOMAIN rows |-> rows[v] \o [i \in 1 .. Padding(Len(rows[v])) |-> 0]])

(* A process of the pool: its part of the graph, or nothing.               *)
partition_multi_process(p) ==
  /\ st.pc = "partition" /\ p \notin DOMAIN mem.part
  /\ LET list == SelectSeq(mem.txt, LAMBDA e : InPart(p, e[2]))
         Row(v) == LET s == SelectSeq(list, LAMBDA e : e[1] = v) IN [i \in DOMAIN s |-> s[i][2]]
         rows == [v \in 0 .. Dim - 1 |-> Row(v)]
         new == IF list = << >> THEN [empty |-> TRUE]
                ELSE [empty |-> FALSE, csr |-> Csr(rows), align |-> Aligned(rows)]
     IN  mem' = [mem EXCEPT !.part = p :> new @@ @]
  /\ UNCHANGED <<args, st>>

(* The results are unpacked in order; an empty part has two where four are *)
(* asked for, which ends the program.                                      *)
Collect ==
  /\ st.pc = "partition" /\ DOMAIN mem.part = Parts
  /\ st' = [st EXCEPT !.pc = IF \E p \in DOMAIN mem.part : mem.part[p].empty THEN "failed" ELSE "intersect"]
  /\ UNCHANGED <<args, mem>>

ListOf(csr, v) == List(csr.row[v], csr.row[v + 1] - csr.row[v])

intersection_multi_process(p) ==
  /\ st.pc = "intersect" /\ p \notin DOMAIN st.pool
  /\ LET csr == mem.part[p].csr
         Neighbours(v) == ToSet(InMemory(csr.col, ListOf(csr, v)))
         count == FoldLeft(LAMBDA n, e : n + Cardinality(Neighbours(e[1]) \cap Neighbours(e[2])), 0, mem.txt)
     IN  st' = [st EXCEPT !.pool = p :> count @@ @]
  /\ UNCHANGED <<args, mem>>

Save ==
  /\ st.pc = "intersect" /\ DOMAIN st.pool = Parts
  /\ st' = [st EXCEPT !.pc = args.program]
  /\ UNCHANGED <<args, mem>>
-----------------------------------------------------------------------------
(* edge_list_reorder.py: the edges of every second vertex are turned round. *)
Before(e, f, reverse) == IF reverse THEN e[2] > f[2] ELSE e[2] < f[2]

Frequency(data, v) == Len(SelectSeq(data, LAMBDA e : e[1] = v))

Reordered(data) ==
  LET sources == FoldLeft(LAMBDA s, e : IF e[1] \in ToSet(s) THEN s ELSE Append(s, e[1]), << >>, data)
      next(r, v) == LET n == Frequency(data, v)
                    IN  [out |-> r.out \o SortSeq(SubSeq(data, Len(r.out) + 1, Len(r.out) + n),
                                                  LAMBDA e, f : Before(e, f, r.reserve_symbol)),
                         reserve_symbol |-> ~r.reserve_symbol]
  IN  FoldLeft(next, [out |-> << >>, reserve_symbol |-> FALSE], sources).out

Edges == IF args.reorder THEN Reordered(mem.txt) ELSE mem.txt

Part == mem.part[st.part].csr

(* SetIntersection by a search in the longer list (TConePar).              *)
RECURSIVE binarySearch(_, _, _, _)
binarySearch(list, low, high, key) ==
  /\ low <= high
  /\ LET mid == low + (high - low) \div 2
     IN  \/ list[mid + 1] = key
         \/ list[mid + 1] < key /\ binarySearch(list, mid + 1, high, key)
         \/ list[mid + 1] > key /\ binarySearch(list, low, mid - 1, key)

Searched(a, b) == Cardinality({i \in DOMAIN a : binarySearch(b, 0, Len(b) - 1, a[i])})

NextPart(total) == [st EXCEPT !.total = total, !.edge = 0, !.part = @ + 1]

TConePar ==
  /\ st.pc = "c_model" /\ st.part < Num
  /\ LET e == Edges[st.edge + 1]
         a == InMemory(Part.col, ListOf(Part, e[1]))
         b == InMemory(Part.col, ListOf(Part, e[2]))
         more == IF a = << >> \/ b = << >> THEN 0
                 ELSE IF Len(a) <= Len(b) THEN Searched(a, b) ELSE Searched(b, a)
     IN  st' = IF st.edge + 1 < Len(Edges) THEN [st EXCEPT !.total = @ + more, !.edge = @ + 1]
               ELSE NextPart(st.total + more)
  /\ UNCHANGED <<args, mem>>

(* Edge k of a batch, or <<-1, -1>> behind the last one (loadEdgelist).    *)
Nobody == <<-1, -1>>

EdgeOf(k) == IF k < Len(Edges) THEN Edges[k + 1] ELSE Nobody

(* Mutant: the last batch is left out. *)
MainLoopShort == Len(Edges) \div Batch

MainLoop == Len(Edges) \div Batch + 1

(* process_len: batches that begin behind the last edge have no turns.     *)
ProcessLen(i) == IF i * Batch < Len(Edges) THEN Batch ELSE Len(Edges) - i * Batch

(* setIntersection of the lists in the buffers.                            *)
Intersected(bufA, a, bufB, b) ==
  LET inA == Elements(Part.col, bufA, a.offset % T, a.length)
      inB == Elements(Part.col, bufB, b.offset % T, b.length)
      found(short, long) == Cardinality({i \in DOMAIN short : lbitBinarySearch(long, short[i])})
  IN  IF b.length \div a.length >= Ratio THEN found(inA, inB)
      ELSE IF a.length \div b.length > Ratio THEN found(inB, inA)
      ELSE Matches(inA, inB)

(* A turn of main_loop: a batch of edges.                                  *)
KernelEdge(r, e) ==
  LET a == ListOf(Part, e[1])
      b == ListOf(Part, e[2])
      bufA == Copied(r.bufA, First(a), End(a))
      bufB == Copied(r.bufB, First(b), End(b))
  IN  IF e = Nobody \/ a.length = 0 \/ b.length = 0 THEN r
      ELSE [bufA |-> bufA, bufB |-> bufB, total |-> r.total + Intersected(bufA, a, bufB, b)]

TriangleCount ==
  /\ st.pc = "kernel" /\ st.part < Num
  /\ IF st.edge < MainLoop
     THEN LET r == FoldLeft(LAMBDA r, k : KernelEdge(r, EdgeOf(st.edge * Batch + k - 1)),
                            [bufA |-> st.bufA, bufB |-> st.bufB, total |-> st.total],
                            [k \in 1 .. ProcessLen(st.edge) |-> k])
          IN  st' = [st EXCEPT !.edge = @ + 1, !.bufA = r.bufA, !.bufB = r.bufB, !.total = r.total]
     ELSE st' = NextPart(st.total)
  /\ UNCHANGED <<args, mem>>

Init ==
  /\ \E file \in Files, program \in {"c_model", "kernel"}, reorder \in BOOLEAN :
       args = [file |-> file, program |-> program, reorder |-> reorder]
  /\ mem = [txt |-> << >>, dim |-> 0, part |-> << >>]
  /\ st = [pc |-> "load", pool |-> << >>, part |-> 0, edge |-> 0, total |-> 0,
           bufA |-> Blank(BufDepth), bufB |-> Blank(BufDepth)]

Done == st.pc = "failed" \/ (st.pc \in {"c_model", "kernel"} /\ st.part = Num)

Next == \/ Load \/ Collect \/ Save \/ TConePar \/ TriangleCount
        \/ \E p \in Parts : partition_multi_process(p) \/ intersection_multi_process(p)
-----------------------------------------------------------------------------
(* The parts hold the edges of the file once each, in ascending order, and *)
(* the aligned lists are the same ones, each from the start of a word on.  *)
EdgesArePartitioned ==
  st.pc = "intersect" =>
    LET rows(p, v) == InMemory(mem.part[p].csr.col, ListOf(mem.part[p].csr, v))
        aligned(p, v) == ListOf(mem.part[p].align, v)
        ends(e) == {e[1], e[2]}
    IN  /\ {ends(e) : e \in {e \in ToSet(args.file) : e[1] # e[2]}} =
             UNION {{{v, w} : w \in ToSet(rows(p, v))} : p \in DOMAIN mem.part, v \in 0 .. Dim - 1}
        /\ \A p, q \in DOMAIN mem.part : \A v \in 0 .. Dim - 1 :
             /\ p # q => ToSet(rows(p, v)) \cap ToSet(rows(q, v)) = {}
             /\ \A i, j \in DOMAIN rows(p, v) : i < j => rows(p, v)[i] < rows(p, v)[j]
             /\ aligned(p, v).offset % T = 0
             /\ rows(p, v) = InMemory(mem.part[p].align.col, List(aligned(p, v).offset, Len(rows(p, v))))

(* The pool and the program find as many triangles as the file has, which  *)
(* is what generate.py prints the golden number of networkx for.           *)
CountsTriangles ==
  LET adjacent(u, v) == <<u, v>> \in ToSet(args.file) \/ <<v, u>> \in ToSet(args.file)
      golden == Cardinality({t \in (0 .. Dim - 1) \X (0 .. Dim - 1) \X (0 .. Dim - 1) :
                  /\ t[1] < t[2] /\ t[2] < t[3]
                  /\ adjacent(t[1], t[2]) /\ adjacent(t[1], t[3]) /\ adjacent(t[2], t[3])})
  IN  Done /\ st.pc # "failed" => /\ st.total = golden
                                  /\ Sum(st.pool) = golden
=============================================================================
