-------------------------- MODULE TriangleDataflow --------------------------
(***************************************************************************)
(* The triangle counter of acc_fpga: preProcessData and the dataflow       *)
(* network triangleCount of acc_fpga/include/hw/triangle_count.hpp, called *)
(* by TC_kernel with what host/main.cpp reads from its two files.          *)
(*                                                                         *)
(*   coreControlImpl -> row1CopyImpl ----------------------\               *)
(*   Part1 -> Part2 -> row2ImplPart1 -> Part2 -> Part3 -----> mergeImpl    *)
(*                                                               -> tcAcc  *)
(*                                                                         *)
(* For a vertex u with neighbours v1 < .. < vn (n > 1) the upper path      *)
(* sends, for each vi, the rest of u's list after vi, and the lower path   *)
(* the list of vi; mergeImpl intersects them pair by pair.                 *)
(*                                                                         *)
(* An action is one turn of a loop of a process, with every FIFO it reads  *)
(* or writes in that turn.  The four burst readers (burstRead2Strm and     *)
(* Arr2Strm) wait for nobody; their streams are there from the start.      *)
(***************************************************************************)
EXTENDS Integers, Sequences, FiniteSets

CONSTANTS NVertices,  \* vertices of the graph
          Files,      \* the files considered: offsets and columns of a graph
          numVertex,  \* the length given to the kernel, see below
          T,          \* offsets in a 512-bit word, 16
          Depth,      \* stands for the FIFO depths LEN, 512 .. 4096
          Modulus     \* stands for 2^32, the range of ap_uint<32>

Vertex == 0 .. NVertices - 1

(* The list of a vertex has its larger neighbours in ascending order, so   *)
(* that each edge is there once.                                           *)
IsCsr(file) ==
  /\ file.columns \in Seq(Vertex)
  /\ file.offsets \in [0 .. NVertices -> 0 .. Len(file.columns)]
  /\ file.offsets[0] = 0 /\ file.offsets[NVertices] = Len(file.columns)
  /\ \A u, v \in 0 .. NVertices : u <= v => file.offsets[u] <= file.offsets[v]
  /\ \A u \in Vertex : \A i, j \in file.offsets[u] + 1 .. file.offsets[u + 1] :
       u < file.columns[i] /\ (i < j => file.columns[i] < file.columns[j])

ASSUME TriangleAssumption ==
  /\ NVertices \in Nat \ {0} /\ Depth \in Nat \ {0, 1}
  /\ numVertex \in {NVertices, NVertices + 1}
  /\ T \in Nat /\ T > 0 /\ T % 2 = 0
  /\ Modulus \in Nat /\ Modulus > NVertices * NVertices
  /\ \A file \in Files : IsCsr(file)

VARIABLES
  off, rows,  \* the files' offsets (NVertices + 1 of them) and columns
  q,          \* the FIFOs
  core, copy, reduce, pairs, addr, load, block, merge, acc  \* the processes

processes == <<core, copy, reduce, pairs, addr, load, block, merge, acc>>
input == <<off, rows>>
vars  == <<input, q, processes>>
-----------------------------------------------------------------------------
(* triangleCount documents numVertex as the length of the offsets, which   *)
(* is NVertices + 1; main.cpp passes the first line of the offset file,    *)
(* which is NVertices.                                                     *)
(* preProcessData writes the pair (off[v], off[v + 1]) for every v.  While *)
(* it builds output word i (T / 2 pairs) it holds two input words, a next  *)
(* one being read on odd turns as long as numVertex reaches into it.       *)
Smaller(m, n) == IF m < n THEN m ELSE n

LastWordRead(i) == Smaller((i + 1) \div 2, (numVertex - 1) \div T)

Held(i, n) == LET k == IF n < T THEN (LastWordRead(i - 1) * T) + n
                       ELSE (LastWordRead(i) * T) + (n - T)
              IN  IF k \in DOMAIN off THEN off[k] ELSE 0

offset2Arr(v) ==
  LET i == v \div (T \div 2)
      n == (v % (T \div 2)) + (i % 2) * (T \div 2)
  IN  <<Held(i, n), Held(i, n + 1)>>
-----------------------------------------------------------------------------
(* One turn of a loop: a value is taken from each FIFO of the set reads    *)
(* and the fields of writes go to the FIFOs of their names.                *)
Turn(reads, writes) ==
  /\ \A s \in reads : q[s] # << >>
  /\ \A s \in DOMAIN writes : Len(q[s]) < Depth
  /\ q' = [s \in DOMAIN q |->
             LET rest == IF s \in reads THEN Tail(q[s]) ELSE q[s]
             IN  IF s \in DOMAIN writes THEN Append(rest, writes[s]) ELSE rest]

Nothing == [s \in {} |-> 0]
More(s) == q[s] # << >> /\ ~Head(q[s])  \* a flag FALSE is next
Ends(s) == q[s] # << >> /\ Head(q[s])   \* a flag TRUE is next

(* Arr2Strm: the values with a flag FALSE each, then a flag TRUE. *)
Values(s, first, len) == [i \in 1 .. len - first |-> s[first + i - 1]]
Flags(n) == [i \in 1 .. n + 1 |-> i = n + 1]

(* triangleCount streams the offsets from the second one on. *)
FirstOffset == 1
-----------------------------------------------------------------------------
(* coreControlImpl *)
CoreVertex ==
  /\ core.pc = "end" /\ More("offset1End")
  /\ LET end == Head(q.offset1) IN
     /\ Turn({"offset1End", "offset1"},
             [col1End |-> FALSE, copyNum |-> end - core.begin])
     /\ core' = [core EXCEPT !.pc = IF core.begin < end THEN "row" ELSE "end",
                             !.end = end, !.i = core.begin]
  /\ UNCHANGED <<input, copy, reduce, pairs, addr, load, block, merge, acc>>

CoreRow ==
  /\ core.pc = "row"
  /\ Turn({"row1", "row1End"}, [col1 |-> Head(q.row1), col1BlockEnd |-> FALSE])
  /\ core' = [core EXCEPT !.i = @ + 1,
                          !.pc = IF core.i + 1 < core.end THEN "row" ELSE "block"]
  /\ UNCHANGED <<input, copy, reduce, pairs, addr, load, block, merge, acc>>

CoreBlock ==
  /\ core.pc = "block"
  /\ Turn({}, [col1BlockEnd |-> TRUE])
  /\ core' = [core EXCEPT !.pc = "end", !.begin = core.end]
  /\ UNCHANGED <<input, copy, reduce, pairs, addr, load, block, merge, acc>>

CoreEnd ==
  /\ core.pc = "end" /\ Ends("offset1End")
  /\ Turn({"offset1End", "row1End"}, [col1End |-> TRUE])
  /\ core' = [core EXCEPT !.pc = "done"]
  /\ UNCHANGED <<input, copy, reduce, pairs, addr, load, block, merge, acc>>
-----------------------------------------------------------------------------
(* row1CopyImpl: arr is col1Arr, which keeps the list it sends again. *)
CopyVertex ==
  /\ copy.pc = "end" /\ More("col1End")
  /\ Turn({"col1End", "copyNum"}, Nothing)
  /\ copy' = [copy EXCEPT !.num = Head(q.copyNum), !.i = 0, !.arr = << >>,
                          !.pc = IF Head(q.copyNum) = 0 THEN "end" ELSE "copy"]
  /\ UNCHANGED <<input, core, reduce, pairs, addr, load, block, merge, acc>>

(* The head of the loop over i. *)
CopyStart ==
  /\ copy.pc = "copy"
  /\ Turn({}, IF copy.num > 1 THEN [col1CopyEnd |-> FALSE] ELSE Nothing)
  /\ copy' = [copy EXCEPT !.pc = IF copy.i = 0 THEN "first" ELSE "again",
                          !.j = copy.i + 1]
  /\ UNCHANGED <<input, core, reduce, pairs, addr, load, block, merge, acc>>

CopyFirst ==
  /\ copy.pc = "first" /\ More("col1BlockEnd")
  /\ LET col1 == Head(q.col1) IN
     /\ Turn({"col1BlockEnd", "col1"},
             IF copy.arr # << >> /\ copy.num > 1
             THEN [col1CopyBlockEnd |-> FALSE, col1Copy |-> col1] ELSE Nothing)
     /\ copy' = [copy EXCEPT !.arr = Append(@, col1)]
  /\ UNCHANGED <<input, core, reduce, pairs, addr, load, block, merge, acc>>

(* Mutant: the list that is sent again is read one place too early. *)
CopyFromItself == copy.j - 1

CopyFrom == copy.j

CopyAgain ==
  /\ copy.pc = "again" /\ copy.i + 1 < copy.num /\ copy.j < Len(copy.arr)
  /\ Turn({}, [col1CopyBlockEnd |-> FALSE, col1Copy |-> copy.arr[CopyFrom + 1]])
  /\ copy' = [copy EXCEPT !.j = @ + 1]
  /\ UNCHANGED <<input, core, reduce, pairs, addr, load, block, merge, acc>>

CopyBlock ==
  /\ \/ copy.pc = "first" /\ Ends("col1BlockEnd")
     \/ copy.pc = "again" /\ ~(copy.i + 1 < copy.num /\ copy.j < Len(copy.arr))
  /\ Turn(IF copy.pc = "first" THEN {"col1BlockEnd"} ELSE {},
          IF copy.num > 1 THEN [col1CopyBlockEnd |-> TRUE] ELSE Nothing)
  /\ copy' = [copy EXCEPT !.i = @ + 1,
                          !.pc = IF copy.i + 1 < copy.num THEN "copy" ELSE "end"]
  /\ UNCHANGED <<input, core, reduce, pairs, addr, load, block, merge, acc>>

CopyEnd ==
  /\ copy.pc = "end" /\ Ends("col1End")
  /\ Turn({"col1End"}, [col1CopyEnd |-> TRUE])
  /\ copy' = [copy EXCEPT !.pc = "done"]
  /\ UNCHANGED <<input, core, reduce, pairs, addr, load, block, merge, acc>>
-----------------------------------------------------------------------------
(* offset2NoOrderReadPart1: a list of one vertex has no pair to intersect. *)
ReduceVertex ==
  /\ reduce.pc = "end" /\ More("offset1End2")
  /\ LET end == Head(q.offset12) IN
     /\ Turn({"offset1End2", "offset12"}, Nothing)
     /\ reduce' = [reduce EXCEPT !.pc = IF reduce.end < end THEN "row" ELSE "end",
                                 !.begin = reduce.end, !.i = reduce.end, !.end = end]
  /\ UNCHANGED <<input, core, copy, pairs, addr, load, block, merge, acc>>

(* Mutant: every list is sent on. *)
SendsEveryList == TRUE

SendsList == reduce.begin + 1 < reduce.end

ReduceRow ==
  /\ reduce.pc = "row"
  /\ Turn({"row12", "row1End2"},
          IF SendsList THEN [row1Reduce |-> Head(q.row12), row1ReduceEnd |-> FALSE]
          ELSE Nothing)
  /\ reduce' = [reduce EXCEPT !.i = @ + 1,
                              !.pc = IF reduce.i + 1 < reduce.end THEN "row" ELSE "end"]
  /\ UNCHANGED <<input, core, copy, pairs, addr, load, block, merge, acc>>

ReduceEnd ==
  /\ reduce.pc = "end" /\ Ends("offset1End2")
  /\ Turn({"offset1End2", "row1End2"}, [row1ReduceEnd |-> TRUE])
  /\ reduce' = [reduce EXCEPT !.pc = "done"]
  /\ UNCHANGED <<input, core, copy, pairs, addr, load, block, merge, acc>>
-----------------------------------------------------------------------------
(* offset2NoOrderReadPart2 *)
PairsRow ==
  /\ pairs.pc = "row" /\ More("row1ReduceEnd")
  /\ Turn({"row1ReduceEnd", "row1Reduce"},
          [offset2 |-> offset2Arr(Head(q.row1Reduce)), offset2End |-> FALSE])
  /\ UNCHANGED <<input, core, copy, reduce, pairs, addr, load, block, merge, acc>>

PairsEnd ==
  /\ pairs.pc = "row" /\ Ends("row1ReduceEnd")
  /\ Turn({"row1ReduceEnd"}, [offset2End |-> TRUE])
  /\ pairs' = [pairs EXCEPT !.pc = "done"]
  /\ UNCHANGED <<input, core, copy, reduce, addr, load, block, merge, acc>>
-----------------------------------------------------------------------------
(* row2ImplPart1 *)
(* Mutant: a signed difference, taken the wrong way round. *)
DistanceBack(begin, end) == begin - end

Distance(begin, end) == (end - begin) % Modulus

AddrPair ==
  /\ addr.pc = "end" /\ More("offset2End")
  /\ LET begin == Head(q.offset2)[1]
         end   == Head(q.offset2)[2]
     IN  /\ Turn({"offset2End", "offset2"},
                 [row2Dist |-> Distance(begin, end), row2DistEnd |-> FALSE])
         /\ addr' = [pc |-> IF begin < end THEN "row" ELSE "end", i |-> begin, end |-> end]
  /\ UNCHANGED <<input, core, copy, reduce, pairs, load, block, merge, acc>>

AddrRow ==
  /\ addr.pc = "row"
  /\ Turn({}, [row2Addr |-> addr.i, row2AddrEnd |-> FALSE])
  /\ addr' = [addr EXCEPT !.i = @ + 1,
                          !.pc = IF addr.i + 1 < addr.end THEN "row" ELSE "end"]
  /\ UNCHANGED <<input, core, copy, reduce, pairs, load, block, merge, acc>>

AddrEnd ==
  /\ addr.pc = "end" /\ Ends("offset2End")
  /\ Turn({"offset2End"}, [row2AddrEnd |-> TRUE, row2DistEnd |-> TRUE])
  /\ addr' = [addr EXCEPT !.pc = "done"]
  /\ UNCHANGED <<input, core, copy, reduce, pairs, load, block, merge, acc>>
-----------------------------------------------------------------------------
(* row2ImplPart2 reads an address as long as its last look at the flags    *)
(* (read_nb) found one; ok is rd_flag_success.                             *)
LoadFirst ==
  /\ load.pc = "start" /\ q.row2AddrEnd # << >>
  /\ Turn({"row2AddrEnd"}, Nothing)
  /\ load' = [load EXCEPT !.pc = IF Head(q.row2AddrEnd) THEN "done" ELSE "turn"]
  /\ UNCHANGED <<input, core, copy, reduce, pairs, addr, block, merge, acc>>

(* Mutant: it looks for a flag only while no value waits to be taken. *)
LookWhenDrained == q.row2AddrEnd # << >> /\ q.row2Addr = << >>

Look == q.row2AddrEnd # << >>

LoadTurn ==
  /\ load.pc = "turn"
  /\ LET flag == IF Look THEN {"row2AddrEnd"} ELSE {}
     IN  IF load.ok
         THEN /\ q.row2Addr # << >>
              /\ Turn({"row2Addr"} \cup flag, [row2Continue |-> rows[Head(q.row2Addr) + 1]])
         ELSE Turn(flag, Nothing)
  /\ load' = [pc |-> IF Look /\ Ends("row2AddrEnd") THEN "done" ELSE "turn", ok |-> Look]
  /\ UNCHANGED <<input, core, copy, reduce, pairs, addr, block, merge, acc>>
-----------------------------------------------------------------------------
(* row2ImplPart3 *)
BlockPair ==
  /\ block.pc = "end" /\ More("row2DistEnd")
  /\ Turn({"row2DistEnd", "row2Dist"}, Nothing)
  /\ block' = [pc |-> "row", left |-> Head(q.row2Dist)]
  /\ UNCHANGED <<input, core, copy, reduce, pairs, addr, load, merge, acc>>

BlockRow ==
  /\ block.pc = "row" /\ block.left > 0 /\ q.row2Continue # << >>
  /\ Turn({"row2Continue"}, [row2BlockEnd |-> FALSE, row2 |-> Head(q.row2Continue)])
  /\ block' = [block EXCEPT !.left = @ - 1]
  /\ UNCHANGED <<input, core, copy, reduce, pairs, addr, load, merge, acc>>

BlockLast ==
  /\ block.pc = "row" /\ block.left = 0
  /\ Turn({}, [row2BlockEnd |-> TRUE])
  /\ block' = [block EXCEPT !.pc = "end"]
  /\ UNCHANGED <<input, core, copy, reduce, pairs, addr, load, merge, acc>>

BlockEnd ==
  /\ block.pc = "end" /\ Ends("row2DistEnd")
  /\ Turn({"row2DistEnd"}, Nothing)
  /\ block' = [block EXCEPT !.pc = "done"]
  /\ UNCHANGED <<input, core, copy, reduce, pairs, addr, load, merge, acc>>
-----------------------------------------------------------------------------
(* mergeImpl and orderStrmInterNum; num counts the common neighbours.      *)
MergePair ==
  /\ merge.pc = "pair" /\ More("col1CopyEnd")
  /\ Turn({"col1CopyEnd", "col1CopyBlockEnd", "row2BlockEnd"}, Nothing)
  /\ merge' = [pc |-> "turn", end1 |-> Head(q.col1CopyBlockEnd),
               end2 |-> Head(q.row2BlockEnd), v1 |-> 0, v2 |-> 0, num |-> 0]
  /\ UNCHANGED <<input, core, copy, reduce, pairs, addr, load, block, acc>>

TakesFirst  == ~merge.end1 /\ (merge.v1 <= merge.v2 \/ merge.end2)
TakesSecond == ~merge.end2 /\ (merge.v1 >= merge.v2 \/ merge.end1)

MergeTurn ==
  /\ merge.pc = "turn" /\ ~(merge.end1 /\ merge.end2)
  /\ Turn((IF TakesFirst THEN {"col1Copy", "col1CopyBlockEnd"} ELSE {})
            \cup (IF TakesSecond THEN {"row2", "row2BlockEnd"} ELSE {}), Nothing)
  /\ LET v1 == IF TakesFirst THEN Head(q.col1Copy) ELSE merge.v1
         v2 == IF TakesSecond THEN Head(q.row2) ELSE merge.v2
     IN  merge' = [merge EXCEPT
                     !.v1 = v1, !.v2 = v2,
                     !.end1 = IF TakesFirst THEN Head(q.col1CopyBlockEnd) ELSE @,
                     !.end2 = IF TakesSecond THEN Head(q.row2BlockEnd) ELSE @,
                     !.num = IF v1 = v2 THEN @ + 1 ELSE @]
  /\ UNCHANGED <<input, core, copy, reduce, pairs, addr, load, block, acc>>

MergeLast ==
  /\ merge.pc = "turn" /\ merge.end1 /\ merge.end2
  /\ Turn({}, [tc |-> merge.num, tcEnd |-> FALSE])
  /\ merge' = [merge EXCEPT !.pc = "pair", !.num = 0, !.v1 = 0, !.v2 = 0]
  /\ UNCHANGED <<input, core, copy, reduce, pairs, addr, load, block, acc>>

MergeEnd ==
  /\ merge.pc = "pair" /\ Ends("col1CopyEnd")
  /\ Turn({"col1CopyEnd"}, [tcEnd |-> TRUE])
  /\ merge' = [merge EXCEPT !.pc = "done"]
  /\ UNCHANGED <<input, core, copy, reduce, pairs, addr, load, block, acc>>
-----------------------------------------------------------------------------
(* tcAccUnit *)
AccAdd ==
  /\ acc.pc = "end" /\ More("tcEnd")
  /\ Turn({"tcEnd", "tc"}, Nothing)
  /\ acc' = [acc EXCEPT !.triangles = @ + Head(q.tc)]
  /\ UNCHANGED <<input, core, copy, reduce, pairs, addr, load, block, merge>>

AccEnd ==
  /\ acc.pc = "end" /\ Ends("tcEnd")
  /\ Turn({"tcEnd"}, Nothing)
  /\ acc' = [acc EXCEPT !.pc = "done"]
  /\ UNCHANGED <<input, core, copy, reduce, pairs, addr, load, block, merge>>
-----------------------------------------------------------------------------
(* What Arr2Strm sends before the others start.                            *)
Sources(ends, columns) ==
  [offset1  |-> Values(ends, FirstOffset, numVertex),
   offset12 |-> Values(ends, FirstOffset, numVertex),
   offset1End  |-> Flags(numVertex - FirstOffset),
   offset1End2 |-> Flags(numVertex - FirstOffset),
   row1 |-> columns, row12 |-> columns,
   row1End |-> Flags(Len(columns)), row1End2 |-> Flags(Len(columns))]

Between == {"copyNum", "col1", "col1BlockEnd", "col1End", "col1Copy", "col1CopyBlockEnd",
            "col1CopyEnd", "row1Reduce", "row1ReduceEnd", "offset2", "offset2End",
            "row2Addr", "row2AddrEnd", "row2Dist", "row2DistEnd", "row2Continue",
            "row2", "row2BlockEnd", "tc", "tcEnd"}

Init ==
  /\ \E file \in Files : off = file.offsets /\ rows = file.columns
  /\ q = [s \in Between \cup DOMAIN Sources(off, rows) |->
            IF s \in Between THEN << >> ELSE Sources(off, rows)[s]]
  /\ core = [pc |-> "end", begin |-> 0, end |-> 0, i |-> 0]
  /\ copy = [pc |-> "end", num |-> 0, i |-> 0, j |-> 0, arr |-> << >>]
  /\ reduce = [pc |-> "end", begin |-> 0, end |-> 0, i |-> 0]
  /\ pairs = [pc |-> "row"]
  /\ addr = [pc |-> "end", i |-> 0, end |-> 0]
  /\ load = [pc |-> "start", ok |-> TRUE]
  /\ block = [pc |-> "end", left |-> 0]
  /\ merge = [pc |-> "pair", end1 |-> TRUE, end2 |-> TRUE, v1 |-> 0, v2 |-> 0, num |-> 0]
  /\ acc = [pc |-> "end", triangles |-> 0]

(* TC_kernel returns when every process has. *)
Done == \A p \in {core, copy, reduce, pairs, addr, load, block, merge, acc} : p.pc = "done"

Returned == Done /\ UNCHANGED vars

CoreStep   == CoreVertex \/ CoreRow \/ CoreBlock \/ CoreEnd
CopyStep   == CopyVertex \/ CopyStart \/ CopyFirst \/ CopyAgain \/ CopyBlock \/ CopyEnd
ReduceStep == ReduceVertex \/ ReduceRow \/ ReduceEnd
PairsStep  == PairsRow \/ PairsEnd
AddrStep   == AddrPair \/ AddrRow \/ AddrEnd
LoadStep   == LoadFirst \/ LoadTurn
BlockStep  == BlockPair \/ BlockRow \/ BlockLast \/ BlockEnd
MergeStep  == MergePair \/ MergeTurn \/ MergeLast \/ MergeEnd
AccStep    == AccAdd \/ AccEnd

Next == \/ CoreStep \/ CopyStep \/ ReduceStep \/ PairsStep \/ AddrStep
        \/ LoadStep \/ BlockStep \/ MergeStep \/ AccStep \/ Returned

(* Fairness: while some process can take a turn, the kernel takes a step.  *)
Spec == Init /\ [][Next]_vars /\ WF_vars(Next)
-----------------------------------------------------------------------------
Row(u) == {rows[i] : i \in off[u] + 1 .. off[u + 1]}

Edges == {e \in Vertex \X Vertex : e[2] \in Row(e[1])}

Triangles == {t \in Edges \X Vertex : t[2] \in Row(t[1][1]) \cap Row(t[1][2])}

SumOf(s) == LET sum[n \in 0 .. Len(s)] == IF n = 0 THEN 0 ELSE sum[n - 1] + s[n]
            IN  sum[Len(s)]

(* Type invariant: distances and values are in range, and each FIFO        *)
(* between processes stays within its depth.                               *)
TypeOK ==
  /\ \A s \in Between : Len(q[s]) <= Depth
  /\ acc.triangles \in Nat /\ merge.num \in Nat
  /\ block.left \in 0 .. Modulus - 1
  /\ merge.v1 \in Vertex /\ merge.v2 \in Vertex
  /\ load.ok \in BOOLEAN

(* What the kernel returns is the number of triangles of the graph.        *)
CountsTriangles == Done => acc.triangles = Cardinality(Triangles)

(* The triangles counted so far, at any stage, never exceed those of the   *)
(* graph: no pair of lists is intersected twice or against a wrong list.   *)
NeverOvercounts == acc.triangles + SumOf(q.tc) + merge.num <= Cardinality(Triangles)

(* The two paths send the same pairs: when the kernel returns every FIFO   *)
(* is empty, so the next call starts as the first did.                     *)
NothingLeftOver == Done => \A s \in DOMAIN q : q[s] = << >>

(* The processes that can take a turn, one that changes something: what    *)
(* they read is there, and what they write has room.                       *)
CanTurn(reads, writes) ==
  /\ \A s \in reads : q[s] # << >>
  /\ \A s \in writes : Len(q[s]) < Depth

CoreCan ==
  \/ /\ core.pc = "end" /\ More("offset1End")
     /\ CanTurn({"offset1End", "offset1"}, {"col1End", "copyNum"})
  \/ core.pc = "row" /\ CanTurn({"row1", "row1End"}, {"col1", "col1BlockEnd"})
  \/ core.pc = "block" /\ CanTurn({}, {"col1BlockEnd"})
  \/ core.pc = "end" /\ Ends("offset1End") /\ CanTurn({"offset1End", "row1End"}, {"col1End"})

CopyCan ==
  \/ copy.pc = "end" /\ More("col1End") /\ CanTurn({"col1End", "copyNum"}, {})
  \/ copy.pc = "copy" /\ CanTurn({}, IF copy.num > 1 THEN {"col1CopyEnd"} ELSE {})
  \/ /\ copy.pc = "first" /\ More("col1BlockEnd")
     /\ CanTurn({"col1BlockEnd", "col1"}, IF copy.arr # << >> /\ copy.num > 1
                                          THEN {"col1CopyBlockEnd", "col1Copy"} ELSE {})
  \/ /\ copy.pc = "again" /\ copy.i + 1 < copy.num /\ copy.j < Len(copy.arr)
     /\ CanTurn({}, {"col1CopyBlockEnd", "col1Copy"})
  \/ /\ \/ copy.pc = "first" /\ Ends("col1BlockEnd")
        \/ copy.pc = "again" /\ ~(copy.i + 1 < copy.num /\ copy.j < Len(copy.arr))
     /\ CanTurn({}, IF copy.num > 1 THEN {"col1CopyBlockEnd"} ELSE {})
  \/ copy.pc = "end" /\ Ends("col1End") /\ CanTurn({}, {"col1CopyEnd"})

ReduceCan ==
  \/ reduce.pc = "end" /\ More("offset1End2") /\ CanTurn({"offset12"}, {})
  \/ /\ reduce.pc = "row"
     /\ CanTurn({"row12", "row1End2"}, IF SendsList THEN {"row1Reduce", "row1ReduceEnd"} ELSE {})
  \/ reduce.pc = "end" /\ Ends("offset1End2") /\ CanTurn({"row1End2"}, {"row1ReduceEnd"})

PairsCan ==
  \/ /\ pairs.pc = "row" /\ More("row1ReduceEnd")
     /\ CanTurn({"row1Reduce"}, {"offset2", "offset2End"})
  \/ pairs.pc = "row" /\ Ends("row1ReduceEnd") /\ CanTurn({}, {"offset2End"})

AddrCan ==
  \/ /\ addr.pc = "end" /\ More("offset2End")
     /\ CanTurn({"offset2"}, {"row2Dist", "row2DistEnd"})
  \/ addr.pc = "row" /\ CanTurn({}, {"row2Addr", "row2AddrEnd"})
  \/ addr.pc = "end" /\ Ends("offset2End") /\ CanTurn({}, {"row2AddrEnd", "row2DistEnd"})

(* A look that finds no flag changes nothing when the last found none.     *)
LoadCan ==
  \/ load.pc = "start" /\ CanTurn({"row2AddrEnd"}, {})
  \/ load.pc = "turn" /\ load.ok /\ CanTurn({"row2Addr"}, {"row2Continue"})
  \/ load.pc = "turn" /\ ~load.ok /\ Look

BlockCan ==
  \/ block.pc = "end" /\ More("row2DistEnd") /\ CanTurn({"row2Dist"}, {})
  \/ block.pc = "row" /\ block.left > 0 /\ CanTurn({"row2Continue"}, {"row2BlockEnd", "row2"})
  \/ block.pc = "row" /\ block.left = 0 /\ CanTurn({}, {"row2BlockEnd"})
  \/ block.pc = "end" /\ Ends("row2DistEnd")

MergeCan ==
  \/ /\ merge.pc = "pair" /\ More("col1CopyEnd")
     /\ CanTurn({"col1CopyBlockEnd", "row2BlockEnd"}, {})
  \/ /\ merge.pc = "turn" /\ ~(merge.end1 /\ merge.end2)
     /\ CanTurn((IF TakesFirst THEN {"col1Copy", "col1CopyBlockEnd"} ELSE {})
                  \cup (IF TakesSecond THEN {"row2", "row2BlockEnd"} ELSE {}), {})
  \/ merge.pc = "turn" /\ merge.end1 /\ merge.end2 /\ CanTurn({}, {"tc", "tcEnd"})
  \/ merge.pc = "pair" /\ Ends("col1CopyEnd") /\ CanTurn({}, {"tcEnd"})

AccCan ==
  \/ acc.pc = "end" /\ More("tcEnd") /\ CanTurn({"tc"}, {})
  \/ acc.pc = "end" /\ Ends("tcEnd")

(* The nine processes never all wait for one another, through the two      *)
(* paths that fork and join: until the kernel returns one of them finds    *)
(* what it reads and room for what it writes.                              *)
NoCircularWait ==
  \/ Done
  \/ CoreCan \/ CopyCan \/ ReduceCan \/ PairsCan \/ AddrCan
  \/ LoadCan \/ BlockCan \/ MergeCan \/ AccCan

(* The kernel returns: no process waits for ever on a FIFO that stays full *)
(* or empty.                                                               *)
CallEnds == <>Done
=============================================================================
