------------------------------- MODULE TwoHop -------------------------------
(***************************************************************************)
(* The number of paths of two edges between given pairs of vertices,       *)
(* acc_fpga/include/hw/twoHop.hpp: the seven processes of twoHopCore and   *)
(* the FIFOs between them.                                                 *)
(*                                                                         *)
(* The neighbours of a pair's source, and later theirs, travel after a     *)
(* mark, a value with bit 31 set that carries the pair's destination; one  *)
(* more mark follows the last pair.  A process handles one value a step.   *)
(***************************************************************************)
EXTENDS GraphMemory
LOCAL INSTANCE SequencesExt
LOCAL INSTANCE FiniteSetsExt

CONSTANTS Graphs,     \* graphs considered, in CSR format
          PairLists,  \* sequences of pairs <<source, destination>>
          Depth       \* places in a FIFO, 32

VARIABLES
  args,   \* the graph, which is stored twice, and the pairs
  mem,    \* cnt_res
  st      \* q: the FIFOs; sent, one, marks1, marks2, two, cnt: loop variables

vars == <<args, mem, st>>

G == args.graph
NumPairs == Len(args.pairs)

Mark(des) == [mark |-> TRUE, id |-> des]
Idx(v)    == [mark |-> FALSE, id |-> v]

Room(s) == Len(st.q[s]) < Depth
Some(s) == st.q[s] # << >>
Rows(v) == [mark |-> FALSE, id |-> v, from |-> G.offset[v], to |-> G.offset[v + 1]]
-----------------------------------------------------------------------------
load_pair ==
  /\ st.sent < NumPairs /\ Room("src") /\ Room("des")
  /\ LET pair == args.pairs[st.sent + 1]
     IN  st' = [st EXCEPT !.sent = @ + 1, !.q.src = Append(@, pair[1]),
                          !.q.des = Append(@, pair[2])]
  /\ UNCHANGED <<args, mem>>

loadOneHopOffset ==
  /\ Some("src") /\ Some("des") /\ Room("offset1") /\ Room("des1")
  /\ st' = [st EXCEPT !.q.src = Tail(@), !.q.des = Tail(@),
                      !.q.offset1 = Append(@, Rows(st.q.src[1])),
                      !.q.des1 = Append(@, st.q.des[1])]
  /\ UNCHANGED <<args, mem>>

(* The mark numbered by the number of pairs follows the last pair.         *)
LastMark == NumPairs

(* one.i marks are sent; one.row is what is left of the row after the last. *)
loadOneHopIndex ==
  /\ Room("index1")
  /\ \/ /\ st.one.row # << >>
        /\ st' = [st EXCEPT !.one.row = Tail(@), !.q.index1 = Append(@, Idx(st.one.row[1]))]
     \/ /\ st.one.row = << >> /\ st.one.i < NumPairs
        /\ Some("offset1") /\ Some("des1")
        /\ LET r == st.q.offset1[1]
           IN  st' = [st EXCEPT !.q.offset1 = Tail(@), !.q.des1 = Tail(@),
                                !.q.index1 = Append(@, Mark(st.q.des1[1])),
                                !.one = [i |-> @.i + 1, row |-> Slice(G.column, r.from, r.to)]]
     \/ /\ st.one.row = << >> /\ st.one.i = LastMark
        /\ st' = [st EXCEPT !.one.i = @ + 1, !.q.index1 = Append(@, Mark(0))]
  /\ UNCHANGED <<args, mem>>

loadTwoHopOffset ==
  /\ st.marks1 < NumPairs + 1 /\ Some("index1") /\ Room("offset2")
  /\ LET idx == st.q.index1[1]
     IN  st' = [st EXCEPT !.q.index1 = Tail(@),
                          !.marks1 = IF idx.mark THEN @ + 1 ELSE @,
                          !.q.offset2 = Append(@, IF idx.mark THEN idx ELSE Rows(idx.id))]
  /\ UNCHANGED <<args, mem>>

loadTwoHopIndex ==
  /\ \/ /\ st.two # << >> /\ Room("index2")
        /\ st' = [st EXCEPT !.two = Tail(@), !.q.index2 = Append(@, Idx(st.two[1]))]
     \/ /\ st.two = << >> /\ st.marks2 < NumPairs + 1 /\ Some("offset2")
        /\ LET r == st.q.offset2[1]
           IN  IF r.mark
               THEN /\ Room("index2")
                    /\ st' = [st EXCEPT !.q.offset2 = Tail(@), !.marks2 = @ + 1,
                                        !.q.index2 = Append(@, r)]
               ELSE st' = [st EXCEPT !.q.offset2 = Tail(@),
                                     !.two = Slice(G.column, r.from, r.to)]
  /\ UNCHANGED <<args, mem>>

(* Mutant: the destination is the one of the first pair. *)
SameDes(c, idx) == IF c.cnt = -1 THEN idx.id ELSE c.des

NewDes(c, idx) == idx.id

(* Mutant: the first mark ends a pair, too. *)
EndsAtMark(c, idx) == idx.mark

EndsPair(c, idx) == idx.mark /\ c.cnt >= 0

(* cnt is -1 before the first mark: a mark ends one pair, begins the next. *)
counter ==
  /\ st.cnt.cnt < NumPairs /\ Some("index2")
  /\ LET idx == st.q.index2[1]
         c   == st.cnt
     IN  /\ EndsPair(c, idx) => Room("res")
         /\ st' = [st EXCEPT !.q.index2 = Tail(@),
                      !.cnt = IF idx.mark THEN [cnt |-> c.cnt + 1, des |-> NewDes(c, idx), res |-> 0]
                              ELSE [c EXCEPT !.res = IF idx.id = c.des THEN @ + 1 ELSE @],
                      !.q.res = IF EndsPair(c, idx) THEN Append(@, c.res) ELSE @]
  /\ UNCHANGED <<args, mem>>

writeOut ==
  /\ Len(mem) < NumPairs /\ Some("res")
  /\ st' = [st EXCEPT !.q.res = Tail(@)]
  /\ mem' = Append(mem, st.q.res[1])
  /\ UNCHANGED args
-----------------------------------------------------------------------------
Init ==
  /\ \E g \in Graphs, p \in PairLists : args = [graph |-> g, pairs |-> p]
  /\ mem = << >>
  /\ st = [q |-> [s \in {"src", "des", "offset1", "des1", "index1", "offset2", "index2", "res"} |->
                    << >>],
           sent |-> 0, one |-> [i |-> 0, row |-> << >>], marks1 |-> 0, marks2 |-> 0,
           two |-> << >>, cnt |-> [cnt |-> -1, des |-> 0, res |-> 0]]

(* twoHopCore: the processes run at the same time; it returns when all end. *)
Next == \/ load_pair \/ loadOneHopOffset \/ loadOneHopIndex
        \/ loadTwoHopOffset \/ loadTwoHopIndex \/ counter \/ writeOut

Done == /\ st.sent = NumPairs /\ st.one = [i |-> NumPairs + 1, row |-> << >>]
        /\ st.marks1 = NumPairs + 1 /\ st.marks2 = NumPairs + 1
        /\ st.cnt.cnt = NumPairs /\ Len(mem) = NumPairs

Spec == Init /\ [][Next]_vars /\ WF_vars(Next)
-----------------------------------------------------------------------------
(* The paths of two edges, parallel edges counted apart. *)
Paths(pair) ==
  FoldLeft(LAMBDA n, u : n + Len(SelectSeq(Row(G, u), LAMBDA v : v = pair[2])),
                         0, Row(G, pair[1]))

(* The results are, in the order of the pairs, their numbers of paths:     *)
(* marks are never counted, and nothing of a pair is counted for another,  *)
(* whatever order the seven processes run in.                              *)
CountsTwoHopPaths == \A i \in DOMAIN mem : mem[i] = Paths(args.pairs[i])

(* When all processes have returned no FIFO holds a value for the next call. *)
StreamsAreEmpty == Done => \A s \in DOMAIN st.q : ~Some(s)
=============================================================================
