--------------------------------- MODULE Scc --------------------------------
(***************************************************************************)
(* Strongly connected components of a directed graph,                      *)
(* acc_fpga/include/hw/strongly_connected_components.hpp.  Two processes   *)
(* run at the same time.  forwardSCC colours, root after root, what can be *)
(* reached and has no colour yet: a region.  backwardSCC takes a region at *)
(* a time and finds the components in it: that of its root by a search     *)
(* along the edges backwards; for the others it first picks a root,        *)
(* recolours what can be reached from there, and starts again from the     *)
(* least vertex reached if that is less than the root.                     *)
(*                                                                         *)
(* The two share the array of colours and the queue of forwardSCC.  A turn *)
(* of a search, its two dataflow stages, is one action: the other process  *)
(* never changes what the turn tests, a colour that is -1 or not.          *)
(***************************************************************************)
EXTENDS GraphMemory
LOCAL INSTANCE SequencesExt
LOCAL INSTANCE FiniteSetsExt

CONSTANTS Graphs,      \* directed graphs in CSR format
          MaxDegree    \* MAXDEGREE, places in toIDTable

VARIABLES
  args,   \* csr, the graph, and csc, its transpose from convertCsrCsc
  mem,    \* colorMap, result, queueG1 (forward) and queueG2 (backward)
  st      \* strm: data_strm with e_strm; fw and bw: the two processes

vars == <<args, mem, st>>

V      == args.csr.num
Vertex == 0 .. V - 1
None   == -1

NextPlace(ptr) == IF ptr # V - 1 THEN ptr + 1 ELSE 0
-----------------------------------------------------------------------------
loadQueue(que) == [que EXCEPT !.cnt = @ - 1, !.rdPtr = NextPlace(@)]

(* loadOffset, loadColumn and loadRes, with storeUpdate or                 *)
(* backwardLoadRes: the neighbours kept of the vertex at the queue's head. *)
Kept(graph, queue, que, wanted) ==
  SelectSeq(Row(graph, queue[que.rdPtr]), LAMBDA v : v \in wanted)

(* updateDispatch: what does not fit in the table is replaced by vertex 0. *)
updateDispatch(found) == [i \in DOMAIN found |-> IF i <= MaxDegree THEN found[i] ELSE 0]

updateRes(array, ids, value) == [v \in Vertex |-> IF v \in ToSet(ids) THEN value ELSE array[v]]

upadateQue(que, ids) ==
  [que EXCEPT !.cnt = @ + Len(ids), !.wrPtr = (@ + Len(ids)) % V]

(* The memory of the queue with ids written. *)
QueueWith(queue, que, ids) ==
  FoldLeftDomain(LAMBDA q, i : [q EXCEPT ![(que.wrPtr + i - 1) % V] = ids[i]], queue, ids)

writeQueStatus(que, value) == [upadateQue(que, <<value>>) EXCEPT !.root = value]
-----------------------------------------------------------------------------
(* A turn of forwardSCC: forwardSCCS1Dataflow and forwardSCCS2Dataflow.    *)
forwardTurn ==
  /\ st.fw.pc = "search" /\ st.fw.que.cnt > 0
  /\ LET que == st.fw.que
         found == Kept(args.csr, mem.queueG1, que, {v \in Vertex : mem.color[v] = None})
         ids == updateDispatch(found)
     IN  /\ mem' = [mem EXCEPT !.color = updateRes(@, ids, que.root),
                               !.queueG1 = QueueWith(@, que, ids)]
         /\ st' = [st EXCEPT !.fw.que = upadateQue(loadQueue(que), ids),
                             !.fw.cnt = @ + Len(found)]
  /\ UNCHANGED args

(* The region is handed over; three writes to e_strm, which has two places, *)
(* make the process wait until it is taken.                                *)
activateBackward ==
  /\ st.fw.pc = "search" /\ st.fw.que.cnt = 0 /\ st.strm = << >>
  /\ st' = [st EXCEPT !.strm = <<[root |-> st.fw.que.root, size |-> st.fw.cnt + 1]>>,
                      !.fw.pc = "handed"]
  /\ UNCHANGED <<args, mem>>

(* The first vertex without colour from node on, or the end. *)
FirstBlank(node) == Min({v \in node .. V : v = V \/ mem.color[v] = None})

searchNewRoot ==
  /\ st.fw.pc = "handed" /\ st.strm = << >>
  /\ LET pos == FirstBlank(st.fw.node)
     IN  /\ st' = [st EXCEPT !.fw.node = pos, !.fw.cnt = 0,
                     !.fw.pc = IF pos = V THEN "done" ELSE "search",
                     !.fw.que = IF pos = V THEN @ ELSE writeQueStatus(@, pos)]
         /\ mem' = IF pos = V THEN mem
                   ELSE [mem EXCEPT !.queueG1 = QueueWith(@, st.fw.que, <<pos>>), !.color[pos] = pos]
  /\ UNCHANGED args
-----------------------------------------------------------------------------
(* simpleTrim: the vertices of a region, except its root, that no edge     *)
(* leaves or no edge enters.                                               *)
simpleTrim(root, size) ==
  {v \in ToSet(Slice(mem.queueG1, st.bw.base, st.bw.base + size)) \ {root} :
     Row(args.csr, v) = << >> \/ Row(args.csc, v) = << >>}

(* backwardSCC takes the next region. *)
takeRegion ==
  /\ st.bw.pc = "read" /\ st.bw.base # V /\ st.strm # << >>
  /\ LET root == st.strm[1].root
         size == st.strm[1].size
         trim == IF size > 1 THEN simpleTrim(root, size) ELSE {}
     IN  /\ mem' = [mem EXCEPT !.queueG2 = QueueWith(@, st.bw.que, <<root>>),
                      !.result = [v \in Vertex |-> IF v \in trim \cup {root} THEN v + 1 ELSE @[v]],
                      !.color = [v \in Vertex |-> IF v \in trim THEN v ELSE @[v]]]
         /\ st' = [st EXCEPT !.strm = << >>,
                     !.bw = [@ EXCEPT !.pc = "region", !.root = root, !.size = size,
                               !.que = writeQueStatus(@, root), !.trim = Cardinality(trim),
                               !.found = Cardinality(trim), !.offset = 0, !.cnt = <<0, 0>>]]
  /\ UNCHANGED args

(* resetColor: the places of the queue that the last search forwards used, *)
(* before those of the component found since.                              *)
Reached ==
  LET num == IF st.bw.cnt[2] > st.bw.cnt[1] THEN st.bw.cnt[2] - 1 ELSE 0
      end == (st.bw.que.rdPtr + V - st.bw.cnt[1]) % V
  IN  {mem.queueG2[(end + V - k) % V] : k \in 1 .. num}

(* Mutant: nothing is reset. *)
ResetNone == mem.color

resetColor ==
  [v \in Vertex |-> IF v \in Reached /\ mem.result[v] = None THEN st.bw.root ELSE mem.color[v]]

(* searchOnQueue: the next vertex of the region without a result. *)
NextOnQueue ==
  Min({k \in st.bw.offset .. V - st.bw.base - 1 : mem.result[mem.queueG1[st.bw.base + k]] = None})

nextRoot ==
  /\ st.bw.pc = "region" /\ st.bw.found < st.bw.size
  /\ IF st.bw.found > st.bw.trim
     THEN LET pos == mem.queueG1[st.bw.base + NextOnQueue]
          IN  /\ mem' = [mem EXCEPT !.color = [resetColor EXCEPT ![pos] = pos],
                           !.result[pos] = pos + 1, !.queueG2 = QueueWith(@, st.bw.que, <<pos>>)]
              /\ st' = [st EXCEPT !.bw = [@ EXCEPT !.pc = "forward", !.offset = NextOnQueue,
                                            !.que = writeQueStatus(@, pos), !.from = st.bw.root,
                                            !.node = <<pos, V>>, !.exits = 0, !.turns = 0]]
     ELSE st' = [st EXCEPT !.bw.pc = "backward", !.bw.turns = 0] /\ UNCHANGED mem
  /\ UNCHANGED args

regionDone ==
  /\ st.bw.pc = "region" /\ st.bw.found >= st.bw.size
  /\ st' = [st EXCEPT !.bw.pc = "read", !.bw.base = @ + st.bw.size]
  /\ UNCHANGED <<args, mem>>
-----------------------------------------------------------------------------
(* A turn of forwardSCCInBackward: backwardSCCS1Dataflow (mode false) and  *)
(* forwardInBWS2Dataflow.                                                  *)
reachTurn ==
  /\ st.bw.pc = "forward" /\ st.bw.que.cnt > 0
  /\ LET que == st.bw.que
         found == Kept(args.csr, mem.queueG2, que,
                       {v \in Vertex : mem.color[v] = st.bw.from /\ mem.result[v] = None})
         ids == updateDispatch(found)
     IN  /\ mem' = [mem EXCEPT !.color = updateRes(@, ids, que.root),
                               !.queueG2 = QueueWith(@, que, ids)]
         /\ st' = [st EXCEPT !.bw.que = upadateQue(loadQueue(que), ids),
                             !.bw.turns = @ + Len(found),
                             !.bw.node[2] = Min({@} \cup ToSet(ids))]
  /\ UNCHANGED args

(* The end of the do-while loop's body, with cnt0 = turns + 1. *)
fromLess ==
  /\ st.bw.pc = "forward" /\ st.bw.que.cnt = 0
  /\ st.bw.exits = 0 /\ st.bw.turns > 0 /\ st.bw.node[2] < st.bw.node[1]
  /\ LET node == st.bw.node
         que == writeQueStatus(st.bw.que, node[2])
     IN  /\ mem' = [mem EXCEPT !.result = [@ EXCEPT ![node[1]] = None, ![node[2]] = node[2] + 1],
                               !.color[node[2]] = node[2],
                               !.queueG2 = QueueWith(@, st.bw.que, <<node[2]>>)]
         /\ st' = [st EXCEPT !.bw = [@ EXCEPT !.que = que, !.saved = que, !.from = node[1],
                                       !.cnt[2] = st.bw.turns + 1, !.exits = 1, !.turns = 0]]
  /\ UNCHANGED args

(* Mutant: the queue is left where the second search ended. *)
ResumeAfter(que) == que

(* After a second search the queue is set back to the new root. *)
Resumed(que) == IF st.bw.exits = 1 THEN st.bw.saved ELSE que

reached ==
  /\ st.bw.pc = "forward" /\ st.bw.que.cnt = 0
  /\ st.bw.exits = 1 \/ st.bw.turns = 0 \/ st.bw.node[2] >= st.bw.node[1]
  /\ LET node == st.bw.node
         first == st.bw.exits = 0
     IN  /\ mem' = [mem EXCEPT !.queueG2 = IF first THEN QueueWith(@, st.bw.que, <<node[1]>>) ELSE @]
         /\ st' = [st EXCEPT !.bw = [@ EXCEPT !.pc = "backward", !.turns = 0,
                     !.cnt[2] = IF first THEN st.bw.turns + 1 ELSE @,
                     !.que = IF first THEN writeQueStatus(@, node[1]) ELSE Resumed(@)]]
  /\ UNCHANGED args

(* A turn of the search backwards: backwardSCCS1Dataflow (mode true) and   *)
(* forwardSCCS2Dataflow with the array of results.                         *)
backwardTurn ==
  /\ st.bw.pc = "backward" /\ st.bw.que.cnt > 0
  /\ LET que == st.bw.que
         found == Kept(args.csc, mem.queueG2, que,
                       {v \in Vertex : mem.color[v] = que.root /\ mem.result[v] = None})
         ids == updateDispatch(found)
     IN  /\ mem' = [mem EXCEPT !.result = updateRes(@, ids, que.root + 1),
                               !.queueG2 = QueueWith(@, que, ids)]
         /\ st' = [st EXCEPT !.bw.que = upadateQue(loadQueue(que), ids),
                             !.bw.turns = @ + Len(found)]
  /\ UNCHANGED args

componentDone ==
  /\ st.bw.pc = "backward" /\ st.bw.que.cnt = 0
  /\ st' = [st EXCEPT !.bw = [@ EXCEPT !.pc = "region", !.found = @ + st.bw.turns + 1,
                                       !.cnt[1] = st.bw.turns + 1]]
  /\ UNCHANGED <<args, mem>>
-----------------------------------------------------------------------------
Transposed(g) ==
  Csr(g.num, [v \in 0 .. g.num - 1 |->
                SelectSeq([i \in 1 .. g.num |-> i - 1], LAMBDA u : Arc(g, u, v))])

(* initBuffer, and the first root, vertex 0. *)
Init ==
  /\ \E g \in Graphs : args = [csr |-> g, csc |-> Transposed(g)]
  /\ LET blank == [v \in Vertex |-> None]
         zero  == [v \in Vertex |-> 0]
     IN  mem = [color |-> [blank EXCEPT ![0] = 0], result |-> blank, queueG1 |-> zero, queueG2 |-> zero]
  /\ LET empty == [cnt |-> 0, rdPtr |-> 0, wrPtr |-> 0, root |-> 0]
     IN  st = [strm |-> << >>,
               fw |-> [pc |-> "search", que |-> upadateQue(empty, <<0>>), node |-> 0, cnt |-> 0],
               bw |-> [pc |-> "read", que |-> empty, saved |-> empty, base |-> 0, root |-> 0, size |-> 0,
                       trim |-> 0, found |-> 0, offset |-> 0, cnt |-> <<0, 0>>, from |-> 0,
                       node |-> <<0, 0>>, exits |-> 0, turns |-> 0]]

Done == st.fw.pc = "done" /\ st.bw.pc = "read" /\ st.bw.base = V

Next == \/ forwardTurn \/ activateBackward \/ searchNewRoot
        \/ takeRegion \/ nextRoot \/ regionDone \/ reachTurn \/ fromLess \/ reached
        \/ backwardTurn \/ componentDone

Spec == Init /\ [][Next]_vars /\ WF_vars(Next)
-----------------------------------------------------------------------------
(* The vertices that can be reached from u. *)
From(u) ==
  LET Grow[n \in Nat] == IF n = 0 THEN {u}
                         ELSE LET near == Grow[n - 1]
                              IN  near \cup UNION {ToSet(Row(args.csr, w)) : w \in near}
  IN  Grow[V]

(* At the end every vertex is labelled with the least vertex of its strong *)
(* component, plus one.                                                    *)
LabelsAreLeast ==
  Done => LET from == [u \in Vertex |-> From(u)]
          IN  \A v \in Vertex : mem.result[v] = 1 + Min({u \in from[v] : v \in from[u]})

(* Whatever the two processes have done so far, two vertices with the same *)
(* label are in the same component, and a vertex without a colour, which   *)
(* the search backwards never looks at, has no label.                      *)
LabelsNeverMix ==
  /\ \A v \in Vertex : mem.color[v] = None => mem.result[v] = None
  /\ \A u, v \in Vertex : u < v /\ mem.result[u] # None /\ mem.result[u] = mem.result[v] =>
       u \in From(v) /\ v \in From(u)
=============================================================================
