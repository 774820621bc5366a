-------------------------------- MODULE Sssp --------------------------------
(***************************************************************************)
(* Single source shortest paths, acc_fpga/include/hw/shortest_path.hpp,    *)
(* with and without predecessors.  One turn of the loop takes a vertex     *)
(* from a circular queue in device memory and collects the neighbours that *)
(* it brings nearer (shortestPathS1Dataflow), then writes their distances  *)
(* and queues them (shortestPathS2Dataflow).                               *)
(*                                                                         *)
(* As in Bfs, the queue and the distances are read through registers of a  *)
(* memory word and written past them, and a stage is one action.  The queue *)
(* is kept by two counters, of which only the difference, cnt, matters.    *)
(*                                                                         *)
(* Distances have 32 bits, or 64 (WIDTH).  A word holds half as many of 64 *)
(* bits, and readResult divides by that number; updateRes divides by the   *)
(* other for both, so that a register of 64-bit distances is kept although *)
(* one of them is written, unless it is the first word.  The distances may *)
(* then come out too long: 0 -> 8 -> 9 leaves 9 without one.               *)
(***************************************************************************)
EXTENDS GraphMemory
LOCAL INSTANCE SequencesExt

CONSTANTS Graphs,      \* weighted graphs in CSR format
          Sources,     \* vertices to start from
          Queues,      \* config[3], places in the queue
          MaxDegree,   \* MAXOUTDEGREE, places in the tables
          MaxValue     \* config[1], the distance of a vertex not reached

VARIABLES
  args,   \* graph, source, qcfg, width, enaWei and enaPred
  mem,    \* queue, result and pred
  st      \* pc, que (queStatus), table (tableStatus, toIDTable, distTable),
          \* registers; stale is a history variable: a distance was read
          \* from the register after it was written

vars == <<args, mem, st>>

G      == args.graph
Vertex == 0 .. G.num - 1
None   == -1
-----------------------------------------------------------------------------
NextPlace(ptr) == IF ptr # args.qcfg - 1 THEN ptr + 1 ELSE 0

(* Takes fromID from the queue. *)
queCtrl(s) ==
  LET reg == Through(s.queReg, mem.queue, s.que.rdPtr)
  IN  [s EXCEPT !.queReg = reg, !.table.fromID = reg.word[s.que.rdPtr],
                !.que.cnt = @ - 1, !.que.rdPtr = NextPlace(@)]

(* loadoffsetSendAddr, readOffset, loadoffsetCollect.                      *)
Offsets(fromID) == [low |-> G.offset[fromID], high |-> G.offset[fromID + 1]]

(* loadToIDWeiSendAddr: the addresses of the columns and of the weights.   *)
EdgeAddrs(row) == [i \in 1 .. row.high - row.low |-> row.low + i - 1]

readColumn(raddr) == G.column[raddr]

readWeight(raddr) == IF args.enaWei THEN G.weight[raddr] ELSE 1

(* Distances in a memory word.                                             *)
ResWord == IF args.width = 32 THEN T ELSE T \div 2

(* The distance of a vertex goes through the register, first that of fromID. *)
readResult(s, raddr) ==
  LET reg == ThroughOf(ResWord, s.resReg, mem.result, raddr)
  IN  [s EXCEPT !.resReg = reg, !.stale = @ \/ reg.word[raddr] # mem.result[raddr]]

FromDist(s) ==
  LET r == readResult(s, s.table.fromID)
  IN  [r EXCEPT !.table.dist = r.resReg.word[s.table.fromID]]

(* Mutant: a distance as long as the old one is news, too. *)
NearerOrEqual(curDist, toDist) == curDist <= toDist

Nearer(curDist, toDist) == curDist < toDist

loadResCollectData(s, raddr) ==
  LET toID    == readColumn(raddr)
      r       == readResult(s, toID)
      curDist == s.table.dist + readWeight(raddr)
  IN  IF Nearer(curDist, r.resReg.word[toID])
      THEN [r EXCEPT !.table.new = Append(@, [toID |-> toID, dist |-> curDist])]
      ELSE r

shortestPathS1Dataflow ==
  /\ st.pc = "s1" /\ st.que.cnt > 0
  /\ LET s == queCtrl([st EXCEPT !.table.new = << >>])
         f == FromDist(s)
     IN  st' = [FoldLeft(loadResCollectData, f, EdgeAddrs(Offsets(f.table.fromID)))
                  EXCEPT !.pc = "s2"]
  /\ UNCHANGED <<args, mem>>
-----------------------------------------------------------------------------
(* What is past the end of the tables is replaced by vertex 0 at distance 0. *)
updateDispatch ==
  [i \in DOMAIN st.table.new |->
     IF i <= MaxDegree THEN st.table.new[i] ELSE [toID |-> 0, dist |-> 0]]

(* A register is no longer valid when the word of T values that its        *)
(* address counts to is written.                                           *)
Written(reg, places) == [reg EXCEPT !.valid = @ /\ \A i \in places : i \div T # reg.addr]

(* Mutant: the register is not made invalid. *)
ResWrittenUnseen(reg, toIDs) == reg

(* So it is for the distances, whatever their width: with 64 bits the      *)
(* address counts words of T \div 2, and only that of word 0 is found.     *)
ResWritten(reg, toIDs) == Written(reg, toIDs)

updateRes(new) ==
  FoldLeft(LAMBDA m, n : [m EXCEPT !.result[n.toID] = n.dist,
                                   !.pred[n.toID] = IF args.enaPred THEN st.table.fromID ELSE @],
           mem, new)

QuePlace(i) == IF st.que.wrPtr + i - 1 < args.qcfg THEN st.que.wrPtr + i - 1
               ELSE (st.que.wrPtr + i - 1) % args.qcfg

(* Mutant: the queue is taken for full one vertex too late. *)
OverLate(waiting) == waiting > args.qcfg + 1

Over(waiting) == waiting > args.qcfg - 1

upadateQue(new) ==
  LET n == Len(new)
  IN  [st.que EXCEPT !.cnt = @ + n, !.wrPtr = QuePlace(n + 1),
                     !.over = @ \/ (n > 0 /\ Over(st.que.cnt + n))]

shortestPathS2Dataflow ==
  /\ st.pc = "s2"
  /\ LET new == updateDispatch
     IN  /\ mem' = [updateRes(new) EXCEPT !.queue =
                      FoldLeftDomain(LAMBDA q, i : [q EXCEPT ![QuePlace(i)] = new[i].toID], @, new)]
         /\ st' = [st EXCEPT !.pc = "s1", !.que = upadateQue(new),
                     !.table.over = @ \/ Len(new) > MaxDegree,
                     !.resReg = ResWritten(@, {new[i].toID : i \in DOMAIN new}),
                     !.queReg = Written(@, {QuePlace(i) : i \in DOMAIN new})]
  /\ UNCHANGED args

(* info[0] and info[1] tell the host whether the queue or the tables were  *)
(* too small.                                                              *)
Finish ==
  /\ st.pc = "s1" /\ st.que.cnt = 0
  /\ st' = [st EXCEPT !.pc = "done"]
  /\ UNCHANGED <<args, mem>>
-----------------------------------------------------------------------------
initRes == [v \in Vertex |-> IF v = args.source THEN 0 ELSE MaxValue]

initPred == [v \in Vertex |-> IF v = args.source THEN args.source ELSE None]

(* The kernel with predecessors, which its configuration may switch off.   *)
InitPred == mem.pred = IF args.enaPred THEN initPred ELSE [v \in Vertex |-> None]

(* The kernel without them has no array for them.                          *)
InitNoPred == ~args.enaPred /\ mem.pred = [v \in Vertex |-> None]

Init ==
  /\ \E g \in Graphs, s \in Sources, q \in Queues, wd \in {32, 64}, w, p \in BOOLEAN :
       s < g.num /\ args = [graph |-> g, source |-> s, qcfg |-> q, width |-> wd,
                            enaWei |-> w, enaPred |-> p]
  /\ mem \in [queue : {[i \in 0 .. args.qcfg - 1 |-> IF i = 0 THEN args.source ELSE 0]},
              result : {initRes}, pred : {initPred, [v \in Vertex |-> None]}]
  /\ InitPred \/ InitNoPred
  /\ st = [pc |-> "s1", que |-> [cnt |-> 1, rdPtr |-> 0, wrPtr |-> 1, over |-> FALSE],
           table |-> [fromID |-> 0, dist |-> 0, new |-> << >>, over |-> FALSE],
           queReg |-> NoWord, resReg |-> NoWord, stale |-> FALSE]

Done == st.pc = "done"

Next == shortestPathS1Dataflow \/ shortestPathS2Dataflow \/ Finish

Spec == Init /\ [][Next]_vars /\ WF_vars(Next)
-----------------------------------------------------------------------------
FlagsDown == ~st.que.over /\ ~st.table.over

(* What is claimed of the distances: those of 32 bits without exception,   *)
(* those of 64 bits on a graph of one word, and on others as long as no    *)
(* distance was read that had been written since.                          *)
Claimed == args.width = 32 \/ G.num <= ResWord \/ ~st.stale

Edge(u) == G.offset[u] .. G.offset[u + 1] - 1

(* The lengths of the shortest walks from the source of at most n edges.   *)
Nearest[n \in Nat] ==
  IF n = 0 THEN initRes
  ELSE LET before == Nearest[n - 1]
           Via(v) == {<<u, i>> \in Vertex \X DOMAIN G.column :
                        i \in Edge(u) /\ G.column[i] = v /\ before[u] < MaxValue}
       IN  [v \in Vertex |->
              LET all == {before[v]} \cup {before[e[1]] + readWeight(e[2]) : e \in Via(v)}
              IN  CHOOSE d \in all : \A x \in all : d <= x]

(* At the end, unless the host is told that a queue or table was too       *)
(* small, every distance is that of the shortest path and the predecessors *)
(* lead along such paths.  See Claimed for distances of 64 bits.           *)
DistancesAreShortest ==
  Done /\ FlagsDown /\ Claimed =>
    LET shortest == Nearest[G.num - 1]
    IN  /\ mem.result = shortest
        /\ args.enaPred => \A v \in Vertex \ {args.source} :
             IF shortest[v] = MaxValue THEN mem.pred[v] = None
             ELSE \E i \in Edge(mem.pred[v]) :
                    G.column[i] = v /\ shortest[v] = shortest[mem.pred[v]] + readWeight(i)

(* Between two turns a vertex that could still bring a neighbour nearer    *)
(* waits in the queue, although the register of the queue is written past  *)
(* and its places are used again.  See Claimed for distances of 64 bits.   *)
NothingIsForgotten ==
  st.pc = "s1" /\ FlagsDown /\ Claimed =>
    \A u \in Vertex : \A i \in Edge(u) :
      mem.result[u] < MaxValue /\ mem.result[u] + readWeight(i) < mem.result[G.column[i]] =>
        \E k \in 0 .. st.que.cnt - 1 :
          LET at == (st.que.rdPtr + k) % args.qcfg
          IN  (IF st.queReg.valid /\ at \in DOMAIN st.queReg.word
               THEN st.queReg.word[at] ELSE mem.queue[at]) = u
=============================================================================
