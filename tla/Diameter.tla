------------------------------ MODULE Diameter ------------------------------
(***************************************************************************)
(* Estimated diameter, acc_fpga/include/hw/diameter.hpp: from PARA_NUM     *)
(* fixed vertices my_sssp finds the farthest vertex that can be reached;   *)
(* the longest of these distances is the estimate.                         *)
(*                                                                         *)
(* The searches have copies of the graph and run at the same time.  The    *)
(* process that reads the queue of a search is also the one that writes    *)
(* it, a vertex may wait in it several times, and a write to a full queue  *)
(* waits: for ever.                                                        *)
(***************************************************************************)
EXTENDS GraphMemory
LOCAL INSTANCE SequencesExt
LOCAL INSTANCE FiniteSetsExt

CONSTANTS Graphs,        \* weighted graphs, in CSR format
          ParaNum,       \* PARA_NUM, 2
          RandomOffset,  \* RANDOM_OFFSET, 380, added to every source
          Depth,         \* places in a queue, 4096
          Unreached      \* FLT_MAX, larger than every distance

VARIABLES
  args,   \* the graph
  mem,    \* max_dist, src and des
  st      \* pc; for each search its queue q, distance, tmp and edge i

vars == <<args, mem, st>>

G        == args.graph
Vertex   == 0 .. G.num - 1
Searches == 0 .. ParaNum - 1

source(n)      == ((G.num - 1) \div ParaNum) * n
source_true(n) == source(n) + RandomOffset
-----------------------------------------------------------------------------
Dequeue(n) ==
  /\ st.pc = "search" /\ st.i[n] = st.end[n] /\ st.q[n] # << >>
  /\ LET tmp == Head(st.q[n])
     IN  st' = [st EXCEPT !.q[n] = Tail(@), !.tmp[n] = tmp,
                          !.i[n] = G.offset[tmp], !.end[n] = G.offset[tmp + 1]]
  /\ UNCHANGED <<args, mem>>

(* Mutant: a vertex that was reached before is not queued again. *)
RequeueNever(n, to) == st.distance[n][to] = Unreached

Requeue(n, to) == TRUE

(* Mutant: every edge counts as a shorter way. *)
ShorterAlways(cur, to) == TRUE

(* The sign of curDist - toDist decides: equal distances change nothing.   *)
Shorter(cur, to) == cur < to

Relax(n) ==
  /\ st.pc = "search" /\ st.i[n] < st.end[n]
  /\ LET to  == G.column[st.i[n]]
         cur == st.distance[n][st.tmp[n]] + G.weight[st.i[n]]
     IN  IF Shorter(cur, st.distance[n][to])
         THEN /\ Len(st.q[n]) < Depth
              /\ st' = [st EXCEPT !.i[n] = @ + 1, !.distance[n][to] = cur,
                                  !.q[n] = IF Requeue(n, to) THEN Append(@, to) ELSE @]
         ELSE st' = [st EXCEPT !.i[n] = @ + 1]
  /\ UNCHANGED <<args, mem>>

(* The first of the longest distances above 0, in the order of the list.   *)
Farthest(values) ==
  FoldLeftDomain(LAMBDA best, k : IF best.distance < values[k].distance THEN values[k] ELSE best,
                 [distance |-> 0, at |-> 0], values)

(* Mutant: a vertex that was not reached counts. *)
FiniteAny(d) == d

Finite(d) == IF d # Unreached THEN d ELSE -1

(* The end of my_sssp: dst and dst_distance.                               *)
Result(n) ==
  Farthest([k \in 1 .. G.num |-> [distance |-> Finite(st.distance[n][k - 1]), at |-> k - 1]])

(* When all searches are over the longest of their distances is taken.     *)
Finish ==
  /\ st.pc = "search"
  /\ \A n \in Searches : st.q[n] = << >> /\ st.i[n] = st.end[n]
  /\ LET best == Farthest([k \in 1 .. ParaNum |-> [distance |-> Result(k - 1).distance, at |-> k]])
     IN  mem' = IF best.distance = 0 THEN [dist |-> 0, src |-> RandomOffset, des |-> 0]
                ELSE [dist |-> best.distance, src |-> source_true(best.at - 1),
                      des |-> Result(best.at - 1).at]
  /\ st' = [st EXCEPT !.pc = "done"]
  /\ UNCHANGED args
-----------------------------------------------------------------------------
Init ==
  /\ \E g \in Graphs : args = [graph |-> g]
  /\ mem = << >>
  /\ st = [pc |-> "search",
           q |-> [n \in Searches |-> <<source_true(n)>>],
           distance |-> [n \in Searches |-> [v \in Vertex |->
                           IF v = source_true(n) THEN 0 ELSE Unreached]],
           tmp |-> [n \in Searches |-> 0],
           i |-> [n \in Searches |-> 0], end |-> [n \in Searches |-> 0]]

Done == st.pc = "done"

Next == (\E n \in Searches : Dequeue(n) \/ Relax(n)) \/ Finish

Spec == Init /\ [][Next]_vars /\ WF_vars(Next)
-----------------------------------------------------------------------------
(* The shortest way from s to each vertex over at most n edges. *)
Shortest(s) ==
  LET least(d, v) == Min({d[v]} \cup
        UNION {{d[u] + G.weight[i] : i \in {i \in G.offset[u] .. G.offset[u + 1] - 1 :
                                              G.column[i] = v /\ d[u] # Unreached}} : u \in Vertex})
  IN  FoldLeft(LAMBDA d, k : [v \in Vertex |-> least(d, v)],
               [v \in Vertex |-> IF v = s THEN 0 ELSE Unreached], [k \in 1 .. G.num |-> k])

(* The estimate is the longest distance that can be travelled from one of  *)
(* the chosen vertices, between the vertices it names.                     *)
EstimateIsADistance ==
  Done =>
    LET ways == [n \in Searches |-> Shortest(source_true(n))]
        all  == {ways[n][v] : n \in Searches, v \in Vertex} \ {Unreached}
    IN  /\ mem.dist = Max(all)
        /\ mem.dist > 0 => \E n \in Searches : mem.src = source_true(n) /\ ways[n][mem.des] = mem.dist

(* While a search runs its distances are those of real ways, and what may  *)
(* still make one shorter waits in the queue or is just being looked at.   *)
NothingIsForgotten ==
  \A n \in Searches, u \in Vertex :
    LET d == st.distance[n]
        waits == u \in ToSet(st.q[n])
    IN  d[u] # Unreached /\ ~waits => \A i \in G.offset[u] .. G.offset[u + 1] - 1 :
          \/ d[G.column[i]] <= d[u] + G.weight[i]
          \/ st.tmp[n] = u /\ i >= st.i[n] /\ st.i[n] < st.end[n]

(* The queue never needs more places than the graph has edges.             *)
QueueFits == \A n \in Searches : Len(st.q[n]) <= Max({1, G.offset[G.num]})
=============================================================================
