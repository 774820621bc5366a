------------------------------- MODULE Degree -------------------------------
(***************************************************************************)
(* Degrees of vertices, acc_fpga/include/hw/calc_degree.hpp: calcuDegree   *)
(* (every weight 1) and both forms of calcuWeightedDegree, the second also *)
(* counting the edges that go to each channel.  The degrees are added to   *)
(* what their array held before.                                           *)
(***************************************************************************)
EXTENDS LineCache
LOCAL INSTANCE SequencesExt

CONSTANTS Inputs,      \* records index, weight (sequences) and num, vertices
          Channels,    \* CHANNELNUM; 1 where there are no channels
          UnrollBin,   \* a channel is chosen by the vertex without UNROLLBIN bits
          Old          \* what the array may have held

VARIABLES
  args,   \* an input
  mem,    \* degree
  st      \* pc, the edge i, the cache and numEdgePerChannel

vars == <<args, mem, st>>

Lines == (args.num + T - 1) \div T   \* iteration; the 16 of the code is T

Channel(val) == (val \div 2 ^ UnrollBin) % Channels

Edges == Len(args.index)
-----------------------------------------------------------------------------
(* One turn of loop_cache.  The streams only split memory words.           *)
updateDegree ==
  /\ st.pc = "count" /\ st.i < Edges
  /\ LET val == args.index[st.i + 1]
     IN  /\ mem' = Evicted(st.cache, mem, val)
         /\ st' = [st EXCEPT !.i = @ + 1,
                             !.cache = Counted(@, mem, val, args.weight[st.i + 1]),
                             !.channel[Channel(val)] = @ + 1]
  /\ UNCHANGED args

(* Mutant: the last line is left out. *)
LinesWhole == args.num \div T

LinesOut == Lines

WriteOut ==
  /\ st.pc = "count" /\ st.i = Edges
  /\ mem' = WrittenOut(st.cache, mem, LinesOut)
  /\ st' = [st EXCEPT !.pc = "done"]
  /\ UNCHANGED args
-----------------------------------------------------------------------------
Init ==
  /\ args \in Inputs
  /\ \E old \in Old : mem = [i \in 0 .. T * Lines - 1 |-> old]
  /\ st = [pc |-> "count", i |-> 0, cache |-> Empty,
           channel |-> [n \in 0 .. Channels - 1 |-> 0], old |-> mem[0]]

Done == st.pc = "done"

Next == updateDegree \/ WriteOut

Spec == Init /\ [][Next]_vars /\ WF_vars(Next)
-----------------------------------------------------------------------------
(* The weights of the first n edges to a vertex. *)
Weight(v, n) ==
  FoldLeftDomain(LAMBDA a, i : IF args.index[i] = v THEN a + args.weight[i] ELSE a, 0,
                 SubSeq(args.index, 1, n))

(* At any time the degree so far is in the line of the cache or, where the *)
(* cache has another line, in memory: lines that take a set from each      *)
(* other lose no count, and the queues never answer for another line.      *)
NoCountIsLost ==
  st.pc = "count" => \A v \in 0 .. args.num - 1 :
    Current(st.cache, mem, v) = st.old + Weight(v, st.i)

(* The call leaves in memory what was there plus the degrees.              *)
DegreesAreComplete ==
  Done => \A v \in 0 .. args.num - 1 : mem[v] = st.old + Weight(v, Edges)
=============================================================================
