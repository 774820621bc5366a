-------------------------------- MODULE Mis --------------------------------
(***************************************************************************)
(* Maximal independent set, acc_fpga/include/hw/                           *)
(* maximal_independent_set.hpp: rounds of five processes (MIS_dataflow)    *)
(* that select the vertices whose hash is smaller than those of all their  *)
(* neighbours still in play, and remove these neighbours.                  *)
(*                                                                         *)
(* S_group and C_group are written together and hold the same: they are    *)
(* group0, which a round reads, and group1, which it writes.  Streams that *)
(* are written and read together are one FIFO of records: v2 is str_off1,  *)
(* str_v2 and str_d2; v3 the five streams to Check_V; v4 is str_v4,        *)
(* str_status_4 and str_d4.                                                *)
(***************************************************************************)
EXTENDS GraphMemory

CONSTANTS Graphs,    \* undirected graphs, in CSR format
          Hashes(_), \* what get_rand may return for n vertices, one to one
          Counts,    \* values of count_S, which no call resets
          MaxRound,  \* MAX_ROUND
          Depth      \* M_DEPTH, places in a FIFO

VARIABLES
  args,   \* the graph and the hash
  mem,    \* group0, group1 and res_out
  st      \* round, count_S, select_cnt, the FIFOs and the five processes

vars == <<args, mem, st>>

G      == args.graph
m      == G.num
Vertex == 0 .. m - 1

VNull == -256
None  == m        \* HASH_RANGE - 1, not smaller than a hash

(* The hash of the four bytes of a vertex; on the numbers of vertices that *)
(* a FIFO can hold it is one to one.                                       *)
get_rand(v) == args.hash[v]

Room(s) == Len(st.q[s]) < Depth
Some(s) == st.q[s] # << >>
-----------------------------------------------------------------------------
Get_Unselect_V ==
  /\ st.pc = "round" /\ st.v <= m
  /\ LET out == IF st.v = m THEN <<VNull>> ELSE IF mem.group0[st.v] = 0 THEN <<st.v>> ELSE << >>
     IN  /\ out # << >> => Room("v1")
         /\ st' = [st EXCEPT !.v = @ + 1, !.q.v1 = @ \o out]
  /\ UNCHANGED <<args, mem>>

Get_degree ==
  /\ Some("v1") /\ Room("v2")
  /\ LET v == Head(st.q.v1)
         out == IF v = VNull THEN [v |-> VNull, d |-> VNull, off |-> VNull]
                ELSE [v |-> v, d |-> G.offset[v + 1] - G.offset[v], off |-> G.offset[v]]
     IN  st' = [st EXCEPT !.q.v1 = Tail(@), !.q.v2 = Append(@, out)]
  /\ UNCHANGED <<args, mem>>

(* Past the last index of the graph any vertex may be read.                *)
Index(i) == IF i \in DOMAIN G.column THEN {G.column[i]} ELSE Vertex

(* The edges of a vertex from the last to the first; of a vertex without   *)
(* edges one value is read and sent all the same.                          *)
v_edgstr_e3 ==
  /\ Room("v3")
  /\ IF st.edg.cnt = 0 THEN Some("v2") ELSE TRUE
  /\ LET e   == st.edg
         in  == IF e.cnt = 0 THEN Head(st.q.v2) ELSE e.in
         cnt == IF e.cnt # 0 THEN e.cnt - 1
                ELSE IF in.d = 0 \/ in.v = VNull THEN 0 ELSE in.d - 1
     IN  \E to \in IF in.v = VNull THEN {VNull} ELSE Index(in.off + cnt) :
           st' = [st EXCEPT !.q.v2 = IF e.cnt = 0 THEN Tail(@) ELSE @,
                            !.edg = [in |-> in, cnt |-> cnt],
                            !.q.v3 = Append(@, [v |-> in.v, e |-> to, d |-> in.d])]
  /\ UNCHANGED <<args, mem>>

(* Mutant: removed neighbours are compared with as well. *)
InPlayAlways(e) == TRUE

InPlay(e) == mem.group0[e] >= 0

(* chk.min is the smallest hash of the neighbours in play, but the last.   *)
Check_V ==
  /\ Some("v3")
  /\ LET x == Head(st.q.v3)
         c == st.chk
         isLast == c.cnt = x.d - 1
         hv == get_rand(x.v)
         chosen == hv <= c.min /\ (InPlay(x.e) => hv <= get_rand(x.e))
     IN  \/ /\ x.v = VNull
            /\ Room("v4") /\ Room("e4")
            /\ st' = [st EXCEPT !.q.v3 = Tail(@), !.q.e4 = Append(@, VNull),
                        !.q.v4 = Append(@, [v |-> VNull, status |-> VNull, d |-> VNull])]
         \/ /\ x.v # VNull
            /\ Room("e4") /\ (isLast => Room("v4"))
            /\ st' = [st EXCEPT !.q.v3 = Tail(@), !.q.e4 = Append(@, x.e),
                 !.q.v4 = IF isLast
                          THEN Append(@, [v |-> x.v, status |-> IF chosen THEN -1 ELSE 0, d |-> x.d])
                          ELSE @,
                 !.chk = IF isLast THEN [cnt |-> 0, min |-> None]
                         ELSE [cnt |-> c.cnt + 1,
                               min |-> IF InPlay(x.e) /\ get_rand(x.e) <= c.min
                                       THEN get_rand(x.e) ELSE c.min]]
  /\ UNCHANGED <<args, mem>>

(* Mutant: the neighbours of a selected vertex stay in play. *)
RemoveNone(e) == mem

Remove(e) == [mem EXCEPT !.group1[e] = -2]

(* Mutant: one edge more than the vertex has is read. *)
EdgesToReadPast(d) == d + 1

EdgesToRead(d) == d

UpdateVertex ==
  /\ st.upd.cnt = 0 /\ Some("v4")
  /\ LET x == Head(st.q.v4)
         next == [st EXCEPT !.q.v4 = Tail(@),
                            !.upd = [status |-> x.status, cnt |-> EdgesToRead(x.d)]]
     IN  IF x.status = -1
         THEN /\ mem' = [mem EXCEPT !.group1[x.v] = -1, !.res[st.count] = x.v]
              /\ st' = [next EXCEPT !.count = @ + 1, !.selected = @ + 1]
         ELSE st' = next /\ UNCHANGED mem
  /\ UNCHANGED args

UpdateEdge ==
  /\ st.upd.cnt # 0 /\ st.pc = "round" /\ Some("e4")
  /\ LET e == Head(st.q.e4)
     IN  /\ st' = [st EXCEPT !.q.e4 = Tail(@), !.upd.cnt = @ - 1,
                             !.pc = IF e = VNull THEN "sync" ELSE @]
         /\ mem' = IF e = VNull THEN [mem EXCEPT !.res[st.count] = VNull]
                   ELSE IF st.upd.status = -1 THEN Remove(e) ELSE mem
  /\ UNCHANGED args

(* The local variables of the processes at the start of a round.           *)
Round(n, count) ==
  [pc |-> "round", round |-> n, count |-> count, selected |-> 0, v |-> 0,
   q |-> [s \in {"v1", "v2", "v3", "v4", "e4"} |-> << >>],
   edg |-> [in |-> [v |-> 0, d |-> 0, off |-> 0], cnt |-> 0],
   chk |-> [cnt |-> 0, min |-> None], upd |-> [status |-> 0, cnt |-> 0]]

LastRound == st.selected = 0 \/ st.round + 1 = MaxRound

(* mem_sync, and the loop of mis.                                          *)
mem_sync ==
  /\ st.pc = "sync"
  /\ mem' = [mem EXCEPT !.group0 = mem.group1]
  /\ st' = IF LastRound THEN [st EXCEPT !.pc = "done"] ELSE Round(st.round + 1, st.count)
  /\ UNCHANGED args
-----------------------------------------------------------------------------
Init ==
  /\ \E g \in Graphs : \E h \in Hashes(g.num), c \in Counts :
       /\ args = [graph |-> g, hash |-> h, count |-> c]
       /\ st = Round(0, c)
       /\ mem = [group0 |-> [v \in 0 .. g.num - 1 |-> 0], group1 |-> [v \in 0 .. g.num - 1 |-> 0],
                 res |-> [i \in 0 .. c + g.num |-> VNull]]

Done == st.pc = "done"

Next == \/ Get_Unselect_V \/ Get_degree \/ v_edgstr_e3 \/ Check_V
        \/ UpdateVertex \/ UpdateEdge \/ mem_sync

Spec == Init /\ [][Next]_vars /\ WF_vars(Next)
-----------------------------------------------------------------------------
Selected == {v \in Vertex : mem.group1[v] = -1}

(* At no time are two neighbours selected, although all vertices of a      *)
(* round are judged by the groups as they were at its start.               *)
SelectedAreIndependent ==
  \A u \in Selected, v \in Selected : ~Arc(G, u, v)

(* The call ends with the members of a maximal set of independent vertices *)
(* in res_out, each once, with the end mark after them, unless it was cut  *)
(* off at MAX_ROUND.                                                       *)
ResultIsMaximal ==
  Done /\ st.round + 1 < MaxRound =>
    /\ \A v \in Vertex \ Selected : \E u \in Selected : Arc(G, u, v)
    /\ {mem.res[i] : i \in args.count .. st.count - 1} = Selected
    /\ \A i, j \in args.count .. st.count - 1 : mem.res[i] = mem.res[j] => i = j
    /\ mem.res[st.count] = VNull

(* Between rounds no FIFO holds a value for the next round.                *)
RoundsAreSeparate == st.pc \in {"sync", "done"} => \A s \in DOMAIN st.q : ~Some(s)
=============================================================================
