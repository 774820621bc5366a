------------------------------ MODULE Louvain ------------------------------
(***************************************************************************)
(* Community detection by the Louvain method, one phase                    *)
(* (kernelLouvainTop in acc_fpga/include/hw/louvain_coloring.hpp): the     *)
(* vertices are sorted by colour, and the vertices of one colour move      *)
(* together, each to the community that raises the modularity most.  Sizes *)
(* and totals of the communities are kept in pairs of buffers; flags       *)
(* leave out the vertices that have no neighbour that moved.               *)
(*                                                                         *)
(* Weights are integers, the only ones that ToInt keeps, so that sums of   *)
(* them and their scaled forms are exact.  The total of the weights is     *)
(* kept as its reciprocal, and what the gains get back of it may be one    *)
(* less (constant_i_scl).  A lane carries vertices with all of their       *)
(* edges.                                                                  *)
(***************************************************************************)
EXTENDS GraphMemory
LOCAL INSTANCE SequencesExt
LOCAL INSTANCE FiniteSetsExt
LOCAL INSTANCE Functions

CONSTANTS Graphs,     \* undirected graphs with weights, colours and ghosts
          Registers,  \* 8, the updates that update_color_ptr remembers
          Lags,       \* updates that may be on the way to colorPtr
          Old,        \* what the flags may be when the kernel starts
          BigDegree,  \* th_2 = 63, degrees for the hash table
          HashSize,   \* 1 << LG2_NUM_HASH, its places
          MaxDegree,  \* MAXDEGREE
          Units,      \* NUM_UNIT, tables of changes
          Batch,      \* BATCH_UPDT, communities in such a table
          Starts,     \* the modularity that the host passes
          Epsilon     \* epsilon, in hundredths

VARIABLES
  args,   \* the graph and the lag
  mem,    \* the device memory, and colorPtr
  st      \* the loops of the kernel and its processes; old is a history
          \* variable, cidPrev at the start of the iteration

vars == <<args, mem, st>>

G == args.graph
n == G.num
Vertex  == 0 .. n - 1
numEdge == G.offset[n]
Lanes  == 0 .. 4     \* four that search a small table, one with a hash table

(* Arrays are written in whole words.                                      *)
loopNumGen(num) == (num + T - 1) \div T
Padded == 0 .. T * loopNumGen(n) - 1

burst(memory) == [i \in Padded |-> memory[i]]

(* An offset without its bit 31, which marks the ghosts.                   *)
Offset(v) == G.offset[v]

Degree(v) == Offset(v + 1) - Offset(v)
Edges(v)  == [i \in 1 .. Degree(v) |-> Offset(v) + i - 1]
-----------------------------------------------------------------------------
(* The weights of the edges of each vertex.  The offset after the next is  *)
(* read at the end of a vertex, and the last vertices may have no edges.   *)
calculateTot ==
  /\ st.pc = "tot"
  /\ st.cnt < n \/ st.adj1 < numEdge
  /\ st' = IF st.adj1 >= st.adj2
           THEN [st EXCEPT !.adj2 = Offset(st.cnt + 1), !.tots = Append(@, st.ki),
                           !.ki = 0, !.cnt = @ + 1]
           ELSE [st EXCEPT !.ki = @ + G.weight[st.adj1], !.total = @ + G.weight[st.adj1],
                           !.adj1 = @ + 1]
  /\ UNCHANGED <<args, mem>>

(* initTot and initCid: each vertex is a community.  Then the colours are  *)
(* counted.                                                                *)
initComm ==
  /\ st.pc = "tot" /\ st.cnt >= n /\ st.adj1 >= numEdge
  /\ LET tots == Append(st.tots, st.ki)
     IN  mem' = [mem EXCEPT !.tot[0] = [i \in Padded |-> IF i < n THEN tots[i + 1] ELSE 0],
                            !.size[0] = [i \in Padded |-> 1],
                            !.cidPrev = [i \in Padded |-> i], !.cidCurr = [i \in Padded |-> i],
                            !.ptr = [c \in 0 .. G.colors |-> 0]]
  /\ st' = [st EXCEPT !.pc = "count", !.Q = args.modularity * st.total * st.total,
                      !.old = mem'.cidPrev]
  /\ UNCHANGED args

(* Mutant: of the updates that are remembered the oldest is taken. *)
RecentOldest(idx, addr) ==
  LET hits == {j \in DOMAIN st.recent : st.recent[j].idx = idx}
  IN  IF hits = {} THEN mem.ptr[addr] ELSE st.recent[Max(hits)].elem

(* colorPtr[idx] as the last updates leave it, of which the latest few     *)
(* have not reached the memory.                                            *)
Recent(idx, addr) ==
  LET hits == {j \in DOMAIN st.recent : st.recent[j].idx = idx}
  IN  IF hits = {} THEN mem.ptr[addr] ELSE st.recent[Min(hits)].elem

(* The updates reach the memory args.lag vertices later, in their order.   *)
Landing(all) ==
  IF st.i = n - 1 THEN SubSeq(all, 1, Min({Len(all), args.lag + 1}))
  ELSE IF Len(all) > args.lag THEN <<all[args.lag + 1]>> ELSE << >>

Update(idx, addr) ==
  LET all == <<[idx |-> idx, addr |-> addr, elem |-> Recent(idx, addr) + 1]>> \o st.recent
  IN  [ptr    |-> FoldRight(LAMBDA u, p : [p EXCEPT ![u.addr] = u.elem], Landing(all), mem.ptr),
       recent |-> IF st.i = n - 1 THEN << >> ELSE SubSeq(all, 1, Min({Len(all), Registers}))]

NextVertex(update, phase) ==
  st' = [st EXCEPT !.recent = update.recent, !.i = IF @ = n - 1 THEN 0 ELSE @ + 1,
                   !.pc = IF st.i = n - 1 THEN phase ELSE @]

update_color_ptr0 ==
  /\ st.pc = "count"
  /\ LET u == Update(G.color[st.i], G.color[st.i] + 1)
     IN  mem' = [mem EXCEPT !.ptr = u.ptr] /\ NextVertex(u, "sum")
  /\ UNCHANGED args

(* INIT_COLOR_DEGREE.                                                      *)
sumColors ==
  /\ st.pc = "sum"
  /\ mem' = [mem EXCEPT !.ptr = [c \in DOMAIN @ |-> MapThenSumSet(LAMBDA d : mem.ptr[d], 0 .. c)]]
  /\ st' = [st EXCEPT !.pc = "remap"]
  /\ UNCHANGED args

(* colorInx gets the vertices by colour, and colorPtr[c] moves from the    *)
(* first place of colour c to the first after it.                          *)
update_color_ptr1 ==
  /\ st.pc = "remap"
  /\ LET idx == G.color[st.i]
         u == Update(idx, idx)
     IN  /\ mem' = [mem EXCEPT !.ptr = u.ptr, !.inx[Recent(idx, idx)] = st.i]
         /\ NextVertex(u, "color")
  /\ UNCHANGED args
-----------------------------------------------------------------------------
(* The buffers of sizes and totals change places after every colour, the   *)
(* flags after every iteration.                                            *)
Now  == st.loop % 2
Read == st.itr % 2

use_push_flag   == st.itr >= 2
write_push_flag == st.itr >= 1

First == IF st.c = 0 THEN 0 ELSE mem.ptr[st.c - 1]

(* initSameColor.  The flags are bytes, of which it clears as many as      *)
(* there are words of vertices.                                            *)
initSameColor ==
  /\ st.pc = "color"
  /\ LET zero == [i \in Padded |-> 0]
     IN  mem' = [mem EXCEPT !.sizeUp = zero, !.totUp = zero,
                   !.comm = IF st.c = 0 THEN zero ELSE @,
                   !.flag[1 - Read] = IF st.c = 0 THEN [v \in Vertex |-> IF v < loopNumGen(n) THEN 0 ELSE @[v]]
                                      ELSE @]
  /\ st' = [st EXCEPT !.pc = "move", !.k = First, !.select = 0,
                      !.table = [u \in 0 .. Units - 1 |-> << >>]]
  /\ UNCHANGED args

(* A vertex of the colour, and its edges with the communities of the       *)
(* neighbours.                                                             *)
Ecw(i) == [to |-> G.column[i], weight |-> G.weight[i], cid |-> mem.cidPrev[G.column[i]]]

Message(v) == [v |-> v, cid |-> mem.cidPrev[v], edges |-> [i \in 1 .. Degree(v) |-> Ecw(Edges(v)[i])]]

(* SameColor_GetV, which reads the flags.                                  *)
Chosen(v) == (use_push_flag => mem.flag[Read][v] = 1) /\ v \notin G.ghost

(* SameColor_GetE and SameColor_GetC pass no vertex without edges but one  *)
(* at the start of the edges, and none with too many.                      *)
Passed(v) == (Degree(v) > 0 \/ Offset(v) = 0) /\ Degree(v) < MaxDegree

(* The vertices of few edges go to four lanes by turns.                    *)
SameColor_GetKins_hash_dispatch4 ==
  /\ st.pc = "move" /\ st.k < mem.ptr[st.c]
  /\ LET v == mem.inx[st.k]
     IN  st' = IF ~(Chosen(v) /\ Passed(v)) THEN [st EXCEPT !.k = @ + 1]
               ELSE IF Degree(v) < BigDegree
               THEN [st EXCEPT !.k = @ + 1, !.select = (@ + 1) % 4,
                               !.lane[st.select] = Append(@, Message(v))]
               ELSE [st EXCEPT !.k = @ + 1, !.lane[4] = Append(@, Message(v))]
  /\ UNCHANGED <<args, mem>>

(* The communities of a vertex, its own first, as a small table keeps      *)
(* them: in the order in which they come.                                  *)
Keys(m) == FoldLeft(LAMBDA s, e : IF Contains(s, e.cid) THEN s ELSE Append(s, e.cid),
                    <<m.cid>>, m.edges)

(* The hash table keeps those that find their place free, and a list that  *)
(* is searched the others.                                                 *)
Held(keys) ==
  SelectSeq(keys, LAMBDA c : \A j \in DOMAIN keys : keys[j] = c =>
                               \A i \in 1 .. j - 1 : keys[i] % HashSize # c % HashSize)

Scanned(keys) == SelectSeq(keys, LAMBDA c : ~Contains(Held(keys), c))

WeightOf(edges) == FoldLeft(LAMBDA s, e : s + e.weight, 0, edges)

(* What a lane sends of a vertex: a head, the weights of all edges and of  *)
(* the loops, and those to each community; of a vertex without edges only  *)
(* the head.                                                               *)
Vcdn(m, num) == [v |-> m.v, cid |-> m.cid, degree |-> Len(m.edges), num |-> num]

KiSelf(m) == [ki |-> WeightOf(m.edges), self |-> WeightOf(SelectSeq(m.edges, LAMBDA e : e.to = m.v))]

CkKin(m, c) == [ck |-> c, kin |-> WeightOf(SelectSeq(m.edges, LAMBDA e : e.cid = c))]

Tokens(m, keys) ==
  IF m.edges = << >> THEN <<Vcdn(m, 0)>>
  ELSE <<Vcdn(m, Len(keys)), KiSelf(m)>> \o [i \in DOMAIN keys |-> CkKin(m, keys[i])]

(* SameColor_GetKins_HashAgg_small and _big.                               *)
SameColor_GetKins_HashAgg(l, m) ==
  Tokens(m, IF l = 4 THEN Held(Keys(m)) \o Scanned(Keys(m)) ELSE Keys(m))

(* A lane aggregates a vertex and the collector takes it: in the order of  *)
(* the vertices of one lane, and in any order of the lanes.                *)
SameColor_GetKins_hash_Collector(l) ==
  /\ st.lane[l] # << >>
  /\ st' = [st EXCEPT !.lane[l] = Tail(@),
                      !.agg = @ \o SameColor_GetKins_HashAgg(l, Head(st.lane[l]))]
  /\ UNCHANGED <<args, mem>>
-----------------------------------------------------------------------------
(* The total of the weights as the gains see it: 1.0 / (1.0 / total) in    *)
(* doubles of 53 bits, cut to an integer.  With k such that                *)
(* 2^k <= total < 2^(k+1), the inner quotient is 2^(53+k) / total steps,   *)
(* rounded to a whole number of them, up if the remainder is more than     *)
(* half.  The outer one then comes out below the total if up, what was     *)
(* added, is large enough, and is cut to one less: for 93, 186, 210 or     *)
(* 221, say.  The bound on k keeps the products below 2^31.                *)
constant_i_scl ==
  LET total == st.total
      k  == CHOOSE i \in 0 .. 14 : 2 ^ i <= total /\ total < 2 ^ (i + 1)
      rest[i \in Nat] == IF i = 0 THEN 1 % total ELSE (2 * rest[i - 1]) % total
      up == total - rest[53 + k]
  IN  IF up < rest[53 + k] /\ total * up > 4 ^ k THEN total - 1 ELSE total

(* Mutant: the total of the vertex's own community keeps the vertex. *)
GainWithSelf(own, ki, self, kin) ==
  (kin.kin - (own.kin - self)) * constant_i_scl - (mem.tot[Now][kin.ck] - mem.tot[Now][own.ck]) * ki

(* The gain of a move to a community, times half the square of the total,  *)
(* if constant_i_scl is the total.                                         *)
Gain(own, ki, self, kin) ==
  LET diff_e == kin.kin - (own.kin - self)
      diff_a == mem.tot[Now][kin.ck] - (mem.tot[Now][own.ck] - ki)
  IN  diff_e * constant_i_scl - diff_a * ki

(* The first community of the greatest gain above 0, by its number.        *)
Best(own, ki, self, kins) ==
  FoldLeft(LAMBDA b, k : LET g == Gain(own, ki, self, k)
                         IN  IF g > b.gain \/ (g = b.gain /\ g > 0 /\ k.ck < b.ck)
                             THEN [ck |-> k.ck, gain |-> g] ELSE b,
           [ck |-> own.ck, gain |-> 0], Tail(kins)).ck

(* Of two vertices that are alone only one may move to the other.          *)
Target(vCid, best) ==
  IF mem.size[Now][best] = 1 /\ mem.size[Now][vCid] = 1 /\ best > vCid THEN vCid ELSE best

(* An entry of the tables of changes.                                      *)
Aggregated(table, c, w, cnt) ==
  LET u == c % Units
      hits == {i \in DOMAIN table[u] : table[u][i].key = c}
      new  == [key |-> c, agg |-> w, cnt |-> cnt]
  IN  IF hits = {} THEN [table EXCEPT ![u] = Append(@, new)]
      ELSE [table EXCEPT ![u][Min(hits)].agg = @ + w, ![u][Min(hits)].cnt = @ + cnt]

(* Mutant: a table with one free place is not full. *)
FullLate(table) == \E u \in DOMAIN table : Len(table[u]) > Batch - 1

(* isOneFull.                                                              *)
Full(table) == \E u \in DOMAIN table : Len(table[u]) > Batch - 2

(* Mutant: the number of vertices is that of the last change. *)
FlushedLast(memory, table) ==
  LET all == FlattenSeq([u \in 1 .. Units |-> table[u - 1]])
  IN  FoldLeft(LAMBDA m, e : [m EXCEPT !.totUp[e.key] = @ + e.agg, !.sizeUp[e.key] = e.cnt],
               memory, all)

(* AggBatch2Mem, for all tables.                                           *)
Flushed(memory, table) ==
  LET all == FlattenSeq([u \in 1 .. Units |-> table[u - 1]])
  IN  FoldLeft(LAMBDA m, e : [m EXCEPT !.totUp[e.key] = @ + e.agg, !.sizeUp[e.key] = @ + e.cnt],
               memory, all)

(* Mutant: the vertex itself is flagged. *)
PushedSelf(flag, v) == [flag EXCEPT ![v] = 1]

(* SameColor_GetFlag3 and 4: the neighbours in the copy of the graph.      *)
Pushed(flag, v) ==
  IF ~write_push_flag THEN flag
  ELSE [u \in Vertex |-> IF \E i \in ToSet(Edges(v)) : G.column[i] = u THEN 1 ELSE flag[u]]

(* SameColor_GetBest_Update_CID_step2 writes in batches.                   *)
CidCurr(v, c) == [mem EXCEPT !.cidCurr[v] = c]

(* SameColor_GetBest_Update_Gain_step_II1, _CID_step1 and                  *)
(* _TOT_Csize_hash3_new for one vertex.                                    *)
Move(head, rest) ==
  LET kins == SubSeq(rest, 1, head.num)
      ki == st.agg[2].ki
      target == Target(head.cid, Best(kins[1], ki, st.agg[2].self, kins))
      table  == Aggregated(Aggregated(st.table, target, ki, 1), head.cid, -ki, -1)
      stay   == [mem EXCEPT !.comm[head.v] = kins[1].kin]
      moved  == [CidCurr(head.v, target) EXCEPT !.comm = stay.comm, !.flag[1 - Read] = Pushed(@, head.v)]
      next   == [st EXCEPT !.agg = SubSeq(rest, head.num + 1, Len(rest))]
  IN  IF target = head.cid THEN mem' = stay /\ st' = next
      ELSE mem' = moved /\ st' = [next EXCEPT !.moves = @ + 1, !.table = table]

(* After a vertex without edges, which has no community to move to, CID_step1 *)
(* writes -1 again and again and reads no other token.                     *)
SameColor_GetBest_Update ==
  /\ st.agg # << >> /\ ~Full(st.table)
  /\ LET head == st.agg[1]
     IN  IF head.degree > 0 THEN Move(head, SubSeq(st.agg, 3, Len(st.agg)))
         ELSE mem' = CidCurr(head.v, -1) /\ UNCHANGED st
  /\ UNCHANGED args

AGG_BATCH2MEM ==
  /\ st.pc = "move" /\ Full(st.table)
  /\ mem' = Flushed(mem, st.table)
  /\ st' = [st EXCEPT !.table = [u \in DOMAIN @ |-> << >>]]
  /\ UNCHANGED args

(* updateSameColor, when all processes have come to the end of the colour. *)
Updated(memory) ==
  [memory EXCEPT !.cidPrev = burst(memory.cidCurr),
                 !.size[1 - Now] = [c \in Padded |-> memory.size[Now][c] + memory.sizeUp[c]],
                 !.tot[1 - Now]  = [c \in Padded |-> memory.tot[Now][c] + memory.totUp[c]]]

updateSameColor ==
  /\ st.pc = "move" /\ st.k = mem.ptr[st.c]
  /\ st.agg = << >> /\ \A l \in Lanes : st.lane[l] = << >>
  /\ mem' = Updated(Flushed(mem, st.table))
  /\ LET last == st.c = G.colors - 1
     IN  st' = [st EXCEPT !.loop = @ + 1, !.c = IF last THEN 0 ELSE @ + 1,
                          !.table = [u \in DOMAIN @ |-> << >>],
                          !.pc = IF last THEN "judge" ELSE "color"]
  /\ UNCHANGED args

(* Mutant: the totals of the other buffer. *)
Q_before == LET In   == MapThenSumSet(LAMBDA v : mem.comm[v], Vertex)
                Tot2 == MapThenSumSet(LAMBDA c : mem.tot[1 - Now][c] * mem.tot[1 - Now][c], Vertex)
            IN  In * st.total - Tot2

(* The modularity times the square of the total of the weights.            *)
Q_curr == LET In   == MapThenSumSet(LAMBDA v : mem.comm[v], Vertex)
              Tot2 == MapThenSumSet(LAMBDA c : mem.tot[Now][c] * mem.tot[Now][c], Vertex)
          IN  In * st.total - Tot2

(* The end of an iteration of MOVE.                                        *)
calcModularity ==
  /\ st.pc = "judge"
  /\ st' = [st EXCEPT !.modularity = st.Q, !.Q = Q_curr, !.itr = @ + 1, !.moves = 0,
                      !.old = mem.cidPrev,
                      !.pc = IF st.moves > 0 /\ 100 * (Q_curr - st.Q) > Epsilon * st.total * st.total
                             THEN "color" ELSE "done"]
  /\ UNCHANGED <<args, mem>>
-----------------------------------------------------------------------------
Init ==
  /\ \E g \in Graphs, lag \in Lags, f \in Old, q \in Starts :
       LET all == [v \in 0 .. T * loopNumGen(g.num) - 1 |-> 0]
       IN  /\ args = [graph |-> g, lag |-> lag, modularity |-> q]
           /\ mem = [cidPrev |-> all, cidCurr |-> all, size |-> [b \in 0 .. 1 |-> all],
                     tot |-> [b \in 0 .. 1 |-> all], sizeUp |-> all, totUp |-> all, comm |-> all,
                     flag |-> [b \in 0 .. 1 |-> [v \in 0 .. g.num - 1 |-> f]],
                     ptr |-> << >>, inx |-> [k \in 0 .. g.num - 1 |-> 0]]
           /\ st = [pc |-> "tot", adj1 |-> g.offset[0], adj2 |-> g.offset[1], cnt |-> 1, ki |-> 0,
                    total |-> 0, tots |-> << >>, i |-> 0, recent |-> << >>,
                    loop |-> 0, itr |-> 0, c |-> 0, k |-> 0, select |-> 0, moves |-> 0,
                    lane |-> [l \in 0 .. 4 |-> << >>], agg |-> << >>, table |-> << >>,
                    Q |-> 0, modularity |-> 0, old |-> all]

Done == st.pc = "done"

Next == \/ calculateTot \/ initComm \/ update_color_ptr0 \/ sumColors \/ update_color_ptr1
        \/ initSameColor \/ SameColor_GetKins_hash_dispatch4
        \/ \E l \in Lanes : SameColor_GetKins_hash_Collector(l)
        \/ SameColor_GetBest_Update \/ AGG_BATCH2MEM \/ updateSameColor \/ calcModularity

Spec == Init /\ [][Next]_vars /\ WF_vars(Next)
-----------------------------------------------------------------------------
Strength(v) == WeightOf([i \in 1 .. Degree(v) |-> [weight |-> G.weight[Edges(v)[i]]]])

Members(cid, c) == {v \in Vertex : cid[v] = c}

Total(cid, c) == MapThenSumSet(Strength, Members(cid, c))

Within(cid, v) == WeightOf(SelectSeq(Message(v).edges, LAMBDA e : cid[e.to] = cid[v]))

(* Weights within the communities against their totals: times the square   *)
(* of all weights, with factor the total, this is the modularity.          *)
Score(cid, factor) ==
  MapThenSumSet(LAMBDA v : Within(cid, v), Vertex) * factor
    - MapThenSumSet(LAMBDA c : Total(cid, c) * Total(cid, c), Vertex)

Modularity(cid) == Score(cid, st.total)

AllTakePart == G.ghost = {} /\ \A v \in Vertex : Degree(v) < MaxDegree

(* After every colour the sizes and totals in the buffer that is read next *)
(* are those of the communities, although they were changed by             *)
(* differences that met in the tables.                                     *)
CommunitiesAreCounted ==
  st.pc \in {"color", "judge", "done"} =>
    \A c \in Vertex : /\ mem.size[Now][c] = Cardinality(Members(mem.cidPrev, c))
                      /\ mem.tot[Now][c] = Total(mem.cidPrev, c)

(* The places of colorInx from the end of one colour to the end of the     *)
(* next hold the vertices of this colour, each once.                       *)
ColorsAreSorted ==
  st.pc = "color" =>
    \A c \in 0 .. G.colors - 1 :
      LET places == (IF c = 0 THEN 0 ELSE mem.ptr[c - 1]) .. mem.ptr[c] - 1
      IN  /\ {mem.inx[k] : k \in places} = {v \in Vertex : G.color[v] = c}
          /\ Cardinality(places) = Cardinality({v \in Vertex : G.color[v] = c})

(* Each move alone raises the modularity, and a vertex has no move that    *)
(* would raise it more, but to a vertex that is alone as well.  This is    *)
(* claimed of the modularity with the total that constant_i_scl gives; on  *)
(* a graph whose total comes out one less, the code may leave a move that  *)
(* would raise the modularity, or make one that lowers it.                 *)
MovesRaiseModularity ==
  st.pc = "move" => \A v \in {mem.inx[k] : k \in First .. st.k - 1} :
    LET With(c) == [mem.cidPrev EXCEPT ![v] = c]
        settled == v \notin {st.agg[i].v : i \in {j \in DOMAIN st.agg : "v" \in DOMAIN st.agg[j]}}
                   /\ \A l \in Lanes : \A i \in DOMAIN st.lane[l] : st.lane[l][i].v # v
        ScoreOf(cid) == Score(cid, constant_i_scl)
        now == ScoreOf(mem.cidPrev)
        got == ScoreOf(With(mem.cidCurr[v]))
        better == {c \in {mem.cidPrev[e.to] : e \in ToSet(Message(v).edges)} :
                     ScoreOf(With(c)) > got}
        swap(c) == c > mem.cidPrev[v] /\ Cardinality(Members(mem.cidPrev, c)) = 1
                     /\ Cardinality(Members(mem.cidPrev, mem.cidPrev[v])) = 1
    IN  settled /\ Chosen(v) /\ Passed(v) =>
          /\ mem.cidCurr[v] # mem.cidPrev[v] => got > now
          /\ better # {} => \E c \in better : swap(c)

(* The modularity is judged by the communities as the iteration leaves     *)
(* them, in the buffer that was written last; without moves, and with all  *)
(* vertices taking part, it is theirs exactly.                             *)
ModularityIsRight ==
  st.pc = "judge" =>
    /\ Q_curr = MapThenSumSet(LAMBDA v : mem.comm[v], Vertex) * st.total
                - MapThenSumSet(LAMBDA c : Total(mem.cidPrev, c) * Total(mem.cidPrev, c), Vertex)
    /\ st.moves = 0 /\ ~use_push_flag /\ AllTakePart => Q_curr = Modularity(mem.cidPrev)

(* The neighbours of all vertices that moved are flagged for the next      *)
(* iteration, whatever the arrays of flags held before.                    *)
NeighboursAreFlagged ==
  st.pc = "judge" /\ write_push_flag =>
    \A v \in Vertex : mem.cidPrev[v] # st.old[v] =>
      \A i \in ToSet(Edges(v)) : mem.flag[1 - Read][G.column[i]] = 1

(* No table of changes holds more communities than it has places for.      *)
TablesFit == st.pc = "move" => \A u \in DOMAIN st.table : Len(st.table[u]) <= Batch
=============================================================================
