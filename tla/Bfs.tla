-------------------------------- MODULE Bfs --------------------------------
(***************************************************************************)
(* Breadth-first search, acc_fpga/include/hw/bfs.hpp: bfs and bfsImpl.     *)
(* One turn of the loop takes a vertex from the queue and collects its     *)
(* neighbours not yet discovered (BFSS1Dataflow), then gives them time,    *)
(* level and parent and queues them (BFSS2Dataflow).                       *)
(*                                                                         *)
(* The queue, the columns and the discovery times are read through         *)
(* registers of one memory word, and queue and times are written past      *)
(* them: color512 is the array dtime itself, queue512 is queue32.  The     *)
(* functions of a stage only pass values on, so a stage is one action; the *)
(* two never overlap.                                                      *)
(***************************************************************************)
EXTENDS GraphMemory
LOCAL INSTANCE SequencesExt
LOCAL INSTANCE FiniteSetsExt

CONSTANTS Graphs,     \* graphs considered, in CSR format
          Sources,    \* the vertices a search may start from
          MaxDegree   \* MAXOUTDEGREE, places in toIDTable

VARIABLES
  args,   \* srcID, offsetCSR and indexCSR
  mem,    \* queue32, dtime (color512), ftime, pred and distance
  st      \* pc, queStatus, tableStatus with toIDTable, visitor, registers

vars == <<args, mem, st>>

G      == args.graph
Vertex == 0 .. G.num - 1
Unvisited == -1   \* (ap_uint<32>)-1
-----------------------------------------------------------------------------
(* Mutant: only the first write of a stage is checked against the register. *)
WrittenFirst(reg, written) ==
  [reg EXCEPT !.valid = @ /\ (written = << >> \/ written[1] \div T # reg.addr)]

(* A write to the word of a register makes the register invalid.           *)
Written(reg, written) ==
  [reg EXCEPT !.valid = @ /\ \A i \in DOMAIN written : written[i] \div T # reg.addr]

Next1(ptr) == IF ptr # G.num - 1 THEN ptr + 1 ELSE 0

loadQueue(s) ==
  LET reg == Through(s.queReg, mem.queue, s.que.rdPtr)
  IN  [s EXCEPT !.queReg = reg, !.table.root = reg.word[s.que.rdPtr],
                !.que.rdCnt = @ + 1, !.que.rdPtr = Next1(@)]

(* loadOffset finds both ends of the row, in one word or in two.           *)
loadOffset(fromID) == <<G.offset[fromID], G.offset[fromID + 1]>>

(* loadColumnSendAddr: the addresses of the columns of a vertex.           *)
ColumnAddrs(row) == [i \in 1 .. row[2] - row[1] |-> row[1] + i - 1]

loadColumn(s, raddr) == [s EXCEPT !.colReg = Through(s.colReg, G.column, raddr)]

(* loadRes: the discovery time of a neighbour, through the register.       *)
loadRes(s, toID) == [s EXCEPT !.resReg = Through(s.resReg, mem.dtime, toID)]

(* Mutant: every neighbour is taken for new. *)
StoreAll(s, toID) == [s EXCEPT !.table.toIDs = Append(@, toID)]

storeUpdate(s, toID) ==
  IF s.resReg.word[toID] = Unvisited THEN [s EXCEPT !.table.toIDs = Append(@, toID)] ELSE s

Neighbour(s, raddr) ==
  LET c == loadColumn(s, raddr)
      toID == c.colReg.word[raddr]
  IN  storeUpdate(loadRes(c, toID), toID)

BFSS1Dataflow ==
  /\ st.pc = "s1" /\ st.que.rdCnt # st.que.wrCnt
  /\ LET s == loadQueue([st EXCEPT !.table.toIDs = << >>])
     IN  st' = [FoldLeft(Neighbour, s, ColumnAddrs(loadOffset(s.table.root))) EXCEPT !.pc = "s2"]
  /\ UNCHANGED <<args, mem>>
-----------------------------------------------------------------------------
(* Mutant: the first vertex of a level is not counted. *)
LevelCountFrom == st.table.len

(* updateDispatch: the level is over when its last vertex is served.       *)
LevelCount == st.table.len - 1

updateDispatch(s) ==
  LET n == Len(s.table.toIDs)
      t == [s EXCEPT !.table.over = @ \/ n > MaxDegree]
  IN  IF s.table.cur < LevelCount
      THEN [t EXCEPT !.table.cur = @ + 1, !.table.nxt = @ + n]
      ELSE [t EXCEPT !.table.cur = 0, !.table.len = s.table.nxt + n, !.table.nxt = 0,
                     !.level = @ + 1]

(* What is past the end of the table is replaced by vertex 0.              *)
Dispatched == [i \in DOMAIN st.table.toIDs |-> IF i <= MaxDegree THEN st.table.toIDs[i] ELSE 0]

(* Mutant: places are counted from 0. *)
LastOfBefore(new, x) == Max({i \in DOMAIN new : new[i] = x}) - 1

(* The last place of x among the vertices to write. *)
LastOf(new, x) == Max({i \in DOMAIN new : new[i] = x})

updateRes(new, root) ==
  LET Put(f, value(_)) == [v \in Vertex |-> IF v \in ToSet(new) THEN value(v) ELSE f[v]]
  IN  [mem EXCEPT !.dtime = Put(@, LAMBDA v : st.time + LastOf(new, v) - 1),
                  !.distance = Put(@, LAMBDA v : st.level),
                  !.pred = Put(@, LAMBDA v : root),
                  !.ftime[root] = st.time + Len(new)]

(* The place of the queue that the i-th new vertex is written to.          *)
QuePlace(i) == (st.que.wrPtr + i - 1) % G.num

upadateQue(s, new) ==
  LET n == Len(new)
  IN  [s EXCEPT !.queReg = Written(@, [i \in 1 .. n |-> QuePlace(i)]),
                !.que.wrCnt = @ + n, !.que.wrPtr = QuePlace(n + 1),
                !.que.over = @ \/ s.que.wrCnt + n - s.que.rdCnt > G.num]

BFSS2Dataflow ==
  /\ st.pc = "s2"
  /\ LET new == Dispatched
     IN  /\ st' = [upadateQue(updateDispatch(st), new) EXCEPT
                     !.pc = "s1", !.time = @ + Len(new) + 1, !.resReg = Written(@, new)]
         /\ mem' = [updateRes(new, st.table.root) EXCEPT !.queue =
                      FoldLeftDomain(LAMBDA q, i : [q EXCEPT ![QuePlace(i)] = new[i]], @, new)]
  /\ UNCHANGED args

Finish ==
  /\ st.pc = "s1" /\ st.que.rdCnt = st.que.wrCnt
  /\ st' = [st EXCEPT !.pc = "done"]
  /\ UNCHANGED <<args, mem>>
-----------------------------------------------------------------------------
(* initBuffer clears only dtime; then the start of bfsImpl.                *)
Init ==
  /\ \E g \in Graphs, s \in Sources : s < g.num /\ args = [graph |-> g, source |-> s]
  /\ LET Blank == [v \in Vertex |-> Unvisited]
     IN  mem = [queue |-> [Blank EXCEPT ![0] = args.source],
                dtime |-> [Blank EXCEPT ![args.source] = 0],
                distance |-> [Blank EXCEPT ![args.source] = 0],
                pred |-> [Blank EXCEPT ![args.source] = args.source],
                ftime |-> Blank]
  /\ st = [pc |-> "s1", level |-> 1, time |-> 1,
           que |-> [rdCnt |-> 0, wrCnt |-> 1, rdPtr |-> 0, wrPtr |-> 1, over |-> FALSE],
           table |-> [root |-> 0, toIDs |-> << >>, cur |-> 0, len |-> 1, nxt |-> 0, over |-> FALSE],
           queReg |-> NoWord, colReg |-> NoWord, resReg |-> NoWord]

Done == st.pc = "done"

Next == BFSS1Dataflow \/ BFSS2Dataflow \/ Finish

Spec == Init /\ [][Next]_vars /\ WF_vars(Next)
-----------------------------------------------------------------------------
(* The vertices at most n edges from the source. *)
Within[n \in Nat] ==
  IF n = 0 THEN {args.source}
  ELSE LET near == Within[n - 1] IN near \cup UNION {ToSet(Row(G, u)) : u \in near}

(* At the end the vertices discovered are those that can be reached, each  *)
(* at its distance from the source, with a parent one level before: also   *)
(* when the count that separates levels spans vertices without neighbours. *)
(* Not claimed once a vertex had more new neighbours than the table has    *)
(* places, of which the host is not told.                                  *)
LevelsAreDistances ==
  Done /\ ~st.table.over => \A v \in Vertex :
    /\ (mem.dtime[v] # Unvisited) <=> v \in Within[G.num]
    /\ mem.dtime[v] # Unvisited =>
         /\ \A n \in 0 .. G.num : (mem.distance[v] <= n) <=> v \in Within[n]
         /\ v # args.source => /\ Arc(G, mem.pred[v], v)
                               /\ mem.distance[v] = mem.distance[mem.pred[v]] + 1

(* What a register holds is what memory holds, wherever the search may     *)
(* still read it: a word written behind its back is never used.            *)
RegistersAreCurrent ==
  st.pc = "s1" =>
    /\ st.resReg.valid => \A k \in DOMAIN st.resReg.word : st.resReg.word[k] = mem.dtime[k]
    /\ st.queReg.valid => \A k \in DOMAIN st.queReg.word :
         (\E i \in 0 .. st.que.wrCnt - st.que.rdCnt - 1 : k = (st.que.rdPtr + i) % G.num)
         => st.queReg.word[k] = mem.queue[k]

(* Without parallel edges, and when the table is large enough, no vertex is *)
(* queued twice, so that the circular queue of numVertex places never      *)
(* overwrites one that waits.                                              *)
QueuedOnce ==
  (\A v \in Vertex : IsInjective(Row(G, v))) /\ ~st.table.over => ~st.que.over /\ st.que.wrCnt <= G.num

(* Discovery and finish of all vertices are different times, and a vertex  *)
(* finishes after the discovery of all that it discovered, when the table  *)
(* is large enough.                                                        *)
TimesAreConsistent ==
  ~st.table.over =>
  LET seen  == {v \in Vertex : mem.dtime[v] # Unvisited}
      ended == {v \in Vertex : mem.ftime[v] # Unvisited}
  IN  /\ \A u \in seen, v \in ended : mem.dtime[u] # mem.ftime[v]
      /\ \A u \in seen, v \in seen : mem.dtime[u] = mem.dtime[v] => u = v
      /\ \A v \in ended, u \in seen :
           mem.pred[u] = v => mem.dtime[v] <= mem.dtime[u] /\ mem.dtime[u] < mem.ftime[v]
=============================================================================
