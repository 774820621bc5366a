-------------------------------- MODULE Merge -------------------------------
(***************************************************************************)
(* From a graph to the graph of its communities, acc_fpga/include/hw/      *)
(* merge.hpp: Jump sorts the vertices by community (ComputeCount, Adder,   *)
(* ComputeJump), then DoMergeHLS sums up the weights of the edges of a     *)
(* community per neighbouring community.  A sum is kept in a small table   *)
(* that compares all keys; when that is full, in the first hash table      *)
(* whose slot for the key is free or the key's own; else in a list that is *)
(* scanned.                                                                *)
(*                                                                         *)
(* The loops are pipelined with their dependences ignored: what one turn   *)
(* writes to memory is there lag turns later, and registers bridge the gap.*)
(* Three processes read and write FIFOs: GetEW with the small table, the   *)
(* hash tables, and the collector.                                         *)
(***************************************************************************)
EXTENDS GraphMemory
LOCAL INSTANCE SequencesExt
LOCAL INSTANCE FiniteSetsExt
LOCAL INSTANCE Functions

CONSTANTS Graphs,      \* graphs with weight and c, the community of a vertex
          Lags,        \* turns until a write is in memory
          Shift,       \* places in ShiftUpdate, 96
          Registers,   \* registers of AggRAM and HashAgg, 3
          NumSmall,    \* NUM_SMALL, places in the small table
          Sizes,       \* 2^HASH_WIDTH for each hash table
          Depth        \* places in a FIFO, 1024

VARIABLES
  args,   \* graph and lag
  mem,    \* index_c, count_c, jump; offset_out, edges_out, weights_out
  st      \* pc and i; count, the memory of count_c_single; get, small,
          \* tables, scan; over, out1, out2, what is left to emit, collect

vars == <<args, mem, st>>

G      == args.graph
NumV   == G.num
Vertex == 0 .. NumV - 1
NumC   == 1 + Max({G.c[v] : v \in Vertex})
Com    == 0 .. NumC - 1
-----------------------------------------------------------------------------
(* Memory whose writes come late, with registers of the newest ones.       *)
None == [addr |-> -1]

Ram(memory) == [mem |-> memory, late |-> [k \in 1 .. args.lag |-> None], regs |-> << >>]

Hits(ram, a) == {k \in DOMAIN ram.regs : ram.regs[k].addr = a}

Read(ram, a) == IF Hits(ram, a) # {} THEN ram.regs[Min(Hits(ram, a))].val ELSE ram.mem[a]

Landed(memory, write) ==
  IF write = None THEN memory ELSE [memory EXCEPT ![write.addr] = write.val]

(* A turn of the loop that writes, or None.                                *)
Turn(ram, write) ==
  LET late == Append(ram.late, write)
  IN  [ram EXCEPT !.mem = Landed(@, Head(late)), !.late = Tail(late)]

Write(a, v) == [addr |-> a, val |-> v]

(* Mutant: the newest write is not shifted into the second register. *)
KeptOne(ram, write, n) == [Turn(ram, write) EXCEPT !.regs = <<write>>]

(* The same with the write kept in the first of n registers.               *)
Kept(ram, write, n) ==
  LET regs == <<write>> \o ram.regs
  IN  [Turn(ram, write) EXCEPT !.regs = SubSeq(regs, 1, Min({n, Len(regs)}))]

(* After the loop: all writes are there, the registers are reset.          *)
Settled(ram) == Ram(FoldLeft(Landed, ram.mem, ram.late))

(* Memory that a read would find older than its last write.                *)
Stale(ram, a) == Hits(ram, a) = {} /\ \E k \in DOMAIN ram.late : ram.late[k].addr = a
-----------------------------------------------------------------------------
(* Mutant: too few registers for the turns a write takes. *)
CheckHitFirst(ram, a) == IF Hits(ram, a) \cap {1} # {} THEN ram.regs[1].val ELSE ram.mem[a]

(* CheckHit of ShiftUpdate, or the value in memory.                        *)
CheckHit(ram, a) == Read(ram, a)

(* A turn of UpdateCount: a vertex's place among those of its community.   *)
UpdateCount ==
  /\ st.pc = "count" /\ st.i < NumV
  /\ LET addr == G.c[st.i]
         val == CheckHit(st.count, addr)
     IN  /\ mem' = [mem EXCEPT !.index[st.i] = val]
         /\ st' = [st EXCEPT !.i = @ + 1, !.count = Kept(@, Write(addr, val + 1), Shift)]
  /\ UNCHANGED args

Start(k) == IF k # 0 THEN mem.count[k - 1] ELSE 0

(* Adder and ComputeJump.                                                  *)
Adder ==
  /\ st.pc = "count" /\ st.i = NumV
  /\ LET single == Settled(st.count).mem
     IN  mem' = [mem EXCEPT !.count = [k \in Com |-> FoldFunctionOnSet(+, 0, single, 0 .. k)]]
  /\ st' = [st EXCEPT !.pc = "jump"]
  /\ UNCHANGED args

ComputeJump ==
  /\ st.pc = "jump"
  /\ mem' = [mem EXCEPT !.jump =
       FoldLeft(LAMBDA jump, i : [jump EXCEPT ![mem.index[i - 1] + Start(G.c[i - 1])] = i - 1],
                @, [i \in 1 .. NumV |-> i])]
  /\ st' = [st EXCEPT !.pc = "merge"]
  /\ UNCHANGED args
-----------------------------------------------------------------------------
Token(e, w) == [key |-> e, weight |-> w, end |-> FALSE]
EndToken(n) == [key |-> n, weight |-> -1, end |-> TRUE]

(* The small table: the keys it has, in the order they came, and their sums.*)
Key(small, e) == CHOOSE i \in DOMAIN small.keys : small.keys[i] = e

Overflow(small, e) == e \notin ToSet(small.keys) /\ Len(small.keys) = NumSmall

HashAggregateSmall(small, e, w) ==
  LET keys == IF e \in ToSet(small.keys) THEN small.keys ELSE Append(small.keys, e)
      next == [small EXCEPT !.keys = keys]
      addr == Key(next, e)
  IN  IF Overflow(small, e) THEN small   \* no turn of the memory
      ELSE [next EXCEPT !.agg = Kept(@, Write(addr, Read(@, addr) + w), Registers)]

NoSums == [keys |-> << >>, agg |-> Ram([i \in 1 .. NumSmall |-> 0])]

(* GETV writes endv with the last vertex of a community.                   *)
IsLastV(pos) == \E k \in Com : pos = mem.count[k] - 1

V == mem.jump[st.get.pos]
Degree == G.offset[V + 1] - G.offset[V]

(* Mutant: no edge to the community itself is added. *)
HasSelfAlways(e) == TRUE

HasSelf(e) == e = st.get.com

(* The next edge that GetEW sends: of the next vertex of the community, a  *)
(* vertex without edges counting as one, or, after the last of them, one   *)
(* to the community itself when there was none.                            *)
Edge == IF st.get.part = "self" \/ Degree = 0
        THEN [e |-> st.get.com, w |-> 0]
        ELSE [e |-> G.c[G.column[G.offset[V] + st.get.j]], w |-> G.weight[G.offset[V] + st.get.j]]

AfterEdge ==
  LET self == st.get.self \/ Degree = 0 \/ HasSelf(Edge.e)
  IN  IF st.get.part = "self" THEN [st.get EXCEPT !.self = TRUE]
      ELSE IF Degree > 0 /\ st.get.j < Degree - 1 THEN [st.get EXCEPT !.j = @ + 1, !.self = self]
      ELSE [st.get EXCEPT !.j = 0, !.pos = @ + 1, !.self = self,
                          !.part = IF IsLastV(st.get.pos) THEN "self" ELSE @]

GetEW ==
  /\ st.pc = "merge" /\ st.get.com < NumC /\ st.emit = << >>
  /\ IF st.get.part = "edges" THEN st.get.pos < NumV ELSE ~st.get.self
  /\ Overflow(st.small, Edge.e) => Len(st.over) < Depth
  /\ st' = [st EXCEPT !.get = AfterEdge,
                      !.small = HashAggregateSmall(@, Edge.e, Edge.w),
                      !.over = IF Overflow(st.small, Edge.e) THEN Append(@, Token(Edge.e, Edge.w)) ELSE @]
  /\ UNCHANGED <<args, mem>>

(* Mutant: the registers still hold the sums of the community before. *)
ResetNever(small) == [NoSums EXCEPT !.agg.regs = small.agg.regs]

(* Reset and COLLECT_SMALL: the sums are read out and cleared.             *)
Reset(small) == NoSums

Collected(small) ==
  [i \in DOMAIN small.keys |-> Token(small.keys[i], Settled(small.agg).mem[i])]

EndOfCommunity ==
  /\ st.pc = "merge" /\ st.get.com < NumC /\ st.emit = << >>
  /\ st.get.part = "self" /\ st.get.self
  /\ Len(st.over) < Depth
  /\ st' = [st EXCEPT !.get = [@ EXCEPT !.com = @ + 1, !.part = "edges", !.self = FALSE],
                      !.over = Append(@, EndToken(-1)),
                      !.emit = Append(Collected(st.small), EndToken(Len(st.small.keys))),
                      !.small = Reset(@)]
  /\ UNCHANGED <<args, mem>>

EmitSmall ==
  /\ st.emit # << >> /\ Len(st.out1) < Depth
  /\ st' = [st EXCEPT !.emit = Tail(@), !.out1 = Append(@, Head(st.emit))]
  /\ UNCHANGED <<args, mem>>
-----------------------------------------------------------------------------
(* A hash table: per slot a key and the place of its sum (valAdd), per     *)
(* place a key and a sum (hash_we).                                        *)
Free == [key |-> -1, place |-> -1]

Slot(t, e) == e % Sizes[t]

EmptyTable(t) == [slots |-> Ram([h \in 0 .. Sizes[t] - 1 |-> Free]), cnt |-> 0,
                  key |-> [p \in 0 .. Sizes[t] - 1 |-> -1], we |-> Ram([p \in 0 .. Sizes[t] - 1 |-> 0])]

(* GetAddr: the tables that can take key e.                                *)
Takes(t, e) == Read(st.tables[t].slots, Slot(t, e)).key \in {Free.key, e}

Taker(e) == LET able == {t \in DOMAIN Sizes : Takes(t, e)}
            IN  IF able = {} THEN Len(Sizes) + 1 ELSE Min(able)

(* GetAddr and TryToSet in the table that takes the key: the first weight  *)
(* is written to memory only, a sum to a register as well.                 *)
Added(table, t, e, w) ==
  LET h == Slot(t, e)
      slot == Read(table.slots, h)
      new == [key |-> e, place |-> table.cnt]
      sum == Read(table.we, slot.place) + w
  IN  IF slot = Free
      THEN [table EXCEPT !.slots = Kept(@, Write(h, new), Registers), !.cnt = @ + 1,
                         !.key[table.cnt] = e, !.we = Turn(@, Write(table.cnt, w))]
      ELSE [table EXCEPT !.slots = Turn(@, None), !.we = Kept(@, Write(slot.place, sum), Registers)]

(* A token that is passed on takes a turn of the table's loops.            *)
Passed(table) == [table EXCEPT !.slots = Turn(@, None), !.we = Turn(@, None)]

(* AggWeight of ScanAgg.                                                   *)
AggWeight(scan, e, w) ==
  IF \E i \in DOMAIN scan : scan[i].key = e
  THEN [i \in DOMAIN scan |-> IF scan[i].key = e THEN [scan[i] EXCEPT !.weight = @ + w] ELSE scan[i]]
  ELSE Append(scan, Token(e, w))

HashAggregateBig ==
  /\ st.over # << >> /\ ~Head(st.over).end
  /\ LET e == Head(st.over).key
         w == Head(st.over).weight
         taker == Taker(e)
         slot == Read(st.tables[taker].slots, Slot(taker, e))
     IN  st' = [st EXCEPT
           !.over = Tail(@),
           !.tables = [t \in DOMAIN @ |-> IF t < taker THEN Passed(@[t])
                                          ELSE IF t = taker THEN Added(@[t], t, e, w) ELSE @[t]],
           !.scan = IF taker > Len(Sizes) THEN AggWeight(@, e, w) ELSE @,
           !.stale = @ \/ /\ taker <= Len(Sizes) /\ slot # Free
                          /\ Stale(st.tables[taker].we, slot.place)]
  /\ UNCHANGED <<args, mem>>

(* Mutant: the slots of the keys that are put out stay taken. *)
ClearedNever(table, t) == [EmptyTable(t) EXCEPT !.slots = Settled(table.slots)]

(* Output frees the slot of every key; slot 0 is freed again before use.   *)
Cleared(table, t) ==
  [EmptyTable(t) EXCEPT !.we = Settled(table.we), !.key = table.key,
     !.slots = [Settled(table.slots) EXCEPT !.mem =
                  [h \in DOMAIN @ |-> IF h = 0 \/ \E p \in 0 .. table.cnt - 1 : Slot(t, table.key[p]) = h
                                      THEN Free ELSE @[h]]]]

Output(table) == [p \in 1 .. table.cnt |-> Token(table.key[p - 1], Settled(table.we).mem[p - 1])]

EndOfBig ==
  /\ st.over # << >> /\ Head(st.over).end /\ st.emit2 = << >>
  /\ LET all == FlattenSeq([t \in DOMAIN Sizes |-> Output(st.tables[t])]) \o st.scan
     IN  st' = [st EXCEPT !.over = Tail(@), !.scan = << >>,
                          !.tables = [t \in DOMAIN @ |-> Cleared(@[t], t)],
                          !.emit2 = Append(all, EndToken(Len(all)))]
  /\ UNCHANGED <<args, mem>>

EmitBig ==
  /\ st.emit2 # << >> /\ Len(st.out2) < Depth
  /\ st' = [st EXCEPT !.emit2 = Tail(@), !.out2 = Append(@, Head(st.emit2))]
  /\ UNCHANGED <<args, mem>>
-----------------------------------------------------------------------------
(* HashAggregateCollect, with SetV and SetEW: what the small table had,    *)
(* then what the others had.                                               *)
Take(stream) == [st EXCEPT ![stream] = Tail(@)]

CollectEdge(stream) ==
  /\ st[stream] # << >> /\ ~Head(st[stream]).end
  /\ stream = IF st.collect.big THEN "out2" ELSE "out1"
  /\ mem' = [mem EXCEPT !.edges = Append(@, Head(st[stream]).key),
                        !.weights = Append(@, Head(st[stream]).weight)]
  /\ st' = Take(stream)
  /\ UNCHANGED args

CollectSmall ==
  /\ ~st.collect.big /\ st.out1 # << >> /\ Head(st.out1).end
  /\ st' = [Take("out1") EXCEPT !.collect.big = TRUE, !.collect.num = Head(st.out1).key]
  /\ UNCHANGED <<args, mem>>

CollectBig ==
  /\ st.collect.big /\ st.out2 # << >> /\ Head(st.out2).end
  /\ LET k == st.collect.com
         v == st.collect.num + Head(st.out2).key
     IN  mem' = [mem EXCEPT !.offset[k + 1] = mem.offset[k] + v]
  /\ st' = [Take("out2") EXCEPT !.collect = [com |-> @.com + 1, big |-> FALSE, num |-> 0]]
  /\ UNCHANGED args

Init ==
  /\ \E g \in Graphs, lag \in Lags : args = [graph |-> g, lag |-> lag]
  /\ mem = [index |-> [v \in Vertex |-> 0], count |-> [k \in Com |-> 0], jump |-> [v \in Vertex |-> 0],
            offset |-> [k \in 0 .. NumC |-> 0], edges |-> << >>, weights |-> << >>]
  /\ st = [pc |-> "count", i |-> 0, count |-> Ram([k \in Com |-> 0]),
           get |-> [com |-> 0, pos |-> 0, j |-> 0, self |-> FALSE, part |-> "edges"],
           small |-> NoSums, over |-> << >>, emit |-> << >>, out1 |-> << >>,
           tables |-> [t \in DOMAIN Sizes |-> EmptyTable(t)], scan |-> << >>,
           emit2 |-> << >>, out2 |-> << >>, stale |-> FALSE,
           collect |-> [com |-> 0, big |-> FALSE, num |-> 0]]

Done == st.pc = "merge" /\ st.collect.com = NumC

Next == \/ UpdateCount \/ Adder \/ ComputeJump
        \/ GetEW \/ EndOfCommunity \/ EmitSmall
        \/ HashAggregateBig \/ EndOfBig \/ EmitBig
        \/ CollectEdge("out1") \/ CollectEdge("out2") \/ CollectSmall \/ CollectBig

Spec == Init /\ [][Next]_vars /\ WF_vars(Next)
-----------------------------------------------------------------------------
(* jump lists every vertex once, those of a community side by side.        *)
VerticesAreGrouped ==
  st.pc = "merge" =>
    \A k \in Com : {mem.jump[p] : p \in Start(k) .. mem.count[k] - 1} = {v \in Vertex : G.c[v] = k}

(* At the end there is one edge from a community to each one that a vertex *)
(* of it has an edge to, and to itself, with the sum of the weights -      *)
(* unless a second weight followed the first so closely that it was added  *)
(* to what was in memory before (TryToSet).                                *)
WeightBetween(k, l) ==
  LET from == {<<v, i>> \in Vertex \X DOMAIN G.column :
                 /\ G.c[v] = k /\ i \in G.offset[v] .. G.offset[v + 1] - 1
                 /\ G.c[G.column[i]] = l}
  IN  MapThenSumSet(LAMBDA x : G.weight[x[2]], from)

MergedIsQuotient ==
  Done /\ ~st.stale =>
    \A k \in Com :
      LET row == mem.offset[k] + 1 .. mem.offset[k + 1]
          next == {G.c[w] : w \in UNION {ToSet(Row(G, v)) : v \in {u \in Vertex : G.c[u] = k}}}
      IN  /\ {mem.edges[i] : i \in row} = next \cup {k}
          /\ Cardinality(row) = Cardinality(next \cup {k})
          /\ \A i \in row : mem.weights[i] = WeightBetween(k, mem.edges[i])

(* While a community is summed up a key has one sum only, in one table,    *)
(* and a table that has put its sums out has no slot taken.                *)
KeysAreHeldOnce ==
  LET keys(t) == {st.tables[t].key[p] : p \in 0 .. st.tables[t].cnt - 1}
      scanned == {st.scan[i].key : i \in DOMAIN st.scan}
  IN  /\ \A t, u \in DOMAIN Sizes : t # u => keys(t) \cap keys(u) = {}
      /\ \A t \in DOMAIN Sizes :
           /\ keys(t) \cap scanned = {}
           /\ Cardinality(keys(t)) = st.tables[t].cnt
           /\ st.tables[t].cnt = Cardinality({h \in 0 .. Sizes[t] - 1 : Settled(st.tables[t].slots).mem[h] # Free})

(* The registers hold every write to a counter, a sum of the small table   *)
(* or a slot that memory does not have yet.                                *)
RegistersAreCurrent ==
  LET current(ram) == \A k \in DOMAIN ram.late : ram.late[k] # None =>
                        Read(ram, ram.late[k].addr) = Settled(ram).mem[ram.late[k].addr]
  IN  /\ current(st.count) /\ current(st.small.agg)
      /\ \A t \in DOMAIN Sizes : current(st.tables[t].slots)
=============================================================================
