----------------------------- MODULE GraphMemory ----------------------------
(***************************************************************************)
(* How the kernels of acc_fpga/include/hw see a graph: arrays of device    *)
(* memory in the CSR format, which they read in words of 512 bits and keep *)
(* the last word of in a register.                                         *)
(***************************************************************************)
EXTENDS Integers, Sequences
LOCAL INSTANCE SequencesExt

CONSTANT T   \* values in a memory word, 16 of 32 bits

(* The part of array f from place lo up to place hi - 1.                   *)
Slice(f, lo, hi) == [i \in 1 .. hi - lo |-> f[lo + i - 1]]

(* An array of device memory with the values of a sequence.                *)
Array(s) == [i \in 0 .. Len(s) - 1 |-> s[i + 1]]

(* The CSR format of the graph with n vertices and the neighbours rows[v]. *)
Csr(n, rows) ==
  [num    |-> n,
   offset |-> Array(FoldLeft(LAMBDA o, i : Append(o, Last(o) + Len(rows[i - 1])),
                             <<0>>, [i \in 1 .. n |-> i])),
   column |-> Array(FlattenSeq([i \in 1 .. n |-> rows[i - 1]]))]

Row(g, v) == Slice(g.column, g.offset[v], g.offset[v + 1])

Arc(g, u, v) == v \in ToSet(Row(g, u))

(* The neighbours of a vertex in ascending order, no loops: a simple graph. *)
SimpleRows(n, arcs) == [v \in 0 .. n - 1 |->
                          SetToSortSeq({w \in 0 .. n - 1 : <<v, w>> \in arcs}, <)]
-----------------------------------------------------------------------------
(* A register holds the word of memory that it was last filled with.       *)
NoWord == [valid |-> FALSE, addr |-> 0, word |-> << >>]

(* A word of n values.                                                     *)
WordOf(n, memory, i) == [k \in {k \in DOMAIN memory : k \div n = i \div n} |-> memory[k]]

Word(memory, i) == WordOf(T, memory, i)

(* The register after a read of memory[i] through it.                      *)
ThroughOf(n, reg, memory, i) ==
  IF reg.valid /\ reg.addr = i \div n THEN reg
  ELSE [valid |-> TRUE, addr |-> i \div n, word |-> WordOf(n, memory, i)]

Through(reg, memory, i) == ThroughOf(T, reg, memory, i)
=============================================================================
