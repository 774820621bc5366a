------------------------------ MODULE UramCache ------------------------------
(***************************************************************************)
(* acc_impl/src/uram_cache.hpp: an array in URAM rows of several elements, *)
(* used from a pipelined loop whose dependences on the rows are ignored.   *)
(* A row that is written is there lag turns later; until then the last     *)
(* writes, NCache of them, are read from registers.                        *)
(***************************************************************************)
EXTENDS Integers, Sequences
LOCAL INSTANCE SequencesExt
LOCAL INSTANCE FiniteSetsExt

CONSTANTS NData,     \* elements
          NCache,    \* registers
          PerLines,  \* elements in a row, _elem_per_line
          Lags,      \* turns until a write is in the row
          Values,
          MaxTurns   \* bound: turns of the loop

VARIABLES
  args,   \* elements in a row, lag
  mem,    \* blocks: the rows
  st      \* late, the writes under way; _index and _state; for the
          \* properties array, the last value written to each element, and
          \* lost, whether two elements of a row were written too closely

vars == <<args, mem, st>>

Element == 0 .. NData - 1
Row(i)  == i \div args.perLine
Dec(i)  == i % args.perLine
Rows    == {Row(i) : i \in Element}

NoWrite == [row |-> -1]

Landed(rows, new) == IF new = NoWrite THEN rows ELSE [rows EXCEPT ![new.row] = new.val]

(* memSet: all elements get value d; the registers say so of element 0.    *)
memSet(d) ==
  /\ st.pc = "set"
  /\ mem' = [row \in Rows |-> [k \in 0 .. args.perLine - 1 |-> d]]
  /\ st' = [st EXCEPT !.pc = "loop", !.array = [i \in Element |-> d],
                      !.regs = [k \in 1 .. NCache |-> [index |-> 0, state |-> d]]]
  /\ UNCHANGED args

Hits(i) == {k \in DOMAIN st.regs : st.regs[k].index = i}

(* Mutant: the oldest register with the element is read. *)
OldestHit(i) == Max(Hits(i))

NewestHit(i) == Min(Hits(i))

read(i) == IF Hits(i) # {} THEN st.regs[NewestHit(i)].state ELSE mem[Row(i)][Dec(i)]

(* write: the row is read as it is now, and written with one element new.  *)
RowWith(i, d) == [row |-> Row(i), index |-> i, val |-> [mem[Row(i)] EXCEPT ![Dec(i)] = d]]

(* Mutant: a register that has the element takes the value. *)
Replaced(i, d) ==
  IF Hits(i) # {} THEN [st.regs EXCEPT ![Max(Hits(i))].state = d]
  ELSE SubSeq(<<[index |-> i, state |-> d]>> \o st.regs, 1, NCache)

Shifted(i, d) == SubSeq(<<[index |-> i, state |-> d]>> \o st.regs, 1, NCache)

(* Another element of the row is on its way: its value is not in the row   *)
(* that this write was made from.                                          *)
TooClose(i) ==
  \E k \in DOMAIN st.late :
    st.late[k] # NoWrite /\ st.late[k].row = Row(i) /\ st.late[k].index # i

write(i, d) ==
  LET late == Append(st.late, RowWith(i, d))
  IN  /\ st.pc = "loop" /\ st.turn < MaxTurns
      /\ mem' = Landed(mem, Head(late))
      /\ st' = [st EXCEPT !.late = Tail(late), !.turn = @ + 1, !.regs = Shifted(i, d),
                          !.array[i] = d, !.lost = @ \/ TooClose(i)]
      /\ UNCHANGED args

(* The loop has ended, all writes are done.                                *)
End ==
  /\ st.pc = "loop" /\ st.turn = MaxTurns
  /\ mem' = FoldLeft(Landed, mem, st.late)
  /\ st' = [st EXCEPT !.pc = "end", !.late = << >>]
  /\ UNCHANGED args

(* initialize: the registers have no element; the rows have anything.      *)
Init ==
  /\ \E perLine \in PerLines, lag \in Lags : args = [perLine |-> perLine, lag |-> lag]
  /\ \E d \in Values : mem = [row \in Rows |-> [k \in 0 .. args.perLine - 1 |-> d]]
  /\ st = [pc |-> "set", turn |-> 0, late |-> [k \in 1 .. args.lag |-> NoWrite], lost |-> FALSE,
           regs |-> [k \in 1 .. NCache |-> [index |-> -1, state |-> 0]], array |-> << >>]

Done == st.pc = "end"

Next == \/ \E d \in Values : memSet(d)
        \/ \E i \in Element, d \in Values : write(i, d)
        \/ End
-----------------------------------------------------------------------------
(* A read gives the last value written, from a register or from the rows,  *)
(* whatever is still on its way; at the end the rows have it all - unless  *)
(* two elements of a row were written within the time a write takes, when  *)
(* one of them is lost.                                                    *)
ReadsAreCurrent ==
  st.pc # "set" /\ ~st.lost => \A i \in Element : read(i) = st.array[i]

RowsAreComplete ==
  st.pc = "end" /\ ~st.lost => \A i \in Element : mem[Row(i)][Dec(i)] = st.array[i]
=============================================================================
