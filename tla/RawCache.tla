------------------------------ MODULE RawCache ------------------------------
(***************************************************************************)
(* The forwarding registers of acc_impl/src/dach/raw_cache.h and the line  *)
(* memory they stand in front of.                                          *)
(*                                                                         *)
(* CORE_LOOP of run_core (cache.h) starts an iteration every cycle and     *)
(* declares the dependence of a read of m_cache_mem on an earlier write to *)
(* be at least RawDistance iterations long.  A read may therefore still    *)
(* miss the writes of the RawDistance - 1 iterations before it.  The       *)
(* registers hold the last DISTANCE lines written to make up for that.     *)
(***************************************************************************)
EXTENDS Integers

CONSTANTS Slot,         \* lines of m_cache_mem
          Line,         \* values of a line
          Distance,     \* DISTANCE, the number of registers
          RawDistance,  \* distance= of the dependence pragma
          None          \* no write

Write == [slot : Slot, line : Line]

ASSUME RawAssumption ==
  /\ Distance \in Nat \ {0}
  /\ RawDistance \in 1 .. Distance + 1
  /\ Line # {} /\ None \notin Write

Way == 0 .. Distance - 1
Age == 1 .. RawDistance - 1

VARIABLES
  memory,               \* m_cache_mem as every later read sees it
  late,                 \* per age, the write of that many iterations ago
  valid, tag, line,     \* m_valid, m_tag, m_cache_mem of the registers
  last                  \* the line last written to each slot

vars == <<memory, late, valid, tag, line, last>>

-----------------------------------------------------------------------------
(* Mutant: the oldest register that holds the slot is chosen. *)
HitOldest(a) == LET hits == {w \in Way : valid[w] /\ tag[w] = a} IN
                IF hits = {} THEN -1
                ELSE CHOOSE w \in hits : \A v \in hits : v <= w

(* hit(): the first register that holds the slot, the latest written. *)
Hit(a) == LET hits == {w \in Way : valid[w] /\ tag[w] = a} IN
          IF hits = {} THEN -1
          ELSE CHOOSE w \in hits : \A v \in hits : w <= v

IsLate(a, k) == late[k] # None /\ late[k].slot = a

(* What a read of m_cache_mem may deliver. *)
Visible(a) == {memory[a]} \cup {late[k].line : k \in {j \in Age : IsLate(a, j)}}

(* What get_line may return. *)
GetLine(a) == IF Hit(a) # -1 THEN {line[Hit(a)]} ELSE Visible(a)

(* An iteration passes: the oldest write becomes visible to all reads. *)
Oldest(write) == IF RawDistance = 1 THEN write ELSE late[RawDistance - 1]

Pass(write) ==
  /\ late' = [k \in Age |-> IF k = 1 THEN write ELSE late[k - 1]]
  /\ memory' = IF Oldest(write) = None THEN memory
               ELSE [memory EXCEPT ![Oldest(write).slot] = Oldest(write).line]

(* Mutant: the loop that shifts the registers starts one too far. *)
ShiftOneMore(old, new) == [w \in 0 .. Distance |-> IF w = 0 THEN new ELSE old[w - 1]]

Shift(old, new) == [w \in Way |-> IF w = 0 THEN new ELSE old[w - 1]]

(* An iteration that writes a line: set_line. *)
SetLine(a, l) ==
  /\ Pass([slot |-> a, line |-> l])
  /\ valid' = Shift(valid, TRUE)
  /\ tag' = Shift(tag, a)
  /\ line' = Shift(line, l)
  /\ last' = [last EXCEPT ![a] = l]

(* An iteration that writes no line: a read hit or an empty port. *)
NoWrite == /\ Pass(None)
           /\ UNCHANGED <<valid, tag, line, last>>

Init == /\ memory \in [Slot -> Line] /\ last = memory
        /\ late = [k \in Age |-> None]
        /\ valid = [w \in Way |-> FALSE]
        /\ tag \in [Way -> Slot] /\ line \in [Way -> Line]

Next == NoWrite \/ \E a \in Slot, l \in Line : SetLine(a, l)

Spec == Init /\ [][Next]_vars
-----------------------------------------------------------------------------
(* Type invariant: raw_cache keeps as many registers as it has ways.       *)
TypeOK == /\ memory \in [Slot -> Line] /\ last \in [Slot -> Line]
          /\ late \in [Age -> Write \cup {None}]
          /\ valid \in [Way -> BOOLEAN] /\ tag \in [Way -> Slot]
          /\ line \in [Way -> Line]

(* Whenever a line is read, the only thing get_line can return is the line *)
(* written last, however recently that was and whatever was written in     *)
(* between.                                                                *)
ReadsLastWrite == \A a \in Slot : GetLine(a) = {last[a]}
=============================================================================
