----------------------------- MODULE LineCache ------------------------------
(***************************************************************************)
(* The cache in front of an array of counters in device memory that        *)
(* calc_degree.hpp and convert_csr_csc.hpp spell out in each of their      *)
(* loops: one line per set (groupUramPart is 1), written back when another *)
(* line takes the set and at the end.                                      *)
(*                                                                         *)
(* The last four changes of each array are kept in queues that are looked  *)
(* through before the array is.  They hold set numbers (bramNm); valid and *)
(* the line of a hit are looked for by the number of the line (k01).       *)
(***************************************************************************)
EXTENDS Integers, Sequences
LOCAL INSTANCE SequencesExt

CONSTANTS T,     \* dataOneLine: counters in a line
          Sets   \* uramRow: sets of the cache

QueDepth == 4

LineOf(val) == val \div T              \* k01
SetOf(val)  == LineOf(val) % Sets      \* k20, bramNm
TagOf(val)  == LineOf(val) \div Sets   \* k21, k30
LineAt(set, tag) == tag * Sets + set   \* k01Tmp

Line(memory, l) == [k \in 0 .. T - 1 |-> memory[l * T + k]]
PutLine(memory, l, line) ==
  [i \in DOMAIN memory |-> IF i \div T = l THEN line[i % T] ELSE memory[i]]

(* A queue is a sequence of pairs, the latest first.                       *)
Enter(que, key, value) == SubSeq(<<[key |-> key, value |-> value]>> \o que, 1,
                                 IF Len(que) < QueDepth THEN Len(que) + 1 ELSE QueDepth)

Look(que, key, otherwise) ==
  LET at == {i \in DOMAIN que : que[i].key = key}
  IN  IF at = {} THEN otherwise ELSE que[CHOOSE i \in at : \A j \in at : i <= j].value

(* Loop_init_uram and the queues.                                          *)
Empty ==
  [valid |-> [s \in 0 .. Sets - 1 |-> FALSE], addr |-> [s \in 0 .. Sets - 1 |-> 0],
   ram |-> [s \in 0 .. Sets - 1 |-> [k \in 0 .. T - 1 |-> 0]],
   validQue |-> << >>, addrQue |-> << >>, pingQue |-> << >>]

IsValid(c, val) == Look(c.validQue, LineOf(val), c.valid[SetOf(val)])
HeldTag(c, val) == Look(c.addrQue, SetOf(val), c.addr[SetOf(val)])

Hit(c, val) == IsValid(c, val) /\ HeldTag(c, val) = TagOf(val)

(* The line of val: from the cache or from memory.                         *)
Fetched(c, memory, val) ==
  IF Hit(c, val) THEN Look(c.pingQue, LineOf(val), c.ram[SetOf(val)])
  ELSE Line(memory, LineOf(val))

(* Mutant: a line that gives way is forgotten. *)
EvictedLost(c, memory, val) == memory

(* Memory after another line has given way to that of val.                 *)
Evicted(c, memory, val) ==
  IF IsValid(c, val) /\ ~Hit(c, val)
  THEN PutLine(memory, LineAt(SetOf(val), HeldTag(c, val)),
               Look(c.pingQue, SetOf(val), c.ram[SetOf(val)]))
  ELSE memory

(* The cache after counter val has grown by n.                             *)
Counted(c, memory, val, n) ==
  LET s    == SetOf(val)
      line == [Fetched(c, memory, val) EXCEPT ![val % T] = @ + n]
      hit  == Hit(c, val)
  IN  [valid    |-> [c.valid EXCEPT ![s] = TRUE],
       validQue |-> IF IsValid(c, val) THEN c.validQue ELSE Enter(c.validQue, s, TRUE),
       addr     |-> IF hit THEN c.addr ELSE [c.addr EXCEPT ![s] = TagOf(val)],
       addrQue  |-> IF hit THEN c.addrQue ELSE Enter(c.addrQue, s, TagOf(val)),
       ram      |-> [c.ram EXCEPT ![s] = line],
       pingQue  |-> Enter(c.pingQue, s, line)]

(* Loop_writeout: lines past the last one of the array stay.               *)
WrittenOut(c, memory, lines) ==
  LET out(s) == c.valid[s] /\ LineAt(s, c.addr[s]) < lines
      sets(l) == {s \in 0 .. Sets - 1 : out(s) /\ LineAt(s, c.addr[s]) = l}
  IN  [i \in DOMAIN memory |->
         IF sets(i \div T) = {} THEN memory[i]
         ELSE c.ram[CHOOSE s \in sets(i \div T) : TRUE][i % T]]

(* What counter i stands at: in the cache when its line is there.          *)
Current(c, memory, i) ==
  IF c.valid[SetOf(i)] /\ c.addr[SetOf(i)] = TagOf(i) THEN c.ram[SetOf(i)][i % T] ELSE memory[i]
=============================================================================
