------------------------------ MODULE L1Cache ------------------------------
(***************************************************************************)
(* The L1 caches of acc_impl/src/dach/l1_cache.h, one for each read port   *)
(* of a cache, as get_line and set of cache.h use them.  What lies behind  *)
(* them (the shared cache and main memory) is the flat array DachCache     *)
(* implements.                                                             *)
(*                                                                         *)
(* An address is <<tag, set>> of the L1 cache; words of a line are not     *)
(* told apart, because the L1 caches only copy and drop whole lines.       *)
(***************************************************************************)
EXTENDS Replacer

\* NWays of Replacer is N_L1_WAYS; the replacer is always replacer<false>.
CONSTANTS Tag, NSets,       \* fields of an address; N_L1_SETS
          Line,             \* values of a line
          NPorts            \* PORTS of a read-only cache

Set  == 0 .. NSets - 1
Port == 0 .. NPorts - 1
Slot == Set \X Ways

ASSUME L1Assumption ==
  /\ ~Lru
  /\ NSets \in Nat \ {0} /\ NPorts \in Nat \ {0}
  /\ Tag # {} /\ Line # {}

VARIABLES
  wrEnabled,          \* WR_ENABLED, fixed for each instance of the template
  array,              \* what the shared cache answers for each line
  tag, valid, line,   \* m_tag, m_valid, m_cache_mem of every port's L1
  next,               \* m_lifo of every port's replacer
  corePort,           \* m_core_port
  running,            \* between init() and stop()
  reads,              \* history: per port and set, the last NWays tags read
  written             \* history: the lines written since init()

l1   == <<tag, valid, line, next>>
history == <<reads, written>>
vars == <<wrEnabled, array, l1, corePort, running, history>>

(* A cache with WR_ENABLED has one port. *)
Ports == IF wrEnabled THEN {0} ELSE Port

-----------------------------------------------------------------------------
(* hit(): the last way that holds the line. *)
HitWays(p, t, s) == {w \in Ways : valid[p][<<s, w>>] /\ tag[p][<<s, w>>] = t}
IsHit(p, t, s)   == HitWays(p, t, s) # {}
HitWay(p, t, s)  == CHOOSE w \in HitWays(p, t, s) :
                      \A v \in HitWays(p, t, s) : v <= w

GetLine(p, t, s) == IF IsHit(p, t, s) THEN line[p][<<s, HitWay(p, t, s)>>]
                    ELSE array[<<t, s>>]

(* Mutant: the counter moves only when the line was not there. *)
SetLineInPlace(p, t, s, l) ==
  LET slot == <<s, GetWay(InitialOrder, next[p][s])>> IN
  /\ line' = [line EXCEPT ![p][slot] = l]
  /\ tag' = [tag EXCEPT ![p][slot] = t]
  /\ valid' = [valid EXCEPT ![p][slot] = TRUE]
  /\ next' = IF IsHit(p, t, s) THEN next
             ELSE [next EXCEPT ![p][s] = NotifyInsertion(@)]

(* set_line: into the counter's way, also when another way has the line. *)
SetLine(p, t, s, l) ==
  LET slot == <<s, GetWay(InitialOrder, next[p][s])>> IN
  /\ line' = [line EXCEPT ![p][slot] = l]
  /\ tag' = [tag EXCEPT ![p][slot] = t]
  /\ valid' = [valid EXCEPT ![p][slot] = TRUE]
  /\ next' = [next EXCEPT ![p][s] = NotifyInsertion(@)]

(* get_line(addr, port): from the L1 or from the shared cache, and then    *)
(* always stored into the L1.                                              *)
GetAt(p, t, s) ==
  /\ running
  /\ SetLine(p, t, s, GetLine(p, t, s))
  /\ reads' = [reads EXCEPT ![p][s] = Latest(Append(@, t))]
  /\ UNCHANGED <<wrEnabled, array, running, written>>

(* get(addr): the ports in turn.  get(addr, port): a port the caller picks.*)
Get(t, s)        == GetAt(corePort, t, s) /\ corePort' = IF wrEnabled THEN 0 ELSE (corePort + 1) % NPorts
GetPort(p, t, s) == GetAt(p, t, s) /\ UNCHANGED corePort

(* notify_write on port 0 clears one bit of m_valid when the line is there.*)
(* The address object is const, so set_way was never called on it and its  *)
(* m_addr_line, which selects the bit, is uninitialised: any slot.         *)
NotifyWrite(t, s) ==
  IF IsHit(0, t, s)
  THEN \E slot \in Slot : valid' = [valid EXCEPT ![0][slot] = FALSE]
  ELSE UNCHANGED valid

(* set(addr, data): the L1 is told, then the shared cache is written. *)
Put(t, s, l) ==
  /\ running /\ wrEnabled
  /\ NotifyWrite(t, s)
  /\ array' = [array EXCEPT ![<<t, s>>] = l]
  /\ written' = written \cup {<<t, s>>}
  /\ UNCHANGED <<wrEnabled, tag, line, next, corePort, running, reads>>

(* stop() leaves the L1 caches as they are. *)
Stop == /\ running
        /\ running' = FALSE
        /\ UNCHANGED <<wrEnabled, array, l1, corePort, history>>

(* Between two kernel calls the host may rewrite the array. *)
HostStore(t, s, l) ==
  /\ ~running
  /\ array' = [array EXCEPT ![<<t, s>>] = l]
  /\ UNCHANGED <<wrEnabled, l1, corePort, running, history>>

(* Mutant: init() reaches the L1 cache of port 0 only. *)
RestartPortZero ==
  /\ ~running
  /\ running' = TRUE
  /\ valid' = [valid EXCEPT ![0] = [slot \in Slot |-> FALSE]]
  /\ next' = [p \in Port |-> [s \in Set |-> 0]]
  /\ reads' = [p \in Port |-> [s \in Set |-> << >>]]
  /\ corePort' = 0
  /\ written' = {}
  /\ UNCHANGED <<wrEnabled, array, tag, line>>

(* init() of every port. *)
Restart ==
  /\ ~running
  /\ running' = TRUE
  /\ valid' = [p \in Port |-> [slot \in Slot |-> FALSE]]
  /\ next' = [p \in Port |-> [s \in Set |-> 0]]
  /\ reads' = [p \in Port |-> [s \in Set |-> << >>]]
  /\ corePort' = 0
  /\ written' = {}
  /\ UNCHANGED <<wrEnabled, array, tag, line>>

(* Tags and lines hold anything at power-up: they are never read while     *)
(* invalid, so one choice for all of them is enough.                       *)
Init ==
  /\ wrEnabled \in BOOLEAN
  /\ array \in [Tag \X Set -> Line]
  /\ \E t \in Tag : tag = [p \in Port |-> [slot \in Slot |-> t]]
  /\ \E l \in Line : line = [p \in Port |-> [slot \in Slot |-> l]]
  /\ valid = [p \in Port |-> [slot \in Slot |-> FALSE]]
  /\ next = [p \in Port |-> [s \in Set |-> 0]]
  /\ reads = [p \in Port |-> [s \in Set |-> << >>]]
  /\ corePort = 0 /\ running = TRUE /\ written = {}

Next == \/ \E t \in Tag, s \in Set : Get(t, s)
        \/ \E p \in Ports, t \in Tag, s \in Set : GetPort(p, t, s)
        \/ \E t \in Tag, s \in Set, l \in Line : Put(t, s, l)
        \/ Stop
        \/ \E t \in Tag, s \in Set, l \in Line : HostStore(t, s, l)
        \/ Restart

Spec == Init /\ [][Next]_vars
-----------------------------------------------------------------------------
(* Type invariant: what l1_cache and its way counter hold is in range.     *)
TypeOK ==
  /\ array \in [Tag \X Set -> Line]
  /\ tag \in [Port -> [Slot -> Tag]] /\ line \in [Port -> [Slot -> Line]]
  /\ valid \in [Port -> [Slot -> BOOLEAN]]
  /\ next \in [Port -> [Set -> Ways]]
  /\ corePort \in Ports /\ running \in BOOLEAN /\ wrEnabled \in BOOLEAN

(* No port's L1 answers a read of a line that was not written since init() *)
(* with anything but the line's present value: no copy outlives the call   *)
(* it was made in, and all ports agree.                                    *)
L1CopiesAreCurrent ==
  running => \A p \in Ports, t \in Tag, s \in Set :
               <<t, s>> \notin written => GetLine(p, t, s) = array[<<t, s>>]

(* The same for the lines that were written ("inform L1 caches about the   *)
(* writing", cache.h:372).                                                 *)
L1ReadsSeeWrites ==
  running => \A p \in Ports, t \in Tag, s \in Set :
               GetLine(p, t, s) = array[<<t, s>>]

Held(p, s)         == {tag[p][<<s, w>>] : w \in {v \in Ways : valid[p][<<s, v>>]}}
RecentlyRead(p, s) == {reads[p][s][i] : i \in DOMAIN reads[p][s]}

(* A set of an L1 cache holds lines of the last NWays reads of it only,    *)
(* and without writes all of them, a line read twice taking two ways: so   *)
(* a line a write failed to drop is answered stale only as long as every   *)
(* NWays reads of the set include one of it.                               *)
L1HoldsLastReads ==
  running => \A p \in Port, s \in Set :
               /\ Held(p, s) \subseteq RecentlyRead(p, s)
               /\ ~wrEnabled => Held(p, s) = RecentlyRead(p, s)
=============================================================================
