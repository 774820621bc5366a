------------------------------ MODULE DachCache ------------------------------
(***************************************************************************)
(* The set-associative write-back cache of acc_impl/src/dach/cache.h, seen *)
(* from the port of the function that uses it: exec_core_req, which runs   *)
(* to completion (under m_core_mutex in C simulation, one request after    *)
(* the other in run_core), and flush, one line at a time.                  *)
(* The queues between the function, run_core and run_mem_if are in         *)
(* DachDataflow.                                                           *)
(***************************************************************************)
EXTENDS CacheLines

CONSTANT NoResponse

VARIABLES
  phase,                      \* "running", "flushing" or "stopped"
  fset, fway,                 \* the loop counters of flush
  resp                        \* what the last get or set returned

vars == <<mem, lines, replacer, phase, fset, fway, resp>>

(* The state of a line of the array, wherever its latest copy is. *)
Logical(t, s) == IF phase # "stopped" /\ IsHit(t, s)
                 THEN data[<<s, HitWay(t, s)>>]
                 ELSE mem[<<t, s>>]
-----------------------------------------------------------------------------
Init ==
  /\ LinesInit
  /\ phase = "running" /\ fset = 0 /\ fway = 0
  /\ resp = NoResponse

(* exec_core_req up to the line being in slot <<s, w>>.  On a miss the     *)
(* loaded line is read before the replaced one is written (exec_mem_req).  *)
Fetch(t, s, w) ==
  LET slot == <<s, w>> IN
  /\ order' = [order EXCEPT ![s] = NotifyUse(@, w)]
  /\ IF IsHit(t, s)
     THEN /\ w = HitWay(t, s)
          /\ UNCHANGED <<mem, tag, valid, next>>
     ELSE /\ w = VictimWay(s)
          /\ mem' = IF MustWriteBack(slot)
                    THEN [mem EXCEPT ![WriteBackAddr(slot)] = data[slot]]
                    ELSE mem
          /\ tag' = [tag EXCEPT ![slot] = t]
          /\ valid' = [valid EXCEPT ![slot] = TRUE]
          /\ next' = [next EXCEPT ![s] = NotifyInsertion(@)]

(* Mutant: after a miss the slot's old words are used, not the loaded ones.*)
FetchedLineOld(t, s) == IF IsHit(t, s) THEN data[<<s, HitWay(t, s)>>]
                        ELSE data[<<s, VictimWay(s)>>]

FetchedLine(t, s) == IF IsHit(t, s) THEN data[<<s, HitWay(t, s)>>]
                     ELSE mem[<<t, s>>]

(* Mutant: a read marks the line clean even when it hits. *)
GetCleans(t, s, o) ==
  /\ phase = "running" /\ RdEnabled
  /\ \E w \in Ways :
       /\ Fetch(t, s, w)
       /\ data' = [data EXCEPT ![<<s, w>>] = FetchedLine(t, s)]
       /\ dirty' = [dirty EXCEPT ![<<s, w>>] = FALSE]
  /\ resp' = [op |-> "read", tag |-> t, set |-> s, off |-> o,
              data |-> FetchedLine(t, s)[o]]
  /\ UNCHANGED <<phase, fset, fway>>

(* get(addr): a read request that hits or misses. *)
Get(t, s, o) ==
  /\ phase = "running" /\ RdEnabled
  /\ \E w \in Ways :
       /\ Fetch(t, s, w)
       /\ data' = [data EXCEPT ![<<s, w>>] = FetchedLine(t, s)]
       /\ dirty' = [dirty EXCEPT ![<<s, w>>] = IsHit(t, s) /\ @]
  /\ resp' = [op |-> "read", tag |-> t, set |-> s, off |-> o,
              data |-> FetchedLine(t, s)[o]]
  /\ UNCHANGED <<phase, fset, fway>>

(* Mutant: only a write miss marks the line dirty. *)
PutDirtyOnMissOnly(t, s, o, d) ==
  /\ phase = "running" /\ WrEnabled
  /\ \E w \in Ways :
       /\ Fetch(t, s, w)
       /\ data' = [data EXCEPT ![<<s, w>>] = [FetchedLine(t, s) EXCEPT ![o] = d]]
       /\ dirty' = [dirty EXCEPT ![<<s, w>>] = ~IsHit(t, s) \/ @]
  /\ resp' = [op |-> "write", tag |-> t, set |-> s, off |-> o, data |-> d]
  /\ UNCHANGED <<phase, fset, fway>>

(* set(addr, d): the whole line is fetched, one word of it replaced. *)
Put(t, s, o, d) ==
  /\ phase = "running" /\ WrEnabled
  /\ \E w \in Ways :
       /\ Fetch(t, s, w)
       /\ data' = [data EXCEPT ![<<s, w>>] = [FetchedLine(t, s) EXCEPT ![o] = d]]
       /\ dirty' = [dirty EXCEPT ![<<s, w>>] = TRUE]
  /\ resp' = [op |-> "write", tag |-> t, set |-> s, off |-> o, data |-> d]
  /\ UNCHANGED <<phase, fset, fway>>

(* stop(), called when the function that uses the cache has completed. *)
Stop == /\ phase = "running"
        /\ phase' = IF WrEnabled THEN "flushing" ELSE "stopped"
        /\ fset' = 0 /\ fway' = 0
        /\ UNCHANGED <<mem, lines, replacer, resp>>

(* Mutant: the inner loop runs once too often. *)
FlushLineOneWayMore ==
  LET slot == <<fset, fway>> IN
  /\ phase = "flushing"
  /\ UNCHANGED <<mem, tag, valid, dirty, data, replacer, resp, fset, phase>>
  /\ fway' = IF fway < NWays THEN fway + 1 ELSE 0

(* One turn of the loops of flush: the line at <<fset, fway>>. *)
FlushLine ==
  LET slot == <<fset, fway>> IN
  /\ phase = "flushing"
  /\ IF valid[slot] /\ dirty[slot]
     THEN /\ mem' = [mem EXCEPT ![WriteBackAddr(slot)] = data[slot]]
          /\ dirty' = [dirty EXCEPT ![slot] = FALSE]
     ELSE UNCHANGED <<mem, dirty>>
  /\ IF fway < NWays - 1
     THEN /\ fway' = fway + 1
          /\ UNCHANGED <<fset, phase>>
     ELSE /\ fway' = 0
          /\ fset' = IF fset < NSets - 1 THEN fset + 1 ELSE 0
          /\ phase' = IF fset < NSets - 1 THEN phase ELSE "stopped"
  /\ UNCHANGED <<tag, valid, data, replacer, resp>>

(* Between two kernel calls the host may rewrite the array. *)
HostStore(t, s, line) ==
  /\ phase = "stopped"
  /\ mem' = [mem EXCEPT ![<<t, s>>] = line]
  /\ UNCHANGED <<lines, replacer, phase, fset, fway, resp>>

(* init() of the next kernel call: only m_valid and the replacer. *)
Restart == /\ phase = "stopped"
           /\ phase' = "running"
           /\ valid' = [slot \in Slot |-> FALSE]
           /\ order' = [s \in Set |-> InitialOrder]
           /\ next' = [s \in Set |-> 0]
           /\ UNCHANGED <<mem, tag, dirty, data, fset, fway, resp>>

Next == \/ \E t \in Tag, s \in Set, o \in Off : Get(t, s, o)
        \/ \E t \in Tag, s \in Set, o \in Off, d \in Data : Put(t, s, o, d)
        \/ Stop
        \/ FlushLine
        \/ \E t \in Tag, s \in Set, line \in Line : HostStore(t, s, line)
        \/ Restart

Spec == Init /\ [][Next]_vars
-----------------------------------------------------------------------------
(* Type invariant: the lines and the replacement state of cache.h are in   *)
(* range, and so is the slot that flush has reached.                       *)
TypeOK ==
  /\ LinesTypeOK
  /\ phase \in {"running", "flushing", "stopped"}
  /\ fset \in Set /\ fway \in Ways

(* While the kernel runs, a valid line that is not marked dirty equals     *)
(* main memory, so replacing it without a write-back loses nothing; this   *)
(* includes the lines flush has passed.                                    *)
CleanLinesMatchMemory ==
  phase # "stopped" =>
    \A slot \in Slot : valid[slot] /\ ~dirty[slot] =>
                         data[slot] = mem[WriteBackAddr(slot)]

(* The cache is the flat array: what get returns, what the host finds      *)
(* after stop() and what survives the next init().                         *)
Array   == [a \in Addr |-> Logical(a[1], a[2])]
Running == phase # "stopped"
Flat == INSTANCE FlatMemory WITH store <- Array, running <- Running
IsFlatMemory == Flat!Spec
=============================================================================
