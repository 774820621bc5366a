----------------------------- MODULE FlatMemory -----------------------------
(***************************************************************************)
(* What a cache of acc_impl/src/dach promises to the function that uses    *)
(* it: between init() and stop() the cached array behaves as the plain     *)
(* array T *main_mem it stands for.  A read returns the word last stored   *)
(* at its address; after stop() the host finds every word in main memory,  *)
(* and what it stores there is what the next use of the cache reads.       *)
(***************************************************************************)
CONSTANTS Tag, Set, Off,   \* the three fields of an address
          Data,            \* values of a word
          NoResponse       \* no read has been answered yet

VARIABLES store,    \* the array, a line of words for each <<tag, set>>
          resp,     \* the last request and, for a read, its answer
          running   \* between init() and the end of stop()

vars == <<store, resp, running>>

Init == /\ store \in [Tag \X Set -> [Off -> Data]]
        /\ resp = NoResponse
        /\ running = TRUE

Read(t, s, o) ==
  /\ running
  /\ resp' = [op |-> "read", tag |-> t, set |-> s, off |-> o,
              data |-> store[<<t, s>>][o]]
  /\ UNCHANGED <<store, running>>

Write(t, s, o, d) ==
  /\ running
  /\ store' = [store EXCEPT ![<<t, s>>] = [@ EXCEPT ![o] = d]]
  /\ resp' = [op |-> "write", tag |-> t, set |-> s, off |-> o, data |-> d]
  /\ UNCHANGED running

(* stop() has returned: nothing the function stored is lost. *)
Stop == /\ running
        /\ running' = FALSE
        /\ UNCHANGED <<store, resp>>

(* The host owns the array while no kernel runs. *)
HostStore(t, s, line) ==
  /\ ~running
  /\ store' = [store EXCEPT ![<<t, s>>] = line]
  /\ UNCHANGED <<resp, running>>

(* init() of the next use. *)
Start == /\ ~running
         /\ running' = TRUE
         /\ UNCHANGED <<store, resp>>

Next == \/ \E t \in Tag, s \in Set, o \in Off : Read(t, s, o)
        \/ \E t \in Tag, s \in Set, o \in Off, d \in Data : Write(t, s, o, d)
        \/ Stop
        \/ \E t \in Tag, s \in Set, line \in [Off -> Data] :
             HostStore(t, s, line)
        \/ Start

Spec == Init /\ [][Next]_vars
=============================================================================
