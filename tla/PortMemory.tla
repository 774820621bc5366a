----------------------------- MODULE PortMemory -----------------------------
(***************************************************************************)
(* What the synthesised cache of acc_impl/src/dach promises behind its     *)
(* ports: a plain array.  The requests of a port are served in order, one  *)
(* at a time and each of them in a single step; the answers of a port wait *)
(* for the function in that order.  When a request is served is left open, *)
(* and so is the order in which the ports are.  Once the request to stop   *)
(* has been served no other is, and the array the host gets back is the    *)
(* one the served requests have made.                                      *)
(***************************************************************************)
EXTENDS Sequences

CONSTANTS Ports,
          Addr, Off, Data,   \* lines, words of a line and their values
          Stop,              \* the request to stop
          Kept               \* the host has nothing back yet

ReadRequest  == [op : {"READ"}, a : Addr, off : Off]
WriteRequest == [op : {"WRITE"}, a : Addr, off : Off, data : Data]
Request      == ReadRequest \cup WriteRequest \cup {Stop}

VARIABLES store,     \* the array, a line of words for each address
          asked,     \* per port, the requests not yet served
          answered,  \* per port, the lines read and not yet taken
          serving,   \* the request to stop has not been served
          returned   \* the array as the host gets it back

vars == <<store, asked, answered, serving, returned>>

Init == /\ store \in [Addr -> [Off -> Data]]
        /\ asked = [p \in Ports |-> << >>]
        /\ answered = [p \in Ports |-> << >>]
        /\ serving = TRUE
        /\ returned = Kept

(* The function's loop moves on: it takes one answer from some of the      *)
(* ports and makes one request on some of them.                            *)
Move(taken, new) ==
  /\ \A p \in taken : answered[p] # << >>
  /\ answered' = [p \in Ports |-> IF p \in taken THEN Tail(answered[p])
                                  ELSE answered[p]]
  /\ asked' = [p \in Ports |-> IF p \in DOMAIN new THEN Append(asked[p], new[p])
                               ELSE asked[p]]
  /\ UNCHANGED <<store, serving, returned>>

Serve(p) ==
  /\ serving /\ asked[p] # << >>
  /\ asked' = [asked EXCEPT ![p] = Tail(@)]
  /\ UNCHANGED returned

ServeRead(p) ==
  /\ Serve(p) /\ Head(asked[p]) \in ReadRequest
  /\ answered' = [answered EXCEPT ![p] = Append(@, store[Head(asked[p]).a])]
  /\ UNCHANGED <<store, serving>>

ServeWrite(p) ==
  /\ Serve(p) /\ Head(asked[p]) \in WriteRequest
  /\ LET r == Head(asked[p]) IN
     store' = [store EXCEPT ![r.a] = [@ EXCEPT ![r.off] = r.data]]
  /\ UNCHANGED <<answered, serving>>

ServeStop(p) ==
  /\ Serve(p) /\ Head(asked[p]) = Stop
  /\ serving' = FALSE
  /\ UNCHANGED <<store, answered>>

Return ==
  /\ ~serving /\ returned = Kept
  /\ returned' = store
  /\ UNCHANGED <<store, asked, answered, serving>>

Next == \/ \E taken, used \in SUBSET Ports : \E new \in [used -> Request] :
             Move(taken, new)
        \/ \E p \in Ports : ServeRead(p) \/ ServeWrite(p) \/ ServeStop(p)
        \/ Return

Spec == Init /\ [][Next]_vars
=============================================================================
