---------------------------- MODULE DachDataflow ----------------------------
(***************************************************************************)
(* The synthesised cache: three processes of one dataflow region, joined   *)
(* by bounded FIFOs.                                                       *)
(*                                                                         *)
(*   client    the pipelined loop of the function that uses the cache      *)
(*             (get, set, stop)                                            *)
(*   run_core  polls the ports, serves one request at a time, then flushes *)
(*   run_mem_if  owns main memory                                          *)
(*                                                                         *)
(* A read occupies a stage of the client's pipeline from the write to      *)
(* m_core_req to the read of m_core_resp, LATENCY stages later; all stages *)
(* move together or, when a FIFO is full or empty, not at all.             *)
(***************************************************************************)
EXTENDS CacheLines, Sequences, FiniteSets

CONSTANTS NPorts,    \* PORTS
          Latency,   \* LATENCY
          MaxIter    \* bound: iterations of the client's loop with a request

ASSUME DataflowAssumption == /\ NPorts \in Nat \ {0}
                             /\ Latency \in Nat \ {0}
                             /\ MaxIter \in Nat
                             /\ WrEnabled => NPorts = 1

Ports == 0 .. NPorts - 1

VARIABLES
  client, pipe,         \* "running" or "done"; the pipeline, last stage first
  nextPort, iter,       \* m_core_port; iterations so far
  array,                \* the program's array: every set applied in order
  coreReq, coreResp,    \* m_core_req[PORTS], m_core_resp[PORTS]
  memReq, memSt, memResp,  \* m_mem_req, m_mem_st_req, m_mem_resp
  core, port, req, way, \* run_core: where it is; port, req, addr.m_way
  fset, fway,           \* run_core: the loop counters of flush
  memIf, mreq, mline    \* run_mem_if: where it is; req, line

cacheVars  == <<mem, lines, replacer>>
portQueues == <<coreReq, coreResp>>
clientVars == <<client, pipe, nextPort, iter, array>>
memQueues  == <<memReq, memSt, memResp>>
coreVars   == <<core, port, req, way, fset, fway>>
memIfVars  == <<memIf, mreq, mline>>
vars == <<cacheVars, clientVars, portQueues, memQueues, coreVars, memIfVars>>
-----------------------------------------------------------------------------
StopReq == [op |-> "STOP"]

(* Mutant: the FIFOs of the ports hold one element. *)
CoreDepthOne == 1

(* The declared depths. *)
CoreDepth == Latency * NPorts
MemDepth  == 2

HasRoom(q, depth) == Len(q) < depth

(* The stages of the pipeline that hold a read on port p. *)
Stages(p) == {i \in 1 .. Latency : \E k \in DOMAIN pipe[i] : pipe[i][k].port = p}

(* The gets of one iteration, on the ports m_core_port rotates through. *)
Gets == UNION {[1 .. n -> Addr \X Off] : n \in 0 .. IF RdEnabled THEN NPorts ELSE 0}

PortOf(i) == (nextPort + i - 1) % NPorts

(* The pipeline moves one stage: the reads that reach the last stage take  *)
(* their responses, the reads of a new iteration send their requests.      *)
CanMove(n) == /\ \A i \in DOMAIN pipe[1] : coreResp[pipe[1][i].port] # << >>
              /\ \A i \in 1 .. n : HasRoom(coreReq[PortOf(i)], CoreDepth)

TakeResponses ==
  coreResp' = [p \in Ports |-> IF 1 \in Stages(p) THEN Tail(coreResp[p])
                               ELSE coreResp[p]]

MovePipe(gets) ==
  LET Read(i) == [port |-> PortOf(i), a |-> gets[i][1], off |-> gets[i][2],
                  want |-> array[gets[i][1]][gets[i][2]]]
  IN  pipe' = Append(Tail(pipe), [i \in DOMAIN gets |-> Read(i)])

(* An iteration without a set; with no get either, a bubble. *)
ClientGet(gets) ==
  /\ client = "running"
  /\ IF gets = << >> THEN \E i \in DOMAIN pipe : pipe[i] # << >>
     ELSE iter < MaxIter
  /\ CanMove(Len(gets))
  /\ TakeResponses
  /\ MovePipe(gets)
  /\ coreReq' = [p \in Ports |->
       LET mine == {i \in DOMAIN gets : PortOf(i) = p} IN
       IF mine = {} THEN coreReq[p]
       ELSE LET g == gets[CHOOSE i \in mine : TRUE] IN
            Append(coreReq[p], [op |-> "READ", a |-> g[1], off |-> g[2]])]
  /\ nextPort' = (nextPort + Len(gets)) % NPorts
  /\ iter' = IF gets = << >> THEN iter ELSE iter + 1
  /\ UNCHANGED <<cacheVars, client, array, memQueues, coreVars, memIfVars>>

(* set() writes to m_core_req[0] and waits for nothing. *)
ClientSet(a, o, d) ==
  /\ client = "running" /\ WrEnabled /\ iter < MaxIter
  /\ CanMove(0) /\ HasRoom(coreReq[0], CoreDepth)
  /\ TakeResponses
  /\ MovePipe(<< >>)
  /\ coreReq' = [coreReq EXCEPT ![0] = Append(@,
                   [op |-> "WRITE", a |-> a, off |-> o, data |-> d])]
  /\ array' = [array EXCEPT ![a] = [@ EXCEPT ![o] = d]]
  /\ iter' = iter + 1
  /\ UNCHANGED <<cacheVars, client, nextPort, memQueues, coreVars, memIfVars>>

HasReturned == \A i \in DOMAIN pipe : pipe[i] = << >>

(* The function has returned, its pipeline is empty: stop(). *)
ClientStop ==
  /\ client = "running" /\ HasReturned
  /\ HasRoom(coreReq[0], CoreDepth)
  /\ coreReq' = [coreReq EXCEPT ![0] = Append(@, StopReq)]
  /\ client' = "done"
  /\ UNCHANGED <<cacheVars, pipe, nextPort, iter, array, coreResp, memQueues,
                 coreVars, memIfVars>>
-----------------------------------------------------------------------------
(* run_core *)
ReqSlot == <<req.a[2], way>>       \* the slot of the request being served
IsRead(r) == (RdEnabled /\ r.op = "READ") \/ ~WrEnabled

(* Mutant: the last port is not followed by the first. *)
NextPortNoWrap == port + 1

NextPort == (port + 1) % NPorts

MarksDirty(r) == ~IsRead(r)

(* Mutant: a port is left only after a request was taken from it. *)
PolledNextSame == port

PolledNext == NextPort

(* read_nb finds nothing. *)
CorePoll ==
  /\ core = "poll" /\ coreReq[port] = << >>
  /\ port' = PolledNext
  /\ UNCHANGED <<cacheVars, clientVars, portQueues, memQueues, core, req, way,
                 fset, fway, memIfVars>>

TakeRequest == /\ core = "poll" /\ coreReq[port] # << >>
               /\ coreReq' = [coreReq EXCEPT ![port] = Tail(@)]
Taken == Head(coreReq[port])

(* The break out of CORE_LOOP. *)
CoreBreak ==
  /\ TakeRequest /\ Taken = StopReq
  /\ core' = IF WrEnabled THEN "flush" ELSE "stopMem"
  /\ UNCHANGED <<cacheVars, clientVars, coreResp, memQueues, port, req, way,
                 fset, fway, memIfVars>>

CoreHit ==
  /\ TakeRequest /\ Taken # StopReq
  /\ LET r == Taken  s == r.a[2]  w == HitWay(r.a[1], s) IN
     /\ IsHit(r.a[1], s)
     /\ order' = [order EXCEPT ![s] = NotifyUse(@, w)]
     /\ IF IsRead(r)
        THEN /\ core' = "respond"
             /\ UNCHANGED <<data, dirty, port>>
        ELSE /\ data' = [data EXCEPT ![<<s, w>>] = [@ EXCEPT ![r.off] = r.data]]
             /\ dirty' = [dirty EXCEPT ![<<s, w>>] = TRUE]
             /\ port' = NextPort
             /\ UNCHANGED core
     /\ req' = r /\ way' = w
  /\ UNCHANGED <<mem, tag, valid, next, clientVars, coreResp, memQueues, fset,
                 fway, memIfVars>>

(* The victim is marked as used before memory is asked for the line. *)
CoreMiss ==
  /\ TakeRequest /\ Taken # StopReq
  /\ LET r == Taken  s == r.a[2]  w == VictimWay(s) IN
     /\ ~IsHit(r.a[1], s)
     /\ order' = [order EXCEPT ![s] = NotifyUse(@, w)]
     /\ req' = r /\ way' = w
  /\ core' = "sendReq"
  /\ UNCHANGED <<mem, lines, next, clientVars, coreResp, memQueues, port, fset,
                 fway, memIfVars>>

(* Mutant: a store request is sent only when there is a line to store. *)
StoreFollowsIfDirty == MustWriteBack(ReqSlot)

(* With the write path every request is followed by a store request. *)
StoreFollows == WrEnabled

CoreSendReq ==
  /\ core = "sendReq" /\ HasRoom(memReq, MemDepth)
  /\ memReq' = Append(memReq,
       [op |-> IF MustWriteBack(ReqSlot) THEN "READ_WRITE" ELSE "READ",
        a |-> req.a])
  /\ core' = IF StoreFollows THEN "sendSt" ELSE "await"
  /\ UNCHANGED <<cacheVars, clientVars, portQueues, memSt, memResp, port, req,
                 way, fset, fway, memIfVars>>

(* The store request is not initialised, and never used, when there is     *)
(* nothing to write back.                                                  *)
CoreSendSt ==
  /\ core = "sendSt" /\ HasRoom(memSt, MemDepth)
  /\ memSt' = Append(memSt, [a |-> WriteBackAddr(ReqSlot), line |-> data[ReqSlot]])
  /\ core' = "await"
  /\ UNCHANGED <<cacheVars, clientVars, portQueues, memReq, memResp, port, req,
                 way, fset, fway, memIfVars>>

CoreFill ==
  /\ core = "await" /\ memResp # << >>
  /\ memResp' = Tail(memResp)
  /\ tag' = [tag EXCEPT ![ReqSlot] = req.a[1]]
  /\ valid' = [valid EXCEPT ![ReqSlot] = TRUE]
  /\ next' = [next EXCEPT ![req.a[2]] = NotifyInsertion(@)]
  /\ dirty' = [dirty EXCEPT ![ReqSlot] = MarksDirty(req)]
  /\ IF IsRead(req)
     THEN /\ data' = [data EXCEPT ![ReqSlot] = Head(memResp)]
          /\ core' = "respond"
          /\ UNCHANGED port
     ELSE /\ data' = [data EXCEPT ![ReqSlot] =
                        [Head(memResp) EXCEPT ![req.off] = req.data]]
          /\ core' = "poll"
          /\ port' = NextPort
  /\ UNCHANGED <<mem, order, clientVars, portQueues, memReq, memSt, req, way,
                 fset, fway, memIfVars>>

(* Mutant: the response goes to the port that is polled next. *)
RespondPortNext == NextPort

RespondPort == port

CoreRespond ==
  /\ core = "respond" /\ HasRoom(coreResp[RespondPort], CoreDepth)
  /\ coreResp' = [coreResp EXCEPT ![RespondPort] = Append(@, data[ReqSlot])]
  /\ core' = "poll"
  /\ port' = NextPort
  /\ UNCHANGED <<cacheVars, clientVars, coreReq, memQueues, req, way, fset,
                 fway, memIfVars>>

(* flush *)
FlushSlot  == <<fset, fway>>
FlushDirty == valid[FlushSlot] /\ dirty[FlushSlot]

(* Mutant: the inner loop ends one way early. *)
FlushEndsEarly == fway >= NWays - 2 /\ fset = NSets - 1

(* Mutant: the bound of the outer loop is missed. *)
FlushEndsNever == fway = NWays - 1 /\ fset = NSets

FlushEnds == fway = NWays - 1 /\ fset = NSets - 1

FlushNext ==
  /\ fway' = (fway + 1) % NWays
  /\ fset' = IF fway < NWays - 1 \/ fset = NSets - 1 THEN fset ELSE fset + 1
  /\ core' = IF FlushEnds THEN "stopMem" ELSE "flush"

CoreFlushClean ==
  /\ core = "flush" /\ ~FlushDirty
  /\ FlushNext
  /\ UNCHANGED <<cacheVars, clientVars, portQueues, memQueues, port, req, way,
                 memIfVars>>

CoreFlushReq ==
  /\ core = "flush" /\ FlushDirty /\ HasRoom(memReq, MemDepth)
  /\ memReq' = Append(memReq, [op |-> "WRITE", a |-> << >>])
  /\ core' = "flushSt"
  /\ UNCHANGED <<cacheVars, clientVars, portQueues, memSt, memResp, port, req,
                 way, fset, fway, memIfVars>>

CoreFlushSt ==
  /\ core = "flushSt" /\ HasRoom(memSt, MemDepth)
  /\ memSt' = Append(memSt, [a |-> WriteBackAddr(FlushSlot),
                             line |-> data[FlushSlot]])
  /\ dirty' = [dirty EXCEPT ![FlushSlot] = FALSE]
  /\ FlushNext
  /\ UNCHANGED <<mem, tag, valid, data, replacer, clientVars, portQueues,
                 memReq, memResp, port, req, way, memIfVars>>

CoreStopMem ==
  /\ core = "stopMem" /\ HasRoom(memReq, MemDepth)
  /\ memReq' = Append(memReq, StopReq)
  /\ core' = "done"
  /\ UNCHANGED <<cacheVars, clientVars, portQueues, memSt, memResp, port, req,
                 way, fset, fway, memIfVars>>
-----------------------------------------------------------------------------
(* run_mem_if *)
MemIfReq ==
  /\ memIf = "req" /\ memReq # << >>
  /\ memReq' = Tail(memReq)
  /\ mreq' = Head(memReq)
  /\ memIf' = IF mreq' = StopReq THEN "done"
              ELSE IF WrEnabled THEN "st" ELSE "load"
  /\ UNCHANGED <<cacheVars, clientVars, portQueues, memSt, memResp, coreVars,
                 mline>>

(* Without the write path: exec_mem_req only reads. *)
MemIfLoad ==
  /\ memIf = "load"
  /\ mline' = mem[mreq.a]
  /\ memIf' = "resp"
  /\ UNCHANGED <<cacheVars, clientVars, portQueues, memQueues, coreVars, mreq>>

StoreAddr == Head(memSt).a

(* exec_mem_req: the requested line is read, then the replaced one written.*)
MemIfExec ==
  /\ memIf = "st" /\ memSt # << >>
  /\ memSt' = Tail(memSt)
  /\ mline' = IF mreq.op = "WRITE" THEN mline ELSE mem[mreq.a]
  /\ mem' = IF mreq.op = "READ" THEN mem
            ELSE [mem EXCEPT ![StoreAddr] = Head(memSt).line]
  /\ memIf' = IF mreq.op = "WRITE" THEN "req" ELSE "resp"
  /\ UNCHANGED <<lines, replacer, clientVars, portQueues, memReq, memResp,
                 coreVars, mreq>>

MemIfRespond ==
  /\ memIf = "resp" /\ HasRoom(memResp, MemDepth)
  /\ memResp' = Append(memResp, mline)
  /\ memIf' = "req"
  /\ UNCHANGED <<cacheVars, clientVars, portQueues, memReq, memSt, coreVars,
                 mreq, mline>>
-----------------------------------------------------------------------------
(* The registers of invalid lines are never read: one content is enough.   *)
Init ==
  /\ LinesInit
  /\ \E t \in Tag, line \in Line : /\ tag = [slot \in Slot |-> t]
                                   /\ data = [slot \in Slot |-> line]
  /\ dirty = [slot \in Slot |-> TRUE]
  /\ client = "running" /\ pipe = [i \in 1 .. Latency |-> << >>]
  /\ nextPort = 0 /\ iter = 0 /\ array = mem
  /\ coreReq = [p \in Ports |-> << >>] /\ coreResp = coreReq
  /\ memReq = << >> /\ memSt = << >> /\ memResp = << >>
  /\ core = "poll" /\ port = 0 /\ req = StopReq /\ way = 0 /\ fset = 0 /\ fway = 0
  /\ memIf = "req" /\ mreq = StopReq /\ mline = << >>

Client == \/ \E gets \in Gets : ClientGet(gets)
          \/ \E a \in Addr, o \in Off, d \in Data : ClientSet(a, o, d)
          \/ ClientStop

Core == \/ CorePoll \/ CoreBreak \/ CoreHit \/ CoreMiss \/ CoreSendReq
        \/ CoreSendSt \/ CoreFill \/ CoreRespond \/ CoreFlushClean
        \/ CoreFlushReq \/ CoreFlushSt \/ CoreStopMem

MemIf == MemIfReq \/ MemIfLoad \/ MemIfExec \/ MemIfRespond

AllDone == client = "done" /\ core = "done" /\ memIf = "done"

(* A kernel call ends here. *)
Finished == AllDone /\ UNCHANGED vars

Next == Client \/ Core \/ MemIf \/ Finished

(* The three loops are hardware that is clocked all the time; the client   *)
(* has a bounded number of iterations and then stops the cache.            *)
Spec == /\ Init /\ [][Next]_vars
        /\ WF_vars(Client) /\ WF_vars(Core) /\ WF_vars(MemIf)
-----------------------------------------------------------------------------
(* Type invariant: the FIFOs stay within their depths, run_core polls a    *)
(* port that exists and flush stays inside the cache.                      *)
TypeOK ==
  /\ LinesTypeOK
  /\ client \in {"running", "done"} /\ iter \in 0 .. MaxIter
  /\ Len(pipe) = Latency /\ nextPort \in Ports /\ array \in [Addr -> Line]
  /\ \A p \in Ports : Len(coreReq[p]) <= CoreDepth /\ Len(coreResp[p]) <= CoreDepth
  /\ Len(memReq) <= MemDepth /\ Len(memSt) <= MemDepth /\ Len(memResp) <= MemDepth
  /\ core \in {"poll", "sendReq", "sendSt", "await", "respond",
               "flush", "flushSt", "stopMem", "done"}
  /\ port \in Ports /\ way \in Ways /\ fset \in Set /\ fway \in Ways
  /\ memIf \in {"req", "st", "load", "resp", "done"}

(* The place of a stage among those with a read on port p, the oldest      *)
(* read first.                                                             *)
Rank(p, i) == Cardinality(Stages(p) \cap (1 .. i))

(* The n-th response waiting on a port answers the n-th read under way     *)
(* there with the word that read sees in program order, whatever sets,     *)
(* replacements and write-backs are in flight with it.                     *)
ResponsesMatchReads ==
  \A p \in Ports : \A n \in DOMAIN coreResp[p] :
    \E i \in Stages(p) :
      /\ Rank(p, i) = n
      /\ \A k \in DOMAIN pipe[i] :
           pipe[i][k].port = p => coreResp[p][n][pipe[i][k].off] = pipe[i][k].want

(* When the call has ended every set is in main memory and no FIFO holds   *)
(* anything that would reach the next call.                                *)
DrainedAtTheEnd ==
  AllDone => /\ mem = array
             /\ \A p \in Ports : coreReq[p] = << >> /\ coreResp[p] = << >>
             /\ memReq = << >> /\ memSt = << >> /\ memResp = << >>

(* What each process may have to wait for; the client's next iteration may *)
(* use any port.                                                           *)
ClientWaits == \/ client = "done"
               \/ \E i \in DOMAIN pipe[1] : coreResp[pipe[1][i].port] = << >>
               \/ \E p \in Ports : ~HasRoom(coreReq[p], CoreDepth)
CoreWaits == \/ core = "poll" /\ \A p \in Ports : coreReq[p] = << >>
             \/ core \in {"sendReq", "stopMem"} /\ ~HasRoom(memReq, MemDepth)
             \/ core = "flush" /\ FlushDirty /\ ~HasRoom(memReq, MemDepth)
             \/ core \in {"sendSt", "flushSt"} /\ ~HasRoom(memSt, MemDepth)
             \/ core = "await" /\ memResp = << >>
             \/ core = "respond" /\ ~HasRoom(coreResp[port], CoreDepth)
             \/ core = "done"
MemIfWaits == \/ memIf = "req" /\ memReq = << >>
              \/ memIf = "st" /\ memSt = << >>
              \/ memIf = "resp" /\ ~HasRoom(memResp, MemDepth)
              \/ memIf = "done"

(* The FIFOs are deep enough: the three processes never all wait for each  *)
(* other, the client with a full pipeline, run_core for room in            *)
(* m_core_resp or for memory, run_mem_if for a request.                    *)
NoCircularWait == ClientWaits /\ CoreWaits /\ MemIfWaits => AllDone

(* Every request of a port that is not yet answered, the one run_core is   *)
(* serving first.                                                          *)
Serving == core \in {"sendReq", "sendSt", "await", "respond"}
Pending == [p \in Ports |-> IF Serving /\ p = port THEN <<req>> \o coreReq[p]
                            ELSE coreReq[p]]

(* The array as it stands: its lines, where the cache has one, and memory. *)
Stored == [a \in Addr |-> IF IsHit(a[1], a[2]) THEN data[<<a[2], HitWay(a[1], a[2])>>]
                          ELSE mem[a]]

Behind == INSTANCE PortMemory WITH
  Stop <- StopReq, Kept <- << >>, store <- Stored, asked <- Pending,
  answered <- coreResp,
  serving  <- core \notin {"flush", "flushSt", "stopMem", "done"},
  returned <- IF memIf = "done" THEN mem ELSE << >>

(* Seen through its ports the cache is a plain array: however loads,       *)
(* write-backs and the flush overlap with the client's loop, each request  *)
(* takes effect in one step and in the order of its port, and the host     *)
(* gets the array back with every set in it.                               *)
IsPortMemory == Behind!Spec

(* Every call ends: the client gets its answers, flush and both stop       *)
(* requests get through.                                                   *)
CallEnds == <>AllDone
=============================================================================
