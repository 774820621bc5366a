------------------------------ MODULE Coalesce -------------------------------
(***************************************************************************)
(* The coalescing kernel, acc_impl/src/tc_kernel_new.cpp.  Three processes: *)
(* loadOffset looks up the lists of an edge, colase_request gathers edges  *)
(* with the same list A whose lists B lie one after another in memory, and *)
(* procIntersec loads the lists of such a group at once and intersects     *)
(* them.                                                                   *)
(*                                                                         *)
(* The streams between two processes are written and read together: they   *)
(* are one here, and a group with its lengths is one message.  The         *)
(* InSecNum copies of a buffer hold the same.                              *)
(***************************************************************************)
EXTENDS Lists
LOCAL INSTANCE SequencesExt

CONSTANTS Graphs,     \* graphs in CSR format
          EdgeLists(_),  \* edge lists of a graph
          BufDepth,   \* BUF_DEPTH, 512 words
          MaxColase,  \* MAX_colase, 16 lists in a group
          Depth       \* depth of the streams, 64

VARIABLES
  args,   \* the graph and the edge list
  mem,    \* tc_number
  st      \* the streams and the registers of the three processes

vars == <<args, mem, st>>

G == args.graph
ListOf(v) == List(G.offset[v], G.offset[v + 1] - G.offset[v])
-----------------------------------------------------------------------------
(* loadEdgelist and loadOffset *)
loadOffset ==
  /\ st.sent < Len(args.edges) /\ Len(st.requests) < Depth
  /\ LET e == args.edges[st.sent + 1]
     IN  st' = [st EXCEPT !.sent = @ + 1,
                          !.requests = Append(@, [a |-> ListOf(e[1]), b |-> ListOf(e[2]),
                                                  vertex |-> e[2]])]
  /\ UNCHANGED <<args, mem>>
-----------------------------------------------------------------------------
(* The group that colase_request gathers: its list A, where its lists B    *)
(* start, their lengths, and the vertex of the last one.                   *)
NoGroup == [a |-> List(None, None), b |-> None, lens |-> << >>, vertex |-> -2]

Total(group) == Sum(group.lens)

(* Mutant: a full group takes one list more. *)
EndsOver(group, r) ==
  \/ r.a.offset # group.a.offset
  \/ Len(group.lens) > MaxColase
  \/ Total(group) + r.b.length >= BufDepth * T
  \/ group.lens # << >> /\ group.vertex # r.vertex - 1

(* The request cannot join the group.                                      *)
Ends(group, r) ==
  \/ r.a.offset # group.a.offset
  \/ Len(group.lens) >= MaxColase
  \/ Total(group) + r.b.length >= BufDepth * T
  \/ group.lens # << >> /\ group.vertex # r.vertex - 1

Joined(group, r) ==
  [a |-> r.a, b |-> IF group.lens = << >> THEN r.b.offset ELSE group.b,
   lens |-> Append(group.lens, r.b.length), vertex |-> r.vertex]

Sent == Len(args.edges) - st.sent = 0 /\ st.requests = << >>

colase_request ==
  /\ st.requests # << >>
  /\ LET r == Head(st.requests)
     IN  IF Ends(st.group, r) /\ st.group.a.offset # None
         THEN /\ Len(st.groups) < Depth
              /\ st' = [st EXCEPT !.requests = Tail(@), !.groups = Append(@, st.group),
                                  !.group = Joined([st.group EXCEPT !.lens = << >>], r)]
         ELSE st' = [st EXCEPT !.requests = Tail(@), !.group = Joined(@, r)]
  /\ UNCHANGED <<args, mem>>

(* After the last edge its group is written, also when there was no edge.  *)
lastRequest ==
  /\ Sent /\ ~st.ended /\ Len(st.groups) < Depth
  /\ st' = [st EXCEPT !.ended = TRUE, !.groups = Append(@, st.group)]
  /\ UNCHANGED <<args, mem>>
-----------------------------------------------------------------------------
(* The words of all the lists B of a group.                                *)
AllB(group) == List(group.b, Total(group))

Start(group, j) == Sum(SubSeq(group.lens, 1, j - 1))

(* Mutant: the offset of a list in the group is forgotten. *)
GroupCountFirst(group, listA, listB) ==
  LET a == Elements(G.column, listA, group.a.offset % T, group.a.length)
      b(j) == Elements(G.column, listB, group.b % T, group.lens[j])
  IN  Sum([j \in DOMAIN group.lens |-> Matches(a, b(j))])

(* proIntSecBina *)
GroupCount(group, listA, listB) ==
  LET a == Elements(G.column, listA, group.a.offset % T, group.a.length)
      b(j) == Elements(G.column, listB, (group.b % T) + Start(group, j), group.lens[j])
  IN  Sum([j \in DOMAIN group.lens |-> Matches(a, b(j))])

(* List A is loaded only when it starts at another place than the one      *)
(* before.                                                                 *)
procIntersec ==
  /\ st.groups # << >>
  /\ LET group == Head(st.groups)
         listA == IF st.previous # group.a.offset
                  THEN Copied(st.listA, First(group.a), End(group.a)) ELSE st.listA
         listB == Copied(st.listB, First(AllB(group)), End(AllB(group)))
     IN  st' = [st EXCEPT !.groups = Tail(@), !.previous = group.a.offset,
                          !.listA = listA, !.listB = listB,
                          !.count = @ + GroupCount(group, listA, listB)]
  /\ UNCHANGED <<args, mem>>

Finish ==
  /\ st.ended /\ st.groups = << >> /\ ~st.done
  /\ mem' = st.count
  /\ st' = [st EXCEPT !.done = TRUE]
  /\ UNCHANGED args
-----------------------------------------------------------------------------
Init ==
  /\ \E g \in Graphs : \E edges \in EdgeLists(g) : args = [graph |-> g, edges |-> edges]
  /\ mem = None
  /\ st = [sent |-> 0, requests |-> << >>, group |-> NoGroup, groups |-> << >>, ended |-> FALSE,
           previous |-> None, listA |-> Blank(BufDepth), listB |-> Blank(BufDepth),
           count |-> 0, done |-> FALSE]

Done == st.done

Next == loadOffset \/ colase_request \/ lastRequest \/ procIntersec \/ Finish

Spec == Init /\ [][Next]_vars /\ WF_vars(Next)
-----------------------------------------------------------------------------
(* A group of BufDepth * T - 1 elements needs a word more than there are   *)
(* when it starts at the end of one.  No graph considered has such groups. *)
Fits(group) == End(AllB(group)) - First(AllB(group)) <= BufDepth

(* The number that is returned is that of the triangles on the edges.      *)
CountsTriangles == Done => mem = Triangles(G, args.edges)

(* A group that waits to be loaded holds at most MaxColase lists B, lies   *)
(* in as many words as there are, and each list is where its own offset    *)
(* says: the offsets are not sent.                                         *)
GroupsAreContiguous ==
  \A n \in DOMAIN st.groups :
    LET group == st.groups[n]
        k == Len(group.lens)
    IN  /\ k <= MaxColase
        /\ Fits(group)
        /\ \A j \in 1 .. k : LET v == group.vertex - k + j
                             IN  ListOf(v) = List(group.b + Start(group, j), group.lens[j])
=============================================================================
