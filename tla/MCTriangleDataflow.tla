------------------------- MODULE MCTriangleDataflow -------------------------
(***************************************************************************)
(* Graphs on which TLC runs the triangle counter: one list of at most two  *)
(* vertices, and a graph for each thing these do not reach.                *)
(***************************************************************************)
EXTENDS TriangleDataflow
LOCAL INSTANCE SequencesExt

From(v, W) == {v} \X W

OneList == {From(v, (v + 1)..(v + n)) : v \in 0..2, n \in 0..2}

OtherGraphs ==
  {\* a list of one vertex before one of two; second lists that go on when
   \* the first has ended
   From(0, {1}) \cup From(1, {2, 3}) \cup From(2, {4}) \cup From(3, {4}),
   \* the first list goes on when the second, of a smaller vertex, has ended
   From(0, {1, 3}) \cup From(1, {2}),
   \* three times a list of three, and a triangle with the last vertex
   From(0, {1, 2, 4}) \cup From(2, {4})}

Neighbours(g, v) == SetToSortSeq({w \in Vertex : <<v, w>> \in g}, <)

FileOf(g) ==
  [offsets |-> [v \in 0 .. NVertices |-> Cardinality({e \in g : e[1] < v})],
   columns |-> FlattenSeq([i \in 1 .. NVertices |-> Neighbours(g, i - 1)])]

InRange == {g \in OneList \cup OtherGraphs : g \subseteq Vertex \X Vertex}

OneListFiles == {FileOf(g) : g \in OneList \cap InRange}
SampleFiles  == {FileOf(g) : g \in InRange}
=============================================================================
