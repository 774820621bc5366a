------------------------------ MODULE MCKernels -----------------------------
(***************************************************************************)
(* The kernels of the graph library, the kernel experiments and what they  *)
(* are built from, each on a few small inputs.  A behaviour runs one of    *)
(* them: kernel says which, and args, mem and st are that module's         *)
(* variables.                                                              *)
(***************************************************************************)
EXTENDS GraphMemory, TLC
LOCAL INSTANCE SequencesExt

VARIABLES kernel, args, mem, st

vars == <<kernel, args, mem, st>>

Nodes(n) == 0 .. n - 1
Pairs(n) == {e \in Nodes(n) \X Nodes(n) : e[1] # e[2]}
Digraphs(n) == {Csr(n, rows) : rows \in {SimpleRows(n, arcs) : arcs \in SUBSET Pairs(n)}}

(* Parallel edges, loops and a vertex without neighbours. *)
Multigraphs ==
  {Csr(3, 0 :> <<1, 2>> @@ 1 :> <<2, 2>> @@ 2 :> <<0, 1>>),
   Csr(4, 0 :> <<1, 1>> @@ 1 :> <<2, 2, 3>> @@ 2 :> <<3>> @@ 3 :> <<0>>),
   Csr(4, 0 :> <<1, 2>> @@ 1 :> << >> @@ 2 :> <<3>> @@ 3 :> <<3, 0>>)}

Bfs == INSTANCE Bfs WITH Graphs <- Digraphs(1) \cup Digraphs(3) \cup Multigraphs,
                         Sources <- {0, 1}, MaxDegree <- 2

TwoHop == INSTANCE TwoHop WITH
  Graphs <- Multigraphs, Depth <- 1,
  PairLists <- {<< >>, <<<<0, 2>>, <<2, 1>>>>, <<<<1, 1>>, <<0, 0>>, <<0, 2>>>>}

(* Undirected graphs of n vertices for weights, a set of functions from    *)
(* the pairs i < j to 0 (no edge) or a weight.                             *)
Lower(n) == {e \in Nodes(n) \X Nodes(n) : e[1] < e[2]}

WeightRow(n, weight, v) ==
  LET W(w) == IF v = w THEN 0 ELSE IF v < w THEN weight[<<v, w>>] ELSE weight[<<w, v>>]
      To(i)  == IF W(i) = 0 THEN << >> ELSE <<[to |-> i, weight |-> W(i)]>>
  IN  FoldLeft(LAMBDA r, i : r \o To(i), << >>, [i \in 1 .. n |-> i - 1])

Undirected(n, weights) ==
  {[g EXCEPT !.column = [i \in DOMAIN g.column |-> g.column[i].to]]
     @@ [weight |-> [i \in DOMAIN g.column |-> g.column[i].weight]] :
   g \in {Csr(n, rows) : rows \in {[v \in Nodes(n) |-> WeightRow(n, w, v)] : w \in weights}}}

(* One of seven vertices, so that the heap is three levels deep. *)
Mst == INSTANCE Mst WITH
  Far <- 9,
  Graphs <- Undirected(4, [Lower(4) -> {0, 2, 9}]) \cup
            Undirected(7, {[e \in Lower(7) |-> (a * e[1] + b * e[2]) % 10] : a \in 1 .. 4, b \in 3 .. 6})

Diameter == INSTANCE Diameter WITH
  ParaNum <- 2, RandomOffset <- 1, Depth <- 12, Unreached <- 99,
  Graphs <- Undirected(4, {[e \in Lower(4) |-> (a * e[1] + b * e[2]) % 5] : a \in 1 .. 3, b \in 3 .. 4})
            \cup Undirected(4, {[e \in Lower(4) |-> IF 3 \in {e[1], e[2]} THEN 0 ELSE 2]})
            \cup Undirected(5, {[e \in Lower(5) |-> (a * e[1] + 3 * e[2]) % 10] : a \in {2, 4}})

(* Undirected graphs in which every vertex has a neighbour. *)
Mis == INSTANCE Mis WITH
  Graphs <- {g \in Undirected(4, {[e \in Lower(4) |-> IF e \in arcs THEN 1 ELSE 0] :
                                  arcs \in SUBSET Lower(4)}) :
               \A v \in Nodes(4) : g.offset[v] < g.offset[v + 1]},
  Hashes <- LAMBDA n : {[v \in Nodes(n) |-> (a * v + 1) % 5] : a \in {1, 2}},
  Counts <- {2}, MaxRound <- 5, Depth <- 3

(* Seven vertices in four lines of two, in a cache of two sets.            *)
Degree == INSTANCE Degree WITH
  Sets <- 2, Channels <- 2, UnrollBin <- 1, Old <- {0, 1},
  Inputs <- {[num |-> 7, index |-> [i \in 1 .. 8 |-> (a * i * i + b * i) % 7],
              weight |-> [i \in 1 .. 8 |-> 1 + w * (i % 3)]] :
             a \in 0 .. 4, b \in 0 .. 3, w \in {0, 1}}

CsrCsc == INSTANCE CsrCsc WITH
  Sets <- 2, Depth <- 2,
  Graphs <- Multigraphs \cup {g \in Digraphs(3) : g.offset[3] = 3} \cup
            {Csr(7, rows) : rows \in {[v \in Nodes(7) |-> <<(a * v + 1) % 7, (v + b) % 7>>] :
                                      a \in 0 .. 2, b \in {0, 2, 5}}}

(* Words of four 32-bit or two 64-bit distances; graphs of one word and of *)
(* two or three.                                                           *)
Sssp == INSTANCE Sssp WITH
  T <- 4, Sources <- {0, 2}, Queues <- {2, 3, 6}, MaxDegree <- 2, MaxValue <- 50,
  Graphs <- {[g EXCEPT !.weight = [i \in DOMAIN @ |-> 1 + ((@[i] * (i + 3)) % 7)]] :
             g \in Undirected(2, [Lower(2) -> {0, 1}]) \cup Undirected(4, [Lower(4) -> {0, 1}]) \cup
                   Undirected(5, {[e \in Lower(5) |-> (a * e[1] + b * e[2]) % 4] : a \in 1 .. 3, b \in 1 .. 3})}

Scc == INSTANCE Scc WITH
  MaxDegree <- 6,
  Graphs <- Digraphs(1) \cup Digraphs(3) \cup
            {Csr(4, rows) : rows \in {SimpleRows(4, arcs \cup path) :
                arcs \in SUBSET {e \in Pairs(4) : e[2] # 0},
                path \in {{<<0, 3>>, <<3, 1>>}, {<<0, 1>>, <<1, 2>>}}}}

(* Lists of none, two or four neighbours, in words of four. *)
EvenDigraph(n, a, b) ==
  LET row(v) == {(v + i) % n : i \in 1 .. 2 * ((a * v + b) % 3)}
  IN  Csr(n, SimpleRows(n, {e \in Pairs(n) : e[2] \in row(e[1])}))

Arcs(g) == FlattenSeq([v \in 1 .. g.num |-> [i \in 1 .. Len(Row(g, v - 1)) |->
                                               <<v - 1, Row(g, v - 1)[i]>>]])

Coalesce == INSTANCE Coalesce WITH
  T <- 4, BufDepth <- 3, MaxColase <- 3, Depth <- 2,
  Graphs <- {EvenDigraph(7, a, b) : a \in 0 .. 2, b \in 0 .. 2},
  EdgeLists <- LAMBDA g : {<< >>, Arcs(g), Reverse(Arcs(g))}

(* Long lists, in pieces of two words that start anywhere in a word. *)
TaskSplit == INSTANCE TaskSplit WITH
  Burst <- 2, Parallel <- 2, BufDepth <- 4, TaskLength <- 4, OffsetCacheSize <- 2, Depth <- 2,
  Distances <- {0, 2}, Leftovers <- {<< >>, <<[a |-> [offset |-> 0, length |-> 2], b |-> [offset |-> 0, length |-> 2]]>>},
  Graphs <- {Csr(6, SimpleRows(6, {e \in Pairs(6) : (a * e[1] + e[2]) % 4 # b})) : a \in 0 .. 2, b \in {2, 4}},
  EdgeLists <- LAMBDA g : {<< >>, Arcs(g), Reverse(Arcs(g))}

(* All pairs; two lists that share one element in four. *)
ParallelMerge == INSTANCE ParallelMerge WITH
  Parallel <- 2, BufDepth <- 5, MaxBurst <- 8, Ratio <- 3, LongList <- 5, Depth <- 2,
  Graphs <- {Csr(8, SimpleRows(8, {e \in Pairs(8) : (a * e[1] + b * e[2]) % 4 \in 0 .. (e[1] + c) % 4})) :
               a \in 0 .. 2, b \in {1, 3}, c \in 1 .. 3},
  EdgeLists <- LAMBDA g : {<< >>, Arcs(g), Reverse(Arcs(g))}

(* Lists of at most four, a word; the last edge list is not grouped. *)
Turned(edges) == [i \in DOMAIN edges |-> <<edges[i][2], edges[i][1]>>]

SingleCore == INSTANCE SingleCore WITH
  T <- 4, Burst <- 2, Parallel <- 2, OffsetCacheSize <- 2, CacheLength <- 4, Depth <- 2,
  Graphs <- {Csr(5, SimpleRows(5, {e \in Pairs(5) : (a * e[1] + b * e[2]) % 4 \in 0 .. (e[1] + c) % 4})) :
               a \in {0, 2}, b \in {1, 3}, c \in 0 .. 2},
  EdgeLists <- LAMBDA g : {<< >>, Arcs(g), Reverse(Arcs(g)), Turned(Arcs(g))}

FlaggedLists == INSTANCE FlaggedLists WITH
  Parallel <- 4, BufDepth <- 4, MaxBurst <- 7, Depth <- 2,
  Graphs <- {Csr(6, SimpleRows(6, {e \in Pairs(6) : (a * e[1] + b * e[2]) % 4 \in 0 .. (e[1] + c) % 4})) :
               a \in {0, 2}, b \in {1, 3}, c \in 0 .. 2} \cup {EvenDigraph(7, a, b) : a \in 1 .. 2, b \in 0 .. 2},
  EdgeLists <- LAMBDA g : {<< >>, Arcs(g), Reverse(Arcs(g)), Turned(Arcs(g))}

(* Coloured greedily; the last vertex may be a ghost. *)
Colored(g, ghost) ==
  LET color[v \in Nodes(g.num)] ==
        CHOOSE c \in Nodes(g.num) :
          /\ \A w \in ToSet(Row(g, v)) : w < v => color[w] # c
          /\ \A b \in Nodes(c) : \E w \in ToSet(Row(g, v)) : w < v /\ color[w] = b
  IN  g @@ [color |-> color, ghost |-> ghost,
            colors |-> 1 + CHOOSE c \in Nodes(g.num) : (\E v \in Nodes(g.num) : color[v] = c)
                             /\ \A v \in Nodes(g.num) : color[v] <= c]

(* With an edge from the second vertex to itself. *)
Looped ==
  Csr(3, 0 :> <<1>> @@ 1 :> <<0, 1, 2>> @@ 2 :> <<1>>) @@ [weight |-> Array(<<2, 2, 3, 1, 1>>)]

(* Two graphs that take four iterations; three and two vertices that join  *)
(* among others without edges; a ring with chords.                         *)
Weights(n, some) == some @@ [e \in Lower(n) |-> 0]

(* Weights of 186, of which the gains see 185: a vertex stays that would    *)
(* move, and one moves at a loss.                                          *)
OneLess ==
  Undirected(4, {Weights(4, <<0, 1>> :> 32 @@ <<0, 2>> :> 15 @@ <<0, 3>> :> 12 @@ <<1, 2>> :> 3 @@ <<1, 3>> :> 31),
                 Weights(4, <<0, 1>> :> 5 @@ <<0, 2>> :> 25 @@ <<1, 2>> :> 17 @@ <<1, 3>> :> 17 @@ <<2, 3>> :> 29)})

LongRuns ==
  Undirected(5, {Weights(5, <<0, 1>> :> 1 @@ <<0, 2>> :> 4 @@ <<0, 4>> :> 5 @@ <<1, 2>> :> 5 @@ <<1, 3>> :> 3
                              @@ <<1, 4>> :> 4 @@ <<2, 3>> :> 1 @@ <<2, 4>> :> 5 @@ <<3, 4>> :> 5)})
  \cup Undirected(6, {Weights(6, <<0, 2>> :> 1 @@ <<1, 2>> :> 1 @@ <<2, 3>> :> 3 @@ <<3, 5>> :> 5 @@ <<4, 5>> :> 3)})
  \cup Undirected(9, {Weights(9, <<0, 4>> :> 1 @@ <<0, 6>> :> 2 @@ <<2, 8>> :> 1)})
  \cup Undirected(7, {[e \in Lower(7) |-> IF e[2] - e[1] \in {1, d} THEN 1 + ((a * e[1] + e[2]) % 3) ELSE 0] :
                      a \in 1 .. 2, d \in {3, 6}})

Louvain == INSTANCE Louvain WITH
  Registers <- 2, Lags <- {0, 2}, Old <- {0, 1}, BigDegree <- 3, HashSize <- 2, MaxDegree <- 6,
  Units <- 2, Batch <- 4, Starts <- {-1}, Epsilon <- 0,
  Graphs <- {Colored(g, {}) : g \in LongRuns \cup OneLess \cup {Looped}} \cup
            {Colored(g, ghost) : ghost \in {{}, {4}},
             g \in Undirected(5, {[e \in Lower(5) |-> IF (a * e[1] + b * e[2]) % 4 = 0 THEN 0 ELSE 1 + ((a + b + e[1]) % 3)] :
                                  a \in 1 .. 2, b \in {1, 3}})}

(* Communities of one, of many and a vertex without edges; few places in    *)
(* the tables, so that they all fill up.                                   *)
Merge == INSTANCE Merge WITH
  Lags <- {0, 2}, Shift <- 3, Registers <- 3, NumSmall <- 1, Sizes <- <<2, 1>>, Depth <- 3,
  Graphs <- {Looped @@ [c |-> Array(<<1, 0, 1>>)]} \cup
            {g @@ [c |-> [v \in Nodes(6) |-> IF v < k THEN v ELSE (v * b) % k]] : k \in {1, 3, 5}, b \in 1 .. 2,
             g \in Undirected(6, {[e \in Lower(6) |-> IF (a * e[1] + d * e[2]) % 4 = 0 THEN 0 ELSE 1 + ((a + e[1]) % 3)] :
                                  a \in 1 .. 2, d \in {1, 3}})}

(* Files with loops, edges twice and edges in both directions; of up to     *)
(* three parts, one of which may be empty.                                 *)
Partition == INSTANCE Partition WITH
  Interval <- 3, Batch <- 4, BufDepth <- 3, Ratio <- 2,
  Files <- {[i \in 1 .. n |-> <<(a * i * i + i) % 8, (b * i) % 7>>] : a \in 1 .. 3, b \in 2 .. 4, n \in {6, 14, 30}}
           \cup {<<<<2, 2>>, <<0, 8>>, <<8, 1>>, <<0, 1>>>>, Arcs(Csr(6, SimpleRows(6, Pairs(6))))}

(* Rows of one element and of two; a write takes as many turns as there    *)
(* are registers, or none.                                                 *)
UramCache == INSTANCE UramCache WITH
  NData <- 4, NCache <- 2, PerLines <- {1, 2}, Lags <- {0, 2}, Values <- {0, 1}, MaxTurns <- 4

(* One slice, two, three, and two that leave a word over. *)
SlicedStream == INSTANCE SlicedStream WITH
  LineSizes <- {1, 2, 4, 5, 6}, MaxSliceSize <- 2, StreamDepth <- 2, NumLines <- 4
-----------------------------------------------------------------------------
Init == \/ kernel = "bfs" /\ Bfs!Init
        \/ kernel = "twoHop" /\ TwoHop!Init
        \/ kernel = "mst" /\ Mst!Init
        \/ kernel = "diameter" /\ Diameter!Init
        \/ kernel = "mis" /\ Mis!Init
        \/ kernel = "degree" /\ Degree!Init
        \/ kernel = "csrCsc" /\ CsrCsc!Init
        \/ kernel = "sssp" /\ Sssp!Init
        \/ kernel = "scc" /\ Scc!Init
        \/ kernel = "coalesce" /\ Coalesce!Init
        \/ kernel = "taskSplit" /\ TaskSplit!Init
        \/ kernel = "parallelMerge" /\ ParallelMerge!Init
        \/ kernel = "singleCore" /\ SingleCore!Init
        \/ kernel = "flagged" /\ FlaggedLists!Init
        \/ kernel = "louvain" /\ Louvain!Init
        \/ kernel = "merge" /\ Merge!Init
        \/ kernel = "partition" /\ Partition!Init
        \/ kernel = "uram" /\ UramCache!Init
        \/ kernel = "sliced" /\ SlicedStream!Init

Step == \/ kernel = "bfs" /\ Bfs!Next
        \/ kernel = "twoHop" /\ TwoHop!Next
        \/ kernel = "mst" /\ Mst!Next
        \/ kernel = "diameter" /\ Diameter!Next
        \/ kernel = "mis" /\ Mis!Next
        \/ kernel = "degree" /\ Degree!Next
        \/ kernel = "csrCsc" /\ CsrCsc!Next
        \/ kernel = "sssp" /\ Sssp!Next
        \/ kernel = "scc" /\ Scc!Next
        \/ kernel = "coalesce" /\ Coalesce!Next
        \/ kernel = "taskSplit" /\ TaskSplit!Next
        \/ kernel = "parallelMerge" /\ ParallelMerge!Next
        \/ kernel = "singleCore" /\ SingleCore!Next
        \/ kernel = "flagged" /\ FlaggedLists!Next
        \/ kernel = "louvain" /\ Louvain!Next
        \/ kernel = "merge" /\ Merge!Next
        \/ kernel = "partition" /\ Partition!Next
        \/ kernel = "uram" /\ UramCache!Next
        \/ kernel = "sliced" /\ SlicedStream!Next

Done == \/ kernel = "bfs" /\ Bfs!Done
        \/ kernel = "twoHop" /\ TwoHop!Done
        \/ kernel = "mst" /\ Mst!Done
        \/ kernel = "diameter" /\ Diameter!Done
        \/ kernel = "mis" /\ Mis!Done
        \/ kernel = "degree" /\ Degree!Done
        \/ kernel = "csrCsc" /\ CsrCsc!Done
        \/ kernel = "sssp" /\ Sssp!Done
        \/ kernel = "scc" /\ Scc!Done
        \/ kernel = "coalesce" /\ Coalesce!Done
        \/ kernel = "taskSplit" /\ TaskSplit!Done
        \/ kernel = "parallelMerge" /\ ParallelMerge!Done
        \/ kernel = "singleCore" /\ SingleCore!Done
        \/ kernel = "flagged" /\ FlaggedLists!Done
        \/ kernel = "louvain" /\ Louvain!Done
        \/ kernel = "merge" /\ Merge!Done
        \/ kernel = "partition" /\ Partition!Done
        \/ kernel = "uram" /\ UramCache!Done
        \/ kernel = "sliced" /\ SlicedStream!Done

Next == \/ Step /\ UNCHANGED kernel
        \/ Done /\ UNCHANGED vars

(* Weak fairness of Next, with what enables it written out: TLC finds no   *)
(* deadlock, so that a call that has not ended can take a step.            *)
Progress == []<>Done \/ []<><<TRUE>>_vars

Spec == Init /\ [][Next]_vars /\ Progress

(* Every call of a kernel ends: no loop misses its end and no process      *)
(* waits for ever on a FIFO.                                               *)
CallsEnd == <>Done

(* The triangle counters, that split, join or cache the lists of a graph,  *)
(* return the number of triangles.                                         *)
CountsTriangles ==
  /\ kernel = "coalesce" => Coalesce!CountsTriangles
  /\ kernel = "taskSplit" => TaskSplit!CountsTriangles
  /\ kernel = "parallelMerge" => ParallelMerge!CountsTriangles
  /\ kernel = "singleCore" => SingleCore!CountsTriangles
  /\ kernel = "flagged" => FlaggedLists!CountsTriangles
  /\ kernel = "partition" => Partition!CountsTriangles

(* Searches and trees: levels, distances, numbers of paths and the weight  *)
(* of the tree are what a reference definition says.                       *)
PathsAreRight ==
  /\ kernel = "bfs" => Bfs!LevelsAreDistances
  /\ kernel = "twoHop" => TwoHop!CountsTwoHopPaths
  /\ kernel = "mst" => Mst!TreeIsMinimal
  /\ kernel = "diameter" => Diameter!EstimateIsADistance
  /\ kernel = "sssp" => Sssp!DistancesAreShortest

(* Sets of vertices: labels are those of the strong components, a selected *)
(* set is maximal, the colours are sorted and the modularity is that of    *)
(* the communities found.                                                  *)
GroupsAreRight ==
  /\ kernel = "mis" => Mis!ResultIsMaximal
  /\ kernel = "scc" => Scc!LabelsAreLeast
  /\ kernel = "louvain" => Louvain!ColorsAreSorted
  /\ kernel = "louvain" => Louvain!ModularityIsRight

(* Degrees are the sums of the weights and a converted graph is the        *)
(* transpose of the one it was made from, through caches that write back   *)
(* late.                                                                   *)
ConversionsAreRight ==
  /\ kernel = "degree" => Degree!DegreesAreComplete
  /\ kernel = "csrCsc" => CsrCsc!IsTransposed
  /\ kernel = "merge" => Merge!MergedIsQuotient

(* Work that a kernel has yet to do, and what it has counted, is somewhere *)
(* in its queues, caches and memory.                                       *)
NothingIsForgotten ==
  /\ kernel = "diameter" => Diameter!NothingIsForgotten
  /\ kernel = "sssp" => Sssp!NothingIsForgotten
  /\ kernel = "degree" => Degree!NoCountIsLost
  /\ kernel = "csrCsc" => CsrCsc!PlacesAreDistinct
  /\ kernel = "louvain" => Louvain!NeighboursAreFlagged
  /\ kernel = "merge" => Merge!VerticesAreGrouped
  /\ kernel = "partition" => Partition!EdgesArePartitioned
  /\ kernel = "uram" => UramCache!RowsAreComplete


(* The buffers of a triangle counter hold the lists that their tags or the *)
(* requests say, whether they came from memory, a cache or a joined burst. *)
BuffersHoldTheirLists ==
  /\ kernel = "taskSplit" => TaskSplit!BuffersHoldTheirTasks
  /\ kernel = "parallelMerge" => ParallelMerge!BuffersHoldTheirLists
  /\ kernel = "singleCore" => SingleCore!BuffersHoldTheirLists
  /\ kernel = "flagged" => FlaggedLists!BuffersHoldTheirLists

(* Parts of the state that a kernel keeps twice agree, in its registers and *)
(* tables, and its steps keep their order.                                 *)
StateIsConsistent ==
  /\ kernel = "bfs" => Bfs!RegistersAreCurrent
  /\ kernel = "bfs" => Bfs!TimesAreConsistent
  /\ kernel = "mst" => Mst!HeapIsConsistent
  /\ kernel = "mis" => Mis!SelectedAreIndependent
  /\ kernel = "mis" => Mis!RoundsAreSeparate
  /\ kernel = "scc" => Scc!LabelsNeverMix
  /\ kernel = "louvain" => Louvain!CommunitiesAreCounted
  /\ kernel = "louvain" => Louvain!MovesRaiseModularity
  /\ kernel = "merge" => Merge!RegistersAreCurrent
  /\ kernel = "uram" => UramCache!ReadsAreCurrent
-----------------------------------------------------------------------------
(* Scc alone, on a graph of six vertices with a path from vertex 0 into    *)
(* two cycles: 2 and 3, and 1, 4 and 5.  A search writes more vertices to  *)
(* queueG2 than are left of its places when the search before it is read   *)
(* back.                                                                   *)
TwoCycles == Csr(6, 0 :> <<1, 2>> @@ 1 :> <<3, 4>> @@ 2 :> <<3>> @@
                    3 :> <<2>> @@ 4 :> <<5>> @@ 5 :> <<1>>)

WrappedScc == INSTANCE Scc WITH Graphs <- {TwoCycles}, MaxDegree <- 6

SccSpec == kernel = "scc" /\ WrappedScc!Init /\ [][WrappedScc!Next /\ UNCHANGED kernel]_vars

(* stronglyConnectedComponents labels "each vertex with one value          *)
(* containing the lowest vertex id in the SCC containing that vertex"      *)
(* (strongly_connected_components.hpp:1338-1340): here, that id plus one,  *)
(* which tells the components apart just as well.                          *)
LabelsAreLeastIds == WrappedScc!LabelsAreLeast
=============================================================================
