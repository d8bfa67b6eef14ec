------------------------------ MODULE MCParts ------------------------------
(* The parts that are checked one at a time, in one state space: the packet  *)
(* queue, the fastset, the codes of the compressed graphs, the main loop and *)
(* the kernels of the graph suites.  One of them moves; the others stay in   *)
(* one of their initial states.                                              *)
EXTENDS PacketQueue, FastSet, EdgeCodes, SimulationLoop, ComponentKernels, LevelSearch,
        DeltaStepping, EdgeMap, SignaturePath, GraphBuilder, Buckets, BlockedSequences,
        ParallelSorts, HashTables, SparseOutput

VARIABLE moving

(* Graphs of eight vertices: what the lists of vertices 2 and 3 hold, one  *)
(* of them with a loop, a duplicate or nothing, read with every header.    *)
Weights == <<1, -1, 2, 0, -3, 5, 1, -2>>
Weight(u, v) == Weights[((u + v) % 8) + 1]
Codes == [kind : {"byte", "nibble", "rle"}, weighted : BOOLEAN, chunk : {2, 9}]
Targets == {SetToSeq(s \cup {2}) : s \in kSubset(2, Vertices)}
           \cup {<<6, 1>> \o SetToSeq(s) :
                   s \in UNION {kSubset(k, Vertices) : k \in {0, 2}}}
Listing(c, u, targets) ==
    [i \in DOMAIN targets |->
        [to |-> targets[i], weight |-> IF c.weighted THEN Weight(u, targets[i]) ELSE 0]]
Graph(c, targets) ==
    [code |-> c, lists |-> [v \in Vertices |->
        Listing(c, v, CASE v = 2 -> targets [] v = 3 -> <<7>> [] OTHER -> <<>>)]]
Graphs == {Graph(c, t) : c \in Codes, t \in Targets}

(* For the kernels: one graph in which two nodes hang on one that may be   *)
(* skipped, one whose edges all lead down, one with two ways from a level  *)
(* to the same node, and one in which two nodes hook the same one, which   *)
(* may then be left out.                                                   *)
RowOf(rows, u) == IF u < Len(rows) THEN rows[u + 1] ELSE <<>>
Weighted(directed, rows) ==
    LET row == [u \in Nodes |-> RowOf(rows, u)]
    IN  [directed |-> directed, out |-> row,
         in |-> IF directed
                THEN [u \in Nodes |-> SetToSortSeq({v \in Nodes : u \in ToSet(row[v])}, <)]
                ELSE row,
         weight |-> [u \in Nodes |-> [i \in DOMAIN row[u] |-> ((u + row[u][i]) % 3) + 1]]]
SmallNetworks ==
    {Weighted(FALSE, << <<2>>, <<3>>, <<0, 3, 4>>, <<1, 2>>, <<2>> >>),
     Weighted(TRUE, << <<>>, <<>>, <<0>>, <<0, 1>>, <<1>> >>),
     Weighted(TRUE, << <<1, 2>>, <<4>>, <<3, 4>>, <<4>>, <<0>> >>),
     Weighted(TRUE, << <<>>, <<4>>, <<4, 3>>, <<>>, <<>> >>)}

(* For the searches by levels: also a graph with levels of 1, 2, 1, 1 and 1*)
(* nodes.  From node 0 the search goes down, bottom up until only node 3   *)
(* awakes, down again, and bottom up for node 5 with the bit of 3 still set.*)
SmallWebs ==
    Networks \cup {Weighted(FALSE, << <<1, 2>>, <<0, 3>>, <<0, 3>>, <<1, 2, 4>>, <<3, 5>>, <<4>> >>)}
AnyNetwork == CHOOSE g \in Networks : Degree(g, 3) > 0

(* For edgeMap: also a denser symmetric graph, and weights below zero, with*)
(* and without a cycle of negative weight.                                 *)
Reweighted(g, last) ==
    LET rows == << <<2, 3>>, <<-1>>, <<1, -4>>, <<-2>>, <<last>> >>
    IN  [g EXCEPT !.weight = [u \in Nodes |-> RowOf(rows, u)]]
TwoWays == CHOOSE g \in Networks : g.directed /\ Degree(g, 0) > 0
SmallMeshes ==
    {g \in Networks : Degree(g, 0) > 0}
    \cup {Weighted(FALSE, << <<1, 2, 3>>, <<0, 2>>, <<0, 1, 3>>, <<0, 2, 4>>, <<3>> >>),
          Reweighted(TwoWays, 5), Reweighted(TwoWays, 0)}

(* For the prefetcher: two pages in turn, then a third, and the first again*)
(* after it has lost its way of the table; and a page with the tag of one  *)
(* that is followed, a third, and the first again.                         *)
OnPage(p, s) == [i \in DOMAIN s |-> <<p, s[i]>>]
Sweeps == {OnPage(1, <<0, 1, 2, 3, 4, 5>>) \o OnPage(2, <<0, 2, 1, 3, 2, 4>>),
           OnPage(1, <<7, 5, 3, 1>>) \o OnPage(2, <<0, 1, 2, 3, 4, 5>>)}
PageSweeps == {s \o OnPage(3, <<0, 2, 1, 3>>) \o OnPage(1, <<2>>) : s \in Sweeps}
              \cup {OnPage(1, <<0, 1, 2, 3>>) \o OnPage(5, <<1, 2, 4, 5>>) \o OnPage(2, <<0, 1>>)
                       \o OnPage(3, <<0>>) \o OnPage(1, <<2, 6>>)}

(* For the builder: loops, duplicates and pairs of inverse edges; the node *)
(* of the largest number with an inverse missing or not.                   *)
EdgesOf(s) == [i \in DOMAIN s |-> [u |-> s[i][1], v |-> s[i][2], w |-> s[i][3]]]
SmallEdgeLists == {EdgesOf(<< <<2, 0, 1>>, <<0, 2, 2>>, <<2, 0, 3>>, <<1, 1, 1>> >>),
                   EdgesOf(<< <<2, 1, 1>>, <<0, 2, 1>>, <<0, 1, 1>>, <<3, 2, 1>> >>)}
SmallPlainLists == {EdgesOf([i \in DOMAIN s |-> <<s[i][1], s[i][2], 0>>]) : s \in
    {<< <<1, 0>>, <<2, 1>>, <<0, 2>>, <<3, 1>>, <<1, 3>>, <<3, 1>>, <<4, 2>>, <<2, 2>>,
        <<4, 3>>, <<0, 4>> >>,
     << <<2, 0>>, <<4, 0>>, <<3, 0>>, <<0, 3>>, <<0, 1>>, <<1, 5>>, <<5, 0>> >>,
     << <<5, 0>>, <<4, 5>>, <<3, 4>> >>, <<>>}}

(* For the primitives: arrays of one block, of two, of a last block that is*)
(* not full, and of so many that their sums are summed in blocks as well.  *)
ArrayOf(s) == [j \in 0 .. Len(s) - 1 |-> s[j + 1]]
SmallArrays ==
    {ArrayOf(s) : s \in {<<3>>, <<1, 4, 3>>, <<5, 1, 2, 7>>, <<2, 3, 4, 8, 5, 7, 9, 1, 6>>,
                        <<1, 3, 5, 7, 2, 4, 6, 8, 9, 11>>}}

(* For the sorts: with few and with many bucket sets, one to three blocks, *)
(* keys that do not occur, and for quicksort equal and ordered keys.       *)
SortsOf ==
    {[keys |-> k, m |-> 8, how |-> h] :
        h \in {"topdown", "bottomup", "quick"}, k \in {<<5, 0, 7, 0, 3, 5, 6, 1>>, <<2, 4, 2, 2>>}}
    \cup {[keys |-> k, m |-> 4, how |-> h] :
             h \in {"topdown", "bottomup"}, k \in {<<3, 0, 3, 1, 1, 0>>, <<2, 2, 0>>}}
    \cup {[keys |-> <<1, 0, 0, 1, 1, 1, 0>>, m |-> 2, how |-> "topdown"]}
    \cup {[keys |-> k, m |-> 8, how |-> "quick"] :
             k \in {<<1, 1, 1, 1, 1>>, <<1, 2, 3, 4, 5, 6>>, <<6, 5, 4, 3, 2, 1>>,
                    <<2, 1, 2, 3, 2, 1>>}}
SmallSorts == {c \in {[below |-> b] @@ s : s \in SortsOf, b \in BOOLEAN} :
                 c.below => c.how = "topdown"}

(* For the tables: keys that hash to one slot; calls that grow the table of*)
(* the histogram or find it larger than they need, with empty buckets.     *)
SmallAdditions == {<< <<1, 3>>, <<5, 4>>, <<1, 2>>, <<2, 1>> >>,
                   << <<1, 3>>, <<1, 4>>, <<5, 2>> >>}
SmallHash == [k \in 0 .. 7 |-> (k * 5 + k \div 4) % 8]
SmallHistograms ==
    {<< <<1, 5, 1, 3, 2, 6, 1>>, <<5, 5, 2, 1>>, <<1, 5>>, <<7, 7>> >>,
     << <<1, 5, 5>>, <<4, 6, 4, 3, 4, 2>>, <<0, 0, 2, 1, 4, 2, 0, 5, 4>> >>}

(* For the sparse output: a list over several blocks, a block with nothing,*)
(* vertices that come up in several blocks.                                *)
SmallFrontiers == {<< <<1, 2>>, <<2, 3, 1>>, <<>>, <<3>> >>, << <<1>>, <<2, 1, 3, 2>> >>,
                   << <<>>, <<2>> >>, << <<1, 2>>, <<2, 1>>, <<3, 1>> >>}

PartsInit ==
    /\ moving \in {"queue", "sets", "codes", "loop", "components", "levels", "distances",
                   "edges", "prefetcher", "builder", "buckets", "sequences", "sorts", "tables",
                   "output"}
    /\ Init
    /\ SetInit
    /\ moving # "codes" => /\ code = CHOOSE c \in Codes : TRUE
                           /\ input = Graph(code, <<6, 1>>).lists
    /\ CodesInit
    /\ moving # "loop" => cpus = CHOOSE n \in CoreCounts : TRUE
    /\ LoopInit
    /\ moving # "components" => kernel = "sv" /\ net = AnyNetwork
    /\ ComponentsInit
    /\ moving # "levels" => search = "dobfs" /\ web = AnyNetwork /\ origin = 3
    /\ SearchInit
    /\ moving # "distances" => road = AnyNetwork /\ source = 3
    /\ DeltaInit
    /\ moving # "edges" => app = "components" /\ mesh = CHOOSE g \in Meshes : ~g.directed
    /\ EdgeMapInit
    /\ moving # "prefetcher" => stream = CHOOSE s \in Streams : TRUE
    /\ PathInit
    /\ moving # "builder" => symmetrize = TRUE /\ in_place = TRUE /\ el = <<>>
    /\ BuilderInit
    /\ moving # "buckets" => client = "kcore" /\ d = [i \in Identifiers |-> 0]
    /\ BucketsInit
    /\ moving # "sequences" => /\ given = ArrayOf(<<3>>)
                                /\ primitive = CHOOSE c \in Calls : c.op = "pack"
    /\ SequencesInit
    /\ moving # "sorts" => sort = CHOOSE c \in SortCalls : c.how = "bottomup"
    /\ SortsInit
    /\ moving # "tables" => table = "histogram" /\ called = CHOOSE h \in Histograms : TRUE
    /\ TablesInit
    /\ moving # "output" => flagged = FALSE /\ once = TRUE /\ indices = << <<>>, <<2>> >>
    /\ OutputInit

PartsNext ==
    /\ UNCHANGED moving
    /\ IF moving = "queue" THEN Next ELSE UNCHANGED vars
    /\ IF moving = "sets" THEN SetNext ELSE UNCHANGED setVars
    /\ IF moving = "codes" THEN CodesNext ELSE UNCHANGED codeVars
    /\ IF moving = "loop" THEN LoopNext ELSE UNCHANGED loopVars
    /\ IF moving = "components" THEN ComponentsNext ELSE UNCHANGED componentVars
    /\ IF moving = "levels" THEN SearchNext ELSE UNCHANGED searchVars
    /\ IF moving = "distances" THEN DeltaNext ELSE UNCHANGED deltaVars
    /\ IF moving = "edges" THEN EdgeMapNext ELSE UNCHANGED edgeMapVars
    /\ IF moving = "prefetcher" THEN PathNext ELSE UNCHANGED pathVars
    /\ IF moving = "builder" THEN BuilderNext ELSE UNCHANGED builderVars
    /\ IF moving = "buckets" THEN BucketsNext ELSE UNCHANGED bucketVars
    /\ IF moving = "sequences" THEN SequencesNext ELSE UNCHANGED sequenceVars
    /\ IF moving = "sorts" THEN SortsNext ELSE UNCHANGED sortVars
    /\ IF moving = "tables" THEN TablesNext ELSE UNCHANGED tableVars
    /\ IF moving = "output" THEN OutputNext ELSE UNCHANGED outputVars

PartsSpec ==
    PartsInit /\ [][PartsNext]_<<vars, setVars, codeVars, loopVars, componentVars,
                                 searchVars, deltaVars, edgeMapVars, pathVars, builderVars, bucketVars,
                                 sequenceVars, sortVars, tableVars, outputVars,
                                 moving>>

---------------------------------------------------------------------------

(* GAP: the levels and distances of a graph, and the graph itself, which   *)
(* the builder makes, however the threads interleave.                      *)
GapExact == LevelsExact /\ DistancesExact /\ GraphExact

(* Ligra gives its applications what they ask for: edgeMap in each         *)
(* direction, the frontier of the sparse output, the next bucket, and      *)
(* sequences, sorts and tables.                                            *)
LigraExact == /\ EdgeMapExact /\ OutputExact /\ BucketsExact
              /\ SequencesExact /\ SortsExact /\ TablesExact
=============================================================================
