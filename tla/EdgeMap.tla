------------------------------ MODULE EdgeMap ------------------------------
(* edgeMap of Ligra (ligra.h) under five programs that loop over it: BFS,    *)
(* Components, BellmanFord, MIS and KCore.  A round goes along the edges of  *)
(* a vertexSubset from their sources (sparse, or dense forward) or from      *)
(* their destinations (dense), in parallel; a step is one access to the      *)
(* arrays that the vertices share.                                           *)
EXTENDS ThreadedGraphs

CONSTANTS Meshes,    \* graphs, as Networks; weights of any sign
          Divisor    \* more than m / Divisor edges make a frontier dense (20)

VARIABLES app,       \* the program
          mesh,      \* the graph
          root,      \* start
          value,     \* Parents, IDs, ShortestPathLen, flags or Degrees
          second,    \* prevIDs, Visited or coreNumbers
          subset,    \* Frontier: m, s, d, isDense; no array is the empty one
          mapped,    \* the subset whose edges are gone along
          passing,   \* "sparse", "forward" or "dense"; "test" and "decide" between
          outEdges,  \* the sparse output
          nextOnes,  \* the dense output
          worker,
          offered,   \* what the parallel loop has not yet given to a worker
          round      \* round; k in KCore

edgeMapVars == <<app, mesh, root, value, second, subset, mapped, passing, outEdges,
                 nextOnes, worker, offered, round>>

NoVertex == -1             \* UINT_E_MAX
UNDECIDED == 0
CONDITIONALLY_IN == 1
OUT == 2
IN_SET == 3                \* IN
NegativeFar == -1000
Rooted == {"bfs", "bellman_ford"}
Symmetric == {"components", "mis", "kcore"}
NoOutput == {"mis", "kcore"}
Off == [at |-> "off", edges |-> <<>>, r |-> 0, q |-> 0]

InOrder(S) == SetToSortSeq(S, LAMBDA x, y : x < y)
SparseSubset(s) == [m |-> Len(s), s |-> s, d |-> {}, dense |-> FALSE]
DenseSubset(d) == [m |-> Cardinality(d), s |-> <<>>, d |-> d, dense |-> TRUE]
ToSparse(V) == [V EXCEPT !.s = IF @ = <<>> /\ V.m > 0 THEN InOrder(V.d) ELSE @,
                         !.dense = FALSE]
ToDense(V) == [V EXCEPT !.d = IF @ = {} THEN ToSet(V.s) ELSE @, !.dense = TRUE]
Members(V) == IF V.dense THEN V.d ELSE ToSet(V.s)

EdgeMapInit ==
    /\ app \in Rooted \cup Symmetric
    /\ mesh \in Meshes
    /\ app \in Symmetric => ~mesh.directed
    /\ root \in IF app \in Rooted THEN Nodes ELSE {0}
    /\ value = [v \in Nodes |->
                  CASE app = "bfs" -> IF v = root THEN v ELSE NoVertex
                    [] app = "components" -> v
                    [] app = "bellman_ford" -> IF v = root THEN 0 ELSE Far
                    [] app = "mis" -> CONDITIONALLY_IN
                    [] app = "kcore" -> Degree(mesh, v)]
    /\ second = [v \in Nodes |-> 0]
    /\ subset = IF app \in Rooted THEN SparseSubset(<<root>>) ELSE DenseSubset(Nodes)
    /\ mapped = subset
    /\ passing = "test"
    /\ outEdges = <<>> /\ nextOnes = {}
    /\ worker = [w \in Threads |-> Off]
    /\ offered = {}
    /\ round = IF app = "kcore" THEN 1 ELSE 0

---------------------------------------------------------------------------
(* The programs' loops.                                                    *)

(* Nothing left, or as many rounds as vertices: a cycle of negative weight.*)
Finish ==
    /\ passing = "test" /\ app # "kcore"
    /\ \/ subset.m = 0 /\ value' = value
       \/ /\ subset.m > 0 /\ app = "bellman_ford" /\ round = Cardinality(Nodes)
          /\ value' = [v \in Nodes |-> NegativeFar]
    /\ passing' = "end"
    /\ UNCHANGED <<app, mesh, root, second, subset, mapped, outEdges, nextOnes, worker,
                   offered, round>>

(* Components first brings prevIDs up to date for the frontier.            *)
PrevID(v) == IF app = "components" /\ v \in Members(subset) THEN value[v] ELSE second[v]

NextRound ==
    /\ passing = "test" /\ app # "kcore" /\ subset.m > 0
    /\ app = "bellman_ford" => round < Cardinality(Nodes)
    /\ second' = [v \in Nodes |-> PrevID(v)]
    /\ mapped' = subset
    /\ passing' = "decide"
    /\ UNCHANGED <<app, mesh, root, value, subset, outEdges, nextOnes, worker, offered,
                   round>>

(* KCore: vertices whose degree is below k leave; Degrees is signed and k  *)
(* is not, so that a negative degree would pass for a large one.           *)
BelowK(v) == value[v] \in 0 .. round - 1
KCoreRound ==
    LET toRemove == {v \in Members(subset) : BelowK(v)}
        remaining == Members(subset) \ toRemove
    IN  /\ passing = "test" /\ app = "kcore"
        /\ subset' = DenseSubset(remaining)
        /\ second' = [v \in Nodes |-> IF v \in toRemove THEN round - 1 ELSE second[v]]
        /\ value' = [v \in Nodes |-> IF v \in toRemove THEN 0 ELSE value[v]]
        /\ mapped' = DenseSubset(toRemove)
        /\ round' = IF toRemove = {} THEN round + 1 ELSE round
        /\ passing' = IF toRemove # {} THEN "decide"
                      ELSE IF remaining = {} \/ round = Cardinality(Nodes) THEN "end"
                      ELSE "test"
        /\ UNCHANGED <<app, mesh, root, outEdges, nextOnes, worker, offered>>

(* What the programs do with the output of a round.                        *)
Filtered(V) == {v \in Members(V) : value[v] = UNDECIDED}
EndOfMap ==
    LET output == IF passing = "sparse"
                  THEN SparseSubset(SelectSeq(outEdges, LAMBDA v : v # NoVertex))
                  ELSE DenseSubset(nextOnes)
    IN  /\ passing \in {"sparse", "forward", "dense"}
        /\ offered = {} /\ \A w \in Threads : worker[w] = Off
        /\ subset' = CASE app = "mis" -> DenseSubset(Filtered(mapped))
                       [] app = "kcore" -> subset
                       [] OTHER -> output
        /\ second' = [v \in Nodes |-> IF app = "bellman_ford" /\ v \in Members(output)
                                      THEN 0 ELSE second[v]]
        /\ value' = [v \in Nodes |->
                       IF app = "mis" /\ v \in Members(mapped)
                       THEN CASE value[v] = CONDITIONALLY_IN -> IN_SET
                              [] value[v] = OUT -> OUT
                              [] OTHER -> CONDITIONALLY_IN
                       ELSE value[v]]
        /\ round' = IF app = "kcore" THEN round ELSE round + 1
        /\ passing' = "test"
        /\ mapped' = subset'
        /\ outEdges' = <<>> /\ nextOnes' = {}
        /\ UNCHANGED <<app, mesh, root, worker, offered>>

---------------------------------------------------------------------------
(* edgeMap.                                                                *)

OutDegrees(V) == FoldFunction(LAMBDA v, n : Degree(mesh, v) + n, 0, V.s)

ChooseForm ==
    LET threshold == Edges(mesh) \div Divisor
        vs == IF threshold > 0 THEN ToSparse(mapped) ELSE mapped
        degrees == IF threshold > 0 THEN OutDegrees(vs) ELSE 0
    IN  /\ passing = "decide"
        /\ IF mapped.m + degrees > threshold /\ (threshold > 0 => degrees > 0)
           THEN /\ mapped' = ToDense(vs)
                /\ passing' = IF app = "bellman_ford" THEN "forward" ELSE "dense"
                /\ offered' = Nodes
                /\ outEdges' = <<>>
           ELSE /\ mapped' = vs
                /\ passing' = "sparse"
                /\ offered' = IF degrees = 0 THEN {} ELSE 1 .. vs.m
                /\ outEdges' = [i \in 1 .. degrees |-> NoVertex]
        /\ UNCHANGED <<app, mesh, root, value, second, subset, nextOnes, worker, round>>

Cond(d) == CASE app = "bfs" -> value[d] = NoVertex
             [] app = "kcore" -> value[d] > 0
             [] OTHER -> TRUE

(* The edges an item of the parallel loop goes along: those out of a       *)
(* vertex of the frontier, each with its slot of the output, or those from *)
(* the frontier into a vertex.                                             *)
EdgesOut(v, offset) ==
    [i \in 1 .. Degree(mesh, v) |-> [s |-> v, d |-> mesh.out[v][i],
                                     w |-> mesh.weight[v][i], slot |-> offset + i]]
EdgesIn(v) ==
    LET from == SelectSeq(InNeighbours(mesh, v), LAMBDA u : u \in mapped.d)
        WeightFrom(u) == mesh.weight[u][CHOOSE i \in 1 .. Degree(mesh, u) : mesh.out[u][i] = v]
    IN  [i \in 1 .. Len(from) |-> [s |-> from[i], d |-> v, w |-> WeightFrom(from[i]), slot |-> 0]]
EdgesOfItem(x) ==
    CASE passing = "sparse" ->
           EdgesOut(mapped.s[x], OutDegrees([s |-> SubSeq(mapped.s, 1, x - 1)]))
      [] passing = "forward" -> IF x \in mapped.d THEN EdgesOut(x, 0) ELSE <<>>
      [] passing = "dense" -> IF Cond(x) THEN EdgesIn(x) ELSE <<>>

Begin(edges) ==
    IF edges = <<>> THEN Off
    ELSE [Off EXCEPT !.at = IF app \in {"bfs", "kcore"} THEN "cond" ELSE "first",
                     !.edges = edges]

GiveItem(w, x) ==
    /\ worker[w] = Off /\ x \in offered
    /\ offered' = offered \ {x}
    /\ worker' = [worker EXCEPT ![w] = Begin(EdgesOfItem(x))]
    /\ UNCHANGED <<app, mesh, root, value, second, subset, mapped, passing, outEdges,
                   nextOnes, round>>

Edge(w) == Head(worker[w].edges)
Continue(w, from, to) ==
    /\ worker[w].at = from
    /\ worker' = [worker EXCEPT ![w] = to]
    /\ UNCHANGED <<app, mesh, root, subset, mapped, passing, offered, round>>
Reading(w, from, to) ==
    Continue(w, from, to) /\ UNCHANGED <<value, second, outEdges, nextOnes>>

(* The destination is left alone, or, for all its edges, done with.        *)
TestCond(w) ==
    Reading(w, "cond",
            IF Cond(Edge(w).d) THEN [worker[w] EXCEPT !.at = "first"]
            ELSE IF passing = "dense" THEN Off ELSE Begin(Tail(worker[w].edges)))

(* The end of an update: what it returned decides about the output.        *)
Updated(w, from, m) ==
    /\ Continue(w, from, Begin(Tail(worker[w].edges)))
    /\ outEdges' = IF m /\ app \notin NoOutput /\ passing = "sparse"
                   THEN [outEdges EXCEPT ![Edge(w).slot] = Edge(w).d] ELSE outEdges
    /\ nextOnes' = IF m /\ app \notin NoOutput /\ passing # "sparse"
                   THEN nextOnes \cup {Edge(w).d} ELSE nextOnes

---------------------------------------------------------------------------
(* The update functions.                                                   *)

(* BFS: compare and swap.                                                  *)
SetParent(w) ==
    LET d == Edge(w).d
        free == value[d] = NoVertex
    IN  /\ app = "bfs" /\ worker[w].at = "first"
        /\ value' = IF free THEN [value EXCEPT ![d] = Edge(w).s] ELSE value
        /\ second' = second
        /\ Updated(w, "first", free)

(* KCore: an atomic subtraction.                                           *)
LowerDegree(w) ==
    /\ app = "kcore" /\ worker[w].at = "first"
    /\ value' = [value EXCEPT ![Edge(w).d] = @ - 1]
    /\ second' = second
    /\ Updated(w, "first", TRUE)

(* Components: origID, then the label of the source, then the minimum.     *)
ReadOrigID(w) ==
    /\ app = "components" /\ worker[w].at = "first"
    /\ Reading(w, "first", [worker[w] EXCEPT !.at = "source", !.r = value[Edge(w).d]])
ReadSourceID(w) ==
    /\ app = "components" /\ worker[w].at = "source"
    /\ Reading(w, "source", [worker[w] EXCEPT !.at = "min", !.q = value[Edge(w).s]])

Activates(w) == worker[w].r = second[Edge(w).d]

WriteMinID(w) ==
    LET d == Edge(w).d
        lower == IF passing = "dense" THEN worker[w].q < worker[w].r
                 ELSE worker[w].q < value[d]
        label == IF passing = "dense" THEN Min({worker[w].r, value[Edge(w).s]})
                 ELSE worker[w].q
    IN  /\ app = "components" /\ worker[w].at = "min"
        /\ value' = IF lower THEN [value EXCEPT ![d] = label] ELSE value
        /\ second' = second
        /\ Updated(w, "min", lower /\ Activates(w))

(* BellmanFord: the new length, the minimum, and the first to lower it in  *)
(* this round.                                                             *)
ReadLength(w) ==
    /\ app = "bellman_ford" /\ worker[w].at = "first"
    /\ Reading(w, "first",
               [worker[w] EXCEPT !.at = "min", !.q = value[Edge(w).s] + Edge(w).w])
WriteMinLength(w) ==
    LET d == Edge(w).d IN
    /\ app = "bellman_ford" /\ worker[w].at = "min"
    /\ second' = second
    /\ IF worker[w].q < value[d]
       THEN /\ value' = [value EXCEPT ![d] = worker[w].q]
            /\ Continue(w, "min", [worker[w] EXCEPT !.at = "visit"])
            /\ UNCHANGED <<outEdges, nextOnes>>
       ELSE value' = value /\ Updated(w, "min", FALSE)
Visit(w) ==
    LET d == Edge(w).d IN
    /\ app = "bellman_ford" /\ worker[w].at = "visit"
    /\ value' = value
    /\ second' = [second EXCEPT ![d] = 1]
    /\ Updated(w, "visit", second[d] = 0)

(* MIS: plain reads and writes of both flags; in a dense round the workers *)
(* of all its neighbours write the flag of a source.                       *)
ReadIn(w) ==
    LET e == Edge(w) IN
    /\ app = "mis" /\ worker[w].at = "first"
    /\ \/ /\ value[e.d] = IN_SET
          /\ Reading(w, "first", [worker[w] EXCEPT !.at = "out"])
       \/ /\ value[e.d] # IN_SET /\ e.d < e.s
          /\ Reading(w, "first", [worker[w] EXCEPT !.at = "mine"])
       \/ /\ value[e.d] # IN_SET /\ e.d >= e.s
          /\ Reading(w, "first", Begin(Tail(worker[w].edges)))
ReadMine(w) ==
    /\ app = "mis" /\ worker[w].at = "mine"
    /\ Reading(w, "mine", IF value[Edge(w).s] = CONDITIONALLY_IN
                          THEN [worker[w] EXCEPT !.at = "theirs"]
                          ELSE Begin(Tail(worker[w].edges)))
ReadTheirs(w) ==
    /\ app = "mis" /\ worker[w].at = "theirs"
    /\ Reading(w, "theirs", IF value[Edge(w).d] < OUT
                            THEN [worker[w] EXCEPT !.at = "undo"]
                            ELSE Begin(Tail(worker[w].edges)))
WriteFlag(w) ==
    /\ app = "mis" /\ worker[w].at \in {"out", "undo"}
    /\ value' = [value EXCEPT ![Edge(w).s] =
                   IF worker[w].at = "out" THEN OUT ELSE UNDECIDED]
    /\ second' = second
    /\ Updated(w, worker[w].at, TRUE)

EdgeMapNext ==
    \/ Finish \/ NextRound \/ KCoreRound \/ ChooseForm \/ EndOfMap
    \/ \E w \in Threads :
          \/ \E x \in offered : GiveItem(w, x)
          \/ TestCond(w) \/ SetParent(w) \/ LowerDegree(w)
          \/ ReadOrigID(w) \/ ReadSourceID(w) \/ WriteMinID(w)
          \/ ReadLength(w) \/ WriteMinLength(w) \/ Visit(w)
          \/ ReadIn(w) \/ ReadMine(w) \/ ReadTheirs(w) \/ WriteFlag(w)

---------------------------------------------------------------------------

(* A closed walk from a vertex the root reaches, shorter than nothing.     *)
NegativeCycle ==
    LET reached == {v \in Nodes : DepthFrom(mesh, root)[v] # Unreached}
        Step(u, v) == CHOOSE i \in 1 .. Degree(mesh, u) : mesh.out[u][i] = v
        Closed(c) == \A i \in DOMAIN c : c[(i % Len(c)) + 1] \in ToSet(mesh.out[c[i]])
        Length(c) == FoldFunction(+, 0, [i \in DOMAIN c |->
                         mesh.weight[c[i]][Step(c[i], c[(i % Len(c)) + 1])]])
    IN  \E k \in 2 .. Cardinality(Nodes) : \E c \in [1 .. k -> reached] :
            Closed(c) /\ Length(c) < 0

InCore(v, k) ==
    \E S \in SUBSET Nodes :
        v \in S /\ \A u \in S : Cardinality(S \cap ToSet(mesh.out[u])) >= k

(* The result does not depend on the order of the updates nor on the form  *)
(* of the rounds: a tree of shortest paths, the least label of each        *)
(* component, the shortest lengths or the report of a negative cycle, the  *)
(* independent set that a pass in the order of the vertices finds, and the *)
(* core numbers.                                                           *)
Result ==
    CASE app = "bfs" -> ShortestPathTree(mesh, root, value, NoVertex)
      [] app = "components" -> \A v \in Nodes : value[v] = Min(Connected(mesh, v))
      [] app = "bellman_ford" ->
           IF NegativeCycle THEN \A v \in Nodes : value[v] = NegativeFar
           ELSE Shortest(mesh, root, value)
      [] app = "mis" ->
           \A v \in Nodes :
               value[v] = IF \E u \in ToSet(mesh.out[v]) : u < v /\ value[u] = IN_SET
                          THEN OUT ELSE IN_SET
      [] app = "kcore" ->
           \A v \in Nodes : InCore(v, second[v]) /\ ~InCore(v, second[v] + 1)

(* toSparse never meets a size that differs from what the array holds (it  *)
(* would stop the program), BFS puts no vertex twice on a frontier, and    *)
(* the result is right.                                                    *)
EdgeMapExact ==
    /\ mapped.s = <<>> /\ mapped.m > 0 => Cardinality(mapped.d) = mapped.m
    /\ app = "bfs" => IsInjective(subset.s)
    /\ passing = "end" => Result
=============================================================================
