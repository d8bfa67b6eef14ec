--------------------------- MODULE ThreadedGraphs ---------------------------
(* Graphs and threads, for the kernels of the graph suites: the neighbours   *)
(* that the compressed sparse rows give, and what the kernels are measured   *)
(* against.                                                                  *)
EXTENDS Integers, Sequences, FiniteSets, SequencesExt, FiniteSetsExt

CONSTANTS Networks,   \* graphs: directed, out[u] and in[u] in order, weight[u] beside out[u]
          Nodes,      \* NodeIDs, integers from 0 on
          Threads

Degree(g, u) == Len(g.out[u])
InNeighbours(g, u) == g.in[u]
Edges(g) == FoldFunction(LAMBDA s, n : Len(s) + n, 0, g.out)

(* What the builder makes: the edges again by destination, and in a graph  *)
(* that is not directed each of them in both directions.                   *)
Built(g) ==
    /\ g.directed \in BOOLEAN
    /\ g.out \in [Nodes -> Seq(Nodes)]
    /\ g.in \in [Nodes -> Seq(Nodes)]
    /\ \A u \in Nodes : ToSet(g.in[u]) = {v \in Nodes : u \in ToSet(g.out[v])}
    /\ ~g.directed => \A u \in Nodes : ToSet(g.in[u]) = ToSet(g.out[u])
ASSUME GraphsAssumption == Nodes \subseteq Nat /\ \A g \in Networks : Built(g)

---------------------------------------------------------------------------

(* The nodes an edge leads to or comes from, and all that a way of edges   *)
(* in any direction leads to.                                              *)
Beside(g, u, v) == v \in ToSet(g.out[u]) \/ u \in ToSet(g.out[v])
Enclosed(g, C) == \A u \in C : \A v \in Nodes : Beside(g, u, v) => v \in C
Connected(g, n) == {v \in Nodes : \A C \in SUBSET Nodes : n \in C /\ Enclosed(g, C) => v \in C}

(* The depth of every node: the least number of edges from s to it.        *)
Unreached == -1
DepthFrom(g, s) ==
    LET within[d \in 0 .. Cardinality(Nodes)] ==
            IF d = 0 THEN {s}
            ELSE within[d - 1] \cup UNION {ToSet(g.out[u]) : u \in within[d - 1]}
    IN  [v \in Nodes |-> LET found == {d \in DOMAIN within : v \in within[d]}
                         IN  IF found = {} THEN Unreached ELSE Min(found)]

(* parent is a tree of shortest paths from s over the nodes s reaches.     *)
ShortestPathTree(g, s, parent, none) ==
    LET depth == DepthFrom(g, s)
    IN  \A n \in Nodes :
            IF n = s THEN parent[n] = n
            ELSE IF depth[n] = Unreached THEN parent[n] = none
            ELSE /\ parent[n] \in Nodes
                 /\ n \in ToSet(g.out[parent[n]])
                 /\ depth[n] = depth[parent[n]] + 1

(* The shortest paths from s to each node, by their number.                *)
Paths(g, s) ==
    LET depth == DepthFrom(g, s)
        before(v) == {u \in Nodes : /\ depth[u] # Unreached /\ depth[v] = depth[u] + 1
                                    /\ v \in ToSet(g.out[u])}
        paths[v \in Nodes] ==
            IF v = s THEN 1 ELSE FoldFunction(+, 0, [u \in before(v) |-> paths[u]])
    IN  paths

(* The lengths of the paths to v whose last edge is added to dist.  With    *)
(* positive weights dist is the distance from s exactly when it is 0 at s  *)
(* and everywhere else the least of them, Far where there is none.         *)
Far == 1000
Through(g, dist, v) ==
    UNION {{dist[u] + g.weight[u][i] : i \in {j \in DOMAIN g.out[u] : g.out[u][j] = v}} :
             u \in {w \in Nodes : dist[w] # Far}}
Shortest(g, s, dist) ==
    /\ dist[s] = 0
    /\ \A v \in Nodes \ {s} : dist[v] = Min({Far} \cup Through(g, dist, v))
=============================================================================
