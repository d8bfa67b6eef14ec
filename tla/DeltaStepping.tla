--------------------------- MODULE DeltaStepping ---------------------------
(* Delta-stepping of the GAP benchmark suite (sssp.cc) with its threads: the *)
(* shared bin in one array, the private bins of each thread, two barriers in *)
(* an iteration, and the pairs of shared variables that take turns.          *)
EXTENDS ThreadedGraphs

CONSTANTS Delta,
          FusionLimit,   \* kBinSizeThreshold (1000)
          Bins           \* bound: bins 0 .. Bins - 1

VARIABLES road,          \* the graph
          source,
          dist,
          frontier,      \* the shared bin
          sharedIndexes, \* shared_indexes[0..1]: this bin and the next
          tails,         \* frontier_tails[0..1]
          localBins,     \* of each thread, from bin to the nodes in it
          iter,          \* of each thread
          pace,          \* of each thread: where it is
          items,         \* positions of the frontier nobody has taken yet
          single         \* the single construct of this iteration was entered

deltaVars == <<road, source, dist, frontier, sharedIndexes, tails, localBins, iter,
               pace, items, single>>

NoBin == 1000
Bin == 0 .. Bins - 1
Curr(t) == iter[t] % 2
Coming(t) == (iter[t] + 1) % 2
At(a) == [at |-> a, nodes |-> <<>>, edge |-> 0, old |-> 0, new |-> 0]

DeltaInit ==
    /\ road \in Networks
    /\ source \in Nodes /\ Degree(road, source) > 0
    /\ dist = [n \in Nodes |-> IF n = source THEN 0 ELSE Far]
    /\ frontier = <<source>>
    /\ sharedIndexes = [i \in {0, 1} |-> IF i = 0 THEN 0 ELSE NoBin]
    /\ tails = [i \in {0, 1} |-> IF i = 0 THEN 1 ELSE 0]
    /\ localBins = [t \in Threads |-> [b \in Bin |-> <<>>]]
    /\ iter = [t \in Threads |-> 0]
    /\ pace = [t \in Threads |-> At("head")]
    /\ items = {1}
    /\ single = FALSE

Goto(t, from, p) == pace[t].at = from /\ pace' = [pace EXCEPT ![t] = p]

(* while (shared_indexes[iter & 1] != kMaxBin)                             *)
LoopHead(t) ==
    /\ Goto(t, "head", At(IF sharedIndexes[Curr(t)] = NoBin THEN "end" ELSE "shared"))
    /\ UNCHANGED <<road, source, dist, frontier, sharedIndexes, tails, localBins, iter,
                   items, single>>

(* RelaxEdges for these nodes in turn, from their first edge; a thread that *)
(* has no more of them goes back to where it took them from.               *)
Relax(nodes) ==
    LET live == SelectSeq(nodes, LAMBDA n : Degree(road, n) > 0)
    IN  IF live = <<>> THEN At("shared")
        ELSE [At("old") EXCEPT !.nodes = live, !.edge = 1]

AfterEdge(r) ==
    IF r.edge < Degree(road, Head(r.nodes))
    THEN [At("old") EXCEPT !.nodes = r.nodes, !.edge = r.edge + 1]
    ELSE Relax(Tail(r.nodes))

StillInBin(u, b) == dist[u] >= Delta * b

(* A node of the shared bin, unless its distance has left the bin.         *)
TakeItem(t, i) ==
    /\ LET u == frontier[i] IN
       Goto(t, "shared", IF StillInBin(u, sharedIndexes[Curr(t)]) THEN Relax(<<u>>)
                         ELSE At("shared"))
    /\ items' = items \ {i}
    /\ UNCHANGED <<road, source, dist, frontier, sharedIndexes, tails, localBins, iter,
                   single>>

(* The thread's own part of this bin, while it is small.                   *)
Fuse(t) ==
    LET b == sharedIndexes[Curr(t)]
        mine == localBins[t][b]
        fused == mine # <<>> /\ Len(mine) < FusionLimit
    IN  /\ items = {}
        /\ Goto(t, "shared", IF fused THEN Relax(mine) ELSE At("vote"))
        /\ localBins' = IF fused THEN [localBins EXCEPT ![t][b] = <<>>] ELSE localBins
        /\ UNCHANGED <<road, source, dist, frontier, sharedIndexes, tails, iter, items,
                       single>>

Target(r) == road.out[Head(r.nodes)][r.edge]

ReadOld(t) ==
    LET r == pace[t]
    IN  /\ Goto(t, "old", [r EXCEPT !.at = "new", !.old = dist[Target(r)]])
        /\ UNCHANGED <<road, source, dist, frontier, sharedIndexes, tails, localBins,
                       iter, items, single>>

ReadNew(t) ==
    LET r == pace[t]
        new == dist[Head(r.nodes)] + road.weight[Head(r.nodes)][r.edge]
    IN  /\ Goto(t, "new", IF new < r.old THEN [r EXCEPT !.at = "swap", !.new = new]
                          ELSE AfterEdge(r))
        /\ UNCHANGED <<road, source, dist, frontier, sharedIndexes, tails, localBins,
                       iter, items, single>>

(* Fault: a failed swap is not tried again.                                *)
RetryFault(r) == AfterEdge(r)

(* After a failed swap the distance is read again.                         *)
Retry(r) == IF r.new < dist[Target(r)] THEN [r EXCEPT !.old = dist[Target(r)]]
            ELSE AfterEdge(r)

Lower(t) ==
    LET r == pace[t] IN
    /\ Goto(t, "swap", AfterEdge(r))
    /\ dist[Target(r)] = r.old
    /\ dist' = [dist EXCEPT ![Target(r)] = r.new]
    /\ localBins' = [localBins EXCEPT ![t][r.new \div Delta] = Append(@, Target(r))]
    /\ UNCHANGED <<road, source, frontier, sharedIndexes, tails, iter, items, single>>

MissSwap(t) ==
    LET r == pace[t] IN
    /\ Goto(t, "swap", Retry(r))
    /\ dist[Target(r)] # r.old
    /\ UNCHANGED <<road, source, dist, frontier, sharedIndexes, tails, localBins, iter,
                   items, single>>

(* The thread's first bin that holds something, from this one on.          *)
Vote(t) ==
    LET full == {b \in Bin : b >= sharedIndexes[Curr(t)] /\ localBins[t][b] # <<>>}
    IN  /\ Goto(t, "vote", At("barrier"))
        /\ sharedIndexes' = IF full = {} THEN sharedIndexes
                            ELSE [sharedIndexes EXCEPT ![Coming(t)] = Min({@} \cup full)]
        /\ UNCHANGED <<road, source, dist, frontier, tails, localBins, iter, items,
                       single>>

FirstBarrier ==
    /\ \A t \in Threads : pace[t].at = "barrier"
    /\ pace' = [t \in Threads |-> At("single")]
    /\ UNCHANGED <<road, source, dist, frontier, sharedIndexes, tails, localBins, iter,
                   items, single>>

(* One thread clears what this iteration used, to be the next of the next; *)
(* the others do not wait for it.                                          *)
Single(t) ==
    /\ Goto(t, "single", At(IF single THEN "copy" ELSE "clear"))
    /\ single' = TRUE
    /\ UNCHANGED <<road, source, dist, frontier, sharedIndexes, tails, localBins, iter,
                   items>>
Clear(t) ==
    /\ Goto(t, "clear", At("copy"))
    /\ sharedIndexes' = [sharedIndexes EXCEPT ![Curr(t)] = NoBin]
    /\ tails' = [tails EXCEPT ![Curr(t)] = 0]
    /\ UNCHANGED <<road, source, dist, frontier, localBins, iter, items, single>>

(* Each thread copies its part of the next bin behind the others' parts.   *)
CopyBin(t) ==
    LET b == sharedIndexes[Coming(t)]
        from == tails[Coming(t)]
        mine == IF b \in Bin THEN localBins[t][b] ELSE <<>>
    IN  /\ Goto(t, "copy", At("end of round"))
        /\ tails' = [tails EXCEPT ![Coming(t)] = @ + Len(mine)]
        /\ frontier' = [i \in 1 .. Max({Len(frontier), from + Len(mine)}) |->
                          IF i - from \in DOMAIN mine THEN mine[i - from] ELSE frontier[i]]
        /\ localBins' = IF b \in Bin THEN [localBins EXCEPT ![t][b] = <<>>] ELSE localBins
        /\ iter' = [iter EXCEPT ![t] = @ + 1]
        /\ UNCHANGED <<road, source, dist, sharedIndexes, items, single>>

SecondBarrier ==
    /\ \A t \in Threads : pace[t].at = "end of round"
    /\ pace' = [t \in Threads |-> At("head")]
    /\ \E t \in Threads : items' = 1 .. tails[Curr(t)]
    /\ iter' = [t \in Threads |-> iter[t] % 2]
    /\ single' = FALSE
    /\ UNCHANGED <<road, source, dist, frontier, sharedIndexes, tails, localBins>>

DeltaNext ==
    \/ \E t \in Threads : \/ LoopHead(t) \/ Fuse(t) \/ ReadOld(t) \/ ReadNew(t)
                          \/ Lower(t) \/ MissSwap(t) \/ Vote(t) \/ Single(t) \/ Clear(t)
                          \/ CopyBin(t)
                          \/ \E i \in items : TakeItem(t, i)
    \/ FirstBarrier \/ SecondBarrier

---------------------------------------------------------------------------

(* SSSPVerifier's claim, for every interleaving: no improvement is lost    *)
(* between the private bins, the votes and the shared bin, and the threads *)
(* all see the same bin and stop in the same iteration.                    *)
DistancesExact ==
    /\ (\A t \in Threads : pace[t].at = "end") => Shortest(road, source, dist)
    /\ \A t, u \in Threads :
          pace[t].at = "end" => /\ pace[u].at \in {"head", "end"}
                                /\ sharedIndexes[Curr(u)] = NoBin
=============================================================================
