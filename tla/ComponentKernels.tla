-------------------------- MODULE ComponentKernels --------------------------
(* The connected-component kernels of the GAP benchmark suite, as the        *)
(* threads of a parallel loop run them: Afforest (cc.cc), which links trees  *)
(* without locks, first along a sample of the edges and then along the rest  *)
(* but for one component, and Shiloach-Vishkin (cc_sv.cc), which hooks roots *)
(* with plain stores until nothing changes.  A step is one access to comp.   *)
EXTENDS ThreadedGraphs

CONSTANT NeighborRounds   \* neighbours of each node linked in the sample (2)
ASSUME RoundsAssumption == NeighborRounds \in Nat \ {0}

VARIABLES kernel,    \* "afforest" or "sv"
          net,       \* the graph
          comp,      \* comp
          hand,      \* of every thread: the node it has and where it is
          ahead,     \* nodes of the parallel loop that no thread has yet
          stage,     \* which parallel loop runs, and in which round
          skipped,   \* the component left out of the last linking, or none
          change     \* change (sv)

componentVars == <<kernel, net, comp, hand, ahead, stage, skipped, change>>

Idle == [at |-> "idle", u |-> 0, todo |-> <<>>, p |-> 0, high |-> 0, low |-> 0]
NoSkip == -1

ComponentsInit ==
    /\ kernel \in {"afforest", "sv"}
    /\ net \in Networks
    /\ comp = [n \in Nodes |-> n]
    /\ hand = [t \in Threads |-> Idle]
    /\ ahead = Nodes
    /\ stage = [loop |-> IF kernel = "sv" THEN "hook" ELSE "sample", round |-> 1]
    /\ skipped = NoSkip
    /\ change = FALSE

(* The edges of u that the last loop of Afforest still has to link.        *)
Rest(u) ==
    SubSeq(net.out[u], NeighborRounds + 1, Len(net.out[u]))
    \o IF net.directed THEN InNeighbours(net, u) ELSE <<>>

Todo(u) ==
    CASE stage.loop = "sample" ->
           IF stage.round \in DOMAIN net.out[u] THEN <<net.out[u][stage.round]>> ELSE <<>>
      [] stage.loop = "link" -> IF comp[u] = skipped THEN <<>> ELSE Rest(u)
      [] stage.loop = "hook" -> net.out[u]
      [] OTHER -> <<>>

Take(t, u) ==
    /\ hand[t].at = "idle"
    /\ u \in ahead
    /\ ahead' = ahead \ {u}
    /\ hand' = [hand EXCEPT ![t] =
                  IF stage.loop \in {"compress", "final"} THEN [Idle EXCEPT !.at = "test", !.u = u]
                  ELSE IF Todo(u) = <<>> THEN Idle
                  ELSE [Idle EXCEPT !.at = "first", !.u = u, !.todo = Todo(u)]]
    /\ UNCHANGED <<kernel, net, comp, stage, skipped, change>>

(* A thread that is through with an edge.                                  *)
NextEdge(h) ==
    IF Len(h.todo) = 1 THEN Idle
    ELSE [Idle EXCEPT !.at = "first", !.u = h.u, !.todo = Tail(h.todo)]

(* It has read both labels: equal, or a higher and a lower one.            *)
Compared(h, p, q) ==
    IF p = q THEN NextEdge(h)
    ELSE [h EXCEPT !.at = IF kernel = "sv" THEN "root" ELSE "high", !.p = 0,
                   !.high = Max({p, q}), !.low = Min({p, q})]

Reads(t, from, h) ==
    /\ hand[t].at = from
    /\ hand' = [hand EXCEPT ![t] = h]
    /\ UNCHANGED <<kernel, net, comp, ahead, stage, skipped, change>>

FirstLabel(t) ==
    Reads(t, "first", [hand[t] EXCEPT !.at = "second", !.p = comp[hand[t].u]])
SecondLabel(t) ==
    Reads(t, "second", Compared(hand[t], hand[t].p, comp[Head(hand[t].todo)]))

(* Link: the parent of the higher label is already the lower one, or the   *)
(* higher one is a root that may be claimed, or a step up is due.          *)
HighParent(t) ==
    LET h == hand[t] IN
    Reads(t, "high", IF comp[h.high] = h.low THEN NextEdge(h)
                     ELSE [h EXCEPT !.at = IF comp[h.high] = h.high THEN "swap" ELSE "up"])

(* Fault: the root is hooked without a look at what became of it.          *)
CompareAndSwapFault(t) ==
    /\ hand[t].at = "swap"
    /\ comp' = [comp EXCEPT ![hand[t].high] = hand[t].low]
    /\ hand' = [hand EXCEPT ![t] = NextEdge(hand[t])]
    /\ UNCHANGED <<kernel, net, ahead, stage, skipped, change>>

CompareAndSwap(t) ==
    LET h == hand[t] IN
    /\ h.at = "swap"
    /\ IF comp[h.high] = h.high
       THEN /\ comp' = [comp EXCEPT ![h.high] = h.low]
            /\ hand' = [hand EXCEPT ![t] = NextEdge(h)]
       ELSE /\ comp' = comp
            /\ hand' = [hand EXCEPT ![t] = [h EXCEPT !.at = "up"]]
    /\ UNCHANGED <<kernel, net, ahead, stage, skipped, change>>

UpOnce(t) == Reads(t, "up", [hand[t] EXCEPT !.at = "twice", !.p = comp[hand[t].high]])
UpTwice(t) == Reads(t, "twice", [hand[t] EXCEPT !.at = "low", !.p = comp[hand[t].p]])
LowParent(t) == Reads(t, "low", Compared(hand[t], hand[t].p, comp[hand[t].low]))

(* Shiloach-Vishkin: a root is hooked with a plain store, after the test.  *)
RootTest(t) ==
    LET h == hand[t] IN
    Reads(t, "root", IF comp[h.high] = h.high THEN [h EXCEPT !.at = "hook"]
                     ELSE NextEdge(h))
Hook(t) ==
    /\ hand[t].at = "hook"
    /\ change' = TRUE
    /\ comp' = [comp EXCEPT ![hand[t].high] = hand[t].low]
    /\ hand' = [hand EXCEPT ![t] = NextEdge(hand[t])]
    /\ UNCHANGED <<kernel, net, ahead, stage, skipped>>

(* Compress: the node hangs itself under its parent's parent while the     *)
(* parent is no root.  Nobody else writes its label.                       *)
CompressTest(t) ==
    LET u == hand[t].u IN
    Reads(t, "test", IF comp[u] = comp[comp[u]] THEN Idle
                     ELSE [hand[t] EXCEPT !.at = "shorten"])
GrandParent(t) ==
    Reads(t, "shorten", [hand[t] EXCEPT !.at = "store", !.p = comp[comp[hand[t].u]]])
Shorten(t) ==
    /\ hand[t].at = "store"
    /\ comp' = [comp EXCEPT ![hand[t].u] = hand[t].p]
    /\ hand' = [hand EXCEPT ![t] = [@ EXCEPT !.at = "test", !.p = 0]]
    /\ UNCHANGED <<kernel, net, ahead, stage, skipped, change>>

(* The barrier at the end of a parallel loop.  Before the last linking a   *)
(* component is picked to be left out: the most frequent of some samples,  *)
(* that is, any.                                                           *)
AfterLoop ==
    CASE stage.loop = "sample" -> [stage EXCEPT !.loop = "compress"]
      [] stage.loop = "compress" /\ kernel = "afforest" ->
           IF stage.round < NeighborRounds
           THEN [loop |-> "sample", round |-> stage.round + 1]
           ELSE [stage EXCEPT !.loop = "link"]
      [] stage.loop = "link" -> [stage EXCEPT !.loop = "final"]
      [] stage.loop = "final" -> [stage EXCEPT !.loop = "end"]
      [] stage.loop = "hook" -> [stage EXCEPT !.loop = "compress"]
      [] stage.loop = "compress" /\ kernel = "sv" ->
           [stage EXCEPT !.loop = IF change THEN "hook" ELSE "end"]

Barrier ==
    /\ ahead = {}
    /\ \A t \in Threads : hand[t] = Idle
    /\ stage.loop # "end"
    /\ stage' = AfterLoop
    /\ ahead' = IF AfterLoop.loop = "end" THEN {} ELSE Nodes
    /\ change' = IF AfterLoop.loop = "hook" THEN FALSE ELSE change
    /\ skipped' \in IF AfterLoop.loop = "link" THEN {comp[n] : n \in Nodes} ELSE {skipped}
    /\ UNCHANGED <<kernel, net, comp, hand>>

ComponentsNext ==
    \/ \E t \in Threads : \/ \E u \in Nodes : Take(t, u)
                          \/ FirstLabel(t) \/ SecondLabel(t) \/ HighParent(t)
                          \/ CompareAndSwap(t) \/ UpOnce(t) \/ UpTwice(t) \/ LowParent(t)
                          \/ RootTest(t) \/ Hook(t)
                          \/ CompressTest(t) \/ GrandParent(t) \/ Shorten(t)
    \/ Barrier

ComponentsSpec == ComponentsInit /\ [][ComponentsNext]_componentVars

---------------------------------------------------------------------------

Components == [g \in Networks |-> [n \in Nodes |-> Connected(g, n)]]

(* However the threads' reads and stores interleave, no hooking is lost    *)
(* for good, the component left out misses no edge, and in the end every   *)
(* node has the least node it is connected with as its label.  On the way  *)
(* labels only lead to lower nodes of the same component.                  *)
ComponentsExact ==
    \A n \in Nodes :
        /\ comp[n] # n => comp[n] < n /\ comp[n] \in Components[net][n]
        /\ stage.loop = "end" => comp[n] = Min(Components[net][n])
=============================================================================
