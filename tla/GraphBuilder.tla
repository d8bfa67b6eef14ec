---------------------------- MODULE GraphBuilder ---------------------------
(* How the GAP suite makes a graph of a list of edges (builder.h): threads   *)
(* fill compressed sparse rows by atomic cursors, which are then sorted and  *)
(* rid of loops and duplicates; or, in place, the memory of the edges is     *)
(* overwritten with the rows and, for a symmetric graph, the missing inverse *)
(* edges are spread into it.  Triangle counting (tc.cc) goes with it, being  *)
(* what relies on the rows' order and relabels the graph.                    *)
EXTENDS Integers, Sequences, FiniteSets, SequencesExt, FiniteSetsExt, Functions

CONSTANTS EdgeLists,    \* sequences of edges: u, v, and a weight w
          PlainLists,   \* without weights, to be built in place
          Fillers,      \* the threads
          BlockSize,    \* of ParallelPrefixSum (2^20)
          WordsAfter    \* what may be in memory after the counts of inverses

VARIABLES el,           \* the list
          symmetrize, in_place,
          building,     \* the stage
          offsets,      \* where each row begins; the cursors of a pass
          neighs,       \* the rows
          missing,      \* invs_needed
          extra,        \* total_missing_inv
          built,        \* the graph: its rows, and the rows of incoming edges
          filler,       \* per thread, its edge and where it goes
          unplaced      \* edges no thread has taken

builderVars == <<el, symmetrize, in_place, building, offsets, neighs, missing, extra,
                 built, filler, unplaced>>

Nobody == [at |-> "off", e |-> 0, to |-> 0]
FindMaxNodeID(list) == Max({0} \cup UNION {{list[i].u, list[i].v} : i \in DOMAIN list})
NumNodes == FindMaxNodeID(el) + 1
Ids == 0 .. NumNodes - 1

CountDegrees(list, transpose) ==
    [n \in Ids |->
        Cardinality({i \in DOMAIN list : (symmetrize \/ ~transpose) /\ list[i].u = n})
        + Cardinality({i \in DOMAIN list : /\ (symmetrize /\ ~in_place)
                                              \/ (~symmetrize /\ transpose)
                                           /\ list[i].v = n})]

(* Block by block: what the blocks before hold, then what the elements     *)
(* before in this block hold.                                              *)
ParallelPrefixSum(degrees) ==
    LET BlockSum(b) == SumFunctionOnSet(degrees, {i \in Ids : i \div BlockSize = b})
        Bulk(b) == SumFunctionOnSet([c \in 0 .. b |-> BlockSum(c)], 0 .. b - 1)
        blocks == (NumNodes + BlockSize - 1) \div BlockSize
    IN  [n \in 0 .. NumNodes |->
            IF n = NumNodes THEN Bulk(blocks)
            ELSE Bulk(n \div BlockSize)
                 + SumFunctionOnSet(degrees, {i \in Ids : i < n /\ i \div BlockSize
                                                                   = n \div BlockSize})]

Row(at, cells, n) == [i \in 1 .. at[n + 1] - at[n] |-> cells[at[n] + i - 1]]
Rows(at, cells) == [n \in Ids |-> Row(at, cells, n)]
NoGraph == [out |-> <<>>, in |-> <<>>]
Unweighted(rows) == [n \in Ids |-> [i \in DOMAIN rows[n] |-> [v |-> rows[n][i], w |-> 0]]]

BuilderInit ==
    /\ symmetrize \in BOOLEAN /\ in_place \in BOOLEAN
    /\ el \in IF in_place THEN PlainLists ELSE EdgeLists
    /\ building = IF in_place THEN "squish" ELSE "fill"
    /\ offsets = ParallelPrefixSum(CountDegrees(el, FALSE))
    /\ neighs = <<>>
    /\ missing = <<>> /\ extra = 0
    /\ built = NoGraph
    /\ filler = [t \in Fillers |-> Nobody]
    /\ unplaced = DOMAIN el

---------------------------------------------------------------------------
(* MakeCSR: each edge takes a place in the row of its source, of its       *)
(* destination, or of both, by fetch_and_add, and is then written there.   *)

Transpose == building = "fill_in"
Filling == building \in {"fill", "fill_in"}
SourceToo == symmetrize \/ ~Transpose
DestinationToo == symmetrize \/ Transpose

TakeEdge(t, i) ==
    /\ Filling /\ filler[t] = Nobody /\ i \in unplaced
    /\ unplaced' = unplaced \ {i}
    /\ filler' = [filler EXCEPT ![t] = [Nobody EXCEPT
                    !.at = IF SourceToo THEN "out" ELSE "in", !.e = i]]
    /\ UNCHANGED <<el, symmetrize, in_place, building, offsets, neighs, missing, extra, built>>

TakePlace(t) ==
    LET n == IF filler[t].at = "out" THEN el[filler[t].e].u ELSE el[filler[t].e].v
    IN  /\ filler[t].at \in {"out", "in"}
        /\ offsets' = [offsets EXCEPT ![n] = @ + 1]
        /\ filler' = [filler EXCEPT ![t].to = offsets[n],
                                    ![t].at = IF @ = "out" THEN "write_out" ELSE "write_in"]
        /\ UNCHANGED <<el, symmetrize, in_place, building, neighs, missing, extra, built, unplaced>>

WritePlace(t) ==
    LET e == el[filler[t].e]
        outward == filler[t].at = "write_out"
        there == IF outward THEN [v |-> e.v, w |-> e.w] ELSE [v |-> e.u, w |-> e.w]
    IN  /\ filler[t].at \in {"write_out", "write_in"}
        /\ neighs' = [i \in DOMAIN neighs \cup {filler[t].to} |->
                         IF i = filler[t].to THEN there ELSE neighs[i]]
        /\ filler' = [filler EXCEPT ![t] = IF outward /\ DestinationToo
                                           THEN [@ EXCEPT !.at = "in"] ELSE Nobody]
        /\ UNCHANGED <<el, symmetrize, in_place, building, offsets, missing, extra, built, unplaced>>

(* SquishCSR of a row: sorted, the least weight of each neighbour, and not *)
(* the node itself.                                                        *)
Before(x, y) == IF x.v = y.v THEN x.w < y.w ELSE x.v < y.v
Squished(n, row) ==
    LET sorted == SortSeq(row, Before)
        first == SelectSeq([i \in DOMAIN sorted |-> i],
                           LAMBDA i : i = 1 \/ sorted[i].v # sorted[i - 1].v)
    IN  SelectSeq([i \in DOMAIN first |-> sorted[first[i]]], LAMBDA x : x.v # n)

Filled ==
    LET at == ParallelPrefixSum(CountDegrees(el, Transpose))
        rows == [n \in Ids |-> Squished(n, Row(at, neighs, n))]
    IN  /\ Filling /\ unplaced = {} /\ \A t \in Fillers : filler[t] = Nobody
        /\ IF ~symmetrize /\ ~Transpose
           THEN /\ built' = [built EXCEPT !.out = rows]
                /\ building' = "fill_in"
                /\ offsets' = ParallelPrefixSum(CountDegrees(el, TRUE))
                /\ unplaced' = DOMAIN el
           ELSE /\ built' = IF symmetrize THEN [out |-> rows, in |-> rows]
                            ELSE [built EXCEPT !.in = rows]
                /\ building' = "end"
                /\ UNCHANGED <<offsets, unplaced>>
        /\ neighs' = <<>>
        /\ UNCHANGED <<el, symmetrize, in_place, missing, extra, filler>>

---------------------------------------------------------------------------
(* MakeCSRInPlace.  neighs is now the memory of the edges, two words each. *)

SquishEdges ==
    LET Less(e, f) == IF e.u = f.u THEN e.v < f.v ELSE e.u < f.u
        sorted == SortSeq(el, Less)
        first == SelectSeq([i \in DOMAIN sorted |-> i],
                           LAMBDA i : i = 1 \/ sorted[i] # sorted[i - 1])
        list == SelectSeq([i \in DOMAIN first |-> sorted[first[i]]], LAMBDA e : e.u # e.v)
    IN  /\ building = "squish"
        /\ neighs' = [i \in 0 .. 2 * Len(list) - 1 |->
                         IF i % 2 = 0 THEN list[i \div 2 + 1].u ELSE list[i \div 2 + 1].v]
        /\ offsets' = ParallelPrefixSum(CountDegrees(list, FALSE))
        /\ unplaced' = 0 .. Len(list) - 1
        /\ building' = "overwrite"
        /\ UNCHANGED <<el, symmetrize, in_place, missing, extra, built, filler>>

(* Each edge is read where it is and its destination written to the front; *)
(* then the cursors are shifted back.                                      *)
Overwrite ==
    LET Place(s, e) == [cell |-> [s.cell EXCEPT ![s.at[s.cell[2 * e]]] = s.cell[2 * e + 1]],
                        at |-> [s.at EXCEPT ![s.cell[2 * e]] = @ + 1]]
        last == Cardinality(unplaced)
        placed == FoldLeft(Place, [cell |-> neighs, at |-> offsets], [i \in 1 .. last |-> i - 1])
    IN  /\ building = "overwrite"
        /\ neighs' = placed.cell
        /\ offsets' = [n \in 0 .. NumNodes |-> IF n = 0 THEN 0 ELSE placed.at[n - 1]]
        /\ unplaced' = {}
        /\ building' = IF symmetrize THEN "count" ELSE "incoming"
        /\ UNCHANGED <<el, symmetrize, in_place, missing, extra, built, filler>>

Incoming ==
    LET out == Rows(offsets, neighs)
        in == [v \in Ids |-> SetToSortSeq({u \in Ids : v \in ToSet(out[u])}, <)]
    IN  /\ building = "incoming"
        /\ built' = [out |-> Unweighted(out), in |-> Unweighted(in)]
        /\ building' = "end"
        /\ UNCHANGED <<el, symmetrize, in_place, offsets, neighs, missing, extra, filler, unplaced>>

(* std::binary_search of cells from .. to - 1: the first that is not less, *)
(* by halves, whether or not they are in order.                            *)
binary_search(cell, from, to, x) ==
    LET first[r \in Nat \X Nat] ==
            LET mid == r[1] + (r[2] - r[1]) \div 2
            IN  IF r[1] = r[2] THEN r[1]
                ELSE IF cell[mid] < x THEN first[<<mid + 1, r[2]>>] ELSE first[<<r[1], mid>>]
        at == first[<<from, to>>]
    IN  at < to /\ cell[at] = x

(* Step 1: count, and make room.  The loop that moves the offsets reads    *)
(* one count more than there are.                                          *)
CountInverses ==
    LET Lacks(u, v) == ~binary_search(neighs, offsets[v], offsets[v + 1], u)
        needed == [v \in Ids |-> Cardinality({u \in Ids : /\ v \in ToSet(Row(offsets, neighs, u))
                                                          /\ Lacks(u, v)})]
    IN  /\ building = "count"
        /\ missing' = needed
        /\ \E w \in WordsAfter : extra' = SumFunction(needed) + w
        /\ offsets' = [n \in 0 .. NumNodes |->
                          offsets[n] + SumFunctionOnSet(needed, 0 .. n - 1)]
        /\ building' = "spread"
        /\ UNCHANGED <<el, symmetrize, in_place, neighs, built, filler, unplaced>>

(* Step 2: the rows move up, from the last one.  tail_index is where the   *)
(* next cell goes, its place in the moved row.                             *)
DownTo(a, b) == [i \in 1 .. a - b + 1 |-> a + 1 - i]
Spread ==
    LET size == offsets[NumNodes]
        room == [i \in 0 .. Max({size, Cardinality(DOMAIN neighs)}) - 1 |->
                    IF i \in DOMAIN neighs THEN neighs[i] ELSE -1]
        Cell(s, i) == [s EXCEPT !.cell[s.tail] = IF i - s.gap \in DOMAIN s.cell
                                                 THEN s.cell[i - s.gap] ELSE -1,
                                !.tail = @ - 1]
        RowUp(s, n) ==
            LET moved == FoldLeft(Cell, s, DownTo(offsets[n + 1] - 1, offsets[n] + missing[n]))
            IN  [moved EXCEPT !.gap = @ - missing[n], !.tail = @ - missing[n]]
        spread == FoldLeft(RowUp, [cell |-> room, tail |-> size - 1, gap |-> extra],
                           DownTo(NumNodes - 1, 0))
    IN  /\ building = "spread"
        /\ neighs' = spread.cell
        /\ building' = "inverses"
        /\ UNCHANGED <<el, symmetrize, in_place, offsets, missing, extra, built, filler, unplaced>>

(* Fault: off by one, an edge that was there is overwritten.               *)
AddInverseFault(s, u, i) ==
    LET v == s.cell[i]
        from == offsets[v] + s.missing[v]
    IN  IF v \notin Ids \/ binary_search(s.cell, from, offsets[v + 1], u) THEN s
        ELSE [cell |-> [s.cell EXCEPT ![from] = u],
              missing |-> [s.missing EXCEPT ![v] = @ - 1]]

(* Step 3: each cell whose inverse is not found puts it into the room left *)
(* in front of the row, which from then on is searched from there.         *)
AddInverse(s, u, i) ==
    LET v == s.cell[i]
        from == offsets[v] + s.missing[v]
    IN  IF v \notin Ids \/ binary_search(s.cell, from, offsets[v + 1], u) THEN s
        ELSE [cell |-> [s.cell EXCEPT ![from - 1] = u],
              missing |-> [s.missing EXCEPT ![v] = @ - 1]]
AddInverses ==
    LET OfNode(s, u) == FoldLeft(LAMBDA t, i : AddInverse(t, u, i), s,
                                 [i \in 1 .. offsets[u + 1] - offsets[u] - s.missing[u] |->
                                     offsets[u] + s.missing[u] + i - 1])
        added == FoldLeft(OfNode, [cell |-> neighs, missing |-> missing],
                          [i \in 1 .. NumNodes |-> i - 1])
        sorted == [n \in Ids |-> SortSeq(Row(offsets, added.cell, n), <)]
    IN  /\ building = "inverses"
        /\ neighs' = added.cell
        /\ missing' = added.missing
        /\ built' = [out |-> Unweighted(sorted), in |-> Unweighted(sorted)]
        /\ building' = "end"
        /\ UNCHANGED <<el, symmetrize, in_place, offsets, extra, filler, unplaced>>

BuilderNext ==
    \/ \E t \in Fillers : (\E i \in unplaced : TakeEdge(t, i)) \/ TakePlace(t) \/ WritePlace(t)
    \/ Filled \/ SquishEdges \/ Overwrite \/ Incoming
    \/ CountInverses \/ Spread \/ AddInverses
---------------------------------------------------------------------------
(* OrderedCount: for u > v > w, one walk along the row of u for each row   *)
(* of v.  RelabelByDegree: the largest degree gets the smallest number.    *)

Smaller(row, n) == SelectSeq(row, LAMBDA m : m < n)
Shared(row, others) ==
    LET Walk(s, w) ==
            LET it == Min({j \in s.it .. Len(row) : row[j] >= w})
            IN  [it |-> it, total |-> IF row[it] = w THEN s.total + 1 ELSE s.total]
    IN  FoldLeft(Walk, [it |-> 1, total |-> 0], others).total
OrderedCount(rows) ==
    SumFunction([u \in Ids |->
        SumFunction([i \in DOMAIN Smaller(rows[u], u) |->
            Shared(rows[u], Smaller(rows[rows[u][i]], rows[u][i]))])])

RelabelByDegree(rows) ==
    LET Larger(n, m) == IF Len(rows[n]) = Len(rows[m]) THEN n > m
                        ELSE Len(rows[n]) > Len(rows[m])
        order == SetToSortSeq(Ids, Larger)
        newId == [n \in Ids |-> (CHOOSE i \in DOMAIN order : order[i] = n) - 1]
        Renamed(row) == [i \in DOMAIN row |-> newId[row[i]]]
    IN  [m \in Ids |-> SortSeq(Renamed(rows[order[m + 1]]), <)]

(* What the loop read behind the counts, if it did.                        *)
Stray ==
    LET proper == {i \in DOMAIN el : el[i].u # el[i].v}
    IN  IF in_place /\ symmetrize
        THEN extra + Cardinality({el[i] : i \in proper}) - offsets[NumNodes] ELSE 0

(* Whatever the threads' order and whichever way it was built, the graph   *)
(* has the edges of the list, or theirs and the inverse ones: once each,   *)
(* with the least of their weights, in order and without loops; and each   *)
(* triangle is counted once, also after relabelling.  Only if the word     *)
(* behind the counts of inverses happens to be 0: with another one the rows*)
(* are moved up from the wrong places.                                     *)
GraphExact ==
    LET edges == {el[i] : i \in DOMAIN el}
        inverses == {[u |-> e.v, v |-> e.u, w |-> e.w] : e \in edges}
        Ends(n, E) == {[v |-> e.v, w |-> e.w] : e \in {f \in E : f.u = n /\ f.v # n}}
        Right(E) == [n \in Ids |->
            SetToSortSeq({x \in Ends(n, E) : \A y \in Ends(n, E) : x.v = y.v => x.w <= y.w},
                         Before)]
        rows == [n \in Ids |-> [i \in DOMAIN built.out[n] |-> built.out[n][i].v]]
        triangles == {S \in kSubset(3, Ids) :
                         \A n \in S : S \ {n} \subseteq ToSet(rows[n])}
    IN  building = "end" /\ Stray = 0 =>
            /\ built.out = Right(IF symmetrize THEN edges \cup inverses ELSE edges)
            /\ built.in = Right(IF symmetrize THEN edges \cup inverses ELSE inverses)
            /\ symmetrize => /\ OrderedCount(rows) = Cardinality(triangles)
                             /\ OrderedCount(RelabelByDegree(rows)) = Cardinality(triangles)
=============================================================================
