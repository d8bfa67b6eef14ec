---------------------------- MODULE SparseOutput ----------------------------
(* edgeMapSparse_no_filter of Ligra (ligra.h): the edges out of a frontier   *)
(* are cut into blocks of about as many edges, each block packs what its     *)
(* updates accept into its own part of an array, the parts are gathered, and *)
(* remDuplicates (utils.h) strikes out all but one copy of a vertex.  Blocks *)
(* and elements run in any order; a step is one edge, or one element.        *)
EXTENDS Integers, Sequences, SequencesExt, Functions

CONSTANTS Frontiers,   \* sequences of lists of neighbours, an edge at least
          EdgeBlock,   \* b_size (10000)
          SearchBase   \* _binary_search_base (16)

VARIABLES indices,     \* the lists of the vertices of the frontier
          flagged,     \* remove_duplicates
          once,        \* an update accepts a vertex once, or always
          reached,     \* the vertices that have been accepted
          edgesOut,    \* outEdges
          at,          \* edges a block has gone along
          cts,         \* elements a block has written, then where they go
          outs,
          flags,       \* GA.flags
          pass,        \* "map", "gather", "mark", "reset" and "end"
          open         \* blocks or elements of the parallel loop still to run

outputVars == <<indices, flagged, once, reached, edgesOut, at, cts, outs, flags, pass, open>>

NoOne == -1            \* UINT_E_MAX
SumTo(f, i) == FoldFunctionOnSet(+, 0, f, 0 .. i - 1)
m == Len(indices)
Offset == [j \in 0 .. m - 1 |-> SumTo([x \in 0 .. m - 1 |-> Len(indices[x + 1])], j)]
EdgeCount == SumTo([x \in 0 .. m - 1 |-> Len(indices[x + 1])], m)
n_blocks == 1 + (EdgeCount - 1) \div EdgeBlock

(* The first place at which a sorted array has at least v: halves, and the *)
(* rest one by one.                                                        *)
FirstAtLeast(a, v) ==
    LET Narrow[start \in 0 .. m, end \in 0 .. m] ==
            LET mid == (end + start) \div 2
            IN  IF end - start <= SearchBase THEN <<start, end>>
                ELSE IF a[mid] >= v THEN Narrow[start, mid] ELSE Narrow[mid + 1, end]
        range == Narrow[0, m]
        found == {j \in range[1] .. range[2] - 1 : a[j] >= v}
    IN  IF found = {} THEN range[2] ELSE Min(found)

(* A block begins with the first vertex whose edges begin in it or later;  *)
(* a block within the edges of one vertex has nothing to do.               *)
block_offs(i) == IF i = n_blocks THEN m ELSE FirstAtLeast(Offset, i * EdgeBlock)
Works(i) == i = n_blocks - 1 \/ block_offs(i) # block_offs(i + 1)
EdgesOfBlock(i) == FlattenSeq(SubSeq(indices, block_offs(i) + 1, block_offs(i + 1)))
Working == {i \in 0 .. n_blocks - 1 : Works(i) /\ EdgesOfBlock(i) # <<>>}

OutputInit ==
    /\ indices \in Frontiers
    /\ flagged \in BOOLEAN
    /\ once \in BOOLEAN
    /\ reached = {}
    /\ edgesOut = [x \in 0 .. EdgeCount - 1 |-> NoOne]
    /\ at = [i \in 0 .. n_blocks - 1 |-> 0]
    /\ cts = [i \in 0 .. n_blocks - 1 |-> 0]
    /\ outs = <<>>
    /\ flags = [v \in UNION {ToSet(indices[j]) : j \in 1 .. m} |-> NoOne]
    /\ pass = "map"
    /\ open = Working

(* decodeOutNghSparseSeq: the next edge of a block; what the update accepts*)
(* goes to the next place of the block.  The last block reads the offset   *)
(* of its first vertex also if it has none, one past the end of the        *)
(* offsets, and uses it for nothing.                                       *)
MapEdge(i) ==
    LET edges == EdgesOfBlock(i)
        ngh == edges[at[i] + 1]
        wrote == ~once \/ ngh \notin reached
    IN  /\ pass = "map" /\ i \in open
        /\ reached' = reached \cup {ngh}
        /\ edgesOut' = IF wrote THEN [edgesOut EXCEPT ![Offset[block_offs(i)] + cts[i]] = ngh]
                       ELSE edgesOut
        /\ cts' = IF wrote THEN [cts EXCEPT ![i] = @ + 1] ELSE cts
        /\ at' = [at EXCEPT ![i] = @ + 1]
        /\ open' = IF at[i] + 1 = Len(edges) THEN open \ {i} ELSE open
        /\ UNCHANGED <<indices, flagged, once, outs, flags, pass>>

(* The numbers of elements become the places of the parts.                 *)
EndOfEdges ==
    /\ pass = "map" /\ open = {}
    /\ cts' = [i \in DOMAIN cts |-> SumTo(cts, i)]
    /\ outs' = [x \in 1 .. SumTo(cts, n_blocks) |-> NoOne]
    /\ open' = Working
    /\ pass' = "gather"
    /\ UNCHANGED <<indices, flagged, once, reached, edgesOut, at, flags>>

StartOfPart(i) == Offset[block_offs(i)]
GatherPart(i) ==
    LET next == IF i = n_blocks - 1 THEN Len(outs) ELSE cts[i + 1] IN
    /\ pass = "gather" /\ i \in open
    /\ outs' = [x \in DOMAIN outs |-> IF x \in cts[i] + 1 .. next
                                    THEN edgesOut[StartOfPart(i) + x - 1 - cts[i]] ELSE outs[x]]
    /\ open' = open \ {i}
    /\ UNCHANGED <<indices, flagged, once, reached, edgesOut, at, cts, flags, pass>>

(* Each element writes its place to the flag of its vertex if that is free,*)
(* then all look who did.                                                  *)
EndOfPass(from, to) ==
    /\ pass = from /\ open = {} /\ pass' = to
    /\ open' = IF to = "end" THEN {} ELSE DOMAIN outs
    /\ UNCHANGED <<indices, flagged, once, reached, edgesOut, at, cts, flags>>
PartsGathered == EndOfPass("gather", IF flagged THEN "mark" ELSE "end") /\ outs' = outs
Mark(x) ==
    /\ pass = "mark" /\ x \in open
    /\ flags' = IF flags[outs[x]] = NoOne THEN [flags EXCEPT ![outs[x]] = x] ELSE flags
    /\ open' = open \ {x}
    /\ UNCHANGED <<indices, flagged, once, reached, edgesOut, at, cts, outs, pass>>
Marked == EndOfPass("mark", "reset") /\ outs' = outs
Reset(x) ==
    LET won == flags[outs[x]] = x IN
    /\ pass = "reset" /\ x \in open
    /\ flags' = IF won THEN [flags EXCEPT ![outs[x]] = NoOne] ELSE flags
    /\ outs' = IF won THEN outs ELSE [outs EXCEPT ![x] = NoOne]
    /\ open' = open \ {x}
    /\ UNCHANGED <<indices, flagged, once, reached, edgesOut, at, cts, pass>>
Distinct ==
    /\ EndOfPass("reset", "end")
    /\ outs' = SelectSeq(outs, LAMBDA v : v # NoOne)

OutputNext ==
    \/ EndOfEdges \/ PartsGathered \/ Marked \/ Distinct
    \/ \E x \in open : MapEdge(x) \/ GatherPart(x) \/ Mark(x) \/ Reset(x)

---------------------------------------------------------------------------

(* The new frontier has every vertex the updates accepted, as often as     *)
(* they did, or once if duplicates are removed; no place of it is left     *)
(* unwritten, and all the flags are free again for the next round.         *)
OutputExact ==
    pass = "end" =>
        LET all == FlattenSeq(indices)
            Copies(s, v) == Cardinality({x \in DOMAIN s : s[x] = v})
        IN  /\ \A v \in ToSet(all) :
                  Copies(outs, v) = IF once \/ flagged THEN 1 ELSE Copies(all, v)
            /\ ToSet(outs) = ToSet(all)
            /\ \A v \in DOMAIN flags : flags[v] = NoOne
=============================================================================
