----------------------------- MODULE EdgeCodes -----------------------------
(* The compressed graphs of Ligra+: the encoder sorts every adjacency list,  *)
(* drops loops and duplicates, codes each list as differences and lays the   *)
(* codes one after the other; a list is found again by the offset and the    *)
(* degree of its vertex, and packOutNgh recodes a filtered list where the    *)
(* old one lies.  The codes: bytes or nibbles with a continuation bit, or    *)
(* runs of differences of equally many bytes (RLE); each alone or cut into   *)
(* chunks that a table of offsets finds (the -pd headers).                   *)
EXTENDS Integers, Sequences, FiniteSets, SequencesExt, FiniteSetsExt

CONSTANTS Inputs,       \* the graphs read, with the header they meet
          N,            \* vertices 0 .. N - 1
          Unit, First,  \* values of a later unit (128) and of a first (64)
          Nibble,       \* values of a nibble (8)
          Base, Signed, \* values of a byte (256), magnitudes beside a sign (128)
          Run, WideRun, \* longest runs: 64 without weights, 32 with
          OffsetBytes   \* units of one entry of a chunk table

VARIABLES code,   \* the header compiled in: kind, weights, chunk size
          input,  \* the lists read from the text file
          out,    \* array, offsets, degrees of the out-edges
          in,     \* the same of the in-edges
          loaded, \* the file was read into the vertices of a graph
          left,   \* ghost: the lists a reader should find
          spilled \* ghost: a recoded list was longer than the old one

codeVars == <<code, input, out, in, loaded, left, spilled>>

Vertices == 0 .. N - 1
None == [array |-> <<>>, offsets |-> <<>>, degrees |-> <<>>]
Zero == [value |-> 0, neg |-> FALSE, more |-> FALSE]
Plain(x) == [Zero EXCEPT !.value = x]
UnitAt(a, i) == IF i \in DOMAIN a THEN a[i] ELSE Zero

---------------------------------------------------------------------------
(* Writing.                                                                *)

(* Nothing is written for 0.                                               *)
RECURSIVE Digits(_, _)
Digits(x, r) ==
    IF x = 0 THEN <<>>
    ELSE <<[value |-> x % r, neg |-> FALSE, more |-> x >= r]>>
         \o Digits(x \div r, r)

Magnitude(x) == IF x < 0 THEN -x ELSE x

ByteCode(x) == Digits(x, Unit)
NibbleCode(x) == Digits(x, Nibble)

(* A first edge and a weight carry a sign: a bit of the first byte, or the *)
(* lowest bit of the nibbles, which is set when the value is not negative. *)
ByteSigned(x) ==
    LET m == Magnitude(x)
    IN  <<[value |-> m % First, neg |-> x < 0, more |-> m >= First]>>
        \o ByteCode(m \div First)
NibbleSigned(x) == NibbleCode(2 * Magnitude(x) + (IF x < 0 THEN 0 ELSE 1))

EdgeCode(x) == IF code.kind = "nibble" THEN NibbleCode(x) ELSE ByteCode(x)
SignedCode(x) == IF code.kind = "nibble" THEN NibbleSigned(x) ELSE ByteSigned(x)

WeightCode(e) == IF code.weighted THEN SignedCode(e.weight) ELSE <<>>

Difference(list, e) == list[e].to - list[e - 1].to

(* RLE: the bytes of a difference, and whether its weight takes four.      *)
Width(list, e) ==
    LET d == Difference(list, e)
    IN  [bytes |-> IF d < Base THEN 1 ELSE IF d < Base * Base THEN 2
                   ELSE IF d < Base * Base * Base THEN 3 ELSE 4,
         wide  |-> code.weighted /\ list[e].weight \notin (2 - Signed) .. (Signed - 1)]

Bytes(x, n) == [j \in 1 .. n |-> Plain((x \div Base ^ (j - 1)) % Base)]

RunWeight(w, wide) ==
    LET m == Magnitude(w)
    IN  <<[value |-> m % Signed, neg |-> w < 0, more |-> FALSE]>>
        \o IF wide THEN Bytes(m \div Signed, 3) ELSE <<>>

LongestRun == IF code.weighted THEN WideRun ELSE Run

RunCode(list, e, n) ==
    LET w == Width(list, e)
        header == (w.bytes - 1) + (IF w.wide THEN 4 ELSE 0)
                  + (IF code.weighted THEN 8 ELSE 4) * (n - 1)
    IN  <<Plain(header)>> \o FlattenSeq([j \in 1 .. n |->
            Bytes(Difference(list, e + j - 1), w.bytes)
            \o IF code.weighted THEN RunWeight(list[e + j - 1].weight, w.wide)
               ELSE <<>>])

(* The runs from edge e on.  A full run that ends with the list is written *)
(* in the loop and leaves an empty run for the end: one more header.       *)
RECURSIVE RunCodes(_, _)
RunCodes(list, e) ==
    LET n == Max({k \in 1 .. LongestRun : /\ e + k - 1 <= Len(list)
                                          /\ \A j \in 0 .. k - 1 :
                                                Width(list, e + j) = Width(list, e)})
    IN  RunCode(list, e, n)
        \o IF e + n <= Len(list) THEN RunCodes(list, e + n)
           ELSE IF n = LongestRun THEN <<Plain(255)>> ELSE <<>>

EdgeCodesOf(list) ==
    FlattenSeq([e \in 1 .. Len(list) - 1 |->
        EdgeCode(Difference(list, e + 1)) \o WeightCode(list[e + 1])])

RunCodesOf(list) == IF Len(list) = 1 THEN <<>> ELSE RunCodes(list, 2)

ChunkCode(v, list) ==
    SignedCode(list[1].to - v) \o WeightCode(list[1])
    \o IF code.kind = "rle" THEN RunCodesOf(list) ELSE EdgeCodesOf(list)

Chunks(degree) == 1 + (degree - 1) \div code.chunk
EntryUnits == IF code.kind = "nibble" THEN 2 * OffsetBytes ELSE OffsetBytes
Lengths(codes) == FoldLeft(LAMBDA n, c : n + Len(c), 0, codes)

(* sequentialCompressEdgeSet: the table of all chunks but the first, then  *)
(* the chunks, each with a first edge of its own.                          *)
ListCode(v, list) ==
    IF list = <<>> THEN <<>>
    ELSE LET n == Chunks(Len(list))
             chunks == [i \in 1 .. n |-> ChunkCode(v,
                          SubSeq(list, (i - 1) * code.chunk + 1,
                                 Min({i * code.chunk, Len(list)})))]
             Entry(i) == (n - 1) * EntryUnits + Lengths(SubSeq(chunks, 1, i))
         IN  FlattenSeq([i \in 1 .. n - 1 |-> [j \in 1 .. EntryUnits |->
                             IF j = 1 THEN Plain(Entry(i)) ELSE Zero]])
             \o FlattenSeq(chunks)

(* Nibbles are rounded up to whole bytes before the lists are joined.      *)
Rounded(units) ==
    IF code.kind = "nibble" /\ Len(units) % 2 = 1 THEN Append(units, Zero) ELSE units

(* parallelCompressEdges: every list in a buffer of its own, a scan over   *)
(* the sizes, then the copy to one array.                                  *)
Compressed(lists) ==
    LET codes == FoldLeft(LAMBDA c, list : Append(c, Rounded(ListCode(Len(c), list))),
                          <<>>, [i \in 1 .. N |-> lists[i - 1]])
    IN  [array   |-> FlattenSeq(codes),
         offsets |-> [v \in 0 .. N |-> Lengths(SubSeq(codes, 1, v))],
         degrees |-> [v \in Vertices |-> Len(lists[v])]]

---------------------------------------------------------------------------
(* Reading: each operator returns what it read and where the next begins.  *)

RECURSIVE ReadDigits(_, _, _)
ReadDigits(a, i, r) ==
    LET u == UnitAt(a, i)
    IN  IF ~u.more THEN [value |-> u.value, next |-> i + 1]
        ELSE LET rest == ReadDigits(a, i + 1, r)
             IN  [rest EXCEPT !.value = u.value + r * @]

ReadByte(a, i) == ReadDigits(a, i, Unit)
ReadNibble(a, i) == ReadDigits(a, i, Nibble)

Signs(neg, m) == IF neg THEN -m ELSE m

ReadByteSigned(a, i) ==
    LET u == UnitAt(a, i)
        rest == IF u.more THEN ReadByte(a, i + 1) ELSE [value |-> 0, next |-> i + 1]
    IN  [rest EXCEPT !.value = Signs(u.neg, u.value + First * @)]
ReadNibbleSigned(a, i) ==
    LET x == ReadNibble(a, i)
    IN  [x EXCEPT !.value = Signs(@ % 2 = 0, @ \div 2)]

ReadEdge(a, i) == IF code.kind = "nibble" THEN ReadNibble(a, i) ELSE ReadByte(a, i)
ReadSigned(a, i) ==
    IF code.kind = "nibble" THEN ReadNibbleSigned(a, i) ELSE ReadByteSigned(a, i)

ReadWeight(a, i) == IF code.weighted THEN ReadSigned(a, i)
                    ELSE [value |-> 0, next |-> i]

ReadBytes(a, i, n) ==
    FoldLeft(LAMBDA x, j : x + UnitAt(a, i + j - 1).value * Base ^ (j - 1),
             0, [j \in 1 .. n |-> j])

RunWeightAt(a, i, wide) ==
    LET u == UnitAt(a, i)
    IN  Signs(u.neg, u.value + IF wide THEN Signed * ReadBytes(a, i + 1, 3) ELSE 0)

(* One run of n edges after the edge to `last`.                            *)
ReadRun(a, i, last, bytes, wide, n) ==
    LET size == bytes + IF code.weighted THEN IF wide THEN 4 ELSE 1 ELSE 0
        Step(r, j) ==
            LET at == i + (j - 1) * size
                to == r.last + ReadBytes(a, at, bytes)
                w  == IF code.weighted THEN RunWeightAt(a, at + bytes, wide) ELSE 0
            IN  [list |-> Append(r.list, [to |-> to, weight |-> w]), last |-> to]
        all == FoldLeft(Step, [list |-> <<>>, last |-> last], [j \in 1 .. n |-> j])
    IN  [list |-> all.list, last |-> all.last, next |-> i + n * size]

(* The case of three bytes with a wide weight has no break: its run is     *)
(* followed by as many edges of the default case.  (The code goes on until *)
(* the degree is met exactly; here a list that is too long ends.)          *)
RECURSIVE ReadRuns(_, _, _, _)
ReadRuns(a, i, last, count) ==
    IF count <= 0 THEN <<>>
    ELSE LET h == UnitAt(a, i).value
             bytes == (h % 4) + 1
             wide == code.weighted /\ (h \div 4) % 2 = 1
             n == (h \div (IF code.weighted THEN 8 ELSE 4)) + 1
             one == ReadRun(a, i + 1, last, bytes, wide, n)
             two == IF bytes = 3 /\ wide
                    THEN ReadRun(a, one.next, one.last, 4, TRUE, n)
                    ELSE [one EXCEPT !.list = <<>>]
         IN  one.list \o two.list
             \o ReadRuns(a, two.next, two.last, count - Len(one.list) - Len(two.list))

RECURSIVE ReadEdges(_, _, _, _)
ReadEdges(a, i, last, count) ==
    IF count = 0 THEN <<>>
    ELSE LET d == ReadEdge(a, i)
             w == ReadWeight(a, d.next)
         IN  <<[to |-> last + d.value, weight |-> w.value]>>
             \o ReadEdges(a, w.next, last + d.value, count - 1)

ReadChunk(a, i, v, count) ==
    LET d == ReadSigned(a, i)
        w == ReadWeight(a, d.next)
    IN  <<[to |-> v + d.value, weight |-> w.value]>>
        \o IF code.kind = "rle"
           THEN ReadRuns(a, w.next, v + d.value, count - 1)
           ELSE ReadEdges(a, w.next, v + d.value, count - 1)

(* decode, decodeWgh: the first chunk lies behind the table, the others    *)
(* where the table says, counted from the start of the list.               *)
Decoded(g, v) ==
    LET degree == g.degrees[v]
        start == g.offsets[v] + 1
        n == Chunks(degree)
        At(c) == start + IF c = 1 THEN (n - 1) * EntryUnits
                         ELSE UnitAt(g.array, start + (c - 2) * EntryUnits).value
    IN  IF degree = 0 THEN <<>>
        ELSE FlattenSeq([c \in 1 .. n |->
                 ReadChunk(g.array, At(c), v,
                           Min({code.chunk, degree - (c - 1) * code.chunk}))])

---------------------------------------------------------------------------
(* The encoder and the graph in memory.                                    *)

(* Fault: duplicates stay.                                                 *)
CleanedFault(v, list) ==
    SelectSeq(SortSeq(list, LAMBDA d, e : d.to < e.to), LAMBDA e : e.to # v)

(* encodeGraphFromFile: sort, then keep what is no loop and differs from   *)
(* the last kept.                                                          *)
Cleaned(v, list) ==
    FoldLeft(LAMBDA kept, e :
                 IF e.to = v \/ (kept # <<>> /\ Last(kept).to = e.to) THEN kept
                 ELSE Append(kept, e),
             <<>>, SortSeq(list, LAMBDA d, e : d.to < e.to))

(* The in-edges: all edges sorted by target and source; a list starts at   *)
(* the first edge to its vertex, and one that has none where the next one  *)
(* to the right starts (scanIBack).                                        *)
Transposed(lists) ==
    LET edges == FlattenSeq([i \in 1 .. N |->
                   [j \in DOMAIN lists[i - 1] |->
                      [at |-> lists[i - 1][j].to, to |-> i - 1,
                       weight |-> lists[i - 1][j].weight]]])
        temp == SortSeq(edges, LAMBDA d, e :
                   d.at < e.at \/ (d.at = e.at /\ d.to < e.to))
        Starts(v) == {i \in DOMAIN temp : temp[i].at = v /\ (i = 1 \/ temp[i - 1].at # v)}
        Offset(v) == Min({Len(temp) + 1} \cup UNION {Starts(u) : u \in v .. N - 1})
    IN  [v \in Vertices |->
            [j \in 1 .. Offset(v + 1) - Offset(v) |->
                [to |-> temp[Offset(v) + j - 1].to,
                 weight |-> temp[Offset(v) + j - 1].weight]]]

CodesInit ==
    /\ \E g \in Inputs : code = g.code /\ input = g.lists
    /\ out = None
    /\ in = None
    /\ loaded = FALSE
    /\ left = [v \in Vertices |-> <<>>]
    /\ spilled = FALSE

(* The encoder writes both directions to a file.  It reads the first edge  *)
(* without asking whether one is left.                                     *)
EncodeGraph ==
    LET lists == [v \in Vertices |-> Cleaned(v, input[v])]
    IN  /\ out = None
        /\ \E v \in Vertices : lists[v] # <<>>
        /\ out' = Compressed(lists)
        /\ in' = Compressed(Transposed(lists))
        /\ left' = lists
        /\ UNCHANGED <<code, input, loaded, spilled>>

(* A program hangs the lists of the file into the vertices of its graph.   *)
ReadCompressedGraph ==
    /\ out # None
    /\ ~loaded
    /\ loaded' = TRUE
    /\ UNCHANGED <<code, input, out, in, left, spilled>>

Recoded(v, list) == Rounded(ListCode(v, list))

(* packOutNgh (graphs without weights): decode, filter, and code again     *)
(* over the old list when the degree went down.  A graph with a list       *)
(* overwritten by its neighbour is not followed further.                   *)
PackOutNgh(v, drop) ==
    LET start == out.offsets[v]
    IN  /\ out # None
        /\ ~code.weighted
        /\ ~spilled
        /\ \E kept \in {SelectSeq(Decoded(out, v), LAMBDA e : e.to \notin drop)} :
           \E units \in {Recoded(v, kept)} :
              /\ Len(kept) < out.degrees[v]
              /\ out' = [out EXCEPT
                           !.degrees[v] = Len(kept),
                           !.array = [i \in DOMAIN @ |->
                              IF i - start \in DOMAIN units THEN units[i - start]
                              ELSE @[i]]]
              /\ spilled' = (spilled \/ start + Len(units) > out.offsets[v + 1])
        /\ left' = [left EXCEPT ![v] = SelectSeq(@, LAMBDA e : e.to \notin drop)]
        /\ UNCHANGED <<code, input, in, loaded>>

CodesNext ==
    \/ EncodeGraph
    \/ ReadCompressedGraph
    \/ \E v \in Vertices : \E drop \in SUBSET {left[v][i].to : i \in DOMAIN left[v]} :
          PackOutNgh(v, drop)

---------------------------------------------------------------------------

(* decodeWgh of byteRLE.h loses its place after a run of three-byte        *)
(* differences with wide weights.                                          *)
Misread(list) ==
    /\ code.kind = "rle"
    /\ code.weighted
    /\ \E e \in 2 .. Len(list) : /\ (e - 1) % code.chunk # 0
                                 /\ Width(list, e) = [bytes |-> 3, wide |-> TRUE]

Neighbours(v) == {e \in ToSet(input[v]) : e.to # v}
Sources(v) == {[to |-> u, weight |-> e.weight] :
                 <<u, e>> \in {<<u, e>> \in Vertices \X UNION {Neighbours(x) : x \in Vertices} :
                                  e \in Neighbours(u) /\ e.to = v}}
Ascending(edges) == SetToSortSeq(edges, LAMBDA d, e : d.to < e.to)

(* A reader of the compressed graph finds, for every vertex and in both    *)
(* directions, the neighbours of the text file in ascending order, without *)
(* loops and duplicates and with their weights - but for the lists that    *)
(* the missing break spoils.  With bytes or nibbles in one chunk a         *)
(* filtered list never needs more room than the list it overwrites, so     *)
(* that packing one vertex leaves the edges of the next one alone.  (Runs  *)
(* break up, and the edges that move to the head of a chunk may take a     *)
(* unit more: those lists do overflow.)                                    *)
ListsExact ==
    /\ loaded /\ ~spilled =>
          \A v \in Vertices :
              /\ (Decoded(out, v) = left[v]) <=> ~Misread(left[v])
              /\ LET sources == Ascending(Sources(v))
                 IN  (Decoded(in, v) = sources) <=> ~Misread(sources)
              /\ ToSet(left[v]) \subseteq Neighbours(v)
    /\ code.kind # "rle" /\ (\A v \in Vertices : Len(input[v]) <= code.chunk) => ~spilled

=============================================================================
