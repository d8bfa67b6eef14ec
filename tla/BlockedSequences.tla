-------------------------- MODULE BlockedSequences --------------------------
(* The primitives on arrays of the graph suite Ligra (utils.h and            *)
(* sequence.h): reduce, scan, pack and filterf.  Each cuts its array into    *)
(* blocks, runs a parallel loop over the blocks, scans what the blocks gave  *)
(* and runs a second loop; the blocks of a loop run in any order.            *)
EXTENDS Integers, Sequences, SequencesExt, Functions

CONSTANTS Arrays,      \* inputs, functions on 0 .. n - 1 with n > 0
          ScanBlock,   \* _SCAN_BSIZE, _block_size
          Lanes,       \* flags in a machine word (4)
          FlagWords,       \* words sumFlagsSerial adds up at a time (128)
          LaneSize     \* values of a lane (256)

VARIABLES primitive,   \* the call
          given,       \* the array before the call
          arrays,      \* the array, then the Sums of each array before it
          packed,      \* Out
          loop,        \* "sums" or "blocks", the loop that runs; "end"
          unrun,     \* the blocks of the loop that have not run
          total        \* what the call returns

sequenceVars == <<primitive, given, arrays, packed, loop, unrun, total>>

Fresh == -99           \* memory nobody has written, and the empty element
Neutral == [add |-> 0, min |-> 50, max |-> -50]
Combine(fn, x, y) == CASE fn = "add" -> x + y
                       [] fn = "min" -> IF y < x THEN y ELSE x
                       [] fn = "max" -> IF y > x THEN y ELSE x
Fold(fn, base, a, S) == FoldFunctionOnSet(LAMBDA x, r : Combine(fn, r, x), base, a, S)
Size(a) == Cardinality(DOMAIN a)
Upwards(S) == SetToSortSeq(S, LAMBDA x, y : x < y)

(* The flags of pack and the predicate of filterf.                         *)
Kept(a, S) == {j \in S : a[j] % 2 = 1}

nblocks(n, bsize) == 1 + (n - 1) \div bsize
Block(i, n, bsize) == i * bsize .. Min({i * bsize + bsize, n}) - 1

Calls ==
    [op : {"reduce"}, fn : {"add", "max"}, inclusive : {FALSE}, back : {FALSE},
     nested : BOOLEAN]
    \cup [op : {"scan"}, fn : {"add", "min"}, inclusive : BOOLEAN, back : BOOLEAN,
          nested : {TRUE}]
    \cup [op : {"scan"}, fn : {"add"}, inclusive : BOOLEAN, back : {FALSE}, nested : {FALSE}]
    \cup [op : {"pack"}, fn : {"add"}, inclusive : {FALSE}, back : {FALSE}, nested : BOOLEAN]
    \cup [op : {"filterf", "filterf_and_clear"}, fn : {"add"}, inclusive : {FALSE},
          back : {FALSE}, nested : {FALSE}]
Filters == {"filterf", "filterf_and_clear"}

---------------------------------------------------------------------------
(* What runs within a block.                                               *)

reduceSerial(a, S) == Fold(primitive.fn, a[Min(S)], a, S \ {Min(S)})

scanSerial(a, S, zero, inclusive, back) ==
    [j \in S |-> Fold(primitive.fn, zero, a,
                      {h \in S : \/ (IF back THEN h > j ELSE h < j)
                                 \/ inclusive /\ h = j})]

(* Whole words at a time if the flags are a multiple of what fits.         *)
FlagsByWord(a, S) ==
    LET word == [k \in 0 .. FlagWords - 1 |->
                   Fold("add", 0, [l \in 0 .. Lanes - 1 |-> LaneSize ^ l],
                        {l \in 0 .. Lanes - 1 : Min(S) + k * Lanes + l \in Kept(a, S)})]
        rr == Fold("add", 0, word, DOMAIN word)
    IN  Fold("add", 0, [l \in 0 .. Lanes - 1 |-> (rr \div LaneSize ^ l) % LaneSize],
             0 .. Lanes - 1)
sumFlagsSerial(a, S) ==
    IF Cardinality(S) = Lanes * FlagWords THEN FlagsByWord(a, S) ELSE Cardinality(Kept(a, S))

scanTotal(a) == Fold(primitive.fn, Neutral[primitive.fn], a, DOMAIN a)

packSerial(a, S, at) ==
    LET kept == Upwards(Kept(a, S))
    IN  [j \in at .. at + Len(kept) - 1 |-> a[kept[j - at + 1]]]

(* filterf packs a block into its own beginning; filterf_and_clear empties *)
(* what it moves.                                                          *)
InPlace(a, S) ==
    LET front == packSerial(a, S, Min(S))
        moved == IF primitive.op = "filterf" THEN {} ELSE Kept(a, S) \ DOMAIN front
    IN  [j \in DOMAIN a |-> IF j \in DOMAIN front THEN front[j]
                            ELSE IF j \in moved THEN Fresh ELSE a[j]]

---------------------------------------------------------------------------
(* The calls.                                                              *)

(* The size of the blocks of an array; filterf makes them as even as their *)
(* number allows.                                                          *)
Even(n, bsize) == nblocks(n, nblocks(n, bsize))
BlockSizeOf(n) == CASE primitive.op \in {"reduce", "scan"} -> ScanBlock
                    [] primitive.op = "pack" -> IF primitive.nested THEN 2 * ScanBlock
                                                ELSE ScanBlock
                    [] OTHER -> Even(n, 2 * ScanBlock)
BlocksOf(a) == 0 .. nblocks(Size(a), BlockSizeOf(Size(a))) - 1
BlockOf(a, i) == Block(i, Size(a), BlockSizeOf(Size(a)))
Serial(a) == CASE primitive.op \in Filters -> Size(a) < 2 * ScanBlock
               [] primitive.op = "scan" -> Cardinality(BlocksOf(a)) <= 2
               [] OTHER -> Cardinality(BlocksOf(a)) <= 1

NewOut(m) == [j \in 0 .. m - 1 |-> Fresh]
NewSums(a) == [j \in BlocksOf(a) |-> Fresh]

SequencesInit ==
    /\ primitive \in Calls
    /\ given \in Arrays
    /\ arrays = IF Serial(given) THEN <<given>> ELSE <<given, NewSums(given)>>
    /\ packed = <<>>
    /\ loop = "sums"
    /\ unrun = IF Serial(given) THEN {} ELSE BlocksOf(given)
    /\ total = Fresh

(* The whole array at once.                                                *)
SerialCall ==
    /\ loop = "sums" /\ Len(arrays) = 1
    /\ arrays' = IF primitive.op = "scan"
                 THEN <<scanSerial(given, DOMAIN given, Neutral[primitive.fn],
                                   primitive.inclusive, primitive.back)>>
                 ELSE arrays
    /\ packed' = IF primitive.op \in {"reduce", "scan"} THEN packed
                 ELSE packSerial(given, DOMAIN given, 0)
    /\ total' = CASE primitive.op = "reduce" -> reduceSerial(given, DOMAIN given)
                  [] primitive.op = "scan" -> scanTotal(given)
                  [] OTHER -> Size(packed')
    /\ loop' = "end"
    /\ UNCHANGED <<primitive, given, unrun>>

(* The first loop: what a block adds up to.                                *)
SumBlock(i) ==
    LET k == Len(arrays) - 1
        a == arrays[k]
        S == BlockOf(a, i)
        sum == CASE primitive.op = "pack" -> sumFlagsSerial(a, S)
                 [] primitive.op \in Filters -> Cardinality(Kept(a, S))
                 [] OTHER -> reduceSerial(a, S)
    IN  /\ loop = "sums" /\ i \in unrun
        /\ unrun' = unrun \ {i}
        /\ arrays' = [arrays EXCEPT ![k + 1][i] = sum,
                                    ![k] = IF primitive.op \in Filters THEN InPlace(a, S) ELSE a]
        /\ UNCHANGED <<primitive, given, packed, loop, total>>

(* The Sums are reduced or scanned, by a call of the same kind if they are *)
(* many, serially otherwise.                                               *)
EndOfSums ==
    LET sums == Last(arrays)
        again == primitive.nested /\ primitive.op # "pack" /\ ~Serial(sums)
    IN  /\ loop = "sums" /\ Len(arrays) > 1 /\ unrun = {}
        /\ IF again
           THEN /\ arrays' = Append(arrays, NewSums(sums))
                /\ unrun' = BlocksOf(sums)
                /\ UNCHANGED <<loop, total>>
           ELSE IF primitive.op = "reduce"
           THEN /\ total' = reduceSerial(sums, DOMAIN sums)
                /\ loop' = "end"
                /\ UNCHANGED <<arrays, unrun>>
           ELSE /\ arrays' = [arrays EXCEPT ![Len(arrays)] =
                                scanSerial(sums, DOMAIN sums, Neutral[primitive.fn],
                                           FALSE, primitive.back)]
                /\ total' = scanTotal(sums)
                /\ unrun' = BlocksOf(arrays[Len(arrays) - 1])
                /\ loop' = "blocks"
        /\ packed' = IF loop' = "blocks" /\ primitive.op # "scan"
                     THEN NewOut(total') ELSE packed
        /\ UNCHANGED <<primitive, given>>

(* The second loop: a block of a scan from its offset on, or the elements  *)
(* of a block to their places in Out.                                      *)
ScanBlockFrom(i) ==
    LET k == Len(arrays) - 1
        result == scanSerial(arrays[k], BlockOf(arrays[k], i), arrays[k + 1][i],
                             k = 1 /\ primitive.inclusive, primitive.back)
    IN  /\ loop = "blocks" /\ primitive.op = "scan" /\ i \in unrun
        /\ unrun' = unrun \ {i}
        /\ arrays' = [arrays EXCEPT ![k] = result @@ @]
        /\ UNCHANGED <<primitive, given, packed, loop, total>>

Length(offsets, i) == (IF i + 1 \in DOMAIN offsets THEN offsets[i + 1] ELSE total) - offsets[i]
PackBlock(i) ==
    LET a == arrays[1]
        offsets == arrays[2]
        from == Min(BlockOf(a, i))
        copied == [j \in offsets[i] .. offsets[i] + Length(offsets, i) - 1 |->
                     a[from + j - offsets[i]]]
        cleared == IF primitive.op = "filterf_and_clear"
                   THEN from .. from + Length(offsets, i) - 1 ELSE {}
    IN  /\ loop = "blocks" /\ primitive.op # "scan" /\ i \in unrun
        /\ unrun' = unrun \ {i}
        /\ packed' = (IF primitive.op = "pack"
                      THEN packSerial(a, BlockOf(a, i), offsets[i]) ELSE copied) @@ packed
        /\ arrays' = [arrays EXCEPT ![1] = [j \in cleared |-> Fresh] @@ @]
        /\ UNCHANGED <<primitive, given, loop, total>>

EndOfBlocks ==
    /\ loop = "blocks" /\ unrun = {}
    /\ arrays' = Front(arrays)
    /\ IF Len(arrays) = 2 THEN loop' = "end" /\ unrun' = unrun
       ELSE loop' = loop /\ unrun' = BlocksOf(arrays[Len(arrays) - 2])
    /\ UNCHANGED <<primitive, given, packed, total>>

SequencesNext ==
    \/ SerialCall \/ EndOfSums \/ EndOfBlocks
    \/ \E i \in unrun : SumBlock(i) \/ ScanBlockFrom(i) \/ PackBlock(i)

---------------------------------------------------------------------------

(* Whatever the order of the blocks, a call gives what a loop over the     *)
(* array would: the sum, minimum or maximum, all the sums from one end, or *)
(* the elements that are kept, in order.  filterf_and_clear leaves no kept *)
(* element in an array of at least _F_BSIZE elements; a shorter one it     *)
(* does not clear.                                                         *)
Prefix(j) == {h \in DOMAIN given : IF primitive.back THEN h >= j ELSE h <= j}
SequencesExact ==
    loop = "end" =>
        LET first == Neutral[primitive.fn]
            kept == SelectSeq([j \in 1 .. Size(given) |-> given[j - 1]], LAMBDA x : x % 2 = 1)
        IN  CASE primitive.op = "reduce" -> total = Fold(primitive.fn, first, given, DOMAIN given)
              [] primitive.op = "scan" ->
                   /\ total = Fold(primitive.fn, first, given, DOMAIN given)
                   /\ \A j \in DOMAIN given :
                         arrays[1][j] = Fold(primitive.fn, first, given,
                                             IF primitive.inclusive THEN Prefix(j)
                                             ELSE Prefix(j) \ {j})
              [] OTHER ->
                   /\ packed = [j \in 0 .. Len(kept) - 1 |-> kept[j + 1]]
                   /\ total = Len(kept)
                   /\ primitive.op = "filterf_and_clear" /\ Size(given) >= 2 * ScanBlock =>
                        \A j \in DOMAIN given : arrays[1][j] # Fresh => arrays[1][j] % 2 = 0
=============================================================================
