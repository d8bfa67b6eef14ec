--------------------------- MODULE ParallelSorts ---------------------------
(* The integer sort of the graph suite Ligra (blockRadixSort.h, with the     *)
(* transposes of transpose.h) and its quicksort (quickSort.h).  Both sort in *)
(* parallel calls that share the array, its copy and the bucket sets; a call *)
(* of the radix sort runs its blocks, and the pieces of a transpose, in any  *)
(* order.  An element is its first place in the array.                       *)
EXTENDS Integers, Sequences, SequencesExt, Functions

CONSTANTS SortCalls,     \* [keys, m, how, below]: how is "topdown", "bottomup" or "quick";
                         \* below says how a float is rounded, see Floor
          MAX_RADIX,     \* bits of a step (8)
          PerSet,        \* elements for a bucket set of temporary space (BUCKETS * 8)
          PerBlock,      \* elements for a block of a step (BUCKETS * expand)
          Threshold,     \* _TRANS_THRESHHOLD
          ISORT          \* quicksort of fewer elements is an insertion sort

VARIABLES sort,          \* the call
          A, B,          \* the array and its copy
          Tmp,           \* the digits of the step
          BK,            \* the bucket sets, one after the other
          calls,         \* the calls under way
          bucketOffsets,
          sorted         \* "calls", "offsets" and "end"

sortVars == <<sort, A, B, Tmp, BK, calls, bucketOffsets, sorted>>

Unset == -1
BUCKETS == 2 ^ MAX_RADIX
Key(e) == sort.keys[e + 1]
Total == Len(sort.keys)
log2Up(i) == CHOOSE a \in 0 .. i : i <= 2 ^ a /\ \A b \in 0 .. a - 1 : 2 ^ b < i
Sum(S, count) == FoldFunctionOnSet(+, 0, [x \in S |-> count[x]], S)
Range0(n) == 0 .. n - 1

(* A call: it owns n elements from lo on and numBK bucket sets from bk on; *)
(* bits of the key are left, and its step takes rbits of them from shift.  *)
Call(kind, lo, n, bk, numBK, bits) ==
    [kind |-> kind, lo |-> lo, n |-> n, bk |-> bk, numBK |-> numBK, bits |-> bits,
     shift |-> 0, rbits |-> 0, stage |-> "begin", left |-> {},
     L |-> lo, M |-> lo, R |-> lo + n - 1, p |-> Unset]

SortsInit ==
    /\ sort \in SortCalls
    /\ A = [i \in Range0(Total) |-> i]
    /\ B = [i \in Range0(Total) |-> Unset]
    /\ Tmp = [i \in Range0(Total) |-> Unset]
    /\ BK = [i \in Range0((1 + Total \div PerSet) * BUCKETS) |-> Unset]
    /\ bucketOffsets = [k \in Range0(sort.m) |-> Unset]
    /\ sorted = "calls"
    /\ calls = {Call(CASE sort.how = "quick" -> "quick"
                       [] log2Up(sort.m) <= MAX_RADIX -> "topdown"
                       [] OTHER -> sort.how,
                     0, Total, 0, 1 + Total \div PerSet, log2Up(sort.m))}

Become(c, d) == calls' = (calls \ {c}) \cup d
Keep == UNCHANGED <<sort, bucketOffsets, sorted>>

---------------------------------------------------------------------------
(* The radix sort: what a call does next.                                  *)

BlockCount(c) == Min({c.numBK \div 3, 1 + c.n \div PerBlock})
Stepping(c, rbits, shift) ==
    LET d == [c EXCEPT !.rbits = rbits, !.shift = shift] IN
    IF BlockCount(c) < 2 THEN [d EXCEPT !.stage = "serial"]
    ELSE [d EXCEPT !.stage = "blocks", !.left = Range0(BlockCount(c))]

(* radixLoopTopDown: the high bits first, in a single step if that is all. *)
TopDown(c) ==
    /\ c.kind = "topdown" /\ c.stage = "begin"
    /\ Become(c, IF c.n = 0 THEN {}
                 ELSE IF c.bits <= MAX_RADIX THEN {Stepping(c, c.bits, 0)}
                 ELSE IF c.numBK >= BUCKETS + 1
                 THEN {Stepping(c, MAX_RADIX, c.bits - MAX_RADIX)}
                 ELSE {[c EXCEPT !.kind = "bottomup"]})
    /\ UNCHANGED <<A, B, Tmp, BK>> /\ Keep

(* radixLoopBottomUp: rounds of about as many bits each.                   *)
Rounds(bits) == 1 + (bits - 1) \div MAX_RADIX
RoundBits(bits, offset) == Min({1 + (bits - 1) \div Rounds(bits), bits - offset})
BottomUp(c) ==
    /\ c.kind = "bottomup" /\ c.stage = "begin"
    /\ Become(c, {Stepping(c, RoundBits(c.bits, 0), 0)})
    /\ UNCHANGED <<A, B, Tmp, BK>> /\ Keep

(* After a step: the next round, the segments, or nothing.                 *)
AfterStep(c) ==
    LET next == c.shift + c.rbits IN
    IF c.kind = "bottomup"
    THEN IF next < c.bits THEN {Stepping(c, RoundBits(c.bits, next), next)} ELSE {}
    ELSE IF c.shift > 0 THEN {[c EXCEPT !.stage = "segments", !.left = Range0(BUCKETS)]}
    ELSE {}

(* A segment of the parallel loop: what the step put into one bucket, with *)
(* a share of the bucket sets in proportion.                               *)
(* The share is floor(at * y) for the float y = remain / n: where it should*)
(* be a whole number, the product may have come out just below it.         *)
Floor(at, remain, n) ==
    LET short == sort.below /\ at * remain > 0 /\ (at * remain) % n = 0
    IN  (at * remain) \div n - IF short THEN 1 ELSE 0

(* Fault: the set with the offsets is handed out with the others.          *)
BlocksOffsetFault(c, at, i) == Floor(at, c.numBK - BUCKETS - 1, c.n) + i

BlocksOffset(c, at, i) == Floor(at, c.numBK - BUCKETS - 1, c.n) + i + 1
Segment(c, i) ==
    LET offset(b) == BK[c.bk * BUCKETS + b]
        next == IF i = BUCKETS - 1 THEN c.n ELSE offset(i + 1)
        from == BlocksOffset(c, offset(i), i)
        to == BlocksOffset(c, next, i) + 1
    IN  /\ c.stage = "segments" /\ i \in c.left
        /\ Become(c, (IF c.left = {i} THEN {} ELSE {[c EXCEPT !.left = @ \ {i}]})
                     \cup {Call("topdown", c.lo + offset(i), next - offset(i),
                                c.bk + from, to - from, c.bits - MAX_RADIX)})
        /\ UNCHANGED <<A, B, Tmp, BK>> /\ Keep

---------------------------------------------------------------------------
(* A step of the radix sort.                                               *)

eBits(c, e) == (Key(e) \div 2 ^ c.shift) % 2 ^ c.rbits

(* radixBlock on the n elements from at on: into B by digit, in order.     *)
DigitsOf(c, at, n) == [j \in at .. at + n - 1 |-> eBits(c, A[j])]
CountOf(digit, k) == Cardinality({j \in DOMAIN digit : digit[j] = k})
StartOf(digit, k, offset) == offset + Cardinality({j \in DOMAIN digit : digit[j] < k})
Placed(digit, base, offset) ==
    LET place(j) == base + StartOf(digit, digit[j], offset)
                    + Cardinality({h \in DOMAIN digit : h < j /\ digit[h] = digit[j]})
        to == [j \in DOMAIN digit |-> place(j)]
    IN  [x \in Range(to) |-> A[CHOOSE j \in DOMAIN digit : to[j] = x]]
PerDigit(c, at, value(_)) ==
    [x \in at .. at + 2 ^ c.rbits - 1 |-> value(x - at)]

(* One block: the counts become the offsets of the buckets.                *)
radixStepSerial(c) ==
    LET digit == DigitsOf(c, c.lo, c.n)
        placed == Placed(digit, c.lo, 0)
    IN  /\ c.stage = "serial"
        /\ B' = placed @@ B
        /\ A' = placed @@ A
        /\ Tmp' = digit @@ Tmp
        /\ BK' = PerDigit(c, c.bk * BUCKETS, LAMBDA k : StartOf(digit, k, 0)) @@ BK
        /\ Become(c, AfterStep(c)) /\ Keep

(* Three parts of the bucket sets: the counts and the offsets into B of    *)
(* each block, a block after the other, and the offsets into A.            *)
Buckets3(c) == LET first(k) == (c.bk + k * BlockCount(c)) * BUCKETS
               IN  [cnts |-> first(0), oA |-> first(1), oB |-> first(2)]
nn(c) == (c.n + BlockCount(c) - 1) \div BlockCount(c)
radixBlock(c, i) ==
    LET od == i * nn(c)
        m == 2 ^ c.rbits
        at == Buckets3(c)
        digit == DigitsOf(c, c.lo + od, Min({Max({c.n - od, 0}), nn(c)}))
    IN  /\ c.stage = "blocks" /\ i \in c.left
        /\ Tmp' = digit @@ Tmp
        /\ B' = Placed(digit, c.lo, od) @@ B
        /\ BK' = PerDigit(c, at.cnts + m * i, LAMBDA k : CountOf(digit, k))
                 @@ PerDigit(c, at.oB + m * i, LAMBDA k : StartOf(digit, k, od)) @@ BK
        /\ Become(c, {IF c.left = {i}
                      THEN [c EXCEPT !.stage = "transpose", !.left = {<<0, BlockCount(c), 0, m>>}]
                      ELSE [c EXCEPT !.left = @ \ {i}]})
        /\ A' = A /\ Keep

(* transR: a piece is halved until it is small.                            *)
Halves(r) ==
    LET rc == r[2]
        cc == r[4]
    IN  IF cc > rc THEN {<<r[1], rc, r[3], cc \div 2>>,
                         <<r[1], rc, r[3] + cc \div 2, cc - cc \div 2>>}
        ELSE {<<r[1], rc \div 2, r[3], cc>>, <<r[1] + rc \div 2, rc - rc \div 2, r[3], cc>>}
Small(r) == r[2] < Threshold /\ r[4] < Threshold
Halve(c, r) ==
    /\ c.stage \in {"transpose", "move"} /\ r \in c.left /\ ~Small(r)
    /\ Become(c, {[c EXCEPT !.left = (@ \ {r}) \cup Halves(r)]})
    /\ UNCHANGED <<A, B, Tmp, BK>> /\ Keep
Piece(r) == (r[1] .. r[1] + r[2] - 1) \X (r[3] .. r[3] + r[4] - 1)

(* The counts of a piece to the places that go by digit, then by block.    *)
TransposeCounts(c, r) ==
    LET at == Buckets3(c)
        m == 2 ^ c.rbits
    IN  /\ c.stage = "transpose" /\ r \in c.left /\ Small(r)
        /\ BK' = [x \in {at.oA + q[2] * BlockCount(c) + q[1] : q \in Piece(r)} |->
                    LET y == x - at.oA IN BK[at.cnts + (y % BlockCount(c)) * m + y \div BlockCount(c)]]
                 @@ BK
        /\ Become(c, {[c EXCEPT !.left = @ \ {r}]})
        /\ UNCHANGED <<A, B, Tmp>> /\ Keep

(* The scan of the counts gives the offsets into A.                        *)
ScanCounts(c) ==
    LET oA == Buckets3(c).oA
        places == oA .. oA + BlockCount(c) * 2 ^ c.rbits - 1
    IN  /\ c.stage = "transpose" /\ c.left = {}
        /\ BK' = [x \in places |-> Sum(oA .. x - 1, BK)] @@ BK
        /\ Become(c, {[c EXCEPT !.stage = "move", !.left = {<<0, BlockCount(c), 0, 2 ^ c.rbits>>}]})
        /\ UNCHANGED <<A, B, Tmp>> /\ Keep

(* blockTrans: the run of a block and a digit from B to A.                 *)
Move(c, r) ==
    LET at == Buckets3(c)
        m == 2 ^ c.rbits
        Moved(q) == [to |-> BK[at.oA + q[2] * BlockCount(c) + q[1]],
                   from |-> BK[at.oB + q[1] * m + q[2]], l |-> BK[at.cnts + q[1] * m + q[2]]]
        runs == {Moved(q) : q \in Piece(r)}
        moves == UNION {{<<c.lo + u.to + k, c.lo + u.from + k>> : k \in Range0(u.l)} : u \in runs}
    IN  /\ c.stage = "move" /\ r \in c.left /\ Small(r)
        /\ A' = [x \in {mv[1] : mv \in moves} |-> B[(CHOOSE mv \in moves : mv[1] = x)[2]]] @@ A
        /\ Become(c, {[c EXCEPT !.left = @ \ {r}]})
        /\ UNCHANGED <<B, Tmp, BK>> /\ Keep

EndOfStep(c) ==
    LET oA == Buckets3(c).oA IN
    /\ c.stage = "move" /\ c.left = {}
    /\ BK' = PerDigit(c, c.bk * BUCKETS, LAMBDA j : BK[oA + j * BlockCount(c)]) @@ BK
    /\ Become(c, AfterStep(c))
    /\ UNCHANGED <<A, B, Tmp>> /\ Keep

---------------------------------------------------------------------------
(* quickSort.                                                              *)

Below(e, d) == Key(e) < Key(d)
Swapped(i, j) == [A EXCEPT ![i] = A[j], ![j] = A[i]]
median(x, y, z) ==
    IF Below(x, y) THEN IF Below(y, z) THEN y ELSE IF Below(x, z) THEN z ELSE x
    ELSE IF Below(x, z) THEN x ELSE IF Below(y, z) THEN z ELSE y

(* An element goes behind those before it that are not above it.           *)
insertionSort(c) ==
    LET S == c.lo .. c.lo + c.n - 1
        place(i) == c.lo + Cardinality({j \in S : \/ Below(A[j], A[i])
                                                  \/ j < i /\ Key(A[j]) = Key(A[i])})
    IN  /\ c.kind = "quick" /\ c.stage = "begin" /\ c.n < ISORT
        /\ A' = [i \in S |-> A[CHOOSE j \in S : place(j) = i]] @@ A
        /\ Become(c, {})
        /\ UNCHANGED <<B, Tmp, BK>> /\ Keep

Partition(c) ==
    /\ c.kind = "quick" /\ c.stage = "begin" /\ c.n >= ISORT
    /\ Become(c, {[c EXCEPT !.stage = "left",
                            !.p = median(A[c.lo + c.n \div 4], A[c.lo + c.n \div 2],
                                         A[c.lo + (3 * c.n) \div 4])]})
    /\ UNCHANGED <<A, B, Tmp, BK>> /\ Keep

(* Up to an element above the pivot, the lower ones to the left part.      *)
FromLeft(c) ==
    LET low == Below(A[c.M], c.p) IN
    /\ c.stage = "left"
    /\ IF Below(c.p, A[c.M])
       THEN A' = A /\ Become(c, {[c EXCEPT !.stage = "right"]})
       ELSE /\ A' = IF low THEN Swapped(c.M, c.L) ELSE A
            /\ LET d == [c EXCEPT !.L = IF low THEN @ + 1 ELSE @]
               IN  Become(c, {IF c.M >= c.R THEN [d EXCEPT !.stage = "right"]
                              ELSE [d EXCEPT !.M = @ + 1]})
    /\ UNCHANGED <<B, Tmp, BK>> /\ Keep

(* Down to one that is not above it; the pointers have met, or the two are *)
(* exchanged.                                                              *)
FromRight(c) ==
    LET low == Below(A[c.R], c.p)
        exchanged == Swapped(c.M, c.R)
    IN  /\ c.stage = "right"
        /\ IF Below(c.p, A[c.R])
           THEN A' = A /\ Become(c, {[c EXCEPT !.R = @ - 1]})
           ELSE IF c.M >= c.R
           THEN /\ A' = A
                /\ Become(c, {Call("quick", c.lo, c.L - c.lo, 0, 0, 0),
                              Call("quick", c.M, c.lo + c.n - c.M, 0, 0, 0)})
           ELSE /\ A' = IF low THEN [exchanged EXCEPT ![c.M] = exchanged[c.L],
                                                      ![c.L] = exchanged[c.M]]
                        ELSE exchanged
                /\ Become(c, {[c EXCEPT !.stage = "left", !.R = @ - 1, !.M = @ + 1,
                                        !.L = IF low THEN @ + 1 ELSE @]})
        /\ UNCHANGED <<B, Tmp, BK>> /\ Keep

---------------------------------------------------------------------------
(* The end of iSortX.                                                      *)

CallsDone ==
    /\ sorted = "calls" /\ calls = {}
    /\ sorted' = IF sort.how = "quick" THEN "end" ELSE "offsets"
    /\ UNCHANGED <<sort, A, B, Tmp, BK, calls, bucketOffsets>>

(* The place where each key begins, from the step if it was the only one,  *)
(* otherwise from the neighbours that differ; keys that do not occur begin *)
(* where the next one does.                                                *)
Offsets ==
    LET change == {i \in 1 .. Total - 1 : Key(A[i]) # Key(A[i - 1])}
        found == [k \in Range0(sort.m) |->
                    IF k = Key(A[0]) THEN 0
                    ELSE LET at == {i \in change : Key(A[i]) = k}
                         IN  IF at = {} THEN Total ELSE Max(at)]
    IN  /\ sorted = "offsets"
        /\ bucketOffsets' =
              IF log2Up(sort.m) <= MAX_RADIX THEN [k \in Range0(sort.m) |-> BK[k]]
              ELSE [k \in Range0(sort.m) |-> Min({found[j] : j \in k .. sort.m - 1})]
        /\ sorted' = "end"
        /\ UNCHANGED <<sort, A, B, Tmp, BK, calls>>

SortsNext ==
    \/ CallsDone \/ Offsets
    \/ \E c \in calls :
          \/ TopDown(c) \/ BottomUp(c) \/ radixStepSerial(c) \/ ScanCounts(c) \/ EndOfStep(c)
          \/ insertionSort(c) \/ Partition(c) \/ FromLeft(c) \/ FromRight(c)
          \/ \E x \in c.left :
                \/ Segment(c, x) \/ radixBlock(c, x)
                \/ Halve(c, x) \/ TransposeCounts(c, x) \/ Move(c, x)

---------------------------------------------------------------------------

(* Calls under way at the same time work on different elements and, in the *)
(* radix sort, with different bucket sets; a call that is still handing out*)
(* segments keeps the set they are read from.                              *)
Elements(c) == IF c.stage = "segments" THEN {} ELSE c.lo .. c.lo + c.n - 1
BucketSets(c) == IF c.stage = "segments" THEN {c.bk} ELSE c.bk .. c.bk + c.numBK - 1
Apart == \A c, d \in calls : c # d =>
            /\ Elements(c) \cap Elements(d) = {}
            /\ c.kind # "quick" => BucketSets(c) \cap BucketSets(d) = {}

(* In the end the keys are in order, the elements are those of the input,  *)
(* elements of one key are in the order of the input (integer sort), and   *)
(* the offset of a key is the number of elements below it.                 *)
SortsExact ==
    /\ Apart
    /\ sorted = "end" =>
         /\ Range(A) = Range0(Total)
         /\ \A i \in 1 .. Total - 1 : Key(A[i - 1]) <= Key(A[i])
         /\ sort.how # "quick" =>
              /\ \A i \in 1 .. Total - 1 : Key(A[i - 1]) = Key(A[i]) => A[i - 1] < A[i]
              /\ \A k \in Range0(sort.m) :
                    bucketOffsets[k] = Cardinality({e \in Range0(Total) : Key(e) < k})
=============================================================================
