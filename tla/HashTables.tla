----------------------------- MODULE HashTables -----------------------------
(* Two tables with linear probing of the graph suite Ligra.  The             *)
(* sparseAdditiveSet of the local algorithms (sparseSet.h) is filled by many *)
(* threads at once.  The histogram of edgeMapReduce (histogram.h) sorts its  *)
(* elements by bucket (counting_sort.h), counts each bucket in a part of one *)
(* array with a sequentialHT, and leaves the array empty for its next call.  *)
EXTENDS Integers, Sequences, SequencesExt, Functions

CONSTANTS Inserters,     \* the threads that fill a sparseAdditiveSet
          Additions,     \* sequences of distinct <<key, value>> to insert
          Slack,         \* what the constructor adds to the size (100)
          Hash,          \* hash64 and hashInt, a function on keys
          Histograms,    \* sequences of calls, each a sequence of keys
          SeqHistogram,  \* _hist_seq_threshold
          SeqCountSort,  \* _cs_seq_threshold
          SqrtDivisor,   \* of the square root of n, for buckets and blocks (10)
          MaxBuckets,    \* _hist_max_buckets, _cs_max_blocks
          LowMask        \* keys with the same high bits share a bucket (16)

VARIABLES table,         \* "sparse" or "histogram"
          called,         \* the insertions, or the calls
          TA,            \* the set that is filled
          copied,        \* the smaller set it is a copy of
          inserter,      \* where a thread is in insert
          slots,         \* what the parallel loops have not handed out
          hist,          \* ht: what outlives a call of the histogram
          made,          \* calls made
          hs,            \* the data of the call
          doing           \* what the set or the call is at

tableVars == <<table, called, TA, copied, inserter, slots, hist, made, hs, doing>>

NoKey == -1
Empty == <<NoKey, 0>>
LogUp(i) == CHOOSE a \in 0 .. i : i <= 2 ^ a /\ \A b \in 0 .. a - 1 : 2 ^ b < i
ClearTable(n) == [i \in 0 .. n - 1 |-> Empty]
TableSize(T) == Cardinality(DOMAIN T)
Full(T) == {i \in DOMAIN T : T[i] # Empty}
NoInsert == [at |-> "idle", v |-> Empty, h |-> 0, old |-> 0]
NoCall == [keys |-> <<>>, elms |-> <<>>, counts |-> <<>>, offs |-> <<>>, out |-> <<>>,
           outOffs |-> <<>>, res |-> <<>>]

TablesInit ==
    /\ table \in {"sparse", "histogram"}
    /\ called \in IF table = "sparse" THEN Additions ELSE Histograms
    /\ TA = IF table = "sparse" THEN ClearTable(2 ^ LogUp(1 + Slack)) ELSE <<>>
    /\ copied = <<>>
    /\ inserter = [w \in Inserters |-> NoInsert]
    /\ slots = IF table = "sparse" THEN ToSet(called) ELSE {}
    /\ hist = ClearTable(2)
    /\ made = 0
    /\ hs = NoCall
    /\ doing = IF table = "sparse" THEN "insert" ELSE "call"

---------------------------------------------------------------------------
(* sparseAdditiveSet.                                                      *)

Of(T, h) == h % TableSize(T)

GiveInsert(w, v) ==
    /\ doing \in {"insert", "copy"} /\ inserter[w] = NoInsert /\ v \in slots
    /\ slots' = slots \ {v}
    /\ inserter' = [inserter EXCEPT ![w] = [NoInsert EXCEPT !.at = "look", !.v = v,
                                                        !.h = Of(TA, Hash[v[1]])]]
    /\ UNCHANGED <<table, called, TA, copied, hist, made, hs, doing>>

Inserting(w, from, to) ==
    /\ inserter[w].at = from
    /\ inserter' = [inserter EXCEPT ![w] = to]
    /\ UNCHANGED <<table, called, copied, slots, hist, made, hs, doing>>

(* The slot is read, taken by compare and swap if it was empty, and read   *)
(* again if it was not or another thread was faster.                       *)
LookAtSlot(w) ==
    LET t == inserter[w] IN
    /\ Inserting(w, "look", [t EXCEPT !.at = IF TA[t.h][1] = NoKey THEN "swap" ELSE "match"])
    /\ TA' = TA
TakeSlot(w) ==
    LET t == inserter[w]
        free == TA[t.h] = Empty
    IN  /\ Inserting(w, "swap", IF free THEN NoInsert ELSE [t EXCEPT !.at = "match"])
        /\ TA' = IF free THEN [TA EXCEPT ![t.h] = t.v] ELSE TA
MatchSlot(w) ==
    LET t == inserter[w] IN
    /\ Inserting(w, "match",
                 IF TA[t.h][1] = t.v[1] THEN [t EXCEPT !.at = "add", !.old = TA[t.h][2]]
                 ELSE [t EXCEPT !.at = "look", !.h = Of(TA, t.h + 1)])
    /\ TA' = TA

(* writeAdd: again with the new value if it has changed.                   *)
WriteAdd(w) ==
    LET t == inserter[w]
        same == TA[t.h][2] = t.old
    IN  /\ Inserting(w, "add", IF same THEN NoInsert ELSE [t EXCEPT !.old = TA[t.h][2]])
        /\ TA' = IF same THEN [TA EXCEPT ![t.h][2] = t.old + t.v[2]] ELSE TA

(* The set is copied to a larger one, slot by slot in parallel.            *)
CopySet ==
    /\ doing = "insert" /\ slots = {} /\ \A w \in Inserters : inserter[w] = NoInsert
    /\ TA' = ClearTable(2 * TableSize(TA)) /\ copied' = TA
    /\ slots' = {TA[i] : i \in Full(TA)}
    /\ doing' = "copy"
    /\ UNCHANGED <<table, called, inserter, hist, made, hs>>
SetDone ==
    /\ doing = "copy" /\ slots = {} /\ \A w \in Inserters : inserter[w] = NoInsert
    /\ doing' = "end"
    /\ UNCHANGED <<table, called, TA, copied, inserter, slots, hist, made, hs>>

find(T, key) ==
    LET at(i) == T[Of(T, Hash[key] + i)]
        i == CHOOSE i \in DOMAIN T : /\ at(i)[1] \in {NoKey, key}
                                     /\ \A j \in 0 .. i - 1 : at(j)[1] \notin {NoKey, key}
    IN  at(i)
entries(T) == {T[i] : i \in Full(T)}

---------------------------------------------------------------------------
(* sequentialHT on a part of an array, size slots from base on.            *)

insertF(T, base, size, key) ==
    LET slot(i) == base + ((Hash[key] + i) % size)
        i == CHOOSE i \in 0 .. size - 1 : /\ T[slot(i)][1] \in {NoKey, key}
                                          /\ \A j \in 0 .. i - 1 :
                                                T[slot(j)][1] \notin {NoKey, key}
    IN  [T EXCEPT ![slot(i)] = <<key, @[2] + 1>>]
AllInserted(T, base, size, keys) == FoldLeft(LAMBDA t, k : insertF(t, base, size, k), T, keys)

(* apply_f keeps an element or does not.                                   *)
Wanted(kv) == kv[2] # 2

compactInto(T, base, size) ==
    [table |-> [i \in DOMAIN T |-> IF i \in base .. base + size - 1 THEN Empty ELSE T[i]],
     out |-> SelectSeq([i \in 1 .. size |-> T[base + i - 1]],
                       LAMBDA kv : kv # Empty /\ Wanted(kv))]

---------------------------------------------------------------------------
(* The histogram.                                                          *)

resize(size) == IF size > TableSize(hist) THEN ClearTable(size) ELSE hist
Stage(from, to) ==
    /\ doing = from /\ doing' = to
    /\ UNCHANGED <<table, called, TA, copied, inserter>>
Num(keys) == Len(keys)
Sqrt(n) == CHOOSE r \in 0 .. n : r * r >= n /\ \A q \in 0 .. r - 1 : q * q < n
Power(n) == Min({2 ^ LogUp(Sqrt(n) \div SqrtDivisor), MaxBuckets})
Bucket(key) == Hash[(key \div LowMask) * LowMask] % Power(Num(hs.keys))
SortBlocks(n) == IF n < SeqCountSort THEN 1 ELSE Power(n)
BlockBounds(j) ==
    LET n == Num(hs.keys)
        size == (n - 1) \div SortBlocks(n) + 1
        start == Min({j * size, n})
    IN  [start |-> start, end |-> Min({start + size, n})]

(* A short call counts everything in one table.                            *)
SeqHistogramCall ==
    LET keys == called[made + 1]
        size == 2 ^ LogUp(Num(keys) + 1)
        done == compactInto(AllInserted(resize(size), 0, size, keys), 0, size)
    IN  /\ made < Len(called) /\ Num(keys) < SeqHistogram
        /\ Stage("call", "result")
        /\ hist' = done.table
        /\ hs' = [NoCall EXCEPT !.keys = keys, !.res = done.out]
        /\ UNCHANGED <<slots, made>>

HistogramCall ==
    LET keys == called[made + 1]
        n == Num(keys)
    IN  /\ made < Len(called) /\ n >= SeqHistogram
        /\ Stage("call", "sort")
        /\ hs' = [NoCall EXCEPT !.keys = keys, !.elms = [i \in 0 .. n - 1 |-> NoKey],
                                !.counts = [i \in 0 .. SortBlocks(n) * Power(n) - 1 |-> 0]]
        /\ slots' = 0 .. SortBlocks(n) - 1
        /\ UNCHANGED <<hist, made>>

(* _seq_count_sort: a block by bucket, in order, and where its buckets begin.*)
SortBlock(j) ==
    LET b == BlockBounds(j)
        at == b.start .. b.end - 1
        num == Power(Num(hs.keys))
        bucket == [x \in at |-> Bucket(hs.keys[x + 1])]
        place(x) == b.start + Cardinality({y \in at : \/ bucket[y] < bucket[x]
                                                      \/ bucket[y] = bucket[x] /\ y < x})
    IN  /\ doing = "sort" /\ j \in slots
        /\ slots' = slots \ {j}
        /\ hs' = [hs EXCEPT
             !.elms = [p \in at |-> hs.keys[(CHOOSE x \in at : place(x) = p) + 1]] @@ @,
             !.counts = [c \in j * num .. j * num + num - 1 |->
                           Cardinality({x \in at : bucket[x] < c - j * num})] @@ @]
        /\ UNCHANGED <<table, called, TA, copied, inserter, hist, made, doing>>

(* How many elements of a block are in a bucket; the last one ends with    *)
(* the block.                                                              *)
InBucket(j, i) ==
    LET num == Power(Num(hs.keys))
        b == BlockBounds(j)
    IN  (IF i = num - 1 THEN b.end - b.start ELSE hs.counts[j * num + i + 1])
        - hs.counts[j * num + i]

(* The size of the table of each bucket, and their sum.                    *)
SizeTables ==
    LET n == Num(hs.keys)
        blocks == 0 .. SortBlocks(n) - 1
        elements(i) == FoldFunctionOnSet(+, 0, [j \in blocks |-> InBucket(j, i)], blocks)
        size == [i \in 0 .. Power(n) - 1 |->
                   IF elements(i) = 0 THEN 0 ELSE 2 ^ LogUp(elements(i) + 1)]
        offs == [i \in 0 .. Power(n) |-> FoldFunctionOnSet(+, 0, size, 0 .. i - 1)]
    IN  /\ slots = {}
        /\ Stage("sort", "count")
        /\ hist' = resize(offs[Power(n)])
        /\ hs' = [hs EXCEPT !.offs = offs, !.out = ClearTable(offs[Power(n)]),
                            !.outOffs = [i \in 0 .. Power(n) |-> 0]]
        /\ slots' = 0 .. Power(n) - 1
        /\ made' = made

(* A bucket: its elements of every block into its table.                   *)
CountBucket(i) ==
    LET n == Num(hs.keys)
        base == hs.offs[i]
        size == hs.offs[i + 1] - base
        from(j) == BlockBounds(j).start + hs.counts[j * Power(n) + i]
        keys == FlattenSeq([j \in 1 .. SortBlocks(n) |->
                              [x \in 1 .. InBucket(j - 1, i) |-> hs.elms[from(j - 1) + x - 1]]])
    IN  /\ doing = "count" /\ i \in slots
        /\ slots' = slots \ {i}
        /\ IF size = 0 THEN UNCHANGED <<hist, hs>>
           ELSE \E done \in {compactInto(AllInserted(hist, base, size, keys), base, size)} :
                  /\ hist' = done.table
                  /\ hs' = [hs EXCEPT !.out = [x \in base .. base + Len(done.out) - 1 |->
                                                 done.out[x - base + 1]] @@ @,
                                      !.outOffs[i] = Len(done.out)]
        /\ UNCHANGED <<table, called, TA, copied, inserter, made, doing>>

ScanOut ==
    LET num == Power(Num(hs.keys))
        offs == [i \in 0 .. num |-> FoldFunctionOnSet(+, 0, hs.outOffs, 0 .. i - 1)]
    IN  /\ slots = {}
        /\ Stage("count", "gather")
        /\ hs' = [hs EXCEPT !.outOffs = offs, !.res = [x \in 1 .. offs[num] |-> Empty]]
        /\ slots' = 0 .. num - 1
        /\ UNCHANGED <<hist, made>>

Gather(i) ==
    LET o == hs.outOffs[i] IN
    /\ doing = "gather" /\ i \in slots
    /\ slots' = slots \ {i}
    /\ hs' = [hs EXCEPT !.res = [x \in DOMAIN @ |->
                IF x \in o + 1 .. hs.outOffs[i + 1] THEN hs.out[hs.offs[i] + x - o - 1] ELSE @[x]]]
    /\ UNCHANGED <<table, called, TA, copied, inserter, hist, made, doing>>

Gathered ==
    /\ slots = {}
    /\ Stage("gather", "result")
    /\ UNCHANGED <<slots, hist, made, hs>>
NextCall ==
    /\ Stage("result", "call")
    /\ made' = made + 1
    /\ hs' = NoCall
    /\ UNCHANGED <<slots, hist>>

TablesNext ==
    \/ \E w \in Inserters : \/ \E v \in slots : GiveInsert(w, v)
                            \/ LookAtSlot(w) \/ TakeSlot(w) \/ MatchSlot(w) \/ WriteAdd(w)
    \/ CopySet \/ SetDone
    \/ SeqHistogramCall \/ HistogramCall \/ SizeTables \/ ScanOut \/ Gathered \/ NextCall
    \/ \E i \in slots : SortBlock(i) \/ CountBucket(i) \/ Gather(i)

---------------------------------------------------------------------------

(* A key has one slot of a set, find reaches it from where the key hashes  *)
(* to, and it holds the sum of what was inserted, also after the copy.  A  *)
(* call of the histogram gives every key with its count, if apply_f keeps  *)
(* it, once, and leaves its table empty for the next call.                 *)
KeysOf(v) == {v[i][1] : i \in DOMAIN v}
SumFor(key) ==
    FoldLeft(LAMBDA sum, v : sum + IF v[1] = key THEN v[2] ELSE 0, 0, called)
Holds(T) == entries(T) = {<<k, SumFor(k)>> : k \in KeysOf(called)}
            /\ Cardinality(Full(T)) = Cardinality(KeysOf(called))
            /\ \A k \in KeysOf(called) : find(T, k) = <<k, SumFor(k)>>
Occurs(key) == Cardinality({i \in DOMAIN hs.keys : hs.keys[i] = key})
TablesExact ==
    /\ doing = "copy" => Holds(copied)
    /\ doing = "end" => Holds(TA)
    /\ doing = "result" =>
         /\ ToSet(hs.res) = {kv \in {<<k, Occurs(k)>> : k \in ToSet(hs.keys)} : Wanted(kv)}
         /\ IsInjective(hs.res)
         /\ Full(hist) = {}
=============================================================================
