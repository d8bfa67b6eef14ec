------------------------------ MODULE Buckets ------------------------------
(* The lazy bucketing of Julienne (bucket.h): identifiers are handed out     *)
(* bucket by bucket, while only a range of buckets is kept open and the      *)
(* rest overflow into one; an identifier that moves leaves its old copy      *)
(* behind.  Its clients are the k-core, delta-stepping and set-cover         *)
(* programs, of which the priorities and who may change them are kept.       *)
EXTENDS Integers, Sequences, FiniteSets, SequencesExt, FiniteSetsExt

CONSTANTS Identifiers,
          MaxPriority,  \* priorities are at most this
          Open,         \* open_buckets (127)
          Grain,        \* from as many moves on update_buckets runs in blocks (4096)
          NullBkt       \* null_bkt, a number above all priorities

VARIABLES client,       \* "kcore", "delta" or "cover"
          d,            \* the bucket of each identifier
          bkts,         \* bkts[Open] is the overflow
          cur_bkt, cur_range, num_elms,
          calling,         \* "next" inside next_bucket, "update" or "end" after it
          bucket,       \* what next_bucket returned
          waiting       \* the identifiers that are still to be handed out

bucketVars == <<client, d, bkts, cur_bkt, cur_range, num_elms, calling, bucket, waiting>>

increasing == client # "cover"
Priorities == 0 .. MaxPriority

to_range_at(range, bkt) ==
    IF increasing
    THEN IF bkt < range * Open THEN NullBkt
         ELSE IF bkt < (range + 1) * Open THEN bkt % Open ELSE Open
    ELSE IF bkt >= range * Open THEN NullBkt
         ELSE IF bkt >= (range - 1) * Open THEN Open - (bkt % Open) - 1 ELSE Open
to_range(bkt) == to_range_at(cur_range, bkt)

get_cur_bucket_num ==
    IF increasing THEN cur_range * Open + cur_bkt ELSE cur_range * Open - cur_bkt - 1

(* Fault: an identifier that stays in its bucket is not put there again.   *)
get_bucket_fault(prev, next) ==
    LET pb == to_range(prev)
        nb == to_range(next)
    IN  IF nb # NullBkt /\ (prev = NullBkt \/ pb # nb) THEN nb ELSE NullBkt

get_bucket(prev, next) ==
    LET pb == to_range(prev)
        nb == to_range(next)
    IN  IF nb # NullBkt /\ (prev = NullBkt \/ pb # nb \/ nb = cur_bkt) THEN nb ELSE NullBkt

(* update_buckets_seq: moves is a sequence of identifiers and where they   *)
(* go.                                                                     *)
update_buckets_seq(b, moves) ==
    FoldLeft(LAMBDA c, m : IF m.to = NullBkt THEN c ELSE [c EXCEPT ![m.to] = Append(@, m.id)],
             b, moves)

(* With many moves and several workers: blocks of them count what each     *)
(* bucket gets, the running sums over buckets and blocks say where a block *)
(* starts in a bucket, and each block writes its own.                      *)
log2_up(n) == CHOOSE e \in 0 .. n : 2^e >= n /\ \A f \in 0 .. e - 1 : 2^f < n
update_buckets(b, moves) ==
    LET num_blocks == 2^log2_up(Len(moves) \div Grain)
        block_size == (Len(moves) + num_blocks - 1) \div num_blocks
        Block(n) == (n - 1) \div block_size
        To(to, i) == {n \in DOMAIN moves : moves[n].to = to /\ Block(n) = i}
        outs(to, i) == Cardinality(UNION {To(c, j) : c \in 0 .. to - 1, j \in 0 .. num_blocks - 1})
                       + Cardinality(UNION {To(to, j) : j \in 0 .. i - 1})
        Written(n) == LET to == moves[n].to
                      IN  Len(b[to]) + outs(to, Block(n)) - outs(to, 0)
                          + Cardinality({m \in To(to, Block(n)) : m <= n})
    IN  IF Len(moves) < Grain THEN update_buckets_seq(b, moves)
        ELSE [to \in 0 .. Open |->
                [i \in 1 .. Len(b[to]) + outs(to + 1, 0) - outs(to, 0) |->
                    IF i <= Len(b[to]) THEN b[to][i]
                    ELSE moves[CHOOSE n \in DOMAIN moves : /\ moves[n].to = to
                                                           /\ Written(n) = i].id]]
Entered(moves) == Len(SelectSeq(moves, LAMBDA m : m.to # NullBkt))
Listed(S) == SetToSortSeq(S, <)

BucketsInit ==
    /\ client \in {"kcore", "delta", "cover"}
    /\ d \in CASE client = "kcore" -> [Identifiers -> Priorities]
               [] client = "delta" -> {[i \in Identifiers |-> IF i = s THEN 0 ELSE NullBkt] :
                                          s \in Identifiers}
               [] client = "cover" -> [Identifiers -> Priorities \cup {NullBkt}]
    /\ cur_range = IF increasing THEN Min({d[i] : i \in Identifiers}) \div Open
                   ELSE (Max({0} \cup {d[i] : i \in {j \in Identifiers : d[j] # NullBkt}})
                         + Open) \div Open
    /\ LET moves == [n \in 1 .. Cardinality(Identifiers) |->
                        LET i == Listed(Identifiers)[n]
                        IN  [id |-> i, to |-> IF d[i] = NullBkt THEN NullBkt
                                              ELSE to_range(d[i])]]
       IN  /\ bkts = update_buckets([b \in 0 .. Open |-> <<>>], moves)
           /\ num_elms = Entered(moves)
    /\ cur_bkt = 0
    /\ calling = "next"
    /\ bucket = [id |-> NullBkt, ids |-> <<>>]
    /\ waiting = {i \in Identifiers : d[i] # NullBkt}

---------------------------------------------------------------------------
(* next_bucket.                                                            *)

Looking == calling = "next" /\ bkts[cur_bkt] = <<>> /\ num_elms > 0

NextOpen ==
    /\ Looking /\ cur_bkt + 1 < Open
    /\ cur_bkt' = cur_bkt + 1
    /\ UNCHANGED <<client, d, bkts, cur_range, num_elms, calling, bucket, waiting>>

(* The next range; the overflow is distributed, identifiers that have been *)
(* handed out are dropped, and if none is in the range it is set so that   *)
(* the next one holds the first.                                           *)
Unpack ==
    LET overflow == bkts[Open]
        range == IF increasing THEN cur_range + 1 ELSE cur_range - 1
        moves == [n \in DOMAIN overflow |->
                     [id |-> overflow[n], to |-> to_range_at(range, d[overflow[n]])]]
        new == update_buckets([bkts EXCEPT ![Open] = <<>>], moves)
        left == {d[new[Open][n]] : n \in DOMAIN new[Open]}
    IN  /\ Looking /\ cur_bkt + 1 = Open
        /\ bkts' = new
        /\ cur_range' = IF Entered(moves) > Len(new[Open]) \/ left = {} THEN range
                        ELSE IF increasing THEN Min(left) \div Open - 1
                        ELSE (Open + Max(left)) \div Open + 1
        /\ num_elms' = num_elms + Entered(moves) - Len(overflow)
        /\ cur_bkt' = 0
        /\ UNCHANGED <<client, d, calling, bucket, waiting>>

(* get_cur_bucket: copies that were left behind are filtered out, and if   *)
(* nothing else is there the search goes on.                               *)
Extract ==
    LET ids == SelectSeq(bkts[cur_bkt], LAMBDA i : d[i] = get_cur_bucket_num)
    IN  /\ calling = "next" /\ bkts[cur_bkt] # <<>>
        /\ num_elms' = num_elms - Len(bkts[cur_bkt])
        /\ bkts' = [bkts EXCEPT ![cur_bkt] = <<>>]
        /\ IF ids = <<>> THEN UNCHANGED <<calling, bucket, waiting>>
           ELSE /\ calling' = "update"
                /\ bucket' = [id |-> get_cur_bucket_num, ids |-> ids]
                /\ waiting' = waiting \ ToSet(ids)
        /\ UNCHANGED <<client, d, cur_bkt, cur_range>>

NoneLeft ==
    /\ calling = "next" /\ num_elms = 0
    /\ calling' = "end"
    /\ bucket' = [id |-> NullBkt, ids |-> <<>>]
    /\ UNCHANGED <<client, d, bkts, cur_bkt, cur_range, num_elms, waiting>>

---------------------------------------------------------------------------
(* The clients: the priorities an identifier may get between two buckets,  *)
(* its own if it is not moved.                                             *)

NewPriorities(i) ==
    LET k == bucket.id
    IN  CASE client = "kcore" -> IF d[i] > k THEN k .. d[i] ELSE {d[i]}
          [] client = "delta" -> IF d[i] = NullBkt THEN k .. MaxPriority \cup {NullBkt}
                                 ELSE IF d[i] >= k THEN k .. d[i] ELSE {d[i]}
          [] client = "cover" -> IF i \in ToSet(bucket.ids) THEN 0 .. k \cup {NullBkt}
                                 ELSE {d[i]}

(* Whether a move that leaves the priority as it is was made: k-core makes *)
(* none, set-cover one of each identifier it was given; delta-stepping may *)
(* move an identifier inside its bucket.                                   *)
MovedAnyway(i) == CASE client = "kcore" -> {FALSE}
                    [] client = "delta" -> IF d[i] # NullBkt /\ d[i] >= bucket.id
                                           THEN BOOLEAN ELSE {FALSE}
                    [] client = "cover" -> {i \in ToSet(bucket.ids)}

Rebucket ==
    /\ calling = "update"
    /\ \E new \in [Identifiers -> Priorities \cup {NullBkt}],
          again \in SUBSET Identifiers :
          LET moved == {i \in Identifiers : new[i] # d[i]} \cup again
              moves == [n \in 1 .. Cardinality(moved) |->
                           LET i == Listed(moved)[n]
                           IN  [id |-> i, to |-> get_bucket(d[i], new[i])]]
          IN  /\ \A i \in Identifiers : new[i] \in NewPriorities(i)
              /\ \A i \in Identifiers : (i \in again) \in MovedAnyway(i)
              /\ d' = new
              /\ bkts' = update_buckets(bkts, moves)
              /\ num_elms' = num_elms + Entered(moves)
              /\ waiting' = waiting \cup {i \in moved : new[i] # NullBkt}
    /\ calling' = "next"
    /\ UNCHANGED <<client, cur_bkt, cur_range, bucket>>

BucketsNext == NextOpen \/ Unpack \/ Extract \/ NoneLeft \/ Rebucket

---------------------------------------------------------------------------
(* Each bucket is the first of those that are not empty, and holds all of  *)
(* its identifiers once, whatever copies were left behind and however the  *)
(* ranges were skipped; the end is told only when all have been handed     *)
(* out; and the overflow never differs from what is counted (unpack would  *)
(* end the program).                                                       *)
BucketsExact ==
    /\ calling = "update" /\ bucket.id # NullBkt =>
          /\ IsInjective(bucket.ids)
          /\ \A i \in ToSet(bucket.ids) : d[i] = bucket.id
          /\ \A i \in waiting : IF increasing THEN d[i] > bucket.id ELSE d[i] < bucket.id
    /\ calling = "end" => waiting = {}
    /\ Looking /\ cur_bkt + 1 = Open => Len(bkts[Open]) = num_elms
=============================================================================
