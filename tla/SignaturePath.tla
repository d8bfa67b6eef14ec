--------------------------- MODULE SignaturePath ---------------------------
(* The signature path prefetcher of the L2 cache (kpcp.h, kpcp.l2c_pref).    *)
(* Each page has a signature of its last deltas; the pattern table counts    *)
(* the deltas that follow a signature; an access walks down the likeliest    *)
(* ones as long as the product of their shares stays high enough.            *)
EXTENDS Integers, Sequences, FiniteSets, SequencesExt, FiniteSetsExt, Bitwise

CONSTANTS Streams,        \* sequences of accesses: <<page, block>>
          PageBlocks,     \* blocks of a page (64)
          Tags,           \* a tag is the low 16 bits of a page number (65536)
          StWays,         \* L2_ST_WAY (256), the ways of the only set
          PtPrime,        \* L2_PT_PRIME (509)
          PtWays,         \* L2_PT_WAY (4)
          SigShift,       \* what SIG_SHIFT multiplies by (8)
          Signatures,     \* SIG_MASK + 1 (4096)
          CsigMax,        \* CSIG_MAX (16)
          GcMax,          \* GC_MAX (1023)
          BufferSize,     \* L2C_MSHR_SIZE
          MaxEvictions, MaxSwaps, MaxWaiting    \* bounds of the model

VARIABLES st,             \* L2_ST: the ways of the signature table
          pt,             \* L2_PT: c_sig, and a delta and its c_delta per way
          issued, useful, \* spp_pf_issued, spp_pf_useful
          candidates,     \* pf_buffer of the last access
          path,           \* the confidences of its lookahead
          held,           \* blocks in the L2 cache or on their way into it
          swapped,        \* blocks a page swap invalidated, whose way keeps their address
          stream,         \* the accesses to come
          evictions, swaps

pathVars == <<st, pt, issued, useful, candidates, path, held, swapped, stream,
              evictions, swaps>>

PF_THRESHOLD == 25
FILL_THRESHOLD == 75
Blocks == 0 .. PageBlocks - 1
StWay == 1 .. StWays
PtWay == 1 .. PtWays

PathInit ==
    /\ st = [w \in StWay |-> [valid |-> FALSE, tag |-> 0,
                              last |-> 0, sig |-> 0, first |-> FALSE, lru |-> w - 1,
                              pf |-> {}, used |-> {}]]
    /\ pt = [i \in 0 .. PtPrime - 1 |->
               [csig |-> 0, way |-> [w \in PtWay |-> [delta |-> 0, c |-> 0]]]]
    /\ issued = 0 /\ useful = 0
    /\ candidates = <<>> /\ path = <<>>
    /\ held = {} /\ swapped = {}
    /\ stream \in Streams
    /\ evictions = 0 /\ swaps = 0

---------------------------------------------------------------------------
(* get_new_signature: the sign of a delta is a bit of its own.             *)
SigDelta(delta) == IF delta < 0 THEN PageBlocks - delta ELSE delta
NewSignature(old, delta) ==
    LET new == ((old * SigShift) ^^ SigDelta(delta)) % Signatures
    IN  IF delta = 0 THEN old ELSE IF new = 0 THEN SigDelta(delta) ELSE new

(* L2_PT_update: a way with the delta, a free one, or one with the lowest  *)
(* count; a full total is halved, and the counts with it.                  *)
FirstOf(S) == CHOOSE w \in S : \A v \in S : w <= v
Halved(set) ==
    IF set.csig + 1 < CsigMax THEN [set EXCEPT !.csig = @ + 1]
    ELSE [csig |-> CsigMax \div 2,
          way |-> [w \in PtWay |-> [set.way[w] EXCEPT !.c = @ \div 2]]]
PatternUpdate(set, delta) ==
    LET t == Halved(set)
        With(d) == {w \in PtWay : t.way[w].delta = d}
        lowest == {w \in PtWay : /\ t.way[w].c < CsigMax
                                 /\ \A v \in PtWay : t.way[w].c <= t.way[v].c}
        new == [delta |-> delta, c |-> 0]
    IN  IF With(delta) # {} THEN [t EXCEPT !.way[FirstOf(With(delta))].c = @ + 1]
        ELSE IF With(0) # {} THEN [t EXCEPT !.way[FirstOf(With(0))] = new]
        ELSE [t EXCEPT !.way[FirstOf(lowest)] = new]

(* L2_ST_update, per way: what a hit makes of an entry, and a new one,     *)
(* which the bits of the page that had the way before must not survive.    *)
(* Pages with equal tags share an entry.                                   *)
Tag(page) == page % Tags

AfterHit(e, block) ==
    IF e.sig = 0 THEN [e EXCEPT !.sig = SigDelta(block - e.last) % Signatures,
                                !.first = TRUE, !.last = block]
    ELSE [e EXCEPT !.sig = NewSignature(@, block - e.last), !.first = FALSE, !.last = block]

(* Fault: the bits of the old page stay.                                   *)
NewEntryOfFault(e, page, block) ==
    [e EXCEPT !.valid = TRUE, !.tag = Tag(page), !.last = block, !.sig = 0, !.first = FALSE]

NewEntryOf(e, page, block) ==
    [e EXCEPT !.valid = TRUE, !.tag = Tag(page), !.last = block, !.sig = 0, !.first = FALSE,
              !.pf = IF e.valid THEN {} ELSE @, !.used = IF e.valid THEN {} ELSE @]

EntryOf(page) == {w \in StWay : st[w].valid /\ st[w].tag = Tag(page)}
Victim == LET free == {w \in StWay : ~st[w].valid}
          IN  IF free # {} THEN FirstOf(free)
              ELSE FirstOf({w \in StWay : st[w].lru = StWays - 1})
Touched(table, w) ==
    [v \in StWay |-> [table[v] EXCEPT !.lru = IF v = w THEN 0
                                              ELSE IF @ < table[w].lru THEN @ + 1 ELSE @]]

---------------------------------------------------------------------------
(* PF_check: the deltas that are likely enough, as deltas from the block   *)
(* that was accessed, then down the likeliest path.                        *)

SamePage(block, delta) == block + delta \in Blocks
Share(set, w, conf) == (conf * set.way[w].c) \div set.csig
Likely(conf) == {w \in PtWay : conf[w] >= PF_THRESHOLD}
Likeliest(set, S) ==
    CHOOSE w \in S : \A v \in S : \/ set.way[v].c < set.way[w].c
                                  \/ set.way[v].c = set.way[w].c /\ w <= v

(* One more delta, the likeliest, for as long as the buffer has room.      *)
LookAhead(table, block, max, start) ==
    LET Walks == [sig : Nat, conf : Nat, delta : Int, last : Int,
                  buffer : Seq([delta : Int, conf : Nat]), path : Seq(Nat)]
        walk[s \in Walks] ==
            LET next == NewSignature(s.sig, s.delta - s.last)
                set == table[next % PtPrime]
                Conf(w) == (Share(set, w, s.conf) * max) \div 100
                S == IF set.csig = 0 \/ s.conf < PF_THRESHOLD THEN {} ELSE Likely([w \in PtWay |-> Conf(w)])
                best == Likeliest(set, S)
                to == s.delta + set.way[best].delta
            IN  IF S = {} \/ Len(s.buffer) >= BufferSize THEN s
                ELSE walk[[sig |-> next, conf |-> Conf(best), delta |-> to, last |-> s.delta,
                           path |-> Append(s.path, Conf(best)),
                           buffer |-> IF SamePage(block, to) /\ to # 0
                                      THEN Append(s.buffer, [delta |-> to, conf |-> Conf(best)])
                                      ELSE s.buffer]]
    IN  walk[start]

PF_check(table, sig, block, max) ==
    LET set == table[sig % PtPrime]
        Conf(w) == Share(set, w, 100)
        S == IF set.csig = 0 THEN {} ELSE Likely([w \in PtWay |-> Conf(w)])
        best == Likeliest(set, S)
        near == SelectSeq([w \in PtWay |-> w],
                          LAMBDA w : w \in S /\ SamePage(block, set.way[w].delta))
    IN  IF S = {} THEN [buffer |-> <<>>, path |-> <<>>]
        ELSE LookAhead(table, block, max,
                 [sig |-> sig, conf |-> Conf(best), delta |-> set.way[best].delta, last |-> 0,
                  path |-> <<Conf(best)>>,
                  buffer |-> [i \in DOMAIN near |-> [delta |-> set.way[near[i]].delta,
                                                     conf |-> Conf(near[i])]]])

---------------------------------------------------------------------------
(* l2c_prefetcher_operate.  The prefetch queue has room for some of the    *)
(* prefetches; those less likely go to the LLC and leave no bit.           *)

Ask(e, block, s, cand) ==
    LET b == block + cand.delta
        toL2 == cand.conf >= FILL_THRESHOLD
        full == s.issued + 1 > GcMax
    IN  IF b \in s.pf \cup e.used \/ s.room = 0 THEN s
        ELSE [s EXCEPT !.room = @ - 1,
                       !.pf = IF toL2 THEN @ \cup {b} ELSE @,
                       !.issued = IF ~toL2 THEN @ ELSE IF full THEN (@ + 1) \div 2 ELSE @ + 1,
                       !.useful = IF toL2 /\ full THEN @ \div 2 ELSE @]

Operate(page, block, room) ==
    LET hit == EntryOf(page) # {}
        way == IF hit THEN FirstOf(EntryOf(page)) ELSE Victim
        old == st[way]
        table == IF hit /\ old.sig # 0 /\ block # old.last
                 THEN [pt EXCEPT ![old.sig % PtPrime] = PatternUpdate(@, block - old.last)]
                 ELSE pt
        new == IF hit THEN AfterHit(old, block) ELSE NewEntryOf(old, page, block)
        helped == IF block \in new.pf \ new.used THEN useful + 1 ELSE useful
        max == IF issued = 0 THEN 99 ELSE Min({99, (100 * helped) \div issued})
        e == [new EXCEPT !.used = @ \cup {block}]
        check == IF e.sig # 0 /\ ~e.first THEN PF_check(table, e.sig, block, max)
                 ELSE [buffer |-> <<>>, path |-> <<>>]
        asked == FoldLeft(LAMBDA s, c : Ask(e, block, s, c),
                          [pf |-> e.pf, issued |-> issued, useful |-> helped, room |-> room],
                          check.buffer)
    IN  /\ stream' = Tail(stream)
        /\ pt' = table
        /\ st' = Touched([st EXCEPT ![way] = [e EXCEPT !.pf = asked.pf]], way)
        /\ issued' = asked.issued
        /\ useful' = asked.useful
        /\ candidates' = check.buffer
        /\ path' = check.path
        /\ held' = held \cup {<<page, b>> : b \in {block} \cup (asked.pf \ e.pf)}
        /\ UNCHANGED <<swapped, evictions, swaps>>

(* l2c_prefetcher_cache_fill: a way of the L2 cache is filled, and what    *)
(* was in it leaves, be it valid or not.                                   *)
Evicted(page, block) ==
    /\ evictions < MaxEvictions
    /\ evictions' = evictions + 1
    /\ \/ <<page, block>> \in held /\ held' = held \ {<<page, block>>} /\ UNCHANGED swapped
       \/ <<page, block>> \in swapped /\ swapped' = swapped \ {<<page, block>>} /\ UNCHANGED held
    /\ st' = [w \in StWay |-> IF w \in EntryOf(page)
                              THEN [st[w] EXCEPT !.pf = @ \ {block}, !.used = @ \ {block}]
                              ELSE st[w]]
    /\ UNCHANGED <<pt, issued, useful, candidates, path, stream, swaps>>

(* A page swap invalidates the blocks of a frame, all but those that it is *)
(* still waiting for, and tells the prefetcher nothing.                    *)
PageSwapped(page, waiting) ==
    /\ swaps < MaxSwaps
    /\ swaps' = swaps + 1
    /\ LET arrived == {a \in held : a[1] = page} \ waiting
       IN  held' = held \ arrived /\ swapped' = swapped \cup arrived
    /\ UNCHANGED <<st, pt, issued, useful, candidates, path, stream, evictions>>

PathNext ==
    \/ /\ stream # <<>>
       /\ \E room \in {0, BufferSize} : Operate(Head(stream)[1], Head(stream)[2], room)
    \/ \E a \in held \cup swapped : Evicted(a[1], a[2])
    \/ \E page \in {a[1] : a \in held} :
          \E n \in 0 .. MaxWaiting :
             \E waiting \in kSubset(n, {a \in held : a[1] = page}) : PageSwapped(page, waiting)

---------------------------------------------------------------------------
(* The shares of the deltas that follow a signature never add up to more   *)
(* than the whole, through halving and replacement, so that the confidence *)
(* falls at every step of a lookahead, which therefore ends, and the       *)
(* buffer is never overrun; no candidate is the block itself or in another *)
(* page.  The LRU positions are a permutation, so that there is a victim.  *)
(* A bit of a page that is followed, or of one with the same tag, stands   *)
(* for a block that the L2 cache has or waits for, or that a page swap took*)
(* out of a way not filled since: any other block can be prefetched.       *)
SignaturePathSound ==
    /\ \A i \in DOMAIN pt :
          /\ FoldFunction(LAMBDA w, n : w.c + n, 0, pt[i].way) <= pt[i].csig
          /\ pt[i].csig < CsigMax
          /\ \A v, w \in PtWay : pt[i].way[v].delta = pt[i].way[w].delta
                                 => v = w \/ pt[i].way[v] = [delta |-> 0, c |-> 0]
    /\ \A i \in 2 .. Len(path) : path[i] < path[i - 1]
    /\ Len(candidates) <= BufferSize
    /\ \A i \in DOMAIN candidates : candidates[i].delta # 0
    /\ {st[w].lru : w \in StWay} = 0 .. StWays - 1
    /\ \A w \in StWay : \A b \in st[w].pf \cup st[w].used :
          /\ st[w].valid
          /\ \E a \in held \cup swapped : Tag(a[1]) = st[w].tag /\ a[2] = b
=============================================================================
