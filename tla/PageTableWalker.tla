--------------------------- MODULE PageTableWalker ---------------------------
(* PAGE_TABLE_WALKER with PTW_DRAM: walks of a radix tree through DRAM, the  *)
(* paging-structure caches PSCL2..PSCL<Levels>, page faults and page swaps,  *)
(* for the STLB above it. A virtual page is a number; level i of the tree is *)
(* indexed by its upper digits, as full_virtual_address is in the code.      *)
EXTENDS Integers, FiniteSets, Functions, Sequences

CONSTANTS
    Levels,             \* of the tree; 5 in the code
    Fan,                \* NUM_ENTRIES_PER_PAGE
    Page,               \* the virtual pages of the program
    Translation0,       \* number of the first translation page (0xf000000f00000)
    DramPages,          \* DRAM_PAGES
    PsclWays,           \* ways of each PSCL, taken to have one set
    StlbMshr,           \* MSHRs of the STLB
    StlbWays,
    PtwRqSize, PtwPqSize

ASSUME WalkerAssumption ==
    /\ Levels \in Nat /\ Levels >= 2 /\ Fan \in Nat \ {0}
    /\ Page \subseteq 0..(Translation0 - 1) /\ Translation0 \in Nat
    /\ {StlbMshr, StlbWays, PtwRqSize, PtwPqSize} \subseteq Nat \ {0}
    /\ DramPages \in Nat /\ DramPages > Levels     \* the first walk needs no swap
    /\ PsclWays \in [2..Levels -> Nat \ {0}]
    /\ PtwRqSize >= StlbMshr    \* "Should be greater than or equal to STLB MSHR Size"

VARIABLES
    tree,       \* next_level_base_addr: node <<i, index>> -> frame
    cr3,        \* CR3_addr, 0 before the first walk
    table,      \* page_table: virtual page -> frame
    inverse,    \* inverse_table: frame -> virtual page
    created,    \* translation pages mapped so far
    pscl,       \* level -> sequence of [index, data], the oldest fill first
    rq, pq,     \* requests [page, type]
    mshr,       \* the walk in progress, at most one
    stlbMshr,   \* STLB.MSHR: page -> [type, returned, data]
    stlb,       \* blocks of the STLB: page -> frame
    dram,       \* blocks of data pages in the queues of DRAM: [kind, block]
    warm,       \* all_warmup_complete < NUM_CPUS
    failed      \* an assertion failed

paging == <<tree, cr3, table, inverse, created>>
walker == <<pscl, rq, pq, mshr>>
vars == <<paging, walker, stlbMshr, stlb, dram, warm, failed>>

Load == "LOAD_TRANSLATION"
FromL1d == "TRANSLATION_FROM_L1D"
Prefetch == "PREFETCH_TRANSLATION"
Types == {Load, FromL1d, Prefetch}
NoFrame == 0            \* UINT64_MAX in the code
Dropped == -1           \* the data of a prefetch dropped in a page fault

\* get_index and get_offset: the digits above level i, and the digit of level i.
Index(v, i) ==
    LET upper[j \in 1..Levels] == IF j = 1 THEN v ELSE upper[j - 1] \div Fan IN upper[i]
Offset(v, i) == Index(v, i) % Fan

\* next_level_base_addr on the way of page v at level i.
Entry(t, v, i) == IF <<i, Index(v, i)>> \in DOMAIN t THEN t[<<i, Index(v, i)>>] ELSE NoFrame

-----------------------------------------------------------------------------
(* Mapping pages: m is the record of what va_to_pa_ptw changes.              *)

Mapping == [tree |-> tree, table |-> table, inverse |-> inverse,
            created |-> created, stlb |-> stlb]

Without(f, x) == Restrict(f, DOMAIN f \ {x})
With(f, x, y) == [z \in DOMAIN f \cup {x} |-> IF z = x THEN y ELSE f[z]]

\* recent_page is never filled, so the first page of the map is "not recently used".
NruPage(t) == CHOOSE v \in DOMAIN t : \A w \in DOMAIN t : v <= w

\* The next page that is free: random_ppage is drawn until it is not in
\* inverse_table, and nothing depends on which frame it is.
FreshFrame(inv) == Cardinality(DOMAIN inv) + 1

\* Fault: the page that loses its frame stays in page_table.
VaToPaFault(m, v) ==
    IF Cardinality(DOMAIN m.inverse) >= DramPages
    THEN LET frame == m.table[NruPage(m.table)]
         IN  [m EXCEPT !.table = With(@, v, frame), !.inverse[frame] = v]
    ELSE LET frame == FreshFrame(m.inverse)
         IN  [m EXCEPT !.table = With(@, v, frame), !.inverse = With(@, frame, v)]

VaToPa(m, v) ==
    IF Cardinality(DOMAIN m.inverse) >= DramPages
    THEN LET victim == NruPage(m.table)
             frame == m.table[victim]
         IN  [m EXCEPT !.table = With(Without(@, victim), v, frame),
                       !.inverse[frame] = v,
                       !.stlb = Without(@, victim)]       \* invalidate_entry
    ELSE LET frame == FreshFrame(m.inverse)
         IN  [m EXCEPT !.table = With(@, v, frame), !.inverse = With(@, frame, v)]

\* map_translation_page, for the entry of page v at level i.
MapTranslationPage(m, v, i) ==
    LET vpage == Translation0 + m.created
        n == VaToPa(m, vpage)
    IN  [n EXCEPT !.tree = With(@, <<i, Index(v, i)>>, n.table[vpage]), !.created = @ + 1]

MapDataPage(m, v) ==
    LET n == VaToPa(m, v)
    IN  [n EXCEPT !.tree = With(@, <<1, Index(v, 1)>>, n.table[v])]

\* handle_page_fault: the pages below level i and the data page, from the top.
HandlePageFault(m, v, i) ==
    LET mapped[j \in 0..(i - 1)] ==
            IF j = 0 THEN m ELSE MapTranslationPage(mapped[j - 1], v, i + 1 - j)
    IN  MapDataPage(mapped[i - 1], v)

\* The first page fault of the process also maps the page CR3 points to.
MapRoot(m) ==
    LET n == VaToPa(m, Translation0 + m.created) IN [n EXCEPT !.created = @ + 1]

SetMapping(m) ==
    /\ tree' = m.tree
    /\ table' = m.table
    /\ inverse' = m.inverse
    /\ created' = m.created

-----------------------------------------------------------------------------
(* Paging-structure caches.                                                  *)

Hits(i, v) == {k \in DOMAIN pscl[i] : pscl[i][k].index = Index(v, i)}

\* fill_mmu_cache: lru_update only happens on fills, so the oldest fill leaves.
FillPscl(c, i, v, data) ==
    LET filled == Append(c[i], [index |-> Index(v, i), data |-> data])
    IN  [c EXCEPT ![i] = IF Len(filled) > PsclWays[i] THEN Tail(filled) ELSE filled]

\* The levels from "from" down to 2, with the entries of tree t.
FillPscls(t, v, from) ==
    [i \in 2..Levels |-> IF i <= from THEN FillPscl(pscl, i, v, Entry(t, v, i))[i] ELSE pscl[i]]

-----------------------------------------------------------------------------
(* The STLB.                                                                 *)

\* STLB.return_data finds the MSHR by its page.
ReturnToStlb(v, data) ==
    stlbMshr' = [stlbMshr EXCEPT ![v].returned = TRUE, ![v].data = data]

InRq(v) == \E k \in DOMAIN rq : rq[k].page = v

\* PAGE_TABLE_WALKER::add_rq: a duplicate fails, a full queue loses the request.
AddRq(v, type) ==
    IF InRq(v)
    THEN failed' = TRUE /\ UNCHANGED rq
    ELSE /\ rq' = IF Len(rq) < PtwRqSize THEN Append(rq, [page |-> v, type |-> type]) ELSE rq
         /\ UNCHANGED failed

\* A miss of the STLB: demand reads and translations for L1D prefetches come
\* through its RQ, the prefetches of TLB prefetchers through its PQ.
Miss(v, type) ==
    /\ v \notin DOMAIN stlb \cup DOMAIN stlbMshr
    /\ Cardinality(DOMAIN stlbMshr) < StlbMshr
    /\ stlbMshr' = With(stlbMshr, v, [type |-> type, returned |-> FALSE, data |-> NoFrame])
    /\ IF type = Prefetch
       THEN /\ Len(pq) < PtwPqSize
            /\ pq' = Append(pq, [page |-> v, type |-> type])
            /\ UNCHANGED <<rq, failed>>
       ELSE AddRq(v, type) /\ UNCHANGED pq
    /\ UNCHANGED <<paging, pscl, mshr, stlb, dram, warm>>

\* A read of the STLB meets the MSHR of a prefetch of another type, returned or
\* not, and takes it over.
Merge(v, type) ==
    /\ v \in DOMAIN stlbMshr
    /\ stlbMshr[v].type # Load /\ stlbMshr[v].type # type /\ type # Prefetch
    /\ stlbMshr' = [stlbMshr EXCEPT ![v].type = type]
    /\ UNCHANGED <<paging, walker, stlb, dram, warm, failed>>

\* handle_fill of the STLB: a translation is stored; a dropped prefetch ends,
\* or is sent again when a demand read has taken it over.
FillTranslation(v) ==
    /\ stlbMshr[v].data # Dropped
    /\ stlbMshr' = Without(stlbMshr, v)
    /\ \E kept \in SUBSET DOMAIN stlb :
        /\ Cardinality(kept) = IF Cardinality(DOMAIN stlb) = StlbWays
                               THEN StlbWays - 1 ELSE Cardinality(DOMAIN stlb)
        /\ stlb' = With(Restrict(stlb, kept), v, stlbMshr[v].data)
    /\ UNCHANGED <<rq, failed>>

DropPrefetch(v) ==
    /\ stlbMshr[v].data = Dropped
    /\ stlbMshr[v].type # Load
    /\ stlbMshr' = Without(stlbMshr, v)
    /\ UNCHANGED <<rq, stlb, failed>>

\* Fault: the request is not added to RQ again.
SendAgainFault(v) ==
    /\ stlbMshr[v].data = Dropped
    /\ stlbMshr[v].type = Load
    /\ stlbMshr' = [stlbMshr EXCEPT ![v].returned = FALSE]
    /\ UNCHANGED <<rq, stlb, failed>>

SendAgain(v) ==
    /\ stlbMshr[v].data = Dropped
    /\ stlbMshr[v].type = Load
    /\ stlbMshr' = [stlbMshr EXCEPT ![v].returned = FALSE]
    /\ AddRq(v, Load)
    /\ UNCHANGED stlb

Fill(v) ==
    /\ v \in DOMAIN stlbMshr
    /\ stlbMshr[v].returned
    /\ FillTranslation(v) \/ DropPrefetch(v) \/ SendAgain(v)
    /\ UNCHANGED <<paging, pscl, pq, mshr, dram, warm>>

-----------------------------------------------------------------------------
(* operate().                                                                *)

IsPrefetch(type) == type \in {FromL1d, Prefetch}

\* DRAM.add_rq for the walk w. In the warm-up, and from the write queue, the
\* answer comes inside the call; then return_data needs the MSHR to be there.
SendToDram(w, inMshr) ==
    LET forwarded == [kind |-> "write", block |-> w.block] \in dram
        merged == [kind |-> "read", block |-> w.block] \in dram
        done == [w EXCEPT !.level = @ - 1, !.returned = TRUE]
        atOnce == warm \/ forwarded
    IN  \/ atOnce /\ inMshr /\ mshr' = {done} /\ UNCHANGED failed
        \/ ~atOnce /\ ~merged /\ mshr' = {[w EXCEPT !.returned = FALSE]} /\ UNCHANGED failed
        \/ (IF atOnce THEN ~inMshr ELSE merged) /\ failed' = TRUE /\ UNCHANGED mshr

\* The first request of a process: CR3 is set, everything is mapped, all PSCLs
\* are filled and the STLB is answered at once, prefetch or not.
FirstWalk(req) ==
    LET m == HandlePageFault(MapRoot(Mapping), req.page, Levels)
    IN  /\ cr3 = NoFrame
        /\ SetMapping(m)
        /\ stlb' = m.stlb
        /\ cr3' = MapRoot(Mapping).table[Translation0 + created]
        /\ pscl' = FillPscls(m.tree, req.page, Levels)
        /\ ReturnToStlb(req.page, Entry(m.tree, req.page, 1))
        /\ UNCHANGED <<mshr, failed>>

\* The deepest PSCL that hits gives the level to go on with: level i - 1 after
\* a hit in PSCL i, the top level after none.
HitLevel(v) ==
    LET hit == {i \in 2..Levels : Hits(i, v) # {}}
    IN  IF hit = {} THEN Levels + 1 ELSE CHOOSE i \in hit : \A j \in hit : i <= j

HitBase(v) ==
    IF HitLevel(v) = Levels + 1 THEN cr3
    ELSE pscl[HitLevel(v)][CHOOSE k \in Hits(HitLevel(v), v) :
                               \A j \in Hits(HitLevel(v), v) : k <= j].data

\* A walk starts. offset: the entry of the translation page that is read.
StartWalk(req, offset) ==
    LET level == HitLevel(req.page) - 1
        w == [page |-> req.page, type |-> req.type, level |-> level, init |-> level,
              block |-> <<HitBase(req.page), offset>>, returned |-> FALSE]
    IN  /\ cr3 # NoFrame \/ HitLevel(req.page) <= Levels
        /\ SendToDram(w, warm)
        /\ UNCHANGED <<paging, pscl, stlbMshr, stlb>>

HandleRq ==
    /\ mshr = {}
    /\ rq # << >>
    /\ rq' = Tail(rq)
    /\ LET req == Head(rq) IN
        FirstWalk(req) \/ StartWalk(req, Offset(req.page, HitLevel(req.page) - 1))
    /\ UNCHANGED <<pq, dram, warm>>

\* Fault: every branch takes the address from RQ.entry.
PrefetchOffsetFault(v) == 0

\* After a hit in the top PSCL the prefetch branch takes the address from
\* RQ.entry, which is empty here: the offset is 0.
PrefetchOffset(v) == IF HitLevel(v) = Levels THEN 0 ELSE Offset(v, HitLevel(v) - 1)

HandlePq ==
    /\ mshr = {}
    /\ rq = << >>
    /\ pq # << >>
    /\ pq' = Tail(pq)
    /\ LET req == Head(pq) IN FirstWalk(req) \/ StartWalk(req, PrefetchOffset(req.page))
    /\ UNCHANGED <<rq, dram, warm>>

\* Levels above the one just read whose entry is missing.
MissingLevels(w) == {i \in (w.level + 1)..Levels : Entry(tree, w.page, i) = NoFrame}
FaultLevel(w) == CHOOSE i \in MissingLevels(w) : \A j \in MissingLevels(w) : j <= i

\* The data of the last level of w has come, or a page fault has mapped it.
FinishWalk(w, m) ==
    /\ SetMapping(m)
    /\ stlb' = m.stlb
    /\ pscl' = FillPscls(m.tree, w.page, w.init)
    /\ ReturnToStlb(w.page, Entry(m.tree, w.page, 1))
    /\ mshr' = {}
    /\ UNCHANGED failed

\* Fault: the MSHR is kept.
DropWalkFault(w) ==
    /\ MissingLevels(w) # {}
    /\ IsPrefetch(w.type)
    /\ ReturnToStlb(w.page, Dropped)
    /\ UNCHANGED <<tree, table, inverse, created, pscl, mshr, stlb, failed>>

DropWalk(w) ==
    /\ MissingLevels(w) # {}
    /\ IsPrefetch(w.type)
    /\ ReturnToStlb(w.page, Dropped)
    /\ mshr' = {}
    /\ UNCHANGED <<tree, table, inverse, created, pscl, stlb, failed>>

FaultWalk(w) ==
    /\ MissingLevels(w) # {}
    /\ ~IsPrefetch(w.type)
    /\ FinishWalk(w, HandlePageFault(Mapping, w.page, FaultLevel(w)))

CompleteWalk(w) ==
    /\ MissingLevels(w) = {}
    /\ w.level = 0
    /\ FinishWalk(w, Mapping)

NextLevel(w) ==
    /\ MissingLevels(w) = {}
    /\ w.level > 0
    /\ SendToDram([w EXCEPT !.block = <<Entry(tree, w.page, w.level + 1), Offset(w.page, w.level)>>],
                  TRUE)
    /\ UNCHANGED <<tree, table, inverse, created, pscl, stlb, stlbMshr>>

HandleMshr ==
    /\ \E w \in mshr :
        /\ w.returned
        /\ DropWalk(w) \/ FaultWalk(w) \/ CompleteWalk(w) \/ NextLevel(w)
    /\ UNCHANGED <<cr3, rq, pq, dram, warm>>

Operate == HandleMshr \/ HandleRq \/ HandlePq

-----------------------------------------------------------------------------
(* DRAM and LLC.                                                             *)

\* PAGE_TABLE_WALKER::return_data.
ReturnData ==
    /\ \E w \in mshr : ~w.returned /\ mshr' = {[w EXCEPT !.returned = TRUE, !.level = @ - 1]}
    /\ UNCHANGED <<paging, pscl, rq, pq, stlbMshr, stlb, dram, warm, failed>>

\* LLC reads or writes back a block of a data page that has a frame.
Access(kind, v) ==
    /\ v \in DOMAIN table
    /\ dram = {}                     \* one at a time is enough
    /\ dram' = {[kind |-> kind, block |-> <<table[v], 0>>]}
    /\ UNCHANGED <<paging, walker, stlbMshr, stlb, warm, failed>>

Serve ==
    /\ dram # {}
    /\ dram' = {}
    /\ UNCHANGED <<paging, walker, stlbMshr, stlb, warm, failed>>

WarmupEnds ==
    /\ warm
    /\ warm' = FALSE
    /\ UNCHANGED <<paging, walker, stlbMshr, stlb, dram, failed>>

-----------------------------------------------------------------------------
Init ==
    /\ tree = << >> /\ table = << >> /\ inverse = << >>
    /\ cr3 = NoFrame /\ created = 0
    /\ pscl = [i \in 2..Levels |-> << >>]
    /\ rq = << >> /\ pq = << >> /\ mshr = {}
    /\ stlbMshr = << >> /\ stlb = << >>
    /\ dram = {}
    /\ warm = TRUE
    /\ failed = FALSE

Next ==
    /\ ~failed
    /\ \/ \E v \in Page, type \in Types : Miss(v, type)
       \/ \E v \in Page, type \in Types : Merge(v, type)
       \/ \E v \in Page : Fill(v)
       \/ Operate \/ ReturnData
       \/ \E v \in Page : Access("read", v) \/ Access("write", v)
       \/ Serve \/ WarmupEnds

Spec == Init /\ [][Next]_vars

\* What enables Operate.
Pending == IF mshr = {} THEN rq # << >> \/ pq # << >> ELSE \E w \in mshr : w.returned

\* operate() is called in every cycle and DRAM has room again, DRAM answers, and
\* the STLB handles what has returned. The first conjunct is WF_vars(Operate)
\* with its enabling condition written out, which TLC evaluates much faster.
FairSpec ==
    /\ Spec
    /\ []<>(failed \/ ~Pending) \/ []<><<Operate>>_vars
    /\ WF_vars(~failed /\ ReturnData)
    /\ \A v \in Page : WF_vars(~failed /\ Fill(v))
-----------------------------------------------------------------------------
(* Properties.                                                               *)

\* page_table and inverse_table are inverse to each other: no frame has two pages.
MapsInverse ==
    /\ \A v \in DOMAIN table : table[v] \in DOMAIN inverse /\ inverse[table[v]] = v
    /\ \A f \in DOMAIN inverse : inverse[f] \in DOMAIN table /\ table[inverse[f]] = f

\* A PSCL holds what the tree holds, once for each index.
PsclsAgree ==
    \A i \in 2..Levels : \A k, j \in DOMAIN pscl[i] :
        /\ <<i, pscl[i][k].index>> \in DOMAIN tree
        /\ pscl[i][k].data = tree[<<i, pscl[i][k].index>>]
        /\ pscl[i][k].index = pscl[i][j].index => k = j

\* The frame of page v went to another page; the tree the walks read still has it.
Lost(v) == Entry(tree, v, 1) # NoFrame /\ v \notin DOMAIN table

\* A translation in the tree, on its way to the STLB or in it is the one of
\* page_table, unless a swap gave the frame of the page away.
TranslationsAgree ==
    \A v \in Page :
        LET returned == {u \in {v} \cap DOMAIN stlbMshr : stlbMshr[u].returned}
            known == ({Entry(tree, v, 1)} \ {NoFrame})
                     \cup ({stlbMshr[u].data : u \in returned} \ {Dropped})
                     \cup {stlb[u] : u \in {v} \cap DOMAIN stlb}
        IN  \A f \in known : IF v \in DOMAIN table THEN f = table[v] ELSE Lost(v)

\* The four places that know a translation tell the same: page_table with its
\* inverse, the radix tree, the paging-structure caches, and the STLB with its
\* answers under way; through allocations, evictions and swaps (va_to_pa_ptw).
PagingConsistent == MapsInverse /\ PsclsAgree /\ TranslationsAgree

\* Each miss of the STLB is named once in the walker until it is answered, and
\* the walker works for nobody else; so no duplicate reaches add_rq, and RQ
\* is never full when a request is sent again.
OneWalkPerMiss ==
    LET count(v) == Cardinality({k \in DOMAIN rq : rq[k].page = v})
                    + Cardinality({k \in DOMAIN pq : pq[k].page = v})
                    + Cardinality({w \in mshr : w.page = v})
    IN  ~failed => \A v \in Page :
            count(v) = IF v \in DOMAIN stlbMshr /\ ~stlbMshr[v].returned THEN 1 ELSE 0

\* The block a walk reads is the entry for its page in the page of its level;
\* only a prefetch that starts from the top PSCL reads entry 0 instead.
WalkReadsEntry ==
    \A w \in mshr : ~w.returned =>
        LET base == IF w.level = Levels THEN cr3 ELSE Entry(tree, w.page, w.level + 1)
            zero == w.type = Prefetch /\ w.level = w.init /\ w.level = Levels - 1
        IN  w.block \in {<<base, Offset(w.page, w.level)>>}
                        \cup (IF zero THEN {<<base, 0>>} ELSE {})

\* The assertions of add_rq, operate and return_data fail only when a frame
\* has changed its owner, when DRAM still works for the former one.
FailsOnlyAfterSwap ==
    failed => \E f \in DOMAIN inverse : inverse[f] >= Translation0 /\ \E v \in Page :
        Entry(tree, v, 1) = f /\ Lost(v)

\* A walk reads the entry it is at, and the walker stops only where the code
\* would after a page swap.
WalksSound == WalkReadsEntry /\ FailsOnlyAfterSwap

\* Every demand read that misses in the STLB is answered, also one that took
\* over a prefetch which was then dropped in a page fault; only one that took
\* over a prefetch waiting in PQ may wait as long as RQ has something to do.
DemandAnswered ==
    \A v \in Page :
        \/ []<>(rq # << >> /\ \E k \in DOMAIN pq : pq[k].page = v)
        \/ (v \in DOMAIN stlbMshr /\ stlbMshr[v].type = Load) ~> (failed \/ v \in DOMAIN stlb)

=============================================================================
