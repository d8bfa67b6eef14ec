--------------------------- MODULE TranslationPath ---------------------------
(* Requests of L1D that wait for a translation, and what runs for them in    *)
(* DTLB and STLB (CACHE with cache_type IS_L1D, IS_DTLB, IS_STLB): the       *)
(* indices of waiting requests travel in packets, are merged in queues and   *)
(* MSHRs and come back in PROCESSED. The page table walker answers or drops  *)
(* (PageTableWalker says how). The frame of a page is the page: a waiter     *)
(* that gets the frame of another page shows.                                *)
EXTENDS Integers, FiniteSets, Functions, SequencesExt

CONSTANTS
    Page,                       \* 1..n
    RqSize, WqSize, PqSize,     \* L1D_RQ_SIZE, L1D_WQ_SIZE, L1D_PQ_SIZE
    DtlbRq, DtlbMshr, StlbRq, StlbMshr,
    Processed                   \* PROCESSED.SIZE, ROB_SIZE in the code; a bound for STLB

\* The relations of the sizes are those of inc/cache.h (in it STLB_RQ_SIZE also
\* counts ITLB's MSHRs) and inc/ooo_cpu.h: PROCESSED has ROB_SIZE entries.
ASSUME TranslationAssumption ==
    /\ Page \subseteq Nat \ {0}
    /\ {RqSize, WqSize, PqSize, DtlbRq, DtlbMshr, StlbRq, StlbMshr, Processed}
            \subseteq Nat \ {0}
    /\ StlbRq >= PqSize + DtlbMshr
    /\ Processed >= RqSize + WqSize

VARIABLES
    l1,         \* RQ, WQ and PQ of L1D: waiter <<queue, index>> -> [page, pa]
    pqHead,     \* PQ.head; RQ and WQ are not FIFO
    dtlbRq, dtlbMshr, dtlbDone,     \* RQ, MSHR and PROCESSED
    stlbRq, stlbMshr, stlbDone,
    walks,      \* pages the walker works for: page -> type of the request
    failed      \* an assertion failed, or a packet that somebody waits for was lost

dtlbVars == <<dtlbRq, dtlbMshr, dtlbDone>>
stlbVars == <<stlbRq, stlbMshr, stlbDone>>
vars == <<l1, pqHead, dtlbVars, stlbVars, walks, failed>>

Load == "LOAD_TRANSLATION"
FromL1d == "TRANSLATION_FROM_L1D"
Waiting == 0        \* translated == INFLIGHT
Dropped == -1       \* the translation of a prefetch dropped in a page fault
Nobody == <<"none", -1>>

Reads == {"read"} \X (0..(RqSize - 1))
Writes == {"write"} \X (0..(WqSize - 1))
Prefetches == {"prefetch"} \X (0..(PqSize - 1))
Waiters == Reads \cup Writes \cup Prefetches
Free == [page |-> 0, pa |-> Waiting]

FreeSlots(queue) == {w \in queue : l1[w] = Free}
Used(queue) == Cardinality(queue) - Cardinality(FreeSlots(queue))
LowestFree(queue) == CHOOSE w \in FreeSlots(queue) : \A x \in FreeSlots(queue) : w[2] <= x[2]

Without(f, x) == Restrict(f, DOMAIN f \ {x})
With(f, x, y) == [z \in DOMAIN f \cup {x} |-> IF z = x THEN y ELSE f[z]]

\* A TLB packet: first is the l1_rq_index, l1_wq_index or l1_pq_index of the
\* request, merged the sets of indices merged into it, level its fill_level.
\* An MSHR is the packet; returned and data are set when the answer comes.
Packet(p, type, level, w) ==
    [page |-> p, type |-> type, level |-> level, first |-> w, merged |-> {},
     returned |-> FALSE, data |-> Waiting]
Named(packet) == ({packet.first} \cup packet.merged) \ {Nobody}

-----------------------------------------------------------------------------
(* Packets merge.                                                            *)

\* add_rq of a TLB. A packet for a page that is in RQ leaves its index there
\* (only its own, not those merged into it) and makes it a demand request.
MergeInRq(entry, packet) ==
    [entry EXCEPT !.merged = @ \cup ({packet.first} \ {Nobody}),
                  !.level = IF packet.level < @ THEN packet.level ELSE @,
                  !.type = IF packet.type = Load THEN Load ELSE @]

AddRq(queue, packet) ==
    LET same == {k \in DOMAIN queue : queue[k].page = packet.page}
    IN  IF same = {} THEN Append(queue, packet)
        ELSE [k \in DOMAIN queue |->
                 IF k \in same THEN MergeInRq(queue[k], packet) ELSE queue[k]]

\* Room for a packet that is not merged.
Fits(queue, size, packet) ==
    Len(queue) < size \/ \E k \in DOMAIN queue : queue[k].page = packet.page

\* Fault: the demand request overwrites the prefetch's MSHR, the indices too.
MergeInMshrFault(entry, req) ==
    [entry EXCEPT !.type = req.type, !.level = req.level, !.first = req.first,
                  !.merged = req.merged]

\* handle_read finds an MSHR for the page. The MSHR of a prefetch is overwritten
\* with the demand request, which takes over the indices, what has returned and
\* its data; any other MSHR takes over the indices of the request.
MergeInMshr(entry, req) ==
    LET both == Named(entry) \cup Named(req)
        level == IF req.level < entry.level THEN req.level ELSE entry.level
    IN  IF entry.type = FromL1d /\ req.type # FromL1d
        THEN [entry EXCEPT !.type = req.type, !.level = level, !.first = req.first,
                           !.merged = both \ {req.first}]
        ELSE [entry EXCEPT !.level = level, !.merged = both \ {entry.first}]

\* DTLB drops the packet when PROCESSED is full.
AddProcessed(queue, packet) ==
    IF Len(queue) < Processed THEN Append(queue, packet) ELSE queue

\* check_hit. Which blocks a TLB holds is left open: a page without an MSHR hits
\* or misses, one with an MSHR misses, since fill_cache and the release of the
\* MSHR are one step.
MayHit(mshr, p) == p \notin DOMAIN mshr

-----------------------------------------------------------------------------
(* L1D.                                                                      *)

\* add_rq and add_wq of L1D send a translation to DTLB; when its RQ is full
\* they return -2. add_rq's caller tries again. retire_rob has looked for room
\* in WQ and ignores what add_wq returns.
AddDemand(queue, p) ==
    /\ FreeSlots(queue) # {}
    /\ Len(dtlbRq) < DtlbRq
    /\ LET w == LowestFree(queue) IN
        /\ l1' = [l1 EXCEPT ![w] = [page |-> p, pa |-> Waiting]]
        /\ dtlbRq' = AddRq(dtlbRq, Packet(p, Load, 1, w))
    /\ UNCHANGED <<pqHead, dtlbMshr, dtlbDone, stlbVars, walks, failed>>

\* add_pq of L1D: the translation comes from STLB.
AddPrefetch(p) ==
    LET w == <<"prefetch", (pqHead + Used(Prefetches)) % PqSize>> IN
    /\ FreeSlots(Prefetches) # {}
    /\ Len(stlbRq) < StlbRq
    /\ l1' = [l1 EXCEPT ![w] = [page |-> p, pa |-> Waiting]]
    /\ stlbRq' = AddRq(stlbRq, Packet(p, FromL1d, 2, w))
    /\ UNCHANGED <<pqHead, dtlbVars, stlbMshr, stlbDone, walks, failed>>

\* handle_read and handle_writeback take any request that is translated,
\* handle_prefetch the oldest if it is; a dropped one just goes. A request is
\* taken L1D_LATENCY cycles after its completion (event_cycle) at the earliest.
\* Then PROCESSED has passed on the second copy of the packet that completed
\* it (Times), which comes right behind the first: one packet goes in a cycle.
Access(w) ==
    /\ w \in Reads \cup Writes
    /\ l1[w].pa # Waiting
    /\ l1' = [l1 EXCEPT ![w] = Free]
    /\ UNCHANGED <<pqHead, dtlbVars, stlbVars, walks, failed>>

HandlePrefetch ==
    LET w == <<"prefetch", pqHead>> IN
    /\ l1[w].pa # Waiting
    /\ \A d \in Range(stlbDone) : w \notin Named(d)
    /\ l1' = [l1 EXCEPT ![w] = Free]
    /\ pqHead' = (pqHead + 1) % PqSize
    /\ UNCHANGED <<dtlbVars, stlbVars, walks, failed>>

\* The requests packet d completes: the first whatever its state, those merged
\* only if they wait; all only if they are for the page.
Completed(d) ==
    {w \in Named(d) : /\ l1[w].page = d.page
                      /\ (w = d.first /\ w \notin Prefetches) \/ l1[w].pa = Waiting}

\* handle_processed: PROCESSED of DTLB for reads and writes, PROCESSED of STLB
\* for prefetches. A call does both; they touch different queues.
ProcessDtlb ==
    /\ dtlbDone # << >>
    /\ l1' = [w \in Waiters |-> IF w \in Completed(Head(dtlbDone))
                                THEN [l1[w] EXCEPT !.pa = Head(dtlbDone).data] ELSE l1[w]]
    /\ dtlbDone' = Tail(dtlbDone)
    /\ UNCHANGED <<pqHead, dtlbRq, dtlbMshr, stlbVars, walks, failed>>

ProcessStlb ==
    /\ stlbDone # << >>
    /\ l1' = [w \in Waiters |-> IF w \in Completed(Head(stlbDone))
                                THEN [l1[w] EXCEPT !.pa = Head(stlbDone).data] ELSE l1[w]]
    /\ stlbDone' = Tail(stlbDone)
    /\ UNCHANGED <<pqHead, dtlbVars, stlbRq, stlbMshr, walks, failed>>

-----------------------------------------------------------------------------
(* DTLB.                                                                     *)

DtlbHit(req) ==
    /\ MayHit(dtlbMshr, req.page)
    /\ dtlbDone' = AddProcessed(dtlbDone, [req EXCEPT !.data = req.page])
    /\ UNCHANGED <<dtlbMshr, stlbRq, failed>>

DtlbMerge(req) ==
    /\ req.page \in DOMAIN dtlbMshr
    /\ dtlbMshr' = [dtlbMshr EXCEPT ![req.page] = MergeInMshr(@, req)]
    /\ UNCHANGED <<dtlbDone, stlbRq, failed>>

\* What STLB.add_rq returns is ignored: a packet that finds no room is lost.
DtlbMiss(req) ==
    /\ req.page \notin DOMAIN dtlbMshr
    /\ Cardinality(DOMAIN dtlbMshr) < DtlbMshr
    /\ dtlbMshr' = With(dtlbMshr, req.page, req)
    /\ IF Fits(stlbRq, StlbRq, req) THEN stlbRq' = AddRq(stlbRq, req) /\ UNCHANGED failed
                                    ELSE failed' = TRUE /\ UNCHANGED stlbRq
    /\ UNCHANGED dtlbDone

DtlbRead ==
    /\ dtlbRq # << >>
    /\ dtlbRq' = Tail(dtlbRq)
    /\ DtlbHit(Head(dtlbRq)) \/ DtlbMerge(Head(dtlbRq)) \/ DtlbMiss(Head(dtlbRq))
    /\ UNCHANGED <<l1, pqHead, stlbMshr, stlbDone, walks>>

DtlbFill(p) ==
    /\ p \in DOMAIN dtlbMshr
    /\ dtlbMshr[p].returned
    /\ dtlbDone' = AddProcessed(dtlbDone, dtlbMshr[p])
    /\ dtlbMshr' = Without(dtlbMshr, p)
    /\ UNCHANGED <<l1, pqHead, dtlbRq, stlbVars, walks, failed>>

\* DTLB.return_data, called by STLB for packets of level 1.
ReturnToDtlb(packet) ==
    IF packet.level # 1 THEN UNCHANGED <<dtlbMshr, failed>>
    ELSE IF packet.page \in DOMAIN dtlbMshr
    THEN /\ dtlbMshr' = [dtlbMshr EXCEPT ![packet.page].returned = TRUE,
                                         ![packet.page].data = packet.page]
         /\ UNCHANGED failed
    ELSE failed' = TRUE /\ UNCHANGED dtlbMshr

-----------------------------------------------------------------------------
(* STLB.                                                                     *)

\* What goes to PROCESSED of STLB for packet d: once for the request of L1D's
\* PQ itself and, on a hit, once more for the requests merged into it.
ForPrefetches(d, data) ==
    [d EXCEPT !.first = IF @ \in Prefetches THEN @ ELSE Nobody,
              !.merged = @ \cap Prefetches, !.data = data]

Times(d, hit) ==
    LET first == d.first \in Prefetches
        merged == d.merged \cap Prefetches # {}
    IN  IF first /\ merged /\ hit THEN 2 ELSE IF first \/ merged THEN 1 ELSE 0

\* STLB asserts that PROCESSED has room; here it waits for room: L1D takes one
\* packet a cycle, and nothing but its 352 entries bounds how many STLB adds.
Notify(d, data, hit) ==
    /\ Len(stlbDone) + Times(d, hit) <= Processed
    /\ stlbDone' = stlbDone \o [k \in 1..Times(d, hit) |-> ForPrefetches(d, data)]

StlbHit(req) ==
    /\ MayHit(stlbMshr, req.page)
    /\ Notify(req, req.page, TRUE)
    /\ ReturnToDtlb(req)
    /\ UNCHANGED <<stlbMshr, walks>>

StlbMerge(req) ==
    /\ req.page \in DOMAIN stlbMshr
    /\ stlbMshr' = [stlbMshr EXCEPT ![req.page] = MergeInMshr(@, req)]
    /\ UNCHANGED <<stlbDone, dtlbMshr, walks, failed>>

StlbMiss(req) ==
    /\ req.page \notin DOMAIN stlbMshr
    /\ Cardinality(DOMAIN stlbMshr) < StlbMshr
    /\ stlbMshr' = With(stlbMshr, req.page, req)
    /\ walks' = With(walks, req.page, req.type)
    /\ UNCHANGED <<stlbDone, dtlbMshr, failed>>

StlbRead ==
    /\ stlbRq # << >>
    /\ stlbRq' = Tail(stlbRq)
    /\ StlbHit(Head(stlbRq)) \/ StlbMerge(Head(stlbRq)) \/ StlbMiss(Head(stlbRq))
    /\ UNCHANGED <<l1, pqHead, dtlbRq, dtlbDone>>

\* handle_fill of STLB: a dropped prefetch is reported, or sent again when a
\* demand request has taken it over; everything else is stored.
StlbDrop(m) ==
    /\ m.data = Dropped /\ m.type = FromL1d
    /\ Notify(m, Dropped, FALSE)
    /\ ReturnToDtlb(m)
    /\ stlbMshr' = Without(stlbMshr, m.page)
    /\ UNCHANGED walks

\* Fault: the dropped walk is not started again for the demand request.
StlbSendAgainFault(m) ==
    /\ m.data = Dropped /\ m.type = Load
    /\ stlbMshr' = [stlbMshr EXCEPT ![m.page].returned = FALSE]
    /\ UNCHANGED <<walks, stlbDone, dtlbMshr, failed>>

StlbSendAgain(m) ==
    /\ m.data = Dropped /\ m.type = Load
    /\ stlbMshr' = [stlbMshr EXCEPT ![m.page].returned = FALSE]
    /\ walks' = With(walks, m.page, m.type)
    /\ UNCHANGED <<stlbDone, dtlbMshr, failed>>

StlbStore(m) ==
    /\ m.data # Dropped
    /\ Notify(m, m.page, FALSE)
    /\ ReturnToDtlb(m)
    /\ stlbMshr' = Without(stlbMshr, m.page)
    /\ UNCHANGED walks

StlbFill(p) ==
    /\ p \in DOMAIN stlbMshr
    /\ stlbMshr[p].returned
    /\ StlbDrop(stlbMshr[p]) \/ StlbSendAgain(stlbMshr[p]) \/ StlbStore(stlbMshr[p])
    /\ UNCHANGED <<l1, pqHead, dtlbRq, dtlbDone, stlbRq>>

\* STLB.return_data, called by the walker; it drops walks of prefetches only.
Answer(p) ==
    /\ p \in DOMAIN walks
    /\ \E data \in {p} \cup (IF walks[p] = FromL1d THEN {Dropped} ELSE {}) :
        stlbMshr' = [stlbMshr EXCEPT ![p].returned = TRUE, ![p].data = data]
    /\ walks' = Without(walks, p)
    /\ UNCHANGED <<l1, pqHead, dtlbVars, stlbRq, stlbDone, failed>>

-----------------------------------------------------------------------------
Init ==
    /\ l1 = [w \in Waiters |-> Free]
    /\ pqHead = 0
    /\ dtlbRq = << >> /\ dtlbMshr = << >> /\ dtlbDone = << >>
    /\ stlbRq = << >> /\ stlbMshr = << >> /\ stlbDone = << >>
    /\ walks = << >>
    /\ failed = FALSE

Requests == \E p \in Page : AddDemand(Reads, p) \/ AddDemand(Writes, p) \/ AddPrefetch(p)

Work ==
    \/ \E w \in Waiters : Access(w)
    \/ HandlePrefetch \/ ProcessDtlb \/ ProcessStlb \/ DtlbRead \/ StlbRead
    \/ \E p \in Page : DtlbFill(p) \/ StlbFill(p) \/ Answer(p)

Next == ~failed /\ (Requests \/ Work)

Spec == Init /\ [][Next]_vars

\* Each handler runs in every cycle and the walker answers; a read or a write
\* of L1D may wait for ever, since what it does next is not modelled.
FairSpec ==
    /\ Spec
    /\ WF_vars(HandlePrefetch) /\ WF_vars(ProcessDtlb) /\ WF_vars(ProcessStlb)
    /\ WF_vars(DtlbRead) /\ WF_vars(StlbRead)
    /\ \A p \in Page : WF_vars(DtlbFill(p)) /\ WF_vars(StlbFill(p)) /\ WF_vars(Answer(p))
-----------------------------------------------------------------------------
(* Properties.                                                               *)

InFlight(queue, mshr, done) ==
    Range(queue) \cup Range(mshr) \cup Range(done)

\* Who waits is named by a packet for its page: a read or a write by one in DTLB,
\* a prefetch by one in STLB; and who waits in DTLB's MSHRs by a demand packet
\* in STLB. No merge, overwrite, drop or late PROCESSED loses an index.
\* Who no longer waits got its own page, or, a prefetch, none. No packet is lost
\* or comes unasked: DTLB's misses find room in STLB.RQ, whose size is that of
\* L1D.PQ and DTLB's MSHRs together (inc/cache.h; add_rq's -2 is ignored), and
\* STLB answers DTLB only where it has an MSHR (return_data asserts it).
WaitersNamed ==
    /\ ~failed
    /\ \A w \in Waiters : l1[w] # Free /\ l1[w].pa = Waiting =>
        \E d \in IF w \in Prefetches THEN InFlight(stlbRq, stlbMshr, stlbDone)
                                     ELSE InFlight(dtlbRq, dtlbMshr, dtlbDone) :
            d.page = l1[w].page /\ w \in Named(d)
    /\ \A p \in DOMAIN dtlbMshr : ~dtlbMshr[p].returned =>
        \E d \in InFlight(stlbRq, stlbMshr, << >>) :
            d.page = p /\ d.level = 1 /\ d.type = Load
    /\ \A w \in Waiters :
        l1[w].pa \in {Waiting, l1[w].page} \cup (IF w \in Prefetches THEN {Dropped} ELSE {})

\* Every request gets its translation, or is dropped.
Translated == \A w \in Waiters : l1[w] # Free ~> (failed \/ l1[w].pa # Waiting)

=============================================================================
