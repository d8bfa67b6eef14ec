------------------------------- MODULE L2Cache -------------------------------
(***************************************************************************)
(* CACHE (src/src/cache.cc) as the L2 cache of one core: its read, write   *)
(* and prefetch queues, its MSHRs and one set of its blocks.               *)
(*                                                                         *)
(* Above it are L1I and L1D, which remember in MSHRs of their own what     *)
(* they wait for; below it is LLC, which answers in any order.  Both are   *)
(* environment, reduced to what they may call and what they remember.      *)
(*                                                                         *)
(* operate() is split at its handlers, in their order; calls of L1I, L1D   *)
(* and LLC fall between two operate() calls (pc = "idle").  Cycles are not *)
(* counted: the head of a queue may or may not be ready (event_cycle), and *)
(* MSHRs are filled in the order in which they were answered.              *)
(*                                                                         *)
(* Page table walks bypass this cache (PTW_DRAM).                          *)
(***************************************************************************)
EXTENDS Integers, Sequences, FiniteSets

CONSTANTS
    Addr,                       \* the addresses of one set
    NoAddr,                     \* an invalid way
    Way,                        \* 0..(NUM_WAY - 1)
    RqSize, WqSize, PqSize,     \* L2C_RQ_SIZE, L2C_WQ_SIZE, L2C_PQ_SIZE
    MshrSize,                   \* L2C_MSHR_SIZE
    L1iMshrSize, L1dMshrSize    \* L1I_MSHR_SIZE, L1D_MSHR_SIZE

ASSUME SizeAssumption ==
    /\ NoAddr \notin Addr /\ Way \subseteq Nat /\ Way # {}
    /\ WqSize \in Nat \ {0} /\ PqSize \in Nat \ {0} /\ MshrSize \in Nat \ {0}
    /\ L1iMshrSize \in Nat /\ L1dMshrSize \in Nat

\* inc/cache.h: the read queue has room for everything L1I and L1D can miss on.
ASSUME ReadQueueAssumption ==
    RqSize \in Nat \ {0} /\ RqSize >= L1iMshrSize + L1dMshrSize

Upper == {"L1I", "L1D"}
UpperMshrSize(u) == IF u = "L1I" THEN L1iMshrSize ELSE L1dMshrSize

FillL1 == 1
FillL2 == 2
FillLlc == 4

VARIABLES
    pc,         \* the handler operate() runs next
    rq, wq, pq, \* RQ, WQ and PQ, oldest first
    mshr,       \* the used MSHR entries
    fills,      \* addresses of the COMPLETED ones, earliest event_cycle first
    block,      \* block[set]: address (NoAddr: not valid) and dirty
    \* Environment:
    waiting,    \* the addresses L1I and L1D have sent down and wait for
    l1d_holds,  \* blocks L1D may hold
    \* History, read by no action:
    unsaved,    \* written back by L1D and not yet passed on to LLC
    overlapped  \* filled by a write back while a miss on them was in flight

queues == <<rq, wq, pq>>
misses == <<mshr, fills>>
uppers == <<waiting, l1d_holds>>
history == <<unsaved, overlapped>>
vars == <<pc, queues, misses, block, uppers, history>>

Packet == [address : Addr, type : {"LOAD", "PREFETCH"},
           fill_level : {FillL1, FillL2, FillLlc},
           instruction : BOOLEAN, is_data : BOOLEAN,
           fill_l1i : BOOLEAN, fill_l1d : BOOLEAN, send_both_cache : BOOLEAN]

\* The packet a miss of L1I or L1D sends down.  RFOs are reads here.
FromUpper(u, a, type) ==
    [address |-> a, type |-> type, fill_level |-> FillL1,
     instruction |-> u = "L1I", is_data |-> u = "L1D",
     fill_l1i |-> u = "L1I", fill_l1d |-> u = "L1D", send_both_cache |-> FALSE]

\* The packet prefetch_line makes for a level below L1.
Prefetched(a, level) ==
    [address |-> a, type |-> "PREFETCH", fill_level |-> level,
     instruction |-> FALSE, is_data |-> TRUE,
     fill_l1i |-> FALSE, fill_l1d |-> FALSE, send_both_cache |-> FALSE]

Positions(queue, a) == {i \in DOMAIN queue : queue[i].address = a}
InFlight(a) == {m \in mshr : m.address = a}
InWq(a) == \E i \in DOMAIN wq : wq[i] = a

Init ==
    /\ pc = "idle" /\ rq = <<>> /\ wq = <<>> /\ pq = <<>>
    /\ mshr = {} /\ fills = <<>>
    /\ block = [w \in Way |-> [address |-> NoAddr, dirty |-> FALSE]]
    /\ waiting = [u \in Upper |-> {}] /\ l1d_holds = {}
    /\ unsaved = {} /\ overlapped = {}

-----------------------------------------------------------------------------
(* Answers to the level above: return_data of L1I and L1D. *)

Flagged(p) ==
    {u \in Upper : (u = "L1I" /\ p.fill_l1i) \/ (u = "L1D" /\ p.fill_l1d)}

\* Whom handle_fill and a read hit answer.
Recipients(p) ==
    IF p.fill_level >= FillL2 THEN {}
    ELSE IF p.send_both_cache THEN Upper
    ELSE IF Flagged(p) # {} THEN Flagged(p)
    ELSE IF p.instruction THEN {"L1I"}
    ELSE IF p.is_data THEN {"L1D"} ELSE {}

\* Whom a prefetch hit and a hit in the write queue answer.
FlaggedRecipients(p) == IF p.fill_level < FillL2 THEN Flagged(p) ELSE {}

\* w is what L1I and L1D wait for when the answer arrives.
Answer(w, us, a) ==
    /\ waiting' = [u \in Upper |-> IF u \in us THEN w[u] \ {a} ELSE w[u]]
    /\ l1d_holds' = IF "L1D" \in us THEN l1d_holds \cup {a} ELSE l1d_holds

-----------------------------------------------------------------------------
(* Calls of L1I, L1D and LLC. *)

\* add_rq, the merge with an entry of RQ.  The fill flags are taken over in
\* the branch of a data packet only; send_both_cache makes up for that.
MergeIntoRq(e, p) ==
    LET both == e.send_both_cache
                \/ (e.fill_level = FillL1 /\ p.fill_level = FillL1
                    /\ e.instruction # p.instruction)
        level == IF p.fill_level < e.fill_level THEN p.fill_level ELSE e.fill_level
    IN  IF p.instruction
        THEN [e EXCEPT !.send_both_cache = both, !.fill_level = level,
                       !.instruction = TRUE]
        ELSE [e EXCEPT !.send_both_cache = both, !.fill_level = level,
                       !.is_data = TRUE,
                       !.fill_l1i = @ \/ p.fill_l1i, !.fill_l1d = @ \/ p.fill_l1d]

\* A block in the write queue answers the packet at once.
AnsweredFromWq(p, w) ==
    InWq(p.address) /\ Answer(w, FlaggedRecipients(p), p.address)

\* The callers have an answer pending from now on, but hear nothing yet.
NoAnswer(p, w) == ~InWq(p.address) /\ waiting' = w /\ UNCHANGED l1d_holds

\* A full queue refuses the packet (-2), which no caller of add_rq looks at.
AppendToRq(p) == rq' = IF Len(rq) = RqSize THEN rq ELSE Append(rq, p)

AddRq(p, w) ==
    LET at == Positions(rq, p.address)
    IN  \/ AnsweredFromWq(p, w) /\ UNCHANGED rq
        \/ /\ NoAnswer(p, w) /\ at # {}
           /\ rq' = [i \in DOMAIN rq |->
                        IF i \in at THEN MergeIntoRq(rq[i], p) ELSE rq[i]]
        \/ NoAnswer(p, w) /\ at = {} /\ AppendToRq(p)

\* add_pq, the merge with an entry of PQ.
MergeIntoPq(e, p) ==
    LET lower == p.fill_level < e.fill_level
    IN  [e EXCEPT !.fill_level = IF lower THEN p.fill_level ELSE @,
                  !.instruction = IF lower THEN p.instruction ELSE @,
                  !.is_data = @ \/ p.is_data,
                  !.fill_l1i = @ \/ p.fill_l1i, !.fill_l1d = @ \/ p.fill_l1d]

AppendToPq(p) == pq' = IF Len(pq) = PqSize THEN pq ELSE Append(pq, p)

AddPq(p, w) ==
    LET at == Positions(pq, p.address)
    IN  \/ AnsweredFromWq(p, w) /\ UNCHANGED pq
        \/ /\ NoAnswer(p, w) /\ at # {}
           /\ pq' = [i \in DOMAIN pq |->
                        IF i \in at THEN MergeIntoPq(pq[i], p) ELSE pq[i]]
        \/ NoAnswer(p, w) /\ at = {} /\ AppendToPq(p)

\* A level-1 miss finds an MSHR of its own first (add_nonfifo_queue), so it
\* never sends an address twice.
CanMiss(u, a) == a \notin waiting[u] /\ Cardinality(waiting[u]) < UpperMshrSize(u)
NowWaiting(u, a) == [waiting EXCEPT ![u] = @ \cup {a}]

UpperRead(u, a) ==
    /\ pc = "idle" /\ CanMiss(u, a)
    /\ u = "L1D" => a \notin l1d_holds
    /\ AddRq(FromUpper(u, a, "LOAD"), NowWaiting(u, a))
    /\ UNCHANGED <<pc, wq, pq, misses, block, history>>

\* handle_prefetch of L1I and L1D looks at get_occupancy(3) first.
UpperPrefetch(u, a) ==
    /\ pc = "idle" /\ CanMiss(u, a) /\ Len(pq) # PqSize
    /\ u = "L1D" => a \notin l1d_holds
    /\ AddPq(FromUpper(u, a, "PREFETCH"), NowWaiting(u, a))
    /\ UNCHANGED <<pc, rq, wq, misses, block, history>>

\* prefetch_line, called by the prefetcher of this cache, and a prefetch of
\* L1D that is to fill L2 or LLC only: nobody waits for these.
PrefetchLine(a, level) ==
    /\ pc = "idle" /\ Len(pq) # PqSize
    /\ AddPq(Prefetched(a, level), waiting)
    /\ UNCHANGED <<pc, rq, wq, misses, block, history>>

\* L1D replaces a block it holds: it forgets a clean one without a word,
\* and writes a dirty one back when get_occupancy(2) leaves room (add_wq).
DropClean(a) ==
    /\ pc = "idle" /\ a \in l1d_holds /\ l1d_holds' = l1d_holds \ {a}
    /\ UNCHANGED <<pc, queues, misses, block, waiting, history>>

WriteBack(a) ==
    /\ pc = "idle" /\ a \in l1d_holds /\ Len(wq) # WqSize
    /\ wq' = IF InWq(a) THEN wq ELSE Append(wq, a)
    /\ l1d_holds' = l1d_holds \ {a} /\ unsaved' = unsaved \cup {a}
    /\ UNCHANGED <<pc, rq, pq, misses, block, waiting, overlapped>>

\* return_data: LLC answers a miss.
LlcAnswers(a) ==
    /\ pc = "idle" /\ InFlight(a) # {}
    /\ ~\E i \in DOMAIN fills : fills[i] = a
    /\ fills' = Append(fills, a)
    /\ UNCHANGED <<pc, queues, mshr, block, uppers, history>>

Begin ==
    /\ pc = "idle" /\ pc' = "fill"
    /\ UNCHANGED <<queues, misses, block, uppers, history>>

-----------------------------------------------------------------------------
(* The blocks. *)

\* check_hit: the first way that holds the address.
Hits(a) == {w \in Way : block[w].address = a}
HitWay(a) == CHOOSE w \in Hits(a) : \A v \in Hits(a) : w <= v

\* find_victim: an invalid way if there is one, else any way (the policy).
Victims ==
    LET free == Hits(NoAddr)
    IN  IF free = {} THEN Way ELSE {CHOOSE w \in free : \A v \in free : w <= v}

\* Fault: a dirty victim is replaced without being written back.
PassOnFault(w) == unsaved

\* A dirty victim goes to LLC's write queue first (add_wq).  When that has no
\* room the caller does nothing and tries again in a later cycle.
PassOn(w) == IF block[w].dirty THEN unsaved \ {block[w].address} ELSE unsaved

\* fill_cache, and the dirty bit the callers set after it.
Fill(w, a, dirty) == block' = [block EXCEPT ![w] = [address |-> a, dirty |-> dirty]]

-----------------------------------------------------------------------------
(* operate *)

\* handle_fill: the MSHR with the earliest event_cycle.
DoFill(w) ==
    LET m == CHOOSE m \in mshr : m.address = Head(fills)
    IN  /\ fills # <<>>
        /\ Fill(w, m.address, FALSE)
        /\ unsaved' = PassOn(w) /\ overlapped' = overlapped \ {block[w].address}
        /\ Answer(waiting, Recipients(m), m.address)
        /\ mshr' = mshr \ {m} /\ fills' = Tail(fills)

\* Nothing is COMPLETED, its cycle has not come, or LLC has no room.
SkipFill == UNCHANGED <<misses, block, uppers, history>>

HandleFill ==
    /\ pc = "fill" /\ pc' = "writeback"
    /\ SkipFill \/ \E w \in Victims : DoFill(w)
    /\ UNCHANGED queues

WriteHit(a) ==
    /\ Hits(a) # {}
    /\ block' = [block EXCEPT ![HitWay(a)].dirty = TRUE]
    /\ UNCHANGED history

\* Fault: the block is not looked up first.
WriteMissFault(a, w) ==
    /\ Fill(w, a, TRUE) /\ unsaved' = PassOn(w)
    /\ overlapped' = (overlapped \ {block[w].address}) \cup
                     (IF InFlight(a) # {} THEN {a} ELSE {})

\* The miss allocates at once, whether or not the MSHRs hold the address.
WriteMiss(a, w) ==
    /\ Hits(a) = {}
    /\ Fill(w, a, TRUE) /\ unsaved' = PassOn(w)
    /\ overlapped' = (overlapped \ {block[w].address}) \cup
                     (IF InFlight(a) # {} THEN {a} ELSE {})

DoWriteback(a) ==
    /\ WriteHit(a) \/ \E w \in Victims : WriteMiss(a, w)
    /\ wq' = Tail(wq)

\* WQ is empty, its head is not ready, or LLC has no room for the victim.
SkipWriteback == UNCHANGED <<wq, block, history>>

HandleWriteback ==
    /\ pc = "writeback" /\ pc' = "read"
    /\ SkipWriteback \/ (wq # <<>> /\ DoWriteback(Head(wq)))
    /\ UNCHANGED <<rq, pq, misses, uppers>>

\* A new miss: an MSHR, and a request to LLC, which may answer it from its
\* own write queue before add_rq or add_pq returns.
NewMiss(p) ==
    /\ mshr' = mshr \cup {p}
    /\ \/ UNCHANGED fills
       \/ fills' = Append(fills, p.address)

\* Fault: the flags of the prefetch in flight are overwritten.
UpgradedFault(m, p) ==
    [p EXCEPT !.fill_level = IF m.fill_level < @ THEN m.fill_level ELSE @]

\* A demand read takes over the MSHR of a prefetch.
Upgraded(m, p) ==
    [p EXCEPT !.fill_level = IF m.fill_level < @ THEN m.fill_level ELSE @,
              !.fill_l1i = @ \/ m.fill_l1i, !.fill_l1d = @ \/ m.fill_l1d,
              !.instruction = @ \/ m.instruction]

\* fill_level and the fill flags of a packet merged into an MSHR.
Merged(m, p) ==
    LET lower == p.fill_level < m.fill_level
    IN  [m EXCEPT !.fill_level = IF lower THEN p.fill_level ELSE @,
                  !.instruction = IF lower THEN p.instruction ELSE @,
                  !.fill_l1i = @ \/ p.fill_l1i, !.fill_l1d = @ \/ p.fill_l1d]

MergeIntoMshr(p) ==
    \E m \in InFlight(p.address) :
        mshr' = (mshr \ {m}) \cup
                {IF m.type = "PREFETCH" /\ p.type # "PREFETCH"
                 THEN Upgraded(Merged(m, p), p) ELSE Merged(m, p)}

ReadHit(p) ==
    /\ Hits(p.address) # {}
    /\ Answer(waiting, Recipients(p), p.address)
    /\ UNCHANGED misses

\* Fault: a read that finds the MSHRs full is taken out of RQ.
ReadMissDroppedFault(p) ==
    /\ Hits(p.address) = {}
    /\ \/ InFlight(p.address) = {} /\ Cardinality(mshr) < MshrSize /\ NewMiss(p)
       \/ InFlight(p.address) = {} /\ Cardinality(mshr) = MshrSize /\ UNCHANGED misses
       \/ InFlight(p.address) # {} /\ MergeIntoMshr(p) /\ UNCHANGED fills
    /\ UNCHANGED uppers

ReadMiss(p) ==
    /\ Hits(p.address) = {}
    /\ \/ InFlight(p.address) = {} /\ Cardinality(mshr) < MshrSize /\ NewMiss(p)
       \/ InFlight(p.address) # {} /\ MergeIntoMshr(p) /\ UNCHANGED fills
    /\ UNCHANGED uppers

DoRead(p) == (ReadHit(p) \/ ReadMiss(p)) /\ rq' = Tail(rq)

\* RQ is empty, its head is not ready, or the MSHRs are full.
SkipRead == UNCHANGED <<rq, misses, uppers>>

\* MAX_READ is 1.  A read that was handled leaves no turn to prefetches.
HandleRead ==
    /\ pc = "read"
    /\ \/ SkipRead /\ pc' = "prefetch"
       \/ rq # <<>> /\ DoRead(Head(rq)) /\ pc' = "idle"
    /\ UNCHANGED <<wq, pq, block, history>>

PrefetchHit(p) ==
    /\ Hits(p.address) # {}
    /\ Answer(waiting, FlaggedRecipients(p), p.address)
    /\ UNCHANGED misses

\* A new miss needs an MSHR and room in LLC's prefetch queue; a prefetch that
\* fills LLC only is passed on without an MSHR.
PrefetchMiss(p) ==
    /\ Hits(p.address) = {}
    /\ \/ /\ InFlight(p.address) = {} /\ Cardinality(mshr) < MshrSize
          /\ IF p.fill_level <= FillL2 THEN NewMiss(p) ELSE UNCHANGED misses
       \/ InFlight(p.address) # {} /\ MergeIntoMshr(p) /\ UNCHANGED fills
    /\ UNCHANGED uppers

DoPrefetch(p) == (PrefetchHit(p) \/ PrefetchMiss(p)) /\ pq' = Tail(pq)

\* PQ is empty, its head is not ready, the MSHRs or LLC's PQ are full.
SkipPrefetch == UNCHANGED <<pq, misses, uppers>>

HandlePrefetch ==
    /\ pc = "prefetch" /\ pc' = "idle"
    /\ SkipPrefetch \/ (pq # <<>> /\ DoPrefetch(Head(pq)))
    /\ UNCHANGED <<rq, wq, block, history>>

-----------------------------------------------------------------------------
Operate == Begin \/ HandleFill \/ HandleWriteback \/ HandleRead \/ HandlePrefetch

Next ==
    \/ \E a \in Addr :
          \/ \E u \in Upper : UpperRead(u, a) \/ UpperPrefetch(u, a)
          \/ \E level \in {FillL2, FillLlc} : PrefetchLine(a, level)
          \/ DropClean(a) \/ WriteBack(a) \/ LlcAnswers(a)
    \/ Operate

Spec == Init /\ [][Next]_vars

\* operate() is called in every cycle.  A head that waits is ready after a
\* fixed latency, and LLC answers and empties its write queue however busy
\* it is: what is possible again and again is done.  Nobody is obliged to
\* call.
FairSpec ==
    /\ Spec /\ WF_vars(Operate)
    /\ SF_vars(HandleFill /\ ~SkipFill)
    /\ SF_vars(HandleWriteback /\ ~SkipWriteback)
    /\ SF_vars(HandleRead /\ ~SkipRead)
    /\ \A a \in Addr : SF_vars(LlcAnswers(a))

-----------------------------------------------------------------------------
(* Properties. *)

\* Every variable keeps its type and no queue outgrows its array.
TypeOK ==
    /\ pc \in {"idle", "fill", "writeback", "read", "prefetch"}
    /\ rq \in Seq(Packet) /\ Len(rq) <= RqSize
    /\ pq \in Seq(Packet) /\ Len(pq) <= PqSize
    /\ wq \in Seq(Addr) /\ Len(wq) <= WqSize
    /\ mshr \subseteq Packet /\ Cardinality(mshr) <= MshrSize
    /\ fills \in Seq(Addr)
    /\ block \in [Way -> [address : Addr \cup {NoAddr}, dirty : BOOLEAN]]
    /\ waiting \in [Upper -> SUBSET Addr]
    /\ l1d_holds \subseteq Addr /\ unsaved \subseteq Addr /\ overlapped \subseteq Addr

\* For every address an upper cache waits for there is exactly one request in
\* this cache that will answer it, and no request will answer a cache that
\* does not wait: requests of two caches for one block are merged in RQ, in
\* PQ and in the MSHRs, each time by other rules, and the answer is worked
\* out from the flags that survive.  One answer too few blocks the core, one
\* too many fails the assertion of return_data ("cannot find a matching
\* entry").
Answering(u, a) ==
    {<<"RQ", i>> : i \in {i \in Positions(rq, a) : u \in Recipients(rq[i])}}
    \cup {<<"PQ", i>> : i \in {i \in Positions(pq, a) : u \in FlaggedRecipients(pq[i])}}
    \cup {<<"MSHR", m>> : m \in {m \in InFlight(a) : u \in Recipients(m)}}
OneAnswerOwed ==
    \A u \in Upper, a \in Addr :
        Cardinality(Answering(u, a)) = IF a \in waiting[u] THEN 1 ELSE 0

\* No address has two MSHRs, and what is scheduled for filling is in flight,
\* once: handle_fill would otherwise fill an entry LLC has not answered.
FillsInFlight ==
    /\ \A m, n \in mshr : m.address = n.address => m = n
    /\ \A i \in DOMAIN fills : InFlight(fills[i]) # {}
    /\ \A i, j \in DOMAIN fills : fills[i] = fills[j] => i = j

\* Data L1D has written back stays in WQ or in a dirty block until it is
\* written to LLC: it is not lost in a merge, an eviction or a fill.
DirtyKept ==
    \A a \in unsaved : InWq(a) \/ \E w \in Way : block[w] = [address |-> a, dirty |-> TRUE]

\* handle_fill does not look for the block it fills, and handle_writeback
\* does not look into the MSHRs, so a set can come to hold one block twice.
\* That happens in one way only: a write back was allocated while a miss on
\* the block was in flight; and never more than twice.
CopiesOnlyByOverlap ==
    \A a \in Addr :
        /\ Cardinality(Hits(a)) <= IF a \in overlapped THEN 2 ELSE 1
        /\ InFlight(a) # {} => Cardinality(Hits(a)) <= 1

\* What handle_fill takes is in flight and is there once, and so a set has no
\* block twice but by an overlapping write back.
FillsSound == FillsInFlight /\ CopiesOnlyByOverlap

\* A read is answered, though MSHRs may be full, LLC may have no room for a
\* victim and other reads keep coming.
ReadAnswered ==
    \A u \in Upper, a \in Addr :
        (\E i \in Positions(rq, a) : u \in Recipients(rq[i])) ~> a \notin waiting[u]
=============================================================================
