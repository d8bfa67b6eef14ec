---------------------------- MODULE DramController ----------------------------
(***************************************************************************)
(* MEMORY_CONTROLLER (src/src/dram_controller.cc, src/inc/dram_controller.h)*)
(* for one channel: two out-of-order request queues that share the banks   *)
(* and the data bus, a write mode that decides which of them is served,    *)
(* and cached "next" pointers into both.                                   *)
(*                                                                         *)
(* operate() runs once per core cycle, after the caches have made their    *)
(* calls of that cycle.  It is split at its three parts, in their order    *)
(* (pc = "idle" -> "schedule" -> "process" -> "idle"); nothing else runs   *)
(* between them.                                                           *)
(*                                                                         *)
(* A queue entry keeps address, scheduled and event_cycle.  head and tail  *)
(* of these two queues are never read by the controller.                   *)
(***************************************************************************)
EXTENDS Integers, FiniteSets, EarliestEvent

CONSTANTS
    RqSize, WqSize,         \* DRAM_RQ_SIZE, DRAM_WQ_SIZE
    Addr,                   \* block addresses
    NoAddr,                 \* address 0: an empty slot
    Bank, Row,
    BankOf, RowOf,          \* dram_get_bank, dram_get_row
    NoRow,                  \* UINT32_MAX: no row known to be open
    tRP, tRCD, tCAS,        \* in core cycles
    TurnAround,             \* DRAM_DBUS_TURN_AROUND_TIME
    ReturnTime,             \* DRAM_DBUS_RETURN_TIME
    MaxAge,                 \* bound: how far in the past event_cycle of an arriving packet lies
    MaxCycle                \* bound: the clock stops here (no run gets that far)

ASSUME SizeAssumption == RqSize \in Nat \ {0} /\ WqSize \in Nat \ {0}
ASSUME AddressAssumption ==
    /\ NoAddr \notin Addr /\ NoRow \notin Row
    /\ BankOf \in [Addr -> Bank] /\ RowOf \in [Addr -> Row]
ASSUME TimingAssumption ==
    /\ tRP \in Nat /\ tRCD \in Nat /\ tCAS \in Nat
    /\ TurnAround \in Nat /\ ReturnTime \in Nat
    /\ MaxAge \in Nat /\ MaxCycle \in Nat

Queue == {"RQ", "WQ"}
Size(q) == IF q = "RQ" THEN RqSize ELSE WqSize
Slots(q) == 0..(Size(q) - 1)
NoIndex == -1

HighWM == (WqSize * 7) \div 8       \* DRAM_WRITE_HIGH_WM
LowWM == (WqSize * 3) \div 4        \* DRAM_WRITE_LOW_WM

VARIABLES
    now,            \* current_core_cycle
    warm,           \* all_warmup_complete >= NUM_CPUS
    pc,             \* which part of operate() comes next
    entry,          \* RQ.entry, WQ.entry
    occupancy,      \* RQ.occupancy, WQ.occupancy
    next_schedule,  \* next_schedule_index and next_schedule_cycle of each queue
    next_process,   \* next_process_index and next_process_cycle
    bank_request,   \* the bank state machines
    scheduled,      \* scheduled_reads ("RQ") and scheduled_writes ("WQ")
    write_mode,
    dbus,           \* dbus_cycle_available
    \* History, read by no action of the controller:
    owed,           \* addresses accepted by each queue and not yet served
    switched_at,    \* cycle of the last change of write_mode
    active_at       \* cycle at which the activation of a bank's row is done

queues == <<entry, occupancy>>
pointers == <<next_schedule, next_process>>
banks == <<bank_request, scheduled, dbus, active_at>>
mode == <<write_mode, switched_at>>
vars == <<now, warm, pc, queues, pointers, banks, mode, owed>>

\* The PACKET remove_queue leaves behind; its event_cycle is read by nobody.
EmptyEntry == [address |-> NoAddr, scheduled |-> FALSE, event_cycle |-> 0]
Entry == [address : Addr \cup {NoAddr}, scheduled : BOOLEAN, event_cycle : Nat]

IdleBank == [working |-> FALSE, request_index |-> NoIndex, is_write |-> FALSE,
             is_read |-> FALSE, open_row |-> NoRow, cycle_available |-> 0]
BankRequest == [working : BOOLEAN, request_index : Nat \cup {NoIndex},
                is_write : BOOLEAN, is_read : BOOLEAN,
                open_row : Row \cup {NoRow}, cycle_available : Nat]

NextPointer == [index : Nat, cycle : Nat \cup {Never}]

-----------------------------------------------------------------------------
(* What the queues hold.  e is the entry function of one queue. *)

Occupied(e) == {i \in DOMAIN e : e[i].address # NoAddr}
InService(e) == {i \in DOMAIN e : e[i].scheduled}
Waiting(e) == {i \in Occupied(e) : ~e[i].scheduled}
EventCycle(e) == [i \in DOMAIN e |-> e[i].event_cycle]
Holding(e, a) == {i \in DOMAIN e : e[i].address = a}

NextToSchedule(q, e) == NextEvent(Waiting(e), EventCycle(e), Size(q))
NextToProcess(q, e) == NextEvent(InService(e), EventCycle(e), Size(q))

Active == IF write_mode THEN "WQ" ELSE "RQ"

-----------------------------------------------------------------------------
Init ==
    /\ now = 1 /\ warm = FALSE /\ pc = "idle"
    /\ entry = [q \in Queue |-> [i \in Slots(q) |-> EmptyEntry]]
    /\ occupancy = [q \in Queue |-> 0]
    /\ next_schedule = [q \in Queue |-> [index |-> 0, cycle |-> Never]]
    /\ next_process = [q \in Queue |-> [index |-> 0, cycle |-> Never]]
    /\ bank_request = [b \in Bank |-> IdleBank]
    /\ scheduled = [q \in Queue |-> 0]
    /\ write_mode = FALSE /\ dbus = 0
    /\ owed = [q \in Queue |-> {}] /\ switched_at = 0 /\ active_at = [b \in Bank |-> 0]

-----------------------------------------------------------------------------
(* Calls of the caches and of the page table walker.  A caller has looked  *)
(* at get_occupancy / get_size first (HasRoom); the queue itself never     *)
(* refuses.                                                                *)

\* get_occupancy(q) # get_size(q), as LLC and PTW test it before a call.
HasRoom(q) == occupancy[q] # Size(q)

WarmupCompletes ==
    /\ pc = "idle" /\ ~warm /\ warm' = TRUE
    /\ UNCHANGED <<now, pc, queues, pointers, banks, mode, owed>>

\* Fault: a slot that is not scheduled counts as free.
FreeSlotsFault(q) == {i \in Slots(q) : ~entry[q][i].scheduled}

\* The loop over the slots: the first free one takes the packet.  When there
\* is none the loop ends without storing it.
FreeSlots(q) == Holding(entry[q], NoAddr)

Insert(q, a, cycle) ==
    LET i == CHOOSE i \in FreeSlots(q) : \A j \in FreeSlots(q) : i <= j
        packet == [address |-> a, scheduled |-> FALSE, event_cycle |-> cycle]
    IN  /\ IF FreeSlots(q) = {}
           THEN UNCHANGED queues
           ELSE /\ entry' = [entry EXCEPT ![q][i] = packet]
                /\ occupancy' = [occupancy EXCEPT ![q] = @ + 1]
        /\ next_schedule' =
              [next_schedule EXCEPT ![q] = NextToSchedule(q, entry'[q])]

ArrivalCycles == {c \in 0..now : now <= c + MaxAge}

\* What no new entry is needed for: before the end of warm-up reads get a
\* dummy answer and writes are dropped; later a read of a block in the write
\* queue is answered from there.
AnsweredAtOnce(q, a) ==
    \/ ~warm
    \/ q = "RQ" /\ Holding(entry["WQ"], a) # {}

\* add_rq, add_wq: a duplicate in the queue itself absorbs the call (one
\* answer, or one write, serves both); otherwise a new entry is made.
Add(q, a) ==
    /\ pc = "idle" /\ HasRoom(q)
    /\ \/ /\ AnsweredAtOnce(q, a)
          /\ UNCHANGED <<queues, next_schedule, owed>>
       \/ /\ ~AnsweredAtOnce(q, a) /\ Holding(entry[q], a) # {}
          /\ owed' = [owed EXCEPT ![q] = @ \cup {a}]
          /\ UNCHANGED <<queues, next_schedule>>
       \/ /\ ~AnsweredAtOnce(q, a) /\ Holding(entry[q], a) = {}
          /\ \E c \in ArrivalCycles : Insert(q, a, c)
          /\ owed' = [owed EXCEPT ![q] = @ \cup {a}]
    /\ UNCHANGED <<now, warm, pc, next_process, banks, mode>>

AddRq(a) == Add("RQ", a)
AddWq(a) == Add("WQ", a)

-----------------------------------------------------------------------------
(* operate, part 1: the direction of the data bus. *)

\* reset_remain_requests(queue): every scheduled entry of the queue gives its
\* bank back and waits again.
TouchedBanks(q) == {BankOf[entry[q][i].address] : i \in InService(entry[q])}

\* Fault: the row counts as open without a look at the activation.
ReleasedBankOpenFault(q, b) ==
    [IdleBank EXCEPT !.open_row = bank_request[b].open_row, !.cycle_available = now]

\* Fault: the bank is not given back.
ReleasedBankKeptFault(q, b) == [bank_request[b] EXCEPT !.cycle_available = now]

\* A bank keeps its row open when the activation was over (only tCAS was left
\* to pay), otherwise no row is known to be open.
ReleasedBank(q, b) ==
    LET i == CHOOSE i \in InService(entry[q]) : BankOf[entry[q][i].address] = b
    IN  [IdleBank EXCEPT
            !.open_row = IF bank_request[b].cycle_available - tCAS <= now
                         THEN RowOf[entry[q][i].address] ELSE NoRow,
            !.cycle_available = now]

ReleasedEntry(e) ==
    IF e.scheduled THEN [e EXCEPT !.scheduled = FALSE, !.event_cycle = now]
                   ELSE e

\* Fault: taking back reads is forgotten in the counter.
CountedAsReadsFault(B) == {}

\* The counters are decremented by what the banks say they were doing.
CountedAsWrites(B) == {b \in B : bank_request[b].is_write}
CountedAsReads(B) == {b \in B : ~bank_request[b].is_write /\ bank_request[b].is_read}

\* Fault: only the schedule pointers are recomputed.
RefreshProcessFault ==
    /\ UNCHANGED next_process
    /\ next_schedule' = [q \in Queue |-> NextToSchedule(q, entry'[q])]

RefreshPointers ==
    /\ next_schedule' = [q \in Queue |-> NextToSchedule(q, entry'[q])]
    /\ next_process' = [q \in Queue |-> NextToProcess(q, entry'[q])]

Reset(q) ==
    LET touched == TouchedBanks(q)
    IN  /\ bank_request' = [b \in Bank |-> IF b \in touched THEN ReleasedBank(q, b)
                                           ELSE bank_request[b]]
        /\ scheduled' =
              [scheduled EXCEPT
                  !["RQ"] = @ - Cardinality(CountedAsReads(touched)),
                  !["WQ"] = @ - Cardinality(CountedAsWrites(touched))]
        /\ entry' = [entry EXCEPT ![q] =
                        [i \in Slots(q) |-> ReleasedEntry(entry[q][i])]]
        /\ RefreshPointers

Switch(to, from) ==
    /\ write_mode' = to
    /\ Reset(from)
    /\ dbus' = dbus + TurnAround
    /\ switched_at' = now
    /\ UNCHANGED <<occupancy, active_at>>

MustWrite ==
    /\ ~write_mode
    /\ \/ occupancy["WQ"] >= HighWM
       \/ occupancy["RQ"] = 0 /\ occupancy["WQ"] > 0

\* Fault: waiting reads end the write mode, however many writes are left.
MustReadFault ==
    /\ write_mode
    /\ occupancy["WQ"] = 0 \/ occupancy["RQ"] > 0

MustRead ==
    /\ write_mode
    /\ \/ occupancy["WQ"] = 0
       \/ occupancy["RQ"] > 0 /\ occupancy["WQ"] < LowWM

ChooseMode ==
    /\ pc = "idle" /\ now < MaxCycle /\ pc' = "schedule"
    /\ \/ MustWrite /\ Switch(TRUE, "RQ")
       \/ MustRead /\ Switch(FALSE, "WQ")
       \/ /\ ~MustWrite /\ ~MustRead
          /\ UNCHANGED <<queues, pointers, banks, mode>>
    /\ UNCHANGED <<now, warm, owed>>

-----------------------------------------------------------------------------
(* operate, part 2: give one waiting entry of the active queue to its bank. *)

Due(pointer, q) ==
    /\ pointer.index < Size(q)
    /\ pointer.cycle # Never /\ pointer.cycle <= now

\* The oldest entry whose row is open in an idle bank, else the oldest entry
\* of an idle bank.
Candidates(e) == {i \in Waiting(e) : ~bank_request[BankOf[e[i].address]].working}
RowHits(e) ==
    {i \in Candidates(e) :
        bank_request[BankOf[e[i].address]].open_row = RowOf[e[i].address]}

\* Fault: a row hit is served at once.
LatencyFault(hit) == IF hit THEN 0 ELSE tRP + tRCD + tCAS

Latency(hit) == IF hit THEN tCAS ELSE tRP + tRCD + tCAS

Start(q, i, hit) ==
    LET a == entry[q][i].address
        b == BankOf[a]
    IN  /\ bank_request' =
              [bank_request EXCEPT ![b] =
                  [working |-> TRUE, request_index |-> i,
                   is_write |-> q = "WQ", is_read |-> q = "RQ",
                   open_row |-> RowOf[a], cycle_available |-> now + Latency(hit)]]
        /\ scheduled' = [scheduled EXCEPT ![q] = @ + 1]
        /\ entry' = [entry EXCEPT ![q][i].scheduled = TRUE,
                                  ![q][i].event_cycle = now + Latency(hit)]
        /\ active_at' = IF hit THEN active_at
                        ELSE [active_at EXCEPT ![b] = now + tRP + tRCD]
        /\ next_schedule' =
              [next_schedule EXCEPT ![q] = NextToSchedule(q, entry'[q])]
        /\ next_process' =
              [next_process EXCEPT ![q] = NextToProcess(q, entry'[q])]

Schedule ==
    /\ pc = "schedule" /\ pc' = "process"
    /\ LET e == entry[Active]
           cycle == EventCycle(e)
       IN  \/ /\ Due(next_schedule[Active], Active) /\ RowHits(e) # {}
              /\ Start(Active, Earliest(RowHits(e), cycle), TRUE)
           \/ /\ Due(next_schedule[Active], Active)
              /\ RowHits(e) = {} /\ Candidates(e) # {}
              /\ Start(Active, Earliest(Candidates(e), cycle), FALSE)
           \/ /\ ~Due(next_schedule[Active], Active) \/ Candidates(e) = {}
              /\ UNCHANGED <<entry, pointers, bank_request, scheduled, active_at>>
    /\ UNCHANGED <<now, warm, occupancy, dbus, mode, owed>>

-----------------------------------------------------------------------------
(* operate, part 3: move one finished entry over the data bus. *)

Target(q) == next_process[q].index
TargetBank(q) == BankOf[entry[q][Target(q)].address]

\* remove_queue, as far as these two queues need it.
RemoveEntry(q, i) ==
    /\ entry' = [entry EXCEPT ![q][i] = EmptyEntry]
    /\ occupancy' = [occupancy EXCEPT ![q] = @ - 1]

\* The bank has paid its latency and the bus is free: the data moves, reads
\* are answered (return_data), bank and entry are free again.
Finish(q) ==
    LET i == Target(q)
        b == TargetBank(q)
    IN  /\ dbus' = now + ReturnTime
        /\ bank_request' =
              [bank_request EXCEPT ![b] =
                  [@ EXCEPT !.request_index = NoIndex, !.working = FALSE,
                            !.is_write = FALSE, !.is_read = FALSE]]
        /\ scheduled' = [scheduled EXCEPT ![q] = @ - 1]
        /\ RemoveEntry(q, i)
        /\ next_process' =
              [next_process EXCEPT ![q] = NextToProcess(q, entry'[q])]
        /\ owed' = [owed EXCEPT ![q] = @ \ {entry[q][i].address}]
        /\ UNCHANGED next_schedule

\* The bus is busy: the bank is looked at again when the bus is free.
Postpone(q) ==
    /\ bank_request' =
          [bank_request EXCEPT ![TargetBank(q)].cycle_available = dbus]
    /\ UNCHANGED <<queues, pointers, scheduled, dbus, owed>>

\* The sanity check of process(): the bank of the entry serves that entry.
TargetOwnsBank(q) == bank_request[TargetBank(q)].request_index = Target(q)

BankReady(q) == bank_request[TargetBank(q)].cycle_available <= now

\* A failed sanity check aborts the program: no step.
Process ==
    /\ pc = "process" /\ pc' = "idle" /\ now' = now + 1
    /\ LET q == Active
           due == Due(next_process[q], q)
       IN  \/ due /\ TargetOwnsBank(q) /\ BankReady(q) /\ dbus <= now /\ Finish(q)
           \/ due /\ TargetOwnsBank(q) /\ BankReady(q) /\ dbus > now /\ Postpone(q)
           \/ /\ IF due THEN TargetOwnsBank(q) /\ ~BankReady(q) ELSE TRUE
              /\ UNCHANGED <<queues, pointers, bank_request, scheduled, dbus, owed>>
    /\ UNCHANGED <<warm, active_at, mode>>

-----------------------------------------------------------------------------
Operate == ChooseMode \/ Schedule \/ Process

Next ==
    \/ WarmupCompletes
    \/ \E a \in Addr : AddRq(a) \/ AddWq(a)
    \/ Operate

Spec == Init /\ [][Next]_vars

-----------------------------------------------------------------------------
(* Properties. *)

\* Every variable keeps the type the code declares.
TypeOK ==
    /\ now \in Nat /\ warm \in BOOLEAN /\ pc \in {"idle", "schedule", "process"}
    /\ DOMAIN entry = Queue /\ \A q \in Queue : entry[q] \in [Slots(q) -> Entry]
    /\ occupancy \in [Queue -> Nat] /\ scheduled \in [Queue -> Nat]
    /\ next_schedule \in [Queue -> NextPointer]
    /\ next_process \in [Queue -> NextPointer]
    /\ bank_request \in [Bank -> BankRequest]
    /\ write_mode \in BOOLEAN /\ dbus \in Nat
    /\ owed \in [Queue -> SUBSET Addr]
    /\ switched_at \in Nat /\ active_at \in [Bank -> Nat]

\* The bank state machines and the scheduled bits of the two queues tell the
\* same story: a bank works exactly when one scheduled entry addresses it,
\* and it names that entry and its queue.  schedule, process and
\* reset_remain_requests each update both sides by hand.  The queue that is
\* not being served has no request in a bank.
BankOwnership ==
    /\ \A q \in Queue : \A i \in InService(entry[q]) :
          LET b == bank_request[BankOf[entry[q][i].address]]
          IN  /\ b.working /\ b.request_index = i
              /\ b.is_write = (q = "WQ") /\ b.is_read = (q = "RQ")
    /\ \A b \in Bank : bank_request[b].working =>
          \E q \in Queue : \E i \in InService(entry[q]) :
              BankOf[entry[q][i].address] = b
    /\ InService(entry[IF write_mode THEN "RQ" ELSE "WQ"]) = {}

\* scheduled_reads and scheduled_writes count the scheduled entries; the
\* sanity check at the end of reset_remain_requests (they are 0 after a
\* reset) follows.
ScheduledExact ==
    \A q \in Queue : scheduled[q] = Cardinality(InService(entry[q]))

\* The occupancy that callers test before a call counts the used slots.
OccupancyExact ==
    \A q \in Queue : occupancy[q] = Cardinality(Occupied(entry[q]))

\* What was accepted and not served is in the queue, once: no request falls
\* out of a full queue, is overwritten, or is dropped by a change of mode.
NoRequestLost ==
    \A q \in Queue :
        /\ owed[q] = {entry[q][i].address : i \in Occupied(entry[q])}
        /\ \A i, j \in Occupied(entry[q]) :
              entry[q][i].address = entry[q][j].address => i = j

\* The cached pointers are what the update functions would compute now:
\* operate() trusts them without looking at the queue.
Fresh(pointer, next) ==
    pointer = next \/ (pointer.cycle = Never /\ next.cycle = Never)
PointersFresh ==
    \A q \in Queue :
        /\ Fresh(next_schedule[q], NextToSchedule(q, entry[q]))
        /\ Fresh(next_process[q], NextToProcess(q, entry[q]))

\* The sanity check at the start of process() holds whenever process() runs.
ProcessCheckHolds ==
    pc = "process" /\ Due(next_process[Active], Active) => TargetOwnsBank(Active)

\* The row an idle bank reports as open has been activated: a hit in it may
\* pay tCAS only.  reset_remain_requests decides this from cycle_available.
OpenRowIsActive ==
    \A b \in Bank :
        ~bank_request[b].working /\ bank_request[b].open_row # NoRow
            => active_at[b] <= now

\* dram_controller.h: the data bus waits DRAM_DBUS_TURN_AROUND_TIME when it
\* changes between reads and writes.  The code adds that time to a
\* dbus_cycle_available that may lie far in the past; what enforces the wait
\* is that every request of the new direction starts after the change and
\* pays at least tCAS.
Burst == pc = "process" /\ entry' # entry
TurnAroundRespected == [][Burst => now >= switched_at + TurnAround]_vars
=============================================================================
