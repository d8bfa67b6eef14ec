------------------------ MODULE DramControllerProofs ------------------------
(***************************************************************************)
(* DramController for every queue size, address map and timing.            *)
(*                                                                         *)
(* First the search for the oldest entry, then the inductive invariant.    *)
(* It is the conjunction of the invariants that TLC checks and of          *)
(* ScheduledOccupied: none of them is inductive alone, because each action *)
(* trusts what the others say.  Last, what the controller owes its         *)
(* callers: no accepted request is lost, a row reported as open is open,   *)
(* and the data bus has its turn-around time.                              *)
(***************************************************************************)
EXTENDS DramController, FiniteSetTheorems, WellFoundedInduction, TLAPS

-----------------------------------------------------------------------------
(* The choice of the oldest entry is well defined: a non-empty set of      *)
(* indices has exactly one element that precedes all others.               *)

\* A non-empty set of naturals has a least element.
LEMMA NatHasMin ==
    ASSUME NEW T \in SUBSET Nat, T # {}
    PROVE  \E m \in T : \A n \in T : m <= n
<1>1. PICK m \in T : \A n \in T : ~(<<n, m>> \in OpToRel(<, Nat))
  <2>1. IsWellFoundedOn(OpToRel(<, Nat), Nat)
    BY NatLessThanWellFounded
  <2>. QED
    BY <2>1, WFMin
<1>2. ASSUME NEW n \in T PROVE m <= n
  <2>1. m \in Nat /\ n \in Nat
    OBVIOUS
  <2>2. ~(n < m)
    BY <1>1, <2>1 DEF OpToRel
  <2>. QED
    BY <2>1, <2>2
<1>. QED
  BY <1>2

\* Earliest returns a member of its set that precedes every other member.
LEMMA EarliestMember ==
    ASSUME NEW S \in SUBSET Nat, S # {},
           NEW cycle, \A i \in S : cycle[i] \in Nat
    PROVE  /\ Earliest(S, cycle) \in S
           /\ \A j \in S : Precedes(cycle, Earliest(S, cycle), j)
<1>. DEFINE T == {cycle[i] : i \in S}
<1>1. PICK m \in T : \A n \in T : m <= n
  <2>1. T \in SUBSET Nat /\ T # {}
    OBVIOUS
  <2>. HIDE DEF T
  <2>. QED
    BY <2>1, NatHasMin
<1>. DEFINE U == {i \in S : cycle[i] = m}
<1>2. PICK k \in U : \A j \in U : k <= j
  <2>1. U \in SUBSET Nat /\ U # {}
    OBVIOUS
  <2>. HIDE DEF U
  <2>. QED
    BY <2>1, NatHasMin
<1>3. k \in S /\ \A j \in S : Precedes(cycle, k, j)
  <2>1. ASSUME NEW j \in S PROVE Precedes(cycle, k, j)
    <3>1. cycle[j] \in Nat /\ cycle[k] \in Nat /\ cycle[k] = m /\ m <= cycle[j]
      BY <1>1
    <3>2. CASE cycle[j] = m
      BY <3>1, <3>2, <1>2 DEF Precedes
    <3>3. CASE cycle[j] # m
      BY <3>1, <3>3 DEF Precedes
    <3>. QED
      BY <3>2, <3>3
  <2>. QED
    BY <2>1
<1>. QED
  BY <1>3 DEF Earliest

\* The cached pair the update functions leave behind is either the pair for
\* "nothing qualifies" or names a member of the set with its own cycle.
LEMMA NextEventValue ==
    ASSUME NEW S \in SUBSET Nat, NEW size \in Nat,
           NEW cycle, \A i \in S : cycle[i] \in Nat
    PROVE  /\ NextEvent(S, cycle, size).index \in Nat
           /\ NextEvent(S, cycle, size).cycle \in Nat \cup {Never}
           /\ NextEvent(S, cycle, size).cycle # Never =>
                 /\ NextEvent(S, cycle, size).index \in S
                 /\ NextEvent(S, cycle, size).cycle
                        = cycle[NextEvent(S, cycle, size).index]
<1>1. CASE S = {}
  BY <1>1 DEF NextEvent
<1>2. CASE S # {}
  <2>1. Earliest(S, cycle) \in S
    BY <1>2, EarliestMember
  <2>2. /\ NextEvent(S, cycle, size).index = Earliest(S, cycle)
        /\ NextEvent(S, cycle, size).cycle = cycle[Earliest(S, cycle)]
    BY <1>2 DEF NextEvent
  <2>3. Earliest(S, cycle) \in Nat /\ cycle[Earliest(S, cycle)] \in Nat
    BY <2>1
  <2>. QED
    BY <2>1, <2>2, <2>3
<1>. QED
  BY <1>1, <1>2

\* The oldest entry depends on nothing but the set and the cycles of its
\* members: a scan over other entries cannot change the answer.
LEMMA EarliestCongruence ==
    ASSUME NEW S \in SUBSET Nat, S # {},
           NEW c, NEW d, \A i \in S : c[i] \in Nat /\ c[i] = d[i]
    PROVE  Earliest(S, c) = Earliest(S, d)
<1>. DEFINE e == Earliest(S, c)
            f == Earliest(S, d)
<1>1. e \in S /\ \A j \in S : Precedes(c, e, j)
  BY EarliestMember
<1>2. f \in S /\ \A j \in S : Precedes(d, f, j)
  BY EarliestMember
<1>. HIDE DEF e, f
<1>3. Precedes(c, e, f) /\ Precedes(d, f, e)
  BY <1>1, <1>2
<1>4. e \in Nat /\ f \in Nat /\ c[e] \in Nat /\ c[f] \in Nat
      /\ c[e] = d[e] /\ c[f] = d[f]
  BY <1>1, <1>2
<1>5. e = f
  BY <1>3, <1>4 DEF Precedes
<1>. QED
  BY <1>5 DEF e, f

\* The same for the cached pair.
LEMMA NextEventCongruence ==
    ASSUME NEW S \in SUBSET Nat, NEW size,
           NEW c, NEW d, \A i \in S : c[i] \in Nat /\ c[i] = d[i]
    PROVE  NextEvent(S, c, size) = NextEvent(S, d, size)
<1>1. CASE S = {}
  BY <1>1 DEF NextEvent
<1>2. CASE S # {}
  <2>1. Earliest(S, c) = Earliest(S, d) /\ Earliest(S, c) \in S
    BY <1>2, EarliestCongruence, EarliestMember
  <2>. QED
    BY <1>2, <2>1 DEF NextEvent
<1>. QED
  BY <1>1, <1>2

-----------------------------------------------------------------------------
(* The inductive invariant.                                                *)

\* A scheduled slot holds a request.
ScheduledOccupied == \A q \in Queue : InService(entry[q]) \subseteq Occupied(entry[q])

IInv ==
    /\ TypeOK
    /\ ScheduledOccupied
    /\ BankOwnership
    /\ PointersFresh
    /\ ScheduledExact
    /\ OccupancyExact

-----------------------------------------------------------------------------
(* What the set operators select from one queue. *)

\* All of them select slots of the queue, which are finitely many.
LEMMA SlotSets ==
    ASSUME NEW q \in Queue, NEW e \in [Slots(q) -> Entry]
    PROVE  /\ Size(q) \in Nat
           /\ Slots(q) \in SUBSET Nat /\ IsFiniteSet(Slots(q))
           /\ Cardinality(Slots(q)) = Size(q)
           /\ Occupied(e) \in SUBSET Slots(q) /\ IsFiniteSet(Occupied(e))
           /\ InService(e) \in SUBSET Slots(q) /\ IsFiniteSet(InService(e))
           /\ Waiting(e) \in SUBSET Slots(q)
           /\ \A i \in Slots(q) : EventCycle(e)[i] \in Nat
<1>1. Size(q) \in Nat /\ Size(q) > 0
  BY SizeAssumption DEF Queue, Size
<1>2. Slots(q) \in SUBSET Nat /\ IsFiniteSet(Slots(q)) /\ Cardinality(Slots(q)) = Size(q)
  <2>1. IsFiniteSet(0..(Size(q) - 1)) /\ Cardinality(0..(Size(q) - 1)) = Size(q)
    BY <1>1, FS_Interval
  <2>. QED
    BY <1>1, <2>1 DEF Slots
<1>3. Occupied(e) \in SUBSET Slots(q) /\ InService(e) \in SUBSET Slots(q)
      /\ Waiting(e) \in SUBSET Slots(q)
  BY DEF Occupied, InService, Waiting
<1>4. \A i \in Slots(q) : EventCycle(e)[i] \in Nat
  BY DEF EventCycle, Entry
<1>. QED
  BY <1>1, <1>2, <1>3, <1>4, FS_Subset

\* The pointers computed from a queue are of the declared type, and one that
\* names a cycle names an entry of the set it was computed from.
LEMMA PointerValue ==
    ASSUME NEW q \in Queue, NEW e \in [Slots(q) -> Entry]
    PROVE  /\ NextToSchedule(q, e) \in NextPointer
           /\ NextToSchedule(q, e).cycle # Never
                 => NextToSchedule(q, e).index \in Waiting(e)
           /\ NextToProcess(q, e) \in NextPointer
           /\ NextToProcess(q, e).cycle # Never
                 => NextToProcess(q, e).index \in InService(e)
<1>1. ASSUME NEW S \in SUBSET Slots(q)
      PROVE  LET n == NextEvent(S, EventCycle(e), Size(q))
             IN  n \in NextPointer /\ (n.cycle # Never => n.index \in S)
  <2>1. S \in SUBSET Nat /\ Size(q) \in Nat /\ \A i \in S : EventCycle(e)[i] \in Nat
    BY SlotSets
  <2>. DEFINE n == NextEvent(S, EventCycle(e), Size(q))
  <2>2. n.index \in Nat /\ n.cycle \in Nat \cup {Never}
        /\ (n.cycle # Never => n.index \in S)
    BY <2>1, NextEventValue
  <2>3. n = [index |-> n.index, cycle |-> n.cycle]
    BY DEF NextEvent
  <2>. QED
    BY <2>2, <2>3 DEF NextPointer
<1>2. Waiting(e) \in SUBSET Slots(q) /\ InService(e) \in SUBSET Slots(q)
  BY SlotSets
<1>. QED
  BY <1>1, <1>2 DEF NextToSchedule, NextToProcess

\* A change of other slots leaves the pointers as they were.
LEMMA PointerCongruence ==
    ASSUME NEW q \in Queue, NEW e \in [Slots(q) -> Entry], NEW f \in [Slots(q) -> Entry]
    PROVE  /\ InService(e) = InService(f) /\ (\A i \in InService(e) : e[i] = f[i])
                 => NextToProcess(q, e) = NextToProcess(q, f)
           /\ Waiting(e) = Waiting(f) /\ (\A i \in Waiting(e) : e[i] = f[i])
                 => NextToSchedule(q, e) = NextToSchedule(q, f)
<1>1. ASSUME NEW S \in SUBSET Slots(q), \A i \in S : e[i] = f[i]
      PROVE  NextEvent(S, EventCycle(e), Size(q)) = NextEvent(S, EventCycle(f), Size(q))
  <2>1. \A i \in S : EventCycle(e)[i] \in Nat /\ EventCycle(e)[i] = EventCycle(f)[i]
    BY <1>1, SlotSets DEF EventCycle
  <2>2. S \in SUBSET Nat
    BY SlotSets
  <2>. QED
    BY <2>1, <2>2, NextEventCongruence
<1>2. Waiting(e) \in SUBSET Slots(q) /\ InService(e) \in SUBSET Slots(q)
  BY SlotSets
<1>. QED
  BY <1>1, <1>2 DEF NextToSchedule, NextToProcess

-----------------------------------------------------------------------------
\* The empty controller satisfies everything.
LEMMA InitIInv == Init => IInv
<1>. SUFFICES ASSUME Init PROVE IInv
  OBVIOUS
<1>. USE DEF Init
<1>1. EmptyEntry \in Entry /\ IdleBank \in BankRequest
      /\ [index |-> 0, cycle |-> Never] \in NextPointer
  BY DEF EmptyEntry, Entry, IdleBank, BankRequest, NextPointer
<1>2. \A q \in Queue : entry[q] \in [Slots(q) -> Entry]
  BY <1>1
<1>3. TypeOK
  <2>1. DOMAIN entry = Queue
    OBVIOUS
  <2>. QED
    BY <1>1, <1>2, <2>1 DEF TypeOK, Queue
<1>4. \A q \in Queue : Occupied(entry[q]) = {} /\ InService(entry[q]) = {}
                       /\ Waiting(entry[q]) = {}
  BY DEF Occupied, InService, Waiting, EmptyEntry
<1>5. ScheduledOccupied
  BY <1>4 DEF ScheduledOccupied
<1>6. BankOwnership
  BY <1>4 DEF BankOwnership, IdleBank, Queue
<1>7. PointersFresh
  BY <1>4 DEF PointersFresh, Fresh, NextToSchedule, NextToProcess, NextEvent
<1>8. ScheduledExact /\ OccupancyExact
  BY <1>4, FS_EmptySet DEF ScheduledExact, OccupancyExact
<1>. QED
  BY <1>3, <1>5, <1>6, <1>7, <1>8 DEF IInv

-----------------------------------------------------------------------------
(* Calls: add_rq, add_wq. *)

\* A call that finds room has a free slot to go to: OccupancyExact makes the
\* caller's test of the counter a test of the slots.
LEMMA RoomIsASlot ==
    ASSUME TypeOK, OccupancyExact, NEW q \in Queue, HasRoom(q)
    PROVE  FreeSlots(q) # {}
<1>1. entry[q] \in [Slots(q) -> Entry]
  BY DEF TypeOK
<1>2. Occupied(entry[q]) # Slots(q)
  BY <1>1, SlotSets DEF OccupancyExact, HasRoom
<1>. QED
  BY <1>1, <1>2, SlotSets DEF FreeSlots, Holding, Occupied

\* A new request disturbs no bank and no request already there.
LEMMA InsertIInv ==
    ASSUME IInv, NEW q \in Queue, NEW a \in Addr, NEW c \in Nat,
           HasRoom(q), Insert(q, a, c), Holding(entry[q], a) = {},
           UNCHANGED <<now, warm, pc, next_process, banks, mode>>,
           owed' = [owed EXCEPT ![q] = @ \cup {a}]
    PROVE  IInv'
<1>. DEFINE i == CHOOSE k \in FreeSlots(q) : \A j \in FreeSlots(q) : k <= j
            packet == [address |-> a, scheduled |-> FALSE, event_cycle |-> c]
            e == entry[q]
            f == entry'[q]
<1>. USE DEF IInv
<1>1. e \in [Slots(q) -> Entry] /\ DOMAIN entry = Queue
  BY DEF TypeOK
<1>2. i \in FreeSlots(q)
  <2>1. FreeSlots(q) # {} /\ FreeSlots(q) \in SUBSET Nat
    BY <1>1, RoomIsASlot, SlotSets DEF FreeSlots, Holding
  <2>. QED
    BY <2>1, NatHasMin
<1>3. i \in Slots(q) /\ e[i].address = NoAddr
  BY <1>1, <1>2 DEF FreeSlots, Holding
<1>4. entry' = [entry EXCEPT ![q][i] = packet]
      /\ occupancy' = [occupancy EXCEPT ![q] = @ + 1]
      /\ next_schedule' = [next_schedule EXCEPT ![q] = NextToSchedule(q, f)]
  BY <1>2 DEF Insert
<1>. HIDE DEF i
<1>5. packet \in Entry
  BY DEF Entry
<1>6. f = [e EXCEPT ![i] = packet] /\ f \in [Slots(q) -> Entry]
      /\ DOMAIN entry' = Queue /\ \A r \in Queue : r # q => entry'[r] = entry[r]
  BY <1>1, <1>3, <1>4, <1>5
<1>7. i \notin Occupied(e) /\ i \notin InService(e)
  BY <1>1, <1>3 DEF Occupied, ScheduledOccupied
<1>8. Occupied(f) = Occupied(e) \cup {i} /\ InService(f) = InService(e)
  BY <1>1, <1>3, <1>6, <1>7, AddressAssumption DEF Occupied, InService
<1>9. \A k \in InService(e) : f[k] = e[k]
  BY <1>1, <1>6, <1>7 DEF InService
<1>10. TypeOK'
  <2>1. \A r \in Queue : entry'[r] \in [Slots(r) -> Entry]
    BY <1>6 DEF TypeOK
  <2>2. NextToSchedule(q, f) \in NextPointer
    BY <1>6, PointerValue
  <2>3. next_schedule' \in [Queue -> NextPointer] /\ occupancy' \in [Queue -> Nat]
    BY <1>4, <2>2 DEF TypeOK
  <2>4. owed' \in [Queue -> SUBSET Addr]
    BY DEF TypeOK
  <2>. QED
    BY <1>6, <2>1, <2>3, <2>4 DEF TypeOK, banks, mode
<1>11. ScheduledOccupied'
  BY <1>6, <1>8 DEF ScheduledOccupied
<1>12. BankOwnership'
  <2>1. \A r \in Queue : InService(entry'[r]) = InService(entry[r])
    BY <1>6, <1>8
  <2>2. \A r \in Queue : \A k \in InService(entry[r]) : entry'[r][k] = entry[r][k]
    BY <1>6, <1>9
  <2>3. bank_request' = bank_request /\ write_mode' = write_mode
    BY DEF banks, mode
  <2>4. InService(entry[IF write_mode THEN "RQ" ELSE "WQ"])'
            = InService(entry[IF write_mode THEN "RQ" ELSE "WQ"])
    BY <2>1, <2>3 DEF Queue
  <2>. QED
    BY <2>1, <2>2, <2>3, <2>4 DEF BankOwnership
<1>13. PointersFresh'
  <2>1. NextToProcess(q, f) = NextToProcess(q, e)
    <3>1. e \in [Slots(q) -> Entry] /\ f \in [Slots(q) -> Entry]
          /\ InService(e) = InService(f) /\ \A k \in InService(e) : e[k] = f[k]
      BY <1>1, <1>6, <1>8, <1>9
    <3>. HIDE DEF e, f
    <3>. QED
      BY <3>1, PointerCongruence
  <2>2. next_schedule'[q] = NextToSchedule(q, f)
        /\ \A r \in Queue : r # q => next_schedule'[r] = next_schedule[r]
    BY <1>4 DEF TypeOK
  <2>3. next_process' = next_process
    OBVIOUS
  <2>4. ASSUME NEW r \in Queue
        PROVE  /\ Fresh(next_schedule'[r], NextToSchedule(r, entry'[r]))
               /\ Fresh(next_process'[r], NextToProcess(r, entry'[r]))
    <3>1. CASE r = q
      BY <2>1, <2>2, <2>3, <3>1 DEF PointersFresh, Fresh
    <3>2. CASE r # q
      BY <1>6, <2>2, <2>3, <3>2 DEF PointersFresh
    <3>. QED
      BY <3>1, <3>2
  <2>. QED
    BY <2>4 DEF PointersFresh
<1>14. ScheduledExact'
  BY <1>6, <1>8 DEF ScheduledExact, banks
<1>15. OccupancyExact'
  <2>1. Cardinality(Occupied(f)) = Cardinality(Occupied(e)) + 1
    BY <1>1, <1>7, <1>8, SlotSets, FS_AddElement
  <2>. QED
    BY <1>4, <1>6, <2>1 DEF OccupancyExact, TypeOK
<1>. QED
  BY <1>10, <1>11, <1>12, <1>13, <1>14, <1>15
\* A step that leaves queues, pointers and banks alone keeps everything,
\* whatever it does to clocks and to history.
LEMMA FrameIInv ==
    ASSUME IInv,
           UNCHANGED <<queues, pointers, bank_request, scheduled, write_mode>>,
           now' \in Nat, warm' \in BOOLEAN, pc' \in {"idle", "schedule", "process"},
           dbus' \in Nat, owed' \in [Queue -> SUBSET Addr],
           switched_at' \in Nat, active_at' \in [Bank -> Nat]
    PROVE  IInv'
<1>. USE DEF IInv, queues, pointers
<1>1. TypeOK'
  BY DEF TypeOK
<1>2. ScheduledOccupied'
  BY DEF ScheduledOccupied
<1>3. BankOwnership'
  BY DEF BankOwnership
<1>4. PointersFresh'
  BY DEF PointersFresh
<1>5. ScheduledExact' /\ OccupancyExact'
  BY DEF ScheduledExact, OccupancyExact
<1>. QED
  BY <1>1, <1>2, <1>3, <1>4, <1>5

LEMMA AddIInv ==
    ASSUME IInv, NEW q \in Queue, NEW a \in Addr, Add(q, a)
    PROVE  IInv'
<1>1. CASE AnsweredAtOnce(q, a) /\ UNCHANGED <<queues, next_schedule, owed>>
  BY <1>1, FrameIInv DEF Add, IInv, TypeOK, queues, pointers, banks, mode
<1>2. CASE /\ Holding(entry[q], a) # {}
           /\ owed' = [owed EXCEPT ![q] = @ \cup {a}]
           /\ UNCHANGED <<queues, next_schedule>>
  <2>1. owed' \in [Queue -> SUBSET Addr]
    BY <1>2 DEF IInv, TypeOK
  <2>. QED
    BY <1>2, <2>1, FrameIInv DEF Add, IInv, TypeOK, queues, pointers, banks, mode
<1>3. CASE /\ Holding(entry[q], a) = {}
           /\ \E c \in ArrivalCycles : Insert(q, a, c)
           /\ owed' = [owed EXCEPT ![q] = @ \cup {a}]
  <2>1. PICK c \in ArrivalCycles : Insert(q, a, c)
    BY <1>3
  <2>2. c \in Nat
    BY DEF ArrivalCycles, IInv, TypeOK
  <2>. QED
    BY <1>3, <2>1, <2>2, InsertIInv DEF Add
<1>. QED
  BY <1>1, <1>2, <1>3 DEF Add

-----------------------------------------------------------------------------
(* operate, part 1. *)

\* Before a change of mode only the queue that was served has banks; a reset
\* therefore leaves no bank working and both counters at zero, which is what
\* its closing sanity check asks for.
LEMMA SwitchIInv ==
    ASSUME IInv, NEW to \in BOOLEAN, write_mode = ~to,
           NEW q, q = (IF to THEN "RQ" ELSE "WQ"), Switch(to, q),
           pc' = "schedule", UNCHANGED <<now, warm, owed>>
    PROVE  IInv'
<1>. USE DEF IInv
<1>. DEFINE o == IF to THEN "WQ" ELSE "RQ"
            e == entry[q]
            f == entry'[q]
            touched == TouchedBanks(q)
<1>1. q \in Queue /\ o \in Queue /\ q # o /\ Queue = {q, o} /\ Reset(q)
  BY DEF Switch, Queue
<1>2. InService(entry[o]) = {}
  BY DEF BankOwnership
<1>3. e \in [Slots(q) -> Entry] /\ entry[o] \in [Slots(o) -> Entry] /\ DOMAIN entry = Queue
  BY <1>1 DEF TypeOK
<1>4. f = [i \in Slots(q) |-> ReleasedEntry(e[i])] /\ entry'[o] = entry[o]
      /\ DOMAIN entry' = Queue
  BY <1>1, <1>3 DEF Reset
<1>5. \A i \in Slots(q) : /\ ReleasedEntry(e[i]) \in Entry
                          /\ ~ReleasedEntry(e[i]).scheduled
                          /\ ReleasedEntry(e[i]).address = e[i].address
  <2>1. ASSUME NEW x \in Entry, NEW n \in Nat
        PROVE  LET y == [x EXCEPT !.scheduled = FALSE, !.event_cycle = n]
               IN  y \in Entry /\ ~y.scheduled /\ y.address = x.address
    BY DEF Entry
  <2>2. now \in Nat /\ \A i \in Slots(q) : e[i] \in Entry /\ e[i].scheduled \in BOOLEAN
    BY <1>3 DEF TypeOK, Entry
  <2>. QED
    BY <2>1, <2>2 DEF ReleasedEntry
<1>6. f \in [Slots(q) -> Entry] /\ InService(f) = {} /\ Occupied(f) = Occupied(e)
  BY <1>3, <1>4, <1>5 DEF InService, Occupied
<1>. HIDE DEF o
<1>7. \A r \in Queue : entry'[r] \in [Slots(r) -> Entry] /\ InService(entry'[r]) = {}
  BY <1>1, <1>2, <1>3, <1>4, <1>6
<1>8. \A b \in Bank : ~bank_request'[b].working /\ bank_request'[b] \in BankRequest
  <2>. SUFFICES ASSUME NEW b \in Bank
                PROVE  ~bank_request'[b].working /\ bank_request'[b] \in BankRequest
    OBVIOUS
  <2>1. CASE b \in touched
    <3>1. PICK i \in InService(e) : BankOf[e[i].address] = b
      BY <2>1 DEF TouchedBanks
    <3>2. \A k \in InService(e) : e[k].address \in Addr
      BY <1>1, <1>3 DEF ScheduledOccupied, Occupied, InService, Entry
    <3>3. ReleasedBank(q, b) \in BankRequest /\ ~ReleasedBank(q, b).working
      <4>1. \A r \in Row \cup {NoRow}, c \in Nat :
                [IdleBank EXCEPT !.open_row = r, !.cycle_available = c] \in BankRequest
                /\ ~[IdleBank EXCEPT !.open_row = r, !.cycle_available = c].working
        BY DEF IdleBank, BankRequest
      <4>2. \A k \in InService(e) : RowOf[e[k].address] \in Row
        BY <3>2, AddressAssumption
      <4>. DEFINE j == CHOOSE k \in InService(e) : BankOf[e[k].address] = b
      <4>3. j \in InService(e)
        BY <3>1
      <4>. QED
        BY <4>1, <4>2, <4>3 DEF ReleasedBank, TypeOK
    <3>. QED
      BY <1>1, <2>1, <3>3 DEF Reset
  <2>2. CASE b \notin touched
    <3>1. bank_request'[b] = bank_request[b]
      BY <1>1, <2>2 DEF Reset
    <3>2. ~bank_request[b].working
      BY <1>1, <1>2, <2>2 DEF BankOwnership, TouchedBanks
    <3>. QED
      BY <3>1, <3>2 DEF TypeOK
  <2>. QED
    BY <2>1, <2>2
<1>9. scheduled' = [r \in Queue |-> 0]
  <2>1. Cardinality(touched) = Cardinality(InService(e)) /\ touched \subseteq Bank
    <3>. DEFINE g == [i \in InService(e) |-> BankOf[e[i].address]]
    <3>1. \A i \in InService(e) : e[i].address \in Addr /\ g[i] \in Bank
                                /\ bank_request[g[i]].request_index = i
      BY SMTT(30), <1>1, <1>3, AddressAssumption
         DEF ScheduledOccupied, Occupied, InService, Entry, BankOwnership
    <3>2. g \in Bijection(InService(e), touched)
      <4>1. g \in [InService(e) -> touched]
        BY DEF TouchedBanks
      <4>2. \A i, j \in InService(e) : g[i] = g[j] => i = j
        BY <3>1
      <4>3. \A b \in touched : \E i \in InService(e) : g[i] = b
        BY DEF TouchedBanks
      <4>. QED
        BY <4>1, <4>2, <4>3 DEF Bijection, Injection, Surjection, IsInjective
    <3>3. IsFiniteSet(InService(e))
      BY <1>1, <1>3, SlotSets
    <3>4. touched \subseteq Bank
      BY <3>1 DEF TouchedBanks
    <3>. QED
      BY <3>2, <3>3, <3>4, FS_Bijection DEF ExistsBijection
  <2>2. \A b \in touched : /\ bank_request[b].is_write = (q = "WQ")
                           /\ bank_request[b].is_read = (q = "RQ")
    BY <1>1 DEF TouchedBanks, BankOwnership
  <2>3. CountedAsReads(touched) = (IF q = "RQ" THEN touched ELSE {})
        /\ CountedAsWrites(touched) = (IF q = "WQ" THEN touched ELSE {})
    BY <1>1, <2>2 DEF CountedAsReads, CountedAsWrites, Queue
  <2>4. scheduled[q] = Cardinality(touched) /\ scheduled[o] = 0
    BY <1>1, <1>2, <2>1, FS_EmptySet DEF ScheduledExact
  <2>5. Cardinality(touched) \in Nat
    BY <2>4, <1>1 DEF TypeOK
  <2>6. scheduled' = [scheduled EXCEPT !["RQ"] = @ - Cardinality(CountedAsReads(touched)),
                                       !["WQ"] = @ - Cardinality(CountedAsWrites(touched))]
        /\ scheduled \in [Queue -> Nat]
    BY <1>1 DEF Reset, TypeOK
  <2>7. /\ scheduled'["RQ"] = scheduled["RQ"] - Cardinality(CountedAsReads(touched))
        /\ scheduled'["WQ"] = scheduled["WQ"] - Cardinality(CountedAsWrites(touched))
        /\ scheduled' = [r \in Queue |-> scheduled'[r]]
    BY <2>6 DEF Queue
  <2>8. scheduled'["RQ"] = 0 /\ scheduled'["WQ"] = 0
    BY <1>1, <2>3, <2>4, <2>5, <2>7, FS_EmptySet DEF Queue
  <2>. QED
    BY <2>7, <2>8 DEF Queue
<1>10. next_schedule' = [r \in Queue |-> NextToSchedule(r, entry'[r])]
       /\ next_process' = [r \in Queue |-> NextToProcess(r, entry'[r])]
  BY <1>1 DEF Reset, RefreshPointers
<1>11. TypeOK'
  <2>1. next_schedule' \in [Queue -> NextPointer] /\ next_process' \in [Queue -> NextPointer]
    BY <1>7, <1>10, PointerValue
  <2>2. bank_request' \in [Bank -> BankRequest]
    BY <1>1, <1>8 DEF Reset
  <2>3. dbus' \in Nat /\ switched_at' \in Nat
    BY TimingAssumption DEF Switch, TypeOK
  <2>. QED
    BY <1>4, <1>7, <1>9, <2>1, <2>2, <2>3 DEF TypeOK, Switch
<1>12. ScheduledOccupied'
  BY <1>7 DEF ScheduledOccupied
<1>13. BankOwnership'
  <2>1. InService(entry'[IF write_mode' THEN "RQ" ELSE "WQ"]) = {}
    BY <1>7 DEF Queue
  <2>. QED
    BY <1>7, <1>8, <2>1 DEF BankOwnership
<1>14. PointersFresh'
  BY <1>10 DEF PointersFresh, Fresh
<1>15. ScheduledExact'
  BY <1>7, <1>9, FS_EmptySet DEF ScheduledExact
<1>16. OccupancyExact'
  <2>1. \A r \in Queue : Occupied(entry'[r]) = Occupied(entry[r])
    BY <1>1, <1>4, <1>6
  <2>. QED
    BY <2>1 DEF OccupancyExact, Switch
<1>. QED
  BY <1>11, <1>12, <1>13, <1>14, <1>15, <1>16

LEMMA ChooseModeIInv == IInv /\ ChooseMode => IInv'
<1>. SUFFICES ASSUME IInv, ChooseMode PROVE IInv'
  OBVIOUS
<1>1. CASE MustWrite /\ Switch(TRUE, "RQ")
  BY <1>1, SwitchIInv DEF ChooseMode, MustWrite, IInv, TypeOK
<1>2. CASE MustRead /\ Switch(FALSE, "WQ")
  BY <1>2, SwitchIInv DEF ChooseMode, MustRead, IInv, TypeOK
<1>3. CASE UNCHANGED <<queues, pointers, banks, mode>>
  BY <1>3, FrameIInv DEF ChooseMode, IInv, TypeOK, queues, pointers, banks, mode
<1>. QED
  BY <1>1, <1>2, <1>3 DEF ChooseMode
-----------------------------------------------------------------------------
(* operate, part 2. *)

\* A request is given to an idle bank only, so no bank ever serves two.
LEMMA StartIInv ==
    ASSUME IInv, pc' = "process", NEW q \in Queue, q = Active,
           NEW i \in Candidates(entry[q]), NEW hit \in BOOLEAN, Start(q, i, hit),
           UNCHANGED <<now, warm, occupancy, dbus, mode, owed>>
    PROVE  IInv'
<1>. USE DEF IInv
<1>. DEFINE e == entry[q]
            f == entry'[q]
            a == e[i].address
            b == BankOf[a]
            done == now + Latency(hit)
<1>1. e \in [Slots(q) -> Entry] /\ DOMAIN entry = Queue
  BY DEF TypeOK
<1>2. i \in Slots(q) /\ a \in Addr /\ ~e[i].scheduled /\ i \in Occupied(e)
      /\ ~bank_request[b].working /\ b \in Bank /\ RowOf[a] \in Row
  BY <1>1, AddressAssumption DEF Candidates, Waiting, Occupied, Entry
<1>3. done \in Nat /\ now + tRP + tRCD \in Nat
  BY TimingAssumption DEF Latency, TypeOK
<1>4. entry' = [entry EXCEPT ![q][i].scheduled = TRUE, ![q][i].event_cycle = done]
      /\ scheduled' = [scheduled EXCEPT ![q] = @ + 1]
      /\ next_schedule' = [next_schedule EXCEPT ![q] = NextToSchedule(q, f)]
      /\ next_process' = [next_process EXCEPT ![q] = NextToProcess(q, f)]
      /\ bank_request' =
            [bank_request EXCEPT ![b] =
                [working |-> TRUE, request_index |-> i,
                 is_write |-> q = "WQ", is_read |-> q = "RQ",
                 open_row |-> RowOf[a], cycle_available |-> done]]
  BY DEF Start
<1>5. f = [e EXCEPT ![i] = [@ EXCEPT !.scheduled = TRUE, !.event_cycle = done]]
      /\ DOMAIN entry' = Queue /\ \A r \in Queue : r # q => entry'[r] = entry[r]
  BY <1>1, <1>2, <1>4
<1>. HIDE DEF done
<1>6. /\ f \in [Slots(q) -> Entry] /\ f[i].scheduled /\ f[i].address = a
      /\ \A k \in Slots(q) : k # i => f[k] = e[k]
  <2>1. ASSUME NEW x \in Entry, NEW n \in Nat
        PROVE  LET y == [x EXCEPT !.scheduled = TRUE, !.event_cycle = n]
               IN  y \in Entry /\ y.scheduled /\ y.address = x.address
    BY DEF Entry
  <2>. DEFINE y == [e[i] EXCEPT !.scheduled = TRUE, !.event_cycle = done]
  <2>2. y \in Entry /\ y.scheduled /\ y.address = a
    BY <1>1, <1>2, <1>3, <2>1
  <2>3. f = [e EXCEPT ![i] = y]
    BY <1>5
  <2>. HIDE DEF y
  <2>. QED
    BY <1>1, <1>2, <2>2, <2>3
<1>7. InService(f) = InService(e) \cup {i} /\ i \notin InService(e)
      /\ Occupied(f) = Occupied(e)
  BY <1>1, <1>2, <1>6 DEF InService, Occupied
<1>8. /\ bank_request'[b].working /\ bank_request'[b].request_index = i
      /\ bank_request'[b].is_write = (q = "WQ") /\ bank_request'[b].is_read = (q = "RQ")
      /\ \A d \in Bank : d # b => bank_request'[d] = bank_request[d]
  BY <1>2, <1>4 DEF TypeOK
<1>9. \A r \in Queue : r # q => InService(entry[r]) = {}
  BY DEF BankOwnership, Active, Queue
<1>10. TypeOK'
  <2>1. \A r \in Queue : entry'[r] \in [Slots(r) -> Entry]
    BY <1>5, <1>6 DEF TypeOK
  <2>2. next_schedule' \in [Queue -> NextPointer] /\ next_process' \in [Queue -> NextPointer]
    BY <1>4, <1>6, PointerValue DEF TypeOK
  <2>3. i \in Nat
    BY <1>1, <1>2, SlotSets
  <2>4. bank_request' \in [Bank -> BankRequest]
    BY <1>2, <1>3, <1>4, <2>3 DEF TypeOK, BankRequest, done
  <2>5. scheduled' \in [Queue -> Nat]
    BY <1>4 DEF TypeOK
  <2>6. active_at' \in [Bank -> Nat]
    BY <1>3 DEF Start, TypeOK
  <2>. QED
    BY <1>5, <2>1, <2>2, <2>4, <2>5, <2>6 DEF TypeOK, mode
<1>11. ScheduledOccupied'
  BY <1>2, <1>5, <1>7 DEF ScheduledOccupied
<1>12. BankOwnership'
  <2>1. ASSUME NEW r \in Queue, NEW k \in InService(entry'[r])
        PROVE  LET c == bank_request'[BankOf[entry'[r][k].address]]
               IN  /\ c.working /\ c.request_index = k
                   /\ c.is_write = (r = "WQ") /\ c.is_read = (r = "RQ")
    <3>1. r = q
      BY <1>5, <1>9, <2>1
    <3>2. CASE k = i
      BY <1>6, <1>8, <3>1, <3>2
    <3>3. CASE k # i
      <4>1. k \in InService(e) /\ entry'[r][k] = e[k]
        BY <1>1, <1>6, <1>7, <2>1, <3>1, <3>3, SlotSets
      <4>2. e[k].address \in Addr
        BY <1>1, <4>1 DEF ScheduledOccupied, Occupied, Entry
      <4>3. BankOf[e[k].address] # b /\ BankOf[e[k].address] \in Bank
        BY <1>2, <4>1, <4>2, AddressAssumption DEF BankOwnership
      <4>. QED
        BY SMTT(30), <1>8, <3>1, <4>1, <4>3 DEF BankOwnership
    <3>. QED
      BY <3>2, <3>3
  <2>2. ASSUME NEW d \in Bank, bank_request'[d].working
        PROVE  \E r \in Queue : \E k \in InService(entry'[r]) :
                    BankOf[entry'[r][k].address] = d
    <3>1. CASE d = b
      BY <1>6, <1>7, <3>1
    <3>2. CASE d # b
      <4>1. PICK r \in Queue : \E k \in InService(entry[r]) : BankOf[entry[r][k].address] = d
        BY <1>8, <2>2, <3>2 DEF BankOwnership
      <4>2. PICK k \in InService(entry[r]) : BankOf[entry[r][k].address] = d
        BY <4>1
      <4>3. k \in InService(entry'[r])
        BY <1>5, <1>7, <4>2
      <4>4. entry'[r][k].address = entry[r][k].address
        <5>1. CASE r = q
          BY <1>1, <1>6, <1>7, <4>2, <5>1, SlotSets
        <5>2. CASE r # q
          BY <1>5, <5>2
        <5>. QED
          BY <5>1, <5>2
      <4>. QED
        BY <4>2, <4>3, <4>4
    <3>. QED
      BY <3>1, <3>2
  <2>3. InService(entry'[IF write_mode' THEN "RQ" ELSE "WQ"]) = {}
    BY <1>5 DEF BankOwnership, Active, Queue, mode
  <2>. QED
    BY <2>1, <2>2, <2>3 DEF BankOwnership
<1>13. PointersFresh'
  <2>1. \A r \in Queue : r # q => next_schedule'[r] = next_schedule[r]
                                 /\ next_process'[r] = next_process[r]
    BY <1>4 DEF TypeOK
  <2>2. next_schedule'[q] = NextToSchedule(q, f) /\ next_process'[q] = NextToProcess(q, f)
    BY <1>4 DEF TypeOK
  <2>3. ASSUME NEW r \in Queue
        PROVE  /\ Fresh(next_schedule'[r], NextToSchedule(r, entry'[r]))
               /\ Fresh(next_process'[r], NextToProcess(r, entry'[r]))
    <3>1. CASE r = q
      BY <2>2, <3>1 DEF Fresh
    <3>2. CASE r # q
      BY <1>5, <2>1, <3>2 DEF PointersFresh
    <3>. QED
      BY <3>1, <3>2
  <2>. QED
    BY <2>3 DEF PointersFresh
<1>14. ScheduledExact'
  <2>1. Cardinality(InService(f)) = Cardinality(InService(e)) + 1
    BY <1>1, <1>7, SlotSets, FS_AddElement
  <2>. QED
    BY <1>4, <1>5, <2>1 DEF ScheduledExact, TypeOK
<1>15. OccupancyExact'
  BY <1>5, <1>7 DEF OccupancyExact
<1>. QED
  BY <1>10, <1>11, <1>12, <1>13, <1>14, <1>15

LEMMA ScheduleIInv == IInv /\ Schedule => IInv'
<1>. SUFFICES ASSUME IInv, Schedule PROVE IInv'
  OBVIOUS
<1>. DEFINE q == Active
            e == entry[q]
            cycle == EventCycle(e)
<1>1. q \in Queue /\ e \in [Slots(q) -> Entry]
  BY DEF Active, Queue, IInv, TypeOK
<1>2. ASSUME NEW S \in SUBSET Candidates(e), S # {}
      PROVE  Earliest(S, cycle) \in Candidates(e)
  <2>1. S \in SUBSET Nat /\ \A i \in S : cycle[i] \in Nat
    BY <1>1, SlotSets DEF Candidates
  <2>. QED
    BY <1>2, <2>1, EarliestMember
<1>3. RowHits(e) \in SUBSET Candidates(e)
  BY DEF RowHits
<1>4. CASE RowHits(e) # {} /\ Start(q, Earliest(RowHits(e), cycle), TRUE)
  BY <1>1, <1>2, <1>3, <1>4, StartIInv DEF Schedule
<1>5. CASE Candidates(e) # {} /\ Start(q, Earliest(Candidates(e), cycle), FALSE)
  BY <1>1, <1>2, <1>5, StartIInv DEF Schedule
<1>6. CASE UNCHANGED <<entry, pointers, bank_request, scheduled, active_at>>
  BY <1>6, FrameIInv DEF Schedule, IInv, TypeOK, queues, pointers, mode
<1>. QED
  BY <1>4, <1>5, <1>6 DEF Schedule
-----------------------------------------------------------------------------
(* operate, part 3. *)

\* A due process pointer names an entry that is in service, so the address
\* process() reads is one and the bank it finds serves that entry.
LEMMA DueTarget ==
    ASSUME IInv, NEW q \in Queue, Due(next_process[q], q)
    PROVE  /\ Target(q) \in InService(entry[q])
           /\ entry[q][Target(q)].address \in Addr
           /\ TargetBank(q) \in Bank
           /\ bank_request[TargetBank(q)].working
           /\ TargetOwnsBank(q)
<1>. USE DEF IInv
<1>1. entry[q] \in [Slots(q) -> Entry]
  BY DEF TypeOK
<1>2. next_process[q] = NextToProcess(q, entry[q]) /\ next_process[q].cycle # Never
  BY DEF Due, PointersFresh, Fresh
<1>3. Target(q) \in InService(entry[q])
  BY <1>1, <1>2, PointerValue DEF Target
<1>4. entry[q][Target(q)].address \in Addr
  BY <1>1, <1>3 DEF ScheduledOccupied, Occupied, Entry
<1>. QED
  BY <1>3, <1>4, AddressAssumption DEF BankOwnership, TargetOwnsBank, TargetBank

\* Finishing a request frees its own bank and slot and no other.
LEMMA FinishIInv ==
    ASSUME IInv, NEW q \in Queue, q = Active, Due(next_process[q], q), Finish(q),
           pc' = "idle", now' = now + 1, UNCHANGED <<warm, active_at, mode>>
    PROVE  IInv'
<1>. USE DEF IInv
<1>. DEFINE e == entry[q]
            f == entry'[q]
            i == Target(q)
            b == TargetBank(q)
<1>1. e \in [Slots(q) -> Entry] /\ DOMAIN entry = Queue
  BY DEF TypeOK
<1>2. i \in InService(e) /\ i \in Occupied(e) /\ i \in Slots(q) /\ b \in Bank
      /\ BankOf[e[i].address] = b
  BY <1>1, DueTarget, SlotSets DEF ScheduledOccupied, TargetBank
<1>3. entry' = [entry EXCEPT ![q][i] = EmptyEntry]
      /\ occupancy' = [occupancy EXCEPT ![q] = @ - 1]
      /\ scheduled' = [scheduled EXCEPT ![q] = @ - 1]
      /\ next_process' = [next_process EXCEPT ![q] = NextToProcess(q, f)]
      /\ next_schedule' = next_schedule
      /\ bank_request' =
            [bank_request EXCEPT ![b] =
                [@ EXCEPT !.request_index = NoIndex, !.working = FALSE,
                          !.is_write = FALSE, !.is_read = FALSE]]
  BY DEF Finish, RemoveEntry
<1>4. EmptyEntry \in Entry /\ ~EmptyEntry.scheduled /\ EmptyEntry.address = NoAddr
  BY DEF EmptyEntry, Entry
<1>5. f = [e EXCEPT ![i] = EmptyEntry] /\ DOMAIN entry' = Queue
      /\ \A r \in Queue : r # q => entry'[r] = entry[r]
  BY <1>1, <1>3
<1>. HIDE DEF i, b
<1>6. /\ f \in [Slots(q) -> Entry] /\ f[i] = EmptyEntry
      /\ \A k \in Slots(q) : k # i => f[k] = e[k]
  BY <1>1, <1>2, <1>4, <1>5
<1>7. /\ InService(f) = InService(e) \ {i} /\ Occupied(f) = Occupied(e) \ {i}
      /\ Waiting(f) = Waiting(e)
  BY <1>1, <1>2, <1>4, <1>6 DEF InService, Occupied, Waiting
<1>8. bank_request'[b] \in BankRequest /\ ~bank_request'[b].working
      /\ \A d \in Bank : d # b => bank_request'[d] = bank_request[d]
  <2>1. ASSUME NEW x \in BankRequest
        PROVE  LET y == [x EXCEPT !.request_index = NoIndex, !.working = FALSE,
                                  !.is_write = FALSE, !.is_read = FALSE]
               IN  y \in BankRequest /\ ~y.working
    BY DEF BankRequest
  <2>2. bank_request[b] \in BankRequest
    BY <1>2 DEF TypeOK
  <2>. QED
    BY <1>2, <1>3, <2>1, <2>2 DEF TypeOK
<1>9. \A r \in Queue : r # q => InService(entry[r]) = {}
  BY DEF BankOwnership, Active, Queue
<1>10. TypeOK'
  <2>1. \A r \in Queue : entry'[r] \in [Slots(r) -> Entry]
    BY <1>5, <1>6 DEF TypeOK
  <2>2. next_process' \in [Queue -> NextPointer]
    BY <1>3, <1>6, PointerValue DEF TypeOK
  <2>3. bank_request' \in [Bank -> BankRequest]
    BY <1>2, <1>3, <1>8 DEF TypeOK
  <2>4. Cardinality(InService(e)) \in Nat \ {0} /\ Cardinality(Occupied(e)) \in Nat \ {0}
    BY <1>1, <1>2, SlotSets, FS_EmptySet, FS_CardinalityType
  <2>5. occupancy' \in [Queue -> Nat] /\ scheduled' \in [Queue -> Nat]
    <3>1. occupancy[q] - 1 \in Nat /\ scheduled[q] - 1 \in Nat
      BY <2>4 DEF OccupancyExact, ScheduledExact
    <3>2. occupancy \in [Queue -> Nat] /\ scheduled \in [Queue -> Nat]
      BY DEF TypeOK
    <3>. QED
      BY <1>3, <3>1, <3>2
  <2>6. now' \in Nat /\ dbus' \in Nat /\ owed' \in [Queue -> SUBSET Addr]
    BY TimingAssumption DEF TypeOK, Finish
  <2>. QED
    BY <1>3, <1>5, <2>1, <2>2, <2>3, <2>5, <2>6 DEF TypeOK, mode
<1>11. ScheduledOccupied'
  BY <1>5, <1>7 DEF ScheduledOccupied
<1>12. BankOwnership'
  <2>1. ASSUME NEW r \in Queue, NEW k \in InService(entry'[r])
        PROVE  LET c == bank_request'[BankOf[entry'[r][k].address]]
               IN  /\ c.working /\ c.request_index = k
                   /\ c.is_write = (r = "WQ") /\ c.is_read = (r = "RQ")
    <3>1. r = q
      BY <1>5, <1>9, <2>1
    <3>2. k \in InService(e) /\ k # i /\ entry'[r][k] = e[k]
      BY <1>1, <1>6, <1>7, <2>1, <3>1, SlotSets
    <3>3. e[k].address \in Addr
      BY <1>1, <3>2 DEF ScheduledOccupied, Occupied, Entry
    <3>4. BankOf[e[k].address] # b /\ BankOf[e[k].address] \in Bank
      BY <1>2, <3>2, <3>3, AddressAssumption DEF BankOwnership
    <3>. QED
      BY <1>8, <3>1, <3>2, <3>4 DEF BankOwnership
  <2>2. ASSUME NEW d \in Bank, bank_request'[d].working
        PROVE  \E r \in Queue : \E k \in InService(entry'[r]) :
                    BankOf[entry'[r][k].address] = d
    <3>1. d # b /\ bank_request[d].working
      BY <1>8, <2>2
    <3>2. PICK r \in Queue : \E k \in InService(entry[r]) : BankOf[entry[r][k].address] = d
      BY <3>1 DEF BankOwnership
    <3>3. PICK k \in InService(entry[r]) : BankOf[entry[r][k].address] = d
      BY <3>2
    <3>4. r = q /\ k # i
      BY <1>2, <1>9, <3>1, <3>3
    <3>5. k \in InService(f) /\ f[k] = e[k]
      BY <1>1, <1>6, <1>7, <3>3, <3>4, SlotSets
    <3>. QED
      BY <3>3, <3>4, <3>5
  <2>3. InService(entry'[IF write_mode' THEN "RQ" ELSE "WQ"]) = {}
    BY <1>5 DEF BankOwnership, Active, Queue, mode
  <2>. QED
    BY <2>1, <2>2, <2>3 DEF BankOwnership
<1>13. PointersFresh'
  <2>1. NextToSchedule(q, f) = NextToSchedule(q, e)
    <3>1. e \in [Slots(q) -> Entry] /\ f \in [Slots(q) -> Entry]
          /\ Waiting(e) = Waiting(f) /\ \A k \in Waiting(e) : e[k] = f[k]
      BY <1>1, <1>2, <1>6, <1>7, SlotSets DEF Waiting, InService
    <3>. HIDE DEF e, f
    <3>. QED
      BY <3>1, PointerCongruence
  <2>2. next_process'[q] = NextToProcess(q, f)
        /\ \A r \in Queue : r # q => next_process'[r] = next_process[r]
    BY <1>3 DEF TypeOK
  <2>3. ASSUME NEW r \in Queue
        PROVE  /\ Fresh(next_schedule'[r], NextToSchedule(r, entry'[r]))
               /\ Fresh(next_process'[r], NextToProcess(r, entry'[r]))
    <3>1. CASE r = q
      BY <1>3, <2>1, <2>2, <3>1 DEF PointersFresh, Fresh
    <3>2. CASE r # q
      BY <1>3, <1>5, <2>2, <3>2 DEF PointersFresh
    <3>. QED
      BY <3>1, <3>2
  <2>. QED
    BY <2>3 DEF PointersFresh
<1>14. ScheduledExact' /\ OccupancyExact'
  <2>1. /\ Cardinality(InService(f)) = Cardinality(InService(e)) - 1
        /\ Cardinality(Occupied(f)) = Cardinality(Occupied(e)) - 1
    <3>1. IsFiniteSet(InService(e)) /\ IsFiniteSet(Occupied(e))
      BY <1>1, SlotSets
    <3>. HIDE DEF e, f
    <3>. QED
      BY <1>2, <1>7, <3>1, FS_RemoveElement
  <2>. QED
    BY <1>3, <1>5, <2>1 DEF ScheduledExact, OccupancyExact, TypeOK
<1>. QED
  BY <1>10, <1>11, <1>12, <1>13, <1>14

\* A bank that waits for the bus keeps its request.
LEMMA PostponeIInv ==
    ASSUME IInv, NEW q \in Queue, Due(next_process[q], q), Postpone(q),
           pc' = "idle", now' = now + 1, UNCHANGED <<warm, active_at, mode>>
    PROVE  IInv'
<1>. USE DEF IInv, queues, pointers, mode
<1>1. TargetBank(q) \in Bank
  BY DueTarget
<1>2. \A d \in Bank :
         /\ bank_request'[d] \in BankRequest
         /\ bank_request'[d].working = bank_request[d].working
         /\ bank_request'[d].request_index = bank_request[d].request_index
         /\ bank_request'[d].is_write = bank_request[d].is_write
         /\ bank_request'[d].is_read = bank_request[d].is_read
  BY <1>1 DEF Postpone, TypeOK, BankRequest
<1>3. TypeOK'
  <2>1. bank_request' \in [Bank -> BankRequest]
    BY <1>1, <1>2 DEF Postpone, TypeOK
  <2>. QED
    BY <2>1 DEF Postpone, TypeOK
<1>4. BankOwnership'
  <2>1. \A r \in Queue : \A k \in InService(entry[r]) : BankOf[entry[r][k].address] \in Bank
    <3>. SUFFICES ASSUME NEW r \in Queue, NEW k \in InService(entry[r])
                  PROVE  BankOf[entry[r][k].address] \in Bank
      OBVIOUS
    <3>1. entry[r] \in [Slots(r) -> Entry]
      BY DEF TypeOK
    <3>2. entry[r][k].address \in Addr
      BY <3>1 DEF ScheduledOccupied, Occupied, Entry
    <3>. QED
      BY <3>2, AddressAssumption
  <2>. QED
    BY <1>2, <2>1 DEF BankOwnership, Postpone
<1>5. ScheduledOccupied' /\ PointersFresh' /\ ScheduledExact' /\ OccupancyExact'
  BY DEF Postpone, ScheduledOccupied, PointersFresh, ScheduledExact, OccupancyExact
<1>. QED
  BY <1>3, <1>4, <1>5

LEMMA ProcessIInv == IInv /\ Process => IInv'
<1>. SUFFICES ASSUME IInv, Process PROVE IInv'
  OBVIOUS
<1>. DEFINE q == Active
<1>1. q \in Queue
  BY DEF Active, Queue
<1>2. CASE Due(next_process[q], q) /\ Finish(q)
  BY <1>1, <1>2, FinishIInv DEF Process
<1>3. CASE Due(next_process[q], q) /\ Postpone(q)
  BY <1>1, <1>3, PostponeIInv DEF Process
<1>4. CASE UNCHANGED <<queues, pointers, bank_request, scheduled, dbus, owed>>
  BY <1>4, FrameIInv DEF Process, IInv, TypeOK, queues, pointers, mode
<1>. QED
  BY <1>2, <1>3, <1>4 DEF Process

-----------------------------------------------------------------------------
\* The conjunction is inductive, hence an invariant.
THEOREM Invariance == Spec => []IInv
<1>1. Init => IInv
  BY InitIInv
<1>2. IInv /\ [Next]_vars => IInv'
  <2>. SUFFICES ASSUME IInv, [Next]_vars PROVE IInv'
    OBVIOUS
  <2>1. CASE WarmupCompletes
    BY <2>1, FrameIInv
       DEF WarmupCompletes, IInv, TypeOK, queues, pointers, banks, mode
  <2>2. ASSUME NEW a \in Addr, AddRq(a) \/ AddWq(a) PROVE IInv'
    BY <2>2, AddIInv DEF AddRq, AddWq, Queue
  <2>3. CASE ChooseMode
    BY <2>3, ChooseModeIInv
  <2>4. CASE Schedule
    BY <2>4, ScheduleIInv
  <2>5. CASE Process
    BY <2>5, ProcessIInv
  <2>6. CASE UNCHANGED vars
    BY <2>6, FrameIInv DEF vars, IInv, TypeOK, queues, pointers, banks, mode
  <2>. QED
    BY <2>1, <2>2, <2>3, <2>4, <2>5, <2>6 DEF Next, Operate
<1>. QED
  BY <1>1, <1>2, PTL DEF Spec

\* Every variable keeps its type; the two counters never fall below zero.
THEOREM TypeCorrect == Spec => []TypeOK
<1>1. IInv => TypeOK
  BY DEF IInv
<1>. QED
  BY <1>1, Invariance, PTL

\* Banks and queues agree on who serves what, for any number of banks.
THEOREM BankOwnershipHolds == Spec => []BankOwnership
<1>1. IInv => BankOwnership
  BY DEF IInv
<1>. QED
  BY <1>1, Invariance, PTL

\* operate() never acts on a stale pointer.
THEOREM PointersFreshHolds == Spec => []PointersFresh
<1>1. IInv => PointersFresh
  BY DEF IInv
<1>. QED
  BY <1>1, Invariance, PTL

\* The counters of scheduled requests and the occupancies are exact.
THEOREM CountersExact == Spec => [](ScheduledExact /\ OccupancyExact)
<1>1. IInv => ScheduledExact /\ OccupancyExact
  BY DEF IInv
<1>. QED
  BY <1>1, Invariance, PTL

\* The sanity check of process() cannot fail.
THEOREM ProcessCheckNeverFails == Spec => []ProcessCheckHolds
<1>1. IInv => ProcessCheckHolds
  BY DueTarget DEF ProcessCheckHolds, Active, Queue
<1>. QED
  BY <1>1, Invariance, PTL

-----------------------------------------------------------------------------
(* What the controller owes its callers.                                   *)

\* Everything in a bank is in service for the queue that is served now.
LEMMA OnlyActiveServed ==
    ASSUME IInv, NEW b \in Bank, bank_request[b].working
    PROVE  \E i \in InService(entry[Active]) :
              /\ entry[Active][i].address \in Addr
              /\ BankOf[entry[Active][i].address] = b
<1>1. PICK q \in Queue : \E i \in InService(entry[q]) : BankOf[entry[q][i].address] = b
  BY DEF IInv, BankOwnership
<1>2. q = Active
  BY <1>1 DEF IInv, BankOwnership, Active, Queue
<1>3. InService(entry[q]) \subseteq Occupied(entry[q]) /\ entry[q] \in [Slots(q) -> Entry]
  BY DEF IInv, ScheduledOccupied, TypeOK
<1>4. \A i \in Occupied(entry[q]) : entry[q][i].address \in Addr
  BY <1>3 DEF Occupied, Entry
<1>. QED
  BY <1>1, <1>2, <1>3, <1>4

-----------------------------------------------------------------------------
(* No request is lost. *)

Addresses(e) == {e[i].address : i \in Occupied(e)}
Unique(e) == \A i, j \in Occupied(e) : e[i].address = e[j].address => i = j

\* Rewriting a queue without touching an address changes nothing here.
LEMMA SameAddresses ==
    ASSUME NEW S, NEW e, NEW f, DOMAIN e = S, DOMAIN f = S,
           \A i \in S : e[i].address = f[i].address
    PROVE  Addresses(e) = Addresses(f) /\ (Unique(e) => Unique(f))
<1>1. Occupied(e) = Occupied(f)
  BY DEF Occupied
<1>2. \A i \in Occupied(e) : e[i].address = f[i].address
  BY DEF Occupied
<1>. QED
  BY <1>1, <1>2 DEF Addresses, Unique

LEMMA AddKeepsRequests ==
    ASSUME IInv, NoRequestLost, NEW q \in Queue, NEW a \in Addr, Add(q, a)
    PROVE  NoRequestLost'
<1>. DEFINE e == entry[q]
            f == entry'[q]
<1>1. e \in [Slots(q) -> Entry] /\ DOMAIN entry = Queue /\ owed \in [Queue -> SUBSET Addr]
  BY DEF IInv, TypeOK
<1>2. CASE UNCHANGED <<queues, owed>>
  BY <1>2 DEF NoRequestLost, queues
<1>3. CASE /\ Holding(e, a) # {} /\ UNCHANGED queues
           /\ owed' = [owed EXCEPT ![q] = @ \cup {a}]
  <2>1. a \in Addresses(e)
    BY <1>3, AddressAssumption DEF Holding, Addresses, Occupied
  <2>2. owed' = owed
    BY <1>1, <1>3, <2>1 DEF NoRequestLost, Addresses
  <2>. QED
    BY <1>3, <2>2 DEF NoRequestLost, queues
<1>4. CASE /\ Holding(e, a) = {}
           /\ \E c \in ArrivalCycles : Insert(q, a, c)
           /\ owed' = [owed EXCEPT ![q] = @ \cup {a}]
  <2>1. PICK c \in ArrivalCycles : Insert(q, a, c)
    BY <1>4
  <2>. DEFINE i == CHOOSE k \in FreeSlots(q) : \A j \in FreeSlots(q) : k <= j
  <2>2. FreeSlots(q) # {} /\ FreeSlots(q) \in SUBSET Nat
    BY <1>1, RoomIsASlot, SlotSets DEF Add, FreeSlots, Holding, IInv
  <2>3. i \in Slots(q) /\ e[i].address = NoAddr
    <3>1. i \in FreeSlots(q)
      BY <2>2, NatHasMin
    <3>. QED
      BY <1>1, <3>1 DEF FreeSlots, Holding
  <2>4. entry' = [entry EXCEPT ![q][i] =
                    [address |-> a, scheduled |-> FALSE, event_cycle |-> c]]
    BY <2>1, <2>2 DEF Insert
  <2>. HIDE DEF i
  <2>5. /\ f[i].address = a /\ DOMAIN f = Slots(q)
        /\ \A k \in Slots(q) : k # i => f[k] = e[k]
        /\ \A r \in Queue : r # q => entry'[r] = entry[r]
    BY <1>1, <2>3, <2>4
  <2>6. Occupied(f) = Occupied(e) \cup {i} /\ i \notin Occupied(e)
    BY <1>1, <2>3, <2>5, AddressAssumption DEF Occupied
  <2>7. a \notin Addresses(e)
    BY <1>1, <1>4 DEF Addresses, Holding, Occupied
  <2>8. \A k \in Occupied(e) : f[k] = e[k]
    BY <1>1, <2>5, <2>6 DEF Occupied
  <2>9. Addresses(f) = Addresses(e) \cup {a} /\ (Unique(e) => Unique(f))
    BY <2>5, <2>6, <2>7, <2>8 DEF Addresses, Unique
  <2>10. ASSUME NEW r \in Queue PROVE owed'[r] = Addresses(entry'[r]) /\ Unique(entry'[r])
    <3>1. owed[r] = Addresses(entry[r]) /\ Unique(entry[r])
      BY DEF NoRequestLost, Addresses, Unique
    <3>2. CASE r = q
      BY <1>1, <1>4, <2>9, <3>1, <3>2
    <3>3. CASE r # q
      BY <1>1, <1>4, <2>5, <3>1, <3>3
    <3>. QED
      BY <3>2, <3>3
  <2>. QED
    BY <2>10 DEF NoRequestLost, Addresses, Unique
<1>. QED
  BY <1>2, <1>3, <1>4 DEF Add

\* A change of mode and a start rewrite entries, never their addresses.
LEMMA RewriteKeepsRequests ==
    ASSUME IInv, NoRequestLost, owed' = owed, NEW q \in Queue,
           DOMAIN entry' = Queue, DOMAIN entry'[q] = Slots(q),
           \A i \in Slots(q) : entry'[q][i].address = entry[q][i].address,
           \A r \in Queue : r # q => entry'[r] = entry[r]
    PROVE  NoRequestLost'
<1>1. entry[q] \in [Slots(q) -> Entry]
  BY DEF IInv, TypeOK
<1>2. Addresses(entry'[q]) = Addresses(entry[q]) /\ (Unique(entry[q]) => Unique(entry'[q]))
  <2>. DEFINE e == entry[q]
              f == entry'[q]
              S == Slots(q)
  <2>1. DOMAIN e = S /\ DOMAIN f = S /\ \A i \in S : e[i].address = f[i].address
    BY <1>1
  <2>. HIDE DEF e, f, S
  <2>2. Addresses(e) = Addresses(f) /\ (Unique(e) => Unique(f))
    BY <2>1, SameAddresses
  <2>. QED
    BY <2>2 DEF e, f
<1>3. \A r \in Queue : Addresses(entry'[r]) = Addresses(entry[r])
                       /\ (Unique(entry[r]) => Unique(entry'[r]))
  BY <1>2
<1>. QED
  BY <1>3 DEF NoRequestLost, Addresses, Unique

LEMMA SwitchKeepsRequests ==
    ASSUME IInv, NoRequestLost, owed' = owed, NEW q \in Queue, Reset(q)
    PROVE  NoRequestLost'
<1>1. entry[q] \in [Slots(q) -> Entry] /\ DOMAIN entry = Queue
  BY DEF IInv, TypeOK
<1>2. entry' = [entry EXCEPT ![q] = [i \in Slots(q) |-> ReleasedEntry(entry[q][i])]]
  BY DEF Reset
<1>3. \A i \in Slots(q) : ReleasedEntry(entry[q][i]).address = entry[q][i].address
  <2>1. \A x \in Entry : ReleasedEntry(x).address = x.address
    BY DEF ReleasedEntry, Entry
  <2>. QED
    BY <1>1, <2>1
<1>. QED
  BY <1>1, <1>2, <1>3, RewriteKeepsRequests

LEMMA StartKeepsRequests ==
    ASSUME IInv, NoRequestLost, owed' = owed, NEW q \in Queue,
           NEW i \in Slots(q), NEW hit, Start(q, i, hit)
    PROVE  NoRequestLost'
<1>1. entry[q] \in [Slots(q) -> Entry] /\ DOMAIN entry = Queue
  BY DEF IInv, TypeOK
<1>. DEFINE n == now + Latency(hit)
            y == [entry[q][i] EXCEPT !.scheduled = TRUE, !.event_cycle = n]
<1>2. entry' = [entry EXCEPT ![q] = [@ EXCEPT ![i] = y]]
  BY <1>1 DEF Start
<1>3. y.address = entry[q][i].address
  <2>1. \A x \in Entry : \A m : [x EXCEPT !.scheduled = TRUE, !.event_cycle = m].address = x.address
    BY DEF Entry
  <2>. QED
    BY <1>1, <2>1
<1>. HIDE DEF y
<1>. QED
  BY <1>1, <1>2, <1>3, RewriteKeepsRequests

LEMMA FinishKeepsRequests ==
    ASSUME IInv, NoRequestLost, NEW q \in Queue, Due(next_process[q], q), Finish(q)
    PROVE  NoRequestLost'
<1>. DEFINE e == entry[q]
            f == entry'[q]
            i == Target(q)
            a == e[i].address
<1>1. e \in [Slots(q) -> Entry] /\ DOMAIN entry = Queue /\ owed \in [Queue -> SUBSET Addr]
  BY DEF IInv, TypeOK
<1>2. i \in Occupied(e) /\ i \in Slots(q)
  BY <1>1, DueTarget, SlotSets DEF IInv, ScheduledOccupied
<1>3. entry' = [entry EXCEPT ![q][i] = EmptyEntry] /\ owed' = [owed EXCEPT ![q] = @ \ {a}]
  BY DEF Finish, RemoveEntry
<1>. HIDE DEF i
<1>4. /\ f[i].address = NoAddr /\ DOMAIN f = Slots(q)
      /\ \A k \in Slots(q) : k # i => f[k] = e[k]
      /\ \A r \in Queue : r # q => entry'[r] = entry[r]
  BY <1>1, <1>2, <1>3 DEF EmptyEntry
<1>5. Occupied(f) = Occupied(e) \ {i} /\ \A k \in Occupied(f) : f[k] = e[k]
  BY <1>1, <1>2, <1>4 DEF Occupied
<1>6. Unique(e) => Addresses(f) = Addresses(e) \ {a} /\ Unique(f)
  BY <1>2, <1>5 DEF Addresses, Unique
<1>7. ASSUME NEW r \in Queue PROVE owed'[r] = Addresses(entry'[r]) /\ Unique(entry'[r])
  <2>1. owed[r] = Addresses(entry[r]) /\ Unique(entry[r])
    BY DEF NoRequestLost, Addresses, Unique
  <2>2. CASE r = q
    BY <1>1, <1>3, <1>6, <2>1, <2>2
  <2>3. CASE r # q
    BY <1>1, <1>3, <1>4, <2>1, <2>3
  <2>. QED
    BY <2>2, <2>3
<1>. QED
  BY <1>7 DEF NoRequestLost, Addresses, Unique

\* One step of the controller keeps every accepted request.
LEMMA StepKeepsRequests == IInv /\ NoRequestLost /\ [Next]_vars => NoRequestLost'
<1>. SUFFICES ASSUME IInv, NoRequestLost, [Next]_vars PROVE NoRequestLost'
  OBVIOUS
<1>1. CASE UNCHANGED <<entry, owed>>
  BY <1>1 DEF NoRequestLost
<1>2. ASSUME NEW a \in Addr, AddRq(a) \/ AddWq(a) PROVE NoRequestLost'
  BY <1>2, AddKeepsRequests DEF AddRq, AddWq, Queue
<1>3. CASE ChooseMode
  <2>1. CASE Reset("RQ") \/ Reset("WQ")
    BY <1>3, <2>1, SwitchKeepsRequests DEF ChooseMode, Queue
  <2>. QED
    BY <1>1, <1>3, <2>1 DEF ChooseMode, Switch, queues
<1>4. CASE Schedule
  <2>. DEFINE e == entry[Active]
  <2>1. Active \in Queue /\ e \in [Slots(Active) -> Entry] /\ owed' = owed
    BY <1>4 DEF Active, Queue, IInv, TypeOK, Schedule
  <2>2. ASSUME NEW S \in SUBSET Candidates(e), S # {}
        PROVE  Earliest(S, EventCycle(e)) \in Slots(Active)
    <3>1. S \in SUBSET Nat /\ S \in SUBSET Slots(Active)
          /\ \A i \in S : EventCycle(e)[i] \in Nat
      BY <2>1, SlotSets DEF Candidates
    <3>. QED
      BY <2>2, <3>1, EarliestMember
  <2>3. RowHits(e) \in SUBSET Candidates(e)
    BY DEF RowHits
  <2>4. \/ UNCHANGED entry
        \/ RowHits(e) # {} /\ Start(Active, Earliest(RowHits(e), EventCycle(e)), TRUE)
        \/ Candidates(e) # {} /\ Start(Active, Earliest(Candidates(e), EventCycle(e)), FALSE)
    BY <1>4 DEF Schedule
  <2>. QED
    BY <1>1, <2>1, <2>2, <2>3, <2>4, StartKeepsRequests
<1>5. CASE Process
  <2>1. Active \in Queue
    BY DEF Active, Queue
  <2>. QED
    BY <1>1, <1>5, <2>1, FinishKeepsRequests DEF Process, Postpone, queues
<1>6. CASE WarmupCompletes
  BY <1>1, <1>6 DEF WarmupCompletes, queues
<1>. QED
  BY <1>1, <1>2, <1>3, <1>4, <1>5, <1>6 DEF Next, Operate, vars, queues

\* What a queue accepted and has not served is in it, once.
THEOREM RequestsKept == Spec => []NoRequestLost
<1>1. Init => NoRequestLost
  BY DEF Init, NoRequestLost, Occupied, EmptyEntry
<1>. QED
  BY <1>1, StepKeepsRequests, Invariance, PTL DEF Spec
-----------------------------------------------------------------------------
(* Rows and the data bus. *)

\* A working bank has at least tCAS left after the activation of its row and
\* after the last change of mode.  This is what makes both OpenRowIsActive
\* and TurnAroundRespected inductive.
BankTiming ==
    /\ \A b \in Bank : bank_request[b].working =>
          /\ active_at[b] + tCAS <= bank_request[b].cycle_available
          /\ switched_at + tCAS <= bank_request[b].cycle_available
    /\ switched_at <= now
    /\ OpenRowIsActive

\* reset_remain_requests reports a row as open only when its activation is over.
LEMMA SwitchKeepsTiming ==
    ASSUME IInv, BankTiming, NEW to, Switch(to, Active), now' = now
    PROVE  BankTiming'
<1>. DEFINE q == Active
            e == entry[q]
<1>. USE DEF IInv
<1>1. ASSUME NEW b \in Bank
      PROVE  /\ ~bank_request'[b].working
             /\ bank_request'[b].open_row # NoRow => active_at[b] <= now
  <2>1. CASE b \in TouchedBanks(q)
    <3>1. PICK i \in InService(e) : BankOf[e[i].address] = b
      BY <2>1 DEF TouchedBanks
    <3>. DEFINE j == CHOOSE k \in InService(e) : BankOf[e[k].address] = b
                row == IF bank_request[b].cycle_available - tCAS <= now
                       THEN RowOf[e[j].address] ELSE NoRow
    <3>2. bank_request'[b] = ReleasedBank(q, b)
      BY <2>1 DEF Switch, Reset
    <3>3. ReleasedBank(q, b) = [IdleBank EXCEPT !.open_row = row, !.cycle_available = now]
      BY DEF ReleasedBank
    <3>4. ~bank_request'[b].working /\ bank_request'[b].open_row = row
      <4>. HIDE DEF row
      <4>. QED
        BY <3>2, <3>3 DEF IdleBank
    <3>5. bank_request[b].working
      BY <3>1 DEF BankOwnership, Active, Queue
    <3>6. bank_request[b].cycle_available \in Nat /\ active_at[b] \in Nat /\ now \in Nat
      BY DEF TypeOK, BankRequest
    <3>7. active_at[b] + tCAS <= bank_request[b].cycle_available
      BY <3>5 DEF BankTiming
    <3>8. row # NoRow => active_at[b] <= now
      BY SMTT(30), <3>6, <3>7, TimingAssumption
    <3>. HIDE DEF row
    <3>. QED
      BY <3>4, <3>8
  <2>2. CASE b \notin TouchedBanks(q)
    <3>1. ~bank_request[b].working
      BY <2>2, OnlyActiveServed DEF TouchedBanks
    <3>2. bank_request'[b] = bank_request[b]
      BY <2>2 DEF Switch, Reset
    <3>. QED
      BY <3>1, <3>2 DEF BankTiming, OpenRowIsActive
  <2>. QED
    BY <2>1, <2>2
<1>2. active_at' = active_at /\ switched_at' = now /\ now \in Nat
  BY DEF Switch, TypeOK
<1>. QED
  BY <1>1, <1>2 DEF BankTiming, OpenRowIsActive

\* A start finds its row active, or pays for the activation.
LEMMA StartKeepsTiming ==
    ASSUME IInv, BankTiming, NEW q \in Queue, NEW hit \in BOOLEAN,
           NEW i \in IF hit THEN RowHits(entry[q]) ELSE Candidates(entry[q]),
           Start(q, i, hit), now' = now, switched_at' = switched_at
    PROVE  BankTiming'
<1>. USE DEF IInv
<1>. DEFINE e == entry[q]
            a == e[i].address
            b == BankOf[a]
            done == now + Latency(hit)
<1>1. i \in Candidates(e) /\ (hit => bank_request[b].open_row = RowOf[a])
  BY DEF RowHits
<1>2. a \in Addr /\ b \in Bank /\ RowOf[a] \in Row /\ ~bank_request[b].working
  BY <1>1, AddressAssumption DEF Candidates, Waiting, Occupied, TypeOK, Entry
<1>3. now \in Nat /\ switched_at \in Nat /\ switched_at <= now
      /\ active_at \in [Bank -> Nat] /\ bank_request \in [Bank -> BankRequest]
  BY DEF TypeOK, BankTiming
<1>4. bank_request'[b].working /\ bank_request'[b].cycle_available = done
      /\ \A d \in Bank : d # b => bank_request'[d] = bank_request[d]
  BY <1>2, <1>3 DEF Start
<1>5. \A d \in Bank : d # b => active_at'[d] = active_at[d]
  BY <1>3 DEF Start
<1>6. active_at'[b] + tCAS <= done /\ switched_at + tCAS <= done
  <2>1. CASE hit
    <3>1. active_at[b] <= now
      BY <1>1, <1>2, <2>1, AddressAssumption DEF BankTiming, OpenRowIsActive
    <3>2. active_at' = active_at /\ done = now + tCAS
      BY <2>1 DEF Start, Latency
    <3>. QED
      BY <1>2, <1>3, <3>1, <3>2, TimingAssumption
  <2>2. CASE ~hit
    <3>1. active_at'[b] = now + tRP + tRCD /\ done = now + (tRP + tRCD + tCAS)
      BY <1>2, <1>3, <2>2 DEF Start, Latency
    <3>. QED
      BY <1>3, <3>1, TimingAssumption
  <2>. QED
    BY <2>1, <2>2
<1>. HIDE DEF done, b
<1>7. \A d \in Bank : bank_request'[d].working =>
          /\ active_at'[d] + tCAS <= bank_request'[d].cycle_available
          /\ switched_at + tCAS <= bank_request'[d].cycle_available
  BY <1>4, <1>5, <1>6 DEF BankTiming
<1>8. OpenRowIsActive'
  BY <1>4, <1>5 DEF BankTiming, OpenRowIsActive
<1>. QED
  BY <1>3, <1>7, <1>8 DEF BankTiming

\* process() frees a bank, or makes it wait longer.
LEMMA ProcessKeepsTiming == IInv /\ BankTiming /\ Process => BankTiming'
<1>. SUFFICES ASSUME IInv, BankTiming, Process PROVE BankTiming'
  OBVIOUS
<1>. USE DEF IInv
<1>. DEFINE q == Active
            b == TargetBank(q)
<1>1. q \in Queue /\ now \in Nat /\ now' = now + 1 /\ switched_at \in Nat
      /\ active_at' = active_at /\ switched_at' = switched_at
      /\ active_at \in [Bank -> Nat] /\ bank_request \in [Bank -> BankRequest]
  BY DEF Active, Queue, TypeOK, Process, mode
<1>2. CASE bank_request' = bank_request
  BY <1>1, <1>2 DEF BankTiming, OpenRowIsActive
<1>3. CASE Due(next_process[q], q) /\ BankReady(q) /\ Finish(q)
  <2>1. b \in Bank /\ bank_request[b].working /\ bank_request[b].cycle_available <= now
    BY <1>1, <1>3, DueTarget DEF BankReady
  <2>2. /\ ~bank_request'[b].working
        /\ \A d \in Bank : d # b => bank_request'[d] = bank_request[d]
    BY <1>1, <1>3, <2>1 DEF Finish, BankRequest
  <2>3. active_at[b] <= now
    <3>1. active_at[b] + tCAS <= bank_request[b].cycle_available
          /\ active_at[b] \in Nat /\ bank_request[b].cycle_available \in Nat
      BY <1>1, <2>1 DEF BankTiming, BankRequest
    <3>. QED
      BY <1>1, <2>1, <3>1, TimingAssumption
  <2>. HIDE DEF b
  <2>. QED
    BY <1>1, <2>1, <2>2, <2>3 DEF BankTiming, OpenRowIsActive
<1>4. CASE Due(next_process[q], q) /\ BankReady(q) /\ dbus > now /\ Postpone(q)
  <2>1. b \in Bank /\ bank_request[b].working /\ bank_request[b].cycle_available <= now
    BY <1>1, <1>4, DueTarget DEF BankReady
  <2>2. dbus \in Nat /\ bank_request[b].cycle_available \in Nat
    BY <1>1, <2>1 DEF TypeOK, BankRequest
  <2>3. /\ bank_request'[b].working /\ bank_request'[b].cycle_available = dbus
        /\ \A d \in Bank : d # b => bank_request'[d] = bank_request[d]
    BY <1>1, <1>4, <2>1 DEF Postpone, BankRequest
  <2>4. active_at[b] + tCAS <= dbus /\ switched_at + tCAS <= dbus
    BY <1>1, <1>4, <2>1, <2>2, TimingAssumption DEF BankTiming
  <2>. HIDE DEF b
  <2>. QED
    BY <1>1, <2>1, <2>3, <2>4 DEF BankTiming, OpenRowIsActive
<1>. QED
  BY <1>2, <1>3, <1>4 DEF Process

LEMMA StepKeepsTiming == IInv /\ BankTiming /\ [Next]_vars => BankTiming'
<1>. SUFFICES ASSUME IInv, BankTiming, [Next]_vars PROVE BankTiming'
  OBVIOUS
<1>1. CASE UNCHANGED <<bank_request, active_at, switched_at, now>>
  BY <1>1 DEF BankTiming, OpenRowIsActive
<1>2. CASE ChooseMode
  <2>1. CASE MustWrite /\ Switch(TRUE, "RQ")
    BY <1>2, <2>1, SwitchKeepsTiming DEF ChooseMode, MustWrite, Active
  <2>2. CASE MustRead /\ Switch(FALSE, "WQ")
    BY <1>2, <2>2, SwitchKeepsTiming DEF ChooseMode, MustRead, Active
  <2>. QED
    BY <1>1, <1>2, <2>1, <2>2 DEF ChooseMode, banks, mode
<1>3. CASE Schedule
  <2>. DEFINE e == entry[Active]
  <2>1. Active \in Queue /\ e \in [Slots(Active) -> Entry]
        /\ now' = now /\ switched_at' = switched_at
    BY <1>3 DEF Active, Queue, IInv, TypeOK, Schedule, mode
  <2>2. ASSUME NEW S \in SUBSET Candidates(e), S # {}
        PROVE  Earliest(S, EventCycle(e)) \in S
    <3>1. S \in SUBSET Nat /\ \A i \in S : EventCycle(e)[i] \in Nat
      BY <2>1, SlotSets DEF Candidates
    <3>. QED
      BY <2>2, <3>1, EarliestMember
  <2>3. RowHits(e) \in SUBSET Candidates(e)
    BY DEF RowHits
  <2>4. CASE RowHits(e) # {} /\ Start(Active, Earliest(RowHits(e), EventCycle(e)), TRUE)
    <3>1. Earliest(RowHits(e), EventCycle(e)) \in RowHits(e)
      BY <2>2, <2>3, <2>4
    <3>. QED
      BY <2>1, <2>4, <3>1, StartKeepsTiming
  <2>5. CASE Candidates(e) # {} /\ Start(Active, Earliest(Candidates(e), EventCycle(e)), FALSE)
    <3>1. Earliest(Candidates(e), EventCycle(e)) \in Candidates(e)
      BY <2>2, <2>5
    <3>. QED
      BY <2>1, <2>5, <3>1, StartKeepsTiming
  <2>. QED
    BY <1>1, <1>3, <2>1, <2>4, <2>5 DEF Schedule
<1>4. CASE Process
  BY <1>4, ProcessKeepsTiming
<1>5. ASSUME NEW a \in Addr, AddRq(a) \/ AddWq(a) PROVE BankTiming'
  BY <1>1, <1>5 DEF AddRq, AddWq, Add, banks, mode
<1>6. CASE WarmupCompletes
  BY <1>1, <1>6 DEF WarmupCompletes, banks, mode
<1>. QED
  BY <1>1, <1>2, <1>3, <1>4, <1>5, <1>6 DEF Next, Operate, vars, banks, mode

LEMMA TimingInvariance == Spec => []BankTiming
<1>1. Init => BankTiming
  BY DEF Init, BankTiming, OpenRowIsActive, IdleBank
<1>. QED
  BY <1>1, StepKeepsTiming, Invariance, PTL DEF Spec

\* A row reported as open is open: a row hit may pay tCAS only.
THEOREM OpenRowHolds == Spec => []OpenRowIsActive
<1>1. BankTiming => OpenRowIsActive
  BY DEF BankTiming
<1>. QED
  BY <1>1, TimingInvariance, PTL

\* No burst of the new direction before the turn-around time has passed,
\* provided the column access is at least that long (12.5 ns
\* against 7.5 ns in dram_controller.h): the code's own addition to
\* dbus_cycle_available is not what ensures it.
THEOREM TurnAroundHolds == ASSUME TurnAround <= tCAS PROVE Spec => TurnAroundRespected
<1>1. IInv /\ BankTiming /\ [Next]_vars => (Burst => now >= switched_at + TurnAround)
  <2>. SUFFICES ASSUME IInv, BankTiming, [Next]_vars, Burst
                PROVE  now >= switched_at + TurnAround
    OBVIOUS
  <2>1. Process
    BY DEF Next, Operate, vars, queues, Burst, WarmupCompletes,
           AddRq, AddWq, Add, ChooseMode, Schedule
  <2>. DEFINE q == Active
              b == TargetBank(q)
  <2>2. Due(next_process[q], q) /\ BankReady(q)
    BY <2>1 DEF Process, Burst, queues
  <2>3. q \in Queue
    BY DEF Active, Queue
  <2>4. b \in Bank /\ bank_request[b].working /\ bank_request[b].cycle_available <= now
    BY <2>2, <2>3, DueTarget DEF BankReady
  <2>5. switched_at + tCAS <= bank_request[b].cycle_available
        /\ bank_request[b].cycle_available \in Nat /\ now \in Nat /\ switched_at \in Nat
    BY <2>4 DEF BankTiming, IInv, TypeOK, BankRequest
  <2>. HIDE DEF b
  <2>. QED
    BY <2>4, <2>5, TimingAssumption
<1>. QED
  BY <1>1, Invariance, TimingInvariance, PTL DEF Spec, TurnAroundRespected
=============================================================================
