----------------------------- MODULE PacketQueue -----------------------------
(***************************************************************************)
(* PACKET_QUEUE (src/src/block.cc, src/inc/block.h) as RQ, WQ, PQ and      *)
(* PROCESSED of the in-order caches use it: a ring of SIZE packets with    *)
(* head, tail and occupancy.  A packet is reduced to its address; address  *)
(* 0 marks an empty one.                                                   *)
(***************************************************************************)
EXTENDS Integers, Sequences

CONSTANTS
    SIZE,
    Addr,
    NoAddr      \* address of the packet remove_queue leaves behind

ASSUME QueueAssumption == SIZE \in Nat \ {0} /\ NoAddr \notin Addr

VARIABLES entry, head, tail, occupancy
vars == <<entry, head, tail, occupancy>>

Slots == 0..(SIZE - 1)

Init ==
    /\ entry = [i \in Slots |-> NoAddr]
    /\ head = 0 /\ tail = 0 /\ occupancy = 0

Wrap(i) == IF i >= SIZE THEN 0 ELSE i

\* The two sanity checks abort the program: no step.
AddCheck == ~(occupancy # 0 /\ head = tail)
RemoveCheck == ~(occupancy = 0 /\ head = tail)

\* Fault: tail moves on before the packet is stored.
AddQueueFault(a) ==
    /\ occupancy < SIZE /\ AddCheck
    /\ entry' = [entry EXCEPT ![Wrap(tail + 1)] = a]
    /\ occupancy' = occupancy + 1 /\ tail' = Wrap(tail + 1)
    /\ UNCHANGED head

\* add_queue; its callers test the occupancy first.
AddQueue(a) ==
    /\ occupancy < SIZE /\ AddCheck
    /\ entry' = [entry EXCEPT ![tail] = a]
    /\ occupancy' = occupancy + 1 /\ tail' = Wrap(tail + 1)
    /\ UNCHANGED head

\* Fault: the slot keeps its packet.
EmptiedFault(i) == entry

Emptied(i) == [entry EXCEPT ![i] = NoAddr]

\* remove_queue(&entry[head]); its callers test the occupancy first.
RemoveQueue ==
    /\ occupancy > 0 /\ RemoveCheck
    /\ entry' = Emptied(head)
    /\ occupancy' = occupancy - 1 /\ head' = Wrap(head + 1)
    /\ UNCHANGED tail

Next == RemoveQueue \/ \E a \in Addr : AddQueue(a)

Spec == Init /\ [][Next]_vars

-----------------------------------------------------------------------------
(* check_queue: where is the packet with this address? *)

\* Fault: a full queue looks like an empty one.
SearchedFault ==
    IF head = tail THEN {}
    ELSE IF head < tail THEN head..(tail - 1)
    ELSE head..(SIZE - 1) \cup 0..(tail - 1)

\* The slots the loops of check_queue visit.
Searched ==
    IF head = tail /\ occupancy = 0 THEN {}
    ELSE IF head < tail THEN head..(tail - 1)
    ELSE head..(SIZE - 1) \cup 0..(tail - 1)

\* Slot i is visited before slot j.
VisitedBefore(i, j) ==
    IF (i >= head) = (j >= head) THEN i <= j ELSE i >= head

\* i is what check_queue returns for address a (-1: not found).
CheckQueue(a, i) ==
    LET found == {j \in Searched : entry[j] = a}
    IN  IF found = {} THEN i = -1
        ELSE i \in found /\ \A j \in found : VisitedBefore(i, j)

-----------------------------------------------------------------------------
(* Properties. *)

\* Every variable keeps its type.
TypeOK ==
    /\ entry \in [Slots -> Addr \cup {NoAddr}]
    /\ head \in Slots /\ tail \in Slots /\ occupancy \in 0..SIZE

\* The slot of the k-th oldest packet, and the queue the ring stands for.
SlotOf(k) == IF head + k - 1 >= SIZE THEN head + k - 1 - SIZE ELSE head + k - 1
Items == [k \in 1..occupancy |-> entry[SlotOf(k)]]

\* head, tail and occupancy always agree, though head = tail means full as
\* well as empty: the used slots are the occupancy slots from head on, and
\* the sanity checks of add_queue and remove_queue never stop a caller that
\* has tested the occupancy.
RingConsistent ==
    /\ tail = IF head + occupancy >= SIZE THEN head + occupancy - SIZE ELSE head + occupancy
    /\ \A i \in Slots : entry[i] # NoAddr <=> \E k \in 1..occupancy : i = SlotOf(k)
    /\ (occupancy < SIZE => AddCheck) /\ (occupancy > 0 => RemoveCheck)

\* check_queue finds the oldest packet with the address, and finds one
\* whenever there is one: a merge with a request that is not there, or a
\* second entry for one that is, starts here.
CheckQueueExact ==
    \A a \in Addr :
        LET at == {k \in DOMAIN Items : Items[k] = a}
        IN  IF at = {} THEN CheckQueue(a, -1)
            ELSE \E k \in at : (\A j \in at : k <= j) /\ CheckQueue(a, SlotOf(k))

\* The ring is a first-in first-out queue of SIZE packets.
Ideal == INSTANCE Fifo WITH Capacity <- SIZE, Item <- Addr, items <- Items
ImplementsFifo == Ideal!Spec
=============================================================================
