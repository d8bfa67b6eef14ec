------------------------------- MODULE MCDram -------------------------------
(***************************************************************************)
(* DramController for TLC, with calls that never end: three blocks, two of  *)
(* them rows of one bank.                                                  *)
(*                                                                         *)
(* The controller compares cycles with one another and with now, so a state *)
(* with all cycles moved by the same number behaves alike.  View takes such *)
(* states for one.  There are finitely many, although the clock runs on.   *)
(***************************************************************************)
EXTENDS DramController

CONSTANTS a1, a2, a3, b1, b2, r1, r2

MCBankOf == [a \in Addr |-> IF a = a3 THEN b2 ELSE b1]
MCRowOf == [a \in Addr |-> IF a = a2 THEN r2 ELSE r1]

VARIABLE
    moved_at    \* history: the last cycle with a burst, or with nothing owed

NothingOwed == \A q \in Queue : owed[q] = {}

TimedInit == Init /\ moved_at = now
TimedNext ==
    /\ Next
    /\ moved_at' = IF Burst \/ NothingOwed' THEN now' ELSE moved_at
TimedSpec == TimedInit /\ [][TimedNext]_<<vars, moved_at>>

-----------------------------------------------------------------------------
(* The view. *)

\* A cycle that is only compared with now: how far ahead it is, if at all.
Ahead(c) == IF c > now THEN c - now ELSE 0

\* Cycles of a queue are compared with one another too: a past one counts the
\* later ones up to now (a packet arrives in the present, as MaxAge is 0).
CyclesOf(q) ==
    {entry[q][i].event_cycle : i \in Occupied(entry[q])} \cup {now}
        \cup ({next_schedule[q].cycle, next_process[q].cycle} \ {Never})
Placed(q, c) ==
    CASE c = Never -> Never
      [] c > now -> 1 + c - now
      [] OTHER -> -1 - Cardinality({d \in CyclesOf(q) : c < d /\ d <= now})

PlacedEntry(q, i) ==
    IF i \in Occupied(entry[q])
    THEN [entry[q][i] EXCEPT !.event_cycle = Placed(q, @)] ELSE NoAddr
PlacedPointer(q, pointer) == [pointer EXCEPT !.cycle = Placed(q, @)]

\* A change of mode adds one cycle (TurnAround is 1) to a bus that was free
\* before this one, and at most one change happens in a cycle: it stays free.
BusAhead == IF dbus < now THEN -1 ELSE dbus - now

SwitchedAgo == IF now - switched_at > TurnAround THEN TurnAround
               ELSE now - switched_at

View ==
    <<warm, pc, occupancy, scheduled, write_mode, owed, now - moved_at,
      [q \in Queue |->
          <<[i \in Slots(q) |-> PlacedEntry(q, i)],
            PlacedPointer(q, next_schedule[q]), PlacedPointer(q, next_process[q])>>],
      [b \in Bank |-> <<[bank_request[b] EXCEPT !.cycle_available = Ahead(@)],
                        Ahead(active_at[b])>>],
      BusAhead, SwitchedAgo>>

-----------------------------------------------------------------------------
\* While a request is owed, one is served (a read answered, a write performed)
\* within three row misses, whatever calls arrive in the meantime.  operate()
\* may take the banks back from writes begun in idle cycles when a read comes,
\* and from that read when the write queue fills up, but not a third time:
\* DRAM_WRITE_LOW_WM keeps the write mode until a write is done.  The modes do
\* not thrash, and when calls cease all that was accepted is served.  A single
\* request may starve: a write queue that is kept full stops the reads, and
\* row hits that keep arriving go before a row miss.
SomeoneServed == now - moved_at <= 3 * Latency(FALSE)
=============================================================================
