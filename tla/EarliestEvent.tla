---------------------------- MODULE EarliestEvent ----------------------------
(***************************************************************************)
(* Selection of the oldest entry of a packet queue.  The simulator scans   *)
(* entry[0..SIZE-1] with a strict comparison against the best cycle found  *)
(* so far, so among equal cycles the lowest index wins.  The same loop is  *)
(* written in update_schedule_cycle, update_process_cycle and schedule     *)
(* (dram_controller.cc) and in update_fill_cycle (cache.cc).               *)
(***************************************************************************)
EXTENDS Integers

\* i is picked before j when both qualify.
Precedes(cycle, i, j) ==
    \/ cycle[i] < cycle[j]
    \/ cycle[i] = cycle[j] /\ i <= j

\* The index the loop ends with when the non-empty set S qualifies.
Earliest(S, cycle) ==
    CHOOSE i \in S : \A j \in S : Precedes(cycle, i, j)

\* UINT64_MAX in a cached cycle: nothing to do.
Never == -1

\* The cached pair (next_*_index, next_*_cycle) after one of the update
\* functions; index SIZE and cycle UINT64_MAX stand for "nothing qualifies".
NextEvent(S, cycle, size) ==
    IF S = {} THEN [index |-> size, cycle |-> Never]
              ELSE [index |-> Earliest(S, cycle),
                    cycle |-> cycle[Earliest(S, cycle)]]
=============================================================================
