--------------------------- MODULE SimulationLoop ---------------------------
(* The main loop of the simulator: in every round each core has a turn - one *)
(* cycle of its pipeline, a heartbeat, the search for a deadlock, the end of *)
(* the warm-up, the end of its own simulation - and then the shared LLC and  *)
(* the DRAM have theirs.  What a core does in its cycle is open: it retires  *)
(* some instructions, its ROB has a head or is empty, a page fault may stall *)
(* it.  An access counter is modelled by the number of cycles in which it    *)
(* may have counted.                                                         *)
EXTENDS Integers, Sequences, FiniteSets

CONSTANTS CoreCounts,      \* the builds: values of NUM_CPUS
          Warmup,          \* warmup_instructions
          Simulated,       \* simulation_instructions
          RetireWidth,
          DeadlockCycle,
          SwapLatency,     \* cycles a page fault stalls a core
          Period,          \* STAT_PRINTING_PERIOD
          MaxCycle         \* bound: rounds explored

ASSUME LoopAssumption ==
    /\ CoreCounts \subseteq Nat \ {0}
    /\ {Simulated, RetireWidth, DeadlockCycle, Period} \subseteq Nat \ {0}
    /\ {Warmup, SwapLatency, MaxCycle} \subseteq Nat
    /\ DeadlockCycle > 1

VARIABLES cpus,        \* NUM_CPUS of this build
          turn,        \* whose turn: a core, or cpus for LLC and DRAM
          phase,       \* what comes next in the turn of a core
          running,     \* run_simulation, and no assertion has failed
          cycle,       \* current_core_cycle
          stallCycle,  \* stall_cycle
          retired,     \* num_retired
          robHead,     \* event_cycle of the head of the ROB, or Vacant
          zeroCycle,   \* occupancy_zero_cycle, one for all cores
          warm,        \* warmup_complete
          allWarm,     \* all_warmup_complete
          done,        \* simulation_complete
          allDone,     \* all_simulation_complete
          begin,       \* begin_sim_instr and begin_sim_cycle
          finish,      \* finish_sim_instr and finish_sim_cycle
          beat,        \* next_print_instruction
          sim, roi,    \* sim_access and roi_access of the core's own caches
                       \* (own) and of the LLC on its behalf (llc)
          timing,      \* latencies in force: of the warm-up or the real ones
          alarms,      \* cores that print_deadlock was called for
          idle,        \* ghost: stalled turns in the core's window
          emptySince   \* ghost: when the ROB was first seen empty, or 0

loopVars == <<cpus, turn, phase, running, cycle, stallCycle, retired, robHead,
              zeroCycle, warm, allWarm, done, allDone, begin, finish, beat, sim,
              roi, timing, alarms, idle, emptySince>>

Core == 0 .. cpus - 1
Vacant == -1
Nothing == [own |-> 0, llc |-> 0]

LoopInit ==
    /\ cpus \in CoreCounts
    /\ turn = 0 /\ phase = "cycle" /\ running = TRUE
    /\ cycle = [i \in Core |-> 0] /\ stallCycle = [i \in Core |-> 0]
    /\ retired = [i \in Core |-> 0] /\ robHead = [i \in Core |-> Vacant]
    /\ zeroCycle = 0
    /\ warm = [i \in Core |-> FALSE] /\ allWarm = 0
    /\ done = [i \in Core |-> FALSE] /\ allDone = 0
    /\ begin = [i \in Core |-> [instr |-> Warmup, cycle |-> 0]]
    /\ finish = [i \in Core |-> [instr |-> 0, cycle |-> 0]]
    /\ beat = [i \in Core |-> Period]
    /\ sim = [i \in Core |-> Nothing] /\ roi = [i \in Core |-> Nothing]
    /\ timing = "warm-up"
    /\ alarms = {}
    /\ idle = [i \in Core |-> 0] /\ emptySince = [i \in Core |-> 0]

(* A turn goes through the phases in this order.                           *)
Goes(from, to) == running /\ turn \in Core /\ phase = from /\ phase' = to /\ turn' = turn

(* One cycle of the pipeline, unless the core is stalled.  It retires up   *)
(* to RetireWidth instructions; the head stays, or is due now, or one that *)
(* is due now or was due long ago comes up behind it, or the ROB runs      *)
(* empty.  A page fault of a walk stalls the core (one in a run: bound).   *)
CoreCycle(i, n, newHead, fault) ==
    LET now == cycle[i] + 1
        stalled == stallCycle[i] > now
    IN  /\ Goes("cycle", "heartbeat") /\ turn = i
        /\ now <= MaxCycle
        /\ cycle' = [cycle EXCEPT ![i] = now]
        /\ IF stalled
           THEN /\ n = 0 /\ newHead = robHead[i] /\ ~fault
                /\ sim' = sim
                /\ idle' = [idle EXCEPT ![i] = IF done[i] THEN @ ELSE @ + 1]
           ELSE /\ n > 0 => robHead[i] # Vacant
                /\ newHead \in IF n = 0 THEN {robHead[i], now} ELSE Vacant .. now
                /\ fault => \A j \in Core : stallCycle[j] = 0
                /\ sim' = [sim EXCEPT ![i].own = @ + 1]
                /\ idle' = idle
        /\ retired' = [retired EXCEPT ![i] = @ + n]
        /\ robHead' = [robHead EXCEPT ![i] = newHead]
        /\ stallCycle' = IF fault THEN [stallCycle EXCEPT ![i] = now + SwapLatency]
                         ELSE stallCycle
        /\ UNCHANGED <<cpus, running, zeroCycle, warm, allWarm, done, allDone,
                       begin, finish, beat, roi, timing, alarms, emptySince>>

(* The cumulative IPC: since the start or, once this core is warm, since   *)
(* begin_sim.                                                              *)
CumulativeIpc(i) ==
    [instr  |-> retired[i] - IF warm[i] THEN begin[i].instr ELSE 0,
     cycles |-> cycle[i] - IF warm[i] THEN begin[i].cycle ELSE 0]

HeartbeatDue(i) == phase = "heartbeat" /\ turn = i /\ retired[i] >= beat[i]

Heartbeat(i) ==
    /\ Goes("heartbeat", "deadlock") /\ turn = i
    /\ beat' = [beat EXCEPT ![i] = IF HeartbeatDue(i) THEN @ + Period ELSE @]
    /\ UNCHANGED <<cpus, running, cycle, stallCycle, retired, robHead, zeroCycle,
                   warm, allWarm, done, allDone, begin, finish, sim, roi, timing,
                   alarms, idle, emptySince>>

HeadStuck(i) == robHead[i] # Vacant /\ robHead[i] + DeadlockCycle <= cycle[i]

(* Fault: a core with work in its ROB leaves the clock running.            *)
ZeroSinceFault(i) == IF zeroCycle = 0 /\ robHead[i] = Vacant THEN cycle[i] ELSE zeroCycle

(* The clock of the empty ROB starts with the first core found empty and   *)
(* stops with every core that is not.                                      *)
ZeroSince(i) == IF robHead[i] # Vacant THEN 0
                ELSE IF zeroCycle = 0 THEN cycle[i] ELSE zeroCycle

EmptyStuck(i) == robHead[i] = Vacant /\ ZeroSince(i) + DeadlockCycle <= cycle[i]

(* print_deadlock ends in assert(0).                                       *)
DeadlockCheck(i) ==
    /\ Goes("deadlock", "warmup") /\ turn = i
    /\ zeroCycle' = ZeroSince(i)
    /\ alarms' = IF HeadStuck(i) \/ EmptyStuck(i) THEN {i} ELSE {}
    /\ running' = (alarms' = {})
    /\ emptySince' = [emptySince EXCEPT ![i] =
                        IF robHead[i] # Vacant THEN 0 ELSE IF @ = 0 THEN cycle[i] ELSE @]
    /\ UNCHANGED <<cpus, cycle, stallCycle, retired, robHead, warm, allWarm, done,
                   allDone, begin, finish, beat, sim, roi, timing, idle>>

(* reset_cache_stats for one core: its own caches and its share of the LLC.*)
ClearedStats(i) == Nothing

(* finish_warmup: the latencies become real, every core's window begins    *)
(* here and every counter starts again - in the middle of a round.         *)
FinishWarmup ==
    /\ timing' = "real"
    /\ begin' = [i \in Core |-> [instr |-> retired[i], cycle |-> cycle[i]]]
    /\ sim' = [i \in Core |-> ClearedStats(i)]
    /\ idle' = [i \in Core |-> 0]

WarmupCheck(i) ==
    LET newly == ~warm[i] /\ retired[i] > Warmup
        count == allWarm + (IF newly THEN 1 ELSE 0)
    IN  /\ Goes("warmup", "complete") /\ turn = i
        /\ warm' = [warm EXCEPT ![i] = @ \/ newly]
        /\ IF count = cpus
           THEN allWarm' = count + 1 /\ FinishWarmup
           ELSE allWarm' = count /\ UNCHANGED <<timing, begin, sim, idle>>
        /\ UNCHANGED <<cpus, running, cycle, stallCycle, retired, robHead, zeroCycle,
                       done, allDone, finish, beat, roi, alarms, emptySince>>

(* record_roi_stats for the core's own caches and the LLC.                 *)
RecordRoi(i) == roi' = [roi EXCEPT ![i] = sim[i]]

Completes(i) ==
    allWarm > cpus /\ ~done[i] /\ retired[i] >= begin[i].instr + Simulated

CompletionCheck(i) ==
    /\ running /\ phase = "complete" /\ turn = i
    /\ IF Completes(i)
       THEN /\ done' = [done EXCEPT ![i] = TRUE]
            /\ finish' = [finish EXCEPT ![i] = [instr |-> retired[i] - begin[i].instr,
                                                cycle |-> cycle[i] - begin[i].cycle]]
            /\ RecordRoi(i)
            /\ allDone' = allDone + 1
       ELSE UNCHANGED <<done, finish, roi, allDone>>
    /\ turn' = i + 1
    /\ phase' = IF i + 1 = cpus THEN "uncore" ELSE "cycle"
    /\ UNCHANGED <<cpus, running, cycle, stallCycle, retired, robHead, zeroCycle,
                   warm, allWarm, begin, beat, sim, timing, alarms, idle, emptySince>>

(* LLC and DRAM serve every core, also those that are done and those that  *)
(* are stalled; the loop ends after the round in which the last was done.  *)
Uncore ==
    /\ running /\ phase = "uncore"
    /\ sim' = [i \in Core |-> [sim[i] EXCEPT !.llc = @ + 1]]
    /\ running' = (allDone # cpus)
    /\ turn' = 0
    /\ phase' = "cycle"
    /\ UNCHANGED <<cpus, cycle, stallCycle, retired, robHead, zeroCycle, warm,
                   allWarm, done, allDone, begin, finish, beat, roi, timing,
                   alarms, idle, emptySince>>

LoopNext ==
    \/ \E i \in Core : \/ \E n \in 0 .. RetireWidth, newHead \in Vacant .. cycle[i] + 1,
                             fault \in BOOLEAN : CoreCycle(i, n, newHead, fault)
                       \/ Heartbeat(i)
                       \/ DeadlockCheck(i)
                       \/ WarmupCheck(i)
                       \/ CompletionCheck(i)
    \/ Uncore

LoopSpec == LoopInit /\ [][LoopNext]_loopVars

---------------------------------------------------------------------------

(* The figures of the region of interest are about one window: it begins   *)
(* for all cores at the same moment, after each retired its warm-up; core  *)
(* i's ends with the first cycle in which it has retired the simulated     *)
(* instructions, and neither its instructions nor its counters take in     *)
(* what happens before or after, although it runs on until all are done    *)
(* and shares the LLC.  (A core whose turn comes after that of the core    *)
(* that ended the warm-up has one cycle more than the LLC in its window.)  *)
RoiExact ==
    \A i \in Core : done[i] =>
        /\ begin[i].instr > Warmup
        /\ finish[i].instr \in Simulated .. Simulated + RetireWidth - 1
        /\ roi[i].own = finish[i].cycle - idle[i]
        /\ roi[i].llc \in {finish[i].cycle, finish[i].cycle - 1}

(* A heartbeat divides instructions by the cycles they took, whole run or  *)
(* window - except between a core's own warm-up and that of the last core, *)
(* when it takes the warm-up off the instructions and not off the cycles.  *)
HeartbeatExact ==
    \A i \in Core : HeartbeatDue(i) =>
        (CumulativeIpc(i) = IF timing = "real"
                            THEN [instr  |-> retired[i] - begin[i].instr,
                                  cycles |-> cycle[i] - begin[i].cycle]
                            ELSE [instr  |-> retired[i], cycles |-> cycle[i]])
        <=> ~(warm[i] /\ timing # "real" /\ Warmup # 0)

(* What the loop reports is about the cycles it says: the region of        *)
(* interest and the heartbeats; and it stops when the last core is done.   *)
WindowExact ==
    /\ RoiExact
    /\ HeartbeatExact
    /\ ~running /\ alarms = {} => \A i \in Core : done[i]

(* Every alarm is about a core that is stuck: its head has been due for    *)
(* DeadlockCycle cycles, or all ROBs have been empty that long (less the   *)
(* one cycle that another core may have started the common clock early);   *)
(* and a head that is stuck does not go on unnoticed, nor does an empty    *)
(* ROB when there is one core.  (With more cores one core with work hides  *)
(* all those that have none.)                                              *)
AlarmsTrue ==
    /\ \A i \in alarms :
          \/ HeadStuck(i)
          \/ \A j \in Core : /\ emptySince[j] # 0
                             /\ cycle[i] - emptySince[j] >= DeadlockCycle - 1
    /\ \A i \in Core : phase = "warmup" /\ turn = i /\ running =>
          /\ ~HeadStuck(i)
          /\ cpus = 1 /\ emptySince[i] # 0 => cycle[i] - emptySince[i] < DeadlockCycle

(* What the main loop of ChampSim says of a run is true: the windows its   *)
(* figures are about, and the alarms of its deadlock check.                *)
LoopExact == WindowExact /\ AlarmsTrue
=============================================================================
