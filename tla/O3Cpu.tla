-------------------------------- MODULE O3Cpu --------------------------------
(***************************************************************************)
(* O3_CPU (src/src/ooo_cpu.cc) from dispatch to retirement: the reorder    *)
(* buffer ROB, register dependences, the load queue LQ, the store queue    *)
(* SQ, store-to-load forwarding, and the arrays STA, RTL0 and RTS0 that    *)
(* put memory operations in order.                                         *)
(*                                                                         *)
(* Instructions carry numbers, in program order; the slot of instruction i *)
(* is i % RobSize.  The program is chosen as it is dispatched.  Fetch and  *)
(* decode, branches and the caches are environment: instructions arrive in *)
(* order, L1D accepts loads one by one and answers them in any order, and  *)
(* its write queue takes the stores of retired instructions.               *)
(*                                                                         *)
(* One action is one operation on one instruction or queue entry.  Cycles, *)
(* widths and latencies are left out; where a stage goes through ROB from  *)
(* the head on, the guards keep its order.                                 *)
(***************************************************************************)
EXTENDS Integers, Sequences, FiniteSets

CONSTANTS
    RobSize, LqSize, SqSize,    \* ROB_SIZE, LQ_SIZE, SQ_SIZE
    SchedulerSize,              \* SCHEDULER_SIZE
    Addr, Reg,                  \* memory addresses, registers
    Instr,                      \* the instructions of the trace
    MaxInstr                    \* bound: length of the program

ASSUME SizeAssumption ==
    /\ RobSize \in Nat \ {0} /\ LqSize \in Nat \ {0} /\ SqSize \in Nat \ {0}
    /\ SchedulerSize \in Nat \ {0} /\ MaxInstr \in Nat

\* The tracer records every register and every address of an instruction once,
\* in arrays of fixed size.
ASSUME InstrAssumption ==
    /\ Instr \subseteq [src : SUBSET Reg, dst : SUBSET Reg,
                        loads : SUBSET Addr, stores : SUBSET Addr]
    /\ \A op \in Instr : IsFiniteSet(op.loads) /\ IsFiniteSet(op.stores)

VARIABLES
    head, next,     \* ROB holds the instructions head..(next - 1)
    rob,            \* the entries of ROB
    lq,             \* LQ.entry, by slot
    sq, sq_tail,    \* SQ.entry, by slot, and SQ.tail
    sta,            \* STA: the stores that are not in SQ yet
    rtl, rts,       \* RTL0 and RTS0: slots of LQ and SQ, ready to be executed
    l1d             \* slots of LQ whose load L1D has accepted

vars == <<head, next, rob, lq, sq, sq_tail, sta, rtl, rts, l1d>>

None == -1
InRob == head..(next - 1)
LqSlots == 0..(LqSize - 1)
SqSlots == 0..(SqSize - 1)

FreeLoad == [id |-> None, address |-> None, producer |-> None]
FreeStore == [id |-> None, address |-> None, fetched |-> FALSE]

FreeLq == {s \in LqSlots : lq[s] = FreeLoad}
SqOccupancy == Cardinality({s \in SqSlots : sq[s] # FreeStore})

Least(S) == CHOOSE x \in S : \A y \in S : x <= y
Youngest(S) == IF S = {} THEN None ELSE CHOOSE x \in S : \A y \in S : x >= y

Init ==
    /\ head = 0 /\ next = 0 /\ rob = <<>>
    /\ lq = [s \in LqSlots |-> FreeLoad]
    /\ sq = [s \in SqSlots |-> FreeStore] /\ sq_tail = 0
    /\ sta = <<>> /\ rtl = <<>> /\ rts = <<>> /\ l1d = {}

-----------------------------------------------------------------------------
(* Dispatch and scheduling. *)

\* waits: the producers (and registers) num_reg_dependent counts.
\* loaded, stored: the addresses with source_added and destination_added.
\* dependents: memory_instrs_depend_on_me.
NewEntry(op) ==
    [op |-> op, scheduled |-> FALSE, waits |-> {}, loaded |-> {}, stored |-> {},
     lq_index |-> [a \in op.loads |-> None], dependents |-> {},
     num_mem_ops |-> Cardinality(op.loads) + Cardinality(op.stores),
     executed |-> FALSE]

\* read_from_trace notes each store in STA; decode_and_dispatch and
\* add_to_rob move the instruction into ROB.
Dispatch(op) ==
    /\ next < MaxInstr /\ next - head < RobSize
    /\ rob' = [i \in head..next |-> IF i = next THEN NewEntry(op) ELSE rob[i]]
    /\ next' = next + 1
    /\ sta' = sta \o [k \in 1..Cardinality(op.stores) |-> next]
    /\ UNCHANGED <<head, lq, sq, sq_tail, rtl, rts, l1d>>

\* The youngest of the older unfinished instructions that write register r.
RegProducer(i, r) ==
    Youngest({p \in head..(i - 1) : ~rob[p].executed /\ r \in rob[p].op.dst})

\* Fault: one producer per instruction is remembered.
RegDependencyFault(i) ==
    LET p == Youngest({RegProducer(i, r) : r \in rob[i].op.src})
    IN  {w \in {p} \X rob[i].op.src : w[1] # None /\ w[1] = RegProducer(i, w[2])}

\* reg_dependency
RegDependency(i) ==
    {w \in (head..(i - 1)) \X rob[i].op.src : w[1] = RegProducer(i, w[2])}

\* schedule_instruction goes from the head to the end of the array: next_fetch,
\* its limit, is 0 for ever, so it does not go on at slot 0.
InWindow(i) == i - head < SchedulerSize /\ i \div RobSize = head \div RobSize

\* do_scheduling, in program order.
Schedule(i) ==
    /\ i \in InRob /\ InWindow(i) /\ ~rob[i].scheduled
    /\ \A k \in head..(i - 1) : rob[k].scheduled
    /\ rob' = [rob EXCEPT ![i].scheduled = TRUE, ![i].waits = RegDependency(i)]
    /\ UNCHANGED <<head, next, lq, sq, sq_tail, sta, rtl, rts, l1d>>

\* reg_ready
Ready(i) == rob[i].scheduled /\ rob[i].waits = {}

-----------------------------------------------------------------------------
(* schedule_memory_instruction: check_and_add_lsq for each instruction that *)
(* is ready, from the head on.                                              *)

\* Fault: the oldest store to the address is taken.
MemProducerFault(i, a) ==
    LET older == {p \in head..(i - 1) : a \in rob[p].op.stores}
    IN  IF older = {} THEN None ELSE Least(older)

\* mem_RAW_dependency: the youngest older store to the address.
MemProducer(i, a) == Youngest({p \in head..(i - 1) : a \in rob[p].op.stores})

\* Fault: a load that finds its store executed still waits for it.
ForwardsFault(p, a) == FALSE

\* The store is in SQ and executed: its data is there.
Forwards(p, a) == \E s \in SqSlots : sq[s] = [id |-> p, address |-> a, fetched |-> TRUE]

\* check_and_add_lsq has come past the loads of the instructions up to i.
LoadsAdded(i) == \A k \in head..i : Ready(k) => rob[k].loaded = rob[k].op.loads

\* add_load_queue.  A load that is forwarded at once gives its slot back; one
\* without a producer is ready for L1D; any other waits for execute_store.
AddLoad(i, a) ==
    LET s == Least(FreeLq)
        p == MemProducer(i, a)
        forwarded == p # None /\ Forwards(p, a)
    IN  /\ i \in InRob /\ Ready(i) /\ a \in rob[i].op.loads \ rob[i].loaded
        /\ FreeLq # {} /\ LoadsAdded(i - 1)
        /\ lq' = IF forwarded THEN lq
                 ELSE [lq EXCEPT ![s] = [id |-> i, address |-> a, producer |-> p]]
        /\ rtl' = IF p = None THEN Append(rtl, s) ELSE rtl
        /\ rob' = [k \in InRob |->
                     IF k = i THEN [rob[i] EXCEPT !.loaded = @ \cup {a},
                                                  !.lq_index[a] = s,
                                                  !.num_mem_ops = IF forwarded THEN @ - 1 ELSE @]
                     ELSE IF k = p THEN [rob[p] EXCEPT !.dependents = @ \cup {i}]
                     ELSE rob[k]]
        /\ UNCHANGED <<head, next, sq, sq_tail, sta, rts, l1d>>

\* Fault: the order of STA is not asked for.
StoreTurnFault(i) == \E k \in DOMAIN sta : sta[k] = i

\* Stores enter SQ in program order.
StoreTurn(i) == sta # <<>> /\ Head(sta) = i

Without(queue, i) ==
    LET k == CHOOSE k \in DOMAIN queue : queue[k] = i
    IN  SubSeq(queue, 1, k - 1) \o SubSeq(queue, k + 1, Len(queue))

\* add_store_queue; the sanity check that the slot is empty is SqTailFree.
AddStore(i, a) ==
    /\ i \in InRob /\ Ready(i) /\ a \in rob[i].op.stores \ rob[i].stored
    /\ FreeLq = {} \/ LoadsAdded(i)
    /\ SqOccupancy < SqSize /\ StoreTurn(i)
    /\ sq' = [sq EXCEPT ![sq_tail] = [id |-> i, address |-> a, fetched |-> FALSE]]
    /\ sq_tail' = (sq_tail + 1) % SqSize
    /\ sta' = Without(sta, i) /\ rts' = Append(rts, sq_tail)
    /\ rob' = [rob EXCEPT ![i].stored = @ \cup {a}]
    /\ UNCHANGED <<head, next, lq, rtl, l1d>>

-----------------------------------------------------------------------------
(* operate_lsq, and the answers of L1D. *)

\* Fault: two loads of one instruction are counted once.
OpsDoneFault(i, S) == IF \E s \in S : lq[s].id = i THEN 1 ELSE 0

\* Loads in the slots of S are done: their instructions have one operation
\* less to wait for, and the slots are released.
OpsDone(i, S) == Cardinality({s \in S : lq[s].id = i})
Released(S) == [s \in LqSlots |-> IF s \in S THEN FreeLoad ELSE lq[s]]

\* The loads execute_store forwards to, and the sanity check on them.
Dependents(p, a) == {d \in rob[p].dependents : a \in rob[d].loaded}
ForwardCheck(p, a) ==
    /\ \A d \in Dependents(p, a) : lq[rob[d].lq_index[a]].producer = p
    /\ \A c, d \in Dependents(p, a) : rob[c].lq_index[a] = rob[d].lq_index[a] => c = d

\* execute_store
ExecuteStore ==
    LET p == sq[Head(rts)].id
        a == sq[Head(rts)].address
        woken == {rob[d].lq_index[a] : d \in Dependents(p, a)}
    IN  /\ rts # <<>> /\ ForwardCheck(p, a)
        /\ sq' = [sq EXCEPT ![Head(rts)].fetched = TRUE]
        /\ rts' = Tail(rts) /\ lq' = Released(woken)
        /\ rob' = [k \in InRob |->
                     [rob[k] EXCEPT !.num_mem_ops =
                        @ - OpsDone(k, woken) - (IF k = p THEN 1 ELSE 0)]]
        /\ UNCHANGED <<head, next, sq_tail, sta, rtl, l1d>>

\* execute_load: L1D's read queue has room (add_rq does not return -2).
ExecuteLoad ==
    /\ rtl # <<>>
    /\ rtl' = Tail(rtl) /\ l1d' = l1d \cup {Head(rtl)}
    /\ UNCHANGED <<head, next, rob, lq, sq, sq_tail, sta, rts>>

\* Fault: the loads merged into the request are forgotten.
DataFetchedFault(S) ==
    /\ S # {} /\ S \subseteq l1d
    /\ l1d' = l1d \ S /\ lq' = Released({Least(S)})
    /\ rob' = [k \in InRob |-> [rob[k] EXCEPT !.num_mem_ops = @ - OpsDone(k, {Least(S)})]]
    /\ UNCHANGED <<head, next, sq, sq_tail, sta, rtl, rts>>

\* complete_data_fetch and handle_merged_load: L1D answers a load, together
\* with those it has merged into it.
DataFetched(S) ==
    /\ S # {} /\ S \subseteq l1d
    /\ l1d' = l1d \ S /\ lq' = Released(S)
    /\ rob' = [k \in InRob |-> [rob[k] EXCEPT !.num_mem_ops = @ - OpsDone(k, S)]]
    /\ UNCHANGED <<head, next, sq, sq_tail, sta, rtl, rts>>

-----------------------------------------------------------------------------
(* Completion and retirement. *)

\* All operations are in LQ or SQ (do_memory_scheduling sets executed to
\* INFLIGHT) and done.
OpsComplete(i) ==
    /\ rob[i].loaded = rob[i].op.loads /\ rob[i].stored = rob[i].op.stores
    /\ rob[i].num_mem_ops = 0

\* complete_execution and reg_RAW_release; for other instructions than loads
\* and stores execute_instruction comes first.
Complete(i) ==
    /\ i \in InRob /\ Ready(i) /\ OpsComplete(i) /\ ~rob[i].executed
    /\ rob' = [k \in InRob |->
                 IF k = i THEN [rob[k] EXCEPT !.executed = TRUE]
                 ELSE [rob[k] EXCEPT !.waits = {w \in @ : w[1] # i}]]
    /\ UNCHANGED <<head, next, lq, sq, sq_tail, sta, rtl, rts, l1d>>

\* retire_rob: L1D's write queue has room for the stores of the instruction.
Retire ==
    /\ head < next /\ rob[head].executed
    /\ head' = head + 1
    /\ rob' = [i \in (head + 1)..(next - 1) |-> rob[i]]
    /\ sq' = [s \in SqSlots |-> IF sq[s].id = head THEN FreeStore ELSE sq[s]]
    /\ UNCHANGED <<next, lq, sq_tail, sta, rtl, rts, l1d>>

-----------------------------------------------------------------------------
Next ==
    \/ \E op \in Instr : Dispatch(op)
    \/ \E i \in InRob : Schedule(i) \/ Complete(i)
    \/ \E i \in InRob, a \in Addr : AddLoad(i, a) \/ AddStore(i, a)
    \/ ExecuteStore \/ ExecuteLoad
    \/ \E S \in SUBSET l1d : DataFetched(S)
    \/ Retire

Spec == Init /\ [][Next]_vars

\* The main loop calls every stage in every cycle.  L1D takes and answers the
\* loads, and its write queue drains.
FairSpec ==
    /\ Spec
    /\ \A i \in 0..(MaxInstr - 1) :
          /\ WF_vars(Schedule(i)) /\ WF_vars(Complete(i))
          /\ WF_vars(\E a \in Addr : AddLoad(i, a))
          /\ WF_vars(\E a \in Addr : AddStore(i, a))
    /\ WF_vars(ExecuteStore) /\ WF_vars(ExecuteLoad) /\ WF_vars(Retire)
    /\ \A s \in LqSlots : WF_vars(\E S \in SUBSET l1d : s \in S /\ DataFetched(S))

-----------------------------------------------------------------------------
(* Properties. *)

Entry == [op : Instr, scheduled : BOOLEAN,
          waits : SUBSET ((0..(MaxInstr - 1)) \X Reg),
          loaded : SUBSET Addr, stored : SUBSET Addr,
          lq_index : UNION {[A -> LqSlots \cup {None}] : A \in SUBSET Addr},
          dependents : SUBSET (0..(MaxInstr - 1)),
          num_mem_ops : Nat, executed : BOOLEAN]

\* The variables have their types; in particular num_mem_ops, which the code
\* tests after each decrement, is never negative.
TypeOK ==
    /\ head \in 0..MaxInstr /\ next \in head..MaxInstr /\ next - head <= RobSize
    /\ DOMAIN rob = InRob /\ \A i \in InRob : rob[i] \in Entry
    /\ lq \in [LqSlots -> [id : {None} \cup 0..(MaxInstr - 1), address : {None} \cup Addr,
                           producer : {None} \cup 0..(MaxInstr - 1)]]
    /\ sq \in [SqSlots -> [id : {None} \cup 0..(MaxInstr - 1), address : {None} \cup Addr,
                           fetched : BOOLEAN]]
    /\ sq_tail \in SqSlots /\ sta \in Seq(0..(MaxInstr - 1))
    /\ rtl \in Seq(LqSlots) /\ rts \in Seq(SqSlots) /\ l1d \subseteq LqSlots

StoreExecuted(p, a) == Forwards(p, a)

\* The load in slot s waits for a store that is still to be executed and knows
\* of it.
AwaitsStore(s) ==
    LET p == lq[s].producer
    IN  /\ p \in InRob /\ lq[s].address \in rob[p].op.stores
        /\ ~StoreExecuted(p, lq[s].address) /\ lq[s].id \in rob[p].dependents

Claims(s) ==
    Cardinality({k \in DOMAIN rtl : rtl[k] = s}) + Cardinality({s} \cap l1d)
        + (IF AwaitsStore(s) THEN 1 ELSE 0)

\* Every load in LQ is waited for by exactly one of RTL0, L1D and the store that
\* produces its data, and its instruction, still in ROB, finds it by lq_index;
\* nobody holds the index of a free slot.  A load that two parties complete
\* makes num_mem_ops negative, one that nobody completes blocks retirement.
LoadsServed ==
    \A s \in LqSlots :
        IF lq[s] = FreeLoad THEN Claims(s) = 0
        ELSE /\ Claims(s) = 1
             /\ lq[s].id \in InRob /\ lq[s].address \in rob[lq[s].id].loaded
             /\ rob[lq[s].id].lq_index[lq[s].address] = s

\* A load in LQ gets the data of program order: from the youngest of the older
\* stores to its address that are in ROB, from L1D when there is none.
ReadsYoungestStore ==
    \A s \in LqSlots : lq[s] # FreeLoad =>
        LET older == {p \in head..(lq[s].id - 1) : lq[s].address \in rob[p].op.stores}
        IN  IF lq[s].producer = None THEN older = {}
            ELSE lq[s].producer \in older /\ \A p \in older : p <= lq[s].producer

\* num_mem_ops counts the operations that are to be done: loads not in LQ yet,
\* loads in LQ, and stores not executed.
MemOpsExact ==
    \A i \in InRob :
        rob[i].num_mem_ops = Cardinality(rob[i].op.loads \ rob[i].loaded)
            + Cardinality({s \in LqSlots : lq[s].id = i})
            + Cardinality({a \in rob[i].op.stores : ~StoreExecuted(i, a)})

\* Back from SQ.tail, SQ holds its stores without a gap and in program order,
\* so the slot add_store_queue takes is free unless SQ is full (its sanity
\* check), and SQ.head, which retirement advances, meets the oldest store.
StoresInOrder ==
    LET Back(k) == sq[(sq_tail + SqSize - k) % SqSize]
    IN  \A k \in 1..SqSize :
            /\ k <= SqOccupancy => Back(k) # FreeStore
            /\ k < SqOccupancy => Back(k + 1).id <= Back(k).id

\* An instruction completes after the youngest older instruction that writes
\* one of its source registers.
RawRespected ==
    \A i \in InRob : rob[i].executed =>
        \A r \in rob[i].op.src :
            LET p == Youngest({q \in head..(i - 1) : r \in rob[q].op.dst})
            IN  p # None => rob[p].executed

\* execute_store never finds a load that waits for another store, or that has
\* left LQ (its sanity check).
ForwardingConsistent ==
    rts # <<>> => ForwardCheck(sq[Head(rts)].id, sq[Head(rts)].address)

\* What enters ROB retires: the core never comes to the assert of
\* print_deadlock, which the main loop calls for a head that does not move.
EveryInstructionRetires ==
    \A i \in 0..(MaxInstr - 1) : next > i ~> head > i

\* check_and_add_lsq finds no slot for a load of the oldest instruction, and
\* each slot of LQ is held by a younger load that waits for a store.
LqExhausted ==
    /\ head < next /\ Ready(head) /\ rob[head].loaded # rob[head].op.loads
    /\ \A s \in LqSlots : lq[s].id > head /\ AwaitsStore(s)

\* There is one deadlock only: what enters ROB retires, however stores, loads
\* that wait for them, register chains, STA and the window that does not wrap
\* hold one another up, unless in the end LQ is exhausted for good.
RetiresUnlessExhausted == <>[]LqExhausted \/ EveryInstructionRetires
=============================================================================
