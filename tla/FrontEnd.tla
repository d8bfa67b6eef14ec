------------------------------ MODULE FrontEnd ------------------------------
(***************************************************************************)
(* The front end of O3_CPU (src/src/ooo_cpu.cc): reading the trace, branch *)
(* prediction and the branch target buffer BTB, IFETCH_BUFFER and its      *)
(* reads of L1I, DECODE_BUFFER, dispatch into ROB, and the stall of        *)
(* reading that a mispredicted branch or a miss in BTB causes.             *)
(*                                                                         *)
(* A cycle goes through the stages in the order of the loop of main:       *)
(* retire, complete, decode, fetch, read.  fetch_resume_cycle and the      *)
(* event cycles of DECODE_BUFFER are kept relative to the current cycle.   *)
(*                                                                         *)
(* The trace is a walk through Code, chosen as it is read.  The predictor  *)
(* says anything.  L1I answers a line it has accepted at some time, and    *)
(* the rest of the core executes instructions of ROB in any order.         *)
(***************************************************************************)
EXTENDS Integers, SequencesExt, FiniteSetsExt

CONSTANTS
    Code,                           \* ip -> [line, branch, next]
    IfetchSize, DecodeSize, RobSize,    \* SIZE of IFETCH_BUFFER, DECODE_BUFFER, ROB
    FetchWidth, DecodeWidth, RetireWidth,
    DecodeLatency,                  \* DECODE_LATENCY after the warm-up
    BtbSet, BtbWay,                 \* BTB_SET, BTB_WAY
    WarmUp,                         \* warmup_instructions
    MaxInstr                        \* bound: length of the trace

Ip == DOMAIN Code
Line == {Code[ip].line : ip \in Ip}

\* How an instruction may branch: not at all; with a target decode knows (direct
\* jumps and calls are always taken, conditional branches are or are not); with
\* a target that only execution knows (indirect ones and returns are taken, what
\* fits no other type is or is not, as the trace says).
ASSUME CodeAssumption ==
    /\ Ip \subseteq Nat \ {0}
    /\ \A ip \in Ip :
          /\ Code[ip].branch \in {"none", "direct", "conditional", "indirect", "other"}
          /\ Code[ip].next \subseteq Ip /\ Code[ip].next # {}
ASSUME FrontEndAssumption ==
    /\ {IfetchSize, DecodeSize, RobSize, FetchWidth, DecodeWidth, RetireWidth,
        BtbSet, BtbWay} \subseteq Nat \ {0}
    /\ {DecodeLatency, WarmUp, MaxInstr} \subseteq Nat

VARIABLES
    stage,              \* where the cycle is
    instrs_to_read,     \* instrs_to_read_this_cycle, less those read
    instr_unique_id,    \* the number of the next instruction
    next_instr,         \* the record of the trace that is read already: its ip
    ifetch, decode, rob,            \* the entries of the three buffers
    num_retired, warmup_complete,
    fetch_stall, fetch_resume,      \* fetch_resume_cycle, from now; None is 0
    btb,                            \* the sets of BTB, most recently used first
    l1i, processed,                 \* lines L1I works for; L1I.PROCESSED
    lastTarget                      \* history: where each branch went last

buffers == <<ifetch, decode, rob>>
trace == <<instrs_to_read, instr_unique_id, next_instr>>
stall == <<fetch_stall, fetch_resume>>
vars == <<stage, trace, buffers, num_retired, warmup_complete, stall, btb, l1i,
          processed, lastTarget>>

None == -1
Smaller(a, b) == IF a <= b THEN a ELSE b
Dropped(seq, n) == SubSeq(seq, n + 1, Len(seq))

Init ==
    /\ stage = "retire" /\ instrs_to_read = 0
    /\ instr_unique_id = 0 /\ next_instr = None
    /\ ifetch = <<>> /\ decode = <<>> /\ rob = <<>>
    /\ num_retired = 0 /\ warmup_complete = FALSE
    /\ fetch_stall = FALSE /\ fetch_resume = None
    /\ btb = [s \in 0..(BtbSet - 1) |-> <<>>]
    /\ l1i = {} /\ processed = <<>>
    /\ lastTarget = [ip \in Ip |-> None]

-----------------------------------------------------------------------------
(* The branch target buffer.                                               *)

SetOf(ip) == btb[ip % BtbSet]
Ways(ip) == {k \in DOMAIN SetOf(ip) : SetOf(ip)[k].ip = ip}
BtbHit(ip) == Ways(ip) # {}
BtbTarget(ip) == SetOf(ip)[CHOOSE k \in Ways(ip) : TRUE].target

\* btb_update_replacement_state on a hit: the way becomes the most recent one.
Used(ip) ==
    LET k == CHOOSE k \in Ways(ip) : TRUE
    IN  [btb EXCEPT ![ip % BtbSet] = <<@[k]>> \o RemoveAt(@, k)]

\* Fault: a branch that has an entry keeps its old target.
FillBtbFault(ip, target) ==
    IF BtbHit(ip) THEN btb
    ELSE [btb EXCEPT ![ip % BtbSet] =
            SubSeq(<<[ip |-> ip, target |-> target]>> \o @, 1, Smaller(BtbWay, Len(@) + 1))]

\* fill_btb: a new entry takes the place of the least recently used one.
FillBtb(ip, target) ==
    IF BtbHit(ip)
    THEN LET k == CHOOSE k \in Ways(ip) : TRUE
         IN  [btb EXCEPT ![ip % BtbSet][k].target = target]
    ELSE [btb EXCEPT ![ip % BtbSet] =
            SubSeq(<<[ip |-> ip, target |-> target]>> \o @, 1, Smaller(BtbWay, Len(@) + 1))]

-----------------------------------------------------------------------------
(* Retirement and completion.                                              *)

\* retire_rob
Retire ==
    LET Done(k) == \A j \in 1..k : rob[j].executed
        n == Max({k \in 0..Smaller(RetireWidth, Len(rob)) : Done(k)})
    IN  /\ stage = "retire" /\ stage' = "complete"
        /\ rob' = Dropped(rob, n) /\ num_retired' = num_retired + n
        /\ UNCHANGED <<trace, ifetch, decode, warmup_complete, stall, btb, l1i,
                       processed, lastTarget>>

\* complete_execution of a branch that reading may wait for.
Execute(n) ==
    \E k \in DOMAIN rob :
        LET e == rob[k]
            resolves == e.branch_mispredicted \/ e.btb_miss
        IN  /\ stage = "complete" /\ e.n = n /\ ~e.executed
            /\ rob' = [rob EXCEPT ![k].executed = TRUE]
            /\ fetch_resume' = IF resolves /\ warmup_complete THEN 1 ELSE fetch_resume
            /\ btb' = IF resolves /\ e.taken THEN FillBtb(e.ip, e.target) ELSE btb
            /\ UNCHANGED <<stage, trace, ifetch, decode, num_retired, warmup_complete,
                           fetch_stall, l1i, processed, lastTarget>>

\* Fault: only the oldest instruction of the line is marked.
DeliveredFault(lines) ==
    LET first == {k \in DOMAIN ifetch : /\ ifetch[k].line \in lines
                                        /\ \A j \in 1..(k - 1) : ifetch[j].line # ifetch[k].line}
    IN  [k \in DOMAIN ifetch |->
            IF k \in first THEN [ifetch[k] EXCEPT !.fetched = "completed"] ELSE ifetch[k]]

\* complete_instr_fetch: every instruction of the line has been fetched, one
\* that has not asked for it too.
Delivered(lines) ==
    [k \in DOMAIN ifetch |->
        IF ifetch[k].line \in lines THEN [ifetch[k] EXCEPT !.fetched = "completed"]
        ELSE ifetch[k]]

\* update_rob, which a cycle calls three times, each for one answer of L1I.
UpdateRob ==
    LET n == Smaller(3, Len(processed))
    IN  /\ stage = "complete" /\ stage' = "decode"
        /\ ifetch' = Delivered({processed[k] : k \in 1..n})
        /\ processed' = Dropped(processed, n)
        /\ UNCHANGED <<trace, decode, rob, num_retired, warmup_complete, stall, btb,
                       l1i, lastTarget>>

-----------------------------------------------------------------------------
(* Decode.                                                                 *)

Undecoded == DecodeLatency + 2      \* event_cycle == 0
Ready(e) == ~warmup_complete \/ e.wait = 0

\* Fault: decode resumes reading after a misprediction too.
ResolvedByDecodeFault(e) == e.btb_miss /\ e.branch \in {"direct", "conditional"}

\* Decode knows the target.
ResolvedByDecode(e) ==
    e.btb_miss /\ ~e.branch_mispredicted /\ e.branch \in {"direct", "conditional"}

\* The first loop of decode_and_dispatch: up to DECODE_WIDTH instructions.
Dispatched ==
    LET most == Smaller(DecodeWidth, Smaller(Len(decode), RobSize - Len(rob)))
    IN  Max({k \in 0..most : \A j \in 1..k : Ready(decode[j])})

\* Its second loop: the next DECODE_WIDTH instructions pay the latency.  When
\* the buffer is full (head == tail) the loop ends at the first instruction.
Stamped(buffer) ==
    LET undecoded == {k \in DOMAIN buffer : buffer[k].wait = Undecoded}
        last == IF Len(buffer) = DecodeSize THEN 1 ELSE Len(buffer)
        turn == {k \in undecoded : /\ k <= last
                                   /\ Cardinality({j \in undecoded : j < k}) < DecodeWidth}
        latency == IF warmup_complete THEN DecodeLatency ELSE 0
    IN  [k \in DOMAIN buffer |->
            IF k \in turn THEN [buffer[k] EXCEPT !.wait = latency + 1] ELSE buffer[k]]

DecodeAndDispatch ==
    LET n == Dispatched
        moved == SubSeq(decode, 1, n)
        known == {e \in ToSet(moved) : ResolvedByDecode(e)}
        branch == CHOOSE e \in known : TRUE
    IN  /\ stage = "decode" /\ stage' = "fetch"
        /\ rob' = rob \o [k \in 1..n |->
                            IF ResolvedByDecode(moved[k])
                            THEN [moved[k] EXCEPT !.btb_miss = FALSE] ELSE moved[k]]
        /\ decode' = Stamped(Dropped(decode, n))
        /\ fetch_resume' = IF known # {} /\ warmup_complete THEN 1 ELSE fetch_resume
        /\ btb' = IF known # {} THEN FillBtb(branch.ip, branch.target) ELSE btb
        /\ UNCHANGED <<trace, ifetch, num_retired, warmup_complete, fetch_stall,
                       l1i, processed, lastTarget>>

-----------------------------------------------------------------------------
(* Fetch.                                                                  *)

\* L1I.add_rq for an instruction that has not been asked for.  The whole line
\* is INFLIGHT then, the instructions that had been fetched already too.
SendRead(line) ==
    /\ stage = "fetch"
    /\ \E k \in DOMAIN ifetch : ifetch[k].line = line /\ ifetch[k].fetched = "no"
    /\ l1i' = l1i \cup {line}
    /\ ifetch' = [k \in DOMAIN ifetch |->
                    IF ifetch[k].line = line THEN [ifetch[k] EXCEPT !.fetched = "inflight"]
                    ELSE ifetch[k]]
    /\ UNCHANGED <<stage, trace, decode, rob, num_retired, warmup_complete, stall, btb,
                   processed, lastTarget>>

\* operate_cache, between two calls of update_rob: L1I answers a line it has
\* accepted; requests for a line that it works for have been merged.
Answer(line) ==
    /\ stage = "complete" /\ line \in l1i
    /\ l1i' = l1i \ {line} /\ processed' = Append(processed, line)
    /\ UNCHANGED <<stage, trace, buffers, num_retired, warmup_complete, stall, btb,
                   lastTarget>>

\* The start and the end of fetch_instruction: reading resumes, and up to
\* DECODE_WIDTH fetched instructions go on to DECODE_BUFFER.
FetchInstruction ==
    LET most == Smaller(DecodeWidth, Smaller(Len(ifetch), DecodeSize - Len(decode)))
        n == Max({k \in 0..most : \A j \in 1..k : ifetch[j].fetched = "completed"})
        resumes == fetch_stall /\ fetch_resume = 0
    IN  /\ stage = "fetch" /\ stage' = "read"
        /\ instrs_to_read' = FetchWidth
        /\ decode' = decode \o SubSeq(ifetch, 1, n) /\ ifetch' = Dropped(ifetch, n)
        /\ fetch_stall' = (fetch_stall /\ ~resumes)
        /\ fetch_resume' = IF resumes THEN None ELSE fetch_resume
        /\ UNCHANGED <<instr_unique_id, next_instr, rob, num_retired, warmup_complete,
                       btb, l1i, processed, lastTarget>>

-----------------------------------------------------------------------------
(* read_from_trace.                                                        *)

CanRead ==
    /\ stage = "read" /\ ~fetch_stall /\ instrs_to_read > 0
    /\ Len(ifetch) < IfetchSize /\ instr_unique_id < MaxInstr

Outcomes(ip) ==
    CASE Code[ip].branch = "none" -> {FALSE}
      [] Code[ip].branch \in {"conditional", "other"} -> BOOLEAN
      [] OTHER -> {TRUE}

\* A taken branch that BTB does not know, or knows with another target.
MissesBtb(ip, taken, target) == taken /\ (~BtbHit(ip) \/ BtbTarget(ip) # target)

\* One instruction, with a record of the trace beyond it.  The first record is
\* used twice: for instruction 0, with itself as next_instr, and for 1.
ReadInstr(ip, target, taken, prediction) ==
    LET e == Code[ip]
        branch == e.branch # "none"
        miss == branch /\ warmup_complete /\ MissesBtb(ip, taken, target)
        mispredicted == branch /\ warmup_complete /\ taken # prediction
        correctly_taken == prediction /\ taken
    IN  /\ CanRead
        /\ ip = next_instr \/ (instr_unique_id = 0 /\ target = ip)
        /\ instr_unique_id = 0 \/ target \in e.next
        /\ taken \in Outcomes(ip) /\ (prediction => branch)
        /\ ifetch' = Append(ifetch,
              [n |-> instr_unique_id, ip |-> ip, line |-> e.line, branch |-> e.branch,
               taken |-> taken, target |-> target, branch_mispredicted |-> mispredicted,
               btb_miss |-> miss, fetched |-> "no", wait |-> Undecoded, executed |-> FALSE])
        /\ instr_unique_id' = instr_unique_id + 1 /\ next_instr' = target
        /\ fetch_stall' = (miss \/ mispredicted)
        /\ instrs_to_read' = IF miss \/ mispredicted \/ correctly_taken THEN 0
                             ELSE instrs_to_read - 1
        /\ btb' = IF branch /\ BtbHit(ip) /\ ~MissesBtb(ip, taken, target)
                  THEN Used(ip) ELSE btb
        /\ lastTarget' = IF branch /\ taken /\ warmup_complete
                         THEN [lastTarget EXCEPT ![ip] = target] ELSE lastTarget
        /\ UNCHANGED <<stage, decode, rob, num_retired, warmup_complete, fetch_resume,
                       l1i, processed>>

\* The end of the cycle: the check for the end of the warm-up.
EndCycle ==
    LET Earlier(x) == IF x > 0 THEN x - 1 ELSE x
    IN  /\ stage = "read" /\ ~CanRead /\ stage' = "retire"
        /\ fetch_resume' = Earlier(fetch_resume)
        /\ decode' = [k \in DOMAIN decode |->
                        IF decode[k].wait = Undecoded THEN decode[k]
                        ELSE [decode[k] EXCEPT !.wait = Earlier(@)]]
        /\ warmup_complete' = (warmup_complete \/ num_retired > WarmUp)
        /\ UNCHANGED <<trace, ifetch, rob, num_retired, fetch_stall, btb, l1i, processed,
                       lastTarget>>

-----------------------------------------------------------------------------
Read == \E ip, target \in Ip, taken, prediction \in BOOLEAN :
            ReadInstr(ip, target, taken, prediction)

Cycle == Retire \/ UpdateRob \/ DecodeAndDispatch \/ FetchInstruction \/ Read \/ EndCycle

Next ==
    \/ Cycle
    \/ \E n \in 0..(MaxInstr - 1) : Execute(n)
    \/ \E line \in Line : SendRead(line) \/ Answer(line)

Spec == Init /\ [][Next]_vars

\* The loop of main goes round for ever and takes every stage.  A read that L1I
\* refuses is sent again in every cycle, L1I operates in every cycle, and so do
\* the execution units: none of them is passed by for ever.
FairSpec ==
    /\ Spec /\ WF_vars(Cycle)
    /\ SF_vars(\E n \in 0..(MaxInstr - 1) : Execute(n))
    /\ SF_vars(\E line \in Line : SendRead(line))
    /\ SF_vars(\E line \in Line : Answer(line))

-----------------------------------------------------------------------------
(* Properties.                                                             *)

\* Entries of the buffers that wait for somebody to resume reading.
Unresolved ==
    {e \in ToSet(ifetch) \cup ToSet(decode) \cup {x \in ToSet(rob) : ~x.executed} :
        e.branch_mispredicted \/ e.btb_miss}

\* Reading is stalled exactly while one branch, and never a second one, is
\* unresolved, or has been resolved and the cycle to resume in is known; that
\* cycle is never left over from an earlier branch.
StallExplained ==
    IF fetch_stall
    THEN Cardinality(Unresolved) + (IF fetch_resume = None THEN 0 ELSE 1) = 1
    ELSE Unresolved = {} /\ fetch_resume = None

\* While no branch is unresolved, BTB holds for each branch it knows the target
\* the branch had when it was last taken, however its entry was filled: by
\* decode or by execution, as a new entry or over an old target.
BtbUpToDate ==
    Unresolved = {} =>
        \A ip \in Ip : BtbHit(ip) => BtbTarget(ip) = lastTarget[ip]

\* The trace goes on to its end: no stall lasts, and no instruction waits for
\* ever for a line, a decoder or ROB.
TraceRetires == <>(num_retired = MaxInstr)
=============================================================================
