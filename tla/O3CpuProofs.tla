----------------------------- MODULE O3CpuProofs -----------------------------
(***************************************************************************)
(* O3Cpu for every size of its arrays and every program: loads get the     *)
(* data of program order and are completed once, num_mem_ops is exact, SQ  *)
(* keeps program order, and instructions wait for their producers.         *)
(*                                                                         *)
(* The inductive invariant names, for each entry of ROB, LQ and SQ, what   *)
(* the other arrays hold about it.  The runs' properties count; the        *)
(* invariant says who is counted: a load without a producer is in one of   *)
(* RTL0 and L1D, one with a producer is noted by it; an executed           *)
(* instruction has nothing left in LQ, and its stores are executed.        *)
(***************************************************************************)
EXTENDS O3Cpu, FiniteSetTheorems, SequenceTheorems, WellFoundedInduction, TLAPS

IsYoungest(p, S) == p \in S /\ \A q \in S : q <= p

\* The older instructions in ROB that write register r, or address a.
Writers(i, r) == {q \in head..(i - 1) : r \in rob[q].op.dst}
Storers(i, a) == {q \in head..(i - 1) : a \in rob[q].op.stores}

\* Memory operations that LQ and SQ still have for instruction i.
LoadsOf(i) == {s \in LqSlots : lq[s].id = i}
StoresLeft(i) == {a \in rob[i].op.stores : ~StoreExecuted(i, a)}

EntryInv(i) ==
    /\ rob[i].loaded \subseteq rob[i].op.loads
    /\ rob[i].stored \subseteq rob[i].op.stores
    /\ rob[i].lq_index \in [rob[i].op.loads -> LqSlots \cup {None}]
    /\ \A a \in rob[i].loaded : rob[i].lq_index[a] \in LqSlots
    /\ rob[i].dependents \subseteq (i + 1)..(next - 1)
    /\ rob[i].executed =>
          /\ Ready(i) /\ rob[i].loaded = rob[i].op.loads
          /\ LoadsOf(i) = {} /\ StoresLeft(i) = {}

\* A scheduled instruction waits for the youngest writer of a source register
\* until that one is executed.
RawInv ==
    \A i \in InRob : rob[i].scheduled =>
        \A r \in rob[i].op.src : \A p \in InRob :
            IsYoungest(p, Writers(i, r)) => rob[p].executed \/ <<p, r>> \in rob[i].waits

LoadUsed(s) == lq[s] # FreeLoad

LoadInv(s) ==
    LET i == lq[s].id
        a == lq[s].address
        p == lq[s].producer
    IN  LoadUsed(s) =>
          /\ i \in InRob /\ a \in rob[i].loaded /\ rob[i].lq_index[a] = s
          /\ p = None => Storers(i, a) = {}
          /\ p # None => /\ IsYoungest(p, Storers(i, a)) /\ ~StoreExecuted(p, a)
                         /\ i \in rob[p].dependents

InRtl(s) == \E k \in 1..Len(rtl) : rtl[k] = s
Distinct(q) == \A j, k \in 1..Len(q) : q[j] = q[k] => j = k

ClaimInv(s) ==
    /\ InRtl(s) \/ s \in l1d <=> LoadUsed(s) /\ lq[s].producer = None
    /\ ~(InRtl(s) /\ s \in l1d)

StoreUsed(s) == sq[s] # FreeStore

StoreInv(s) ==
    StoreUsed(s) =>
        /\ sq[s].id \in InRob /\ sq[s].address \in rob[sq[s].id].stored
        /\ \A t \in SqSlots : sq[t].id = sq[s].id /\ sq[t].address = sq[s].address => t = s
        /\ \A k \in 1..Len(sta) : sq[s].id <= sta[k]

RtsInv == \A k \in 1..Len(rts) : StoreUsed(rts[k]) /\ ~sq[rts[k]].fetched

StaInv == \A j, k \in 1..Len(sta) : sta[k] < next /\ (j <= k => sta[j] <= sta[k])

\* The slot k places back from SQ.tail; the m last ones are used.
BackSlot(k) == IF k <= sq_tail THEN sq_tail - k ELSE sq_tail + SqSize - k

Window(m) ==
    \A k \in 1..SqSize :
        /\ StoreUsed(BackSlot(k)) <=> k <= m
        /\ k < m => sq[BackSlot(k + 1)].id <= sq[BackSlot(k)].id

EntriesInv == \A i \in InRob : EntryInv(i)

LoadsInv == (\A s \in LqSlots : LoadInv(s) /\ ClaimInv(s)) /\ Distinct(rtl)

StoresInv ==
    /\ \A s \in SqSlots : StoreInv(s)
    /\ Distinct(rts) /\ RtsInv /\ StaInv
    /\ \E m \in 0..SqSize : Window(m)

IInv == TypeOK /\ EntriesInv /\ RawInv /\ LoadsInv /\ MemOpsExact /\ StoresInv

-----------------------------------------------------------------------------
(* Intervals, sequences without repetition, sets that lose members.        *)

LEMMA LeastExists ==
    ASSUME NEW S \in SUBSET Nat, S # {}
    PROVE  \E x \in S : \A y \in S : x <= y
<1>1. IsWellFoundedOn(OpToRel(<, Nat), Nat)
  BY NatLessThanWellFounded
<1>2. PICK x \in S : \A y \in S : ~(<<y, x>> \in OpToRel(<, Nat))
  BY <1>1, WFMin
<1>3. ASSUME NEW y \in S PROVE x <= y
  <2>1. y \in Nat /\ x \in Nat /\ ~(y < x)
    BY <1>2 DEF OpToRel
  <2>. QED
    BY <2>1
<1>. QED
  BY <1>3

\* The largest member is found through its distance from the end.
LEMMA LargestExists ==
    ASSUME NEW n \in Nat, NEW S \in SUBSET (0..n), S # {}
    PROVE  \E x \in S : \A y \in S : y <= x
<1>. DEFINE T == {n - y : y \in S}
<1>0. \A y \in S : y \in Nat /\ n - y \in Nat
  OBVIOUS
<1>1. T \in SUBSET Nat /\ T # {}
  BY <1>0
<1>2. PICK t \in T : \A u \in T : t <= u
  BY <1>1, LeastExists
<1>3. PICK x \in S : t = n - x
  BY <1>2
<1>4. ASSUME NEW y \in S PROVE y <= x
  <2>1. n - y \in T
    OBVIOUS
  <2>2. n - x <= n - y
    BY <1>2, <1>3, <2>1
  <2>. QED
    BY <1>0, <2>2
<1>. QED
  BY <1>4

\* Youngest and Least name the extreme member.
LEMMA YoungestIs ==
    ASSUME NEW n \in Nat, NEW S \in SUBSET (0..n)
    PROVE  IF S = {} THEN Youngest(S) = None ELSE IsYoungest(Youngest(S), S)
<1>1. CASE S = {}
  BY <1>1 DEF Youngest
<1>2. CASE S # {}
  <2>1. \E x \in S : \A y \in S : y <= x
    BY <1>2, LargestExists
  <2>2. \E x \in S : \A y \in S : x >= y
    BY <2>1
  <2>. DEFINE p == CHOOSE x \in S : \A y \in S : x >= y
  <2>3. p \in S /\ \A y \in S : p >= y
    BY <2>2
  <2>4. Youngest(S) = p
    BY <1>2 DEF Youngest
  <2>5. \A y \in S : y <= p
    BY <2>3
  <2>. QED
    BY <1>2, <2>3, <2>4, <2>5 DEF IsYoungest
<1>. QED
  BY <1>1, <1>2

LEMMA LeastIs ==
    ASSUME NEW S \in SUBSET Nat, S # {}
    PROVE  Least(S) \in S
<1>1. \E x \in S : \A y \in S : x <= y
  BY LeastExists
<1>. QED
  BY <1>1 DEF Least

LEMMA DistinctAppend ==
    ASSUME NEW S, NEW q \in Seq(S), Distinct(q), NEW x \in S,
           \A k \in 1..Len(q) : q[k] # x
    PROVE  Distinct(Append(q, x))
<1>1. /\ Len(q) \in Nat /\ Len(Append(q, x)) = Len(q) + 1
      /\ \A k \in 1..Len(q) : Append(q, x)[k] = q[k]
      /\ Append(q, x)[Len(q) + 1] = x
  OBVIOUS
<1>2. \A k \in 1..(Len(q) + 1) : k \in 1..Len(q) \/ k = Len(q) + 1
  BY <1>1
<1>. QED
  BY <1>1, <1>2 DEF Distinct

LEMMA DistinctTail ==
    ASSUME NEW S, NEW q \in Seq(S), Distinct(q), q # <<>>
    PROVE  /\ Tail(q) \in Seq(S) /\ Head(q) \in S /\ Distinct(Tail(q))
           /\ \A k \in 1..Len(Tail(q)) : Tail(q)[k] # Head(q)
<1>1. /\ Tail(q) \in Seq(S) /\ Head(q) \in S /\ Len(q) \in Nat /\ Head(q) = q[1]
      /\ Len(Tail(q)) = Len(q) - 1 /\ \A k \in 1..Len(Tail(q)) : Tail(q)[k] = q[k + 1]
  OBVIOUS
<1>2. \A k \in 1..Len(Tail(q)) : k + 1 \in 1..Len(q) /\ 1 \in 1..Len(q) /\ k + 1 # 1
  BY <1>1
<1>3. ASSUME NEW j \in 1..Len(Tail(q)), NEW k \in 1..Len(Tail(q)), Tail(q)[j] = Tail(q)[k]
      PROVE  j = k
  <2>1. j + 1 = k + 1
    BY <1>1, <1>2, <1>3 DEF Distinct
  <2>. QED
    BY <2>1
<1>4. \A k \in 1..Len(Tail(q)) : Tail(q)[k] # Head(q)
  BY <1>1, <1>2 DEF Distinct
<1>. QED
  BY <1>1, <1>3, <1>4 DEF Distinct

\* What entries and slots are made of.
LEMMA Ranges ==
    ASSUME TypeOK
    PROVE  /\ RobSize \in Nat /\ RobSize > 0 /\ LqSize \in Nat /\ LqSize > 0
           /\ SqSize \in Nat /\ SqSize > 0 /\ MaxInstr \in Nat
           /\ head \in Nat /\ next \in Nat /\ head <= next /\ next <= MaxInstr
           /\ InRob \subseteq 0..(MaxInstr - 1) /\ None \notin InRob
           /\ IsFiniteSet(LqSlots) /\ IsFiniteSet(SqSlots) /\ IsFiniteSet(InRob)
           /\ LqSlots \subseteq Nat /\ SqSlots \subseteq Nat
<1>1. /\ RobSize \in Nat /\ RobSize > 0 /\ LqSize \in Nat /\ LqSize > 0
      /\ SqSize \in Nat /\ SqSize > 0 /\ MaxInstr \in Nat
      /\ head \in Nat /\ next \in Nat /\ head <= next /\ next <= MaxInstr
  BY SizeAssumption DEF TypeOK
<1>2. IsFiniteSet(0..(LqSize - 1)) /\ IsFiniteSet(0..(SqSize - 1)) /\ IsFiniteSet(head..(next - 1))
  BY <1>1, FS_Interval
<1>. QED
  BY <1>1, <1>2 DEF InRob, LqSlots, SqSlots, None

LEMMA EntryFields ==
    ASSUME TypeOK, NEW i \in InRob
    PROVE  /\ rob[i].op \in Instr
           /\ rob[i].op.src \subseteq Reg /\ rob[i].op.dst \subseteq Reg
           /\ rob[i].op.loads \subseteq Addr /\ rob[i].op.stores \subseteq Addr
           /\ IsFiniteSet(rob[i].op.loads) /\ IsFiniteSet(rob[i].op.stores)
           /\ rob[i].scheduled \in BOOLEAN /\ rob[i].executed \in BOOLEAN
           /\ rob[i].waits \subseteq (0..(MaxInstr - 1)) \X Reg
           /\ rob[i].loaded \subseteq Addr /\ rob[i].stored \subseteq Addr
           /\ rob[i].dependents \subseteq 0..(MaxInstr - 1)
           /\ rob[i].num_mem_ops \in Nat
<1>1. rob[i] \in Entry
  BY DEF TypeOK
<1>2. rob[i].op \in Instr
  BY <1>1 DEF Entry
<1>3. IsFiniteSet(rob[i].op.loads) /\ IsFiniteSet(rob[i].op.stores)
  BY <1>2, InstrAssumption
<1>. QED
  BY <1>1, <1>2, <1>3, InstrAssumption DEF Entry

\* An entry is one of Entry when its fields have their types.
LEMMA EntryFrom ==
    ASSUME NEW e, NEW op \in Instr, NEW scheduled \in BOOLEAN, NEW executed \in BOOLEAN,
           NEW waits \in SUBSET ((0..(MaxInstr - 1)) \X Reg),
           NEW loaded \in SUBSET Addr, NEW stored \in SUBSET Addr,
           NEW index \in [op.loads -> LqSlots \cup {None}],
           NEW dependents \in SUBSET (0..(MaxInstr - 1)), NEW n \in Nat,
           e = [op |-> op, scheduled |-> scheduled, waits |-> waits, loaded |-> loaded,
                stored |-> stored, lq_index |-> index, dependents |-> dependents,
                num_mem_ops |-> n, executed |-> executed]
    PROVE  e \in Entry
<1>1. op.loads \in SUBSET Addr
  BY InstrAssumption
<1>2. index \in UNION {[A -> LqSlots \cup {None}] : A \in SUBSET Addr}
  BY <1>1
<1>. QED
  BY <1>2 DEF Entry

LEMMA FiniteParts ==
    ASSUME TypeOK, NEW i \in InRob
    PROVE  /\ IsFiniteSet(rob[i].op.loads \ rob[i].loaded)
           /\ IsFiniteSet(LoadsOf(i)) /\ IsFiniteSet(StoresLeft(i))
<1>1. IsFiniteSet(rob[i].op.loads) /\ IsFiniteSet(rob[i].op.stores) /\ IsFiniteSet(LqSlots)
  BY EntryFields, Ranges
<1>2. /\ rob[i].op.loads \ rob[i].loaded \in SUBSET rob[i].op.loads
      /\ LoadsOf(i) \in SUBSET LqSlots /\ StoresLeft(i) \in SUBSET rob[i].op.stores
  BY DEF LoadsOf, StoresLeft
<1>. QED
  BY <1>1, <1>2, FS_Subset

\* Loads and stores i has left.
Owed(i) == Cardinality(rob[i].op.loads \ rob[i].loaded)
               + Cardinality(LoadsOf(i)) + Cardinality(StoresLeft(i))

LEMMA OwedNat ==
    ASSUME TypeOK, NEW i \in InRob
    PROVE  /\ Owed(i) \in Nat
           /\ Owed(i) = 0 => LoadsOf(i) = {} /\ StoresLeft(i) = {}
<1>1. PICK a \in Nat, b \in Nat, c \in Nat :
         /\ a = Cardinality(rob[i].op.loads \ rob[i].loaded)
         /\ b = Cardinality(LoadsOf(i)) /\ c = Cardinality(StoresLeft(i))
  BY FiniteParts, FS_CardinalityType
<1>2. (b = 0 => LoadsOf(i) = {}) /\ (c = 0 => StoresLeft(i) = {})
  BY <1>1, FiniteParts, FS_EmptySet
<1>3. Owed(i) = a + b + c
  BY <1>1 DEF Owed
<1>4. a + b + c \in Nat /\ (a + b + c = 0 => b = 0 /\ c = 0)
  OBVIOUS
<1>. QED
  BY <1>2, <1>3, <1>4

LEMMA CountsAreOwed == MemOpsExact <=> \A i \in InRob : rob[i].num_mem_ops = Owed(i)
  BY DEF MemOpsExact, Owed, LoadsOf, StoresLeft

\* A used slot is one with an identifier.
LEMMA UsedById ==
    /\ \A s \in LqSlots : lq[s].id # None => LoadUsed(s)
    /\ \A s \in SqSlots : sq[s].id # None => StoreUsed(s)
  BY DEF LoadUsed, StoreUsed, FreeLoad, FreeStore

LEMMA UsedInRob ==
    ASSUME IInv
    PROVE  /\ \A s \in LqSlots : LoadUsed(s) <=> lq[s].id \in InRob
           /\ \A s \in SqSlots : StoreUsed(s) <=> sq[s].id \in InRob
<1>1. None \notin InRob
  BY Ranges DEF IInv
<1>2. ASSUME NEW s \in LqSlots PROVE LoadUsed(s) <=> lq[s].id \in InRob
  <2>1. LoadUsed(s) => lq[s].id \in InRob
    BY DEF IInv, LoadsInv, LoadInv
  <2>2. lq[s].id \in InRob => LoadUsed(s)
    BY <1>1, UsedById DEF LoadUsed, FreeLoad
  <2>. QED
    BY <2>1, <2>2
<1>3. ASSUME NEW s \in SqSlots PROVE StoreUsed(s) <=> sq[s].id \in InRob
  <2>1. StoreUsed(s) => sq[s].id \in InRob
    BY DEF IInv, StoresInv, StoreInv
  <2>2. sq[s].id \in InRob => StoreUsed(s)
    BY <1>1, UsedById DEF StoreUsed, FreeStore
  <2>. QED
    BY <2>1, <2>2
<1>. QED
  BY <1>2, <1>3

-----------------------------------------------------------------------------
(* What a step leaves alone keeps its part of the invariant.               *)

InRobKept == head' = head /\ next' = next
OpsKept == \A k \in InRob : rob'[k].op = rob[k].op
LoadFieldsKept ==
    \A k \in InRob : rob'[k].loaded = rob[k].loaded /\ rob'[k].lq_index = rob[k].lq_index
                         /\ rob'[k].dependents = rob[k].dependents
StoreFieldsKept == \A k \in InRob : rob'[k].stored = rob[k].stored
RunFieldsKept ==
    \A k \in InRob : rob'[k].scheduled = rob[k].scheduled /\ rob'[k].waits = rob[k].waits
                         /\ rob'[k].executed = rob[k].executed
CountsKept == \A k \in InRob : rob'[k].num_mem_ops = rob[k].num_mem_ops
ExecutedKept == \A p, a : StoreExecuted(p, a)' <=> StoreExecuted(p, a)

LEMMA RawFrame ==
    ASSUME TypeOK, RawInv, InRobKept, OpsKept, RunFieldsKept
    PROVE  RawInv'
<1>1. InRob' = InRob
  BY DEF InRobKept, InRob
<1>2. ASSUME NEW i \in InRob, NEW r PROVE Writers(i, r)' = Writers(i, r)
  <2>1. \A q \in head..(i - 1) : q \in InRob
    BY Ranges DEF InRob
  <2>. QED
    BY <2>1 DEF Writers, InRobKept, OpsKept
<1>. QED
  BY <1>1, <1>2 DEF RawInv, OpsKept, RunFieldsKept, IsYoungest

LEMMA StoresFrame ==
    ASSUME StoresInv, InRobKept, StoreFieldsKept, UNCHANGED <<sq, sq_tail, sta, rts>>
    PROVE  StoresInv'
<1>1. \A s \in SqSlots : StoreInv(s)'
  BY DEF StoresInv, StoreInv, StoreUsed, InRobKept, StoreFieldsKept, InRob
<1>2. Distinct(rts)' /\ RtsInv' /\ StaInv'
  BY DEF StoresInv, Distinct, RtsInv, StaInv, StoreUsed, InRobKept
<1>3. \E m \in 0..SqSize : Window(m)'
  BY DEF StoresInv, Window, BackSlot, StoreUsed
<1>. QED
  BY <1>1, <1>2, <1>3 DEF StoresInv

LEMMA ExecutedFrame == sq' = sq => ExecutedKept
  BY DEF ExecutedKept, StoreExecuted, Forwards

\* The claims on a slot are a matter of LQ, RTL0 and L1D alone.
LEMMA ClaimsFrame ==
    ASSUME LoadsInv, UNCHANGED <<lq, rtl, l1d>>
    PROVE  (\A s \in LqSlots : ClaimInv(s)') /\ Distinct(rtl)'
  BY DEF LoadsInv, ClaimInv, InRtl, LoadUsed, Distinct

LEMMA LoadsFrame ==
    ASSUME TypeOK, EntriesInv, LoadsInv, InRobKept, OpsKept, LoadFieldsKept, ExecutedKept,
           UNCHANGED <<lq, rtl, l1d>>
    PROVE  LoadsInv'
<1>1. ASSUME NEW s \in LqSlots PROVE LoadInv(s)'
  <2>. SUFFICES ASSUME LoadUsed(s) PROVE LoadInv(s)'
    BY DEF LoadInv, LoadUsed
  <2>1. PICK i, a, p : i = lq[s].id /\ a = lq[s].address /\ p = lq[s].producer
    OBVIOUS
  <2>2. /\ i \in InRob /\ a \in rob[i].loaded /\ rob[i].lq_index[a] = s
        /\ p = None => Storers(i, a) = {}
        /\ p # None => /\ IsYoungest(p, Storers(i, a)) /\ ~StoreExecuted(p, a)
                       /\ i \in rob[p].dependents
    BY <2>1 DEF LoadsInv, LoadInv
  <2>3. InRob' = InRob /\ head' = head /\ Storers(i, a) \subseteq InRob
    BY <2>2, Ranges DEF InRobKept, InRob, Storers
  <2>4. Storers(i, a)' = Storers(i, a)
    <3>1. \A q \in head..(i - 1) : rob'[q].op = rob[q].op
      BY <2>2, Ranges DEF OpsKept, InRob
    <3>. QED
      BY <2>3, <3>1 DEF Storers
  <2>5. p # None => p \in InRob
    BY <2>2, <2>3 DEF IsYoungest
  <2>. QED
    BY <2>1, <2>2, <2>3, <2>4, <2>5 DEF LoadInv, LoadFieldsKept, ExecutedKept, IsYoungest
<1>. QED
  BY <1>1, ClaimsFrame DEF LoadsInv

LEMMA CountsFrame ==
    ASSUME MemOpsExact, InRobKept, OpsKept, LoadFieldsKept, CountsKept, ExecutedKept, lq' = lq
    PROVE  /\ MemOpsExact'
           /\ \A k \in InRob : LoadsOf(k)' = LoadsOf(k) /\ StoresLeft(k)' = StoresLeft(k)
<1>1. InRob' = InRob
  BY DEF InRobKept, InRob
<1>2. ASSUME NEW k \in InRob
      PROVE  /\ LoadsOf(k)' = LoadsOf(k) /\ StoresLeft(k)' = StoresLeft(k)
             /\ Owed(k)' = Owed(k)
  <2>1. LoadsOf(k)' = LoadsOf(k) /\ StoresLeft(k)' = StoresLeft(k)
    BY DEF LoadsOf, StoresLeft, OpsKept, ExecutedKept
  <2>2. (rob[k].op.loads \ rob[k].loaded)' = rob[k].op.loads \ rob[k].loaded
    BY DEF OpsKept, LoadFieldsKept
  <2>. QED
    BY <2>1, <2>2 DEF Owed
<1>3. \A k \in InRob : rob[k].num_mem_ops = Owed(k)
  BY CountsAreOwed
<1>4. \A k \in InRob' : rob'[k].num_mem_ops = Owed(k)'
  BY <1>1, <1>2, <1>3 DEF CountsKept
<1>5. MemOpsExact'
  BY <1>4 DEF MemOpsExact, Owed, LoadsOf, StoresLeft
<1>. QED
  BY <1>2, <1>5

-----------------------------------------------------------------------------
(* Each action keeps the invariant. *)

LEMMA InitInv == Init => IInv
<1>. SUFFICES ASSUME Init PROVE IInv
  OBVIOUS
<1>1. InRob = {}
  BY DEF Init, InRob
<1>2. TypeOK
  <2>1. lq \in [LqSlots -> [id : {None} \cup 0..(MaxInstr - 1), address : {None} \cup Addr,
                           producer : {None} \cup 0..(MaxInstr - 1)]]
    BY DEF Init, FreeLoad
  <2>2. sq \in [SqSlots -> [id : {None} \cup 0..(MaxInstr - 1), address : {None} \cup Addr,
                           fetched : BOOLEAN]]
    BY DEF Init, FreeStore
  <2>3. sq_tail \in SqSlots
    BY SizeAssumption DEF Init, SqSlots
  <2>4. /\ head \in 0..MaxInstr /\ next \in head..MaxInstr /\ next - head <= RobSize
        /\ DOMAIN rob = {}
    BY SizeAssumption DEF Init
  <2>5. sta \in Seq(0..(MaxInstr - 1)) /\ rtl \in Seq(LqSlots) /\ rts \in Seq(SqSlots)
    BY DEF Init
  <2>. QED
    BY <1>1, <2>1, <2>2, <2>3, <2>4, <2>5 DEF TypeOK, Init
<1>3. EntriesInv /\ RawInv /\ MemOpsExact
  BY <1>1 DEF EntriesInv, RawInv, MemOpsExact
<1>4. LoadsInv
  <2>1. \A s \in LqSlots : lq[s] = FreeLoad
    BY DEF Init
  <2>2. Len(rtl) = 0 /\ l1d = {} /\ \A k \in 1..Len(rtl) : FALSE
    BY DEF Init
  <2>. QED
    BY <2>1, <2>2 DEF LoadsInv, LoadInv, ClaimInv, LoadUsed, InRtl, Distinct
<1>5. StoresInv
  <2>1. \A s \in SqSlots : ~StoreUsed(s)
    BY DEF Init, StoreUsed
  <2>2. \A k \in 1..Len(rts) : FALSE
    BY DEF Init
  <2>3. \A k \in 1..Len(sta) : FALSE
    BY DEF Init
  <2>4. Window(0)
    <3>1. ASSUME NEW k \in 1..SqSize PROVE BackSlot(k) \in SqSlots /\ ~(k <= 0) /\ ~(k < 0)
      BY SizeAssumption DEF Init, BackSlot, SqSlots
    <3>. QED
      BY <2>1, <3>1 DEF Window
  <2>5. 0 \in 0..SqSize
    BY SizeAssumption
  <2>. QED
    BY <2>1, <2>2, <2>3, <2>4, <2>5 DEF StoresInv, StoreInv, RtsInv, StaInv, Distinct
<1>. QED
  BY <1>2, <1>3, <1>4, <1>5 DEF IInv

\* Schedule and Complete change what decides when an instruction runs, and
\* nothing in the queues.
LEMMA QueuesFrame ==
    ASSUME IInv, InRobKept, OpsKept, LoadFieldsKept, StoreFieldsKept, CountsKept,
           UNCHANGED <<lq, sq, sq_tail, sta, rtl, rts, l1d>>,
           DOMAIN rob' = InRob', \A k \in InRob : rob'[k] \in Entry,
           \A k \in InRob : rob'[k].executed =>
               Ready(k)' /\ (rob[k].executed \/ OpsComplete(k))
    PROVE  TypeOK' /\ EntriesInv' /\ LoadsInv' /\ MemOpsExact' /\ StoresInv'
<1>0. ExecutedKept /\ InRob' = InRob
  BY ExecutedFrame DEF InRobKept, InRob
<1>1. TypeOK'
  BY <1>0 DEF IInv, TypeOK, InRobKept, InRob, Entry
<1>2. StoresInv'
  BY StoresFrame DEF IInv
<1>3. LoadsInv'
  BY <1>0, LoadsFrame DEF IInv
<1>4. /\ MemOpsExact'
      /\ \A k \in InRob : LoadsOf(k)' = LoadsOf(k) /\ StoresLeft(k)' = StoresLeft(k)
  BY <1>0, CountsFrame DEF IInv
<1>5. ASSUME NEW k \in InRob PROVE EntryInv(k)'
  <2>1. EntryInv(k)
    BY DEF IInv, EntriesInv
  <2>2. OpsComplete(k) =>
            /\ rob[k].loaded = rob[k].op.loads
            /\ LoadsOf(k) = {} /\ StoresLeft(k) = {}
    BY OwedNat, CountsAreOwed DEF IInv, OpsComplete
  <2>3. rob'[k].executed =>
            /\ Ready(k)' /\ rob[k].loaded = rob[k].op.loads
            /\ LoadsOf(k) = {} /\ StoresLeft(k) = {}
    BY <2>1, <2>2 DEF EntryInv
  <2>. QED
    BY <1>4, <2>1, <2>3
    DEF EntryInv, InRobKept, OpsKept, LoadFieldsKept, StoreFieldsKept
<1>. QED
  BY <1>0, <1>1, <1>2, <1>3, <1>4, <1>5 DEF EntriesInv

\* reg_dependency waits for the youngest writer, unless that one is executed.
LEMMA RegDependencyIs ==
    ASSUME TypeOK, NEW i \in InRob, NEW r \in rob[i].op.src, NEW p \in InRob,
           IsYoungest(p, Writers(i, r)), ~rob[p].executed
    PROVE  <<p, r>> \in RegDependency(i)
<1>. DEFINE U == {q \in head..(i - 1) : ~rob[q].executed /\ r \in rob[q].op.dst}
<1>1. U \in SUBSET (0..next)
  BY Ranges DEF InRob
<1>2. p \in U /\ U \subseteq Writers(i, r)
  BY DEF IsYoungest, Writers
<1>3. RegProducer(i, r) \in U /\ \A q \in U : q <= RegProducer(i, r)
  BY <1>1, <1>2, Ranges, YoungestIs DEF IsYoungest, RegProducer
<1>4. RegProducer(i, r) = p
  <2>1. RegProducer(i, r) <= p /\ p <= RegProducer(i, r)
    BY <1>2, <1>3 DEF IsYoungest
  <2>2. p \in Int /\ RegProducer(i, r) \in Int
    BY <1>1, <1>2, <1>3
  <2>. QED
    BY <2>1, <2>2
<1>. QED
  BY <1>2, <1>4 DEF RegDependency

LEMMA RegDependencyType ==
    ASSUME TypeOK, NEW i \in InRob
    PROVE  RegDependency(i) \in SUBSET ((0..(MaxInstr - 1)) \X Reg)
<1>1. head..(i - 1) \subseteq 0..(MaxInstr - 1) /\ rob[i].op.src \subseteq Reg
  BY Ranges, EntryFields DEF InRob
<1>. QED
  BY <1>1 DEF RegDependency

LEMMA ScheduleInv ==
    ASSUME IInv, NEW i \in InRob, Schedule(i)
    PROVE  IInv'
<1>0. TypeOK /\ DOMAIN rob = InRob /\ InRobKept /\ InRob' = InRob /\ RegDependency(i) = RegDependency(i)
  BY DEF IInv, TypeOK, Schedule, InRobKept, InRob
<1>1. /\ OpsKept /\ LoadFieldsKept /\ StoreFieldsKept /\ CountsKept
      /\ \A k \in InRob : rob'[k].executed = rob[k].executed
      /\ DOMAIN rob' = InRob'
      /\ \A k \in InRob \ {i} : rob'[k] = rob[k]
      /\ rob'[i].scheduled /\ rob'[i].waits = RegDependency(i)
  <2>1. \A k \in InRob \ {i} : rob'[k] = rob[k]
    BY <1>0 DEF Schedule
  <2>2. rob[i] \in Entry
    BY <1>0 DEF TypeOK
  <2>3. rob'[i] = [rob[i] EXCEPT !.scheduled = TRUE, !.waits = RegDependency(i)]
    BY <1>0 DEF Schedule
  <2>4. /\ rob'[i].op = rob[i].op /\ rob'[i].loaded = rob[i].loaded
        /\ rob'[i].stored = rob[i].stored /\ rob'[i].lq_index = rob[i].lq_index
        /\ rob'[i].dependents = rob[i].dependents
        /\ rob'[i].num_mem_ops = rob[i].num_mem_ops /\ rob'[i].executed = rob[i].executed
        /\ rob'[i].scheduled /\ rob'[i].waits = RegDependency(i)
    BY <2>2, <2>3 DEF Entry
  <2>5. DOMAIN rob' = InRob'
    BY <1>0 DEF Schedule
  <2>. QED
    BY <2>1, <2>4, <2>5
    DEF OpsKept, LoadFieldsKept, StoreFieldsKept, CountsKept
<1>2. \A k \in InRob : rob'[k] \in Entry
  <2>1. rob[i] \in Entry
    BY <1>0 DEF TypeOK
  <2>2. [rob[i] EXCEPT !.scheduled = TRUE, !.waits = RegDependency(i)] \in Entry
    BY <1>0, <2>1, RegDependencyType DEF Entry
  <2>3. rob'[i] = [rob[i] EXCEPT !.scheduled = TRUE, !.waits = RegDependency(i)]
    BY <1>0 DEF Schedule
  <2>. QED
    BY <1>0, <1>1, <2>2, <2>3 DEF TypeOK
<1>3. ASSUME NEW k \in InRob, rob'[k].executed PROVE Ready(k)' /\ rob[k].executed
  <2>1. rob[k].executed /\ Ready(k)
    BY <1>1, <1>3 DEF IInv, EntriesInv, EntryInv
  <2>2. k # i
    BY <2>1 DEF Schedule, Ready
  <2>. QED
    BY <1>1, <2>1, <2>2 DEF Ready
<1>4. UNCHANGED <<lq, sq, sq_tail, sta, rtl, rts, l1d>>
  BY DEF Schedule
<1>5. TypeOK' /\ EntriesInv' /\ LoadsInv' /\ MemOpsExact' /\ StoresInv'
  BY <1>0, <1>1, <1>2, <1>3, <1>4, QueuesFrame
<1>6. RawInv'
  <2>. SUFFICES ASSUME NEW k \in InRob, rob'[k].scheduled, NEW r \in rob[k].op.src, NEW p \in InRob,
                       IsYoungest(p, Writers(k, r))
                PROVE  rob[p].executed \/ <<p, r>> \in rob'[k].waits
    <3>1. ASSUME NEW k \in InRob, NEW r PROVE Writers(k, r)' = Writers(k, r)
      <4>1. \A q \in head..(k - 1) : q \in InRob
        BY <1>0, Ranges DEF InRob
      <4>. QED
        BY <1>0, <1>1, <4>1 DEF Writers, InRobKept, OpsKept
    <3>. QED
      BY <1>0, <1>1, <3>1 DEF RawInv, IsYoungest, OpsKept
  <2>1. CASE k = i
    BY <1>0, <1>1, <2>1, RegDependencyIs
  <2>2. CASE k # i
    BY <1>1, <2>2 DEF IInv, RawInv
  <2>. QED
    BY <2>1, <2>2
<1>. QED
  BY <1>5, <1>6 DEF IInv

LEMMA CompleteInv ==
    ASSUME IInv, NEW i \in InRob, Complete(i)
    PROVE  IInv'
<1>0. /\ TypeOK /\ DOMAIN rob = InRob /\ InRobKept /\ InRob' = InRob
      /\ UNCHANGED <<lq, sq, sq_tail, sta, rtl, rts, l1d>>
  BY DEF IInv, TypeOK, Complete, InRobKept, InRob
<1>1. DOMAIN rob' = InRob' /\ Ready(i) /\ OpsComplete(i)
  BY <1>0 DEF Complete
<1>2. /\ rob'[i] = [rob[i] EXCEPT !.executed = TRUE]
      /\ \A k \in InRob \ {i} :
            rob'[k] = [rob[k] EXCEPT !.waits = {w \in rob[k].waits : w[1] # i}]
  BY DEF Complete
<1>3. \A k \in InRob : rob[k] \in Entry
  BY <1>0 DEF TypeOK
<1>3a. ASSUME NEW k \in InRob \ {i}
      PROVE  /\ rob'[k] \in Entry /\ rob'[k].op = rob[k].op /\ rob'[k].loaded = rob[k].loaded
             /\ rob'[k].stored = rob[k].stored /\ rob'[k].lq_index = rob[k].lq_index
             /\ rob'[k].dependents = rob[k].dependents
             /\ rob'[k].num_mem_ops = rob[k].num_mem_ops
             /\ rob'[k].scheduled = rob[k].scheduled
             /\ rob'[k].executed = rob[k].executed
             /\ rob'[k].waits = {w \in rob[k].waits : w[1] # i}
  <2>1. PICK W : W = {w \in rob[k].waits : w[1] # i}
    OBVIOUS
  <2>2. W \in SUBSET ((0..(MaxInstr - 1)) \X Reg)
    BY <1>0, <2>1, EntryFields
  <2>3. PICK e, f : e = rob[k] /\ f = rob'[k]
    OBVIOUS
  <2>4. e \in Entry /\ f = [e EXCEPT !.waits = W]
    BY <1>2, <1>3, <2>1, <2>3
  <2>5. /\ f \in Entry /\ f.op = e.op /\ f.loaded = e.loaded /\ f.stored = e.stored
        /\ f.lq_index = e.lq_index /\ f.dependents = e.dependents
        /\ f.num_mem_ops = e.num_mem_ops /\ f.scheduled = e.scheduled
        /\ f.executed = e.executed /\ f.waits = W
    BY <2>2, <2>4 DEF Entry
  <2>. QED
    BY <2>1, <2>3, <2>5
<1>4. ASSUME NEW k \in InRob
      PROVE  /\ rob'[k].op = rob[k].op /\ rob'[k].loaded = rob[k].loaded
             /\ rob'[k].stored = rob[k].stored /\ rob'[k].lq_index = rob[k].lq_index
             /\ rob'[k].dependents = rob[k].dependents
             /\ rob'[k].num_mem_ops = rob[k].num_mem_ops
             /\ rob'[k].scheduled = rob[k].scheduled
  <2>1. CASE k = i
    BY <1>2, <1>3, <2>1 DEF Entry
  <2>2. CASE k # i
    BY <1>3a, <2>2
  <2>. QED
    BY <2>1, <2>2
<1>5. rob'[i].executed /\ rob'[i].waits = rob[i].waits
  BY <1>2, <1>3 DEF Entry
<1>6. \A k \in InRob \ {i} :
          /\ rob'[k].executed = rob[k].executed
          /\ rob'[k].waits = {w \in rob[k].waits : w[1] # i}
  BY <1>3a
<1>7. OpsKept /\ LoadFieldsKept /\ StoreFieldsKept /\ CountsKept
  BY <1>4 DEF OpsKept, LoadFieldsKept, StoreFieldsKept, CountsKept
<1>8. \A k \in InRob : rob'[k] \in Entry
  <2>1. rob'[i] \in Entry
    BY <1>2, <1>3 DEF Entry
  <2>. QED
    BY <1>3a, <2>1
<1>9. ASSUME NEW k \in InRob, rob'[k].executed
      PROVE  Ready(k)' /\ (rob[k].executed \/ OpsComplete(k))
  <2>1. CASE k = i
    BY <1>1, <1>4, <1>5, <2>1 DEF Ready
  <2>2. CASE k # i
    <3>1. rob[k].executed /\ Ready(k)
      BY <1>6, <1>9, <2>2 DEF IInv, EntriesInv, EntryInv
    <3>. QED
      BY <1>4, <1>6, <2>2, <3>1 DEF Ready
  <2>. QED
    BY <2>1, <2>2
<1>10. TypeOK' /\ EntriesInv' /\ LoadsInv' /\ MemOpsExact' /\ StoresInv'
  BY <1>0, <1>1, <1>7, <1>8, <1>9, QueuesFrame
<1>11. RawInv'
  <2>. SUFFICES ASSUME NEW k \in InRob, rob[k].scheduled, NEW r \in rob[k].op.src, NEW p \in InRob,
                       IsYoungest(p, Writers(k, r))
                PROVE  rob'[p].executed \/ <<p, r>> \in rob'[k].waits
    <3>1. ASSUME NEW k \in InRob, NEW r PROVE Writers(k, r)' = Writers(k, r)
      <4>1. \A q \in head..(k - 1) : q \in InRob
        BY <1>0, Ranges DEF InRob
      <4>. QED
        BY <1>0, <1>4, <4>1 DEF Writers, InRobKept
    <3>. QED
      BY <1>0, <1>4, <3>1 DEF RawInv, IsYoungest
  <2>1. rob[p].executed \/ <<p, r>> \in rob[k].waits
    BY DEF IInv, RawInv
  <2>2. CASE p = i
    BY <1>5, <2>2
  <2>3. CASE p # i
    BY <1>5, <1>6, <2>1, <2>3
  <2>. QED
    BY <2>2, <2>3
<1>. QED
  BY <1>10, <1>11 DEF IInv

LEMMA ExecuteLoadInv ==
    ASSUME IInv, ExecuteLoad
    PROVE  IInv'
<1>0. /\ TypeOK /\ rtl \in Seq(LqSlots) /\ Distinct(rtl) /\ rtl # <<>>
      /\ InRobKept /\ InRob' = InRob /\ ExecutedKept
      /\ rtl' = Tail(rtl) /\ l1d' = l1d \cup {Head(rtl)}
      /\ UNCHANGED <<head, next, rob, lq, sq, sq_tail, sta, rts>>
  BY ExecutedFrame DEF IInv, TypeOK, LoadsInv, ExecuteLoad, InRobKept, InRob
<1>1. /\ Tail(rtl) \in Seq(LqSlots) /\ Head(rtl) \in LqSlots /\ Distinct(Tail(rtl))
      /\ \A k \in 1..Len(Tail(rtl)) : Tail(rtl)[k] # Head(rtl)
  BY <1>0, DistinctTail
<1>2. /\ Head(rtl) = rtl[1] /\ Len(rtl) \in Nat /\ Len(rtl) > 0
      /\ Len(Tail(rtl)) = Len(rtl) - 1
      /\ \A k \in 1..Len(Tail(rtl)) : Tail(rtl)[k] = rtl[k + 1]
  BY <1>0
<1>3. TypeOK'
  BY <1>0, <1>1 DEF TypeOK, InRob
<1>4. EntriesInv' /\ RawInv' /\ MemOpsExact'
  BY <1>0 DEF IInv, EntriesInv, EntryInv, RawInv, MemOpsExact, Ready, LoadsOf, StoresLeft,
              ExecutedKept, Writers, StoreExecuted, Forwards
<1>5. StoresInv'
  BY <1>0, StoresFrame DEF IInv, StoreFieldsKept
<1>6. ASSUME NEW s \in LqSlots PROVE LoadInv(s)'
  <2>1. LoadInv(s)
    BY DEF IInv, LoadsInv
  <2>. QED
    BY <1>0, <2>1 DEF LoadInv, LoadUsed, Storers, StoreExecuted, Forwards
<1>7. ASSUME NEW s \in LqSlots PROVE ClaimInv(s)'
  <2>1. InRtl(s) <=> s = Head(rtl) \/ InRtl(s)'
    <3>1. ASSUME InRtl(s), s # Head(rtl) PROVE InRtl(s)'
      <4>1. PICK k \in 1..Len(rtl) : rtl[k] = s
        BY <3>1 DEF InRtl
      <4>2. k - 1 \in 1..Len(Tail(rtl)) /\ Tail(rtl)[k - 1] = s
        BY <1>2, <3>1, <4>1
      <4>. QED
        BY <1>0, <4>2 DEF InRtl
    <3>2. ASSUME InRtl(s)' PROVE InRtl(s)
      <4>1. PICK k \in 1..Len(Tail(rtl)) : Tail(rtl)[k] = s
        BY <1>0, <3>2 DEF InRtl
      <4>2. k + 1 \in 1..Len(rtl) /\ rtl[k + 1] = s
        BY <1>2, <4>1
      <4>. QED
        BY <4>2 DEF InRtl
    <3>3. ASSUME s = Head(rtl) PROVE InRtl(s)
      BY <1>2, <3>3 DEF InRtl
    <3>. QED
      BY <3>1, <3>2, <3>3
  <2>2. s = Head(rtl) => ~InRtl(s)'
    BY <1>0, <1>1 DEF InRtl
  <2>3. ClaimInv(s)
    BY DEF IInv, LoadsInv
  <2>4. LoadUsed(s)' = LoadUsed(s) /\ lq'[s] = lq[s]
    BY <1>0 DEF LoadUsed
  <2>. QED
    BY <1>0, <2>1, <2>2, <2>3, <2>4 DEF ClaimInv
<1>8. Distinct(rtl)'
  BY <1>0, <1>1 DEF Distinct
<1>. QED
  BY <1>3, <1>4, <1>5, <1>6, <1>7, <1>8 DEF IInv, LoadsInv

LEMMA NewEntryIs ==
    ASSUME NEW op \in Instr, NEW e, e = NewEntry(op)
    PROVE  /\ e \in Entry /\ e.op = op /\ ~e.scheduled /\ ~e.executed
           /\ e.loaded = {} /\ e.stored = {} /\ e.dependents = {}
           /\ e.lq_index \in [op.loads -> LqSlots \cup {None}]
           /\ e.num_mem_ops = Cardinality(op.loads) + Cardinality(op.stores)
<1>1. Cardinality(op.loads) \in Nat /\ Cardinality(op.stores) \in Nat
  BY InstrAssumption, FS_CardinalityType
<1>2a. PICK f : f = [a \in op.loads |-> None]
  OBVIOUS
<1>2b. PICK n : n = Cardinality(op.loads) + Cardinality(op.stores)
  OBVIOUS
<1>2. /\ f = [a \in op.loads |-> None] /\ f \in [op.loads -> LqSlots \cup {None}]
      /\ n = Cardinality(op.loads) + Cardinality(op.stores) /\ n \in Nat
  BY <1>1, <1>2a, <1>2b
<1>3. e = [op |-> op, scheduled |-> FALSE, waits |-> {}, loaded |-> {}, stored |-> {},
           lq_index |-> f, dependents |-> {}, num_mem_ops |-> n, executed |-> FALSE]
  BY <1>2 DEF NewEntry
<1>4. e \in Entry
  BY <1>2, <1>3, EntryFrom
<1>. QED
  BY <1>2, <1>3, <1>4

\* The stores of the instruction are younger than all that STA holds.
LEMMA DispatchSta ==
    ASSUME TypeOK, StaInv, NEW n \in Nat, NEW new, new = [k \in 1..n |-> next],
           sta' = sta \o new, next' = next + 1
    PROVE  /\ StaInv' /\ \A k \in 1..Len(sta)' : sta'[k] = next \/ \E j \in 1..Len(sta) : sta'[k] = sta[j]
           /\ next < MaxInstr => sta' \in Seq(0..(MaxInstr - 1))
<1>1. sta \in Seq(Nat) /\ next \in Nat /\ new \in Seq(Nat) /\ Len(new) = n /\ Len(sta) \in Nat
  BY Ranges DEF TypeOK
<1>2. /\ Len(sta') = Len(sta) + n
      /\ \A k \in 1..Len(sta) : sta'[k] = sta[k]
      /\ \A k \in 1..Len(sta') : k \notin 1..Len(sta) => sta'[k] = next
  BY <1>1
<1>3. \A k \in 1..Len(sta) : sta[k] < next /\ sta[k] \in Nat
  BY <1>1 DEF StaInv
<1>4. \A k \in 1..Len(sta') : sta'[k] = next \/ \E j \in 1..Len(sta) : sta'[k] = sta[j]
  BY <1>2
<1>5. StaInv'
  <2>. SUFFICES ASSUME NEW j \in 1..Len(sta'), NEW k \in 1..Len(sta')
                PROVE  sta'[k] < next + 1 /\ (j <= k => sta'[j] <= sta'[k])
    BY DEF StaInv
  <2>1. CASE k \in 1..Len(sta)
    BY <1>1, <1>2, <1>3, <2>1 DEF StaInv
  <2>2. CASE k \notin 1..Len(sta)
    BY <1>1, <1>2, <1>3, <2>2
  <2>. QED
    BY <2>1, <2>2
<1>6. next < MaxInstr => sta' \in Seq(0..(MaxInstr - 1))
  <2>. SUFFICES ASSUME next < MaxInstr PROVE sta' \in Seq(0..(MaxInstr - 1))
    OBVIOUS
  <2>1. next \in 0..(MaxInstr - 1)
    BY Ranges
  <2>2. new \in Seq(0..(MaxInstr - 1)) /\ sta \in Seq(0..(MaxInstr - 1))
    BY <2>1 DEF TypeOK
  <2>. QED
    BY <2>2
<1>. QED
  BY <1>4, <1>5, <1>6

LEMMA DispatchInv ==
    ASSUME IInv, NEW op \in Instr, Dispatch(op)
    PROVE  IInv'
<1>0. /\ TypeOK /\ head' = head /\ next' = next + 1 /\ ExecutedKept
      /\ next < MaxInstr /\ next - head < RobSize
      /\ UNCHANGED <<lq, sq, sq_tail, rtl, rts, l1d>>
  BY ExecutedFrame DEF IInv, Dispatch
<1>i. PICK new : new = next
  OBVIOUS
<1>1. /\ InRob' = InRob \cup {new} /\ new \notin InRob /\ new \in InRob'
      /\ new = next /\ new \in 0..(MaxInstr - 1)
  BY <1>0, <1>i, Ranges DEF InRob
<1>2. DOMAIN rob' = InRob' /\ rob'[new] = NewEntry(op) /\ \A k \in InRob : rob'[k] = rob[k]
  <2>1. head..next = InRob'
    BY <1>0, Ranges DEF InRob
  <2>. QED
    BY <1>1, <2>1 DEF Dispatch
<1>3. /\ rob'[new] \in Entry /\ rob'[new].op = op
      /\ ~rob'[new].scheduled /\ ~rob'[new].executed
      /\ rob'[new].loaded = {} /\ rob'[new].stored = {} /\ rob'[new].dependents = {}
      /\ rob'[new].lq_index \in [op.loads -> LqSlots \cup {None}]
      /\ rob'[new].num_mem_ops = Cardinality(op.loads) + Cardinality(op.stores)
  <2>. DEFINE e == rob'[new]
  <2>1. e = NewEntry(op)
    BY <1>2
  <2>. HIDE DEF e
  <2>2. /\ e \in Entry /\ e.op = op /\ ~e.scheduled /\ ~e.executed
        /\ e.loaded = {} /\ e.stored = {} /\ e.dependents = {}
        /\ e.lq_index \in [op.loads -> LqSlots \cup {None}]
        /\ e.num_mem_ops = Cardinality(op.loads) + Cardinality(op.stores)
    BY <2>1, NewEntryIs
  <2>. QED
    BY <2>2 DEF e
<1>4. /\ StaInv' /\ sta' \in Seq(0..(MaxInstr - 1))
      /\ \A k \in 1..Len(sta)' : sta'[k] = new \/ \E j \in 1..Len(sta) : sta'[k] = sta[j]
  <2>1. PICK n \in Nat : n = Cardinality(op.stores)
    BY InstrAssumption, FS_CardinalityType
  <2>2. PICK stores : stores = [k \in 1..n |-> next]
    OBVIOUS
  <2>3. sta' = sta \o stores
    BY <2>1, <2>2 DEF Dispatch
  <2>. QED
    BY <1>0, <1>1, <2>2, <2>3, DispatchSta DEF IInv, StoresInv
<1>5. TypeOK'
  <2>1. \A k \in InRob' : rob'[k] \in Entry
    BY <1>0, <1>1, <1>2, <1>3 DEF TypeOK
  <2>2. head' \in 0..MaxInstr /\ next' \in head'..MaxInstr /\ next' - head' <= RobSize
    BY <1>0, Ranges
  <2>. QED
    BY <1>0, <1>2, <1>4, <2>1, <2>2 DEF TypeOK
<1>6. ASSUME NEW k \in InRob
      PROVE  /\ LoadsOf(k)' = LoadsOf(k) /\ StoresLeft(k)' = StoresLeft(k)
             /\ Ready(k)' = Ready(k)
             /\ \A r : Writers(k, r)' = Writers(k, r) /\ Storers(k, r)' = Storers(k, r)
  <2>1. \A q \in head..(k - 1) : q \in InRob
    BY <1>0, Ranges DEF InRob
  <2>. QED
    BY <1>0, <1>2, <2>1
    DEF LoadsOf, StoresLeft, ExecutedKept, Ready, Writers, Storers
<1>7. EntriesInv'
  <2>1. ASSUME NEW k \in InRob PROVE EntryInv(k)'
    <3>1. EntryInv(k)
      BY DEF IInv, EntriesInv
    <3>2. (k + 1)..(next - 1) \subseteq (k + 1)..(next' - 1)
      BY <1>0, Ranges DEF InRob
    <3>. QED
      BY <1>2, <1>6, <3>1, <3>2 DEF EntryInv
  <2>2. EntryInv(new)'
    BY <1>0, <1>3 DEF EntryInv
  <2>. QED
    BY <1>1, <2>1, <2>2 DEF EntriesInv
<1>8. RawInv'
  <2>. SUFFICES ASSUME NEW k \in InRob', rob'[k].scheduled, NEW r \in rob'[k].op.src,
                       NEW p \in InRob', IsYoungest(p, Writers(k, r))'
                PROVE  rob'[p].executed \/ <<p, r>> \in rob'[k].waits
    BY DEF RawInv
  <2>1. k \in InRob
    BY <1>1, <1>3
  <2>2. IsYoungest(p, Writers(k, r)) /\ p \in InRob
    <3>1. IsYoungest(p, Writers(k, r))
      BY <1>6, <2>1 DEF IsYoungest
    <3>. QED
      BY <1>0, <2>1, <3>1, Ranges DEF IsYoungest, Writers, InRob
  <2>. QED
    BY <1>2, <2>1, <2>2 DEF IInv, RawInv
<1>9. LoadsInv'
  <2>1. ASSUME NEW s \in LqSlots PROVE LoadInv(s)'
    <3>. SUFFICES ASSUME LoadUsed(s) PROVE LoadInv(s)'
      BY <1>0 DEF LoadInv, LoadUsed
    <3>1. PICK i, a, p : i = lq[s].id /\ a = lq[s].address /\ p = lq[s].producer
      OBVIOUS
    <3>2. /\ i \in InRob /\ a \in rob[i].loaded /\ rob[i].lq_index[a] = s
          /\ p = None => Storers(i, a) = {}
          /\ p # None => /\ IsYoungest(p, Storers(i, a)) /\ ~StoreExecuted(p, a)
                         /\ i \in rob[p].dependents
      BY <3>1 DEF IInv, LoadsInv, LoadInv
    <3>3. p # None => p \in InRob
      BY <1>0, <3>2, Ranges DEF IsYoungest, Storers, InRob
    <3>. QED
      BY <1>0, <1>1, <1>2, <1>6, <3>1, <3>2, <3>3 DEF LoadInv, ExecutedKept, IsYoungest
  <2>. QED
    BY <1>0, <2>1, ClaimsFrame DEF IInv, LoadsInv
<1>10. MemOpsExact'
  <2>1. ASSUME NEW k \in InRob PROVE rob'[k].num_mem_ops = Owed(k)'
    <3>1. rob[k].num_mem_ops = Owed(k)
      BY CountsAreOwed DEF IInv
    <3>. QED
      BY <1>2, <1>6, <3>1 DEF Owed
  <2>2. rob'[new].num_mem_ops = Owed(new)'
    <3>1. LoadsOf(new)' = {}
      BY <1>0, <1>1, UsedById, UsedInRob, Ranges DEF LoadsOf, InRob, None
    <3>2. \A a : ~StoreExecuted(new, a)
      BY <1>1, UsedById, UsedInRob, Ranges DEF StoreExecuted, Forwards, None
    <3>3. StoresLeft(new)' = op.stores
      BY <1>0, <1>3, <3>2 DEF StoresLeft, ExecutedKept
    <3>4. (rob[new].op.loads \ rob[new].loaded)' = op.loads
      BY <1>3
    <3>5. Cardinality(op.loads) \in Nat /\ Cardinality(op.stores) \in Nat
      BY InstrAssumption, FS_CardinalityType
    <3>. QED
      BY <1>3, <3>1, <3>3, <3>4, <3>5, FS_EmptySet DEF Owed
  <2>3. \A k \in InRob' : rob'[k].num_mem_ops = Owed(k)'
    BY <1>1, <2>1, <2>2
  <2>. QED
    BY <2>3 DEF MemOpsExact, Owed, LoadsOf, StoresLeft
<1>11. StoresInv'
  <2>1. ASSUME NEW s \in SqSlots PROVE StoreInv(s)'
    <3>1. StoreUsed(s) => sq[s].id \in InRob /\ sq[s].id <= next
      BY UsedInRob, <1>0, Ranges DEF InRob
    <3>2. StoreInv(s)
      BY DEF IInv, StoresInv
    <3>. QED
      BY <1>0, <1>1, <1>2, <1>4, <3>1, <3>2 DEF StoreInv, StoreUsed
  <2>2. Distinct(rts)' /\ RtsInv'
    BY <1>0 DEF IInv, StoresInv, Distinct, RtsInv, StoreUsed
  <2>3. \E m \in 0..SqSize : Window(m)'
    BY <1>0 DEF IInv, StoresInv, Window, BackSlot, StoreUsed
  <2>. QED
    BY <1>4, <2>1, <2>2, <2>3 DEF StoresInv
<1>. QED
  BY <1>5, <1>7, <1>8, <1>9, <1>10, <1>11 DEF IInv

\* The slot and the producer that add_load_queue finds.
LEMMA AddLoadFinds ==
    ASSUME TypeOK, NEW i \in InRob, NEW a
    PROVE  /\ FreeLq # {} => Least(FreeLq) \in LqSlots /\ ~LoadUsed(Least(FreeLq))
           /\ MemProducer(i, a) = None => Storers(i, a) = {}
           /\ MemProducer(i, a) # None => /\ IsYoungest(MemProducer(i, a), Storers(i, a))
                                          /\ MemProducer(i, a) \in InRob
                                          /\ MemProducer(i, a) < i
<1>1. FreeLq \in SUBSET Nat
  BY Ranges DEF FreeLq
<1>2. FreeLq # {} => Least(FreeLq) \in FreeLq
  BY <1>1, LeastIs
<1>3. Storers(i, a) \in SUBSET (0..next) /\ next \in Nat
  BY Ranges DEF Storers, InRob
<1>4. MemProducer(i, a) = Youngest(Storers(i, a))
  BY DEF MemProducer, Storers
<1>5. IF Storers(i, a) = {} THEN MemProducer(i, a) = None
      ELSE IsYoungest(MemProducer(i, a), Storers(i, a))
  BY <1>3, <1>4, YoungestIs
<1>6. \A p \in Storers(i, a) : p \in InRob /\ p < i /\ p # None
  BY Ranges DEF Storers, InRob, None
<1>. QED
  BY <1>2, <1>5, <1>6 DEF FreeLq, LoadUsed, IsYoungest

\* The entries after add_load_queue: that of the load, and that of its producer.
WithLoad(e, a, s, n) ==
    [e EXCEPT !.loaded = @ \cup {a}, !.lq_index[a] = s, !.num_mem_ops = n]
WithDependent(e, i) == [e EXCEPT !.dependents = @ \cup {i}]

LEMMA LoadEntryIs ==
    ASSUME NEW e \in Entry, NEW a \in e.op.loads, e.lq_index \in [e.op.loads -> LqSlots \cup {None}],
           NEW s \in LqSlots, NEW n, NEW f, f = WithLoad(e, a, s, n)
    PROVE  /\ f.op = e.op /\ f.scheduled = e.scheduled /\ f.executed = e.executed
           /\ f.waits = e.waits /\ f.stored = e.stored /\ f.dependents = e.dependents
           /\ f.loaded = e.loaded \cup {a} /\ f.lq_index[a] = s
           /\ \A c \in e.op.loads : c # a => f.lq_index[c] = e.lq_index[c]
           /\ f.lq_index \in [e.op.loads -> LqSlots \cup {None}]
           /\ f.num_mem_ops = n
           /\ f.num_mem_ops \in Nat => f \in Entry
<1>1. PICK L : L = e.loaded \cup {a}
  OBVIOUS
<1>2. PICK x : x = [e.lq_index EXCEPT ![a] = s]
  OBVIOUS
<1>4. f = [e EXCEPT !.loaded = L, !.lq_index = x, !.num_mem_ops = n]
  BY <1>1, <1>2 DEF Entry, WithLoad
<1>5. /\ f.op = e.op /\ f.scheduled = e.scheduled /\ f.executed = e.executed
      /\ f.waits = e.waits /\ f.stored = e.stored /\ f.dependents = e.dependents
      /\ f.loaded = L /\ f.lq_index = x /\ f.num_mem_ops = n
  BY <1>4 DEF Entry
<1>6. /\ x \in [e.op.loads -> LqSlots \cup {None}] /\ x[a] = s
      /\ \A c \in e.op.loads : c # a => x[c] = e.lq_index[c]
  BY <1>2
<1>7. ASSUME n \in Nat PROVE f \in Entry
  <2>1. e.op \in Instr
    BY DEF Entry
  <2>2. e.op.loads \in SUBSET Addr
    BY <2>1, InstrAssumption
  <2>3. L \in SUBSET Addr
    BY <1>1, <2>2 DEF Entry
  <2>4. x \in UNION {[A -> LqSlots \cup {None}] : A \in SUBSET Addr}
    BY <1>6, <2>2
  <2>. QED
    BY <1>4, <1>7, <2>3, <2>4 DEF Entry
<1>. QED
  BY <1>1, <1>2, <1>5, <1>6, <1>7

LEMMA DependentEntryIs ==
    ASSUME NEW e \in Entry, NEW i \in 0..(MaxInstr - 1), NEW f, f = WithDependent(e, i)
    PROVE  /\ f \in Entry
           /\ f.op = e.op /\ f.scheduled = e.scheduled /\ f.executed = e.executed
           /\ f.waits = e.waits /\ f.stored = e.stored /\ f.dependents = e.dependents \cup {i}
           /\ f.loaded = e.loaded /\ f.lq_index = e.lq_index
           /\ f.num_mem_ops = e.num_mem_ops
<1>1. PICK D : D = e.dependents \cup {i}
  OBVIOUS
<1>2. D \in SUBSET (0..(MaxInstr - 1))
  BY <1>1 DEF Entry
<1>3. f = [e EXCEPT !.dependents = D]
  BY <1>1 DEF Entry, WithDependent
<1>. QED
  BY <1>1, <1>2, <1>3 DEF Entry

\* What add_load_queue does to the entries; s is its slot, p its producer.
LoadAdded(i, a, s, p, forwarded) ==
    /\ InRobKept /\ OpsKept /\ StoreFieldsKept /\ RunFieldsKept /\ InRob' = InRob
    /\ a \in rob[i].op.loads /\ a \notin rob[i].loaded /\ ~rob[i].executed
    /\ s \in LqSlots /\ ~LoadUsed(s)
    /\ DOMAIN rob' = InRob /\ \A k \in InRob \ {i} : rob'[k] \in Entry
    /\ rob'[i].num_mem_ops \in Nat => rob'[i] \in Entry
    /\ rob'[i].loaded = rob[i].loaded \cup {a}
    /\ rob'[i].lq_index[a] = s
    /\ \A c \in rob[i].op.loads : c # a => rob'[i].lq_index[c] = rob[i].lq_index[c]
    /\ rob'[i].lq_index \in [rob[i].op.loads -> LqSlots \cup {None}]
    /\ \A k \in InRob \ {i} : /\ rob'[k].loaded = rob[k].loaded
                              /\ rob'[k].lq_index = rob[k].lq_index
                              /\ rob'[k].num_mem_ops = rob[k].num_mem_ops
    /\ \A k \in InRob : /\ k = p => rob'[k].dependents = rob[k].dependents \cup {i}
                        /\ k # p => rob'[k].dependents = rob[k].dependents
    /\ forwarded => lq' = lq /\ rob'[i].num_mem_ops = rob[i].num_mem_ops - 1
    /\ ~forwarded => /\ lq'[s].id = i /\ lq'[s].address = a /\ lq'[s].producer = p
                     /\ rob'[i].num_mem_ops = rob[i].num_mem_ops
    /\ \A t \in LqSlots \ {s} : lq'[t] = lq[t]
    /\ lq' \in [LqSlots -> [id : {None} \cup 0..(MaxInstr - 1), address : {None} \cup Addr,
                            producer : {None} \cup 0..(MaxInstr - 1)]]
    /\ p = None => rtl' = Append(rtl, s)
    /\ p # None => rtl' = rtl
    /\ UNCHANGED <<head, next, sq, sq_tail, sta, rts, l1d>>

LEMMA AddLoadStep ==
    ASSUME IInv, NEW i \in InRob, NEW a \in Addr, AddLoad(i, a),
           NEW s, s = Least(FreeLq), NEW p, p = MemProducer(i, a),
           NEW forwarded \in BOOLEAN, forwarded = (p # None /\ Forwards(p, a))
    PROVE  LoadAdded(i, a, s, p, forwarded)
<1>0. /\ TypeOK /\ \A k \in InRob : rob[k] \in Entry /\ rob[k].lq_index \in [rob[k].op.loads -> LqSlots \cup {None}]
  BY DEF IInv, TypeOK, EntriesInv, EntryInv
<1>1. /\ InRobKept /\ InRob' = InRob /\ a \in rob[i].op.loads /\ a \notin rob[i].loaded
      /\ UNCHANGED <<head, next, sq, sq_tail, sta, rts, l1d>> /\ FreeLq # {}
      /\ rtl' = IF p = None THEN Append(rtl, s) ELSE rtl
      /\ lq' = IF forwarded THEN lq
               ELSE [lq EXCEPT ![s] = [id |-> i, address |-> a, producer |-> p]]
      /\ DOMAIN rob' = InRob
  BY DEF AddLoad, InRobKept, InRob
<1>2. s \in LqSlots /\ ~LoadUsed(s) /\ (p # None => p \in InRob /\ p # i /\ p < i)
  BY <1>0, <1>1, AddLoadFinds, Ranges DEF InRob
<1>3. ~rob[i].executed
  BY <1>1 DEF IInv, EntriesInv, EntryInv
<1>4. PICK n : /\ n = IF forwarded THEN rob[i].num_mem_ops - 1 ELSE rob[i].num_mem_ops
               /\ rob'[i] = WithLoad(rob[i], a, s, n)
  BY DEF AddLoad, WithLoad
<1>5. /\ rob'[i].op = rob[i].op /\ rob'[i].scheduled = rob[i].scheduled
      /\ rob'[i].executed = rob[i].executed /\ rob'[i].waits = rob[i].waits
      /\ rob'[i].stored = rob[i].stored /\ rob'[i].dependents = rob[i].dependents
      /\ rob'[i].loaded = rob[i].loaded \cup {a}
      /\ rob'[i].lq_index[a] = s
      /\ \A c \in rob[i].op.loads : c # a => rob'[i].lq_index[c] = rob[i].lq_index[c]
      /\ rob'[i].lq_index \in [rob[i].op.loads -> LqSlots \cup {None}]
      /\ rob'[i].num_mem_ops = IF forwarded THEN rob[i].num_mem_ops - 1 ELSE rob[i].num_mem_ops
      /\ rob'[i].num_mem_ops \in Nat => rob'[i] \in Entry
  <2>1. PICK e, f : e = rob[i] /\ f = rob'[i]
    OBVIOUS
  <2>2. /\ e \in Entry /\ a \in e.op.loads /\ e.lq_index \in [e.op.loads -> LqSlots \cup {None}]
        /\ s \in LqSlots /\ f = WithLoad(e, a, s, n)
    BY <1>0, <1>1, <1>2, <1>4, <2>1
  <2>3. /\ f.op = e.op /\ f.scheduled = e.scheduled /\ f.executed = e.executed
        /\ f.waits = e.waits /\ f.stored = e.stored /\ f.dependents = e.dependents
        /\ f.loaded = e.loaded \cup {a} /\ f.lq_index[a] = s
        /\ \A c \in e.op.loads : c # a => f.lq_index[c] = e.lq_index[c]
        /\ f.lq_index \in [e.op.loads -> LqSlots \cup {None}]
        /\ f.num_mem_ops = n
        /\ f.num_mem_ops \in Nat => f \in Entry
    BY <2>2, LoadEntryIs
  <2>. QED
    BY <1>4, <2>1, <2>3
<1>6. ASSUME NEW k \in InRob \ {i}, k = p
      PROVE  /\ rob'[k] \in Entry /\ rob'[k].op = rob[k].op
             /\ rob'[k].scheduled = rob[k].scheduled /\ rob'[k].executed = rob[k].executed
             /\ rob'[k].waits = rob[k].waits /\ rob'[k].stored = rob[k].stored
             /\ rob'[k].dependents = rob[k].dependents \cup {i}
             /\ rob'[k].loaded = rob[k].loaded /\ rob'[k].lq_index = rob[k].lq_index
             /\ rob'[k].num_mem_ops = rob[k].num_mem_ops
  <2>1. rob'[k] = WithDependent(rob[k], i)
    BY <1>6 DEF AddLoad, WithDependent
  <2>2. rob[k] \in Entry /\ i \in 0..(MaxInstr - 1)
    BY <1>0, Ranges
  <2>. QED
    BY <2>1, <2>2, DependentEntryIs
<1>7. \A k \in InRob : k # i /\ k # p => rob'[k] = rob[k]
  BY DEF AddLoad
<1>8. \A k \in InRob \ {i} : /\ rob'[k] \in Entry
                             /\ rob'[k].loaded = rob[k].loaded
                             /\ rob'[k].lq_index = rob[k].lq_index
                             /\ rob'[k].num_mem_ops = rob[k].num_mem_ops
  BY <1>0, <1>6, <1>7
<1>9. ASSUME NEW k \in InRob
      PROVE  /\ k = p => rob'[k].dependents = rob[k].dependents \cup {i}
             /\ k # p => rob'[k].dependents = rob[k].dependents
  <2>1. i # p
    BY <1>0, <1>2, Ranges
  <2>2. CASE k = i
    BY <1>5, <2>1, <2>2
  <2>3. CASE k = p
    BY <1>6, <2>1, <2>3
  <2>4. CASE k # i /\ k # p
    BY <1>7, <2>4
  <2>. QED
    BY <2>2, <2>3, <2>4
<1>10. OpsKept /\ StoreFieldsKept /\ RunFieldsKept
  BY <1>5, <1>6, <1>7 DEF OpsKept, StoreFieldsKept, RunFieldsKept
<1>11. /\ lq' \in [LqSlots -> [id : {None} \cup 0..(MaxInstr - 1), address : {None} \cup Addr,
                               producer : {None} \cup 0..(MaxInstr - 1)]]
       /\ \A t \in LqSlots \ {s} : lq'[t] = lq[t]
       /\ forwarded => lq' = lq
       /\ ~forwarded => lq'[s].id = i /\ lq'[s].address = a /\ lq'[s].producer = p
  <2>1. i \in 0..(MaxInstr - 1) /\ p \in {None} \cup 0..(MaxInstr - 1)
    BY <1>0, <1>2, Ranges
  <2>2. lq \in [LqSlots -> [id : {None} \cup 0..(MaxInstr - 1), address : {None} \cup Addr,
                           producer : {None} \cup 0..(MaxInstr - 1)]]
    BY <1>0 DEF TypeOK
  <2>. QED
    BY <1>1, <1>2, <2>1, <2>2
<1>12. (p = None => rtl' = Append(rtl, s)) /\ (p # None => rtl' = rtl)
  BY <1>1
<1>13. /\ forwarded => rob'[i].num_mem_ops = rob[i].num_mem_ops - 1
       /\ ~forwarded => rob'[i].num_mem_ops = rob[i].num_mem_ops
  BY <1>5
<1>. QED
  BY <1>1, <1>2, <1>3, <1>5, <1>8, <1>9, <1>10, <1>11, <1>12, <1>13 DEF LoadAdded

\* One load less to add and, unless it is forwarded, one more in LQ.
LEMMA AddLoadCount ==
    ASSUME TypeOK, NEW i \in InRob, rob[i].num_mem_ops = Owed(i),
           NEW a \in rob[i].op.loads, a \notin rob[i].loaded, NEW s \in LqSlots, lq[s].id # i,
           NEW forwarded \in BOOLEAN,
           (rob[i].op.loads \ rob[i].loaded)' = (rob[i].op.loads \ rob[i].loaded) \ {a},
           LoadsOf(i)' = IF forwarded THEN LoadsOf(i) ELSE LoadsOf(i) \cup {s},
           StoresLeft(i)' = StoresLeft(i),
           rob'[i].num_mem_ops = IF forwarded THEN rob[i].num_mem_ops - 1 ELSE rob[i].num_mem_ops
    PROVE  rob'[i].num_mem_ops = Owed(i)' /\ rob'[i].num_mem_ops \in Nat
<1>1. PICK A, B, C : A = Cardinality(rob[i].op.loads \ rob[i].loaded)
                      /\ B = Cardinality(LoadsOf(i)) /\ C = Cardinality(StoresLeft(i))
  OBVIOUS
<1>2. A \in Nat /\ B \in Nat /\ C \in Nat
  BY <1>1, FiniteParts, FS_CardinalityType
<1>3. Cardinality((rob[i].op.loads \ rob[i].loaded) \ {a}) = A - 1
  <2>1. PICK X : X = rob[i].op.loads \ rob[i].loaded
    OBVIOUS
  <2>2. IsFiniteSet(X) /\ a \in X
    BY <2>1, FiniteParts
  <2>3. Cardinality(X \ {a}) = Cardinality(X) - 1
    BY <2>2, FS_RemoveElement
  <2>. QED
    BY <1>1, <2>1, <2>3
<1>4. A # 0
  BY <1>1, FiniteParts, FS_EmptySet
<1>5. s \notin LoadsOf(i)
  BY DEF LoadsOf
<1>6. Cardinality(LoadsOf(i) \cup {s}) = B + 1
  BY <1>1, <1>5, FiniteParts, FS_AddElement
<1>7. rob[i].num_mem_ops = A + B + C
  BY <1>1 DEF Owed
<1>8. Owed(i)' = (A - 1) + (IF forwarded THEN B ELSE B + 1) + C
  BY <1>1, <1>3, <1>6 DEF Owed
<1>. QED
  BY <1>2, <1>4, <1>7, <1>8

LEMMA AddLoadInv ==
    ASSUME IInv, NEW i \in InRob, NEW a \in Addr, AddLoad(i, a)
    PROVE  IInv'
<1>. PICK s : s = Least(FreeLq)
  OBVIOUS
<1>. PICK p : p = MemProducer(i, a)
  OBVIOUS
<1>. PICK forwarded \in BOOLEAN : forwarded = (p # None /\ Forwards(p, a))
  OBVIOUS
<1>s. LoadAdded(i, a, s, p, forwarded)
  BY AddLoadStep
<1>0. TypeOK /\ ExecutedKept
  BY <1>s, ExecutedFrame DEF IInv, LoadAdded
<1>1. /\ InRobKept /\ OpsKept /\ StoreFieldsKept /\ RunFieldsKept /\ InRob' = InRob
      /\ a \in rob[i].op.loads /\ a \notin rob[i].loaded /\ ~rob[i].executed
      /\ s \in LqSlots /\ ~LoadUsed(s) /\ DOMAIN rob' = InRob
  BY <1>s DEF LoadAdded
<1>2. /\ \A k \in InRob \ {i} : rob'[k] \in Entry
      /\ rob'[i].num_mem_ops \in Nat => rob'[i] \in Entry
  BY <1>s DEF LoadAdded
<1>3. /\ rob'[i].loaded = rob[i].loaded \cup {a} /\ rob'[i].lq_index[a] = s
      /\ \A c \in rob[i].op.loads : c # a => rob'[i].lq_index[c] = rob[i].lq_index[c]
      /\ rob'[i].lq_index \in [rob[i].op.loads -> LqSlots \cup {None}]
      /\ forwarded => rob'[i].num_mem_ops = rob[i].num_mem_ops - 1
      /\ ~forwarded => rob'[i].num_mem_ops = rob[i].num_mem_ops
  BY <1>s DEF LoadAdded
<1>4. \A k \in InRob \ {i} : /\ rob'[k].loaded = rob[k].loaded
                             /\ rob'[k].lq_index = rob[k].lq_index
                             /\ rob'[k].num_mem_ops = rob[k].num_mem_ops
  BY <1>s DEF LoadAdded
<1>5. \A k \in InRob : /\ k = p => rob'[k].dependents = rob[k].dependents \cup {i}
                       /\ k # p => rob'[k].dependents = rob[k].dependents
  BY <1>s DEF LoadAdded
<1>6. /\ lq' \in [LqSlots -> [id : {None} \cup 0..(MaxInstr - 1), address : {None} \cup Addr,
                              producer : {None} \cup 0..(MaxInstr - 1)]]
      /\ p = None => rtl' = Append(rtl, s)
      /\ p # None => rtl' = rtl
      /\ UNCHANGED <<head, next, sq, sq_tail, sta, rts, l1d>>
  BY <1>s DEF LoadAdded
<1>7. /\ p = None => Storers(i, a) = {}
      /\ p # None => IsYoungest(p, Storers(i, a)) /\ p \in InRob /\ p < i
  BY <1>0, AddLoadFinds
<1>8. /\ \A t \in LqSlots \ {s} : lq'[t] = lq[t]
      /\ forwarded => lq' = lq
      /\ ~forwarded => lq'[s].id = i /\ lq'[s].address = a /\ lq'[s].producer = p
      /\ lq[s] = FreeLoad
  BY <1>s, <1>1 DEF LoadAdded, LoadUsed
<1>9. i # None /\ i \in 0..(MaxInstr - 1)
  BY <1>0, Ranges
<1>10. StoresInv' /\ RawInv'
  BY <1>0, <1>1, <1>6, StoresFrame, RawFrame DEF IInv
<1>11. ASSUME NEW k \in InRob
       PROVE  /\ LoadsOf(k)' = IF k = i /\ ~forwarded THEN LoadsOf(k) \cup {s} ELSE LoadsOf(k)
              /\ StoresLeft(k)' = StoresLeft(k) /\ Ready(k)' = Ready(k)
              /\ \A b : Storers(k, b)' = Storers(k, b)
  <2>1. lq[s].id = None /\ k # None
    BY <1>0, <1>8, Ranges DEF FreeLoad
  <2>2. LoadsOf(k)' = IF k = i /\ ~forwarded THEN LoadsOf(k) \cup {s} ELSE LoadsOf(k)
    <3>1. CASE forwarded
      BY <1>8, <3>1 DEF LoadsOf
    <3>2. CASE ~forwarded
      <4>1. lq'[s].id = i
        BY <1>8, <3>2
      <4>2. \A t \in LqSlots : lq'[t].id = k <=> (t # s /\ lq[t].id = k) \/ (t = s /\ k = i)
        BY <1>8, <4>1
      <4>3. \A t : t \in LoadsOf(k)' <=> t \in LoadsOf(k) \/ (t = s /\ k = i)
        BY <1>1, <2>1, <4>2 DEF LoadsOf
      <4>. QED
        BY <3>2, <4>3
    <3>. QED
      BY <3>1, <3>2
  <2>3. \A q \in head..(k - 1) : q \in InRob
    BY <1>0, Ranges DEF InRob
  <2>4. StoresLeft(k)' = StoresLeft(k) /\ Ready(k)' = Ready(k)
    BY <1>0, <1>1 DEF StoresLeft, Ready, ExecutedKept, OpsKept, RunFieldsKept
  <2>5. \A b : Storers(k, b)' = Storers(k, b)
    BY <1>1, <1>6, <2>3 DEF Storers, OpsKept
  <2>. QED
    BY <2>2, <2>4, <2>5
<1>12. /\ MemOpsExact' /\ rob'[i].num_mem_ops \in Nat
  <2>1. \A k \in InRob : rob[k].num_mem_ops = Owed(k)
    BY CountsAreOwed DEF IInv
  <2>2. (rob[i].op.loads \ rob[i].loaded)' = (rob[i].op.loads \ rob[i].loaded) \ {a}
    BY <1>1, <1>3 DEF OpsKept
  <2>3. lq[s].id # i
    BY <1>8, <1>9 DEF FreeLoad
  <2>4. LoadsOf(i)' = IF forwarded THEN LoadsOf(i) ELSE LoadsOf(i) \cup {s}
    BY <1>11
  <2>5. rob'[i].num_mem_ops = Owed(i)' /\ rob'[i].num_mem_ops \in Nat
    BY <1>0, <1>1, <1>3, <1>11, <2>1, <2>2, <2>3, <2>4, AddLoadCount
  <2>6. ASSUME NEW k \in InRob \ {i} PROVE rob'[k].num_mem_ops = Owed(k)'
    <3>1. (rob[k].op.loads \ rob[k].loaded)' = rob[k].op.loads \ rob[k].loaded
      BY <1>1, <1>4 DEF OpsKept
    <3>2. LoadsOf(k)' = LoadsOf(k) /\ StoresLeft(k)' = StoresLeft(k)
      BY <1>11
    <3>. QED
      BY <1>4, <2>1, <3>1, <3>2 DEF Owed
  <2>7. \A k \in InRob' : rob'[k].num_mem_ops = Owed(k)'
    BY <1>1, <2>5, <2>6
  <2>. QED
    BY <2>5, <2>7 DEF MemOpsExact, Owed, LoadsOf, StoresLeft
<1>r. rtl \in Seq(LqSlots)
  BY <1>0 DEF TypeOK
<1>13. TypeOK'
  <2>1. \A k \in InRob' : rob'[k] \in Entry
    BY <1>1, <1>2, <1>12
  <2>2. rtl' \in Seq(LqSlots)
    <3>1. Append(rtl, s) \in Seq(LqSlots)
      BY <1>1, <1>r
    <3>. QED
      BY <1>6, <1>r, <3>1
  <2>. QED
    BY <1>0, <1>1, <1>6, <2>1, <2>2 DEF TypeOK
<1>14. EntriesInv'
  <2>1. ASSUME NEW k \in InRob PROVE EntryInv(k)'
    <3>1. EntryInv(k)
      BY DEF IInv, EntriesInv
    <3>2. rob'[k].dependents \subseteq (k + 1)..(next - 1)
      <4>1. rob[k].dependents \subseteq (k + 1)..(next - 1)
        BY <3>1 DEF EntryInv
      <4>2. k = p => i \in (k + 1)..(next - 1)
        BY <1>0, <1>7, <1>9, Ranges DEF InRob
      <4>. QED
        BY <1>5, <4>1, <4>2
    <3>3. CASE k = i
      BY <1>1, <1>3, <1>6, <3>1, <3>2, <3>3
      DEF EntryInv, OpsKept, StoreFieldsKept, RunFieldsKept
    <3>4. CASE k # i
      BY <1>1, <1>4, <1>6, <1>11, <3>1, <3>2, <3>4
      DEF EntryInv, OpsKept, StoreFieldsKept, RunFieldsKept
    <3>. QED
      BY <3>3, <3>4
  <2>. QED
    BY <1>1, <2>1 DEF EntriesInv
<1>15. ASSUME NEW t \in LqSlots PROVE LoadInv(t)'
  <2>1. CASE t = s /\ ~forwarded
    <3>1. ~forwarded /\ p # None => ~StoreExecuted(p, a)
      BY DEF StoreExecuted
    <3>2. p # None => i \in rob'[p].dependents
      BY <1>5, <1>7
    <3>3. rob'[i].lq_index[a] = s /\ a \in rob'[i].loaded
      BY <1>3
    <3>4. lq'[t].id = i /\ lq'[t].address = a /\ lq'[t].producer = p
      BY <1>8, <2>1
    <3>5. Storers(i, a)' = Storers(i, a)
      BY <1>11
    <3>6. StoreExecuted(p, a)' <=> StoreExecuted(p, a)
      BY <1>0 DEF ExecutedKept
    <3>. QED
      BY <1>1, <1>7, <2>1, <3>1, <3>2, <3>3, <3>4, <3>5, <3>6 DEF LoadInv, IsYoungest
  <2>2. CASE t # s \/ forwarded
    <3>0. lq'[t] = lq[t]
      BY <1>8, <2>2
    <3>. SUFFICES ASSUME LoadUsed(t) PROVE LoadInv(t)'
      BY <3>0 DEF LoadInv, LoadUsed
    <3>1. PICK k, b, q : k = lq[t].id /\ b = lq[t].address /\ q = lq[t].producer
      OBVIOUS
    <3>2. /\ k \in InRob /\ b \in rob[k].loaded /\ rob[k].lq_index[b] = t
          /\ q = None => Storers(k, b) = {}
          /\ q # None => /\ IsYoungest(q, Storers(k, b)) /\ ~StoreExecuted(q, b)
                         /\ k \in rob[q].dependents
      BY <3>1 DEF IInv, LoadsInv, LoadInv
    <3>3. q # None => q \in InRob
      BY <1>0, <3>2, Ranges DEF IsYoungest, Storers, InRob
    <3>4. b \in rob'[k].loaded
      BY <1>3, <1>4, <3>2
    <3>5. rob'[k].lq_index[b] = t
      <4>1. CASE k = i
        <5>1. b # a /\ b \in rob[i].op.loads
          BY <1>1, <3>2, <4>1 DEF IInv, EntriesInv, EntryInv
        <5>. QED
          BY <1>3, <3>2, <4>1, <5>1
      <4>2. CASE k # i
        BY <1>4, <3>2, <4>2
      <4>. QED
        BY <4>1, <4>2
    <3>6. q # None => k \in rob'[q].dependents
      BY <1>5, <3>2, <3>3
    <3>7. Storers(k, b)' = Storers(k, b) /\ (StoreExecuted(q, b)' <=> StoreExecuted(q, b))
      BY <1>0, <1>11, <3>2 DEF ExecutedKept
    <3>. QED
      BY <1>1, <3>0, <3>1, <3>2, <3>4, <3>5, <3>6, <3>7 DEF LoadInv, IsYoungest
  <2>. QED
    BY <2>1, <2>2
<1>16. rtl \in Seq(LqSlots) /\ Distinct(rtl) /\ ClaimInv(s)
  BY <1>0, <1>1 DEF TypeOK, IInv, LoadsInv
<1>17. ~InRtl(s) /\ s \notin l1d
  BY <1>1, <1>16 DEF ClaimInv
<1>18. Distinct(rtl)'
  BY <1>1, <1>6, <1>16, <1>17, DistinctAppend DEF InRtl, Distinct
<1>19. ASSUME NEW t \in LqSlots PROVE InRtl(t)' <=> InRtl(t) \/ (p = None /\ t = s)
  <2>1. CASE p # None
    BY <1>6, <2>1 DEF InRtl
  <2>2. CASE p = None
    <3>1. /\ Len(rtl) \in Nat /\ Len(rtl') = Len(rtl) + 1 /\ rtl'[Len(rtl) + 1] = s
          /\ \A k \in 1..Len(rtl) : rtl'[k] = rtl[k]
      BY <1>1, <1>6, <1>16, <2>2
    <3>2. \A k : k \in 1..Len(rtl') <=> k \in 1..Len(rtl) \/ k = Len(rtl) + 1
      BY <3>1
    <3>. QED
      BY <2>2, <3>1, <3>2 DEF InRtl
  <2>. QED
    BY <2>1, <2>2
<1>20. ASSUME NEW t \in LqSlots PROVE ClaimInv(t)'
  <2>0. ClaimInv(t)
    BY DEF IInv, LoadsInv
  <2>1. CASE t # s
    BY <1>6, <1>8, <1>19, <2>0, <2>1 DEF ClaimInv, LoadUsed
  <2>2. CASE t = s /\ forwarded
    BY <1>6, <1>8, <1>17, <1>19, <2>2 DEF ClaimInv, LoadUsed, FreeLoad
  <2>3. CASE t = s /\ ~forwarded
    <3>1. LoadUsed(s)' /\ (lq[s].producer)' = p
      BY <1>8, <1>9, <2>3 DEF LoadUsed, FreeLoad
    <3>. QED
      BY <1>6, <1>17, <1>19, <2>3, <3>1 DEF ClaimInv
  <2>. QED
    BY <2>1, <2>2, <2>3
<1>. QED
  BY <1>10, <1>12, <1>13, <1>14, <1>15, <1>18, <1>20 DEF IInv, LoadsInv

\* The load in slot t waits for the store of p to address a.
WaitsFor(t, p, a) ==
    LoadUsed(t) /\ lq[t].producer = p /\ lq[t].address = a /\ p # None

\* Slots of LQ are released when their loads are done.
WithCount(e, n) == [e EXCEPT !.num_mem_ops = n]

LEMMA CountEntryIs ==
    ASSUME NEW e \in Entry, NEW n, NEW f, f = WithCount(e, n)
    PROVE  /\ f.op = e.op /\ f.scheduled = e.scheduled /\ f.executed = e.executed
           /\ f.waits = e.waits /\ f.stored = e.stored /\ f.dependents = e.dependents
           /\ f.loaded = e.loaded /\ f.lq_index = e.lq_index /\ f.num_mem_ops = n
           /\ n \in Nat => f \in Entry
  BY DEF Entry, WithCount

LEMMA ReleasedIs ==
    ASSUME TypeOK, NEW W \in SUBSET LqSlots, lq' = Released(W)
    PROVE  /\ \A t \in LqSlots : lq'[t] = IF t \in W THEN FreeLoad ELSE lq[t]
           /\ lq' \in [LqSlots -> [id : {None} \cup 0..(MaxInstr - 1), address : {None} \cup Addr,
                                   producer : {None} \cup 0..(MaxInstr - 1)]]
           /\ \A k \in InRob : /\ LoadsOf(k)' = LoadsOf(k) \ W
                               /\ OpsDone(k, W) \in Nat
                               /\ Cardinality(LoadsOf(k) \ W) = Cardinality(LoadsOf(k)) - OpsDone(k, W)
                               /\ OpsDone(k, W) <= Cardinality(LoadsOf(k))
<1>1. \A t \in LqSlots : lq'[t] = IF t \in W THEN FreeLoad ELSE lq[t]
  BY DEF Released
<1>2. lq' \in [LqSlots -> [id : {None} \cup 0..(MaxInstr - 1), address : {None} \cup Addr,
                          producer : {None} \cup 0..(MaxInstr - 1)]]
  BY DEF Released, TypeOK, FreeLoad
<1>3. ASSUME NEW k \in InRob
      PROVE  /\ LoadsOf(k)' = LoadsOf(k) \ W
             /\ OpsDone(k, W) \in Nat
             /\ Cardinality(LoadsOf(k) \ W) = Cardinality(LoadsOf(k)) - OpsDone(k, W)
             /\ OpsDone(k, W) <= Cardinality(LoadsOf(k))
  <2>1. k # None
    BY Ranges
  <2>2. \A t : t \in LoadsOf(k)' <=> t \in LoadsOf(k) \ W
    BY <1>1, <2>1 DEF LoadsOf, FreeLoad
  <2>3. {s \in W : lq[s].id = k} = LoadsOf(k) \cap W
    BY DEF LoadsOf
  <2>4. IsFiniteSet(LoadsOf(k))
    BY FiniteParts
  <2>5. OpsDone(k, W) = Cardinality(LoadsOf(k) \cap W)
    BY <2>3 DEF OpsDone
  <2>6. Cardinality(LoadsOf(k) \ W) = Cardinality(LoadsOf(k)) - Cardinality(LoadsOf(k) \cap W)
    BY <2>4, FS_Difference
  <2>7. IsFiniteSet(LoadsOf(k) \cap W) /\ Cardinality(LoadsOf(k) \cap W) <= Cardinality(LoadsOf(k))
    BY <2>4, FS_Intersection
  <2>8. Cardinality(LoadsOf(k) \cap W) \in Nat
    BY <2>7, FS_CardinalityType
  <2>. QED
    BY <2>2, <2>5, <2>6, <2>7, <2>8
<1>. QED
  BY <1>1, <1>2, <1>3

\* The loads in the slots of W are done; executing a store does no more to an
\* entry than to take that store from what its instruction has left.
LEMMA ReleaseInv ==
    ASSUME IInv, NEW W \in SUBSET LqSlots, InRobKept, lq' = Released(W), rtl' = rtl,
           \A t \in LqSlots : t \in l1d' <=> t \in l1d /\ t \notin W,
           \A t \in W : ~InRtl(t),
           \A q, b : \A t \in LqSlots \ W : WaitsFor(t, q, b) => ~StoreExecuted(q, b)',
           DOMAIN rob' = InRob,
           \A k \in InRob : rob'[k] = WithCount(rob[k], rob[k].num_mem_ops - OpsDone(k, W)
                                - (Cardinality(StoresLeft(k)) - Cardinality(StoresLeft(k)'))),
           \A k \in InRob : StoresLeft(k)' \subseteq StoresLeft(k)
    PROVE  /\ \A k \in InRob : rob'[k] \in Entry
           /\ StoreFieldsKept /\ EntriesInv' /\ RawInv' /\ LoadsInv' /\ MemOpsExact'
<1>0. TypeOK /\ InRob' = InRob /\ \A k \in InRob : rob[k] \in Entry
  BY DEF IInv, TypeOK, InRobKept, InRob
<1>1. ASSUME NEW k \in InRob
      PROVE  /\ rob'[k].op = rob[k].op /\ rob'[k].scheduled = rob[k].scheduled
             /\ rob'[k].executed = rob[k].executed /\ rob'[k].waits = rob[k].waits
             /\ rob'[k].stored = rob[k].stored /\ rob'[k].dependents = rob[k].dependents
             /\ rob'[k].loaded = rob[k].loaded /\ rob'[k].lq_index = rob[k].lq_index
             /\ rob'[k].num_mem_ops = Owed(k)' /\ Owed(k)' \in Nat /\ rob'[k] \in Entry
  <2>1. PICK e, f, n : /\ e = rob[k] /\ f = rob'[k]
                       /\ n = rob[k].num_mem_ops - OpsDone(k, W)
                                - (Cardinality(StoresLeft(k)) - Cardinality(StoresLeft(k)'))
    OBVIOUS
  <2>2. e \in Entry /\ f = WithCount(e, n)
    BY <1>0, <2>1
  <2>3. /\ f.op = e.op /\ f.scheduled = e.scheduled /\ f.executed = e.executed
        /\ f.waits = e.waits /\ f.stored = e.stored /\ f.dependents = e.dependents
        /\ f.loaded = e.loaded /\ f.lq_index = e.lq_index /\ f.num_mem_ops = n
        /\ n \in Nat => f \in Entry
    BY <2>2, CountEntryIs
  <2>4. IsFiniteSet(StoresLeft(k)) /\ StoresLeft(k)' \in SUBSET StoresLeft(k)
    BY <1>0, FiniteParts
  <2>5. IsFiniteSet(StoresLeft(k)')
    BY <2>4, FS_Subset
  <2>6. PICK A, B, C, D, O : /\ A = Cardinality(rob[k].op.loads \ rob[k].loaded)
                             /\ B = Cardinality(LoadsOf(k)) /\ C = Cardinality(StoresLeft(k))
                             /\ D = Cardinality(StoresLeft(k)') /\ O = OpsDone(k, W)
    OBVIOUS
  <2>7. A \in Nat /\ B \in Nat /\ C \in Nat /\ D \in Nat /\ O \in Nat /\ O <= B
    BY <1>0, <2>5, <2>6, FiniteParts, FS_CardinalityType, ReleasedIs
  <2>8. Cardinality(LoadsOf(k)') = B - O
    BY <1>0, <2>6, ReleasedIs
  <2>9. (rob[k].op.loads \ rob[k].loaded)' = rob[k].op.loads \ rob[k].loaded
    BY <2>1, <2>3
  <2>10. rob[k].num_mem_ops = A + B + C
    BY <2>6, CountsAreOwed DEF IInv, Owed
  <2>11. Owed(k)' = A + (B - O) + D
    BY <2>6, <2>8, <2>9 DEF Owed
  <2>12. n = Owed(k)' /\ n \in Nat
    BY <2>1, <2>6, <2>7, <2>10, <2>11
  <2>. QED
    BY <2>1, <2>3, <2>12
<1>2. OpsKept /\ LoadFieldsKept /\ StoreFieldsKept /\ RunFieldsKept
  BY <1>1 DEF OpsKept, LoadFieldsKept, StoreFieldsKept, RunFieldsKept
<1>3. MemOpsExact'
  <2>1. \A k \in InRob' : rob'[k].num_mem_ops = Owed(k)'
    BY <1>0, <1>1
  <2>. QED
    BY <2>1 DEF MemOpsExact, Owed, LoadsOf, StoresLeft
<1>4. RawInv'
  BY <1>0, <1>2, RawFrame DEF IInv
<1>5. /\ \A t \in LqSlots : lq'[t] = IF t \in W THEN FreeLoad ELSE lq[t]
      /\ \A k \in InRob : LoadsOf(k)' = LoadsOf(k) \ W
  BY <1>0, ReleasedIs
<1>6. EntriesInv'
  <2>1. ASSUME NEW k \in InRob PROVE EntryInv(k)'
    <3>1. EntryInv(k) /\ Ready(k)' = Ready(k)
      BY <1>1 DEF IInv, EntriesInv, Ready
    <3>2. rob[k].executed => LoadsOf(k)' = {} /\ StoresLeft(k)' = {}
      BY <1>5, <3>1 DEF EntryInv
    <3>. QED
      BY <1>1, <3>1, <3>2 DEF EntryInv, InRobKept
  <2>. QED
    BY <1>0, <2>1 DEF EntriesInv
<1>7. ASSUME NEW t \in LqSlots PROVE LoadInv(t)'
  <2>1. CASE t \in W
    BY <1>5, <2>1 DEF LoadInv, LoadUsed
  <2>2. CASE t \notin W
    <3>0. lq'[t] = lq[t]
      BY <1>5, <2>2
    <3>. SUFFICES ASSUME LoadUsed(t) PROVE LoadInv(t)'
      BY <3>0 DEF LoadInv, LoadUsed
    <3>1. PICK k, b, q : k = lq[t].id /\ b = lq[t].address /\ q = lq[t].producer
      OBVIOUS
    <3>2. /\ k \in InRob /\ b \in rob[k].loaded /\ rob[k].lq_index[b] = t
          /\ q = None => Storers(k, b) = {}
          /\ q # None => IsYoungest(q, Storers(k, b)) /\ k \in rob[q].dependents
      BY <3>1 DEF IInv, LoadsInv, LoadInv
    <3>3. \A j \in head..(k - 1) : j \in InRob
      BY <1>0, <3>2, Ranges DEF InRob
    <3>4. q # None => q \in InRob
      BY <3>2, <3>3 DEF IsYoungest, Storers
    <3>5. Storers(k, b)' = Storers(k, b)
      BY <1>2, <3>3 DEF Storers, OpsKept, InRobKept
    <3>6. q # None => ~StoreExecuted(q, b)'
      BY <2>2, <3>1 DEF WaitsFor
    <3>. QED
      BY <1>0, <1>1, <3>0, <3>1, <3>2, <3>4, <3>5, <3>6 DEF LoadInv, IsYoungest
  <2>. QED
    BY <2>1, <2>2
<1>8. Distinct(rtl)'
  BY DEF IInv, LoadsInv, Distinct
<1>9. ASSUME NEW t \in LqSlots PROVE ClaimInv(t)'
  <2>0. ClaimInv(t) /\ InRtl(t)' = InRtl(t)
    BY DEF IInv, LoadsInv, InRtl
  <2>1. CASE t \in W
    BY <1>5, <2>0, <2>1 DEF ClaimInv, LoadUsed
  <2>2. CASE t \notin W
    BY <1>5, <2>0, <2>2 DEF ClaimInv, LoadUsed
  <2>. QED
    BY <2>1, <2>2
<1>. QED
  BY <1>1, <1>2, <1>3, <1>4, <1>6, <1>7, <1>8, <1>9 DEF LoadsInv

LEMMA DataFetchedInv ==
    ASSUME IInv, NEW S \in SUBSET l1d, DataFetched(S)
    PROVE  IInv'
<1>0. /\ TypeOK /\ S \in SUBSET LqSlots /\ InRobKept /\ InRob' = InRob /\ ExecutedKept
      /\ lq' = Released(S) /\ l1d' = l1d \ S
      /\ UNCHANGED <<head, next, sq, sq_tail, sta, rtl, rts>>
  BY ExecutedFrame DEF IInv, TypeOK, DataFetched, InRobKept, InRob
<1>1. \A t \in S : ~InRtl(t)
  BY <1>0 DEF IInv, LoadsInv, ClaimInv
<1>2. \A q, b : \A t \in LqSlots : WaitsFor(t, q, b) => ~StoreExecuted(q, b)'
  BY <1>0 DEF IInv, LoadsInv, LoadInv, WaitsFor, ExecutedKept
<1>3. DOMAIN rob' = InRob /\ \A k \in InRob : rob'[k] = [rob[k] EXCEPT !.num_mem_ops = @ - OpsDone(k, S)]
  BY DEF DataFetched
<1>4. ASSUME NEW k \in InRob
      PROVE  /\ StoresLeft(k)' = StoresLeft(k)
             /\ rob'[k] = WithCount(rob[k], rob[k].num_mem_ops - OpsDone(k, S)
                              - (Cardinality(StoresLeft(k)) - Cardinality(StoresLeft(k)')))
  <2>1. rob'[k].op = rob[k].op
    BY <1>0, <1>3 DEF TypeOK, Entry
  <2>2. StoresLeft(k)' = StoresLeft(k)
    BY <1>0, <2>1 DEF StoresLeft, ExecutedKept
  <2>3. /\ Cardinality(StoresLeft(k)) \in Nat /\ OpsDone(k, S) \in Nat
        /\ rob[k].num_mem_ops \in Nat
    BY <1>0, FiniteParts, FS_CardinalityType, ReleasedIs, EntryFields
  <2>4. rob[k].num_mem_ops - OpsDone(k, S) = rob[k].num_mem_ops - OpsDone(k, S)
            - (Cardinality(StoresLeft(k)) - Cardinality(StoresLeft(k)'))
    BY <2>2, <2>3
  <2>5. rob'[k] = WithCount(rob[k], rob[k].num_mem_ops - OpsDone(k, S))
    BY <1>3 DEF WithCount
  <2>. QED
    BY <2>2, <2>4, <2>5
<1>5. /\ \A k \in InRob : rob'[k] \in Entry
      /\ StoreFieldsKept /\ EntriesInv' /\ RawInv' /\ LoadsInv' /\ MemOpsExact'
  BY <1>0, <1>1, <1>2, <1>3, <1>4, ReleaseInv
<1>6. StoresInv'
  BY <1>0, <1>5, StoresFrame DEF IInv
<1>7. TypeOK'
  BY <1>0, <1>3, <1>5, ReleasedIs DEF TypeOK
<1>. QED
  BY <1>5, <1>6, <1>7 DEF IInv

\* SQ after a store is executed: its slot is marked, and nothing else changes.
LEMMA MarkedStore ==
    ASSUME TypeOK, NEW t \in SqSlots, StoreUsed(t), sq[t].id # None,
           sq' = [sq EXCEPT ![t].fetched = TRUE]
    PROVE  /\ sq' \in [SqSlots -> [id : {None} \cup 0..(MaxInstr - 1), address : {None} \cup Addr,
                                   fetched : BOOLEAN]]
           /\ \A s \in SqSlots : /\ sq'[s].id = sq[s].id /\ sq'[s].address = sq[s].address
                                 /\ sq'[s].fetched <=> sq[s].fetched \/ s = t
                                 /\ StoreUsed(s)' <=> StoreUsed(s)
<1>1. sq \in [SqSlots -> [id : {None} \cup 0..(MaxInstr - 1), address : {None} \cup Addr,
                          fetched : BOOLEAN]]
  BY DEF TypeOK
<1>2. sq' \in [SqSlots -> [id : {None} \cup 0..(MaxInstr - 1), address : {None} \cup Addr,
                           fetched : BOOLEAN]]
  BY <1>1
<1>3. ASSUME NEW s \in SqSlots
      PROVE  /\ sq'[s].id = sq[s].id /\ sq'[s].address = sq[s].address
             /\ sq'[s].fetched <=> sq[s].fetched \/ s = t
             /\ StoreUsed(s)' <=> StoreUsed(s)
  <2>1. CASE s = t
    <3>1. sq'[s] = [sq[t] EXCEPT !.fetched = TRUE]
      BY <1>1, <2>1
    <3>2. sq'[s].id = sq[t].id /\ sq'[s].address = sq[t].address /\ sq'[s].fetched
      BY <1>1, <3>1
    <3>. QED
      BY <2>1, <3>2 DEF StoreUsed, FreeStore
  <2>2. CASE s # t
    <3>1. sq'[s] = sq[s]
      BY <1>1, <2>2
    <3>. QED
      BY <2>2, <3>1 DEF StoreUsed
  <2>. QED
    BY <2>1, <2>2
<1>. QED
  BY <1>2, <1>3

\* A store in SQ is executed when its slot is fetched.
LEMMA ExecutedSlot ==
    ASSUME IInv, NEW t \in SqSlots, StoreUsed(t)
    PROVE  StoreExecuted(sq[t].id, sq[t].address) <=> sq[t].fetched
<1>1. sq[t] \in [id : {None} \cup 0..(MaxInstr - 1), address : {None} \cup Addr, fetched : BOOLEAN]
  BY DEF IInv, TypeOK
<1>2. ASSUME sq[t].fetched PROVE StoreExecuted(sq[t].id, sq[t].address)
  <2>1. sq[t] = [id |-> sq[t].id, address |-> sq[t].address, fetched |-> TRUE]
    BY <1>1, <1>2
  <2>. QED
    BY <2>1 DEF StoreExecuted, Forwards
<1>3. ASSUME StoreExecuted(sq[t].id, sq[t].address) PROVE sq[t].fetched
  <2>1. PICK s \in SqSlots : sq[s] = [id |-> sq[t].id, address |-> sq[t].address, fetched |-> TRUE]
    BY <1>3 DEF StoreExecuted, Forwards
  <2>2. sq[s].id = sq[t].id /\ sq[s].address = sq[t].address /\ sq[s].fetched
    BY <2>1
  <2>3. s = t
    BY <2>2 DEF IInv, StoresInv, StoreInv
  <2>. QED
    BY <2>2, <2>3
<1>. QED
  BY <1>2, <1>3

LEMMA ExecutedByFields ==
    ASSUME NEW q \in [SqSlots -> [id : {None} \cup 0..(MaxInstr - 1), address : {None} \cup Addr,
                                  fetched : BOOLEAN]],
           NEW p, NEW a
    PROVE  (\E s \in SqSlots : q[s] = [id |-> p, address |-> a, fetched |-> TRUE])
               <=> \E s \in SqSlots : q[s].id = p /\ q[s].address = a /\ q[s].fetched
<1>1. ASSUME NEW s \in SqSlots
      PROVE  q[s] = [id |-> p, address |-> a, fetched |-> TRUE]
                 <=> q[s].id = p /\ q[s].address = a /\ q[s].fetched
  <2>1. q[s] \in [id : {None} \cup 0..(MaxInstr - 1), address : {None} \cup Addr, fetched : BOOLEAN]
    OBVIOUS
  <2>. QED
    BY <2>1
<1>. QED
  BY <1>1

LEMMA ExecuteStoreInv ==
    ASSUME IInv, ExecuteStore
    PROVE  IInv'
<1>0. /\ TypeOK /\ rts \in Seq(SqSlots) /\ Distinct(rts) /\ rts # <<>>
      /\ InRobKept /\ InRob' = InRob /\ rts' = Tail(rts)
      /\ UNCHANGED <<head, next, sq_tail, sta, rtl, l1d>>
  BY DEF IInv, StoresInv, TypeOK, ExecuteStore, InRobKept, InRob
<1>. PICK t : t = Head(rts)
  OBVIOUS
<1>. PICK p, a : p = sq[t].id /\ a = sq[t].address
  OBVIOUS
<1>. PICK W : W = {rob[d].lq_index[a] : d \in Dependents(p, a)}
  OBVIOUS
<1>1. /\ Tail(rts) \in Seq(SqSlots) /\ t \in SqSlots /\ Distinct(Tail(rts))
      /\ \A k \in 1..Len(Tail(rts)) : Tail(rts)[k] # t
  BY <1>0, DistinctTail
<1>2. /\ t = rts[1] /\ Len(rts) \in Nat /\ Len(rts) > 0 /\ Len(Tail(rts)) = Len(rts) - 1
      /\ \A k \in 1..Len(Tail(rts)) : Tail(rts)[k] = rts[k + 1]
  BY <1>0
<1>3. StoreUsed(t) /\ ~sq[t].fetched
  BY <1>2 DEF IInv, StoresInv, RtsInv
<1>4. p \in InRob /\ a \in rob[p].stored /\ p # None /\ a \in rob[p].op.stores
  BY <1>0, <1>1, <1>3, Ranges DEF IInv, StoresInv, StoreInv, EntriesInv, EntryInv
<1>5. sq' = [sq EXCEPT ![t].fetched = TRUE] /\ lq' = Released(W) /\ ForwardCheck(p, a)
  BY DEF ExecuteStore
<1>6. /\ sq' \in [SqSlots -> [id : {None} \cup 0..(MaxInstr - 1), address : {None} \cup Addr,
                              fetched : BOOLEAN]]
      /\ \A s \in SqSlots : /\ sq'[s].id = sq[s].id /\ sq'[s].address = sq[s].address
                            /\ sq'[s].fetched <=> sq[s].fetched \/ s = t
                            /\ StoreUsed(s)' <=> StoreUsed(s)
  BY <1>0, <1>1, <1>3, <1>4, <1>5, MarkedStore
<1>7. ASSUME NEW q, NEW b
      PROVE  StoreExecuted(q, b)' <=> StoreExecuted(q, b) \/ (q = p /\ b = a)
  <2>1. StoreExecuted(q, b) <=>
            \E s \in SqSlots : sq[s].id = q /\ sq[s].address = b /\ sq[s].fetched
    <3>1. sq \in [SqSlots -> [id : {None} \cup 0..(MaxInstr - 1), address : {None} \cup Addr,
                             fetched : BOOLEAN]]
      BY <1>0 DEF TypeOK
    <3>2. StoreExecuted(q, b) <=>
              \E s \in SqSlots : sq[s] = [id |-> q, address |-> b, fetched |-> TRUE]
      BY DEF StoreExecuted, Forwards
    <3>. QED
      BY <3>1, <3>2, ExecutedByFields
  <2>2. StoreExecuted(q, b)' <=>
            \E s \in SqSlots : sq'[s].id = q /\ sq'[s].address = b /\ sq'[s].fetched
    BY <1>6, ExecutedByFields DEF StoreExecuted, Forwards
  <2>. QED
    BY <1>1, <1>6, <2>1, <2>2
<1>8. ~StoreExecuted(p, a)
  BY <1>1, <1>3, ExecutedSlot
<1>9. ASSUME NEW d \in Dependents(p, a)
      PROVE  /\ d \in InRob /\ rob[d].lq_index[a] \in LqSlots
             /\ lq[rob[d].lq_index[a]].producer = p
  <2>1. d \in rob[p].dependents /\ a \in rob[d].loaded
    BY DEF Dependents
  <2>2. d \in (p + 1)..(next - 1)
    BY <1>4, <2>1 DEF IInv, EntriesInv, EntryInv
  <2>3. d \in InRob
    BY <1>0, <1>4, <2>2, Ranges DEF InRob
  <2>. QED
    BY <1>5, <2>1, <2>3 DEF IInv, EntriesInv, EntryInv, ForwardCheck
<1>10. W \in SUBSET LqSlots /\ \A s \in W : lq[s].producer = p
  BY <1>9
<1>11. \A s \in W : ~InRtl(s) /\ s \notin l1d
  BY <1>4, <1>10 DEF IInv, LoadsInv, ClaimInv
<1>12. ASSUME NEW q, NEW b, NEW s \in LqSlots \ W, WaitsFor(s, q, b)
       PROVE  ~StoreExecuted(q, b)'
  <2>1. PICK i : i = lq[s].id
    OBVIOUS
  <2>2. /\ ~StoreExecuted(q, b) /\ i \in rob[q].dependents
        /\ b \in rob[i].loaded /\ rob[i].lq_index[b] = s
    BY <1>12, <2>1 DEF IInv, LoadsInv, LoadInv, WaitsFor
  <2>3. ~(q = p /\ b = a)
    BY <2>2 DEF Dependents
  <2>. QED
    BY <1>7, <2>2, <2>3
<1>13. /\ DOMAIN rob' = InRob
       /\ \A k \in InRob : rob'[k] = [rob[k] EXCEPT !.num_mem_ops =
                                         @ - OpsDone(k, W) - (IF k = p THEN 1 ELSE 0)]
  BY DEF ExecuteStore
<1>14. ASSUME NEW k \in InRob
       PROVE  /\ StoresLeft(k)' \subseteq StoresLeft(k)
              /\ rob'[k] = WithCount(rob[k], rob[k].num_mem_ops - OpsDone(k, W)
                               - (Cardinality(StoresLeft(k)) - Cardinality(StoresLeft(k)')))
  <2>1. rob'[k].op = rob[k].op
    <3>1. PICK n : n = rob[k].num_mem_ops - OpsDone(k, W) - (IF k = p THEN 1 ELSE 0)
      OBVIOUS
    <3>2. PICK e, f : e = rob[k] /\ f = rob'[k]
      OBVIOUS
    <3>3. e \in Entry /\ f = WithCount(e, n)
      BY <1>0, <1>13, <3>1, <3>2 DEF TypeOK, WithCount
    <3>. QED
      BY <3>2, <3>3, CountEntryIs
  <2>2. StoresLeft(k)' = IF k = p THEN StoresLeft(k) \ {a} ELSE StoresLeft(k)
    BY <1>7, <2>1 DEF StoresLeft
  <2>3. k = p => a \in StoresLeft(k)
    BY <1>4, <1>8 DEF StoresLeft
  <2>4. IsFiniteSet(StoresLeft(k)) /\ Cardinality(StoresLeft(k)) \in Nat
    BY <1>0, FiniteParts, FS_CardinalityType
  <2>5. Cardinality(StoresLeft(k) \ {a}) = Cardinality(StoresLeft(k)) - (IF a \in StoresLeft(k) THEN 1 ELSE 0)
    <3>1. PICK X : X = StoresLeft(k)
      OBVIOUS
    <3>2. Cardinality(X \ {a}) = IF a \in X THEN Cardinality(X) - 1 ELSE Cardinality(X)
      BY <2>4, <3>1, FS_RemoveElement
    <3>. QED
      BY <2>4, <3>1, <3>2
  <2>6. Cardinality(StoresLeft(k)) - Cardinality(StoresLeft(k)') = IF k = p THEN 1 ELSE 0
    BY <2>2, <2>3, <2>4, <2>5
  <2>7. rob'[k] = WithCount(rob[k], rob[k].num_mem_ops - OpsDone(k, W) - (IF k = p THEN 1 ELSE 0))
    BY <1>13 DEF WithCount
  <2>. QED
    BY <2>2, <2>6, <2>7
<1>15. /\ \A k \in InRob : rob'[k] \in Entry
       /\ StoreFieldsKept /\ EntriesInv' /\ RawInv' /\ LoadsInv' /\ MemOpsExact'
  <2>1. \A s \in LqSlots : s \in l1d' <=> s \in l1d /\ s \notin W
    BY <1>0, <1>11
  <2>2. \A q, b : \A s \in LqSlots \ W : WaitsFor(s, q, b) => ~StoreExecuted(q, b)'
    BY <1>12
  <2>3. /\ \A k \in InRob : StoresLeft(k)' \subseteq StoresLeft(k)
        /\ \A k \in InRob :
              rob'[k] = WithCount(rob[k], rob[k].num_mem_ops - OpsDone(k, W)
                            - (Cardinality(StoresLeft(k)) - Cardinality(StoresLeft(k)')))
    BY <1>14
  <2>4. InRobKept /\ lq' = Released(W) /\ rtl' = rtl /\ DOMAIN rob' = InRob /\ \A s \in W : ~InRtl(s)
    BY <1>0, <1>5, <1>11, <1>13
  <2>. QED
    BY <1>10, <2>1, <2>2, <2>3, <2>4, ReleaseInv
<1>16. StoresInv'
  <2>1. ASSUME NEW s \in SqSlots PROVE StoreInv(s)'
    <3>1. StoreInv(s)
      BY DEF IInv, StoresInv
    <3>. QED
      BY <1>0, <1>6, <1>15, <3>1 DEF StoreInv, StoreFieldsKept
  <2>2. Distinct(rts)'
    BY <1>0, <1>1 DEF Distinct
  <2>3. RtsInv'
    <3>1. ASSUME NEW k \in 1..Len(rts'), NEW s, s = rts'[k] PROVE StoreUsed(s)' /\ ~sq'[s].fetched
      <4>1. k + 1 \in 1..Len(rts) /\ s = rts[k + 1] /\ s \in SqSlots /\ s # t
        BY <1>0, <1>1, <1>2, <3>1
      <4>2. StoreUsed(s) /\ ~sq[s].fetched
        BY <4>1 DEF IInv, StoresInv, RtsInv
      <4>. QED
        BY <1>6, <4>1, <4>2
    <3>. QED
      BY <3>1 DEF RtsInv, StoreUsed
  <2>4. StaInv'
    BY <1>0 DEF IInv, StoresInv, StaInv
  <2>5. \E m \in 0..SqSize : Window(m)'
    <3>1. PICK m \in 0..SqSize : Window(m)
      BY DEF IInv, StoresInv
    <3>2. \A k \in 1..SqSize : BackSlot(k) \in SqSlots /\ BackSlot(k)' = BackSlot(k)
      <4>1. sq_tail \in 0..(SqSize - 1) /\ SqSize \in Nat
        BY <1>0, Ranges DEF TypeOK, SqSlots
      <4>. QED
        BY <1>0, <4>1 DEF BackSlot, SqSlots
    <3>3. \A k \in 1..SqSize : k < m => k + 1 \in 1..SqSize
      BY <1>0, Ranges
    <3>4. Window(m)'
      BY <1>6, <3>1, <3>2, <3>3 DEF Window
    <3>. QED
      BY <3>4
  <2>. QED
    BY <2>1, <2>2, <2>3, <2>4, <2>5 DEF StoresInv
<1>17. TypeOK'
  BY <1>0, <1>1, <1>5, <1>6, <1>10, <1>13, <1>15, ReleasedIs DEF TypeOK
<1>. QED
  BY <1>15, <1>16, <1>17 DEF IInv

-----------------------------------------------------------------------------
(* SQ as a ring. *)

LEMMA Modulus ==
    ASSUME NEW n \in Nat, n > 0, NEW x \in 0..(2 * n - 1)
    PROVE  x % n = IF x < n THEN x ELSE x - n
  OBVIOUS

\* BackSlot(1), ..., BackSlot(SqSize) are the slots, each one once.
LEMMA BackSlots ==
    ASSUME TypeOK
    PROVE  /\ \A k \in 1..SqSize : BackSlot(k) \in SqSlots
           /\ \A j, k \in 1..SqSize : BackSlot(j) = BackSlot(k) => j = k
           /\ \A s \in SqSlots : \E k \in 1..SqSize : s = BackSlot(k)
           /\ \A k \in 1..SqSize : BackSlot(k) = (sq_tail + SqSize - k) % SqSize
<1>1. SqSize \in Nat /\ SqSize > 0 /\ sq_tail \in Nat /\ sq_tail < SqSize
  BY Ranges DEF TypeOK, SqSlots
<1>2. ASSUME NEW s \in SqSlots PROVE \E k \in 1..SqSize : s = BackSlot(k)
  <2>1. CASE s < sq_tail
    <3>1. sq_tail - s \in 1..SqSize /\ s = BackSlot(sq_tail - s)
      BY <1>1, <2>1 DEF BackSlot, SqSlots
    <3>. QED
      BY <3>1
  <2>2. CASE s >= sq_tail
    <3>1. sq_tail + SqSize - s \in 1..SqSize /\ s = BackSlot(sq_tail + SqSize - s)
      BY <1>1, <2>2 DEF BackSlot, SqSlots
    <3>. QED
      BY <3>1
  <2>. QED
    BY <1>1, <2>1, <2>2 DEF SqSlots
<1>3. ASSUME NEW k \in 1..SqSize PROVE BackSlot(k) = (sq_tail + SqSize - k) % SqSize
  <2>1. PICK x : x = sq_tail + SqSize - k
    OBVIOUS
  <2>2. x \in 0..(2 * SqSize - 1)
    BY <1>1, <2>1
  <2>3. x % SqSize = IF x < SqSize THEN x ELSE x - SqSize
    BY <1>1, <2>2, Modulus
  <2>. QED
    BY <1>1, <2>1, <2>3 DEF BackSlot
<1>. QED
  BY <1>1, <1>2, <1>3 DEF BackSlot, SqSlots

LEMMA WindowCounts ==
    ASSUME TypeOK, NEW m \in 0..SqSize, Window(m)
    PROVE  SqOccupancy = m
<1>. DEFINE U == {s \in SqSlots : sq[s] # FreeStore}
            f == [k \in 1..m |-> BackSlot(k)]
<1>1. \A k \in 1..m : k \in 1..SqSize
  BY Ranges
<1>2. f \in [1..m -> U]
  BY <1>1, BackSlots DEF Window, StoreUsed
<1>3. f \in Injection(1..m, U)
  BY <1>1, <1>2, BackSlots DEF Injection, IsInjective
<1>4. \A s \in U : \E k \in 1..m : f[k] = s
  <2>. SUFFICES ASSUME NEW s \in U PROVE \E k \in 1..m : f[k] = s
    OBVIOUS
  <2>1. PICK k \in 1..SqSize : s = BackSlot(k)
    BY BackSlots
  <2>2. k <= m
    BY <2>1 DEF Window, StoreUsed
  <2>. QED
    BY <2>1, <2>2
<1>5. f \in Bijection(1..m, U)
  BY <1>2, <1>3, <1>4 DEF Bijection, Surjection
<1>6. ExistsBijection(1..m, U)
  BY <1>5 DEF ExistsBijection
<1>7. Cardinality(U) = m
  BY <1>6, FS_CountingElements
<1>. QED
  BY <1>7 DEF SqOccupancy

\* STA without its first store of an instruction.
LEMMA WithoutIs ==
    ASSUME NEW S, NEW q \in Seq(S), q # <<>>, NEW i, Head(q) = i
    PROVE  /\ Without(q, i) \in Seq(S) /\ Len(Without(q, i)) = Len(q) - 1
           /\ \E k \in 1..Len(q) : \A j \in 1..(Len(q) - 1) :
                  Without(q, i)[j] = IF j < k THEN q[j] ELSE q[j + 1]
<1>1. Len(q) \in Nat /\ Len(q) > 0 /\ DOMAIN q = 1..Len(q) /\ q[1] = i
  OBVIOUS
<1>2. PICK k : k = CHOOSE j \in DOMAIN q : q[j] = i
  OBVIOUS
<1>3. k \in 1..Len(q)
  BY <1>1, <1>2
<1>4. PICK a, b : a = SubSeq(q, 1, k - 1) /\ b = SubSeq(q, k + 1, Len(q))
  OBVIOUS
<1>5. /\ a \in Seq(S) /\ Len(a) = k - 1 /\ b \in Seq(S) /\ Len(b) = Len(q) - k
      /\ \A j \in 1..(k - 1) : a[j] = q[j]
      /\ \A j \in 1..(Len(q) - k) : b[j] = q[k + j]
  <2>1. /\ \A j \in 1..(k - 1) : q[j] \in S
        /\ \A j \in (k + 1)..Len(q) : q[j] \in S
        /\ 1 \in Int /\ k - 1 \in Int /\ k + 1 \in Int /\ Len(q) \in Int
    BY <1>1, <1>3
  <2>2. /\ a \in Seq(S) /\ Len(a) = IF 1 <= k - 1 THEN (k - 1) - 1 + 1 ELSE 0
        /\ \A j \in 1..((k - 1) - 1 + 1) : a[j] = q[1 + j - 1]
    BY <1>4, <2>1, SubSeqProperties
  <2>3. /\ b \in Seq(S) /\ Len(b) = IF k + 1 <= Len(q) THEN Len(q) - (k + 1) + 1 ELSE 0
        /\ \A j \in 1..(Len(q) - (k + 1) + 1) : b[j] = q[(k + 1) + j - 1]
    BY <1>4, <2>1, SubSeqProperties
  <2>4. Len(a) = k - 1 /\ Len(b) = Len(q) - k
    <3>1. PICK n, x, y : n = Len(q) /\ x = Len(a) /\ y = Len(b)
      OBVIOUS
    <3>2. n \in Nat /\ k \in 1..n
      BY <1>1, <1>3, <3>1
    <3>3. /\ x = IF 1 <= k - 1 THEN (k - 1) - 1 + 1 ELSE 0
          /\ y = IF k + 1 <= n THEN n - (k + 1) + 1 ELSE 0
      BY <2>2, <2>3, <3>1
    <3>. QED
      BY <3>1, <3>2, <3>3
  <2>5. ASSUME NEW j \in 1..(k - 1) PROVE a[j] = q[j]
    <3>1. j \in 1..((k - 1) - 1 + 1) /\ 1 + j - 1 = j
      BY <1>3
    <3>. QED
      BY <2>2, <3>1
  <2>6. ASSUME NEW j \in 1..(Len(q) - k) PROVE b[j] = q[k + j]
    <3>1. j \in 1..(Len(q) - (k + 1) + 1) /\ (k + 1) + j - 1 = k + j
      BY <1>1, <1>3
    <3>. QED
      BY <2>3, <3>1
  <2>. QED
    BY <2>2, <2>3, <2>4, <2>5, <2>6
<1>6. Without(q, i) = a \o b
  BY <1>2, <1>4 DEF Without
<1>7. /\ a \o b \in Seq(S) /\ Len(a \o b) = Len(q) - 1
      /\ \A j \in 1..(Len(q) - 1) : (a \o b)[j] = IF j < k THEN q[j] ELSE q[j + 1]
  <2>0. /\ a \o b \in Seq(S) /\ Len(a \o b) = Len(a) + Len(b)
        /\ \A j \in 1..(Len(a) + Len(b)) :
              (a \o b)[j] = IF j <= Len(a) THEN a[j] ELSE b[j - Len(a)]
    BY <1>5, ConcatProperties
  <2>1. Len(a \o b) = Len(q) - 1
    BY <1>1, <1>3, <1>5, <2>0
  <2>2. ASSUME NEW j \in 1..(Len(q) - 1)
        PROVE  (a \o b)[j] = IF j < k THEN q[j] ELSE q[j + 1]
    <3>0. j \in 1..(Len(a) + Len(b))
      BY <1>1, <1>3, <1>5
    <3>1. CASE j < k
      BY <1>1, <1>3, <1>5, <2>0, <3>0, <3>1
    <3>2. CASE j >= k
      <4>1. j - (k - 1) \in 1..(Len(q) - k)
        BY <1>1, <1>3, <3>2
      <4>2. (a \o b)[j] = b[j - (k - 1)]
        BY <1>1, <1>3, <1>5, <2>0, <3>0, <3>2
      <4>3. b[j - (k - 1)] = q[k + (j - (k - 1))] /\ k + (j - (k - 1)) = j + 1
        BY <1>3, <1>5, <4>1
      <4>. QED
        BY <1>3, <3>2, <4>2, <4>3
    <3>3. j < k \/ j >= k
      BY <1>1, <1>3
    <3>. QED
      BY <3>1, <3>2, <3>3
  <2>. QED
    BY <2>0, <2>1, <2>2
<1>. QED
  BY <1>3, <1>6, <1>7

\* SQ.tail goes one slot on: the slots behind it are one place further back.
LEMMA TailMoves ==
    ASSUME TypeOK, sq_tail' = (sq_tail + 1) % SqSize
    PROVE  /\ sq_tail' \in SqSlots /\ BackSlot(SqSize) = sq_tail /\ BackSlot(1)' = sq_tail
           /\ \A k \in 1..SqSize : k > 1 => BackSlot(k)' = BackSlot(k - 1)
<1>1. PICK n, t, u : n = SqSize /\ t = sq_tail /\ u = sq_tail'
  OBVIOUS
<1>2. n \in Nat /\ n > 0 /\ t \in Nat /\ t < n
  BY <1>1, Ranges DEF TypeOK, SqSlots
<1>3. t + 1 \in 0..(2 * n - 1)
  BY <1>2
<1>4. u = IF t + 1 < n THEN t + 1 ELSE t + 1 - n
  BY <1>1, <1>2, <1>3, Modulus
<1>5. u \in 0..(n - 1) /\ (u = t + 1 \/ (u = 0 /\ t = n - 1))
  BY <1>2, <1>4
<1>6. /\ BackSlot(SqSize) = IF n <= t THEN t - n ELSE t + n - n
      /\ BackSlot(1)' = IF 1 <= u THEN u - 1 ELSE u + n - 1
  BY <1>1 DEF BackSlot
<1>7. BackSlot(SqSize) = t /\ BackSlot(1)' = t
  BY <1>2, <1>5, <1>6
<1>8. ASSUME NEW k \in 1..SqSize, k > 1 PROVE BackSlot(k)' = BackSlot(k - 1)
  <2>1. /\ BackSlot(k)' = IF k <= u THEN u - k ELSE u + n - k
        /\ BackSlot(k - 1) = IF k - 1 <= t THEN t - (k - 1) ELSE t + n - (k - 1)
    BY <1>1 DEF BackSlot
  <2>2. k \in 1..n
    BY <1>1, <1>8
  <2>. QED
    BY <1>2, <1>5, <1>8, <2>1, <2>2
<1>. QED
  BY <1>1, <1>5, <1>7, <1>8 DEF SqSlots

WithStored(e, a) == [e EXCEPT !.stored = e.stored \cup {a}]

LEMMA StoredEntryIs ==
    ASSUME NEW e \in Entry, NEW a \in Addr, NEW f, f = WithStored(e, a)
    PROVE  /\ f \in Entry /\ f.op = e.op /\ f.scheduled = e.scheduled
           /\ f.executed = e.executed /\ f.waits = e.waits /\ f.loaded = e.loaded
           /\ f.lq_index = e.lq_index /\ f.dependents = e.dependents
           /\ f.num_mem_ops = e.num_mem_ops /\ f.stored = e.stored \cup {a}
<1>1. e.stored \cup {a} \in SUBSET Addr
  BY DEF Entry
<1>. QED
  BY <1>1 DEF Entry, WithStored

LEMMA AddStoreInv ==
    ASSUME IInv, NEW i \in InRob, NEW a \in Addr, AddStore(i, a)
    PROVE  IInv'
<1>0. /\ TypeOK /\ StoresInv /\ InRobKept /\ InRob' = InRob
      /\ a \in rob[i].op.stores /\ a \notin rob[i].stored
      /\ sta # <<>> /\ Head(sta) = i /\ sta' = Without(sta, i)
      /\ UNCHANGED <<head, next, lq, rtl, l1d>>
  BY DEF IInv, AddStore, StoreTurn, InRobKept, InRob
<1>1. PICK m \in 0..SqSize : Window(m)
  BY <1>0 DEF StoresInv
<1>2. m < SqSize /\ m \in Nat /\ SqSize \in Nat /\ SqSize > 0
  <2>1. SqOccupancy = m /\ SqOccupancy < SqSize
    BY <1>0, <1>1, WindowCounts DEF AddStore
  <2>. QED
    BY <1>0, <2>1, Ranges
<1>. PICK t, new : t = sq_tail /\ new = [id |-> i, address |-> a, fetched |-> FALSE]
  OBVIOUS
<1>3. /\ sq_tail' \in SqSlots /\ BackSlot(SqSize) = t /\ BackSlot(1)' = t
      /\ \A k \in 1..SqSize : k > 1 => BackSlot(k)' = BackSlot(k - 1)
  BY <1>0, TailMoves DEF AddStore
<1>4. t \in SqSlots /\ ~StoreUsed(t)
  BY <1>0, <1>1, <1>2, <1>3 DEF TypeOK, Window
<1>5. /\ i \in 0..(MaxInstr - 1) /\ i # None
  BY <1>0, Ranges
<1>6. sq' = [sq EXCEPT ![t] = new] /\ rts' = Append(rts, t)
  BY DEF AddStore
<1>7. /\ sq \in [SqSlots -> [id : {None} \cup 0..(MaxInstr - 1), address : {None} \cup Addr,
                             fetched : BOOLEAN]]
      /\ sq' \in [SqSlots -> [id : {None} \cup 0..(MaxInstr - 1), address : {None} \cup Addr,
                              fetched : BOOLEAN]]
  <2>1. sq \in [SqSlots -> [id : {None} \cup 0..(MaxInstr - 1), address : {None} \cup Addr,
                            fetched : BOOLEAN]]
    BY <1>0 DEF TypeOK
  <2>2. new \in [id : {None} \cup 0..(MaxInstr - 1), address : {None} \cup Addr, fetched : BOOLEAN]
    BY <1>5
  <2>. QED
    BY <1>4, <1>6, <2>1, <2>2
<1>8. /\ sq'[t].id = i /\ sq'[t].address = a /\ ~sq'[t].fetched /\ StoreUsed(t)' /\ ~sq[t].fetched
      /\ \A s \in SqSlots : s # t => sq'[s] = sq[s] /\ StoreUsed(s)' = StoreUsed(s)
  <2>1. sq'[t] = new /\ \A s \in SqSlots : s # t => sq'[s] = sq[s]
    BY <1>4, <1>6, <1>7
  <2>2. sq'[t].id = i /\ sq'[t].address = a /\ ~sq'[t].fetched /\ sq'[t].id # FreeStore.id
    BY <1>5, <2>1 DEF FreeStore
  <2>3. ~sq[t].fetched
    BY <1>4 DEF StoreUsed, FreeStore
  <2>. QED
    BY <2>1, <2>2, <2>3 DEF StoreUsed
<1>9. ExecutedKept
  <2>1. ASSUME NEW p, NEW b PROVE StoreExecuted(p, b)' <=> StoreExecuted(p, b)
    <3>1. StoreExecuted(p, b) <=>
              \E s \in SqSlots : sq[s].id = p /\ sq[s].address = b /\ sq[s].fetched
      <4>1. StoreExecuted(p, b) <=>
                \E s \in SqSlots : sq[s] = [id |-> p, address |-> b, fetched |-> TRUE]
        BY DEF StoreExecuted, Forwards
      <4>. QED
        BY <1>7, <4>1, ExecutedByFields
    <3>2. StoreExecuted(p, b)' <=>
              \E s \in SqSlots : sq'[s].id = p /\ sq'[s].address = b /\ sq'[s].fetched
      BY <1>7, ExecutedByFields DEF StoreExecuted, Forwards
    <3>. QED
      BY <1>8, <3>1, <3>2
  <2>. QED
    BY <2>1 DEF ExecutedKept
<1>10. DOMAIN rob' = InRob' /\ \A k \in InRob : k # i => rob'[k] = rob[k]
  BY <1>0 DEF AddStore, TypeOK
<1>11. /\ rob'[i] \in Entry /\ rob'[i].op = rob[i].op /\ rob'[i].scheduled = rob[i].scheduled
       /\ rob'[i].executed = rob[i].executed /\ rob'[i].waits = rob[i].waits
       /\ rob'[i].loaded = rob[i].loaded /\ rob'[i].lq_index = rob[i].lq_index
       /\ rob'[i].dependents = rob[i].dependents
       /\ rob'[i].num_mem_ops = rob[i].num_mem_ops /\ rob'[i].stored = rob[i].stored \cup {a}
  <2>1. PICK e, f : e = rob[i] /\ f = rob'[i]
    OBVIOUS
  <2>2. e \in Entry /\ f = WithStored(e, a)
    BY <1>0, <2>1 DEF AddStore, TypeOK, WithStored
  <2>. QED
    BY <2>1, <2>2, StoredEntryIs
<1>12. OpsKept /\ LoadFieldsKept /\ RunFieldsKept /\ CountsKept
  BY <1>10, <1>11 DEF OpsKept, LoadFieldsKept, RunFieldsKept, CountsKept
<1>13. RawInv' /\ LoadsInv'
  BY <1>0, <1>9, <1>12, RawFrame, LoadsFrame DEF IInv
<1>14. /\ MemOpsExact'
       /\ \A k \in InRob : LoadsOf(k)' = LoadsOf(k) /\ StoresLeft(k)' = StoresLeft(k)
  BY <1>0, <1>9, <1>12, CountsFrame DEF IInv
<1>15. EntriesInv'
  <2>1. ASSUME NEW k \in InRob PROVE EntryInv(k)'
    <3>1. EntryInv(k) /\ Ready(k)' = Ready(k)
      BY <1>12 DEF IInv, EntriesInv, Ready, RunFieldsKept
    <3>2. rob'[k].stored \subseteq rob[k].op.stores
      BY <1>0, <1>10, <1>11, <3>1 DEF EntryInv
    <3>. QED
      BY <1>0, <1>12, <1>14, <3>1, <3>2
      DEF EntryInv, InRobKept, OpsKept, LoadFieldsKept, RunFieldsKept
  <2>. QED
    BY <1>0, <2>1 DEF EntriesInv
<1>16. /\ sta' \in Seq(0..(MaxInstr - 1)) /\ Len(sta') = Len(sta) - 1
       /\ \E k \in 1..Len(sta) : \A j \in 1..Len(sta') :
             sta'[j] = IF j < k THEN sta[j] ELSE sta[j + 1]
  <2>1. PICK S, q, w : S = 0..(MaxInstr - 1) /\ q = sta /\ w = sta'
    OBVIOUS
  <2>2. q \in Seq(S) /\ q # <<>> /\ Head(q) = i /\ w = Without(q, i)
    BY <1>0, <2>1 DEF TypeOK
  <2>3. /\ Without(q, i) \in Seq(S) /\ Len(Without(q, i)) = Len(q) - 1
        /\ \E k \in 1..Len(q) : \A j \in 1..(Len(q) - 1) :
               Without(q, i)[j] = IF j < k THEN q[j] ELSE q[j + 1]
    BY <2>2, WithoutIs
  <2>4. /\ w \in Seq(S) /\ Len(w) = Len(q) - 1
        /\ \E k \in 1..Len(q) : \A j \in 1..Len(w) : w[j] = IF j < k THEN q[j] ELSE q[j + 1]
    BY <2>2, <2>3
  <2>. QED
    BY <2>1, <2>4
<1>17. Len(sta) \in Nat /\ Len(sta) > 0 /\ sta[1] = i
  BY <1>0 DEF TypeOK
<1>18. /\ StaInv' /\ \A j \in 1..Len(sta') : i <= sta'[j] /\ \E k \in 1..Len(sta) : sta'[j] = sta[k]
  <2>1. PICK k \in 1..Len(sta) : \A j \in 1..Len(sta') :
             sta'[j] = IF j < k THEN sta[j] ELSE sta[j + 1]
    BY <1>16
  <2>2. \A j \in 1..Len(sta') : j \in 1..Len(sta) /\ j + 1 \in 1..Len(sta)
    BY <1>16, <1>17
  <2>3. \A j \in 1..Len(sta) : i <= sta[j] /\ sta[j] < next
    BY <1>0, <1>17 DEF StoresInv, StaInv
  <2>4. \A j \in 1..Len(sta') : \E n \in 1..Len(sta) : sta'[j] = sta[n]
    BY <2>1, <2>2
  <2>5. ASSUME NEW j \in 1..Len(sta'), NEW n \in 1..Len(sta'), j <= n
        PROVE  sta'[j] <= sta'[n]
    <3>1. PICK x, y : /\ x = IF j < k THEN j ELSE j + 1
                      /\ y = IF n < k THEN n ELSE n + 1
      OBVIOUS
    <3>2. x \in 1..Len(sta) /\ y \in 1..Len(sta) /\ sta'[j] = sta[x] /\ sta'[n] = sta[y]
      BY <2>1, <2>2, <3>1
    <3>3. x <= y
      BY <2>5, <3>1
    <3>. QED
      BY <1>0, <3>2, <3>3 DEF StoresInv, StaInv
  <2>. QED
    BY <1>0, <2>3, <2>4, <2>5 DEF StaInv
<1>19. ASSUME NEW s \in SqSlots PROVE StoreInv(s)'
  <2>. SUFFICES ASSUME StoreUsed(s)' PROVE StoreInv(s)'
    BY DEF StoreInv
  <2>1. CASE s = t
    <3>1. ASSUME NEW u \in SqSlots, sq'[u].id = i, sq'[u].address = a PROVE u = t
      <4>1. CASE u # t
        <5>1. sq[u].id = i /\ sq[u].address = a
          BY <1>8, <3>1, <4>1
        <5>2. a \in rob[i].stored
          BY <1>0, <1>5, <5>1, UsedById DEF StoresInv, StoreInv
        <5>. QED
          BY <1>0, <5>2
      <4>. QED
        BY <4>1
    <3>. QED
      BY <1>0, <1>8, <1>11, <1>18, <2>1, <3>1 DEF StoreInv
  <2>2. CASE s # t
    <3>0. sq'[s] = sq[s] /\ StoreUsed(s) /\ StoreInv(s)
      BY <1>0, <1>8, <2>2 DEF StoresInv
    <3>1. /\ sq[s].id \in InRob /\ sq[s].address \in rob[sq[s].id].stored
          /\ \A u \in SqSlots : sq[u].id = sq[s].id /\ sq[u].address = sq[s].address => u = s
          /\ \A k \in 1..Len(sta) : sq[s].id <= sta[k]
      BY <3>0 DEF StoreInv
    <3>2. \A u \in SqSlots : sq'[u].id = sq[s].id /\ sq'[u].address = sq[s].address => u = s
      <4>1. ~(i = sq[s].id /\ a = sq[s].address)
        BY <1>0, <3>1
      <4>. QED
        BY <1>8, <3>1, <4>1
    <3>3. PICK p : p = sq[s].id
      OBVIOUS
    <3>4. sq[s].address \in rob'[p].stored
      BY <1>10, <1>11, <3>1, <3>3
    <3>. QED
      BY <1>0, <1>18, <3>0, <3>1, <3>2, <3>3, <3>4 DEF StoreInv
  <2>. QED
    BY <2>1, <2>2
<1>20. Distinct(rts)' /\ RtsInv'
  <2>1. rts \in Seq(SqSlots) /\ Distinct(rts) /\ RtsInv
    BY <1>0 DEF TypeOK, StoresInv
  <2>2. \A k \in 1..Len(rts) : rts[k] # t
    BY <1>4, <2>1 DEF RtsInv
  <2>3. Distinct(Append(rts, t))
    BY <1>4, <2>1, <2>2, DistinctAppend
  <2>4. /\ Len(rts) \in Nat /\ Len(rts') = Len(rts) + 1 /\ rts'[Len(rts) + 1] = t
        /\ \A k \in 1..Len(rts) : rts'[k] = rts[k] /\ rts[k] \in SqSlots
    BY <1>4, <1>6, <2>1
  <2>5. ASSUME NEW k \in 1..Len(rts'), NEW s, s = rts'[k] PROVE StoreUsed(s)' /\ ~sq'[s].fetched
    <3>1. CASE k = Len(rts) + 1
      BY <1>8, <2>4, <2>5, <3>1
    <3>2. CASE k # Len(rts) + 1
      <4>1. k \in 1..Len(rts)
        BY <2>4, <3>2
      <4>2. s = rts[k] /\ s \in SqSlots /\ s # t /\ StoreUsed(s) /\ ~sq[s].fetched
        BY <2>1, <2>2, <2>4, <2>5, <4>1 DEF RtsInv
      <4>. QED
        BY <1>8, <4>2
    <3>. QED
      BY <3>1, <3>2
  <2>. QED
    BY <1>6, <2>3, <2>5 DEF Distinct, RtsInv, StoreUsed
<1>21. Window(m + 1)'
  <2>. SUFFICES ASSUME NEW k \in 1..SqSize, NEW u, u = BackSlot(k)', NEW v, v = BackSlot(k + 1)'
                PROVE  /\ StoreUsed(u)' <=> k <= m + 1
                       /\ k < m + 1 => sq'[v].id <= sq'[u].id
    BY DEF Window, StoreUsed, BackSlot
  <2>0. k < m + 1 => k + 1 \in 1..SqSize /\ k + 1 > 1 /\ k \in 1..SqSize /\ k <= m
    BY <1>2
  <2>1. k < m + 1 => v = BackSlot(k) /\ v \in SqSlots /\ v # t /\ StoreUsed(v)
    <3>1. k < m + 1 => BackSlot(k + 1)' = BackSlot(k + 1 - 1) /\ k + 1 - 1 = k
      BY <1>3, <2>0
    <3>2. k < m + 1 => BackSlot(k) \in SqSlots /\ BackSlot(k) # t
      BY <1>0, <1>2, <1>3, <2>0, BackSlots
    <3>. QED
      BY <1>1, <2>0, <3>1, <3>2 DEF Window
  <2>2. CASE k = 1
    <3>1. u = t
      BY <1>3, <2>2
    <3>2. k < m + 1 => sq[v].id <= i
      BY <1>0, <1>17, <2>1 DEF StoresInv, StoreInv
    <3>. QED
      BY <1>2, <1>8, <2>1, <2>2, <3>1, <3>2
  <2>3. CASE k # 1
    <3>1. k > 1 /\ k - 1 \in 1..SqSize /\ k - 1 # SqSize /\ SqSize \in 1..SqSize
      BY <1>2, <2>3
    <3>2. u = BackSlot(k - 1) /\ u \in SqSlots /\ u # t
      BY <1>0, <1>3, <3>1, BackSlots
    <3>3. StoreUsed(u) <=> k - 1 <= m
      BY <1>1, <3>1, <3>2 DEF Window
    <3>4. k < m + 1 => sq[v].id <= sq[u].id
      <4>1. k < m + 1 => k - 1 < m /\ (k - 1) + 1 = k
        BY <1>2
      <4>2. k - 1 < m => sq[BackSlot((k - 1) + 1)].id <= sq[BackSlot(k - 1)].id
        BY <1>1, <3>1 DEF Window
      <4>. QED
        BY <2>1, <3>2, <4>1, <4>2
    <3>. QED
      BY <1>2, <1>8, <2>1, <3>2, <3>3, <3>4
  <2>. QED
    BY <2>2, <2>3
<1>22. StoresInv'
  <2>1. m + 1 \in 0..SqSize
    BY <1>2
  <2>. QED
    BY <1>18, <1>19, <1>20, <1>21, <2>1 DEF StoresInv
<1>23. TypeOK'
  <2>1. \A k \in InRob' : rob'[k] \in Entry
    BY <1>0, <1>10, <1>11 DEF TypeOK
  <2>2. rts' \in Seq(SqSlots)
    BY <1>0, <1>4, <1>6 DEF TypeOK
  <2>. QED
    BY <1>0, <1>3, <1>7, <1>10, <1>16, <2>1, <2>2 DEF TypeOK
<1>. QED
  BY <1>13, <1>14, <1>15, <1>22, <1>23 DEF IInv

\* In numbers that never grow, the least ones come last.
NeverGrows(id, m, h) ==
    \A k \in 1..m : id[k] \in Nat /\ h <= id[k] /\ (k < m => id[k + 1] <= id[k])

LeastFrom(id, m, h, n) == \A k \in 1..m : id[k] = h <=> n < k

LEMMA LeastComeLast ==
    ASSUME NEW m \in Nat, NEW h \in Nat, NEW id, NeverGrows(id, m, h)
    PROVE  \E n \in 0..m : LeastFrom(id, m, h, n)
<1>. USE DEF NeverGrows, LeastFrom
<1>. DEFINE F == {k \in 1..m : id[k] = h}
<1>1. CASE F = {}
  <2>1. m \in 0..m /\ \A k \in 1..m : id[k] # h /\ ~(m < k)
    BY <1>1
  <2>. QED
    BY <2>1
<1>2. CASE F # {}
  <2>1. F \in SUBSET Nat
    OBVIOUS
  <2>2. PICK f \in F : \A k \in F : f <= k
    BY <1>2, <2>1, LeastExists
  <2>. DEFINE G == {k \in f..m : id[k] # h}
  <2>3. f \in 1..m /\ id[f] = h
    BY <2>2
  <2>4. G = {}
    <3>. SUFFICES ASSUME G # {} PROVE FALSE
      OBVIOUS
    <3>1. G \in SUBSET Nat
      BY <2>3
    <3>2. PICK g \in G : \A k \in G : g <= k
      BY <3>1, LeastExists
    <3>3. g \in 1..m /\ g # f /\ f <= g
      BY <2>3, <3>2
    <3>4. g - 1 \in f..m /\ g - 1 \notin G
      <4>1. g - 1 \in f..m /\ ~(g <= g - 1)
        BY <2>3, <3>3
      <4>. QED
        BY <3>2, <4>1
    <3>5. id[g - 1] = h
      BY <3>4
    <3>6. g - 1 \in 1..m /\ g - 1 < m /\ (g - 1) + 1 = g
      BY <2>3, <3>3, <3>4
    <3>7. id[(g - 1) + 1] <= id[g - 1]
      BY <3>6
    <3>8. id[g] <= h /\ h <= id[g] /\ id[g] \in Nat
      BY <3>3, <3>5, <3>6, <3>7
    <3>. QED
      BY <3>2, <3>8
  <2>5. f - 1 \in 0..m
    BY <2>3
  <2>6. ASSUME NEW k \in 1..m PROVE id[k] = h <=> f - 1 < k
    <3>1. id[k] = h => f <= k
      BY <2>2
    <3>2. f <= k => id[k] = h
      BY <2>3, <2>4
    <3>. QED
      BY <2>3, <3>1, <3>2
  <2>. QED
    BY <2>5, <2>6
<1>. QED
  BY <1>1, <1>2

LEMMA RetireInv ==
    ASSUME IInv, Retire
    PROVE  IInv'
<1>. PICK h : h = head
  OBVIOUS
<1>0. /\ TypeOK /\ EntriesInv /\ RawInv /\ LoadsInv /\ MemOpsExact /\ StoresInv
      /\ head' = h + 1 /\ h < next /\ rob[h].executed
      /\ UNCHANGED <<next, lq, sq_tail, sta, rtl, rts, l1d>>
  BY DEF IInv, Retire
<1>1. /\ h \in Nat /\ h \in InRob /\ h # None /\ next \in Nat
      /\ InRob' = InRob \ {h} /\ \A k \in InRob : k \in Nat /\ h <= k
  BY <1>0, Ranges DEF InRob
<1>2. DOMAIN rob' = InRob' /\ \A k \in InRob' : rob'[k] = rob[k]
  BY <1>0 DEF Retire, InRob
<1>3. LoadsOf(h) = {} /\ StoresLeft(h) = {}
  BY <1>0, <1>1 DEF EntriesInv, EntryInv
<1>4. sq \in [SqSlots -> [id : {None} \cup 0..(MaxInstr - 1), address : {None} \cup Addr,
                          fetched : BOOLEAN]]
  BY <1>0 DEF TypeOK
<1>5. \A s \in SqSlots : sq'[s] = IF sq[s].id = h THEN FreeStore ELSE sq[s]
  BY DEF Retire
<1>6. sq' \in [SqSlots -> [id : {None} \cup 0..(MaxInstr - 1), address : {None} \cup Addr,
                           fetched : BOOLEAN]]
  BY <1>4 DEF Retire, FreeStore
<1>7. ASSUME NEW s \in SqSlots PROVE StoreUsed(s)' <=> StoreUsed(s) /\ sq[s].id # h
  BY <1>1, <1>5 DEF StoreUsed, FreeStore
<1>8. ASSUME NEW p, NEW b, p # h PROVE StoreExecuted(p, b)' <=> StoreExecuted(p, b)
  <2>1. StoreExecuted(p, b) <=>
            \E s \in SqSlots : sq[s].id = p /\ sq[s].address = b /\ sq[s].fetched
    <3>1. StoreExecuted(p, b) <=>
              \E s \in SqSlots : sq[s] = [id |-> p, address |-> b, fetched |-> TRUE]
      BY DEF StoreExecuted, Forwards
    <3>. QED
      BY <1>4, <3>1, ExecutedByFields
  <2>2. StoreExecuted(p, b)' <=>
            \E s \in SqSlots : sq'[s].id = p /\ sq'[s].address = b /\ sq'[s].fetched
    BY <1>6, ExecutedByFields DEF StoreExecuted, Forwards
  <2>3. ASSUME NEW s \in SqSlots
        PROVE  sq'[s].id = p /\ sq'[s].address = b /\ sq'[s].fetched
                   <=> sq[s].id = p /\ sq[s].address = b /\ sq[s].fetched
    BY <1>5, <1>8 DEF FreeStore
  <2>. QED
    BY <2>1, <2>2, <2>3
<1>9. ASSUME NEW k \in InRob'
      PROVE  /\ k # h /\ k \in InRob /\ rob'[k] = rob[k]
             /\ LoadsOf(k)' = LoadsOf(k) /\ StoresLeft(k)' = StoresLeft(k)
             /\ Ready(k)' = Ready(k)
             /\ \A r : /\ Writers(k, r)' = Writers(k, r) \ {h}
                       /\ Storers(k, r)' = Storers(k, r) \ {h}
  <2>1. k # h /\ k \in InRob /\ rob'[k] = rob[k]
    BY <1>1, <1>2
  <2>2. \A q : q \in head'..(k - 1) <=> q \in head..(k - 1) /\ q # h
    BY <1>0, <1>1, <2>1
  <2>3. \A q \in head'..(k - 1) : q \in InRob'
    BY <1>0, <1>1, <2>1 DEF InRob
  <2>4. ASSUME NEW r
        PROVE  /\ Writers(k, r)' = Writers(k, r) \ {h}
               /\ Storers(k, r)' = Storers(k, r) \ {h}
    BY <1>2, <2>2, <2>3 DEF Writers, Storers
  <2>5. LoadsOf(k)' = LoadsOf(k) /\ StoresLeft(k)' = StoresLeft(k) /\ Ready(k)' = Ready(k)
    BY <1>0, <1>8, <2>1 DEF LoadsOf, StoresLeft, Ready
  <2>. QED
    BY <2>1, <2>4, <2>5
<1>10. TypeOK'
  <2>1. head' \in 0..MaxInstr /\ next' \in head'..MaxInstr /\ next' - head' <= RobSize
    BY <1>0, <1>1, Ranges DEF TypeOK
  <2>2. \A k \in InRob' : rob'[k] \in Entry
    BY <1>0, <1>9 DEF TypeOK
  <2>. QED
    BY <1>0, <1>2, <1>6, <2>1, <2>2 DEF TypeOK
<1>11. EntriesInv'
  <2>1. ASSUME NEW k \in InRob' PROVE EntryInv(k)'
    <3>1. EntryInv(k)
      BY <1>0, <1>9 DEF EntriesInv
    <3>. QED
      BY <1>0, <1>9, <3>1 DEF EntryInv
  <2>. QED
    BY <2>1 DEF EntriesInv
<1>12. RawInv'
  <2>. SUFFICES ASSUME NEW k \in InRob', rob'[k].scheduled, NEW r \in rob'[k].op.src,
                       NEW p \in InRob', IsYoungest(p, Writers(k, r))'
                PROVE  rob'[p].executed \/ <<p, r>> \in rob'[k].waits
    BY DEF RawInv
  <2>1. IsYoungest(p, Writers(k, r))
    <3>1. Writers(k, r)' = Writers(k, r) \ {h}
      BY <1>9
    <3>2. p \in Writers(k, r)' /\ \A q \in Writers(k, r)' : q <= p
      BY DEF IsYoungest
    <3>3. h <= p
      BY <1>1
    <3>. QED
      BY <3>1, <3>2, <3>3 DEF IsYoungest
  <2>. QED
    BY <1>0, <1>9, <2>1 DEF RawInv
<1>13. MemOpsExact'
  <2>1. \A k \in InRob : rob[k].num_mem_ops = Owed(k)
    BY <1>0, CountsAreOwed
  <2>2. \A k \in InRob' : rob'[k].num_mem_ops = Owed(k)'
    BY <1>9, <2>1 DEF Owed
  <2>. QED
    BY <2>2 DEF MemOpsExact, Owed, LoadsOf, StoresLeft
<1>14. ASSUME NEW t \in LqSlots PROVE LoadInv(t)'
  <2>. SUFFICES ASSUME LoadUsed(t) PROVE LoadInv(t)'
    BY <1>0 DEF LoadInv, LoadUsed
  <2>1. PICK k, b, q : k = lq[t].id /\ b = lq[t].address /\ q = lq[t].producer
    OBVIOUS
  <2>2. /\ k \in InRob /\ b \in rob[k].loaded /\ rob[k].lq_index[b] = t
        /\ q = None => Storers(k, b) = {}
        /\ q # None => IsYoungest(q, Storers(k, b)) /\ ~StoreExecuted(q, b)
                           /\ k \in rob[q].dependents
    BY <1>0, <2>1 DEF LoadsInv, LoadInv
  <2>3. k # h /\ k \in InRob'
    BY <1>1, <1>3, <2>1, <2>2 DEF LoadsOf
  <2>4. q # None => q \in InRob /\ b \in rob[q].op.stores
    BY <1>0, <2>2, Ranges DEF IsYoungest, Storers, InRob
  <2>5. q # None => q # h /\ q \in InRob'
    BY <1>1, <1>3, <2>2, <2>4 DEF StoresLeft
  <2>6. q # None => IsYoungest(q, Storers(k, b))'
    BY <1>9, <2>2, <2>3, <2>5 DEF IsYoungest
  <2>7. q = None => Storers(k, b)' = {}
    BY <1>9, <2>2, <2>3
  <2>8. q # None => ~StoreExecuted(q, b)' /\ k \in rob'[q].dependents
    BY <1>8, <1>9, <2>2, <2>5
  <2>. QED
    BY <1>0, <1>9, <2>1, <2>2, <2>3, <2>6, <2>7, <2>8 DEF LoadInv
<1>15. LoadsInv'
  BY <1>0, <1>14, ClaimsFrame DEF LoadsInv
<1>16. ASSUME NEW s \in SqSlots PROVE StoreInv(s)'
  <2>. SUFFICES ASSUME StoreUsed(s)' PROVE StoreInv(s)'
    BY DEF StoreInv
  <2>1. StoreUsed(s) /\ sq[s].id # h /\ sq'[s] = sq[s]
    BY <1>5, <1>7
  <2>2. /\ sq[s].id \in InRob /\ sq[s].address \in rob[sq[s].id].stored
        /\ \A t \in SqSlots : sq[t].id = sq[s].id /\ sq[t].address = sq[s].address => t = s
        /\ \A k \in 1..Len(sta) : sq[s].id <= sta[k]
    BY <1>0, <2>1 DEF StoresInv, StoreInv
  <2>3. PICK p : p = sq[s].id
    OBVIOUS
  <2>4. p \in InRob' /\ rob'[p] = rob[p] /\ p # None
    BY <1>0, <1>1, <1>2, <2>1, <2>2, <2>3, Ranges
  <2>5. \A t \in SqSlots : sq'[t].id = p => sq'[t] = sq[t]
    BY <1>5, <2>4 DEF FreeStore
  <2>. QED
    BY <1>0, <2>1, <2>2, <2>3, <2>4, <2>5 DEF StoreInv
<1>17. RtsInv'
  <2>1. ASSUME NEW k \in 1..Len(rts), NEW s, s = rts[k] PROVE StoreUsed(s)' /\ ~sq'[s].fetched
    <3>1. s \in SqSlots /\ StoreUsed(s) /\ ~sq[s].fetched
      BY <1>0, <2>1 DEF StoresInv, RtsInv, TypeOK
    <3>2. PICK p, b : p = sq[s].id /\ b = sq[s].address
      OBVIOUS
    <3>3. p \in InRob /\ b \in rob[p].op.stores
      BY <1>0, <3>1, <3>2 DEF StoresInv, StoreInv, EntriesInv, EntryInv
    <3>4. ~StoreExecuted(p, b)
      BY <3>1, <3>2, ExecutedSlot
    <3>5. p # h
      BY <1>3, <3>3, <3>4 DEF StoresLeft
    <3>. QED
      BY <1>5, <1>7, <3>1, <3>2, <3>5
  <2>. QED
    BY <1>0, <2>1 DEF RtsInv, StoreUsed
<1>18. \E n \in 0..SqSize : Window(n)'
  <2>1. PICK m \in 0..SqSize : Window(m)
    BY <1>0 DEF StoresInv
  <2>2. PICK id : id = [k \in 1..m |-> sq[BackSlot(k)].id]
    OBVIOUS
  <2>3. m \in Nat /\ SqSize \in Nat /\ m <= SqSize /\ \A k \in 1..m : k \in 1..SqSize /\ id[k] = sq[BackSlot(k)].id
    BY <1>0, <2>2, Ranges
  <2>4. \A k \in 1..SqSize : BackSlot(k) \in SqSlots /\ BackSlot(k)' = BackSlot(k)
    <3>1. \A k \in 1..SqSize : BackSlot(k) \in SqSlots
      BY <1>0, BackSlots
    <3>. QED
      BY <1>0, <3>1 DEF BackSlot
  <2>5. \A k \in 1..m : id[k] \in Nat /\ h <= id[k]
    <3>1. \A k \in 1..m : StoreUsed(BackSlot(k)) /\ BackSlot(k) \in SqSlots
      BY <2>1, <2>3, <2>4 DEF Window
    <3>2. \A k \in 1..m : sq[BackSlot(k)].id \in InRob
      BY <1>0, <3>1 DEF StoresInv, StoreInv
    <3>. QED
      BY <1>1, <2>3, <3>2
  <2>6. \A k \in 1..m : k < m => id[k + 1] <= id[k]
    <3>1. \A k \in 1..m : k < m => k + 1 \in 1..m
      BY <2>3
    <3>. QED
      BY <2>1, <2>3, <3>1 DEF Window
  <2>7. PICK n \in 0..m : \A k \in 1..m : id[k] = h <=> n < k
    <3>1. m \in Nat /\ h \in Nat /\ NeverGrows(id, m, h)
      BY <1>1, <2>3, <2>5, <2>6 DEF NeverGrows
    <3>2. \E n \in 0..m : LeastFrom(id, m, h, n)
      BY <3>1, LeastComeLast
    <3>. QED
      BY <3>2 DEF LeastFrom
  <2>8. n \in Nat /\ n <= m /\ n \in 0..SqSize
    BY <2>3
  <2>9. ASSUME NEW k \in 1..SqSize PROVE StoreUsed(BackSlot(k))' <=> k <= n
    <3>1. PICK u : u = BackSlot(k)
      OBVIOUS
    <3>2. u \in SqSlots /\ BackSlot(k)' = u /\ (StoreUsed(u) <=> k <= m)
      BY <2>1, <2>4, <3>1 DEF Window
    <3>3. StoreUsed(u)' <=> k <= n
      <4>1. CASE k <= m
        <5>1. k \in 1..m /\ sq[u].id = id[k]
          BY <2>3, <3>1, <4>1
        <5>2. sq[u].id = h <=> n < k
          BY <2>7, <5>1
        <5>3. n < k <=> ~(k <= n)
          BY <2>8
        <5>. QED
          BY <1>7, <3>2, <4>1, <5>2, <5>3
      <4>2. CASE ~(k <= m)
        <5>1. ~(k <= n)
          BY <2>3, <2>8, <4>2
        <5>. QED
          BY <1>7, <3>2, <4>2, <5>1
      <4>. QED
        BY <4>1, <4>2
    <3>. QED
      BY <3>2, <3>3 DEF StoreUsed
  <2>10. ASSUME NEW k \in 1..SqSize, k < n, NEW u, u = BackSlot(k), NEW v, v = BackSlot(k + 1)
         PROVE  /\ BackSlot(k)' = u /\ BackSlot(k + 1)' = v
                /\ sq'[v].id <= sq'[u].id
    <3>1. k + 1 \in 1..SqSize /\ k \in 1..m /\ k + 1 \in 1..m /\ k < m /\ ~(n < k) /\ ~(n < k + 1)
      BY <2>3, <2>8, <2>10
    <3>2. BackSlot(k)' = u /\ BackSlot(k + 1)' = v /\ u \in SqSlots /\ v \in SqSlots
      BY <2>4, <2>10, <3>1
    <3>3. sq[u].id = id[k] /\ sq[v].id = id[k + 1]
      BY <2>3, <2>10, <3>1
    <3>4. sq'[u] = sq[u] /\ sq'[v] = sq[v]
      BY <1>5, <2>7, <3>1, <3>2, <3>3
    <3>. QED
      BY <2>6, <3>1, <3>2, <3>3, <3>4
  <2>11. Window(n)'
    <3>1. ASSUME NEW k \in 1..SqSize, k < n
          PROVE  (sq[BackSlot(k + 1)].id)' <= (sq[BackSlot(k)].id)'
      <4>1. PICK u, v : u = BackSlot(k) /\ v = BackSlot(k + 1)
        OBVIOUS
      <4>. QED
        BY <2>10, <3>1, <4>1
    <3>. QED
      BY <2>9, <3>1 DEF Window
  <2>. QED
    BY <2>8, <2>11
<1>19. StoresInv'
  <2>1. Distinct(rts)' /\ StaInv'
    BY <1>0 DEF StoresInv, Distinct, StaInv
  <2>. QED
    BY <1>16, <1>17, <1>18, <2>1 DEF StoresInv
<1>. QED
  BY <1>10, <1>11, <1>12, <1>13, <1>15, <1>19 DEF IInv

-----------------------------------------------------------------------------
(* The invariant, and the properties of the runs. *)

LEMMA Invariant == Spec => []IInv
<1>1. Init => IInv
  BY InitInv
<1>2. IInv /\ [Next]_vars => IInv'
  <2>. SUFFICES ASSUME IInv, [Next]_vars PROVE IInv'
    OBVIOUS
  <2>1. CASE \E op \in Instr : Dispatch(op)
    BY <2>1, DispatchInv
  <2>2. CASE \E i \in InRob : Schedule(i) \/ Complete(i)
    BY <2>2, ScheduleInv, CompleteInv
  <2>3. CASE \E i \in InRob, a \in Addr : AddLoad(i, a) \/ AddStore(i, a)
    BY <2>3, AddLoadInv, AddStoreInv
  <2>4. CASE ExecuteStore
    BY <2>4, ExecuteStoreInv
  <2>5. CASE ExecuteLoad
    BY <2>5, ExecuteLoadInv
  <2>6. CASE \E S \in SUBSET l1d : DataFetched(S)
    BY <2>6, DataFetchedInv
  <2>7. CASE Retire
    BY <2>7, RetireInv
  <2>8. CASE UNCHANGED vars
    <3>1. UNCHANGED <<head, next, rob, lq, sq, sq_tail, sta, rtl, rts, l1d>>
      BY <2>8 DEF vars
    <3>2. ExecutedKept /\ InRobKept /\ InRob' = InRob
      BY <3>1, ExecutedFrame DEF InRobKept, InRob
    <3>3. OpsKept /\ LoadFieldsKept /\ StoreFieldsKept /\ RunFieldsKept /\ CountsKept
      BY <3>1 DEF OpsKept, LoadFieldsKept, StoreFieldsKept, RunFieldsKept, CountsKept
    <3>4. \A k \in InRob : rob'[k].executed => Ready(k)'
      BY <3>1 DEF IInv, EntriesInv, EntryInv, Ready
    <3>5. DOMAIN rob' = InRob' /\ \A k \in InRob : rob'[k] \in Entry
      BY <3>1, <3>2 DEF IInv, TypeOK
    <3>6. \A k \in InRob : rob'[k].executed => rob[k].executed
      BY <3>1
    <3>7. RawInv'
      BY <3>2, <3>3, RawFrame DEF IInv
    <3>. QED
      BY <3>1, <3>2, <3>3, <3>4, <3>5, <3>6, <3>7, QueuesFrame DEF IInv
  <2>. QED
    BY <2>1, <2>2, <2>3, <2>4, <2>5, <2>6, <2>7, <2>8 DEF Next
<1>. QED
  BY <1>1, <1>2, PTL DEF Spec

\* The variables have their types: num_mem_ops, which the code decrements in
\* four places and compares with 0, is never negative.
THEOREM TypeCorrect == Spec => []TypeOK
<1>1. IInv => TypeOK
  BY DEF IInv
<1>. QED
  BY <1>1, Invariant, PTL

LEMMA CountsSlots ==
    ASSUME TypeOK, Distinct(rtl), NEW s
    PROVE  Cardinality({k \in DOMAIN rtl : rtl[k] = s}) = IF InRtl(s) THEN 1 ELSE 0
<1>. DEFINE K == {k \in DOMAIN rtl : rtl[k] = s}
<1>1. DOMAIN rtl = 1..Len(rtl)
  BY DEF TypeOK
<1>2. CASE InRtl(s)
  <2>1. PICK k \in 1..Len(rtl) : rtl[k] = s
    BY <1>2 DEF InRtl
  <2>2. K = {k}
    BY <1>1, <2>1 DEF Distinct
  <2>. QED
    BY <1>2, <2>2, FS_Singleton
<1>3. CASE ~InRtl(s)
  <2>1. K = {}
    BY <1>1, <1>3 DEF InRtl
  <2>. QED
    BY <1>3, <2>1, FS_EmptySet
<1>. QED
  BY <1>2, <1>3

\* Every load in LQ is waited for by exactly one of RTL0, L1D and the store
\* that produces its data, so that execute_load, complete_data_fetch and
\* execute_store together complete it once; nobody refers to a free slot.
THEOREM LoadsServedOnce == Spec => []LoadsServed
<1>1. IInv => LoadsServed
  <2>. SUFFICES ASSUME IInv, NEW s \in LqSlots
                PROVE  IF lq[s] = FreeLoad THEN Claims(s) = 0
                       ELSE /\ Claims(s) = 1
                            /\ lq[s].id \in InRob /\ lq[s].address \in rob[lq[s].id].loaded
                            /\ rob[lq[s].id].lq_index[lq[s].address] = s
    BY DEF LoadsServed
  <2>1. TypeOK /\ EntriesInv /\ LoadInv(s) /\ ClaimInv(s) /\ Distinct(rtl)
    BY DEF IInv, LoadsInv
  <2>2. PICK x, y, z : /\ x = Cardinality({k \in DOMAIN rtl : rtl[k] = s})
                       /\ y = Cardinality({s} \cap l1d)
                       /\ z = IF AwaitsStore(s) THEN 1 ELSE 0
    OBVIOUS
  <2>3. Claims(s) = x + y + z
    BY <2>2 DEF Claims
  <2>4. x = IF InRtl(s) THEN 1 ELSE 0
    BY <2>1, <2>2, CountsSlots
  <2>5. y = IF s \in l1d THEN 1 ELSE 0
    <3>1. CASE s \in l1d
      <4>1. {s} \cap l1d = {s}
        BY <3>1
      <4>. QED
        BY <2>2, <3>1, <4>1, FS_Singleton
    <3>2. CASE s \notin l1d
      <4>1. {s} \cap l1d = {}
        BY <3>2
      <4>. QED
        BY <2>2, <3>2, <4>1, FS_EmptySet
    <3>. QED
      BY <3>1, <3>2
  <2>6. CASE ~LoadUsed(s)
    <3>1. lq[s] = FreeLoad /\ lq[s].producer \notin InRob
      BY <2>1, <2>6, Ranges DEF LoadUsed, FreeLoad
    <3>2. ~AwaitsStore(s) /\ ~InRtl(s) /\ s \notin l1d
      BY <2>1, <2>6, <3>1 DEF AwaitsStore, ClaimInv
    <3>. QED
      BY <2>2, <2>3, <2>4, <2>5, <3>1, <3>2
  <2>7. CASE LoadUsed(s)
    <3>1. PICK i, a, p : i = lq[s].id /\ a = lq[s].address /\ p = lq[s].producer
      OBVIOUS
    <3>2. /\ i \in InRob /\ a \in rob[i].loaded /\ rob[i].lq_index[a] = s
          /\ p # None => /\ IsYoungest(p, Storers(i, a)) /\ ~StoreExecuted(p, a)
                         /\ i \in rob[p].dependents
      BY <2>1, <2>7, <3>1 DEF LoadInv
    <3>3. AwaitsStore(s) <=> p # None
      <4>1. p = None => ~AwaitsStore(s)
        BY <2>1, <3>1, Ranges DEF AwaitsStore
      <4>2. p # None => p \in InRob /\ a \in rob[p].op.stores
        BY <2>1, <3>2, Ranges DEF IsYoungest, Storers, InRob
      <4>. QED
        BY <3>1, <3>2, <4>1, <4>2 DEF AwaitsStore
    <3>4. Claims(s) = 1
      <4>1. (InRtl(s) \/ s \in l1d <=> p = None) /\ ~(InRtl(s) /\ s \in l1d)
        BY <2>1, <2>7, <3>1 DEF ClaimInv
      <4>. QED
        BY <2>2, <2>3, <2>4, <2>5, <3>3, <4>1
    <3>. QED
      BY <2>7, <3>1, <3>2, <3>4 DEF LoadUsed
  <2>. QED
    BY <2>6, <2>7
<1>. QED
  BY <1>1, Invariant, PTL

\* A load in LQ names the youngest older store to its address as its producer,
\* and goes to L1D only when ROB holds no such store, however the stores and
\* the loads between them enter LQ and SQ, are executed and retire.
THEOREM LoadsReadYoungest == Spec => []ReadsYoungestStore
<1>1. IInv => ReadsYoungestStore
  <2>. SUFFICES ASSUME IInv, NEW s \in LqSlots, LoadUsed(s), NEW older,
                       older = {p \in head..(lq[s].id - 1) : lq[s].address \in rob[p].op.stores}
                PROVE  IF lq[s].producer = None THEN older = {}
                       ELSE lq[s].producer \in older /\ \A p \in older : p <= lq[s].producer
    BY DEF ReadsYoungestStore, LoadUsed
  <2>1. older = Storers(lq[s].id, lq[s].address)
    BY DEF Storers
  <2>. QED
    BY <2>1 DEF IInv, LoadsInv, LoadInv, IsYoungest
<1>. QED
  BY <1>1, Invariant, PTL

\* num_mem_ops is what the instruction has left to do, although dispatch,
\* forwarding, execute_store, L1D's answers and merged loads all write it.
THEOREM MemOpsCounted == Spec => []MemOpsExact
<1>1. IInv => MemOpsExact
  BY DEF IInv
<1>. QED
  BY <1>1, Invariant, PTL

\* SQ is filled from SQ.tail back without a gap, in program order.
THEOREM StoresKeepOrder == Spec => []StoresInOrder
<1>1. IInv => StoresInOrder
  <2>. SUFFICES ASSUME IInv PROVE StoresInOrder
    OBVIOUS
  <2>1. TypeOK
    BY DEF IInv
  <2>2. PICK m \in 0..SqSize : Window(m)
    BY DEF IInv, StoresInv
  <2>3. SqOccupancy = m
    BY <2>1, <2>2, WindowCounts
  <2>4. \A k \in 1..SqSize : BackSlot(k) = (sq_tail + SqSize - k) % SqSize
    BY <2>1, BackSlots
  <2>5. ASSUME NEW k \in 1..SqSize
        PROVE  /\ k <= m => sq[(sq_tail + SqSize - k) % SqSize] # FreeStore
               /\ k < m => sq[(sq_tail + SqSize - (k + 1)) % SqSize].id
                               <= sq[(sq_tail + SqSize - k) % SqSize].id
    <3>1. k < m => k + 1 \in 1..SqSize
      BY <2>1, Ranges
    <3>2. /\ k <= m => sq[BackSlot(k)] # FreeStore
          /\ k < m => sq[BackSlot(k + 1)].id <= sq[BackSlot(k)].id
      BY <2>2 DEF Window, StoreUsed
    <3>. QED
      BY <2>4, <3>1, <3>2
  <2>. QED
    BY <2>3, <2>5 DEF StoresInOrder
<1>. QED
  BY <1>1, Invariant, PTL

\* An instruction executes after the youngest older writer of each of its
\* source registers.
THEOREM RegistersRespected == Spec => []RawRespected
<1>1. IInv => RawRespected
  <2>. SUFFICES ASSUME IInv, NEW i \in InRob, rob[i].executed, NEW r \in rob[i].op.src,
                       NEW p, p = Youngest(Writers(i, r)), p # None
                PROVE  rob[p].executed
    BY DEF RawRespected, Writers
  <2>1. TypeOK /\ rob[i].scheduled /\ rob[i].waits = {}
    BY DEF IInv, EntriesInv, EntryInv, Ready
  <2>2. Writers(i, r) \in SUBSET (0..next) /\ Writers(i, r) \subseteq InRob /\ next \in Nat
    BY <2>1, Ranges DEF Writers, InRob
  <2>3. IsYoungest(p, Writers(i, r))
    <3>1. IF Writers(i, r) = {} THEN Youngest(Writers(i, r)) = None
          ELSE IsYoungest(Youngest(Writers(i, r)), Writers(i, r))
      BY <2>2, YoungestIs
    <3>. QED
      BY <3>1
  <2>4. p \in InRob
    BY <2>2, <2>3 DEF IsYoungest
  <2>. QED
    BY <2>1, <2>3, <2>4 DEF IInv, RawInv
<1>. QED
  BY <1>1, Invariant, PTL
=============================================================================
