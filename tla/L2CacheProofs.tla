---------------------------- MODULE L2CacheProofs ----------------------------
(***************************************************************************)
(* L2Cache for every set of addresses and ways and every size: types, what *)
(* is in flight, copies of a block, dirty data, and one request for each   *)
(* wait of L1I and L1D.                                                    *)
(***************************************************************************)
EXTENDS L2Cache, FiniteSetTheorems, SequenceTheorems, TLAPS

(* The merges and the packets that are made keep to the type, and a merge  *)
(* to the address.                                                         *)
LEMMA PacketTypes ==
    /\ \A u \in Upper, a \in Addr, type \in {"LOAD", "PREFETCH"} :
          FromUpper(u, a, type) \in Packet /\ FromUpper(u, a, type).address = a
    /\ \A a \in Addr, level \in {FillL2, FillLlc} :
          Prefetched(a, level) \in Packet /\ Prefetched(a, level).address = a
  BY DEF FromUpper, Prefetched, Packet, Upper, FillL1, FillL2, FillLlc

LEMMA MergeTypes ==
    ASSUME NEW e \in Packet, NEW p \in Packet
    PROVE  /\ MergeIntoRq(e, p) \in Packet /\ MergeIntoRq(e, p).address = e.address
           /\ MergeIntoPq(e, p) \in Packet /\ MergeIntoPq(e, p).address = e.address
           /\ Merged(e, p) \in Packet /\ Merged(e, p).address = e.address
           /\ Upgraded(e, p) \in Packet /\ Upgraded(e, p).address = p.address
<1>1. MergeIntoRq(e, p) \in Packet /\ MergeIntoRq(e, p).address = e.address
  BY DEF MergeIntoRq, Packet
<1>2. MergeIntoPq(e, p) \in Packet /\ MergeIntoPq(e, p).address = e.address
  <2>1. PICK d \in BOOLEAN, x \in BOOLEAN, y \in BOOLEAN :
            /\ d = (e.is_data \/ p.is_data) /\ x = (e.fill_l1i \/ p.fill_l1i)
            /\ y = (e.fill_l1d \/ p.fill_l1d)
    BY DEF Packet
  <2>2. PICK l \in {FillL1, FillL2, FillLlc}, i \in BOOLEAN :
            /\ l = (IF p.fill_level < e.fill_level THEN p.fill_level ELSE e.fill_level)
            /\ i = (IF p.fill_level < e.fill_level THEN p.instruction ELSE e.instruction)
    BY DEF Packet
  <2>. DEFINE f == [e EXCEPT !.fill_level = l, !.instruction = i]
  <2>3. f \in Packet /\ f.address = e.address
    BY DEF Packet
  <2>4. MergeIntoPq(e, p) = [f EXCEPT !.is_data = d, !.fill_l1i = x, !.fill_l1d = y]
    BY <2>1, <2>2 DEF MergeIntoPq
  <2>. HIDE DEF f
  <2>. QED
    BY <2>3, <2>4 DEF Packet
<1>3. Merged(e, p) \in Packet /\ Merged(e, p).address = e.address
  <2>1. PICK x \in BOOLEAN, y \in BOOLEAN :
            x = (e.fill_l1i \/ p.fill_l1i) /\ y = (e.fill_l1d \/ p.fill_l1d)
    BY DEF Packet
  <2>2. PICK l \in {FillL1, FillL2, FillLlc}, i \in BOOLEAN :
            /\ l = (IF p.fill_level < e.fill_level THEN p.fill_level ELSE e.fill_level)
            /\ i = (IF p.fill_level < e.fill_level THEN p.instruction ELSE e.instruction)
    BY DEF Packet
  <2>. DEFINE f == [e EXCEPT !.fill_level = l, !.instruction = i]
  <2>3. f \in Packet /\ f.address = e.address
    BY DEF Packet
  <2>4. Merged(e, p) = [f EXCEPT !.fill_l1i = x, !.fill_l1d = y]
    BY <2>1, <2>2 DEF Merged
  <2>. HIDE DEF f
  <2>. QED
    BY <2>3, <2>4 DEF Packet
<1>4. Upgraded(e, p) \in Packet /\ Upgraded(e, p).address = p.address
  <2>1. PICK x \in BOOLEAN, y \in BOOLEAN, i \in BOOLEAN :
            /\ x = (p.fill_l1i \/ e.fill_l1i) /\ y = (p.fill_l1d \/ e.fill_l1d)
            /\ i = (p.instruction \/ e.instruction)
    BY DEF Packet
  <2>2. PICK l \in {FillL1, FillL2, FillLlc} :
            l = (IF e.fill_level < p.fill_level THEN e.fill_level ELSE p.fill_level)
    BY DEF Packet
  <2>. DEFINE f == [p EXCEPT !.fill_level = l, !.instruction = i]
  <2>3. f \in Packet /\ f.address = p.address
    BY DEF Packet
  <2>4. Upgraded(e, p) = [f EXCEPT !.fill_l1i = x, !.fill_l1d = y]
    BY <2>1, <2>2 DEF Upgraded
  <2>. HIDE DEF f
  <2>. QED
    BY <2>3, <2>4 DEF Packet
<1>. QED
  BY <1>1, <1>2, <1>3, <1>4

(* Sequences: what a queue keeps when its head leaves, when something is   *)
(* appended to it, and when its entries change in place.                   *)
LEMMA TailKeeps ==
    ASSUME NEW S, NEW q \in Seq(S), q # <<>>
    PROVE  /\ Head(q) \in S /\ Head(q) = q[1] /\ 1 \in DOMAIN q
           /\ Tail(q) \in Seq(S) /\ Len(Tail(q)) = Len(q) - 1
           /\ DOMAIN Tail(q) = 1 .. Len(q) - 1
           /\ \A i \in DOMAIN Tail(q) : Tail(q)[i] = q[i + 1] /\ i + 1 \in DOMAIN q
           /\ \A i \in DOMAIN q : i = 1 \/ i - 1 \in DOMAIN Tail(q)
  BY HeadTailProperties, LenProperties, EmptySeq

LEMMA UpdateKeeps ==
    ASSUME NEW S, NEW q \in Seq(S), NEW r \in [1 .. Len(q) -> S]
    PROVE  /\ r \in Seq(S) /\ Len(r) = Len(q)
           /\ DOMAIN r = 1 .. Len(q) /\ DOMAIN q = 1 .. Len(q)
<1>1. Len(q) \in Nat /\ DOMAIN q = 1 .. Len(q)
  BY LenProperties
<1>2. r \in Seq(S)
  BY <1>1, SeqDef
<1>. QED
  BY <1>1, <1>2, LenProperties

LEMMA AppendKeeps ==
    ASSUME NEW S, NEW q \in Seq(S), NEW e \in S
    PROVE  /\ Append(q, e) \in Seq(S) /\ Len(Append(q, e)) = Len(q) + 1
           /\ DOMAIN Append(q, e) = 1 .. Len(q) + 1 /\ DOMAIN q = 1 .. Len(q)
           /\ \A i \in DOMAIN q : Append(q, e)[i] = q[i]
           /\ Append(q, e)[Len(q) + 1] = e
  BY AppendProperties, LenProperties
-----------------------------------------------------------------------------
(* The invariant.  A block that is in flight and was not written back in   *)
(* the meantime is not there yet: this is what makes CopiesOnlyByOverlap   *)
(* inductive, and it needs to know that no address is in flight twice.     *)

CopiesOf(a) ==
    /\ \A u, v, w \in Hits(a) : u = v \/ v = w \/ u = w
    /\ a \notin overlapped \/ InFlight(a) # {} => \A v, w \in Hits(a) : v = w
    /\ a \notin overlapped /\ InFlight(a) # {} => Hits(a) = {}
Copies == \A a \in Addr : CopiesOf(a)

MissesType ==
    /\ mshr \subseteq Packet /\ IsFiniteSet(mshr) /\ Cardinality(mshr) <= MshrSize
    /\ fills \in Seq(Addr)

IInv == TypeOK /\ IsFiniteSet(mshr) /\ FillsInFlight /\ Copies /\ DirtyKept

LEMMA Initially == Init => IInv
<1>. SUFFICES ASSUME Init PROVE IInv
  OBVIOUS
<1>1. TypeOK /\ IsFiniteSet(mshr)
  BY FS_EmptySet, SizeAssumption, ReadQueueAssumption DEF Init, TypeOK
<1>2. FillsInFlight /\ DirtyKept
  BY DEF Init, FillsInFlight, DirtyKept, InFlight
<1>3. Copies
  BY SizeAssumption DEF Init, Copies, CopiesOf, InFlight, Hits
<1>. QED
  BY <1>1, <1>2, <1>3 DEF IInv

(* Calls from above: the queues they are for, and who waits.               *)
LEMMA AnswerType ==
    ASSUME TypeOK, NEW w \in [Upper -> SUBSET Addr], NEW us, NEW a \in Addr, Answer(w, us, a)
    PROVE  waiting' \in [Upper -> SUBSET Addr] /\ l1d_holds' \subseteq Addr
  BY DEF TypeOK, Answer

LEMMA AddRqType ==
    ASSUME TypeOK, NEW p \in Packet, NEW w \in [Upper -> SUBSET Addr], AddRq(p, w)
    PROVE  /\ rq' \in Seq(Packet) /\ Len(rq') <= RqSize
           /\ waiting' \in [Upper -> SUBSET Addr] /\ l1d_holds' \subseteq Addr
<1>1. CASE AnsweredFromWq(p, w) /\ UNCHANGED rq
  <2>1. p.address \in Addr
    BY DEF Packet
  <2>. QED
    BY <1>1, <2>1, AnswerType DEF AnsweredFromWq, TypeOK
<1>2. CASE /\ NoAnswer(p, w)
           /\ rq' = [i \in DOMAIN rq |->
                        IF i \in Positions(rq, p.address) THEN MergeIntoRq(rq[i], p) ELSE rq[i]]
  <2>1. \A i \in 1 .. Len(rq) : MergeIntoRq(rq[i], p) \in Packet /\ rq[i] \in Packet
    BY MergeTypes, ElementOfSeq DEF TypeOK

  <2>2. rq' \in [1 .. Len(rq) -> Packet]
    BY <1>2, <2>1, LenProperties DEF TypeOK
  <2>3. rq' \in Seq(Packet) /\ Len(rq') = Len(rq)
    BY <2>2, UpdateKeeps DEF TypeOK
  <2>. QED
    BY <1>2, <2>3 DEF NoAnswer, TypeOK
<1>3. CASE NoAnswer(p, w) /\ AppendToRq(p)
  BY <1>3, AppendKeeps, LenProperties, ReadQueueAssumption DEF NoAnswer, AppendToRq, TypeOK
<1>. QED
  BY <1>1, <1>2, <1>3 DEF AddRq

LEMMA AddPqType ==
    ASSUME TypeOK, NEW p \in Packet, NEW w \in [Upper -> SUBSET Addr], AddPq(p, w)
    PROVE  /\ pq' \in Seq(Packet) /\ Len(pq') <= PqSize
           /\ waiting' \in [Upper -> SUBSET Addr] /\ l1d_holds' \subseteq Addr
<1>1. CASE AnsweredFromWq(p, w) /\ UNCHANGED pq
  <2>1. p.address \in Addr
    BY DEF Packet
  <2>. QED
    BY <1>1, <2>1, AnswerType DEF AnsweredFromWq, TypeOK
<1>2. CASE /\ NoAnswer(p, w)
           /\ pq' = [i \in DOMAIN pq |->
                        IF i \in Positions(pq, p.address) THEN MergeIntoPq(pq[i], p) ELSE pq[i]]
  <2>1. \A i \in 1 .. Len(pq) : MergeIntoPq(pq[i], p) \in Packet /\ pq[i] \in Packet
    BY MergeTypes, ElementOfSeq DEF TypeOK
  <2>2. pq' \in [1 .. Len(pq) -> Packet]
    BY <1>2, <2>1, LenProperties DEF TypeOK
  <2>3. pq' \in Seq(Packet) /\ Len(pq') = Len(pq)
    BY <2>2, UpdateKeeps DEF TypeOK
  <2>. QED
    BY <1>2, <2>3 DEF NoAnswer, TypeOK
<1>3. CASE NoAnswer(p, w) /\ AppendToPq(p)
  BY <1>3, AppendKeeps, LenProperties, SizeAssumption DEF NoAnswer, AppendToPq, TypeOK
<1>. QED
  BY <1>1, <1>2, <1>3 DEF AddPq

-----------------------------------------------------------------------------
(* What is in flight: a new miss, a miss that takes another packet in, the *)
(* answer of LLC and the end of a miss.                                    *)

LEMMA NewMissKeeps ==
    ASSUME IInv, NEW p \in Packet, InFlight(p.address) = {}, Cardinality(mshr) < MshrSize,
           NewMiss(p)
    PROVE  /\ MissesType' /\ FillsInFlight'
           /\ \A a \in Addr : InFlight(a)' # {} => InFlight(a) # {} \/ a = p.address
<1>1. p.address \in Addr /\ mshr \subseteq Packet /\ fills \in Seq(Addr)
  BY DEF Packet, IInv, TypeOK
<1>2. mshr' = mshr \cup {p} /\ p \notin mshr
  BY DEF NewMiss, InFlight
<1>3. MissesType'
  <2>1. IsFiniteSet(mshr') /\ Cardinality(mshr') = Cardinality(mshr) + 1
    BY <1>2, FS_AddElement DEF IInv
  <2>2. Cardinality(mshr) \in Nat
    BY FS_CardinalityType DEF IInv
  <2>3. fills' \in Seq(Addr)
    BY <1>1, AppendKeeps DEF NewMiss
  <2>. QED
    BY <1>1, <1>2, <2>1, <2>2, <2>3, SizeAssumption DEF MissesType
<1>4. \A m, n \in mshr' : m.address = n.address => m = n
  BY <1>2 DEF InFlight, IInv, FillsInFlight
<1>5. \A i \in DOMAIN fills : fills[i] # p.address
  BY DEF IInv, FillsInFlight
<1>6. CASE UNCHANGED fills
  BY <1>2, <1>4, <1>6, <1>3 DEF IInv, FillsInFlight, InFlight
<1>7. CASE fills' = Append(fills, p.address)
  <2>1. /\ DOMAIN fills' = 1 .. Len(fills) + 1 /\ DOMAIN fills = 1 .. Len(fills)
        /\ Len(fills) \in Nat /\ fills'[Len(fills) + 1] = p.address
        /\ \A i \in DOMAIN fills : fills'[i] = fills[i]
    BY <1>1, <1>7, AppendKeeps, LenProperties
  <2>2. \A i \in DOMAIN fills' : \E k \in mshr' : k.address = fills'[i]
    BY <1>2, <2>1 DEF IInv, FillsInFlight, InFlight
  <2>3. \A i, j \in DOMAIN fills' : fills'[i] = fills'[j] => i = j
    BY <1>5, <2>1 DEF IInv, FillsInFlight
  <2>. QED
    BY <1>2, <1>3, <1>4, <2>2, <2>3 DEF FillsInFlight, InFlight
<1>. QED
  BY <1>2, <1>3, <1>6, <1>7 DEF NewMiss, InFlight

LEMMA MergeMissKeeps ==
    ASSUME IInv, NEW p \in Packet, MergeIntoMshr(p), UNCHANGED fills
    PROVE  /\ MissesType' /\ FillsInFlight'
           /\ \A a \in Addr : InFlight(a)' # {} => InFlight(a) # {}
<1>1. PICK m \in InFlight(p.address) :
         mshr' = (mshr \ {m}) \cup
                 {IF m.type = "PREFETCH" /\ p.type # "PREFETCH"
                  THEN Upgraded(Merged(m, p), p) ELSE Merged(m, p)}
  BY DEF MergeIntoMshr
<1>2. m \in mshr /\ m \in Packet /\ m.address = p.address
  BY DEF InFlight, IInv, TypeOK
<1>3. PICK n \in Packet : n.address = p.address /\ mshr' = (mshr \ {m}) \cup {n}
  BY <1>1, <1>2, MergeTypes
<1>4. \A k \in mshr : k # m => k.address # n.address
  BY <1>2, <1>3 DEF IInv, FillsInFlight
<1>5. MissesType'
  <2>1. IsFiniteSet(mshr \ {m}) /\ Cardinality(mshr \ {m}) = Cardinality(mshr) - 1
    BY <1>2, FS_RemoveElement DEF IInv
  <2>2. n \notin mshr \ {m}
    BY <1>4
  <2>3. IsFiniteSet(mshr') /\ Cardinality(mshr') = Cardinality(mshr) - 1 + 1
    BY <1>3, <2>1, <2>2, FS_AddElement
  <2>4. Cardinality(mshr) \in Nat
    BY FS_CardinalityType DEF IInv
  <2>. QED
    BY <1>3, <2>3, <2>4 DEF IInv, TypeOK, MissesType
<1>6. \A a : InFlight(a)' # {} <=> InFlight(a) # {}
  BY <1>2, <1>3 DEF InFlight
<1>7. FillsInFlight'
  BY <1>3, <1>4, <1>6 DEF IInv, FillsInFlight
<1>. QED
  BY <1>5, <1>6, <1>7

LEMMA AnswerKeeps ==
    ASSUME IInv, NEW a \in Addr, LlcAnswers(a)
    PROVE  MissesType' /\ FillsInFlight'
<1>1. /\ fills' \in Seq(Addr)
      /\ DOMAIN fills' = 1 .. Len(fills) + 1 /\ DOMAIN fills = 1 .. Len(fills)
      /\ Len(fills) \in Nat /\ fills'[Len(fills) + 1] = a
      /\ \A i \in DOMAIN fills : fills'[i] = fills[i]
  BY AppendKeeps, LenProperties DEF LlcAnswers, IInv, TypeOK
<1>2. mshr' = mshr /\ InFlight(a) # {} /\ \A i \in DOMAIN fills : fills[i] # a
  BY DEF LlcAnswers
<1>3. \A i \in DOMAIN fills' : \E k \in mshr' : k.address = fills'[i]
  BY <1>1, <1>2 DEF IInv, FillsInFlight, InFlight
<1>4. \A i, j \in DOMAIN fills' : fills'[i] = fills'[j] => i = j
  BY <1>1, <1>2 DEF IInv, FillsInFlight
<1>. QED
  <2>1. MissesType'
    BY <1>1, <1>2 DEF IInv, TypeOK, MissesType
  <2>2. FillsInFlight'
    BY <1>2, <1>3, <1>4 DEF IInv, FillsInFlight, InFlight
  <2>. QED
    BY <2>1, <2>2

(* The miss that ends is the one in flight for the first answer, and none  *)
(* is left for its address.                                                *)
LEMMA FillKeeps ==
    ASSUME IInv, NEW w \in Way, DoFill(w)
    PROVE  \E m \in mshr :
              /\ m \in Packet /\ m.address = Head(fills) /\ m.address \in Addr
              /\ MissesType' /\ FillsInFlight'
              /\ mshr' = mshr \ {m} /\ InFlight(m.address)' = {}
              /\ \A a : a # m.address => InFlight(a)' = InFlight(a)
              /\ Fill(w, m.address, FALSE)
              /\ Answer(waiting, Recipients(m), m.address)
<1>1. fills # <<>> /\ fills \in Seq(Addr) /\ Head(fills) = fills[1] /\ 1 \in DOMAIN fills
  BY TailKeeps DEF DoFill, IInv, TypeOK
<1>2. \E k \in mshr : k.address = Head(fills)
  BY <1>1 DEF IInv, FillsInFlight, InFlight
<1>3. PICK m \in mshr : /\ m = CHOOSE k \in mshr : k.address = Head(fills)
                        /\ m.address = Head(fills)
  BY <1>2
<1>4. /\ Fill(w, m.address, FALSE) /\ Answer(waiting, Recipients(m), m.address)
      /\ mshr' = mshr \ {m} /\ fills' = Tail(fills)
  BY <1>3 DEF DoFill
<1>5. m \in Packet /\ m.address \in Addr
  BY <1>3 DEF IInv, TypeOK, Packet
<1>6. InFlight(m.address)' = {} /\ \A a : a # m.address => InFlight(a)' = InFlight(a)
  BY <1>3, <1>4 DEF IInv, FillsInFlight, InFlight
<1>7. MissesType'
  <2>1. IsFiniteSet(mshr') /\ Cardinality(mshr') = Cardinality(mshr) - 1
    BY <1>3, <1>4, FS_RemoveElement DEF IInv
  <2>2. Cardinality(mshr) \in Nat
    BY FS_CardinalityType DEF IInv
  <2>. QED
    BY <1>1, <1>4, <2>1, <2>2, TailKeeps, SizeAssumption DEF IInv, TypeOK, MissesType
<1>8. FillsInFlight'
  <2>1. /\ \A i \in DOMAIN fills' : fills'[i] = fills[i + 1] /\ i + 1 \in DOMAIN fills
        /\ DOMAIN fills' = 1 .. Len(fills) - 1
    BY <1>1, <1>4, TailKeeps
  <2>2. \A i \in DOMAIN fills' : fills'[i] # m.address
    <3>. TAKE i \in DOMAIN fills'
    <3>1. i + 1 # 1 /\ i \in Int
      BY <2>1
    <3>. QED
      BY <1>1, <1>3, <2>1, <3>1 DEF IInv, FillsInFlight
  <2>3. \A i \in DOMAIN fills' : \E k \in mshr' : k.address = fills'[i]
    BY <1>4, <2>1, <2>2, <1>3 DEF IInv, FillsInFlight, InFlight
  <2>4. \A i, j \in DOMAIN fills' : fills'[i] = fills'[j] => i = j
    BY <2>1 DEF IInv, FillsInFlight
  <2>. QED
    BY <1>4, <2>3, <2>4 DEF IInv, FillsInFlight, InFlight
<1>. QED
  BY <1>3, <1>4, <1>5, <1>6, <1>7, <1>8

-----------------------------------------------------------------------------
(* What a way that is filled does to the copies of a block and to dirty    *)
(* data.                                                                   *)

LEMMA HitsAfterFill ==
    ASSUME TypeOK, NEW w \in Way, NEW a \in Addr, NEW d \in BOOLEAN, Fill(w, a, d)
    PROVE  /\ Hits(a)' = Hits(a) \cup {w}
           /\ \A b \in Addr : b # a => Hits(b)' = Hits(b) \ {w}
  BY DEF Fill, Hits, TypeOK

(* A block that is not the one filled in loses a copy at most, and with it *)
(* the mark of having two.                                                 *)
LEMMA OthersKept ==
    ASSUME IInv, NEW w \in Way, NEW a \in Addr, NEW d \in BOOLEAN, Fill(w, a, d),
           NEW b \in Addr, b # a, InFlight(b)' = InFlight(b),
           b \in overlapped' <=> b \in overlapped /\ b # block[w].address
    PROVE  CopiesOf(b)'
<1>1. Hits(b)' = Hits(b) \ {w}
  BY HitsAfterFill DEF IInv
<1>2. CopiesOf(b)
  BY DEF IInv, Copies
<1>3. CASE b = block[w].address
  <2>1. w \in Hits(b)
    BY <1>3 DEF Hits
  <2>. QED
    BY <1>1, <1>2, <2>1 DEF CopiesOf
<1>4. CASE b # block[w].address
  BY <1>1, <1>2, <1>4 DEF CopiesOf
<1>. QED
  BY <1>3, <1>4

(* Dirty data of a block that is replaced goes to LLC; any other is where  *)
(* it was.                                                                 *)
LEMMA DirtyElsewhere ==
    ASSUME IInv, NEW w \in Way, NEW a \in Addr, NEW d \in BOOLEAN, Fill(w, a, d),
           unsaved' = PassOn(w), NEW b \in unsaved'
    PROVE  InWq(b) \/ \E v \in Way : block'[v] = [address |-> b, dirty |-> TRUE]
<1>1. b \in unsaved /\ (block[w].dirty => b # block[w].address)
  BY DEF PassOn
<1>2. CASE InWq(b)
  BY <1>2
<1>3. CASE \E v \in Way : block[v] = [address |-> b, dirty |-> TRUE]
  <2>1. PICK v \in Way : block[v] = [address |-> b, dirty |-> TRUE]
    BY <1>3
  <2>2. v # w
    BY <1>1, <2>1
  <2>3. block'[v] = block[v]
    BY <2>2 DEF Fill, IInv, TypeOK
  <2>. QED
    BY <2>1, <2>3
<1>. QED
  BY <1>1, <1>2, <1>3 DEF IInv, DirtyKept

LEMMA FillType ==
    ASSUME TypeOK, NEW w \in Way, NEW a \in Addr, NEW d \in BOOLEAN, Fill(w, a, d)
    PROVE  block' \in [Way -> [address : Addr \cup {NoAddr}, dirty : BOOLEAN]]
  BY DEF Fill, TypeOK

(* The first of some ways: check_hit and find_victim find one.             *)
LEMMA FirstWay ==
    ASSUME NEW W \in SUBSET Way, W # {}
    PROVE  \E w \in W : \A v \in W : w <= v
<1>1. W \in SUBSET Nat
  BY SizeAssumption
<1>2. IsWellFoundedOn(OpToRel(<, Nat), Nat)
  BY NatLessThanWellFounded
<1>3. PICK w \in W : \A v \in W : ~(<<v, w>> \in OpToRel(<, Nat))
  BY <1>1, <1>2, WFMin
<1>4. ASSUME NEW v \in W PROVE w <= v
  <2>1. v \in Nat /\ w \in Nat /\ ~(v < w)
    BY <1>1, <1>3 DEF OpToRel
  <2>. QED
    BY <2>1
<1>. QED
  BY <1>4

LEMMA VictimsAreWays == Victims \subseteq Way
<1>1. CASE Hits(NoAddr) = {}
  BY <1>1 DEF Victims
<1>2. CASE Hits(NoAddr) # {}
  <2>1. Hits(NoAddr) \in SUBSET Way
    BY DEF Hits
  <2>2. \E w \in Hits(NoAddr) : \A v \in Hits(NoAddr) : w <= v
    BY <1>2, <2>1, FirstWay
  <2>. QED
    BY <1>2, <2>2 DEF Victims, Hits
<1>. QED
  BY <1>1, <1>2

LEMMA HitWayHits ==
    ASSUME NEW a, Hits(a) # {}
    PROVE  HitWay(a) \in Hits(a) /\ HitWay(a) \in Way
<1>1. Hits(a) \in SUBSET Way
  BY DEF Hits
<1>2. \E w \in Hits(a) : \A v \in Hits(a) : w <= v
  BY <1>1, FirstWay
<1>. QED
  BY <1>2 DEF HitWay, Hits

-----------------------------------------------------------------------------
(* Steps that leave the blocks alone: the invariant follows when a miss    *)
(* begins only for a block that is not there.                              *)

LEMMA BlocksAlone ==
    ASSUME IInv, TypeOK', MissesType', FillsInFlight', UNCHANGED <<block, wq, history>>,
           \A a \in Addr : InFlight(a)' # {} => InFlight(a) # {} \/ Hits(a) = {}
    PROVE  IInv'
<1>1. DirtyKept'
  BY DEF IInv, DirtyKept, InWq, history
<1>2. Copies'
  <2>. SUFFICES ASSUME NEW a \in Addr PROVE CopiesOf(a)'
    BY DEF Copies
  <2>1. CopiesOf(a) /\ Hits(a)' = Hits(a) /\ overlapped' = overlapped
    BY DEF IInv, Copies, Hits, history
  <2>. QED
    BY <2>1 DEF CopiesOf
<1>. QED
  BY <1>1, <1>2 DEF IInv, MissesType

LEMMA MissesAlone ==
    ASSUME IInv, TypeOK', UNCHANGED <<misses, block, wq, history>>
    PROVE  IInv'
<1>1. MissesType' /\ FillsInFlight' /\ \A a \in Addr : InFlight(a)' = InFlight(a)
  BY DEF IInv, TypeOK, MissesType, FillsInFlight, InFlight, misses
<1>. QED
  BY <1>1, BlocksAlone

LEMMA UpperReadInv ==
    ASSUME IInv, NEW a \in Addr, NEW u \in Upper, UpperRead(u, a)
    PROVE  IInv'
<1>1. NowWaiting(u, a) \in [Upper -> SUBSET Addr]
  BY DEF NowWaiting, IInv, TypeOK
<1>2. FromUpper(u, a, "LOAD") \in Packet
  BY PacketTypes
<1>3. TypeOK'
  BY <1>1, <1>2, AddRqType DEF UpperRead, IInv, TypeOK, misses, history
<1>. QED
  BY <1>3, MissesAlone DEF UpperRead

LEMMA UpperPrefetchInv ==
    ASSUME IInv, NEW a \in Addr, NEW u \in Upper, UpperPrefetch(u, a)
    PROVE  IInv'
<1>1. NowWaiting(u, a) \in [Upper -> SUBSET Addr]
  BY DEF NowWaiting, IInv, TypeOK
<1>2. FromUpper(u, a, "PREFETCH") \in Packet
  BY PacketTypes
<1>3. TypeOK'
  BY <1>1, <1>2, AddPqType DEF UpperPrefetch, IInv, TypeOK, misses, history
<1>. QED
  BY <1>3, MissesAlone DEF UpperPrefetch

LEMMA PrefetchLineInv ==
    ASSUME IInv, NEW a \in Addr, NEW level \in {FillL2, FillLlc}, PrefetchLine(a, level)
    PROVE  IInv'
<1>1. waiting \in [Upper -> SUBSET Addr]
  BY DEF IInv, TypeOK
<1>2. Prefetched(a, level) \in Packet
  BY PacketTypes
<1>3. TypeOK'
  BY <1>1, <1>2, AddPqType DEF PrefetchLine, IInv, TypeOK, misses, history
<1>. QED
  BY <1>3, MissesAlone DEF PrefetchLine

LEMMA DropCleanInv ==
    ASSUME IInv, NEW a \in Addr, DropClean(a)
    PROVE  IInv'
<1>1. TypeOK'
  BY DEF DropClean, IInv, TypeOK, queues, misses, history
<1>. QED
  BY <1>1, MissesAlone DEF DropClean, queues

LEMMA WriteBackInv ==
    ASSUME IInv, NEW a \in Addr, WriteBack(a)
    PROVE  IInv'
<1>1. /\ wq' \in Seq(Addr) /\ Len(wq') <= WqSize
      /\ \A b : InWq(b) \/ b = a => \E i \in DOMAIN wq' : wq'[i] = b
  <2>1. CASE InWq(a) /\ wq' = wq
    BY <2>1 DEF IInv, TypeOK, InWq
  <2>2. CASE wq' = Append(wq, a)
    <3>1. /\ wq' \in Seq(Addr) /\ Len(wq') = Len(wq) + 1 /\ Len(wq) \in Nat
          /\ DOMAIN wq' = 1 .. Len(wq) + 1 /\ DOMAIN wq = 1 .. Len(wq)
          /\ \A i \in DOMAIN wq : wq'[i] = wq[i]
          /\ wq'[Len(wq) + 1] = a
      BY <2>2, AppendKeeps, LenProperties DEF IInv, TypeOK
    <3>2. Len(wq) < WqSize
      BY <3>1, SizeAssumption DEF WriteBack, IInv, TypeOK
    <3>. QED
      BY <3>1, <3>2, SizeAssumption DEF InWq
  <2>. QED
    BY <2>1, <2>2 DEF WriteBack
<1>2. TypeOK'
  BY <1>1 DEF WriteBack, IInv, TypeOK, misses
<1>3. DirtyKept'
  BY <1>1 DEF WriteBack, IInv, DirtyKept, InWq
<1>4. FillsInFlight' /\ Copies' /\ IsFiniteSet(mshr')
  BY DEF WriteBack, IInv, FillsInFlight, Copies, CopiesOf, InFlight, Hits, misses
<1>. QED
  BY <1>2, <1>3, <1>4 DEF IInv

LEMMA LlcAnswersInv ==
    ASSUME IInv, NEW a \in Addr, LlcAnswers(a)
    PROVE  IInv'
<1>1. MissesType' /\ FillsInFlight'
  BY AnswerKeeps
<1>2. TypeOK'
  BY <1>1 DEF LlcAnswers, IInv, TypeOK, MissesType, queues, uppers, history
<1>3. \A b : InFlight(b)' = InFlight(b)
  BY DEF LlcAnswers, InFlight
<1>. QED
  BY <1>1, <1>2, <1>3, BlocksAlone DEF LlcAnswers, queues

LEMMA BeginInv ==
    ASSUME IInv, Begin
    PROVE  IInv'
<1>1. TypeOK'
  BY DEF Begin, IInv, TypeOK, queues, misses, uppers, history
<1>. QED
  BY <1>1, MissesAlone DEF Begin, queues

-----------------------------------------------------------------------------
(* The handlers of operate().                                              *)

LEMMA HandleFillInv ==
    ASSUME IInv, HandleFill
    PROVE  IInv'
<1>1. CASE SkipFill
  <2>1. TypeOK'
    BY <1>1 DEF HandleFill, SkipFill, IInv, TypeOK, queues, misses, uppers, history
  <2>. QED
    BY <1>1, <2>1, MissesAlone DEF HandleFill, SkipFill, queues
<1>2. ASSUME NEW w \in Victims, DoFill(w)
      PROVE  IInv'
  <2>0. w \in Way
    BY VictimsAreWays
  <2>1. PICK m \in mshr :
              /\ m \in Packet /\ m.address = Head(fills) /\ m.address \in Addr
              /\ MissesType' /\ FillsInFlight'
              /\ mshr' = mshr \ {m} /\ InFlight(m.address)' = {}
              /\ \A a : a # m.address => InFlight(a)' = InFlight(a)
              /\ Fill(w, m.address, FALSE)
              /\ Answer(waiting, Recipients(m), m.address)
    BY <1>2, <2>0, FillKeeps
  <2>. DEFINE a == m.address
  <2>2. unsaved' = PassOn(w) /\ overlapped' = overlapped \ {block[w].address}
    BY <1>2 DEF DoFill
  <2>3. UNCHANGED queues /\ pc' = "writeback"
    BY DEF HandleFill
  <2>4. TypeOK'
    <3>1. waiting' \in [Upper -> SUBSET Addr] /\ l1d_holds' \subseteq Addr
      BY <2>1, AnswerType DEF IInv, TypeOK
    <3>2. unsaved' \subseteq Addr /\ overlapped' \subseteq Addr
      BY <2>2 DEF PassOn, IInv, TypeOK
    <3>3. block' \in [Way -> [address : Addr \cup {NoAddr}, dirty : BOOLEAN]]
      BY <2>0, <2>1, FillType DEF IInv
    <3>. QED
      BY <2>1, <2>3, <3>1, <3>2, <3>3 DEF IInv, TypeOK, MissesType, queues
  <2>5. DirtyKept'
    <3>1. \A b \in unsaved' : InWq(b) \/ \E v \in Way : block'[v] = [address |-> b, dirty |-> TRUE]
      BY <2>0, <2>1, <2>2, DirtyElsewhere
    <3>. QED
      BY <2>3, <3>1 DEF DirtyKept, InWq, queues
  <2>6. \A b \in Addr : b # a => CopiesOf(b)'
    BY <2>0, <2>1, <2>2, OthersKept
  <2>7. CopiesOf(a)'
    <3>1. Hits(a)' = Hits(a) \cup {w} /\ InFlight(a)' = {}
      BY <2>0, <2>1, HitsAfterFill DEF IInv
    <3>2. CopiesOf(a) /\ InFlight(a) # {}
      BY <2>1 DEF IInv, Copies, InFlight
    <3>3. CASE a \in overlapped /\ a = block[w].address
      <4>1. w \in Hits(a)
        BY <2>0, <3>3 DEF Hits
      <4>. QED
        BY <3>1, <3>2, <4>1 DEF CopiesOf
    <3>4. CASE a \in overlapped /\ a # block[w].address
      BY <2>2, <3>1, <3>2, <3>4 DEF CopiesOf
    <3>5. CASE a \notin overlapped
      BY <3>1, <3>2, <3>5 DEF CopiesOf
    <3>. QED
      BY <3>3, <3>4, <3>5
  <2>8. Copies'
    BY <2>6, <2>7 DEF Copies
  <2>. QED
    BY <2>1, <2>4, <2>5, <2>8 DEF IInv, MissesType
<1>. QED
  BY <1>1, <1>2 DEF HandleFill

(* What leaves WQ is now in the block; what remains in WQ is still there.  *)
LEMMA HeadLeavesWq ==
    ASSUME TypeOK, wq # <<>>, wq' = Tail(wq)
    PROVE  /\ Head(wq) \in Addr /\ wq' \in Seq(Addr) /\ Len(wq') <= WqSize
           /\ \A b : InWq(b) => b = Head(wq) \/ InWq(b)'
<1>1. /\ Head(wq) \in Addr /\ Head(wq) = wq[1] /\ wq' \in Seq(Addr) /\ Len(wq') = Len(wq) - 1
      /\ \A i \in DOMAIN wq' : wq'[i] = wq[i + 1]
      /\ \A i \in DOMAIN wq : i = 1 \/ i - 1 \in DOMAIN wq'
      /\ DOMAIN wq = 1 .. Len(wq) /\ Len(wq) \in Nat
  BY TailKeeps, LenProperties DEF TypeOK
<1>2. \A b : InWq(b) => b = Head(wq) \/ InWq(b)'
  <2>. SUFFICES ASSUME NEW i \in DOMAIN wq, i # 1
                PROVE  \E j \in DOMAIN wq' : wq'[j] = wq[i]
    BY <1>1 DEF InWq
  <2>1. i - 1 \in DOMAIN wq' /\ (i - 1) + 1 = i
    BY <1>1
  <2>. QED
    BY <1>1, <2>1
<1>. QED
  BY <1>1, <1>2, SizeAssumption DEF TypeOK

LEMMA WriteHitInv ==
    ASSUME IInv, HandleWriteback, wq # <<>>, wq' = Tail(wq), WriteHit(Head(wq))
    PROVE  IInv'
<1>1. PICK a \in Addr :
      /\ a = Head(wq) /\ wq' \in Seq(Addr) /\ Len(wq') <= WqSize
      /\ \A b : InWq(b) => b = a \/ InWq(b)'
  BY HeadLeavesWq DEF IInv
<1>2. PICK v \in Way : block[v].address = a /\ block' = [block EXCEPT ![v].dirty = TRUE]
  BY <1>1, HitWayHits DEF WriteHit, Hits
<1>3. UNCHANGED <<rq, pq, misses, uppers, history>> /\ pc' = "read"
  BY DEF HandleWriteback, WriteHit
<1>4. /\ block' \in [Way -> [address : Addr \cup {NoAddr}, dirty : BOOLEAN]]
      /\ block'[v] = [address |-> a, dirty |-> TRUE]
      /\ \A x \in Way : block'[x].address = block[x].address /\ (x # v => block'[x] = block[x])
  BY <1>2 DEF IInv, TypeOK
<1>5. TypeOK'
  BY <1>1, <1>3, <1>4 DEF IInv, TypeOK, misses, uppers, history
<1>6. FillsInFlight' /\ IsFiniteSet(mshr')
  BY <1>3 DEF IInv, FillsInFlight, InFlight, misses
<1>7. Copies'
  <2>1. \A b : Hits(b)' = Hits(b) /\ InFlight(b)' = InFlight(b)
    BY <1>3, <1>4 DEF Hits, InFlight, misses
  <2>. QED
    BY <1>3, <2>1 DEF IInv, Copies, CopiesOf, history
<1>8. DirtyKept'
  <2>. SUFFICES ASSUME NEW b \in unsaved
                PROVE  InWq(b)' \/ \E x \in Way : block'[x] = [address |-> b, dirty |-> TRUE]
    BY <1>3 DEF DirtyKept, history
  <2>1. CASE InWq(b)
    BY <1>1, <1>4, <2>1
  <2>2. CASE \E x \in Way : block[x] = [address |-> b, dirty |-> TRUE]
    <3>1. PICK x \in Way : block[x] = [address |-> b, dirty |-> TRUE]
      BY <2>2
    <3>2. CASE x = v
      <4>1. b = a
        BY <1>2, <3>1, <3>2
      <4>. QED
        BY <1>4, <4>1
    <3>3. CASE x # v
      BY <1>4, <3>1, <3>3
    <3>. QED
      BY <3>2, <3>3
  <2>. QED
    BY <2>1, <2>2 DEF IInv, DirtyKept
<1>. QED
  BY <1>5, <1>6, <1>7, <1>8 DEF IInv

LEMMA WriteMissInv ==
    ASSUME IInv, HandleWriteback, wq # <<>>, wq' = Tail(wq),
           NEW w \in Way, WriteMiss(Head(wq), w)
    PROVE  IInv'
<1>1. PICK a \in Addr :
      /\ a = Head(wq) /\ wq' \in Seq(Addr) /\ Len(wq') <= WqSize
      /\ \A b : InWq(b) => b = a \/ InWq(b)'
  BY HeadLeavesWq DEF IInv
<1>2. /\ Hits(a) = {} /\ Fill(w, a, TRUE) /\ unsaved' = PassOn(w)
      /\ overlapped' = (overlapped \ {block[w].address}) \cup
                       (IF InFlight(a) # {} THEN {a} ELSE {})
  BY <1>1 DEF WriteMiss
<1>3. UNCHANGED <<rq, pq, misses, uppers>> /\ pc' = "read"
  BY DEF HandleWriteback
<1>4. /\ block' \in [Way -> [address : Addr \cup {NoAddr}, dirty : BOOLEAN]]
      /\ block'[w] = [address |-> a, dirty |-> TRUE]
  BY <1>1, <1>2, FillType DEF Fill, IInv, TypeOK
<1>5. TypeOK'
  <2>1. unsaved' \subseteq Addr /\ overlapped' \subseteq Addr
    BY <1>1, <1>2 DEF PassOn, IInv, TypeOK
  <2>. QED
    BY <1>1, <1>3, <1>4, <2>1 DEF IInv, TypeOK, misses, uppers
<1>6. FillsInFlight' /\ IsFiniteSet(mshr') /\ \A b : InFlight(b)' = InFlight(b)
  BY <1>3 DEF IInv, FillsInFlight, InFlight, misses
<1>7. \A b \in Addr : b # a => CopiesOf(b)'
  BY <1>1, <1>2, <1>6, OthersKept
<1>8. CopiesOf(a)'
  <2>1. Hits(a)' = {w}
    BY <1>1, <1>2, HitsAfterFill DEF IInv
  <2>2. InFlight(a)' # {} => a \in overlapped'
    BY <1>2, <1>6
  <2>. QED
    BY <2>1, <2>2 DEF CopiesOf
<1>9. DirtyKept'
  <2>1. \A b \in unsaved' : InWq(b) \/ \E v \in Way : block'[v] = [address |-> b, dirty |-> TRUE]
    BY <1>1, <1>2, DirtyElsewhere
  <2>. QED
    BY <1>1, <1>4, <2>1 DEF DirtyKept
<1>. QED
  BY <1>5, <1>6, <1>7, <1>8, <1>9 DEF IInv, Copies

LEMMA HandleWritebackInv ==
    ASSUME IInv, HandleWriteback
    PROVE  IInv'
<1>1. CASE SkipWriteback
  <2>1. TypeOK'
    BY <1>1 DEF HandleWriteback, SkipWriteback, IInv, TypeOK, misses, uppers, history
  <2>. QED
    BY <1>1, <2>1, MissesAlone DEF HandleWriteback, SkipWriteback
<1>2. CASE wq # <<>> /\ DoWriteback(Head(wq))
  BY <1>2, WriteHitInv, WriteMissInv, VictimsAreWays DEF DoWriteback
<1>. QED
  BY <1>1, <1>2 DEF HandleWriteback

(* A queue whose head was handled, whatever the handler did to the misses. *)
LEMMA ReadTakenInv ==
    ASSUME IInv, HandleRead, rq # <<>>, DoRead(Head(rq))
    PROVE  IInv'
<1>1. PICK p \in Packet : p = Head(rq)
  BY TailKeeps DEF IInv, TypeOK
<1>2. p.address \in Addr /\ UNCHANGED <<wq, pq, block, history>> /\ pc' \in {"prefetch", "idle"}
  BY DEF HandleRead, Packet
<1>3. rq' \in Seq(Packet) /\ Len(rq') <= RqSize
  <2>1. rq' = Tail(rq)
    BY DEF DoRead
  <2>2. Len(rq) \in Nat /\ Len(rq') = Len(rq) - 1 /\ rq' \in Seq(Packet)
    BY <2>1, TailKeeps, LenProperties DEF IInv, TypeOK
  <2>. QED
    BY <2>2, ReadQueueAssumption DEF IInv, TypeOK
<1>4. CASE ReadHit(p)
  <2>1. waiting' \in [Upper -> SUBSET Addr] /\ l1d_holds' \subseteq Addr
    BY <1>2, <1>4, AnswerType DEF ReadHit, IInv, TypeOK
  <2>2. TypeOK'
    BY <1>2, <1>3, <1>4, <2>1 DEF ReadHit, IInv, TypeOK, misses, history
  <2>. QED
    BY <1>2, <1>4, <2>2, MissesAlone DEF ReadHit
<1>5. CASE ReadMiss(p)
  <2>1. MissesType' /\ FillsInFlight'
        /\ \A a \in Addr : InFlight(a)' # {} => InFlight(a) # {} \/ a = p.address
    BY <1>5, NewMissKeeps, MergeMissKeeps DEF ReadMiss
  <2>2. TypeOK'
    BY <1>2, <1>3, <1>5, <2>1 DEF ReadMiss, IInv, TypeOK, MissesType, uppers, history
  <2>3. Hits(p.address) = {}
    BY <1>5 DEF ReadMiss
  <2>. QED
    BY <1>2, <2>1, <2>2, <2>3, BlocksAlone
<1>. QED
  BY <1>1, <1>4, <1>5 DEF DoRead

LEMMA HandleReadInv ==
    ASSUME IInv, HandleRead
    PROVE  IInv'
<1>1. CASE SkipRead
  <2>1. TypeOK'
    BY <1>1 DEF HandleRead, SkipRead, IInv, TypeOK, misses, uppers, history
  <2>. QED
    BY <1>1, <2>1, MissesAlone DEF HandleRead, SkipRead
<1>. QED
  BY <1>1, ReadTakenInv DEF HandleRead

LEMMA PrefetchTakenInv ==
    ASSUME IInv, HandlePrefetch, pq # <<>>, DoPrefetch(Head(pq))
    PROVE  IInv'
<1>1. PICK p \in Packet : p = Head(pq)
  BY TailKeeps DEF IInv, TypeOK
<1>2. p.address \in Addr /\ UNCHANGED <<rq, wq, block, history>> /\ pc' = "idle"
  BY DEF HandlePrefetch, Packet
<1>3. pq' \in Seq(Packet) /\ Len(pq') <= PqSize
  <2>1. pq' = Tail(pq)
    BY DEF DoPrefetch
  <2>2. Len(pq) \in Nat /\ Len(pq') = Len(pq) - 1 /\ pq' \in Seq(Packet)
    BY <2>1, TailKeeps, LenProperties DEF IInv, TypeOK
  <2>. QED
    BY <2>2, SizeAssumption DEF IInv, TypeOK
<1>4. CASE PrefetchHit(p)
  <2>1. waiting' \in [Upper -> SUBSET Addr] /\ l1d_holds' \subseteq Addr
    BY <1>2, <1>4, AnswerType DEF PrefetchHit, IInv, TypeOK
  <2>2. TypeOK'
    BY <1>2, <1>3, <1>4, <2>1 DEF PrefetchHit, IInv, TypeOK, misses, history
  <2>. QED
    BY <1>2, <1>4, <2>2, MissesAlone DEF PrefetchHit
<1>5. CASE PrefetchMiss(p) /\ UNCHANGED misses
  <2>1. TypeOK'
    BY <1>2, <1>3, <1>5 DEF PrefetchMiss, IInv, TypeOK, misses, uppers, history
  <2>. QED
    BY <1>2, <1>5, <2>1, MissesAlone
<1>6. CASE PrefetchMiss(p) /\ ~UNCHANGED misses
  <2>1. MissesType' /\ FillsInFlight'
        /\ \A a \in Addr : InFlight(a)' # {} => InFlight(a) # {} \/ a = p.address
    BY <1>6, NewMissKeeps, MergeMissKeeps DEF PrefetchMiss
  <2>2. TypeOK'
    BY <1>2, <1>3, <1>6, <2>1 DEF PrefetchMiss, IInv, TypeOK, MissesType, uppers, history
  <2>3. Hits(p.address) = {}
    BY <1>6 DEF PrefetchMiss
  <2>. QED
    BY <1>2, <2>1, <2>2, <2>3, BlocksAlone
<1>. QED
  BY <1>1, <1>4, <1>5, <1>6 DEF DoPrefetch

LEMMA HandlePrefetchInv ==
    ASSUME IInv, HandlePrefetch
    PROVE  IInv'
<1>1. CASE SkipPrefetch
  <2>1. TypeOK'
    BY <1>1 DEF HandlePrefetch, SkipPrefetch, IInv, TypeOK, misses, uppers, history
  <2>. QED
    BY <1>1, <2>1, MissesAlone DEF HandlePrefetch, SkipPrefetch
<1>. QED
  BY <1>1, PrefetchTakenInv DEF HandlePrefetch

LEMMA NextInv ==
    ASSUME IInv, [Next]_vars
    PROVE  IInv'
<1>1. ASSUME NEW a \in Addr, NEW u \in Upper, UpperRead(u, a) \/ UpperPrefetch(u, a)
      PROVE  IInv'
  BY <1>1, UpperReadInv, UpperPrefetchInv
<1>2. ASSUME NEW a \in Addr, NEW level \in {FillL2, FillLlc}, PrefetchLine(a, level)
      PROVE  IInv'
  BY <1>2, PrefetchLineInv
<1>3. ASSUME NEW a \in Addr, DropClean(a) \/ WriteBack(a) \/ LlcAnswers(a)
      PROVE  IInv'
  BY <1>3, DropCleanInv, WriteBackInv, LlcAnswersInv
<1>4. CASE Operate
  BY <1>4, BeginInv, HandleFillInv, HandleWritebackInv, HandleReadInv, HandlePrefetchInv
  DEF Operate
<1>5. CASE UNCHANGED vars
  <2>1. TypeOK'
    BY <1>5 DEF vars, queues, misses, uppers, history, IInv, TypeOK
  <2>. QED
    BY <1>5, <2>1, MissesAlone DEF vars, queues
<1>. QED
  BY <1>1, <1>2, <1>3, <1>4, <1>5 DEF Next

-----------------------------------------------------------------------------
(* The invariant holds in every state, for every set of addresses, every   *)
(* associativity and every size of the queues.                             *)
THEOREM Invariance == Spec => []IInv
<1>1. Init => IInv
  BY Initially
<1>2. IInv /\ [Next]_vars => IInv'
  BY NextInv
<1>. QED
  BY <1>1, <1>2, PTL DEF Spec

(* No queue outgrows its array and no MSHR is used twice, however the      *)
(* calls of L1I, L1D and LLC fall between the handlers.                    *)
THEOREM TypeCorrect == Spec => []TypeOK
<1>1. IInv => TypeOK
  BY DEF IInv
<1>. QED
  BY <1>1, Invariance, PTL

(* A set of ways with no three, or no two, different members.              *)
LEMMA FewWays ==
    ASSUME NEW W, \A u, v, w \in W : u = v \/ v = w \/ u = w
    PROVE  /\ IsFiniteSet(W) /\ Cardinality(W) \in Nat /\ Cardinality(W) <= 2
           /\ (\A v, w \in W : v = w) => Cardinality(W) <= 1
<1>1. CASE W = {}
  BY <1>1, FS_EmptySet
<1>2. CASE W # {} /\ \A v, w \in W : v = w
  <2>1. PICK w : W = {w}
    BY <1>2
  <2>2. IsFiniteSet(W) /\ Cardinality(W) = 1
    BY <2>1, FS_Singleton
  <2>. QED
    BY <2>2
<1>3. CASE \E v, w \in W : v # w
  <2>1. PICK v \in W, w \in W : v # w
    BY <1>3
  <2>2. W = {v} \cup {w} /\ w \notin {v}
    BY <2>1
  <2>3. IsFiniteSet({v}) /\ Cardinality({v}) = 1
    BY FS_Singleton
  <2>4. IsFiniteSet(W) /\ Cardinality(W) = 1 + 1
    BY <2>2, <2>3, FS_AddElement
  <2>. QED
    BY <2>1, <2>4
<1>. QED
  BY <1>1, <1>2, <1>3

(* handle_fill always finds the MSHR it fills, once, and a set holds one   *)
(* block twice only when a write back of it was allocated while it was in  *)
(* flight, and never three times.                                          *)
THEOREM FillsAreSound == Spec => []FillsSound
<1>1. IInv => FillsSound
  <2>. SUFFICES ASSUME IInv, NEW a \in Addr
                PROVE  /\ Cardinality(Hits(a)) <= IF a \in overlapped THEN 2 ELSE 1
                       /\ InFlight(a) # {} => Cardinality(Hits(a)) <= 1
    BY DEF IInv, FillsSound, CopiesOnlyByOverlap
  <2>1. CopiesOf(a)
    BY DEF IInv, Copies
  <2>2. /\ Cardinality(Hits(a)) <= 2
        /\ (\A v, w \in Hits(a) : v = w) => Cardinality(Hits(a)) <= 1
    BY <2>1, FewWays DEF CopiesOf
  <2>. QED
    BY <2>1, <2>2 DEF CopiesOf
<1>. QED
  BY <1>1, Invariance, PTL

(* What L1D has written back is in WQ or in a dirty block until it has     *)
(* been written to LLC: no merge, eviction, fill or second copy loses it.  *)
THEOREM DirtyDataKept == Spec => []DirtyKept
<1>1. IInv => DirtyKept
  BY DEF IInv
<1>. QED
  BY <1>1, Invariance, PTL

-----------------------------------------------------------------------------
(* One answer for each wait of L1I and L1D.                                *)
(*                                                                         *)
(* The invariant.  Whom a packet answers can be read off its flags only    *)
(* because the flags keep a form, different in RQ, in PQ and in the MSHRs; *)
(* a request may be merged with another because the two never answer the   *)
(* same cache; and RQ has room because every entry of it is waited for.    *)

RqForm(e) ==
    /\ e.type = "LOAD" /\ e.fill_level = FillL1
    /\ \/ e.send_both_cache
       \/ /\ e.instruction <=> e.fill_l1i
          /\ e.is_data <=> e.fill_l1d
          /\ e.fill_l1i <=> ~e.fill_l1d
PqForm(e) ==
    /\ e.type = "PREFETCH" /\ ~e.send_both_cache
    /\ e.fill_level = FillL1 <=> Flagged(e) # {}
MshrForm(m) ==
    IF m.send_both_cache THEN m.fill_level = FillL1 /\ m.type = "LOAD"
    ELSE /\ m.fill_level = FillL1 <=> Flagged(m) # {}
         /\ m.type = "LOAD" => m.fill_level = FillL1
Forms ==
    /\ \A i \in DOMAIN rq : RqForm(rq[i])
    /\ \A i \in DOMAIN pq : PqForm(pq[i])
    /\ \A m \in mshr : MshrForm(m)

Distinct(q) == \A i, j \in DOMAIN q : q[i].address = q[j].address => i = j
Asked(q, u, a) == \E i \in DOMAIN q : q[i].address = a /\ u \in Recipients(q[i])
InMiss(u, a) == \E m \in mshr : m.address = a /\ u \in Recipients(m)

OwedTo(u, a) ==
    /\ a \in waiting[u] <=> Asked(rq, u, a) \/ Asked(pq, u, a) \/ InMiss(u, a)
    /\ ~(Asked(rq, u, a) /\ Asked(pq, u, a))
    /\ ~(Asked(rq, u, a) /\ InMiss(u, a))
    /\ ~(Asked(pq, u, a) /\ InMiss(u, a))
Owed == \A u \in Upper, a \in Addr : OwedTo(u, a)

Bounded ==
    \A u \in Upper :
        IsFiniteSet(waiting[u]) /\ Cardinality(waiting[u]) <= UpperMshrSize(u)

Answers == Forms /\ Distinct(rq) /\ Distinct(pq) /\ Owed /\ Bounded

LEMMA AnswersInitially == Init => Answers
<1>. SUFFICES ASSUME Init PROVE Answers
  OBVIOUS
<1>1. Forms /\ Distinct(rq) /\ Distinct(pq) /\ Owed
  BY DEF Init, Forms, Distinct, Owed, OwedTo, Asked, InMiss
<1>2. Bounded
  BY FS_EmptySet, SizeAssumption DEF Init, Bounded, UpperMshrSize
<1>. QED
  BY <1>1, <1>2 DEF Answers

-----------------------------------------------------------------------------
(* A queue of packets with different addresses, and whom it answers: when  *)
(* its head leaves, when a packet is appended, when one is merged.         *)

LEMMA HeadTaken ==
    ASSUME NEW S, NEW q \in Seq(S), q # <<>>, Distinct(q)
    PROVE  /\ Distinct(Tail(q))
           /\ \A i \in DOMAIN Tail(q) : \E j \in DOMAIN q : Tail(q)[i] = q[j]
           /\ \A u, a : Asked(Tail(q), u, a) <=> Asked(q, u, a) /\ a # Head(q).address
           /\ \A u : Asked(q, u, Head(q).address) <=> u \in Recipients(Head(q))
<1>1. /\ Head(q) = q[1] /\ 1 \in DOMAIN q /\ DOMAIN q = 1 .. Len(q) /\ Len(q) \in Nat
      /\ \A i \in DOMAIN Tail(q) : Tail(q)[i] = q[i + 1] /\ i + 1 \in DOMAIN q
      /\ \A i \in DOMAIN q : i = 1 \/ i - 1 \in DOMAIN Tail(q)
      /\ DOMAIN Tail(q) = 1 .. Len(q) - 1
  BY TailKeeps, LenProperties
<1>2. Distinct(Tail(q))
  BY <1>1 DEF Distinct
<1>3. \A i \in DOMAIN Tail(q) : \E j \in DOMAIN q : Tail(q)[i] = q[j] /\ j # 1
  BY <1>1
<1>4. ASSUME NEW i \in DOMAIN q, i # 1
      PROVE  \E j \in DOMAIN Tail(q) : Tail(q)[j] = q[i]
  <2>1. i - 1 \in DOMAIN Tail(q) /\ (i - 1) + 1 = i
    BY <1>1, <1>4
  <2>. QED
    BY <1>1, <2>1
<1>5. \A i \in DOMAIN q : i # 1 => q[i].address # Head(q).address
  BY <1>1 DEF Distinct
<1>6. ASSUME NEW u, NEW a
      PROVE  Asked(Tail(q), u, a) <=> Asked(q, u, a) /\ a # Head(q).address
  <2>1. ASSUME Asked(Tail(q), u, a)
        PROVE  Asked(q, u, a) /\ a # Head(q).address
    BY <1>3, <1>5, <2>1 DEF Asked
  <2>2. ASSUME Asked(q, u, a), a # Head(q).address
        PROVE  Asked(Tail(q), u, a)
    BY <1>1, <1>4, <2>2 DEF Asked
  <2>. QED
    BY <2>1, <2>2
<1>7. \A u : Asked(q, u, Head(q).address) <=> u \in Recipients(Head(q))
  BY <1>1, <1>5 DEF Asked
<1>. QED
  BY <1>2, <1>3, <1>6, <1>7

LEMMA Appended ==
    ASSUME NEW S, NEW q \in Seq(S), NEW p \in S, Distinct(q),
           \A i \in DOMAIN q : q[i].address # p.address
    PROVE  /\ Distinct(Append(q, p))
           /\ \A i \in DOMAIN Append(q, p) :
                 Append(q, p)[i] = p \/ (i \in DOMAIN q /\ Append(q, p)[i] = q[i])
           /\ \A u, a : Asked(Append(q, p), u, a) <=>
                           Asked(q, u, a) \/ (a = p.address /\ u \in Recipients(p))
<1>1. /\ DOMAIN Append(q, p) = 1 .. Len(q) + 1 /\ DOMAIN q = 1 .. Len(q) /\ Len(q) \in Nat
      /\ \A i \in DOMAIN q : Append(q, p)[i] = q[i]
      /\ Append(q, p)[Len(q) + 1] = p
  BY AppendKeeps, LenProperties
<1>. DEFINE r == Append(q, p)
           n == Len(q) + 1
<1>2. /\ n \in DOMAIN r /\ n \notin DOMAIN q /\ r[n] = p
      /\ \A i : i \in DOMAIN r <=> i \in DOMAIN q \/ i = n
      /\ \A i \in DOMAIN q : r[i] = q[i]
  BY <1>1
<1>. HIDE DEF r, n
<1>3. Distinct(r)
  BY <1>2 DEF Distinct
<1>4. \A i \in DOMAIN r : r[i] = p \/ (i \in DOMAIN q /\ r[i] = q[i])
  BY <1>2
<1>5. \A u, a : Asked(r, u, a) <=> Asked(q, u, a) \/ (a = p.address /\ u \in Recipients(p))
  BY <1>2 DEF Asked
<1>. QED
  BY <1>3, <1>4, <1>5 DEF r

MergedAs(q, r, p) ==
    /\ DOMAIN r = DOMAIN q
    /\ \E k \in DOMAIN q : q[k].address = p.address
    /\ \A i \in DOMAIN q :
          IF q[i].address # p.address THEN r[i] = q[i]
          ELSE r[i].address = p.address /\ Recipients(r[i]) = Recipients(q[i]) \cup Recipients(p)

LEMMA MergedIn ==
    ASSUME NEW q, NEW r, NEW p, Distinct(q), MergedAs(q, r, p)
    PROVE  /\ Distinct(r)
           /\ \A u, a : Asked(r, u, a) <=>
                           Asked(q, u, a) \/ (a = p.address /\ u \in Recipients(p))
<1>1. DOMAIN r = DOMAIN q /\ \A i \in DOMAIN q : r[i].address = q[i].address
  BY DEF MergedAs
<1>2. Distinct(r)
  BY <1>1 DEF Distinct
<1>3. \A u : \A i \in DOMAIN q :
         u \in Recipients(r[i]) <=>
            u \in Recipients(q[i]) \/ (q[i].address = p.address /\ u \in Recipients(p))
  BY DEF MergedAs
<1>4. \A u, a : Asked(r, u, a) <=>
                  Asked(q, u, a) \/ (a = p.address /\ u \in Recipients(p))
  BY <1>1, <1>3 DEF Asked, MergedAs
<1>. QED
  BY <1>2, <1>4

-----------------------------------------------------------------------------
(* Whom a packet answers before and after a merge.                         *)

LEMMA Requested ==
    ASSUME NEW u \in Upper, NEW a \in Addr
    PROVE  /\ RqForm(FromUpper(u, a, "LOAD")) /\ PqForm(FromUpper(u, a, "PREFETCH"))
           /\ \A type \in {"LOAD", "PREFETCH"} :
                 /\ Recipients(FromUpper(u, a, type)) = {u}
                 /\ FlaggedRecipients(FromUpper(u, a, type)) = {u}
           /\ \A level \in {FillL2, FillLlc} :
                 /\ PqForm(Prefetched(a, level))
                 /\ Recipients(Prefetched(a, level)) = {}
                 /\ FlaggedRecipients(Prefetched(a, level)) = {}
<1>1. \A type \in {"LOAD", "PREFETCH"} : Flagged(FromUpper(u, a, type)) = {u}
  BY DEF Upper, FromUpper, Flagged
<1>2. \A type \in {"LOAD", "PREFETCH"} :
         /\ Recipients(FromUpper(u, a, type)) = {u}
         /\ FlaggedRecipients(FromUpper(u, a, type)) = {u}
  <2>. TAKE type \in {"LOAD", "PREFETCH"}
  <2>1. PICK p : p = FromUpper(u, a, type)
    OBVIOUS
  <2>2. p.fill_level = FillL1 /\ p.send_both_cache = FALSE
    BY <2>1 DEF FromUpper
  <2>3. Flagged(p) = {u}
    BY <1>1, <2>1
  <2>4. Recipients(p) = {u} /\ FlaggedRecipients(p) = {u}
    BY <2>2, <2>3 DEF Recipients, FlaggedRecipients, FillL1, FillL2
  <2>. QED
    BY <2>1, <2>4
<1>3. RqForm(FromUpper(u, a, "LOAD"))
  BY DEF Upper, FromUpper, RqForm
<1>4. PqForm(FromUpper(u, a, "PREFETCH"))
  <2>1. PICK p : p = FromUpper(u, a, "PREFETCH")
    OBVIOUS
  <2>2. p.type = "PREFETCH" /\ p.send_both_cache = FALSE /\ p.fill_level = FillL1
    BY <2>1 DEF FromUpper
  <2>3. Flagged(p) = {u}
    BY <1>1, <2>1
  <2>. QED
    BY <2>1, <2>2, <2>3 DEF PqForm
<1>5. \A level \in {FillL2, FillLlc} :
         /\ PqForm(Prefetched(a, level))
         /\ Recipients(Prefetched(a, level)) = {}
         /\ FlaggedRecipients(Prefetched(a, level)) = {}
  BY DEF Prefetched, PqForm, Recipients, FlaggedRecipients, Flagged, FillL1, FillL2, FillLlc
<1>. QED
  BY <1>2, <1>3, <1>4, <1>5

LEMMA FormsAnswer ==
    ASSUME NEW e \in Packet
    PROVE  /\ RqForm(e) => Recipients(e) # {} /\ MshrForm(e)
           /\ PqForm(e) => FlaggedRecipients(e) = Recipients(e) /\ MshrForm(e)
           /\ PqForm(e) /\ e.fill_level > FillL2 => Recipients(e) = {}
           /\ Recipients(e) \subseteq Upper
  BY DEF Packet, Upper, RqForm, PqForm, MshrForm, Recipients, FlaggedRecipients, Flagged,
         FillL1, FillL2, FillLlc

LEMMA RqMergeAnswers ==
    ASSUME NEW e \in Packet, RqForm(e), NEW u \in Upper, u \notin Recipients(e),
           NEW p, p = FromUpper(u, e.address, "LOAD")
    PROVE  RqForm(MergeIntoRq(e, p)) /\ Recipients(MergeIntoRq(e, p)) = Recipients(e) \cup {u}
  BY DEF Packet, Upper, RqForm, MergeIntoRq, FromUpper, Recipients, Flagged,
         FillL1, FillL2, FillLlc

LEMMA PqMergeAnswers ==
    ASSUME NEW e \in Packet, PqForm(e), NEW p \in Packet, PqForm(p)
    PROVE  /\ PqForm(MergeIntoPq(e, p))
           /\ Recipients(MergeIntoPq(e, p)) = Recipients(e) \cup Recipients(p)
  BY DEF Packet, Upper, PqForm, MergeIntoPq, Recipients, Flagged, FillL1, FillL2, FillLlc

LEMMA MshrMergeAnswers ==
    ASSUME NEW m \in Packet, MshrForm(m), NEW p \in Packet, RqForm(p) \/ PqForm(p),
           Recipients(m) \cap Recipients(p) = {}, m.address = p.address,
           NEW n, n = IF m.type = "PREFETCH" /\ p.type # "PREFETCH"
                      THEN Upgraded(Merged(m, p), p) ELSE Merged(m, p)
    PROVE  MshrForm(n) /\ Recipients(n) = Recipients(m) \cup Recipients(p)
  BY DEF Packet, Upper, RqForm, PqForm, MshrForm, Merged, Upgraded, Recipients, Flagged,
         FillL1, FillL2, FillLlc

-----------------------------------------------------------------------------
(* What L1I and L1D wait for, and the room it leaves in RQ.                *)

LEMMA SizesAreNat == \A u \in Upper : UpperMshrSize(u) \in Nat
  BY SizeAssumption DEF UpperMshrSize, Upper

LEMMA AnswerClears ==
    ASSUME NEW w \in [Upper -> SUBSET Addr], NEW us, NEW a \in Addr, Answer(w, us, a)
    PROVE  \A b : \A v \in Upper : b \in waiting'[v] <=> b \in w[v] /\ ~(b = a /\ v \in us)
  BY DEF Answer

LEMMA BoundedShrinks ==
    ASSUME Bounded, \A v \in Upper : waiting'[v] \subseteq waiting[v]
    PROVE  Bounded'
<1>. SUFFICES ASSUME NEW v \in Upper
              PROVE  /\ IsFiniteSet(waiting'[v])
                     /\ Cardinality(waiting'[v]) <= UpperMshrSize(v)
  BY DEF Bounded, UpperMshrSize
<1>1. IsFiniteSet(waiting[v]) /\ Cardinality(waiting[v]) <= UpperMshrSize(v)
  BY DEF Bounded
<1>2. IsFiniteSet(waiting'[v]) /\ Cardinality(waiting'[v]) <= Cardinality(waiting[v])
  BY <1>1, FS_Subset
<1>3. Cardinality(waiting[v]) \in Nat /\ Cardinality(waiting'[v]) \in Nat
  BY <1>1, <1>2, FS_CardinalityType
<1>. QED
  BY <1>1, <1>2, <1>3, SizesAreNat

LEMMA BoundedGrows ==
    ASSUME TypeOK, Bounded, NEW u \in Upper, NEW a \in Addr, CanMiss(u, a),
           waiting' = NowWaiting(u, a)
    PROVE  Bounded'
<1>. SUFFICES ASSUME NEW v \in Upper
              PROVE  /\ IsFiniteSet(waiting'[v])
                     /\ Cardinality(waiting'[v]) <= UpperMshrSize(v)
  BY DEF Bounded, UpperMshrSize
<1>1. IsFiniteSet(waiting[v]) /\ Cardinality(waiting[v]) <= UpperMshrSize(v)
  BY DEF Bounded
<1>2. CASE v = u
  <2>1. waiting'[v] = waiting[v] \cup {a}
    BY <1>2 DEF NowWaiting, TypeOK
  <2>2. /\ IsFiniteSet(waiting'[v]) /\ Cardinality(waiting[v]) \in Nat
        /\ Cardinality(waiting'[v]) = Cardinality(waiting[v]) + 1
    BY <1>1, <1>2, <2>1, FS_AddElement, FS_CardinalityType DEF CanMiss
  <2>. QED
    BY <1>2, <2>2, SizesAreNat DEF CanMiss
<1>3. CASE v # u
  BY <1>1, <1>3 DEF NowWaiting, TypeOK
<1>. QED
  BY <1>2, <1>3

(* An upper cache that has an MSHR left to miss with finds room in RQ:     *)
(* AppendToRq never refuses a packet.                                      *)
LEMMA RoomInRq ==
    ASSUME TypeOK, Answers, NEW u \in Upper, NEW a \in Addr, CanMiss(u, a)
    PROVE  Len(rq) # RqSize
<1>. DEFINE I == waiting["L1I"]
            D == waiting["L1D"]
            f == [i \in 1 .. Len(rq) |-> rq[i].address]
<1>1. Len(rq) \in Nat /\ DOMAIN rq = 1 .. Len(rq) /\ \A i \in DOMAIN rq : rq[i] \in Packet
  BY LenProperties, ElementOfSeq DEF TypeOK
<1>2. /\ IsFiniteSet(I) /\ Cardinality(I) <= L1iMshrSize
      /\ IsFiniteSet(D) /\ Cardinality(D) <= L1dMshrSize
  BY DEF Answers, Bounded, UpperMshrSize, Upper
<1>3. Cardinality(I) < L1iMshrSize \/ Cardinality(D) < L1dMshrSize
  BY DEF CanMiss, UpperMshrSize, Upper
<1>4. f \in [1 .. Len(rq) -> I \cup D]
  <2>. SUFFICES ASSUME NEW i \in DOMAIN rq PROVE rq[i].address \in I \cup D
    BY <1>1
  <2>1. rq[i].address \in Addr
    BY <1>1 DEF Packet
  <2>2. Recipients(rq[i]) # {} /\ Recipients(rq[i]) \subseteq Upper
    BY <1>1, FormsAnswer DEF Answers, Forms
  <2>3. PICK v \in Upper : Asked(rq, v, rq[i].address)
    BY <2>2 DEF Asked
  <2>4. rq[i].address \in waiting[v]
    BY <2>1, <2>3 DEF Answers, Owed, OwedTo
  <2>. QED
    BY <2>4 DEF Upper
<1>5. f \in Injection(1 .. Len(rq), I \cup D)
  <2>1. \A i, j \in 1 .. Len(rq) : f[i] = f[j] => i = j
    BY <1>1 DEF Answers, Distinct
  <2>. QED
    BY <1>4, <2>1 DEF Injection, IsInjective
<1>6. /\ IsFiniteSet(I \cup D)
      /\ Cardinality(I \cup D) = Cardinality(I) + Cardinality(D) - Cardinality(I \cap D)
  BY <1>2, FS_Union
<1>7. Cardinality(1 .. Len(rq)) <= Cardinality(I \cup D)
  BY <1>5, <1>6, FS_Injection
<1>8. Cardinality(1 .. Len(rq)) = Len(rq)
  BY <1>1, FS_Interval
<1>9. IsFiniteSet(I \cap D)
  BY <1>2, FS_Subset
<1>10. Cardinality(I) \in Nat /\ Cardinality(D) \in Nat /\ Cardinality(I \cap D) \in Nat
  BY <1>2, <1>9, FS_CardinalityType
<1>11. Len(rq) <= Cardinality(I) + Cardinality(D)
  BY <1>1, <1>6, <1>7, <1>8, <1>10
<1>12. L1iMshrSize \in Nat /\ L1dMshrSize \in Nat /\ RqSize \in Nat
       /\ RqSize >= L1iMshrSize + L1dMshrSize
  BY SizeAssumption, ReadQueueAssumption
<1>. QED
  <2>1. PICK i \in Nat, d \in Nat : i = Cardinality(I) /\ d = Cardinality(D)
    BY <1>10
  <2>2. Len(rq) <= i + d /\ i <= L1iMshrSize /\ d <= L1dMshrSize
    BY <1>2, <1>11, <2>1
  <2>3. i < L1iMshrSize \/ d < L1dMshrSize
    BY <1>3, <2>1
  <2>4. Len(rq) \in Nat
    BY <1>1
  <2>5. i + d < RqSize
    BY <1>12, <2>2, <2>3
  <2>. QED
    BY <1>12, <2>2, <2>4, <2>5

-----------------------------------------------------------------------------
(* The calls of L1I, L1D and LLC.                                          *)

LEMMA NothingAsked ==
    ASSUME Answers, UNCHANGED <<rq, pq, mshr>>, \A v \in Upper : waiting'[v] = waiting[v]
    PROVE  Answers'
<1>1. Forms' /\ Distinct(rq)' /\ Distinct(pq)'
  BY DEF Answers, Forms, Distinct
<1>2. Owed'
  BY DEF Answers, Owed, OwedTo, Asked, InMiss
<1>3. Bounded'
  BY BoundedShrinks DEF Answers
<1>. QED
  BY <1>1, <1>2, <1>3 DEF Answers

(* A packet that asks for what its caller did not wait for yet, in the     *)
(* queue it is added to.                                                   *)
LEMMA UpperReadAnswers ==
    ASSUME IInv, Answers, NEW u \in Upper, NEW a \in Addr, UpperRead(u, a)
    PROVE  Answers'
<1>1. PICK p \in Packet : p = FromUpper(u, a, "LOAD") /\ p.address = a
  BY PacketTypes
<1>2. RqForm(p) /\ Recipients(p) = {u} /\ FlaggedRecipients(p) = {u}
  BY <1>1, Requested
<1>3. CanMiss(u, a) /\ UNCHANGED <<pq, mshr>> /\ AddRq(p, NowWaiting(u, a))
  BY <1>1 DEF UpperRead, misses
<1>4. /\ NowWaiting(u, a) \in [Upper -> SUBSET Addr]
      /\ \A b : \A v \in Upper : b \in NowWaiting(u, a)[v] <=> b \in waiting[v] \/ (b = a /\ v = u)
  BY DEF NowWaiting, IInv, TypeOK
<1>5. a \notin waiting[u] /\ ~Asked(rq, u, a) /\ ~Asked(pq, u, a) /\ ~InMiss(u, a)
  BY <1>3 DEF CanMiss, Answers, Owed, OwedTo
<1>6. CASE AnsweredFromWq(p, NowWaiting(u, a)) /\ UNCHANGED rq
  <2>1. \A b : \A v \in Upper : b \in waiting'[v] <=>
                               b \in NowWaiting(u, a)[v] /\ ~(b = a /\ v \in {u})
    BY <1>1, <1>2, <1>4, <1>6, AnswerClears DEF AnsweredFromWq
  <2>2. ASSUME NEW v \in Upper PROVE waiting'[v] = waiting[v]
    <3>1. \A b : b \in waiting'[v] <=> b \in waiting[v]
      BY <1>4, <1>5, <2>1
    <3>. QED
      BY <3>1
  <2>. QED
    BY <1>3, <1>6, <2>2, NothingAsked
<1>7. ASSUME NoAnswer(p, NowWaiting(u, a)),
             Distinct(rq'), \A i \in DOMAIN rq' : RqForm(rq'[i]),
             \A v, b : Asked(rq', v, b) <=> Asked(rq, v, b) \/ (b = a /\ v \in {u})
      PROVE  Answers'
  <2>1. waiting' = NowWaiting(u, a)
    BY <1>7 DEF NoAnswer
  <2>2. Bounded'
    BY <1>3, <2>1, BoundedGrows DEF IInv, Answers
  <2>3. Forms' /\ Distinct(pq)'
    BY <1>3, <1>7 DEF Answers, Forms
  <2>4. \A v, b : (Asked(pq, v, b) <=> Asked(pq', v, b)) /\ (InMiss(v, b) <=> InMiss(v, b)')
    BY <1>3 DEF InMiss
  <2>5. Owed'
    <3>. SUFFICES ASSUME NEW v \in Upper, NEW b \in Addr PROVE OwedTo(v, b)'
      BY DEF Owed
    <3>1. OwedTo(v, b)
      BY DEF Answers, Owed
    <3>2. b \in waiting'[v] <=> b \in waiting[v] \/ (b = a /\ v = u)
      BY <1>4, <2>1
    <3>. QED
      BY <1>5, <1>7, <2>4, <3>1, <3>2 DEF OwedTo
  <2>. QED
    BY <1>7, <2>2, <2>3, <2>5 DEF Answers
<1>8. CASE /\ NoAnswer(p, NowWaiting(u, a)) /\ Positions(rq, a) # {}
           /\ rq' = [i \in DOMAIN rq |-> IF i \in Positions(rq, a)
                                         THEN MergeIntoRq(rq[i], p) ELSE rq[i]]
  <2>1. \A i \in DOMAIN rq : rq[i] \in Packet /\ RqForm(rq[i])
    BY LenProperties, ElementOfSeq DEF IInv, TypeOK, Answers, Forms
  <2>2. ASSUME NEW i \in DOMAIN rq, rq[i].address = a
        PROVE  /\ rq'[i].address = a /\ RqForm(rq'[i])
               /\ Recipients(rq'[i]) = Recipients(rq[i]) \cup {u}
    <3>1. rq'[i] = MergeIntoRq(rq[i], p)
      BY <1>8, <2>2 DEF Positions
    <3>2. u \notin Recipients(rq[i])
      BY <1>5, <2>2 DEF Asked
    <3>. QED
      BY <1>1, <2>1, <2>2, <3>1, <3>2, RqMergeAnswers, MergeTypes
  <2>3. \A i \in DOMAIN rq : rq[i].address # a => rq'[i] = rq[i]
    BY <1>8 DEF Positions
  <2>4. DOMAIN rq' = DOMAIN rq /\ \E k \in DOMAIN rq : rq[k].address = a
    BY <1>8 DEF Positions
  <2>5. Distinct(rq') /\ \A v, b : Asked(rq', v, b) <=> Asked(rq, v, b) \/ (b = a /\ v \in {u})
    <3>1. MergedAs(rq, rq', p)
      BY <1>1, <1>2, <2>2, <2>3, <2>4 DEF MergedAs
    <3>. QED
      BY <1>1, <1>2, <3>1, MergedIn DEF Answers
  <2>. QED
    BY <1>7, <1>8, <2>1, <2>2, <2>3, <2>4, <2>5
<1>9. CASE NoAnswer(p, NowWaiting(u, a)) /\ Positions(rq, a) = {} /\ AppendToRq(p)
  <2>1. rq' = Append(rq, p)
    BY <1>3, <1>9, RoomInRq DEF AppendToRq, IInv
  <2>2. \A i \in DOMAIN rq : rq[i].address # p.address /\ RqForm(rq[i])
    BY <1>1, <1>9 DEF Positions, Answers, Forms
  <2>3. /\ Distinct(rq')
        /\ \A i \in DOMAIN rq' : rq'[i] = p \/ (i \in DOMAIN rq /\ rq'[i] = rq[i])
        /\ \A v, b : Asked(rq', v, b) <=>
                        Asked(rq, v, b) \/ (b = p.address /\ v \in Recipients(p))
    BY <2>1, <2>2, Appended DEF IInv, TypeOK, Answers
  <2>. QED
    BY <1>1, <1>2, <1>7, <1>9, <2>2, <2>3
<1>. QED
  BY <1>1, <1>3, <1>6, <1>8, <1>9 DEF AddRq

LEMMA AddPqAnswers ==
    ASSUME IInv, Answers, NEW p \in Packet, PqForm(p), NEW w \in [Upper -> SUBSET Addr],
           AddPq(p, w), Len(pq) # PqSize, UNCHANGED <<rq, mshr>>,
           \A b : \A v \in Upper : b \in w[v] <=>
                                  b \in waiting[v] \/ (b = p.address /\ v \in Recipients(p)),
           \A v \in Recipients(p) : p.address \notin waiting[v],
           waiting' = w => Bounded'
    PROVE  Answers'
<1>. DEFINE a == p.address
<1>1. /\ a \in Addr /\ Recipients(p) \subseteq Upper
      /\ FlaggedRecipients(p) = Recipients(p)
  BY FormsAnswer DEF Packet
<1>2. \A v \in Recipients(p) :
         v \in Upper /\ a \notin waiting[v] /\ ~Asked(rq, v, a) /\ ~Asked(pq, v, a) /\ ~InMiss(v, a)
  BY <1>1 DEF Answers, Owed, OwedTo
<1>3. CASE AnsweredFromWq(p, w) /\ UNCHANGED pq
  <2>1. \A b : \A v \in Upper : b \in waiting'[v] <=> b \in w[v] /\ ~(b = a /\ v \in Recipients(p))
    BY <1>1, <1>3, AnswerClears DEF AnsweredFromWq
  <2>2. ASSUME NEW v \in Upper PROVE waiting'[v] = waiting[v]
    <3>1. \A b : b \in waiting'[v] <=> b \in waiting[v]
      BY <1>2, <2>1
    <3>. QED
      BY <3>1
  <2>. QED
    BY <1>3, <2>2, NothingAsked
<1>4. ASSUME NoAnswer(p, w),
             Distinct(pq'), \A i \in DOMAIN pq' : PqForm(pq'[i]),
             \A v, b : Asked(pq', v, b) <=> Asked(pq, v, b) \/ (b = a /\ v \in Recipients(p))
      PROVE  Answers'
  <2>1. waiting' = w
    BY <1>4 DEF NoAnswer
  <2>2. Forms' /\ Distinct(rq)'
    BY <1>4 DEF Answers, Forms
  <2>3. \A v, b : (Asked(rq, v, b) <=> Asked(rq', v, b)) /\ (InMiss(v, b) <=> InMiss(v, b)')
    BY DEF InMiss
  <2>4. Owed'
    <3>. SUFFICES ASSUME NEW v \in Upper, NEW b \in Addr PROVE OwedTo(v, b)'
      BY DEF Owed
    <3>1. OwedTo(v, b)
      BY DEF Answers, Owed
    <3>2. b \in waiting'[v] <=> b \in waiting[v] \/ (b = a /\ v \in Recipients(p))
      BY <2>1
    <3>. QED
      BY <1>2, <1>4, <2>3, <3>1, <3>2 DEF OwedTo
  <2>. QED
    BY <1>4, <2>1, <2>2, <2>4 DEF Answers
<1>5. CASE /\ NoAnswer(p, w) /\ Positions(pq, a) # {}
           /\ pq' = [i \in DOMAIN pq |-> IF i \in Positions(pq, a)
                                         THEN MergeIntoPq(pq[i], p) ELSE pq[i]]
  <2>1. \A i \in DOMAIN pq : pq[i] \in Packet /\ PqForm(pq[i])
    BY LenProperties, ElementOfSeq DEF IInv, TypeOK, Answers, Forms
  <2>2. ASSUME NEW i \in DOMAIN pq, pq[i].address = a
        PROVE  /\ pq'[i].address = a /\ PqForm(pq'[i])
               /\ Recipients(pq'[i]) = Recipients(pq[i]) \cup Recipients(p)
    <3>1. pq'[i] = MergeIntoPq(pq[i], p)
      BY <1>5, <2>2 DEF Positions
    <3>. QED
      BY <2>1, <2>2, <3>1, PqMergeAnswers, MergeTypes
  <2>3. \A i \in DOMAIN pq : pq[i].address # a => pq'[i] = pq[i]
    BY <1>5 DEF Positions
  <2>4. DOMAIN pq' = DOMAIN pq /\ \E k \in DOMAIN pq : pq[k].address = a
    BY <1>5 DEF Positions
  <2>5. Distinct(pq')
        /\ \A v, b : Asked(pq', v, b) <=> Asked(pq, v, b) \/ (b = a /\ v \in Recipients(p))
    <3>1. MergedAs(pq, pq', p)
      BY <2>2, <2>3, <2>4 DEF MergedAs
    <3>. QED
      BY <3>1, MergedIn DEF Answers
  <2>. QED
    BY <1>4, <1>5, <2>1, <2>2, <2>3, <2>4, <2>5
<1>6. CASE NoAnswer(p, w) /\ Positions(pq, a) = {} /\ AppendToPq(p)
  <2>1. pq' = Append(pq, p)
    BY <1>6 DEF AppendToPq
  <2>2. \A i \in DOMAIN pq : pq[i].address # p.address /\ PqForm(pq[i])
    BY <1>6 DEF Positions, Answers, Forms
  <2>3. /\ Distinct(pq')
        /\ \A i \in DOMAIN pq' : pq'[i] = p \/ (i \in DOMAIN pq /\ pq'[i] = pq[i])
        /\ \A v, b : Asked(pq', v, b) <=>
                        Asked(pq, v, b) \/ (b = p.address /\ v \in Recipients(p))
    BY <2>1, <2>2, Appended DEF IInv, TypeOK, Answers
  <2>. QED
    BY <1>4, <1>6, <2>2, <2>3
<1>. QED
  BY <1>3, <1>5, <1>6 DEF AddPq

LEMMA UpperPrefetchAnswers ==
    ASSUME IInv, Answers, NEW u \in Upper, NEW a \in Addr, UpperPrefetch(u, a)
    PROVE  Answers'
<1>1. PICK p \in Packet : p = FromUpper(u, a, "PREFETCH") /\ p.address = a
  BY PacketTypes
<1>2. PqForm(p) /\ Recipients(p) = {u}
  BY <1>1, Requested
<1>3. CanMiss(u, a) /\ Len(pq) # PqSize /\ UNCHANGED <<rq, mshr>> /\ AddPq(p, NowWaiting(u, a))
  BY <1>1 DEF UpperPrefetch, misses
<1>4. /\ NowWaiting(u, a) \in [Upper -> SUBSET Addr]
      /\ \A b : \A v \in Upper : b \in NowWaiting(u, a)[v] <=> b \in waiting[v] \/ (b = a /\ v = u)
  BY DEF NowWaiting, IInv, TypeOK
<1>5. \A v \in Recipients(p) : p.address \notin waiting[v]
  BY <1>1, <1>2, <1>3 DEF CanMiss
<1>6. waiting' = NowWaiting(u, a) => Bounded'
  BY <1>3, BoundedGrows DEF IInv, Answers
<1>7. \A b : \A v \in Upper : b \in NowWaiting(u, a)[v] <=>
                             b \in waiting[v] \/ (b = p.address /\ v \in Recipients(p))
  BY <1>1, <1>2, <1>4
<1>. QED
  BY <1>2, <1>3, <1>4, <1>5, <1>6, <1>7, AddPqAnswers

LEMMA PrefetchLineAnswers ==
    ASSUME IInv, Answers, NEW a \in Addr, NEW level \in {FillL2, FillLlc}, PrefetchLine(a, level)
    PROVE  Answers'
<1>1. PICK p \in Packet : p = Prefetched(a, level)
  BY PacketTypes
<1>2. PqForm(p) /\ Recipients(p) = {}
  <2>1. "L1I" \in Upper
    BY DEF Upper
  <2>. QED
    BY <1>1, <2>1, Requested
<1>3. Len(pq) # PqSize /\ UNCHANGED <<rq, mshr>> /\ AddPq(p, waiting)
  BY <1>1 DEF PrefetchLine, misses
<1>4. waiting \in [Upper -> SUBSET Addr]
  BY DEF IInv, TypeOK
<1>5. waiting' = waiting => Bounded'
  BY BoundedShrinks DEF Answers
<1>6. \A v \in Recipients(p) : p.address \notin waiting[v]
  BY <1>2
<1>7. \A b : \A v \in Upper : b \in waiting[v] <=>
                             b \in waiting[v] \/ (b = p.address /\ v \in Recipients(p))
  BY <1>2
<1>. QED
  BY <1>2, <1>3, <1>4, <1>5, <1>6, <1>7, AddPqAnswers

-----------------------------------------------------------------------------
(* The handlers of operate(): a miss is filled and answers its askers; the *)
(* head of RQ or of PQ is answered, or its askers move to a miss.          *)

LEMMA HandleFillAnswers ==
    ASSUME IInv, Answers, HandleFill
    PROVE  Answers'
<1>1. UNCHANGED <<rq, pq>>
  BY DEF HandleFill, queues
<1>2. CASE SkipFill
  BY <1>1, <1>2, NothingAsked DEF SkipFill, misses, uppers
<1>3. ASSUME NEW w \in Victims, DoFill(w)
      PROVE  Answers'
  <2>1. PICK m \in mshr : /\ m \in Packet /\ m.address \in Addr /\ mshr' = mshr \ {m}
                          /\ Answer(waiting, Recipients(m), m.address)
    BY <1>3, VictimsAreWays, FillKeeps
  <2>2. \A b : \A v \in Upper : b \in waiting'[v] <=>
                               b \in waiting[v] /\ ~(b = m.address /\ v \in Recipients(m))
    <3>1. waiting \in [Upper -> SUBSET Addr]
      BY DEF IInv, TypeOK
    <3>. QED
      BY <2>1, <3>1, AnswerClears
  <2>3. \A k \in mshr : k # m => k.address # m.address
    BY DEF IInv, FillsInFlight
  <2>4. \A v, b : InMiss(v, b)' <=> InMiss(v, b) /\ b # m.address
    BY <2>1, <2>3 DEF InMiss
  <2>5. \A v : InMiss(v, m.address) <=> v \in Recipients(m)
    BY <2>3 DEF InMiss
  <2>6. Owed'
    <3>. SUFFICES ASSUME NEW v \in Upper, NEW b \in Addr PROVE OwedTo(v, b)'
      BY DEF Owed
    <3>1. OwedTo(v, b)
      BY DEF Answers, Owed
    <3>. QED
      BY <1>1, <2>2, <2>4, <2>5, <3>1 DEF OwedTo, Asked
  <2>7. Bounded'
    BY <2>2, BoundedShrinks DEF Answers
  <2>8. Forms' /\ Distinct(rq)' /\ Distinct(pq)'
    BY <1>1, <2>1 DEF Answers, Forms, Distinct
  <2>. QED
    BY <2>6, <2>7, <2>8 DEF Answers
<1>. QED
  BY <1>2, <1>3 DEF HandleFill

LEMMA MissTakes ==
    ASSUME IInv, Answers, NEW p \in Packet, RqForm(p) \/ PqForm(p),
           \A v \in Recipients(p) : ~InMiss(v, p.address),
           NewMiss(p) \/ MergeIntoMshr(p)
    PROVE  /\ \A m \in mshr' : MshrForm(m)
           /\ \A v, b : InMiss(v, b)' <=> InMiss(v, b) \/ (b = p.address /\ v \in Recipients(p))
<1>1. CASE NewMiss(p)
  BY <1>1, FormsAnswer DEF NewMiss, Answers, Forms, InMiss
<1>2. CASE MergeIntoMshr(p)
  <2>1. PICK m \in InFlight(p.address) :
           mshr' = (mshr \ {m}) \cup
                   {IF m.type = "PREFETCH" /\ p.type # "PREFETCH"
                    THEN Upgraded(Merged(m, p), p) ELSE Merged(m, p)}
    BY <1>2 DEF MergeIntoMshr
  <2>2. m \in mshr /\ m \in Packet /\ m.address = p.address /\ MshrForm(m)
    BY DEF InFlight, IInv, TypeOK, Answers, Forms
  <2>3. PICK n : /\ n = IF m.type = "PREFETCH" /\ p.type # "PREFETCH"
                        THEN Upgraded(Merged(m, p), p) ELSE Merged(m, p)
                 /\ mshr' = (mshr \ {m}) \cup {n}
    BY <2>1
  <2>4. Recipients(m) \cap Recipients(p) = {}
    BY <2>2 DEF InMiss
  <2>5. MshrForm(n) /\ Recipients(n) = Recipients(m) \cup Recipients(p)
    BY <2>2, <2>3, <2>4, MshrMergeAnswers
  <2>6. n.address = p.address
    BY <2>2, <2>3, MergeTypes
  <2>7. \A k \in mshr' : MshrForm(k)
    BY <2>3, <2>5 DEF Answers, Forms
  <2>8. ASSUME NEW v, NEW b
        PROVE  InMiss(v, b)' <=> InMiss(v, b) \/ (b = p.address /\ v \in Recipients(p))
    <3>1. v \in Recipients(n) <=> v \in Recipients(m) \/ v \in Recipients(p)
      BY <2>5
    <3>. QED
      BY <2>2, <2>3, <2>6, <3>1 DEF InMiss
  <2>. QED
    BY <2>7, <2>8
<1>. QED
  BY <1>1, <1>2

LEMMA HandleReadAnswers ==
    ASSUME IInv, Answers, HandleRead
    PROVE  Answers'
<1>1. UNCHANGED pq
  BY DEF HandleRead
<1>2. CASE SkipRead
  BY <1>1, <1>2, NothingAsked DEF SkipRead, misses, uppers
<1>3. CASE rq # <<>> /\ DoRead(Head(rq))
  <2>1. PICK p \in Packet : p = Head(rq)
    BY <1>3, TailKeeps DEF IInv, TypeOK
  <2>2. p.address \in Addr /\ rq' = Tail(rq) /\ RqForm(p)
    BY <1>3, <2>1, TailKeeps DEF DoRead, Packet, IInv, TypeOK, Answers, Forms
  <2>3. /\ Distinct(rq')
        /\ \A i \in DOMAIN rq' : \E j \in DOMAIN rq : rq'[i] = rq[j]
        /\ \A v, b : Asked(rq', v, b) <=> Asked(rq, v, b) /\ b # p.address
        /\ \A v : Asked(rq, v, p.address) <=> v \in Recipients(p)
    <3>1. rq \in Seq(Packet) /\ Distinct(rq)
      BY DEF IInv, TypeOK, Answers
    <3>. QED
      BY <1>3, <2>1, <2>2, <3>1, HeadTaken
  <2>4. \A i \in DOMAIN rq' : RqForm(rq'[i])
    BY <2>3 DEF Answers, Forms
  <2>5. CASE ReadHit(p)
    <3>1. UNCHANGED mshr
      BY <2>5 DEF ReadHit, misses
    <3>2. \A b : \A v \in Upper : b \in waiting'[v] <=>
                                 b \in waiting[v] /\ ~(b = p.address /\ v \in Recipients(p))
      BY <2>2, <2>5, AnswerClears DEF ReadHit, IInv, TypeOK
    <3>3. Owed'
      <4>. SUFFICES ASSUME NEW v \in Upper, NEW b \in Addr PROVE OwedTo(v, b)'
        BY DEF Owed
      <4>1. OwedTo(v, b)
        BY DEF Answers, Owed
      <4>. QED
        BY <1>1, <2>3, <3>1, <3>2, <4>1 DEF OwedTo, InMiss
    <3>4. Bounded'
      BY <3>2, BoundedShrinks DEF Answers
    <3>. QED
      BY <1>1, <2>3, <2>4, <3>1, <3>3, <3>4 DEF Answers, Forms, Distinct
  <2>6. CASE ReadMiss(p)
    <3>1. UNCHANGED waiting
      BY <2>6 DEF ReadMiss, uppers
    <3>2. \A v \in Recipients(p) : ~InMiss(v, p.address)
      BY <2>2, <2>3, FormsAnswer DEF Answers, Owed, OwedTo
    <3>3. NewMiss(p) \/ MergeIntoMshr(p)
      BY <2>6 DEF ReadMiss
    <3>4. /\ \A m \in mshr' : MshrForm(m)
          /\ \A v, b : InMiss(v, b)' <=> InMiss(v, b) \/ (b = p.address /\ v \in Recipients(p))
      BY <2>2, <3>2, <3>3, MissTakes
    <3>5. Owed'
      <4>. SUFFICES ASSUME NEW v \in Upper, NEW b \in Addr PROVE OwedTo(v, b)'
        BY DEF Owed
      <4>1. OwedTo(v, b)
        BY DEF Answers, Owed
      <4>. QED
        BY <1>1, <2>3, <3>1, <3>4, <4>1 DEF OwedTo
    <3>6. Bounded'
      BY <3>1, BoundedShrinks DEF Answers
    <3>. QED
      BY <1>1, <2>3, <2>4, <3>4, <3>5, <3>6 DEF Answers, Forms, Distinct
  <2>. QED
    BY <1>3, <2>1, <2>5, <2>6 DEF DoRead
<1>. QED
  BY <1>2, <1>3 DEF HandleRead

LEMMA HandlePrefetchAnswers ==
    ASSUME IInv, Answers, HandlePrefetch
    PROVE  Answers'
<1>1. UNCHANGED rq
  BY DEF HandlePrefetch
<1>2. CASE SkipPrefetch
  BY <1>1, <1>2, NothingAsked DEF SkipPrefetch, misses, uppers
<1>3. CASE pq # <<>> /\ DoPrefetch(Head(pq))
  <2>1. PICK p \in Packet : p = Head(pq)
    BY <1>3, TailKeeps DEF IInv, TypeOK
  <2>2. p.address \in Addr /\ pq' = Tail(pq) /\ PqForm(p)
    BY <1>3, <2>1, TailKeeps DEF DoPrefetch, Packet, IInv, TypeOK, Answers, Forms
  <2>3. /\ Distinct(pq')
        /\ \A i \in DOMAIN pq' : \E j \in DOMAIN pq : pq'[i] = pq[j]
        /\ \A v, b : Asked(pq', v, b) <=> Asked(pq, v, b) /\ b # p.address
        /\ \A v : Asked(pq, v, p.address) <=> v \in Recipients(p)
    <3>1. pq \in Seq(Packet) /\ Distinct(pq)
      BY DEF IInv, TypeOK, Answers
    <3>. QED
      BY <1>3, <2>1, <2>2, <3>1, HeadTaken
  <2>4. \A i \in DOMAIN pq' : PqForm(pq'[i])
    BY <2>3 DEF Answers, Forms
  <2>5. CASE PrefetchHit(p)
    <3>1. UNCHANGED mshr
      BY <2>5 DEF PrefetchHit, misses
    <3>2. \A b : \A v \in Upper : b \in waiting'[v] <=>
                                 b \in waiting[v] /\ ~(b = p.address /\ v \in Recipients(p))
      <4>1. waiting \in [Upper -> SUBSET Addr]
        BY DEF IInv, TypeOK
      <4>2. Answer(waiting, Recipients(p), p.address)
        BY <2>2, <2>5, FormsAnswer DEF PrefetchHit
      <4>. QED
        BY <2>2, <4>1, <4>2, AnswerClears
    <3>3. Owed'
      <4>. SUFFICES ASSUME NEW v \in Upper, NEW b \in Addr PROVE OwedTo(v, b)'
        BY DEF Owed
      <4>1. OwedTo(v, b)
        BY DEF Answers, Owed
      <4>. QED
        BY <1>1, <2>3, <3>1, <3>2, <4>1 DEF OwedTo, InMiss
    <3>4. Bounded'
      BY <3>2, BoundedShrinks DEF Answers
    <3>. QED
      BY <1>1, <2>3, <2>4, <3>1, <3>3, <3>4 DEF Answers, Forms, Distinct
  <2>6. ASSUME PrefetchMiss(p),
               \A m \in mshr' : MshrForm(m),
               \A v, b : InMiss(v, b)' <=> InMiss(v, b) \/ (b = p.address /\ v \in Recipients(p))
        PROVE  Answers'
    <3>1. UNCHANGED waiting
      BY <2>6 DEF PrefetchMiss, uppers
    <3>2. Owed'
      <4>. SUFFICES ASSUME NEW v \in Upper, NEW b \in Addr PROVE OwedTo(v, b)'
        BY DEF Owed
      <4>1. OwedTo(v, b)
        BY DEF Answers, Owed
      <4>. QED
        BY <1>1, <2>3, <2>6, <3>1, <4>1 DEF OwedTo
    <3>3. Bounded'
      BY <3>1, BoundedShrinks DEF Answers
    <3>. QED
      BY <1>1, <2>3, <2>4, <2>6, <3>2, <3>3 DEF Answers, Forms, Distinct
  <2>7. CASE PrefetchMiss(p) /\ (NewMiss(p) \/ MergeIntoMshr(p))
    <3>1. \A v \in Recipients(p) : ~InMiss(v, p.address)
      BY <2>2, <2>3, FormsAnswer DEF Answers, Owed, OwedTo
    <3>. QED
      BY <2>2, <2>6, <2>7, <3>1, MissTakes
  <2>8. CASE PrefetchMiss(p) /\ p.fill_level > FillL2 /\ UNCHANGED misses
    <3>1. Recipients(p) = {}
      BY <2>2, <2>8, FormsAnswer
    <3>. QED
      BY <2>6, <2>8, <3>1 DEF misses, InMiss, Answers, Forms
  <2>9. p.fill_level <= FillL2 \/ p.fill_level > FillL2
    BY DEF Packet, FillL1, FillL2, FillLlc
  <2>. QED
    BY <1>3, <2>1, <2>5, <2>7, <2>8, <2>9 DEF DoPrefetch, PrefetchMiss
<1>. QED
  BY <1>2, <1>3 DEF HandlePrefetch

LEMMA AnswersKept ==
    ASSUME IInv, Answers, [Next]_vars
    PROVE  Answers'
<1>1. ASSUME NEW a \in Addr, NEW u \in Upper, UpperRead(u, a) \/ UpperPrefetch(u, a)
      PROVE  Answers'
  BY <1>1, UpperReadAnswers, UpperPrefetchAnswers
<1>2. ASSUME NEW a \in Addr, NEW level \in {FillL2, FillLlc}, PrefetchLine(a, level)
      PROVE  Answers'
  BY <1>2, PrefetchLineAnswers
<1>3. ASSUME NEW a \in Addr, DropClean(a) \/ WriteBack(a) \/ LlcAnswers(a)
      PROVE  Answers'
  BY <1>3, NothingAsked DEF DropClean, WriteBack, LlcAnswers, queues, misses, uppers
<1>4. CASE Operate
  <2>1. CASE Begin \/ HandleWriteback
    BY <2>1, NothingAsked DEF Begin, HandleWriteback, queues, misses, uppers
  <2>. QED
    BY <1>4, <2>1, HandleFillAnswers, HandleReadAnswers, HandlePrefetchAnswers DEF Operate
<1>5. CASE UNCHANGED vars
  BY <1>5, NothingAsked DEF vars, queues, misses, uppers
<1>. QED
  BY <1>1, <1>2, <1>3, <1>4, <1>5 DEF Next

-----------------------------------------------------------------------------
(* The requests Answering counts: none, or a single one.                   *)
LEMMA AnsweringIsOne ==
    ASSUME IInv, Answers, NEW u \in Upper, NEW a \in Addr
    PROVE  Cardinality(Answering(u, a)) = IF a \in waiting[u] THEN 1 ELSE 0
<1>. DEFINE R == {i \in Positions(rq, a) : u \in Recipients(rq[i])}
            P == {i \in Positions(pq, a) : u \in FlaggedRecipients(pq[i])}
            M == {m \in InFlight(a) : u \in Recipients(m)}
<1>1. Answering(u, a) = {<<"RQ", i>> : i \in R} \cup {<<"PQ", i>> : i \in P}
                        \cup {<<"MSHR", m>> : m \in M}
  BY DEF Answering
<1>2. OwedTo(u, a)
  BY DEF Answers, Owed
<1>3. (R # {} <=> Asked(rq, u, a)) /\ \A i, j \in R : i = j
  BY DEF Asked, Positions, Answers, Distinct
<1>4. (P # {} <=> Asked(pq, u, a)) /\ \A i, j \in P : i = j
  <2>1. \A i \in DOMAIN pq : FlaggedRecipients(pq[i]) = Recipients(pq[i])
    BY LenProperties, ElementOfSeq, FormsAnswer DEF IInv, TypeOK, Answers, Forms
  <2>. QED
    BY <2>1 DEF Asked, Positions, Answers, Distinct
<1>5. (M # {} <=> InMiss(u, a)) /\ \A m, n \in M : m = n
  BY DEF InMiss, InFlight, IInv, FillsInFlight
<1>. HIDE DEF R, P, M
<1>6. CASE a \notin waiting[u]
  <2>1. R = {} /\ P = {} /\ M = {}
    BY <1>2, <1>3, <1>4, <1>5, <1>6 DEF OwedTo
  <2>2. Answering(u, a) = {}
    BY <1>1, <2>1
  <2>. QED
    BY <1>6, <2>2, FS_EmptySet
<1>7. CASE a \in waiting[u]
  <2>1. \E x : Answering(u, a) = {x}
    <3>1. CASE R # {} /\ P = {} /\ M = {}
      <4>1. PICK i : R = {i}
        BY <1>3, <3>1
      <4>2. Answering(u, a) = {<<"RQ", i>>}
        BY <1>1, <3>1, <4>1
      <4>. QED
        BY <4>2
    <3>2. CASE R = {} /\ P # {} /\ M = {}
      <4>1. PICK i : P = {i}
        BY <1>4, <3>2
      <4>2. Answering(u, a) = {<<"PQ", i>>}
        BY <1>1, <3>2, <4>1
      <4>. QED
        BY <4>2
    <3>3. CASE R = {} /\ P = {} /\ M # {}
      <4>1. PICK m : M = {m}
        BY <1>5, <3>3
      <4>2. Answering(u, a) = {<<"MSHR", m>>}
        BY <1>1, <3>3, <4>1
      <4>. QED
        BY <4>2
    <3>. QED
      BY <1>2, <1>3, <1>4, <1>5, <1>7, <3>1, <3>2, <3>3 DEF OwedTo
  <2>2. PICK x : Answering(u, a) = {x}
    BY <2>1
  <2>3. Cardinality(Answering(u, a)) = 1
    BY <2>2, FS_Singleton
  <2>. QED
    BY <1>7, <2>3
<1>. QED
  BY <1>6, <1>7

(* Each cache above waits for exactly the answers it will get: no merge in *)
(* RQ, in PQ or in the MSHRs loses an asker, adds one, or answers twice,   *)
(* and RQ never refuses a packet, whatever the sizes.                      *)
THEOREM AnswersOwed == Spec => []OneAnswerOwed
<1>1. IInv /\ Answers => OneAnswerOwed
  BY AnsweringIsOne DEF OneAnswerOwed
<1>2. Init => IInv /\ Answers
  BY Initially, AnswersInitially
<1>3. (IInv /\ Answers) /\ [Next]_vars => (IInv /\ Answers)'
  BY NextInv, AnswersKept
<1>. QED
  BY <1>1, <1>2, <1>3, PTL DEF Spec
=============================================================================
