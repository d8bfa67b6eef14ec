---------------------------- MODULE PartsProofs ----------------------------
(***************************************************************************)
(* Four of the parts that MCParts checks one at a time, for all values of  *)
(* their constants: the packet queue, the fastset, the main loop and the   *)
(* component kernels.  They share no variable; each has its own invariant  *)
(* and its own theorems.                                                   *)
(***************************************************************************)
EXTENDS PacketQueue, FastSet, SimulationLoop, ComponentKernels, FiniteSetTheorems,
        WellFoundedInduction, TLAPS

(***************************************************************************)
(* PacketQueue.  The inductive invariant says which slots are used as an   *)
(* interval that wraps around: a step moves one end of it.  RingConsistent,*)
(* which counts packets from the oldest on, follows (UsedSlots).           *)
(***************************************************************************)

\* Slot i is one of the occupancy slots from head on.
Used(i) == (head <= i /\ i < head + occupancy) \/ i + SIZE < head + occupancy

IInv ==
    /\ TypeOK
    /\ tail = IF head + occupancy >= SIZE THEN head + occupancy - SIZE ELSE head + occupancy
    /\ \A i \in Slots : entry[i] # NoAddr <=> Used(i)

\* What arithmetic needs to know of the variables.
LEMMA Ranges ==
    ASSUME TypeOK
    PROVE  /\ SIZE \in Nat /\ SIZE > 0
           /\ head \in Int /\ 0 <= head /\ head < SIZE
           /\ tail \in Int /\ 0 <= tail /\ tail < SIZE
           /\ occupancy \in Int /\ 0 <= occupancy /\ occupancy <= SIZE
  BY QueueAssumption DEF TypeOK, Slots

\* SlotOf enumerates the used slots, each one once.
LEMMA UsedSlots ==
    ASSUME TypeOK
    PROVE  /\ \A k \in 1..occupancy : SlotOf(k) \in Slots /\ Used(SlotOf(k))
           /\ \A j, k \in 1..occupancy : SlotOf(j) = SlotOf(k) => j = k
           /\ \A i \in Slots : Used(i) => \E k \in 1..occupancy : i = SlotOf(k)
<1>1. \A k \in 1..occupancy : SlotOf(k) \in Slots /\ Used(SlotOf(k))
  BY Ranges DEF SlotOf, Slots, Used
<1>2. \A j, k \in 1..occupancy : SlotOf(j) = SlotOf(k) => j = k
  BY Ranges DEF SlotOf
<1>3. ASSUME NEW i \in Slots, Used(i)
      PROVE  \E k \in 1..occupancy : i = SlotOf(k)
  <2>1. CASE head <= i /\ i < head + occupancy
    <3>1. i - head + 1 \in 1..occupancy /\ i = SlotOf(i - head + 1)
      BY Ranges, <2>1 DEF SlotOf, Slots
    <3>. QED
      BY <3>1
  <2>2. CASE i + SIZE < head + occupancy
    <3>1. i + SIZE - head + 1 \in 1..occupancy /\ i = SlotOf(i + SIZE - head + 1)
      BY Ranges, <2>2 DEF SlotOf, Slots
    <3>. QED
      BY <3>1
  <2>. QED
    BY <1>3, <2>1, <2>2 DEF Used
<1>. QED
  BY <1>1, <1>2, <1>3

-----------------------------------------------------------------------------
(* The invariant is inductive. *)

LEMMA InitInv == Init => IInv
<1>. SUFFICES ASSUME Init PROVE IInv
  OBVIOUS
<1>1. TypeOK
  BY QueueAssumption DEF Init, TypeOK, Slots
<1>2. tail = IF head + occupancy >= SIZE THEN head + occupancy - SIZE ELSE head + occupancy
  BY QueueAssumption DEF Init
<1>3. \A i \in Slots : entry[i] # NoAddr <=> Used(i)
  BY QueueAssumption DEF Init, Used, Slots
<1>. QED
  BY <1>1, <1>2, <1>3 DEF IInv

LEMMA AddInv ==
    ASSUME IInv, NEW a \in Addr, AddQueue(a)
    PROVE  IInv'
<1>0. TypeOK
  BY DEF IInv
<1>1. TypeOK'
  BY Ranges, <1>0 DEF TypeOK, AddQueue, Wrap, Slots
<1>2. (tail = IF head + occupancy >= SIZE THEN head + occupancy - SIZE
              ELSE head + occupancy)'
  BY Ranges, <1>0 DEF IInv, AddQueue, Wrap
<1>3. ASSUME NEW i \in Slots
      PROVE  (entry[i] # NoAddr <=> Used(i))'
  <2>1. CASE i = tail
    <3>1. entry'[i] # NoAddr
      BY <1>0, <2>1, QueueAssumption DEF TypeOK, AddQueue
    <3>2. Used(i)'
      BY Ranges, <1>0, <2>1 DEF IInv, Used, AddQueue
    <3>. QED
      BY <3>1, <3>2
  <2>2. CASE i # tail
    <3>1. entry'[i] = entry[i]
      BY <1>0, <2>2 DEF TypeOK, AddQueue
    <3>2. Used(i)' <=> Used(i)
      BY Ranges, <1>0, <2>2 DEF IInv, Used, AddQueue, Slots
    <3>. QED
      BY <3>1, <3>2 DEF IInv
  <2>. QED
    BY <2>1, <2>2
<1>. QED
  BY <1>1, <1>2, <1>3 DEF IInv, Slots

LEMMA RemoveInv ==
    ASSUME IInv, RemoveQueue
    PROVE  IInv'
<1>0. TypeOK
  BY DEF IInv
<1>1. TypeOK'
  BY Ranges, <1>0 DEF TypeOK, RemoveQueue, Emptied, Wrap, Slots
<1>2. (tail = IF head + occupancy >= SIZE THEN head + occupancy - SIZE
              ELSE head + occupancy)'
  BY Ranges, <1>0 DEF IInv, RemoveQueue, Wrap
<1>3. ASSUME NEW i \in Slots
      PROVE  (entry[i] # NoAddr <=> Used(i))'
  <2>1. CASE i = head
    <3>1. entry'[i] = NoAddr
      BY <1>0, <2>1 DEF TypeOK, RemoveQueue, Emptied
    <3>2. ~Used(i)'
      BY Ranges, <1>0, <2>1 DEF Used, RemoveQueue, Wrap
    <3>. QED
      BY <3>1, <3>2
  <2>2. CASE i # head
    <3>1. entry'[i] = entry[i]
      BY <1>0, <2>2 DEF TypeOK, RemoveQueue, Emptied
    <3>2. Used(i)' <=> Used(i)
      BY Ranges, <1>0, <2>2 DEF Used, RemoveQueue, Wrap, Slots
    <3>. QED
      BY <3>1, <3>2 DEF IInv
  <2>. QED
    BY <2>1, <2>2
<1>. QED
  BY <1>1, <1>2, <1>3 DEF IInv, Slots

\* Every reachable ring is typed, and a slot is in use iff it lies in the window
\* of occupancy slots from head.
THEOREM Invariant == Spec => []IInv
<1>1. Init => IInv
  BY InitInv
<1>2. IInv /\ [Next]_vars => IInv'
  <2>. SUFFICES ASSUME IInv, [Next]_vars PROVE IInv'
    OBVIOUS
  <2>1. CASE RemoveQueue
    BY <2>1, RemoveInv
  <2>2. CASE \E a \in Addr : AddQueue(a)
    BY <2>2, AddInv
  <2>3. CASE UNCHANGED vars
    BY <2>3 DEF vars, IInv, TypeOK, Used, Slots
  <2>. QED
    BY <2>1, <2>2, <2>3 DEF Next
<1>. QED
  BY <1>1, <1>2, PTL DEF Spec

\* Every variable keeps its type.
THEOREM TypeCorrect == Spec => []TypeOK
<1>1. IInv => TypeOK
  BY DEF IInv
<1>. QED
  BY <1>1, Invariant, PTL

\* head, tail and occupancy agree on the used slots for every SIZE, and the
\* sanity checks of add_queue and remove_queue cannot fail.
THEOREM RingStaysConsistent == Spec => []RingConsistent
<1>1. IInv => RingConsistent
  <2>. SUFFICES ASSUME IInv PROVE RingConsistent
    OBVIOUS
  <2>0. TypeOK
    BY DEF IInv
  <2>1. \A i \in Slots : entry[i] # NoAddr <=> \E k \in 1..occupancy : i = SlotOf(k)
    BY <2>0, UsedSlots DEF IInv
  <2>2. (occupancy < SIZE => AddCheck) /\ (occupancy > 0 => RemoveCheck)
    BY <2>0, Ranges DEF IInv, AddCheck, RemoveCheck
  <2>. QED
    BY <2>1, <2>2 DEF IInv, RingConsistent
<1>. QED
  BY <1>1, Invariant, PTL
-----------------------------------------------------------------------------
(* check_queue. *)

\* A set of positions has a smallest one: the initial segments up to its
\* members are ordered by inclusion, and that order is well-founded.
LEMMA SmallestExists ==
    ASSUME NEW n \in Nat, NEW T \in SUBSET (1..n), T # {}
    PROVE  \E k \in T : \A j \in T : k <= j
<1>. DEFINE R == StrictSubsetOrdering(1..n)
            segments == {1..k : k \in T}
<1>1. IsWellFoundedOn(R, FiniteSubsetsOf(1..n))
  BY FS_StrictSubsetOrderingWellFounded
<1>2. \A k \in T : 1..k \subseteq 1..n /\ IsFiniteSet(1..k)
  BY FS_Interval
<1>3. segments \subseteq FiniteSubsetsOf(1..n) /\ segments # {}
  BY <1>2 DEF FiniteSubsetsOf
<1>. HIDE DEF R
<1>4. PICK s \in segments : \A t \in segments : ~ (<<t, s>> \in R)
  BY <1>1, <1>3, WFMin
<1>5. PICK k \in T : s = 1..k
  OBVIOUS
<1>6. ASSUME NEW j \in T, j < k PROVE FALSE
  <2>1. 1..j \in segments /\ 1..j \subseteq 1..k /\ 1..j # 1..k
    BY <1>6
  <2>. QED
    BY <1>2, <1>4, <1>5, <2>1 DEF R, StrictSubsetOrdering
<1>. QED
  BY <1>6

LEMMA SearchedUsed ==
    ASSUME IInv
    PROVE  Searched = {i \in Slots : Used(i)}
  BY Ranges DEF IInv, Searched, Slots, Used

\* check_queue visits the slots from the oldest packet to the newest.
LEMMA VisitOrder ==
    ASSUME IInv, NEW j \in 1..occupancy, NEW k \in 1..occupancy
    PROVE  VisitedBefore(SlotOf(j), SlotOf(k)) <=> j <= k
  BY Ranges DEF IInv, VisitedBefore, SlotOf

\* check_queue returns the oldest packet with the address, whatever the
\* position of the ring, and -1 exactly when there is none.
THEOREM CheckQueueCorrect == Spec => []CheckQueueExact
<1>1. IInv => CheckQueueExact
  <2>. SUFFICES ASSUME IInv, NEW a \in Addr
                PROVE  LET at == {k \in DOMAIN Items : Items[k] = a}
                       IN  IF at = {} THEN CheckQueue(a, -1)
                           ELSE \E k \in at : (\A j \in at : k <= j)
                                              /\ CheckQueue(a, SlotOf(k))
    BY DEF CheckQueueExact
  <2>. DEFINE at == {k \in 1..occupancy : entry[SlotOf(k)] = a}
              found == {i \in Searched : entry[i] = a}
  <2>0. TypeOK
    BY DEF IInv
  <2>1. at = {k \in DOMAIN Items : Items[k] = a}
    BY DEF Items
  <2>2. \A i \in found : \E k \in at : i = SlotOf(k)
    BY <2>0, SearchedUsed, UsedSlots
  <2>3. \A k \in at : SlotOf(k) \in found
    BY <2>0, SearchedUsed, UsedSlots
  <2>4. CASE at = {}
    BY <2>1, <2>2, <2>4 DEF CheckQueue
  <2>5. CASE at # {}
    <3>1. at \in SUBSET (1..occupancy) /\ occupancy \in Nat
      BY <2>0, Ranges
    <3>2. PICK k \in at : \A j \in at : k <= j
      <4>. HIDE DEF at
      <4>. QED
        BY <2>5, <3>1, SmallestExists
    <3>3. \A i \in found : VisitedBefore(SlotOf(k), i)
      BY <2>2, <3>2, VisitOrder
    <3>4. CheckQueue(a, SlotOf(k))
      BY <2>3, <3>2, <3>3 DEF CheckQueue
    <3>. QED
      BY <2>1, <2>5, <3>2, <3>4
  <2>. QED
    BY <2>4, <2>5
<1>. QED
  BY <1>1, Invariant, PTL

-----------------------------------------------------------------------------
(* Refinement. *)

\* Items is a sequence of occupancy addresses.
ItemsTyped == Items \in Seq(Addr) /\ Len(Items) = occupancy

LEMMA ItemsAreTyped == IInv => ItemsTyped
<1>. SUFFICES ASSUME IInv PROVE ItemsTyped
  OBVIOUS
<1>0. TypeOK
  BY DEF IInv
<1>1. \A k \in 1..occupancy : entry[SlotOf(k)] \in Addr
  BY <1>0, UsedSlots DEF IInv, TypeOK
<1>. QED
  BY <1>0, <1>1, Ranges DEF Items, ItemsTyped

LEMMA AddRefines ==
    ASSUME IInv, ItemsTyped, ItemsTyped', NEW a \in Addr, AddQueue(a)
    PROVE  Ideal!Put(a)
<1>0. TypeOK
  BY DEF IInv
<1>1. \A k \in 1..occupancy : Items'[k] = Items[k]
  <2>. SUFFICES ASSUME NEW k \in 1..occupancy PROVE Items'[k] = Items[k]
    OBVIOUS
  <2>1. SlotOf(k)' = SlotOf(k) /\ SlotOf(k) \in Slots /\ SlotOf(k) # tail
    BY <1>0, Ranges DEF SlotOf, AddQueue, IInv, Slots
  <2>2. entry'[SlotOf(k)] = entry[SlotOf(k)]
    BY <1>0, <2>1 DEF AddQueue, TypeOK
  <2>. QED
    BY <1>0, Ranges, <2>1, <2>2 DEF Items, AddQueue
<1>2. Items'[occupancy + 1] = a
  <2>1. SlotOf(occupancy)' = tail
    BY <1>0, Ranges DEF SlotOf, AddQueue, IInv
  <2>2. entry'[tail] = a
    BY <1>0 DEF AddQueue, TypeOK
  <2>3. occupancy' = occupancy + 1 /\ occupancy + 1 \in 1..(occupancy + 1)
    BY <1>0, Ranges DEF AddQueue
  <2>4. Items'[occupancy'] = entry'[SlotOf(occupancy)']
    BY <2>3 DEF Items
  <2>. QED
    BY <2>1, <2>2, <2>3, <2>4
<1>3. Len(Items') = occupancy + 1 /\ occupancy < SIZE
  BY DEF AddQueue, ItemsTyped
<1>. DEFINE s == Items
            t == Items'
<1>4. /\ s \in Seq(Addr) /\ t \in Seq(Addr) /\ Len(s) = occupancy /\ Len(t) = occupancy + 1
      /\ (\A k \in 1..occupancy : t[k] = s[k]) /\ t[occupancy + 1] = a
  BY <1>1, <1>2, <1>3 DEF ItemsTyped
<1>5. occupancy \in Nat
  BY <1>0, Ranges
<1>. HIDE DEF s, t
<1>6. t = Append(s, a)
  BY <1>4, <1>5
<1>. QED
  BY <1>3, <1>4, <1>6 DEF Ideal!Put, s, t

LEMMA RemoveRefines ==
    ASSUME IInv, ItemsTyped, ItemsTyped', RemoveQueue
    PROVE  Ideal!Take
<1>0. TypeOK
  BY DEF IInv
<1>1. \A k \in 1..(occupancy - 1) : Items'[k] = Items[k + 1]
  <2>. SUFFICES ASSUME NEW k \in 1..(occupancy - 1) PROVE Items'[k] = Items[k + 1]
    OBVIOUS
  <2>1. SlotOf(k)' = SlotOf(k + 1) /\ SlotOf(k + 1) \in Slots /\ SlotOf(k + 1) # head
    BY <1>0, Ranges DEF SlotOf, RemoveQueue, Wrap, Slots
  <2>2. entry'[SlotOf(k + 1)] = entry[SlotOf(k + 1)]
    BY <1>0, <2>1 DEF RemoveQueue, Emptied, TypeOK
  <2>. QED
    BY <1>0, Ranges, <2>1, <2>2 DEF Items, RemoveQueue
<1>2. Len(Items') = occupancy - 1 /\ occupancy > 0
  BY DEF RemoveQueue, ItemsTyped
<1>. DEFINE s == Items
            t == Items'
<1>3. /\ s \in Seq(Addr) /\ t \in Seq(Addr) /\ Len(s) = occupancy /\ Len(t) = occupancy - 1
      /\ (\A k \in 1..(occupancy - 1) : t[k] = s[k + 1])
  BY <1>1, <1>2 DEF ItemsTyped
<1>4. occupancy \in Nat
  BY <1>0, Ranges
<1>. HIDE DEF s, t
<1>5. s # <<>> /\ t = Tail(s)
  BY <1>2, <1>3, <1>4
<1>. QED
  BY <1>5 DEF Ideal!Take, s, t

\* The ring buffer is a first-in first-out queue of SIZE packets: nothing is
\* lost, duplicated or reordered where head and tail wrap around.
THEOREM RingImplementsFifo == Spec => ImplementsFifo
<1>1. Init => Ideal!Init
  <2>. SUFFICES ASSUME Init PROVE Items = <<>>
    BY DEF Ideal!Init
  <2>. QED
    BY DEF Init, Items
<1>2. IInv /\ ItemsTyped /\ ItemsTyped' /\ [Next]_vars => [Ideal!Next]_Items
  <2>. SUFFICES ASSUME IInv, ItemsTyped, ItemsTyped', [Next]_vars
                PROVE  [Ideal!Next]_Items
    OBVIOUS
  <2>1. CASE RemoveQueue
    BY <2>1, RemoveRefines DEF Ideal!Next
  <2>2. CASE \E a \in Addr : AddQueue(a)
    BY <2>2, AddRefines DEF Ideal!Next
  <2>3. CASE UNCHANGED vars
    BY <2>3 DEF vars, Items, SlotOf
  <2>. QED
    BY <2>1, <2>2, <2>3 DEF Next
<1>. QED
  BY <1>1, <1>2, Invariant, ItemsAreTyped, PTL DEF Spec, ImplementsFifo, Ideal!Spec

-----------------------------------------------------------------------------
(***************************************************************************)
(* FastSet.  An array is in increasing order and card counts it (Reps), so *)
(* that its values are a set and each search finds them; an operation adds *)
(* to what a set holds, whichever form it is in.                           *)
(***************************************************************************)

Increasing(v) == \A i, j \in DOMAIN v : i < j => v[i] < v[j]

Reps ==
    {r \in [card : 0 .. SmallSize, values : Seq(Member), bits : SUBSET Member] :
        r.card < SmallSize => Len(r.values) = r.card /\ Increasing(r.values)}

Holds(r) == IF r.card < SmallSize THEN Range(r.values) ELSE r.bits

SetInv ==
    /\ card \in [Set -> Nat] /\ values \in [Set -> Seq(Member)]
    /\ bits \in [Set -> SUBSET Member]
    /\ \A s \in Set : Rep(s) \in Reps

LEMMA MembersNumbers ==
    /\ Member \subseteq Nat /\ Cardinality(Member) \in Nat
    /\ \A x \in Member : x < Cardinality(Member)
<1>1. IsFiniteSet(Member) /\ Member = 0..(Cardinality(Member) - 1)
  BY FastSetAssumption
<1>2. Cardinality(Member) \in Nat
  BY <1>1, FS_CardinalityType
<1>3. \A x \in 0..(Cardinality(Member) - 1) : x \in Nat /\ x < Cardinality(Member)
  BY <1>2
<1>. QED
  BY <1>1, <1>2, <1>3

LEMMA SetSizes ==
    /\ SmallSize \in Nat /\ SmallSize > 1 /\ SmallerSize \in Nat
    /\ WordSize \in Nat /\ WordSize > 0
  BY FastSetAssumption

Forms == [card : 0 .. SmallSize, values : Seq(Member), bits : SUBSET Member]

LEMMA RepFields ==
    ASSUME NEW r \in Reps
    PROVE  /\ r \in Forms
           /\ r.card \in Nat /\ r.card <= SmallSize
           /\ r.values \in Seq(Member) /\ r.bits \in SUBSET Member
           /\ r.card < SmallSize => Len(r.values) = r.card /\ Increasing(r.values)
<1>1. r \in Forms /\ (r.card < SmallSize => Len(r.values) = r.card /\ Increasing(r.values))
  BY DEF Reps, Forms
<1>2. r.card \in 0 .. SmallSize /\ r.values \in Seq(Member) /\ r.bits \in SUBSET Member
  BY <1>1 DEF Forms
<1>. QED
  BY <1>1, <1>2, SetSizes

Form(q, c, v, b) == q = [card |-> c, values |-> v, bits |-> b]

LEMMA IsRep ==
    ASSUME NEW q, NEW c \in Nat, c <= SmallSize, NEW v \in Seq(Member), NEW b \in SUBSET Member,
           c < SmallSize => Len(v) = c /\ Increasing(v), Form(q, c, v, b)
    PROVE  /\ q \in Reps
           /\ c < SmallSize => Holds(q) = Range(v)
           /\ c = SmallSize => Holds(q) = b
<1>1. c \in 0 .. SmallSize
  BY SetSizes
<1>2. q \in [card : 0 .. SmallSize, values : Seq(Member), bits : SUBSET Member]
  BY <1>1 DEF Form
<1>3. q.card = c /\ q.values = v /\ q.bits = b
  BY DEF Form
<1>. QED
  BY <1>2, <1>3, SetSizes DEF Reps, Holds

LEMMA FormsChange ==
    ASSUME NEW r \in Forms, NEW c, NEW v, NEW b
    PROVE  /\ Form([r EXCEPT !.card = c, !.values = v], c, v, r.bits)
           /\ Form([r EXCEPT !.bits = b], r.card, r.values, b)
           /\ Form(SmallToBit([r EXCEPT !.card = c, !.values = v]), SmallSize, << >>, Range(v))
           /\ Form(SmallToBit(r), SmallSize, << >>, Range(r.values))
<1>1. PICK p : p = [r EXCEPT !.card = c]
  OBVIOUS
<1>2. Form(p, c, r.values, r.bits)
  BY <1>1 DEF Forms, Form
<1>3. [r EXCEPT !.card = c, !.values = v] = [[r EXCEPT !.card = c] EXCEPT !.values = v]
  BY DEF Forms
<1>4. PICK q : q = [r EXCEPT !.card = c, !.values = v]
  OBVIOUS
<1>5. q = [p EXCEPT !.values = v]
  BY <1>1, <1>3, <1>4
<1>6. Form(q, c, v, r.bits)
  BY <1>2, <1>5 DEF Form
<1>7. q.values = v
  BY <1>6 DEF Form
<1>8. Form(SmallToBit(q), SmallSize, << >>, Range(v))
  BY <1>7 DEF Form, SmallToBit
<1>9. Form([r EXCEPT !.bits = b], r.card, r.values, b)
  BY DEF Forms, Form
<1>10. Form(SmallToBit(r), SmallSize, << >>, Range(r.values))
  BY DEF Form, SmallToBit
<1>. QED
  BY <1>4, <1>6, <1>8, <1>9, <1>10

\* A non-empty set of naturals has a least element.
LEMMA LeastOf ==
    ASSUME NEW S \in SUBSET Nat, S # {}
    PROVE  \E x \in S : \A y \in S : x <= y
<1>1. IsWellFoundedOn(OpToRel(<, Nat), Nat)
  BY NatLessThanWellFounded
<1>2. PICK x \in S : \A y \in S : ~(<<y, x>> \in OpToRel(<, Nat))
  BY <1>1, WFMin
<1>3. \A y \in S : ~(y < x)
  BY <1>2 DEF OpToRel
<1>. QED
  BY <1>3

-----------------------------------------------------------------------------
(* What the operations on arrays do. *)

LEMMA ValuesNumbers ==
    ASSUME NEW v \in Seq(Member)
    PROVE  /\ Len(v) \in Nat /\ DOMAIN v = 1..Len(v)
           /\ \A i \in 1..Len(v) : v[i] \in Member /\ v[i] \in Nat
<1>1. Len(v) \in Nat /\ DOMAIN v = 1..Len(v)
  OBVIOUS
<1>2. \A i \in 1..Len(v) : v[i] \in Member
  OBVIOUS
<1>. QED
  BY <1>1, <1>2, MembersNumbers

LEMMA PlaceFound ==
    ASSUME NEW v \in Seq(Member), NEW x \in Member
    PROVE  /\ Place(v, x) \in 1..(Len(v) + 1)
           /\ \A j \in 1..(Place(v, x) - 1) : v[j] < x
           /\ Place(v, x) <= Len(v) => v[Place(v, x)] >= x
<1> DEFINE S == {i \in 1..(Len(v) + 1) : i <= Len(v) => v[i] >= x}
<1>1. Len(v) \in Nat /\ \A i \in 1..Len(v) : v[i] \in Nat
  BY ValuesNumbers
<1>2. S \in SUBSET Nat /\ Len(v) + 1 \in S
  BY <1>1
<1>3. PICK i \in S : \A j \in S : i <= j
  BY <1>2, LeastOf
<1>4. i \in 1..(Len(v) + 1) /\ (i <= Len(v) => v[i] >= x)
  BY <1>3
<1>5. ASSUME NEW j \in 1..(i - 1) PROVE v[j] < x
  <2>1. j \in 1..Len(v) /\ j < i /\ j \in 1..(Len(v) + 1)
    BY <1>1, <1>4
  <2>2. j \notin S
    BY <1>1, <1>3, <1>4, <2>1
  <2>3. ~(v[j] >= x)
    BY <2>1, <2>2
  <2>4. v[j] \in Nat /\ x \in Nat
    BY <1>1, <2>1, MembersNumbers
  <2>. QED
    BY <2>3, <2>4
<1>6. \E p \in 1..(Len(v) + 1) : /\ \A j \in 1..(p - 1) : v[j] < x
                                 /\ p <= Len(v) => v[p] >= x
  BY <1>4, <1>5
<1>. QED
  BY <1>6, Zenon DEF Place

LEMMA InsertSmallAdds ==
    ASSUME NEW v \in Seq(Member), Increasing(v), NEW x \in Member
    PROVE  /\ InsertSmall(v, x) \in Seq(Member)
           /\ Increasing(InsertSmall(v, x))
           /\ Range(InsertSmall(v, x)) = Range(v) \cup {x}
           /\ Len(InsertSmall(v, x)) \in {Len(v), Len(v) + 1}
<1> DEFINE p == Place(v, x)
           w == [k \in 1..(Len(v) + 1) |-> IF k < p THEN v[k] ELSE IF k = p THEN x ELSE v[k - 1]]
<1>1. Len(v) \in Nat /\ x \in Nat /\ \A i \in 1..Len(v) : v[i] \in Nat /\ v[i] \in Member
  BY ValuesNumbers, MembersNumbers
<1>2. /\ p \in 1..(Len(v) + 1)
      /\ \A j \in 1..(p - 1) : v[j] < x
      /\ p <= Len(v) => v[p] >= x
  BY PlaceFound
<1>3. DOMAIN v = 1..Len(v)
  OBVIOUS
<1>4. InsertSmall(v, x) = IF p <= Len(v) /\ v[p] = x THEN v ELSE w
  BY DEF InsertSmall
<1> HIDE DEF p
<1>5. CASE p <= Len(v) /\ v[p] = x
  <2>1. x \in Range(v)
    BY <1>1, <1>2, <1>3, <1>5 DEF Range
  <2>2. InsertSmall(v, x) = v
    BY <1>4, <1>5
  <2>. QED
    BY <1>1, <2>1, <2>2
<1>6. CASE ~(p <= Len(v) /\ v[p] = x)
  <2>1. InsertSmall(v, x) = w
    BY <1>4, <1>6
  <2>2. \A j \in p..Len(v) : v[j] > x
    <3>. SUFFICES ASSUME NEW j \in p..Len(v) PROVE v[j] > x
      OBVIOUS
    <3>1. p \in 1..Len(v) /\ j \in 1..Len(v) /\ p <= j
      BY <1>1, <1>2
    <3>2. v[p] > x
      BY <1>1, <1>2, <1>6, <3>1
    <3>3. v[p] <= v[j]
      BY <1>1, <1>3, <3>1 DEF Increasing
    <3>. QED
      BY <1>1, <3>1, <3>2, <3>3
  <2>3. \A k \in 1..(Len(v) + 1) :
           /\ k < p => w[k] = v[k] /\ k \in 1..Len(v) /\ w[k] < x
           /\ k = p => w[k] = x
           /\ k > p => w[k] = v[k - 1] /\ k - 1 \in 1..Len(v) /\ w[k] > x
    BY <1>1, <1>2, <2>2
  <2>4. w \in [1..(Len(v) + 1) -> Member]
    BY <1>1, <1>2, <2>3
  <2>5. w \in Seq(Member) /\ Len(w) = Len(v) + 1 /\ DOMAIN w = 1..(Len(v) + 1)
    BY <1>1, <2>4
  <2>6. Increasing(w)
    <3>. SUFFICES ASSUME NEW i \in 1..(Len(v) + 1), NEW j \in 1..(Len(v) + 1), i < j
                  PROVE  w[i] < w[j]
      BY <2>5 DEF Increasing
    <3>1. w[i] \in Nat /\ w[j] \in Nat
      BY <2>4, MembersNumbers
    <3> HIDE DEF w
    <3>2. CASE i < p /\ j < p
      BY <1>3, <2>3, <3>2 DEF Increasing
    <3>3. CASE i < p /\ j >= p
      BY <1>1, <1>2, <2>3, <3>1, <3>3
    <3>4. CASE i = p
      BY <1>1, <1>2, <2>3, <3>1, <3>4
    <3>5. CASE i > p
      <4>1. i - 1 \in 1..Len(v) /\ j - 1 \in 1..Len(v) /\ w[i] = v[i - 1] /\ w[j] = v[j - 1]
            /\ i - 1 < j - 1
        BY <1>2, <2>3, <3>5
      <4>. QED
        BY <1>3, <4>1 DEF Increasing
    <3>. QED
      BY <1>2, <3>2, <3>3, <3>4, <3>5
  <2>7. Range(w) = Range(v) \cup {x}
    <3>1. ASSUME NEW y \in Range(w) PROVE y \in Range(v) \cup {x}
      <4>1. PICK k \in 1..(Len(v) + 1) : w[k] = y
        BY <2>5 DEF Range
      <4>. QED
        BY <1>2, <1>3, <2>3, <4>1 DEF Range
    <3>2. x \in Range(w)
      BY <1>2, <2>3, <2>5 DEF Range
    <3>3. ASSUME NEW y \in Range(v) PROVE y \in Range(w)
      <4>1. PICK k \in 1..Len(v) : v[k] = y
        BY <1>3 DEF Range
      <4>2. CASE k < p
        <5>1. k \in 1..(Len(v) + 1) /\ w[k] = y
          BY <1>1, <2>3, <4>1, <4>2
        <5>. QED
          BY <2>5, <5>1 DEF Range
      <4>3. CASE k >= p
        <5>1. k + 1 \in 1..(Len(v) + 1) /\ k + 1 > p /\ k + 1 - 1 = k
          BY <1>1, <1>2, <4>3
        <5>2. w[k + 1] = y
          BY <2>3, <4>1, <5>1
        <5>. QED
          BY <2>5, <5>1, <5>2 DEF Range
      <4>. QED
        BY <1>2, <4>2, <4>3
    <3>. QED
      BY <3>1, <3>2, <3>3
  <2>. QED
    BY <2>1, <2>5, <2>6, <2>7
<1>. QED
  BY <1>5, <1>6

\* An array that is full becomes a bit set; nothing else changes the form.
LEMMA InsertedAdds ==
    ASSUME NEW r \in Reps, NEW x \in Member
    PROVE  Inserted(r, x) \in Reps /\ Holds(Inserted(r, x)) = Holds(r) \cup {x}
<1>1. /\ r \in Forms
      /\ r.card \in Nat /\ r.card <= SmallSize
      /\ r.values \in Seq(Member) /\ r.bits \in SUBSET Member
      /\ r.card < SmallSize => Len(r.values) = r.card /\ Increasing(r.values)
  BY RepFields
<1>2. CASE r.card = 0
  <2>1. PICK v : v = <<x>>
    OBVIOUS
  <2>2. v \in Seq(Member) /\ Len(v) = 1 /\ DOMAIN v = {1} /\ v[1] = x
    BY <2>1
  <2>3. Increasing(v) /\ Range(v) = {x}
    BY <2>2 DEF Increasing, Range
  <2>4. Inserted(r, x) = [r EXCEPT !.card = 1, !.values = v]
    BY <1>2, <2>1 DEF Inserted
  <2>5. Form(Inserted(r, x), 1, v, r.bits)
    <3>1. Form([r EXCEPT !.card = 1, !.values = v], 1, v, r.bits)
      BY <1>1, FormsChange
    <3>. QED
      BY <2>4, <3>1
  <2>6. 1 \in Nat /\ 1 <= SmallSize /\ 1 < SmallSize
    BY SetSizes
  <2>7. Inserted(r, x) \in Reps /\ Holds(Inserted(r, x)) = Range(v)
    BY <1>1, <2>2, <2>3, <2>5, <2>6, IsRep
  <2>8. Holds(r) = {}
    <3>1. DOMAIN r.values = 1..0
      BY <1>1, <1>2, SetSizes
    <3>. QED
      BY <1>2, <3>1, SetSizes DEF Holds, Range
  <2>. QED
    BY <2>3, <2>7, <2>8
<1>3. CASE r.card # 0 /\ r.card < SmallSize
  <2>1. PICK v : v = InsertSmall(r.values, x)
    OBVIOUS
  <2>2. /\ v \in Seq(Member) /\ Increasing(v) /\ Range(v) = Range(r.values) \cup {x}
        /\ Len(v) \in {Len(r.values), Len(r.values) + 1}
    BY <1>1, <1>3, <2>1, InsertSmallAdds
  <2>3. Len(v) \in Nat /\ Len(v) <= SmallSize
    BY <1>1, <1>3, <2>2, SetSizes
  <2>4. Inserted(r, x) =
          IF Len(v) = SmallSize THEN SmallToBit([r EXCEPT !.card = Len(v), !.values = v])
          ELSE [r EXCEPT !.card = Len(v), !.values = v]
    BY <1>3, <2>1 DEF Inserted
  <2>5. Holds(r) = Range(r.values)
    BY <1>3 DEF Holds
  <2>6. CASE Len(v) = SmallSize
    <3>1. Range(v) \in SUBSET Member
      <4>1. \A y \in DOMAIN v : v[y] \in Member
        BY <2>2
      <4>. QED
        BY <4>1 DEF Range
    <3>2. << >> \in Seq(Member) /\ ~(SmallSize < SmallSize) /\ SmallSize \in Nat
          /\ SmallSize <= SmallSize
      BY SetSizes
    <3>3. Form(SmallToBit([r EXCEPT !.card = Len(v), !.values = v]), SmallSize, << >>, Range(v))
      BY <1>1, FormsChange
    <3>4. Form(Inserted(r, x), SmallSize, << >>, Range(v))
      BY <2>4, <2>6, <3>3
    <3>5. Inserted(r, x) \in Reps /\ Holds(Inserted(r, x)) = Range(v)
      BY <3>1, <3>2, <3>4, IsRep
    <3>. QED
      BY <2>2, <2>5, <3>5
  <2>7. CASE Len(v) # SmallSize
    <3>1. Form([r EXCEPT !.card = Len(v), !.values = v], Len(v), v, r.bits)
      BY <1>1, FormsChange
    <3>2. Form(Inserted(r, x), Len(v), v, r.bits)
      BY <2>4, <2>7, <3>1
    <3>3. Len(v) < SmallSize
      BY <2>3, <2>7, SetSizes
    <3>4. Inserted(r, x) \in Reps /\ Holds(Inserted(r, x)) = Range(v)
      BY <1>1, <2>2, <2>3, <3>2, <3>3, IsRep
    <3>. QED
      BY <2>2, <2>5, <3>4
  <2>. QED
    BY <2>6, <2>7
<1>4. CASE ~(r.card < SmallSize)
  <2>1. r.card = SmallSize /\ r.card # 0
    BY <1>1, <1>4, SetSizes
  <2>2. r.bits \cup {x} \in SUBSET Member
    BY <1>1
  <2>3. Inserted(r, x) = [r EXCEPT !.bits = @ \cup {x}]
    BY <1>4, <2>1 DEF Inserted
  <2>4. Form([r EXCEPT !.bits = r.bits \cup {x}], r.card, r.values, r.bits \cup {x})
    BY <1>1, FormsChange
  <2>5. Form(Inserted(r, x), r.card, r.values, r.bits \cup {x})
    BY <2>3, <2>4
  <2>6. Inserted(r, x) \in Reps /\ Holds(Inserted(r, x)) = r.bits \cup {x}
    BY <1>1, <1>4, <2>1, <2>2, <2>5, IsRep
  <2>. QED
    BY <1>4, <2>6 DEF Holds
<1>. QED
  BY <1>2, <1>3, <1>4

\* The loop of join after its first n insertions, and that there is such a loop.
InsertsTo(r, v, n, f) ==
    f = [i \in 0..n |-> IF i = 0 THEN r ELSE Inserted(f[i - 1], v[i])]

LEMMA InsertsExist ==
    ASSUME NEW r, NEW v, NEW n \in Nat
    PROVE  \E f : InsertsTo(r, v, n, f)
<1> DEFINE S == {k \in Nat : ~\E f : InsertsTo(r, v, k, f)}
<1>. SUFFICES S = {}
  OBVIOUS
<1>1. ASSUME S # {} PROVE FALSE
  <2>1. PICK k \in S : \A y \in S : k <= y
    BY <1>1, LeastOf
  <2>2. CASE k = 0
    <3> DEFINE g == [i \in 0..0 |-> r]
    <3>1. \A i \in 0..0 : i = 0
      OBVIOUS
    <3>2. g = [i \in 0..0 |-> IF i = 0 THEN r ELSE Inserted(g[i - 1], v[i])]
      BY <3>1
    <3> HIDE DEF g
    <3>3. InsertsTo(r, v, 0, g)
      BY <3>2 DEF InsertsTo
    <3>. QED
      BY <2>1, <2>2, <3>3
  <2>3. CASE k # 0
    <3>1. k - 1 \in Nat /\ k \in Nat /\ k - 1 \notin S
      BY <2>1, <2>3
    <3>2. PICK f : InsertsTo(r, v, k - 1, f)
      BY <3>1
    <3> DEFINE g == [i \in 0..k |-> IF i = 0 THEN r ELSE Inserted(f[i - 1], v[i])]
    <3>3. \A i \in 0..(k - 1) : g[i] = f[i]
      BY <3>1, <3>2 DEF InsertsTo
    <3>4. \A i \in 0..k : i # 0 => i - 1 \in 0..(k - 1)
      BY <3>1
    <3>5. g = [i \in 0..k |-> IF i = 0 THEN r ELSE Inserted(g[i - 1], v[i])]
      BY <3>3, <3>4
    <3> HIDE DEF g
    <3>6. InsertsTo(r, v, k, g)
      BY <3>5 DEF InsertsTo
    <3>. QED
      BY <2>1, <3>6
  <2>. QED
    BY <2>2, <2>3
<1>. QED
  BY <1>1

LEMMA InsertsAdd ==
    ASSUME NEW r \in Reps, NEW v \in Seq(Member), NEW f, InsertsTo(r, v, Len(v), f),
           NEW n \in 0..Len(v)
    PROVE  f[n] \in Reps /\ Holds(f[n]) = Holds(r) \cup {v[i] : i \in 1..n}
<1>0. Len(v) \in Nat /\ \A i \in 1..Len(v) : v[i] \in Member
  BY ValuesNumbers
<1>1. /\ f[0] = r
      /\ \A i \in 0..Len(v) : i # 0 => f[i] = Inserted(f[i - 1], v[i])
  <2>1. \A i \in 0..Len(v) : f[i] = IF i = 0 THEN r ELSE Inserted(f[i - 1], v[i])
    BY Zenon DEF InsertsTo
  <2>2. 0 \in 0..Len(v)
    BY <1>0
  <2>. QED
    BY <2>1, <2>2
<1> DEFINE S == {k \in Nat : k <= Len(v)
                   /\ ~(f[k] \in Reps /\ Holds(f[k]) = Holds(r) \cup {v[i] : i \in 1..k})}
<1>2. ASSUME S # {} PROVE FALSE
  <2>1. PICK k \in S : \A y \in S : k <= y
    BY <1>2, LeastOf
  <2>2. k \in Nat /\ k <= Len(v)
        /\ ~(f[k] \in Reps /\ Holds(f[k]) = Holds(r) \cup {v[i] : i \in 1..k})
    BY <2>1
  <2>3. k # 0
    <3>1. {v[i] : i \in 1..0} = {}
      OBVIOUS
    <3>. QED
      BY <1>1, <2>2, <3>1
  <2>4. k - 1 \in Nat /\ k - 1 <= Len(v) /\ k - 1 \notin S /\ k \in 1..Len(v)
    BY <1>0, <2>1, <2>2, <2>3
  <2>5. f[k - 1] \in Reps /\ Holds(f[k - 1]) = Holds(r) \cup {v[i] : i \in 1..(k - 1)}
    BY <2>4
  <2>6. f[k] = Inserted(f[k - 1], v[k]) /\ v[k] \in Member
    BY <1>0, <1>1, <2>4
  <2>7. f[k] \in Reps /\ Holds(f[k]) = Holds(f[k - 1]) \cup {v[k]}
    BY <2>5, <2>6, InsertedAdds
  <2>8. {v[i] : i \in 1..k} = {v[i] : i \in 1..(k - 1)} \cup {v[k]}
    <3>1. \A i : i \in 1..k <=> i \in 1..(k - 1) \/ i = k
      BY <2>4
    <3>. QED
      BY <3>1
  <2>. QED
    BY <2>2, <2>5, <2>7, <2>8
<1>3. n \in Nat /\ n <= Len(v) /\ n \notin S
  BY <1>0, <1>2
<1>. QED
  BY <1>3

LEMMA InsertedAllAdds ==
    ASSUME NEW r \in Reps, NEW v \in Seq(Member)
    PROVE  InsertedAll(r, v) \in Reps /\ Holds(InsertedAll(r, v)) = Holds(r) \cup Range(v)
<1>0. Len(v) \in Nat /\ DOMAIN v = 1..Len(v)
  BY ValuesNumbers
<1> DEFINE step == CHOOSE f : InsertsTo(r, v, Len(v), f)
<1>1. InsertedAll(r, v) = step[Len(v)]
  BY DEF InsertedAll, InsertsTo
<1>2. InsertsTo(r, v, Len(v), step)
  BY <1>0, InsertsExist
<1> HIDE DEF step
<1>3. Len(v) \in 0..Len(v)
  BY <1>0
<1>4. /\ step[Len(v)] \in Reps
      /\ Holds(step[Len(v)]) = Holds(r) \cup {v[i] : i \in 1..Len(v)}
  BY <1>2, <1>3, InsertsAdd
<1>. QED
  BY <1>0, <1>1, <1>4 DEF Range

LEMMA NextWord ==
    ASSUME NEW n \in Nat, NEW w \in Nat, w > 0
    PROVE  n \div w \in Nat /\ n < (n \div w + 1) * w
  OBVIOUS

\* The words that are joined reach the last member, also when the last one is
\* only partly in use.
LEMMA WordsReach == \A x \in Member : x \in Words(Cardinality(Member))
<1>. SUFFICES ASSUME NEW x \in Member PROVE x \in Words(Cardinality(Member))
  OBVIOUS
<1>1. PICK n \in Nat : n = Cardinality(Member)
  BY MembersNumbers
<1>2. x \in Nat /\ x < n
  BY <1>1, MembersNumbers
<1>3. WordSize \in Nat /\ WordSize > 0
  BY SetSizes
<1>4. n < (n \div WordSize + 1) * WordSize
  BY <1>3, NextWord
<1>5. n \div WordSize \in Nat
  BY <1>3, NextWord
<1>6. (n \div WordSize + 1) * WordSize \in Nat
  BY <1>3, <1>5
<1>7. x < (n \div WordSize + 1) * WordSize
  BY <1>2, <1>4, <1>6
<1>. QED
  BY <1>1, <1>7 DEF Words

LEMMA JoinedAdds ==
    ASSUME NEW r \in Reps, NEW t \in Reps
    PROVE  /\ Joined(r, t, Cardinality(Member)) \in Reps
           /\ Holds(Joined(r, t, Cardinality(Member))) = Holds(r) \cup Holds(t)
<1> DEFINE n == Cardinality(Member)
<1>1. /\ r \in Forms
      /\ r.card \in Nat /\ r.card <= SmallSize
      /\ r.values \in Seq(Member) /\ r.bits \in SUBSET Member
  BY RepFields
<1>2. /\ t.card \in Nat /\ t.card <= SmallSize
      /\ t.values \in Seq(Member) /\ t.bits \in SUBSET Member
      /\ t.card < SmallSize => Len(t.values) = t.card
  BY RepFields
<1>3. CASE t.card = 0
  <2>1. Joined(r, t, n) = r
    BY <1>3 DEF Joined
  <2>2. DOMAIN t.values = 1..0
    BY <1>2, <1>3, SetSizes
  <2>3. Holds(t) = {}
    BY <1>3, <2>2, SetSizes DEF Holds, Range
  <2>. QED
    BY <2>1, <2>3
<1>4. CASE t.card # 0 /\ t.card < SmallSize
  <2>1. Joined(r, t, n) = InsertedAll(r, t.values) /\ Holds(t) = Range(t.values)
    BY <1>4 DEF Joined, Holds
  <2>. QED
    BY <1>2, <2>1, InsertedAllAdds
<1>5. CASE ~(t.card < SmallSize)
  <2>1. Holds(r) \in SUBSET Member
    <3>1. \A y \in DOMAIN r.values : r.values[y] \in Member
      BY <1>1
    <3>. QED
      BY <1>1, <3>1 DEF Holds, Range
  <2>2. t.bits \cap Words(n) = t.bits /\ Holds(t) = t.bits
    BY <1>2, <1>5, WordsReach DEF Holds
  <2>3. \E v \in Seq(Member) : Form(Joined(r, t, n), SmallSize, v, Holds(r) \cup Holds(t))
    <3>1. CASE r.card < SmallSize
      <4>1. PICK big : big = SmallToBit(r)
        OBVIOUS
      <4>2. Form(big, SmallSize, << >>, Holds(r))
        BY <1>1, <3>1, <4>1, FormsChange DEF Holds
      <4>3. Joined(r, t, n) = [big EXCEPT !.bits = @ \cup (t.bits \cap Words(n))]
        BY <1>5, <3>1, <4>1, SetSizes DEF Joined
      <4>4. Form(Joined(r, t, n), SmallSize, << >>, Holds(r) \cup Holds(t))
        BY <2>2, <4>2, <4>3 DEF Form
      <4>5. << >> \in Seq(Member)
        OBVIOUS
      <4>. QED
        BY <4>4, <4>5
    <3>2. CASE ~(r.card < SmallSize)
      <4>1. r.card = SmallSize /\ Holds(r) = r.bits
        BY <1>1, <3>2, SetSizes DEF Holds
      <4>2. Joined(r, t, n) = [r EXCEPT !.bits = r.bits \cup (t.bits \cap Words(n))]
        BY <1>5, <3>2, SetSizes DEF Joined
      <4>3. Form([r EXCEPT !.bits = r.bits \cup (t.bits \cap Words(n))],
                 r.card, r.values, r.bits \cup (t.bits \cap Words(n)))
        BY <1>1, FormsChange
      <4>4. Form(Joined(r, t, n), SmallSize, r.values, Holds(r) \cup Holds(t))
        BY <2>2, <4>1, <4>2, <4>3
      <4>. QED
        BY <1>1, <4>4
    <3>. QED
      BY <3>1, <3>2
  <2>4. PICK v \in Seq(Member) : Form(Joined(r, t, n), SmallSize, v, Holds(r) \cup Holds(t))
    BY <2>3
  <2>5. Holds(r) \cup Holds(t) \in SUBSET Member
    BY <1>2, <2>1, <2>2
  <2>6. SmallSize \in Nat /\ SmallSize <= SmallSize /\ ~(SmallSize < SmallSize)
    BY SetSizes
  <2>. QED
    BY <2>4, <2>5, <2>6, IsRep
<1>. QED
  BY <1>3, <1>4, <1>5

-----------------------------------------------------------------------------
(* The invariant, and the refinement of GrowingSets. *)

LEMMA SetInitInv == SetInit => SetInv
<1>. SUFFICES ASSUME SetInit PROVE SetInv
  OBVIOUS
<1>1. PICK v : v = << >>
  OBVIOUS
<1>2. v \in Seq(Member) /\ Len(v) = 0 /\ DOMAIN v = {}
  BY <1>1
<1>3. card = [s \in Set |-> 0] /\ values = [s \in Set |-> v] /\ bits = [s \in Set |-> {}]
  BY <1>1 DEF SetInit
<1>4. ASSUME NEW s \in Set PROVE Rep(s) \in Reps
  <2>1. Form(Rep(s), 0, v, {})
    BY <1>3 DEF Form, Rep
  <2>2. Increasing(v) /\ 0 \in Nat /\ 0 <= SmallSize /\ {} \in SUBSET Member
    BY <1>2, SetSizes DEF Increasing
  <2>. QED
    BY <1>2, <2>1, <2>2, IsRep
<1>. QED
  BY <1>2, <1>3, <1>4 DEF SetInv

\* What a set holds is what its representation holds.
LEMMA HoldsExpanded == \A s \in Set : Holds(Rep(s)) = Expanded(s)
  BY DEF Holds, Rep, Expanded, IsSmall

LEMMA Stored ==
    ASSUME SetInv, NEW s \in Set, NEW r \in Reps, Store(s, r)
    PROVE  /\ SetInv'
           /\ Expanded(s)' = Holds(r)
           /\ \A t \in Set : t # s => Expanded(t)' = Expanded(t)
<1>1. /\ r \in Forms /\ r.card \in Nat /\ r.values \in Seq(Member) /\ r.bits \in SUBSET Member
  BY RepFields
<1>2. /\ card \in [Set -> Nat] /\ values \in [Set -> Seq(Member)]
      /\ bits \in [Set -> SUBSET Member] /\ \A t \in Set : Rep(t) \in Reps
  BY DEF SetInv
<1>3. /\ card' = [card EXCEPT ![s] = r.card] /\ values' = [values EXCEPT ![s] = r.values]
      /\ bits' = [bits EXCEPT ![s] = r.bits]
  BY DEF Store
<1>4. /\ card' \in [Set -> Nat] /\ values' \in [Set -> Seq(Member)]
      /\ bits' \in [Set -> SUBSET Member]
  BY <1>1, <1>2, <1>3
<1>5. /\ card'[s] = r.card /\ values'[s] = r.values /\ bits'[s] = r.bits
      /\ \A t \in Set : t # s => card'[t] = card[t] /\ values'[t] = values[t] /\ bits'[t] = bits[t]
  BY <1>2, <1>3
<1>6. Rep(s)' = r
  <2>1. r = [card |-> r.card, values |-> r.values, bits |-> r.bits]
    BY <1>1 DEF Forms
  <2>. QED
    BY <1>5, <2>1 DEF Rep
<1>7. \A t \in Set : t # s => Rep(t)' = Rep(t)
  BY <1>5 DEF Rep
<1>8. SetInv'
  BY <1>2, <1>4, <1>6, <1>7 DEF SetInv
<1>9. Expanded(s)' = Holds(r)
  BY <1>5 DEF Expanded, IsSmall, Holds
<1>10. \A t \in Set : t # s => Expanded(t)' = Expanded(t)
  BY <1>5 DEF Expanded, IsSmall
<1>. QED
  BY <1>8, <1>9, <1>10

LEMMA InsertGrows ==
    ASSUME SetInv, NEW s \in Set, NEW x \in Member, Insert(s, x)
    PROVE  /\ SetInv'
           /\ Expanded(s)' = Expanded(s) \cup {x}
           /\ \A t \in Set : t # s => Expanded(t)' = Expanded(t)
<1>1. Rep(s) \in Reps /\ Store(s, Inserted(Rep(s), x))
  BY DEF SetInv, Insert
<1>2. Inserted(Rep(s), x) \in Reps /\ Holds(Inserted(Rep(s), x)) = Holds(Rep(s)) \cup {x}
  BY <1>1, InsertedAdds
<1>. QED
  BY <1>1, <1>2, Stored, HoldsExpanded

LEMMA JoinGrows ==
    ASSUME SetInv, NEW s \in Set, NEW t \in Set, Join(s, t)
    PROVE  /\ SetInv'
           /\ Expanded(s)' = Expanded(s) \cup Expanded(t)
           /\ \A u \in Set : u # s => Expanded(u)' = Expanded(u)
<1>1. Rep(s) \in Reps /\ Rep(t) \in Reps
  BY DEF SetInv
<1>2. Store(s, Joined(Rep(s), Rep(t), Cardinality(Member)))
  BY DEF Join
<1>3. /\ Joined(Rep(s), Rep(t), Cardinality(Member)) \in Reps
      /\ Holds(Joined(Rep(s), Rep(t), Cardinality(Member))) = Holds(Rep(s)) \cup Holds(Rep(t))
  BY <1>1, JoinedAdds
<1>4. Holds(Rep(s)) = Expanded(s) /\ Holds(Rep(t)) = Expanded(t)
  BY HoldsExpanded
<1>. QED
  BY <1>2, <1>3, <1>4, Stored

LEMMA SetStep == SetInv /\ [SetNext]_setVars => SetInv'
<1>. SUFFICES ASSUME SetInv, [SetNext]_setVars PROVE SetInv'
  OBVIOUS
<1>1. ASSUME NEW s \in Set, NEW x \in Member, Insert(s, x) PROVE SetInv'
  BY <1>1, InsertGrows
<1>2. ASSUME NEW s \in Set, NEW t \in Set, Join(s, t) PROVE SetInv'
  BY <1>2, JoinGrows
<1>3. CASE UNCHANGED setVars
  BY <1>3 DEF setVars, SetInv, Rep
<1>. QED
  BY <1>1, <1>2, <1>3 DEF SetNext

LEMMA SetInvariant == SetSpec => []SetInv
  BY SetInitInv, SetStep, PTL DEF SetSpec

\* For any size of the arrays, the words and the queues: insert and join add
\* exactly the members they are given, whether a set is an array, a bit set,
\* or becomes one on the way.
THEOREM FastSetsAreSets == SetSpec => ImplementsSets
<1> DEFINE held == [s \in Set |-> Expanded(s)]
<1>1. SetInit => Sets!Init
  <2>. SUFFICES ASSUME SetInit, NEW s \in Set PROVE Expanded(s) = {}
    BY DEF Sets!Init
  <2>1. card[s] = 0 /\ values[s] = << >>
    BY DEF SetInit
  <2>2. DOMAIN values[s] = {}
    BY <2>1
  <2>. QED
    BY <2>1, <2>2, SetSizes DEF Expanded, IsSmall, Range
<1>2. SetInv /\ [SetNext]_setVars => [Sets!Next]_held
  <2>. SUFFICES ASSUME SetInv, [SetNext]_setVars PROVE [Sets!Next]_held
    OBVIOUS
  <2>1. ASSUME NEW s \in Set, NEW x \in Member, Insert(s, x) PROVE Sets!Next
    <3>1. held' = [held EXCEPT ![s] = held[s] \cup {x}]
      BY <2>1, InsertGrows
    <3>2. Sets!Insert(s, x)
      BY <3>1 DEF Sets!Insert
    <3>. QED
      BY <3>2 DEF Sets!Next
  <2>2. ASSUME NEW s \in Set, NEW t \in Set, Join(s, t) PROVE Sets!Next
    <3>1. held' = [held EXCEPT ![s] = held[s] \cup held[t]]
      BY <2>2, JoinGrows
    <3>2. Sets!Join(s, t)
      BY <3>1 DEF Sets!Join
    <3>. QED
      BY <3>2 DEF Sets!Next
  <2>3. CASE UNCHANGED setVars
    BY <2>3 DEF setVars, Expanded, IsSmall
  <2>. QED
    BY <2>1, <2>2, <2>3 DEF SetNext
<1>. QED
  BY <1>1, <1>2, SetInvariant, PTL DEF SetSpec, ImplementsSets, Sets!Spec

-----------------------------------------------------------------------------
(* The searches. *)

\* The interval after k rounds: x is nowhere else, and it has lost a value in
\* each round unless x is in its middle.
Narrow(v, x, k, r) ==
    /\ r \in [begin : Int, end : Int]
    /\ 0 <= r.begin /\ r.end < Len(v) /\ r.begin <= r.end + 1
    /\ \A i \in 1..Len(v) : v[i] = x => r.begin < i /\ i <= r.end + 1
    /\ \/ r.end - r.begin + 1 <= Len(v) - k
       \/ r.begin <= r.end /\ v[Middle(r)] = x

LEMMA NextRangeNarrows ==
    ASSUME NEW v \in Seq(Member), Increasing(v), NEW x \in Member, NEW k \in Nat,
           k < Len(v), NEW r, Narrow(v, x, k, r)
    PROVE  Narrow(v, x, k + 1, NextRange(v, x, r))
<1>1. /\ Len(v) \in Nat /\ DOMAIN v = 1..Len(v) /\ x \in Nat
      /\ \A i \in 1..Len(v) : v[i] \in Nat
  BY ValuesNumbers, MembersNumbers
<1>2. /\ r \in [begin : Int, end : Int] /\ r.begin \in Int /\ r.end \in Int
      /\ 0 <= r.begin /\ r.end < Len(v) /\ r.begin <= r.end + 1
      /\ \A i \in 1..Len(v) : v[i] = x => r.begin < i /\ i <= r.end + 1
      /\ \/ r.end - r.begin + 1 <= Len(v) - k
         \/ r.begin <= r.end /\ v[Middle(r)] = x
  BY DEF Narrow
<1>3. CASE r.end < r.begin
  <2>1. NextRange(v, x, r) = r /\ r.end - r.begin + 1 <= Len(v) - (k + 1)
    BY <1>1, <1>2, <1>3 DEF NextRange
  <2>. QED
    BY <1>2, <2>1 DEF Narrow
<1>4. CASE r.begin <= r.end
  <2>1. PICK m \in Int : m = Middle(r)
    BY <1>2 DEF Middle
  <2>2. r.begin < m /\ m <= r.end + 1
    BY <1>2, <1>4, <2>1 DEF Middle
  <2>3. m \in 1..Len(v)
    BY <1>1, <1>2, <2>2
  <2>4. v[m] \in Nat
    BY <1>1, <2>3
  <2>5. CASE x < v[m]
    <3>1. PICK q : q = [r EXCEPT !.end = m - 2]
      OBVIOUS
    <3>2. NextRange(v, x, r) = q
      BY <1>2, <1>4, <2>1, <2>5, <3>1 DEF NextRange
    <3>3. q \in [begin : Int, end : Int] /\ q.begin = r.begin /\ q.end = m - 2
      BY <1>2, <3>1
    <3>4. \A i \in 1..Len(v) : v[i] = x => i < m
      <4>. SUFFICES ASSUME NEW i \in 1..Len(v), v[i] = x, i >= m PROVE FALSE
        BY <2>3
      <4>1. v[m] <= v[i]
        BY <1>1, <2>3, <2>4 DEF Increasing
      <4>. QED
        BY <1>1, <2>4, <2>5, <4>1
    <3>5. v[m] # x
      BY <1>1, <2>4, <2>5
    <3>6. q.end - q.begin + 1 <= Len(v) - (k + 1)
      BY <1>1, <1>2, <2>1, <2>2, <3>3, <3>5
    <3>7. \A i \in 1..Len(v) : v[i] = x => q.begin < i /\ i <= q.end + 1
      BY <1>2, <3>3, <3>4
    <3>8. 0 <= q.begin /\ q.end < Len(v) /\ q.begin <= q.end + 1
      BY <1>1, <1>2, <2>2, <2>3, <3>3
    <3>9. Narrow(v, x, k + 1, q)
      BY <3>3, <3>6, <3>7, <3>8 DEF Narrow
    <3>. QED
      BY <3>2, <3>9
  <2>6. CASE x > v[m]
    <3>1. PICK q : q = [r EXCEPT !.begin = m]
      OBVIOUS
    <3>2. NextRange(v, x, r) = q
      BY <1>1, <1>2, <1>4, <2>1, <2>4, <2>6, <3>1 DEF NextRange
    <3>3. q \in [begin : Int, end : Int] /\ q.begin = m /\ q.end = r.end
      BY <1>2, <3>1
    <3>4. \A i \in 1..Len(v) : v[i] = x => m < i
      <4>. SUFFICES ASSUME NEW i \in 1..Len(v), v[i] = x, i <= m PROVE FALSE
        BY <2>3
      <4>1. v[i] <= v[m]
        BY <1>1, <2>3, <2>4 DEF Increasing
      <4>. QED
        BY <1>1, <2>4, <2>6, <4>1
    <3>5. v[m] # x
      BY <1>1, <2>4, <2>6
    <3>6. q.end - q.begin + 1 <= Len(v) - (k + 1)
      BY <1>1, <1>2, <2>1, <2>2, <3>3, <3>5
    <3>7. \A i \in 1..Len(v) : v[i] = x => q.begin < i /\ i <= q.end + 1
      BY <1>2, <3>3, <3>4
    <3>8. 0 <= q.begin /\ q.end < Len(v) /\ q.begin <= q.end + 1
      BY <1>1, <1>2, <2>2, <2>3, <3>3
    <3>9. Narrow(v, x, k + 1, q)
      BY <3>3, <3>6, <3>7, <3>8 DEF Narrow
    <3>. QED
      BY <3>2, <3>9
  <2>7. CASE x = v[m]
    <3>1. NextRange(v, x, r) = r
      BY <1>1, <1>2, <1>4, <2>1, <2>4, <2>7 DEF NextRange
    <3>2. r.begin <= r.end /\ v[Middle(r)] = x
      BY <1>4, <2>1, <2>7
    <3>3. Narrow(v, x, k + 1, r)
      BY <1>2, <3>2 DEF Narrow
    <3>. QED
      BY <3>1, <3>3
  <2>. QED
    BY <1>1, <2>4, <2>5, <2>6, <2>7
<1>. QED
  BY <1>2, <1>3, <1>4

\* The first n rounds of a search, and that there is such a search.
HalvesTo(v, x, n, f) ==
    f = [k \in 0..n |-> IF k = 0 THEN [begin |-> 0, end |-> Len(v) - 1]
                        ELSE NextRange(v, x, f[k - 1])]

LEMMA HalvesExist ==
    ASSUME NEW v, NEW x, NEW n \in Nat
    PROVE  \E f : HalvesTo(v, x, n, f)
<1> DEFINE S == {k \in Nat : ~\E f : HalvesTo(v, x, k, f)}
           r == [begin |-> 0, end |-> Len(v) - 1]
<1>. SUFFICES S = {}
  OBVIOUS
<1>1. ASSUME S # {} PROVE FALSE
  <2>1. PICK k \in S : \A y \in S : k <= y
    BY <1>1, LeastOf
  <2>2. CASE k = 0
    <3> DEFINE g == [i \in 0..0 |-> r]
    <3>1. \A i \in 0..0 : i = 0
      OBVIOUS
    <3>2. g = [i \in 0..0 |-> IF i = 0 THEN r ELSE NextRange(v, x, g[i - 1])]
      BY <3>1
    <3> HIDE DEF g
    <3>3. HalvesTo(v, x, 0, g)
      BY <3>2 DEF HalvesTo
    <3>. QED
      BY <2>1, <2>2, <3>3
  <2>3. CASE k # 0
    <3>1. k - 1 \in Nat /\ k \in Nat /\ k - 1 \notin S
      BY <2>1, <2>3
    <3>2. PICK f : HalvesTo(v, x, k - 1, f)
      BY <3>1
    <3> DEFINE g == [i \in 0..k |-> IF i = 0 THEN r ELSE NextRange(v, x, f[i - 1])]
    <3>3. \A i \in 0..(k - 1) : g[i] = f[i]
      BY <3>1, <3>2 DEF HalvesTo
    <3>4. \A i \in 0..k : i # 0 => i - 1 \in 0..(k - 1)
      BY <3>1
    <3>5. g = [i \in 0..k |-> IF i = 0 THEN r ELSE NextRange(v, x, g[i - 1])]
      BY <3>3, <3>4
    <3> HIDE DEF g
    <3>6. HalvesTo(v, x, k, g)
      BY <3>5 DEF HalvesTo
    <3>. QED
      BY <2>1, <3>6
  <2>. QED
    BY <2>2, <2>3
<1>. QED
  BY <1>1

LEMMA HalvesNarrow ==
    ASSUME NEW v \in Seq(Member), Increasing(v), NEW x \in Member, NEW f,
           HalvesTo(v, x, Len(v), f), NEW n \in 0..Len(v)
    PROVE  Narrow(v, x, n, f[n])
<1>0. Len(v) \in Nat
  BY ValuesNumbers
<1>1. /\ f[0] = [begin |-> 0, end |-> Len(v) - 1]
      /\ \A k \in 0..Len(v) : k # 0 => f[k] = NextRange(v, x, f[k - 1])
  <2>1. \A k \in 0..Len(v) : f[k] = IF k = 0 THEN [begin |-> 0, end |-> Len(v) - 1]
                                   ELSE NextRange(v, x, f[k - 1])
    BY Zenon DEF HalvesTo
  <2>2. 0 \in 0..Len(v)
    BY <1>0
  <2>. QED
    BY <2>1, <2>2
<1>2. Narrow(v, x, 0, f[0])
  BY <1>0, <1>1 DEF Narrow
<1> DEFINE S == {k \in Nat : k <= Len(v) /\ ~Narrow(v, x, k, f[k])}
<1>3. ASSUME S # {} PROVE FALSE
  <2>1. PICK k \in S : \A y \in S : k <= y
    BY <1>3, LeastOf
  <2>2. k \in Nat /\ k <= Len(v) /\ ~Narrow(v, x, k, f[k]) /\ k # 0
    BY <1>2, <2>1
  <2>3. k - 1 \in Nat /\ k - 1 < Len(v) /\ k - 1 \notin S /\ k \in 0..Len(v)
    BY <1>0, <2>1, <2>2
  <2>4. Narrow(v, x, k - 1, f[k - 1])
    BY <1>0, <2>3
  <2>5. Narrow(v, x, (k - 1) + 1, NextRange(v, x, f[k - 1]))
    BY <2>3, <2>4, NextRangeNarrows
  <2>6. (k - 1) + 1 = k /\ f[k] = NextRange(v, x, f[k - 1])
    BY <1>1, <2>2, <2>3
  <2>. QED
    BY <2>2, <2>5, <2>6
<1>4. n \in Nat /\ n <= Len(v) /\ n \notin S
  BY <1>0, <1>3
<1>. QED
  BY <1>4

LEMMA BinarySearchFinds ==
    ASSUME NEW v \in Seq(Member), Increasing(v), NEW x \in Member
    PROVE  BinarySearch(v, x) <=> x \in Range(v)
<1>0. Len(v) \in Nat /\ DOMAIN v = 1..Len(v)
  BY ValuesNumbers
<1> DEFINE look == CHOOSE f : HalvesTo(v, x, Len(v), f)
<1>1. BinarySearch(v, x) <=>
         look[Len(v)].begin <= look[Len(v)].end /\ v[Middle(look[Len(v)])] = x
  BY DEF BinarySearch, HalvesTo
<1>2. HalvesTo(v, x, Len(v), look)
  BY <1>0, HalvesExist
<1> HIDE DEF look
<1>3. PICK r : r = look[Len(v)]
  OBVIOUS
<1>4. Len(v) \in 0..Len(v)
  BY <1>0
<1>5. Narrow(v, x, Len(v), r)
  BY <1>2, <1>3, <1>4, HalvesNarrow
<1>6. /\ r.begin \in Int /\ r.end \in Int
      /\ 0 <= r.begin /\ r.end < Len(v) /\ r.begin <= r.end + 1
      /\ \A i \in 1..Len(v) : v[i] = x => r.begin < i /\ i <= r.end + 1
      /\ \/ r.end - r.begin + 1 <= Len(v) - Len(v)
         \/ r.begin <= r.end /\ v[Middle(r)] = x
  BY <1>5 DEF Narrow
<1>7. ASSUME r.begin <= r.end, v[Middle(r)] = x PROVE x \in Range(v)
  <2>1. Middle(r) \in 1..Len(v)
    BY <1>0, <1>6, <1>7 DEF Middle
  <2>. QED
    BY <1>0, <1>7, <2>1 DEF Range
<1>8. ASSUME x \in Range(v) PROVE r.begin <= r.end /\ v[Middle(r)] = x
  <2>1. PICK i \in 1..Len(v) : v[i] = x
    BY <1>0, <1>8 DEF Range
  <2>2. r.begin < i /\ i <= r.end + 1
    BY <1>6, <2>1
  <2>3. ~(r.end - r.begin + 1 <= Len(v) - Len(v))
    BY <1>0, <1>6, <2>2
  <2>. QED
    BY <1>6, <2>3
<1>. QED
  BY <1>1, <1>3, <1>7, <1>8

LEMMA LinearSearchFinds ==
    ASSUME NEW v \in Seq(Member), Increasing(v), NEW x \in Member
    PROVE  LinearSearch(v, x) <=> x \in Range(v)
<1>1. /\ Len(v) \in Nat /\ DOMAIN v = 1..Len(v) /\ x \in Nat
      /\ \A i \in 1..Len(v) : v[i] \in Nat
  BY ValuesNumbers, MembersNumbers
<1>2. LinearSearch(v, x) => x \in Range(v)
  BY DEF LinearSearch, Range
<1>3. ASSUME x \in Range(v) PROVE LinearSearch(v, x)
  <2>1. PICK i \in 1..Len(v) : v[i] = x
    BY <1>1, <1>3 DEF Range
  <2>2. ASSUME NEW j \in 1..(i - 1) PROVE v[j] <= x
    <3>1. j \in 1..Len(v) /\ j < i
      BY <1>1
    <3>2. v[j] < v[i]
      BY <1>1, <2>1, <3>1 DEF Increasing
    <3>. QED
      BY <1>1, <2>1, <3>1, <3>2
  <2>. QED
    BY <1>1, <2>1, <2>2 DEF LinearSearch
<1>. QED
  BY <1>2, <1>3

LEMMA ValuesCounted ==
    ASSUME NEW v \in Seq(Member), Increasing(v)
    PROVE  Cardinality(Range(v)) = Len(v)
<1>1. /\ Len(v) \in Nat /\ DOMAIN v = 1..Len(v) /\ \A i \in 1..Len(v) : v[i] \in Nat
  BY ValuesNumbers
<1>2. v \in [1..Len(v) -> Range(v)]
  BY <1>1 DEF Range
<1>3. \A i, j \in 1..Len(v) : v[i] = v[j] => i = j
  BY <1>1 DEF Increasing
<1>4. \A y \in Range(v) : \E i \in 1..Len(v) : v[i] = y
  BY <1>1 DEF Range
<1>5. v \in Bijection(1..Len(v), Range(v))
  BY <1>2, <1>3, <1>4 DEF Bijection, Injection, Surjection, IsInjective
<1>6. ExistsBijection(1..Len(v), Range(v))
  BY <1>5 DEF ExistsBijection
<1>. QED
  BY <1>1, <1>6, FS_CountingElements

\* For any sizes: the search by one value, the linear and the binary one and
\* the look at a bit all find exactly the members, and card counts them.
THEOREM SearchesFind == SetSpec => []SearchExact
<1>1. SetInv => SearchExact
  <2>. SUFFICES ASSUME SetInv, NEW s \in Set
                PROVE  /\ \A x \in Member : Search(s, x) <=> x \in Expanded(s)
                       /\ IsSmall(s) => Cardinality(Expanded(s)) = card[s]
    BY DEF SearchExact
  <2>1. /\ card[s] \in Nat /\ values[s] \in Seq(Member)
        /\ IsSmall(s) => Len(values[s]) = card[s] /\ Increasing(values[s])
    <3>1. Rep(s) \in Reps /\ Rep(s).card = card[s] /\ Rep(s).values = values[s]
      BY DEF SetInv, Rep
    <3>2. Rep(s).card < SmallSize => Len(Rep(s).values) = Rep(s).card /\ Increasing(Rep(s).values)
      BY <3>1 DEF Reps
    <3>. QED
      BY <3>1, <3>2 DEF SetInv, IsSmall
  <2>2. CASE ~IsSmall(s)
    <3>1. card[s] # 0 /\ card[s] # 1
      BY <2>1, <2>2, SetSizes DEF IsSmall
    <3>. QED
      BY <2>2, <3>1 DEF Search, Expanded
  <2>3. CASE IsSmall(s)
    <3>1. Expanded(s) = Range(values[s]) /\ Len(values[s]) = card[s] /\ Increasing(values[s])
          /\ DOMAIN values[s] = 1..card[s]
      BY <2>1, <2>3 DEF Expanded
    <3>2. Cardinality(Expanded(s)) = card[s]
      BY <2>1, <3>1, ValuesCounted
    <3>3. ASSUME NEW x \in Member PROVE Search(s, x) <=> x \in Expanded(s)
      <4>1. CASE card[s] = 0
        <5>1. Expanded(s) = {}
          BY <3>1, <4>1 DEF Range
        <5>. QED
          BY <4>1, <5>1 DEF Search
      <4>2. CASE card[s] = 1
        <5>1. DOMAIN values[s] = {1}
          BY <3>1, <4>2
        <5>. QED
          BY <3>1, <4>2, <5>1 DEF Search, Range
      <4>3. CASE card[s] # 0 /\ card[s] # 1
        BY <2>1, <2>3, <3>1, <4>3, LinearSearchFinds, BinarySearchFinds DEF Search
      <4>. QED
        BY <4>1, <4>2, <4>3
    <3>. QED
      BY <3>2, <3>3
  <2>. QED
    BY <2>2, <2>3
<1>. QED
  BY <1>1, SetInvariant, PTL

-----------------------------------------------------------------------------
(***************************************************************************)
(* SimulationLoop.  Cores take their turns in order, so two cores are at   *)
(* most one cycle apart (InStep); a count of warm or done cores that       *)
(* reaches cpus means all of them (Counted); from the end of the warm-up   *)
(* on each counter is tied to the cycles of the window (WindowOpen); and   *)
(* while the one clock of empty ROBs runs, each core that has been looked  *)
(* at since was empty (ClockShared).                                       *)
(***************************************************************************)

Phases == {"cycle", "heartbeat", "deadlock", "warmup", "complete", "uncore"}
Counters == [own : Int, llc : Int]

LoopTypes ==
    /\ cpus \in Nat \ {0} /\ turn \in 0 .. cpus /\ phase \in Phases
    /\ phase = "uncore" <=> turn = cpus
    /\ running \in BOOLEAN
    /\ cycle \in [Core -> Nat] /\ stallCycle \in [Core -> Nat]
    /\ retired \in [Core -> Nat] /\ robHead \in [Core -> Int]
    /\ zeroCycle \in Nat /\ emptySince \in [Core -> Nat]
    /\ warm \in [Core -> BOOLEAN] /\ done \in [Core -> BOOLEAN]
    /\ allWarm \in Int /\ allDone \in Int
    /\ begin \in [Core -> [instr : Nat, cycle : Nat]]
    /\ finish \in [Core -> [instr : Int, cycle : Int]]
    /\ sim \in [Core -> Counters] /\ roi \in [Core -> Counters]
    /\ idle \in [Core -> Int]
    /\ timing \in {"warm-up", "real"}
    /\ alarms \subseteq Core

\* Whether the core had its cycle in this round, as a number of cycles.
Ahead(i) == IF i < turn \/ (i = turn /\ phase # "cycle") THEN 1 ELSE 0

InStep == \A i, j \in Core : cycle[i] - Ahead(i) = cycle[j] - Ahead(j)

Counted ==
    /\ allDone = Cardinality({i \in Core : done[i]})
    /\ timing = "warm-up" => /\ allWarm = Cardinality({i \in Core : warm[i]})
                             /\ allWarm < cpus
    /\ timing = "real" => allWarm = cpus + 1

Warmed ==
    \A i \in Core :
        /\ warm[i] => retired[i] > Warmup
        /\ timing = "warm-up" => /\ begin[i].instr = Warmup /\ begin[i].cycle = 0
                                 /\ ~done[i]
        /\ timing = "real" => warm[i] /\ begin[i].instr > Warmup

\* The core retired in this turn and its window has not been looked at since.
Unchecked(i) == turn = i /\ phase \in {"heartbeat", "deadlock", "warmup", "complete"}

Opened(i) ==
    /\ begin[i].instr <= retired[i]
    /\ retired[i] - begin[i].instr
         <= Simulated - 1 + (IF Unchecked(i) THEN RetireWidth ELSE 0)
    /\ sim[i].own + idle[i] = cycle[i] - begin[i].cycle

\* LLC has had its cycle for the core, or the core its own, but not both.
SharedCount(i) ==
    cycle[i] - begin[i].cycle - sim[i].llc \in {Ahead(i) - 1, Ahead(i)}

WindowOpen ==
    \A i \in Core : timing = "real" => /\ SharedCount(i)
                                       /\ ~done[i] => Opened(i)

Ended ==
    /\ running => alarms = {}
    /\ ~running /\ alarms = {} => \A i \in Core : done[i]

\* The last cycle in which the core's ROB was looked at.
Looked(i) ==
    IF turn = i /\ phase \in {"heartbeat", "deadlock"} THEN cycle[i] - 1 ELSE cycle[i]

ClockShared ==
    /\ \A i \in Core : emptySince[i] <= Looked(i)
    /\ zeroCycle # 0 =>
          \A i \in Core : Looked(i) > zeroCycle =>
             emptySince[i] # 0 /\ emptySince[i] <= zeroCycle + 1
    /\ cpus = 1 => zeroCycle = emptySince[0]

LoopInv ==
    /\ LoopTypes /\ InStep /\ Counted /\ Warmed /\ WindowOpen
    /\ Ended /\ ClockShared /\ RoiExact /\ AlarmsTrue

-----------------------------------------------------------------------------

\* The fields of the function-valued variables, for arithmetic.
LEMMA LoopNumbers ==
    ASSUME LoopTypes
    PROVE  /\ cpus \in Int /\ cpus > 0 /\ turn \in Int /\ 0 <= turn /\ turn <= cpus
           /\ Core \subseteq Int
           /\ zeroCycle \in Int /\ zeroCycle >= 0
           /\ \A i \in Core :
                 /\ cycle[i] \in Int /\ cycle[i] >= 0 /\ retired[i] \in Int /\ retired[i] >= 0
                 /\ robHead[i] \in Int /\ emptySince[i] \in Int /\ emptySince[i] >= 0
                 /\ warm[i] \in BOOLEAN /\ done[i] \in BOOLEAN
                 /\ begin[i].instr \in Int /\ begin[i].cycle \in Int
                 /\ sim[i].own \in Int /\ sim[i].llc \in Int /\ idle[i] \in Int
<1>1. /\ cpus \in Int /\ cpus > 0 /\ turn \in Int /\ 0 <= turn /\ turn <= cpus
      /\ zeroCycle \in Int /\ zeroCycle >= 0
  BY DEF LoopTypes
<1>2. Core \subseteq Int
  BY <1>1 DEF Core
<1>3. ASSUME NEW i \in Core
      PROVE  /\ cycle[i] \in Int /\ cycle[i] >= 0 /\ retired[i] \in Int /\ retired[i] >= 0
             /\ robHead[i] \in Int /\ emptySince[i] \in Int /\ emptySince[i] >= 0
             /\ warm[i] \in BOOLEAN /\ done[i] \in BOOLEAN /\ idle[i] \in Int
  BY DEF LoopTypes
<1>4. ASSUME NEW i \in Core
      PROVE  begin[i].instr \in Int /\ begin[i].cycle \in Int
  <2>1. begin[i] \in [instr : Nat, cycle : Nat]
    BY DEF LoopTypes
  <2>. QED
    BY <2>1
<1>5. ASSUME NEW i \in Core
      PROVE  sim[i].own \in Int /\ sim[i].llc \in Int
  <2>1. sim[i] \in Counters
    BY DEF LoopTypes
  <2>. QED
    BY <2>1 DEF Counters
<1>. QED
  BY <1>1, <1>2, <1>3, <1>4, <1>5

LEMMA LoopConstants ==
    /\ Warmup \in Nat /\ Simulated \in Nat /\ Simulated >= 1
    /\ RetireWidth \in Nat /\ RetireWidth >= 1 /\ DeadlockCycle \in Nat /\ DeadlockCycle > 1
    /\ SwapLatency \in Nat /\ Period \in Nat
  BY LoopAssumption

\* What the turn says of the cores, before and after each step.
LEMMA CycleClocks ==
    ASSUME LoopTypes, NEW i \in Core, Goes("cycle", "heartbeat"), turn = i, cpus' = cpus,
           cycle' = [cycle EXCEPT ![i] = cycle[i] + 1]
    PROVE  /\ Core' = Core
           /\ Ahead(i) = 0 /\ Ahead(i)' = 1
           /\ \A j \in Core : j # i => Ahead(j)' = Ahead(j)
           /\ \A j \in Core : Looked(j)' = Looked(j)
           /\ Unchecked(i)' /\ \A j \in Core : j # i => ~Unchecked(j) /\ ~Unchecked(j)'
<1>1. cycle[i] \in Int /\ cycle'[i] = cycle[i] + 1 /\ \A j \in Core : j # i => cycle'[j] = cycle[j]
  BY LoopNumbers DEF LoopTypes
<1>2. phase = "cycle" /\ phase' = "heartbeat" /\ turn' = turn
  BY DEF Goes
<1>3. Core' = Core
  BY DEF Core
<1>4. Ahead(i) = 0 /\ Ahead(i)' = 1 /\ \A j \in Core : j # i => Ahead(j)' = Ahead(j)
  BY <1>2, LoopNumbers DEF Ahead
<1>5. \A j \in Core : Looked(j)' = Looked(j)
  BY <1>1, <1>2, LoopNumbers DEF Looked
<1>6. Unchecked(i)' /\ \A j \in Core : j # i => ~Unchecked(j) /\ ~Unchecked(j)'
  BY <1>2 DEF Unchecked
<1>. QED
  BY <1>3, <1>4, <1>5, <1>6

LEMMA TurnClocks ==
    ASSUME LoopTypes, NEW i \in Core, turn = i, turn' = turn, cpus' = cpus,
           phase \in {"heartbeat", "deadlock", "warmup"},
           phase' \in {"deadlock", "warmup", "complete"}
    PROVE  /\ Core' = Core
           /\ \A j \in Core : Ahead(j)' = Ahead(j)
           /\ Ahead(i) = 1
           /\ \A j \in Core : Unchecked(j)' = Unchecked(j)
<1>1. Core' = Core
  BY DEF Core
<1>2. \A j \in Core : Ahead(j)' = Ahead(j)
  BY LoopNumbers DEF Ahead
<1>3. Ahead(i) = 1
  BY LoopNumbers DEF Ahead
<1>4. \A j \in Core : Unchecked(j)' = Unchecked(j)
  BY DEF Unchecked
<1>. QED
  BY <1>1, <1>2, <1>3, <1>4

-----------------------------------------------------------------------------
(* Each action preserves the invariant. *)

LEMMA LoopInitInv == LoopInit => LoopInv
<1>. SUFFICES ASSUME LoopInit PROVE LoopInv
  OBVIOUS
<1>0. cpus \in Nat \ {0} /\ 0 \in Core
  BY LoopAssumption DEF LoopInit, Core
<1>1. LoopTypes
  BY <1>0, LoopConstants DEF LoopInit, LoopTypes, Phases, Counters, Nothing, Vacant
<1>2. InStep
  <2>. SUFFICES ASSUME NEW i \in Core PROVE cycle[i] = 0 /\ Ahead(i) = 0
    BY DEF InStep
  <2>1. i \in Int /\ i >= 0
    BY <1>0 DEF Core
  <2>2. turn = 0 /\ phase = "cycle" /\ cycle[i] = 0
    BY DEF LoopInit
  <2>. QED
    BY <2>1, <2>2 DEF Ahead
<1>3. {i \in Core : done[i]} = {} /\ {i \in Core : warm[i]} = {}
  BY DEF LoopInit
<1>4. Counted
  <2>1. Cardinality({i \in Core : done[i]}) = 0 /\ Cardinality({i \in Core : warm[i]}) = 0
    BY <1>3, FS_EmptySet
  <2>2. allDone = 0 /\ allWarm = 0 /\ timing = "warm-up"
    BY DEF LoopInit
  <2>3. cpus > 0
    BY <1>0
  <2>. QED
    BY <2>1, <2>2, <2>3 DEF Counted
<1>5. Warmed
  BY <1>0 DEF LoopInit, Warmed
<1>6. WindowOpen /\ Ended /\ RoiExact /\ AlarmsTrue
  BY <1>0 DEF LoopInit, WindowOpen, Ended, RoiExact, AlarmsTrue
<1>7. ClockShared
  BY <1>0 DEF LoopInit, ClockShared, Looked
<1>. QED
  BY <1>1, <1>2, <1>4, <1>5, <1>6, <1>7 DEF LoopInv

\* After a stop nothing moves, so a step starts without an alarm.
LEMMA LoopCycle ==
    ASSUME LoopInv, NEW i \in Core, NEW n \in 0 .. RetireWidth,
           NEW newHead \in Vacant .. cycle[i] + 1, NEW fault \in BOOLEAN,
           CoreCycle(i, n, newHead, fault)
    PROVE  LoopInv'
<1>0. LoopTypes /\ InStep /\ Counted /\ Warmed /\ WindowOpen /\ Ended /\ ClockShared
      /\ RoiExact /\ AlarmsTrue
  BY DEF LoopInv
<1>1. /\ Goes("cycle", "heartbeat") /\ turn = i /\ cpus' = cpus /\ running' = running /\ running
      /\ phase = "cycle" /\ phase' = "heartbeat" /\ turn' = i
      /\ cycle' = [cycle EXCEPT ![i] = cycle[i] + 1]
      /\ retired' = [retired EXCEPT ![i] = @ + n] /\ robHead' = [robHead EXCEPT ![i] = newHead]
      /\ stallCycle' = IF fault THEN [stallCycle EXCEPT ![i] = cycle[i] + 1 + SwapLatency]
                       ELSE stallCycle
      /\ zeroCycle' = zeroCycle /\ warm' = warm /\ allWarm' = allWarm /\ done' = done
      /\ allDone' = allDone /\ begin' = begin /\ finish' = finish /\ roi' = roi
      /\ timing' = timing /\ alarms' = alarms /\ emptySince' = emptySince
  BY DEF CoreCycle, Goes
<1>2. /\ \/ sim' = sim /\ idle' = [idle EXCEPT ![i] = IF done[i] THEN @ ELSE @ + 1]
         \/ sim' = [sim EXCEPT ![i].own = @ + 1] /\ idle' = idle
  BY DEF CoreCycle
<1>3. /\ Core' = Core /\ Ahead(i) = 0 /\ Ahead(i)' = 1
      /\ \A j \in Core : j # i => Ahead(j)' = Ahead(j)
      /\ \A j \in Core : Looked(j)' = Looked(j)
      /\ Unchecked(i)' /\ \A j \in Core : j # i => ~Unchecked(j) /\ ~Unchecked(j)'
  BY <1>0, <1>1, CycleClocks
<1>4. LoopTypes'
  <2>1. cycle' \in [Core -> Nat] /\ retired' \in [Core -> Nat] /\ robHead' \in [Core -> Int]
    BY <1>0, <1>1, LoopConstants, LoopNumbers DEF LoopTypes, Vacant
  <2>2. stallCycle' \in [Core -> Nat]
    BY <1>0, <1>1, LoopConstants, LoopNumbers DEF LoopTypes
  <2>3. sim' \in [Core -> Counters] /\ idle' \in [Core -> Int]
    <3>1. sim[i].own + 1 \in Int /\ sim[i].llc \in Int /\ idle[i] + 1 \in Int /\ idle[i] \in Int
      BY <1>0, LoopNumbers
    <3>2. sim \in [Core -> [own : Int, llc : Int]] /\ idle \in [Core -> Int]
      BY <1>0 DEF LoopTypes, Counters
    <3>3. [sim EXCEPT ![i].own = @ + 1] \in [Core -> [own : Int, llc : Int]]
      BY <3>1, <3>2
    <3>4. [idle EXCEPT ![i] = IF done[i] THEN @ ELSE @ + 1] \in [Core -> Int]
      BY <3>1, <3>2
    <3>. QED
      BY <1>2, <3>2, <3>3, <3>4 DEF Counters
  <2>4. phase' \in Phases /\ (phase' = "uncore" <=> turn' = cpus') /\ turn' \in 0 .. cpus'
    BY <1>0, <1>1, LoopNumbers DEF Phases, Core
  <2>. QED
    BY <1>0, <1>1, <1>3, <2>1, <2>2, <2>3, <2>4 DEF LoopTypes
<1>5. /\ cycle'[i] = cycle[i] + 1 /\ \A j \in Core : j # i => cycle'[j] = cycle[j]
      /\ retired'[i] = retired[i] + n /\ \A j \in Core : j # i => retired'[j] = retired[j]
      /\ \A j \in Core : j # i => sim'[j] = sim[j] /\ idle'[j] = idle[j]
      /\ sim'[i].llc = sim[i].llc
      /\ ~done[i] => sim'[i].own + idle'[i] = sim[i].own + idle[i] + 1
      /\ done[i] => idle'[i] = idle[i]
  <2>1. /\ cycle'[i] = cycle[i] + 1 /\ \A j \in Core : j # i => cycle'[j] = cycle[j]
        /\ retired'[i] = retired[i] + n /\ \A j \in Core : j # i => retired'[j] = retired[j]
    BY <1>0, <1>1 DEF LoopTypes
  <2>2. CASE sim' = sim /\ idle' = [idle EXCEPT ![i] = IF done[i] THEN @ ELSE @ + 1]
    <3>1. /\ \A j \in Core : sim'[j] = sim[j] /\ (j # i => idle'[j] = idle[j])
          /\ idle'[i] = IF done[i] THEN idle[i] ELSE idle[i] + 1
      BY <1>0, <2>2 DEF LoopTypes
    <3>. QED
      BY <1>0, <2>1, <3>1, LoopNumbers
  <2>3. CASE sim' = [sim EXCEPT ![i].own = @ + 1] /\ idle' = idle
    <3>1. /\ \A j \in Core : idle'[j] = idle[j] /\ (j # i => sim'[j] = sim[j])
          /\ sim'[i] = [sim[i] EXCEPT !.own = @ + 1]
      BY <1>0, <2>3 DEF LoopTypes
    <3>2. sim[i] \in [own : Int, llc : Int]
      BY <1>0 DEF LoopTypes, Counters
    <3>3. sim'[i].own = sim[i].own + 1 /\ sim'[i].llc = sim[i].llc
      BY <3>1, <3>2
    <3>. QED
      BY <1>0, <2>1, <3>1, <3>3, LoopNumbers
  <2>. QED
    BY <1>2, <2>2, <2>3
<1>6. InStep'
  BY <1>0, <1>3, <1>5, LoopNumbers DEF InStep
<1>7. Counted'
  BY <1>0, <1>1, <1>3 DEF Counted
<1>8. Warmed'
  BY <1>0, <1>1, <1>3, <1>5, LoopNumbers, LoopConstants DEF Warmed
<1>9. WindowOpen'
  <2>. SUFFICES ASSUME NEW j \in Core, timing = "real"
                PROVE  SharedCount(j)' /\ (~done[j] => Opened(j)')
    BY <1>1, <1>3 DEF WindowOpen
  <2>1. SharedCount(j) /\ (~done[j] => Opened(j))
    BY <1>0 DEF WindowOpen
  <2>2. CASE j = i
    <3>1. SharedCount(i)'
      BY <1>0, <1>1, <1>3, <1>5, <2>1, <2>2, LoopNumbers DEF SharedCount
    <3>2. ~Unchecked(i)
      BY <1>1 DEF Unchecked
    <3>3. ASSUME ~done[i] PROVE Opened(i)'
      BY <1>0, <1>1, <1>3, <1>5, <2>1, <2>2, <3>2, <3>3, LoopNumbers, LoopConstants DEF Opened
    <3>. QED
      BY <2>2, <3>1, <3>3
  <2>3. CASE j # i
    <3>1. SharedCount(j)'
      BY <1>0, <1>1, <1>3, <1>5, <2>1, <2>3, LoopNumbers DEF SharedCount
    <3>2. ASSUME ~done[j] PROVE Opened(j)'
      BY <1>0, <1>1, <1>3, <1>5, <2>1, <2>3, <3>2, LoopNumbers, LoopConstants DEF Opened
    <3>. QED
      BY <3>1, <3>2
  <2>. QED
    BY <2>2, <2>3
<1>10. Ended'
  BY <1>0, <1>1, <1>3 DEF Ended
<1>11. ClockShared'
  BY <1>0, <1>1, <1>3 DEF ClockShared
<1>12. RoiExact'
  BY <1>0, <1>1, <1>3, <1>5 DEF RoiExact
<1>13. AlarmsTrue'
  BY <1>0, <1>1, <1>3 DEF AlarmsTrue, Ended
<1>. QED
  BY <1>4, <1>6, <1>7, <1>8, <1>9, <1>10, <1>11, <1>12, <1>13 DEF LoopInv

LEMMA LoopHeartbeat ==
    ASSUME LoopInv, NEW i \in Core, Heartbeat(i)
    PROVE  LoopInv'
<1>0. LoopTypes /\ InStep /\ Counted /\ Warmed /\ WindowOpen /\ Ended /\ ClockShared
      /\ RoiExact /\ AlarmsTrue
  BY DEF LoopInv
<1>1. /\ turn = i /\ running' = running /\ running
      /\ phase = "heartbeat" /\ phase' = "deadlock" /\ turn' = turn /\ cpus' = cpus
      /\ UNCHANGED <<cycle, stallCycle, retired, robHead, zeroCycle, warm, allWarm, done,
                     allDone, begin, finish, sim, roi, timing, alarms, idle, emptySince>>
  BY DEF Heartbeat, Goes
<1>2. /\ Core' = Core /\ \A j \in Core : Ahead(j)' = Ahead(j)
      /\ \A j \in Core : Unchecked(j)' = Unchecked(j)
  BY <1>0, <1>1, TurnClocks
<1>3. \A j \in Core : Looked(j)' = Looked(j)
  BY <1>1 DEF Looked
<1>4. LoopTypes'
  BY <1>0, <1>1, <1>2 DEF LoopTypes, Phases
<1>5. InStep' /\ Counted' /\ Warmed' /\ Ended' /\ RoiExact'
  BY <1>0, <1>1, <1>2 DEF InStep, Counted, Warmed, Ended, RoiExact
<1>6. WindowOpen'
  BY <1>0, <1>1, <1>2 DEF WindowOpen, SharedCount, Opened
<1>7. ClockShared'
  BY <1>0, <1>1, <1>2, <1>3 DEF ClockShared
<1>8. AlarmsTrue'
  BY <1>0, <1>1, <1>2 DEF AlarmsTrue, Ended
<1>. QED
  BY <1>4, <1>5, <1>6, <1>7, <1>8 DEF LoopInv

LEMMA LoopDeadlock ==
    ASSUME LoopInv, NEW i \in Core, DeadlockCheck(i)
    PROVE  LoopInv'
<1>0. LoopTypes /\ InStep /\ Counted /\ Warmed /\ WindowOpen /\ Ended /\ ClockShared
      /\ RoiExact /\ AlarmsTrue
  BY DEF LoopInv
<1>1. /\ turn = i /\ running /\ running' = (alarms' = {})
      /\ phase = "deadlock" /\ phase' = "warmup" /\ turn' = turn /\ cpus' = cpus
      /\ UNCHANGED <<cycle, stallCycle, retired, robHead, warm, allWarm, done,
                     allDone, begin, finish, sim, roi, timing, idle>>
      /\ zeroCycle' = ZeroSince(i)
      /\ alarms' = IF HeadStuck(i) \/ EmptyStuck(i) THEN {i} ELSE {}
      /\ emptySince' = [emptySince EXCEPT ![i] =
                          IF robHead[i] # Vacant THEN 0 ELSE IF @ = 0 THEN cycle[i] ELSE @]
  BY DEF DeadlockCheck, Goes
<1>2. /\ Core' = Core /\ \A j \in Core : Ahead(j)' = Ahead(j)
      /\ Ahead(i) = 1
      /\ \A j \in Core : Unchecked(j)' = Unchecked(j)
  BY <1>0, <1>1, TurnClocks
<1>3. /\ Looked(i) = cycle[i] - 1 /\ \A j \in Core : j # i => Looked(j) = cycle[j]
      /\ \A j \in Core : Looked(j)' = cycle[j]
  BY <1>1 DEF Looked
<1>4. cycle[i] > 0 /\ \A j \in Core : cycle[j] = cycle[i] \/ cycle[j] = cycle[i] - 1
  <2>1. cycle[i] > 0
    BY <1>0, <1>3, LoopNumbers DEF ClockShared
  <2>2. \A j \in Core : Ahead(j) \in {0, 1} /\ cycle[i] - 1 = cycle[j] - Ahead(j)
    BY <1>0, <1>2 DEF InStep, Ahead
  <2>. QED
    BY <1>0, <2>1, <2>2, LoopNumbers
<1>5. /\ \A j \in Core : j # i => emptySince'[j] = emptySince[j]
      /\ robHead[i] # Vacant => emptySince'[i] = 0 /\ zeroCycle' = 0
      /\ robHead[i] = Vacant /\ emptySince[i] = 0 => emptySince'[i] = cycle[i]
      /\ robHead[i] = Vacant /\ emptySince[i] # 0 => emptySince'[i] = emptySince[i]
      /\ robHead[i] = Vacant /\ zeroCycle = 0 => zeroCycle' = cycle[i]
      /\ robHead[i] = Vacant /\ zeroCycle # 0 => zeroCycle' = zeroCycle
  BY <1>0, <1>1 DEF LoopTypes, ZeroSince
<1>6. LoopTypes'
  <2>1. zeroCycle' \in Nat /\ emptySince' \in [Core -> Nat]
    BY <1>0, <1>1 DEF LoopTypes, ZeroSince
  <2>2. alarms' \subseteq Core /\ running' \in BOOLEAN /\ phase' \in Phases
    BY <1>1 DEF Phases
  <2>. QED
    BY <1>0, <1>1, <1>2, <2>1, <2>2 DEF LoopTypes
<1>7. InStep' /\ Counted' /\ Warmed' /\ RoiExact'
  BY <1>0, <1>1, <1>2 DEF InStep, Counted, Warmed, RoiExact
<1>8. WindowOpen'
  BY <1>0, <1>1, <1>2 DEF WindowOpen, SharedCount, Opened
<1>9. Ended'
  BY <1>1 DEF Ended
<1>10. ClockShared'
  <2>1. \A j \in Core : emptySince'[j] <= Looked(j)'
    BY <1>0, <1>3, <1>4, <1>5, LoopNumbers DEF ClockShared
  <2>2. ASSUME zeroCycle' # 0, NEW j \in Core, Looked(j)' > zeroCycle'
        PROVE  emptySince'[j] # 0 /\ emptySince'[j] <= zeroCycle' + 1
    <3>1. robHead[i] = Vacant
      BY <1>5, <2>2
    <3>2. zeroCycle # 0 /\ zeroCycle' = zeroCycle
      BY <1>0, <1>3, <1>4, <1>5, <2>2, <3>1, LoopNumbers
    <3>3. Looked(j) > zeroCycle => emptySince[j] # 0 /\ emptySince[j] <= zeroCycle + 1
      BY <1>0, <3>2 DEF ClockShared
    <3>4. CASE j = i
      <4>1. emptySince[i] <= cycle[i] - 1 /\ cycle[i] > zeroCycle
        BY <1>0, <1>3, <2>2, <3>2, <3>4 DEF ClockShared
      <4>2. CASE cycle[i] - 1 > zeroCycle
        BY <1>3, <1>5, <3>1, <3>2, <3>3, <3>4, <4>2
      <4>3. CASE ~(cycle[i] - 1 > zeroCycle)
        BY <1>0, <1>4, <1>5, <3>1, <3>2, <3>4, <4>1, <4>3, LoopNumbers
      <4>. QED
        BY <4>2, <4>3
    <3>5. CASE j # i
      BY <1>3, <1>5, <2>2, <3>2, <3>3, <3>5
    <3>. QED
      BY <3>4, <3>5
  <2>3. cpus' = 1 => zeroCycle' = emptySince'[0]
    <3>. SUFFICES ASSUME cpus = 1 PROVE zeroCycle' = emptySince'[0]
      BY <1>1
    <3>1. i = 0
      BY DEF Core
    <3>. QED
      BY <1>0, <1>5, <3>1 DEF ClockShared
  <2>. QED
    BY <1>2, <2>1, <2>2, <2>3 DEF ClockShared
<1>11. AlarmsTrue'
  <2>1. HeadStuck(i)' <=> HeadStuck(i)
    BY <1>1 DEF HeadStuck
  <2>2. ASSUME NEW a \in alarms'
        PROVE  \/ HeadStuck(a)'
               \/ \A j \in Core : /\ emptySince'[j] # 0
                                  /\ cycle'[a] - emptySince'[j] >= DeadlockCycle - 1
    <3>1. a = i /\ (HeadStuck(i) \/ EmptyStuck(i))
      BY <1>1, <2>2
    <3>2. CASE HeadStuck(i)
      BY <2>1, <3>1, <3>2
    <3>3. CASE EmptyStuck(i)
      <4>1. zeroCycle' + DeadlockCycle <= cycle[i] /\ robHead[i] = Vacant
        BY <1>1, <3>3 DEF EmptyStuck
      <4>2. zeroCycle' # 0 /\ zeroCycle' \in Int
        BY <1>0, <1>4, <1>5, <4>1, LoopNumbers
      <4>3. ASSUME NEW j \in Core
            PROVE  emptySince'[j] # 0 /\ cycle[i] - emptySince'[j] >= DeadlockCycle - 1
        <5>1. Looked(j)' > zeroCycle'
          BY <1>0, <1>3, <1>4, <4>1, <4>2, LoopNumbers, LoopConstants
        <5>2. emptySince'[j] # 0 /\ emptySince'[j] <= zeroCycle' + 1
          BY <1>2, <1>10, <4>2, <5>1 DEF ClockShared
        <5>3. emptySince'[j] \in Int
          BY <1>2, <1>6 DEF LoopTypes
        <5>. QED
          BY <1>0, <4>1, <4>2, <5>2, <5>3, LoopNumbers, LoopConstants
      <4>. QED
        BY <1>1, <3>1, <4>3
    <3>. QED
      BY <3>1, <3>2, <3>3
  <2>3. ASSUME running'
        PROVE  /\ ~HeadStuck(i)'
               /\ cpus' = 1 /\ emptySince'[i] # 0 => cycle'[i] - emptySince'[i] < DeadlockCycle
    <3>1. ~HeadStuck(i) /\ ~EmptyStuck(i)
      BY <1>1, <2>3
    <3>2. ASSUME cpus = 1, emptySince'[i] # 0
          PROVE  cycle[i] - emptySince'[i] < DeadlockCycle
      <4>1. i = 0
        BY <3>2 DEF Core
      <4>2. emptySince'[i] = zeroCycle'
        BY <1>1, <1>10, <3>2, <4>1 DEF ClockShared
      <4>3. robHead[i] = Vacant
        BY <1>5, <3>2
      <4>4. ~(zeroCycle' + DeadlockCycle <= cycle[i])
        BY <1>1, <3>1, <4>3 DEF EmptyStuck
      <4>5. emptySince'[i] \in Int
        BY <1>2, <1>6 DEF LoopTypes
      <4>. QED
        BY <1>0, <4>2, <4>4, <4>5, LoopNumbers, LoopConstants
    <3>. QED
      BY <1>1, <2>1, <3>1, <3>2
  <2>. QED
    BY <1>1, <1>2, <2>2, <2>3 DEF AlarmsTrue
<1>. QED
  BY <1>6, <1>7, <1>8, <1>9, <1>10, <1>11 DEF LoopInv

\* A set of cores counts as many as there are only when it is all of them.
LEMMA CoreCount ==
    ASSUME LoopTypes, NEW S \in SUBSET Core
    PROVE  /\ Cardinality(S) \in Nat /\ Cardinality(S) <= cpus
           /\ Cardinality(S) = cpus => S = Core
           /\ \A i \in Core : i \notin S => Cardinality(S \cup {i}) = Cardinality(S) + 1
<1>1. IsFiniteSet(Core) /\ Cardinality(Core) = cpus
  <2>1. cpus \in Nat /\ cpus > 0
    BY DEF LoopTypes
  <2>2. IsFiniteSet(0 .. cpus - 1) /\ Cardinality(0 .. cpus - 1) = cpus - 1 - 0 + 1
    BY <2>1, FS_Interval
  <2>. QED
    BY <2>1, <2>2 DEF Core
<1>2. IsFiniteSet(S) /\ Cardinality(S) <= cpus /\ (Cardinality(S) = cpus => S = Core)
  BY <1>1, FS_Subset
<1>3. Cardinality(S) \in Nat
  BY <1>2, FS_CardinalityType
<1>4. \A i \in Core : i \notin S => Cardinality(S \cup {i}) = Cardinality(S) + 1
  BY <1>2, FS_AddElement
<1>. QED
  BY <1>2, <1>3, <1>4

LEMMA LoopWarmup ==
    ASSUME LoopInv, NEW i \in Core, WarmupCheck(i)
    PROVE  LoopInv'
<1> DEFINE newly == ~warm[i] /\ retired[i] > Warmup
           count == allWarm + (IF newly THEN 1 ELSE 0)
<1>0. LoopTypes /\ InStep /\ Counted /\ Warmed /\ WindowOpen /\ Ended /\ ClockShared
      /\ RoiExact /\ AlarmsTrue
  BY DEF LoopInv
<1>1. /\ turn = i /\ running' = running /\ running
      /\ phase = "warmup" /\ phase' = "complete" /\ turn' = turn /\ cpus' = cpus
      /\ UNCHANGED <<cycle, stallCycle, retired, robHead, zeroCycle, done, allDone,
                     finish, roi, alarms, emptySince>>
      /\ warm' = [warm EXCEPT ![i] = @ \/ newly]
      /\ count = cpus => allWarm' = count + 1 /\ FinishWarmup
      /\ count # cpus => allWarm' = count /\ UNCHANGED <<timing, begin, sim, idle>>
  BY DEF WarmupCheck, Goes
<1>2. /\ Core' = Core /\ \A j \in Core : Ahead(j)' = Ahead(j)
      /\ \A j \in Core : Unchecked(j)' = Unchecked(j)
  BY <1>0, <1>1, TurnClocks
<1>3. \A j \in Core : Looked(j)' = Looked(j)
  BY <1>1 DEF Looked
<1>4. /\ warm' \in [Core -> BOOLEAN] /\ \A j \in Core : j # i => warm'[j] = warm[j]
      /\ warm'[i] <=> warm[i] \/ newly
      /\ \A j \in Core : warm[j] => warm'[j]
  BY <1>0, <1>1, Zenon DEF LoopTypes
<1>5. \A j \in Core : warm'[j] => retired[j] > Warmup
  BY <1>0, <1>4 DEF Warmed
\* Who is warm is counted.
<1>6. timing = "warm-up" =>
         /\ count = Cardinality({j \in Core : warm'[j]}) /\ count <= cpus
         /\ count = cpus => \A j \in Core : warm'[j]
  <2>. SUFFICES ASSUME timing = "warm-up"
                PROVE  /\ count = Cardinality({j \in Core : warm'[j]}) /\ count <= cpus
                       /\ count = cpus => \A j \in Core : warm'[j]
    OBVIOUS
  <2>1. allWarm = Cardinality({j \in Core : warm[j]})
    BY <1>0 DEF Counted
  <2>2. count = Cardinality({j \in Core : warm'[j]})
    <3>1. CASE newly
      <4>1. i \notin {j \in Core : warm[j]}
        BY <3>1
      <4>2. {j \in Core : warm'[j]} = {j \in Core : warm[j]} \cup {i}
        BY <1>4, <3>1
      <4>3. Cardinality({j \in Core : warm[j]} \cup {i}) = Cardinality({j \in Core : warm[j]}) + 1
        BY <1>0, <4>1, CoreCount
      <4>. QED
        BY <2>1, <3>1, <4>2, <4>3
    <3>2. CASE ~newly
      <4>1. {j \in Core : warm'[j]} = {j \in Core : warm[j]}
        BY <1>4, <3>2
      <4>2. allWarm \in Int
        BY <1>0 DEF LoopTypes
      <4>. QED
        BY <2>1, <3>2, <4>1, <4>2
    <3>. QED
      BY <3>1, <3>2
  <2>3. {j \in Core : warm'[j]} \in SUBSET Core
    OBVIOUS
  <2>. QED
    BY <1>0, <2>2, <2>3, CoreCount
<1>7. timing = "real" => count = cpus + 1 /\ count # cpus /\ \A j \in Core : warm'[j]
  <2>. SUFFICES ASSUME timing = "real"
                PROVE  count = cpus + 1 /\ count # cpus /\ \A j \in Core : warm'[j]
    OBVIOUS
  <2>1. allWarm = cpus + 1 /\ \A j \in Core : warm[j]
    BY <1>0 DEF Counted, Warmed
  <2>2. ~newly
    BY <2>1
  <2>. QED
    BY <1>0, <1>4, <2>1, <2>2, LoopNumbers
<1>8. timing \in {"warm-up", "real"} /\ allWarm \in Int /\ count \in Int
  BY <1>0 DEF LoopTypes
<1> HIDE DEF count
<1>9. CASE count = cpus
  <2>1. timing = "warm-up" /\ \A j \in Core : warm'[j]
    BY <1>6, <1>7, <1>8, <1>9
  <2>2. /\ timing' = "real" /\ allWarm' = cpus + 1
        /\ begin' = [j \in Core |-> [instr |-> retired[j], cycle |-> cycle[j]]]
        /\ sim' = [j \in Core |-> [own |-> 0, llc |-> 0]]
        /\ idle' = [j \in Core |-> 0]
    BY <1>1, <1>9 DEF FinishWarmup, ClearedStats, Nothing
  <2>3. \A j \in Core : ~done[j]
    BY <1>0, <2>1 DEF Warmed
  <2>4. /\ begin' \in [Core -> [instr : Nat, cycle : Nat]] /\ sim' \in [Core -> Counters]
        /\ idle' \in [Core -> Int]
    BY <1>0, <2>2 DEF LoopTypes, Counters
  <2>5. LoopTypes'
    BY <1>0, <1>1, <1>2, <1>4, <2>2, <2>4, LoopNumbers DEF LoopTypes, Phases
  <2>6. InStep' /\ Ended' /\ Counted'
    BY <1>0, <1>1, <1>2, <2>2 DEF InStep, Ended, Counted
  <2>7. \A j \in Core : /\ begin'[j].instr = retired[j] /\ begin'[j].cycle = cycle[j]
                        /\ sim'[j].own = 0 /\ sim'[j].llc = 0 /\ idle'[j] = 0
    BY <2>2
  <2>8. Warmed'
    BY <1>1, <1>2, <1>5, <2>1, <2>2, <2>7 DEF Warmed
  <2>9. WindowOpen'
    <3>. SUFFICES ASSUME NEW j \in Core PROVE SharedCount(j)' /\ Opened(j)'
      BY <1>2 DEF WindowOpen
    <3>1. SharedCount(j)'
      <4>1. cycle'[j] - begin'[j].cycle - sim'[j].llc = 0
        BY <1>0, <1>1, <2>7, LoopNumbers
      <4>2. Ahead(j)' \in {0, 1}
        BY DEF Ahead
      <4>. QED
        BY <4>1, <4>2 DEF SharedCount
    <3>2. Opened(j)'
      <4>1. /\ retired'[j] = begin'[j].instr /\ retired'[j] \in Int
            /\ sim'[j].own + idle'[j] = cycle'[j] - begin'[j].cycle
        BY <1>0, <1>1, <2>7, LoopNumbers
      <4>. QED
        BY <4>1, LoopConstants DEF Opened
    <3>. QED
      BY <3>1, <3>2
  <2>10. ClockShared'
    BY <1>0, <1>1, <1>2, <1>3 DEF ClockShared
  <2>11. RoiExact'
    BY <1>1, <1>2, <2>3 DEF RoiExact
  <2>12. AlarmsTrue'
    BY <1>0, <1>1, <1>2 DEF AlarmsTrue, Ended
  <2>. QED
    BY <2>5, <2>6, <2>8, <2>9, <2>10, <2>11, <2>12 DEF LoopInv
<1>10. CASE count # cpus
  <2>1. allWarm' = count /\ UNCHANGED <<timing, begin, sim, idle>>
    BY <1>1, <1>10
  <2>2. LoopTypes'
    BY <1>0, <1>1, <1>2, <1>4, <1>8, <2>1 DEF LoopTypes, Phases
  <2>3. Counted'
    <3>1. timing = "warm-up" => /\ count = Cardinality({j \in Core : warm'[j]}) /\ count < cpus
      BY <1>0, <1>6, <1>8, <1>10, LoopNumbers
    <3>. QED
      BY <1>0, <1>1, <1>2, <1>7, <2>1, <3>1 DEF Counted
  <2>4. Warmed'
    BY <1>0, <1>1, <1>2, <1>5, <1>7, <2>1 DEF Warmed
  <2>5. WindowOpen'
    BY <1>0, <1>1, <1>2, <2>1 DEF WindowOpen, SharedCount, Opened
  <2>6. InStep' /\ Ended' /\ RoiExact'
    BY <1>0, <1>1, <1>2, <2>1 DEF InStep, Ended, RoiExact
  <2>7. ClockShared'
    BY <1>0, <1>1, <1>2, <1>3 DEF ClockShared
  <2>8. AlarmsTrue'
    BY <1>0, <1>1, <1>2 DEF AlarmsTrue, Ended
  <2>. QED
    BY <2>2, <2>3, <2>4, <2>5, <2>6, <2>7, <2>8 DEF LoopInv
<1>. QED
  BY <1>9, <1>10

LEMMA LoopCompletion ==
    ASSUME LoopInv, NEW i \in Core, CompletionCheck(i)
    PROVE  LoopInv'
<1>0. LoopTypes /\ InStep /\ Counted /\ Warmed /\ WindowOpen /\ Ended /\ ClockShared
      /\ RoiExact /\ AlarmsTrue
  BY DEF LoopInv
<1>1. /\ turn = i /\ running' = running /\ running
      /\ phase = "complete" /\ phase' = (IF i + 1 = cpus THEN "uncore" ELSE "cycle")
      /\ turn' = i + 1 /\ cpus' = cpus
      /\ UNCHANGED <<cycle, stallCycle, retired, robHead, zeroCycle, warm, allWarm,
                     begin, sim, timing, alarms, idle, emptySince>>
      /\ IF Completes(i)
         THEN /\ done' = [done EXCEPT ![i] = TRUE]
              /\ finish' = [finish EXCEPT ![i] = [instr |-> retired[i] - begin[i].instr,
                                                  cycle |-> cycle[i] - begin[i].cycle]]
              /\ roi' = [roi EXCEPT ![i] = sim[i]]
              /\ allDone' = allDone + 1
         ELSE UNCHANGED <<done, finish, roi, allDone>>
  BY DEF CompletionCheck, RecordRoi
<1>2. Core' = Core /\ i \in Int /\ 0 <= i /\ i < cpus
  BY <1>0, <1>1, LoopNumbers DEF Core
<1>3. \A j \in Core : Ahead(j)' = Ahead(j)
  <2>. SUFFICES ASSUME NEW j \in Core PROVE Ahead(j)' = Ahead(j)
    OBVIOUS
  <2>1. j \in Int /\ j < cpus
    BY <1>0, LoopNumbers DEF Core
  <2>2. CASE j <= i
    BY <1>1, <1>2, <2>1, <2>2 DEF Ahead
  <2>3. CASE j > i
    BY <1>1, <1>2, <2>1, <2>3 DEF Ahead
  <2>. QED
    BY <1>2, <2>1, <2>2, <2>3
<1>4. Ahead(i) = 1
  BY <1>1 DEF Ahead
<1>5. \A j \in Core : Looked(j)' = Looked(j) /\ ~Unchecked(j)'
                      /\ (j # i => ~Unchecked(j)) /\ Unchecked(i)
  BY <1>1 DEF Looked, Unchecked
<1>7. InStep'
  BY <1>0, <1>1, <1>2, <1>3 DEF InStep
<1>8. ClockShared'
  BY <1>0, <1>1, <1>2, <1>5 DEF ClockShared
<1>9. AlarmsTrue'
  BY <1>0, <1>1, <1>2 DEF AlarmsTrue, Ended
<1>10. Ended'
  BY <1>0, <1>1 DEF Ended
<1>11. phase' \in Phases /\ turn' \in 0 .. cpus' /\ (phase' = "uncore" <=> turn' = cpus')
  BY <1>0, <1>1, <1>2, LoopNumbers DEF Phases
<1>12. CASE ~Completes(i)
  <2>1. UNCHANGED <<done, finish, roi, allDone>>
    BY <1>1, <1>12
  <2>2. LoopTypes'
    BY <1>0, <1>1, <1>2, <1>11, <2>1 DEF LoopTypes
  <2>3. Counted' /\ Warmed' /\ RoiExact'
    BY <1>0, <1>1, <1>2, <2>1 DEF Counted, Warmed, RoiExact
  <2>4. WindowOpen'
    <3>. SUFFICES ASSUME NEW j \in Core, timing = "real"
                  PROVE  SharedCount(j)' /\ (~done[j] => Opened(j)')
      BY <1>1, <1>2, <2>1 DEF WindowOpen
    <3>1. SharedCount(j)'
      BY <1>0, <1>1, <1>3 DEF WindowOpen, SharedCount
    <3>2. ASSUME ~done[j] PROVE Opened(j)'
      <4>1. Opened(j)
        BY <1>0, <3>2 DEF WindowOpen
      <4>2. retired[j] - begin[j].instr <= Simulated - 1
        <5>1. CASE j = i
          <6>1. allWarm = cpus + 1
            BY <1>0 DEF Counted
          <6>2. ~(retired[i] >= begin[i].instr + Simulated)
            BY <1>0, <1>12, <3>2, <5>1, <6>1, LoopNumbers DEF Completes
          <6>. QED
            BY <1>0, <5>1, <6>2, LoopNumbers, LoopConstants
        <5>2. CASE j # i
          BY <1>0, <1>5, <4>1, <5>2, LoopNumbers, LoopConstants DEF Opened
        <5>. QED
          BY <5>1, <5>2
      <4>. QED
        BY <1>0, <1>1, <1>5, <4>1, <4>2, LoopNumbers, LoopConstants DEF Opened
    <3>. QED
      BY <3>1, <3>2
  <2>. QED
    BY <1>7, <1>8, <1>9, <1>10, <2>2, <2>3, <2>4 DEF LoopInv
<1>13. CASE Completes(i)
  <2>1. /\ done' = [done EXCEPT ![i] = TRUE]
        /\ finish' = [finish EXCEPT ![i] = [instr |-> retired[i] - begin[i].instr,
                                            cycle |-> cycle[i] - begin[i].cycle]]
        /\ roi' = [roi EXCEPT ![i] = sim[i]]
        /\ allDone' = allDone + 1
    BY <1>1, <1>13
  <2>2. allWarm > cpus /\ ~done[i] /\ retired[i] >= begin[i].instr + Simulated
    BY <1>13 DEF Completes
  <2>3. timing = "real"
    BY <1>0, <1>2, <2>2, LoopNumbers DEF Counted, LoopTypes
  <2>4. SharedCount(i) /\ Opened(i)
    BY <1>0, <2>2, <2>3 DEF WindowOpen
  <2>5. LoopTypes'
    <3>1. retired[i] - begin[i].instr \in Int /\ cycle[i] - begin[i].cycle \in Int
      BY <1>0, LoopNumbers
    <3>2. finish' \in [Core -> [instr : Int, cycle : Int]]
      BY <1>0, <2>1, <3>1 DEF LoopTypes
    <3>3. done' \in [Core -> BOOLEAN] /\ roi' \in [Core -> Counters] /\ allDone' \in Int
      BY <1>0, <2>1 DEF LoopTypes
    <3>. QED
      BY <1>0, <1>1, <1>2, <1>11, <3>2, <3>3 DEF LoopTypes
  <2>6. /\ done'[i] /\ \A j \in Core : j # i => done'[j] = done[j]
        /\ finish'[i].instr = retired[i] - begin[i].instr
        /\ finish'[i].cycle = cycle[i] - begin[i].cycle
        /\ roi'[i] = sim[i]
        /\ \A j \in Core : j # i => finish'[j] = finish[j] /\ roi'[j] = roi[j]
    BY <1>0, <2>1 DEF LoopTypes
  <2>7. Counted'
    <3>1. {j \in Core : done'[j]} = {j \in Core : done[j]} \cup {i}
      BY <2>6
    <3>2. Cardinality({j \in Core : done[j]} \cup {i}) = Cardinality({j \in Core : done[j]}) + 1
      BY <1>0, <2>2, CoreCount
    <3>3. allDone' = Cardinality({j \in Core : done'[j]})
      BY <1>0, <2>1, <3>1, <3>2 DEF Counted
    <3>. QED
      BY <1>0, <1>1, <1>2, <2>3, <3>3 DEF Counted
  <2>8. Warmed'
    BY <1>0, <1>1, <1>2, <2>3 DEF Warmed
  <2>9. WindowOpen'
    <3>. SUFFICES ASSUME NEW j \in Core
                  PROVE  SharedCount(j)' /\ (~done'[j] => Opened(j)')
      BY <1>1, <1>2 DEF WindowOpen
    <3>1. SharedCount(j)'
      BY <1>0, <1>1, <1>3, <2>3 DEF WindowOpen, SharedCount
    <3>2. ASSUME ~done'[j] PROVE Opened(j)'
      <4>1. j # i /\ Opened(j)
        BY <1>0, <2>3, <2>6, <3>2 DEF WindowOpen
      <4>. QED
        BY <1>0, <1>1, <1>5, <4>1, LoopNumbers, LoopConstants DEF Opened
    <3>. QED
      BY <3>1, <3>2
  <2>10. RoiExact'
    <3>1. /\ begin[i].instr > Warmup
          /\ finish'[i].instr \in Simulated .. Simulated + RetireWidth - 1
      BY <1>0, <1>5, <2>2, <2>3, <2>4, <2>6, LoopNumbers, LoopConstants DEF Warmed, Opened
    <3>2. roi'[i].own = finish'[i].cycle - idle[i]
      BY <1>0, <2>4, <2>6, LoopNumbers DEF Opened
    <3>3. roi'[i].llc \in {finish'[i].cycle, finish'[i].cycle - 1}
      BY <1>0, <1>4, <2>4, <2>6, LoopNumbers DEF SharedCount
    <3>. QED
      BY <1>0, <1>1, <1>2, <2>6, <3>1, <3>2, <3>3 DEF RoiExact
  <2>. QED
    BY <1>7, <1>8, <1>9, <1>10, <2>5, <2>7, <2>8, <2>9, <2>10 DEF LoopInv
<1>. QED
  BY <1>12, <1>13

LEMMA LoopUncore ==
    ASSUME LoopInv, Uncore
    PROVE  LoopInv'
<1>0. LoopTypes /\ InStep /\ Counted /\ Warmed /\ WindowOpen /\ Ended /\ ClockShared
      /\ RoiExact /\ AlarmsTrue
  BY DEF LoopInv
<1>1. /\ running /\ phase = "uncore" /\ running' = (allDone # cpus)
      /\ turn = cpus /\ turn' = 0 /\ phase' = "cycle" /\ cpus' = cpus
      /\ sim' = [i \in Core |-> [sim[i] EXCEPT !.llc = @ + 1]]
      /\ UNCHANGED <<cycle, stallCycle, retired, robHead, zeroCycle, warm, allWarm, done,
                     allDone, begin, finish, roi, timing, alarms, idle, emptySince>>
  BY <1>0 DEF Uncore, LoopTypes
<1>2. Core' = Core /\ \A j \in Core : j \in Int /\ 0 <= j /\ j < cpus
  BY <1>0, <1>1, LoopNumbers DEF Core
<1>3. \A j \in Core : Ahead(j) = 1 /\ Ahead(j)' = 0
  BY <1>0, <1>1, <1>2, LoopNumbers DEF Ahead
<1>4. \A j \in Core : Looked(j)' = Looked(j) /\ ~Unchecked(j) /\ ~Unchecked(j)'
  BY <1>1 DEF Looked, Unchecked
<1>5. \A j \in Core : /\ sim'[j] \in Counters
                      /\ sim'[j].own = sim[j].own /\ sim'[j].llc = sim[j].llc + 1
  <2>. SUFFICES ASSUME NEW j \in Core
                PROVE  /\ sim'[j] \in Counters
                       /\ sim'[j].own = sim[j].own /\ sim'[j].llc = sim[j].llc + 1
    OBVIOUS
  <2>1. sim[j] \in [own : Int, llc : Int] /\ sim'[j] = [sim[j] EXCEPT !.llc = @ + 1]
    BY <1>0, <1>1 DEF LoopTypes, Counters
  <2>. QED
    BY <2>1 DEF Counters
<1>6. LoopTypes'
  <2>1. sim' \in [Core -> Counters]
    BY <1>1, <1>5
  <2>2. running' \in BOOLEAN /\ phase' \in Phases /\ turn' \in 0 .. cpus'
        /\ (phase' = "uncore" <=> turn' = cpus')
    BY <1>0, <1>1, LoopNumbers DEF Phases
  <2>. QED
    BY <1>0, <1>1, <1>2, <2>1, <2>2 DEF LoopTypes
<1>7. InStep'
  <2>. SUFFICES ASSUME NEW i \in Core, NEW j \in Core PROVE cycle[i] - 0 = cycle[j] - 0
    BY <1>1, <1>2, <1>3 DEF InStep
  <2>1. cycle[i] - 1 = cycle[j] - 1
    BY <1>0, <1>3 DEF InStep
  <2>. QED
    BY <1>0, <2>1, LoopNumbers
<1>8. Counted' /\ Warmed' /\ RoiExact'
  BY <1>0, <1>1, <1>2 DEF Counted, Warmed, RoiExact
<1>9. WindowOpen'
  <2>. SUFFICES ASSUME NEW j \in Core, timing = "real"
                PROVE  SharedCount(j)' /\ (~done[j] => Opened(j)')
    BY <1>1, <1>2 DEF WindowOpen
  <2>1. SharedCount(j) /\ (~done[j] => Opened(j))
    BY <1>0 DEF WindowOpen
  <2>2. SharedCount(j)'
    BY <1>0, <1>1, <1>3, <1>5, <2>1, LoopNumbers DEF SharedCount
  <2>3. ~done[j] => Opened(j)'
    BY <1>0, <1>1, <1>4, <1>5, <2>1, LoopNumbers, LoopConstants DEF Opened
  <2>. QED
    BY <2>2, <2>3
<1>10. Ended'
  <2>1. alarms' = {}
    BY <1>0, <1>1 DEF Ended
  <2>2. ASSUME ~running' PROVE \A j \in Core : done'[j]
    <3>1. Cardinality({j \in Core : done[j]}) = cpus
      BY <1>0, <1>1, <2>2 DEF Counted
    <3>2. {j \in Core : done[j]} \in SUBSET Core
      OBVIOUS
    <3>3. {j \in Core : done[j]} = Core
      BY <1>0, <3>1, <3>2, CoreCount
    <3>. QED
      BY <1>1, <3>3
  <2>. QED
    BY <1>2, <2>1, <2>2 DEF Ended
<1>11. ClockShared'
  BY <1>0, <1>1, <1>2, <1>4 DEF ClockShared
<1>12. AlarmsTrue'
  BY <1>0, <1>1, <1>2 DEF AlarmsTrue, Ended
<1>. QED
  BY <1>6, <1>7, <1>8, <1>9, <1>10, <1>11, <1>12 DEF LoopInv

LEMMA LoopStep ==
    ASSUME LoopInv, [LoopNext]_loopVars
    PROVE  LoopInv'
<1>1. ASSUME NEW i \in Core, NEW n \in 0 .. RetireWidth,
             NEW newHead \in Vacant .. cycle[i] + 1, NEW fault \in BOOLEAN,
             CoreCycle(i, n, newHead, fault)
      PROVE  LoopInv'
  BY <1>1, LoopCycle
<1>2. ASSUME NEW i \in Core,
             Heartbeat(i) \/ DeadlockCheck(i) \/ WarmupCheck(i) \/ CompletionCheck(i)
      PROVE  LoopInv'
  BY <1>2, LoopHeartbeat, LoopDeadlock, LoopWarmup, LoopCompletion
<1>3. CASE Uncore
  BY <1>3, LoopUncore
<1>4. CASE UNCHANGED loopVars
  <2>1. Core' = Core /\ \A j \in Core : Ahead(j)' = Ahead(j) /\ Looked(j)' = Looked(j)
                                     /\ Unchecked(j)' = Unchecked(j)
    BY <1>4 DEF loopVars, Core, Ahead, Looked, Unchecked
  <2>2. LoopTypes'
    BY <1>4, <2>1 DEF loopVars, LoopInv, LoopTypes
  <2>3. InStep' /\ Counted' /\ Warmed' /\ Ended' /\ RoiExact'
    BY <1>4, <2>1 DEF loopVars, LoopInv, InStep, Counted, Warmed, Ended, RoiExact
  <2>4. WindowOpen'
    BY <1>4, <2>1 DEF loopVars, LoopInv, WindowOpen, SharedCount, Opened
  <2>5. ClockShared'
    BY <1>4, <2>1 DEF loopVars, LoopInv, ClockShared
  <2>6. AlarmsTrue'
    BY <1>4, <2>1 DEF loopVars, LoopInv, AlarmsTrue, HeadStuck
  <2>. QED
    BY <2>2, <2>3, <2>4, <2>5, <2>6 DEF LoopInv
<1>. QED
  BY <1>1, <1>2, <1>3, <1>4 DEF LoopNext

\* The heartbeat of a warm core is off only while another one warms up.
LEMMA LoopHeartbeats == LoopInv => HeartbeatExact
<1>. SUFFICES ASSUME LoopInv, NEW i \in Core
              PROVE  (CumulativeIpc(i) = IF timing = "real"
                            THEN [instr  |-> retired[i] - begin[i].instr,
                                  cycles |-> cycle[i] - begin[i].cycle]
                            ELSE [instr  |-> retired[i], cycles |-> cycle[i]])
                     <=> ~(warm[i] /\ timing # "real" /\ Warmup # 0)
  BY DEF HeartbeatExact
<1>0. LoopTypes /\ Warmed
  BY DEF LoopInv
<1>1. CASE timing = "real"
  <2>1. warm[i]
    BY <1>0, <1>1 DEF Warmed
  <2>. QED
    BY <1>1, <2>1 DEF CumulativeIpc
<1>2. CASE timing # "real" /\ ~warm[i]
  BY <1>0, <1>2, LoopNumbers DEF CumulativeIpc
<1>3. CASE timing # "real" /\ warm[i]
  <2>1. begin[i].instr = Warmup /\ begin[i].cycle = 0
    BY <1>0, <1>3 DEF Warmed, LoopTypes
  <2>2. CumulativeIpc(i) = [instr |-> retired[i] - Warmup, cycles |-> cycle[i]]
    BY <1>0, <1>3, <2>1, LoopNumbers DEF CumulativeIpc
  <2>3. retired[i] - Warmup = retired[i] <=> Warmup = 0
    BY <1>0, LoopNumbers, LoopConstants
  <2>4. CumulativeIpc(i) = [instr |-> retired[i], cycles |-> cycle[i]]
           <=> retired[i] - Warmup = retired[i]
    BY <2>2
  <2>. QED
    BY <1>3, <2>3, <2>4
<1>. QED
  BY <1>1, <1>2, <1>3

\* For any number of cores and any lengths of warm-up and simulation, what the
\* main loop reports of a region of interest, a heartbeat or a deadlock is true
\* of the cycles it names, and the loop stops when the last core is done.
THEOREM LoopReportsExactly == LoopSpec => []LoopExact
<1>1. LoopSpec => []LoopInv
  <2>1. LoopInv /\ [LoopNext]_loopVars => LoopInv'
    BY LoopStep
  <2>. QED
    BY LoopInitInv, <2>1, PTL DEF LoopSpec
<1>2. LoopInv => LoopExact
  BY LoopHeartbeats DEF LoopInv, LoopExact, WindowExact, Ended
<1>. QED
  BY <1>1, <1>2, PTL

-----------------------------------------------------------------------------
(***************************************************************************)
(* ComponentKernels.  Labels race, so the invariant does not say which tree*)
(* a node is in, only which nodes no set of whole trees tells apart (Same):*)
(* hooking a root and shortening a way keep this for all pairs of nodes.   *)
(* An edge is done with when its ends are the same, or, in a round of      *)
(* Shiloach-Vishkin that changed nothing, have one label.                  *)
(***************************************************************************)
\* Two nodes that no set of whole components tells apart.
Together(x, y) == \A C \in SUBSET Nodes : Enclosed(net, C) => (x \in C <=> y \in C)

\* Two nodes in one tree, as far as the labels of D say: no set that has a
\* node of D just when it has its label tells them apart.
Whole(C, D) == \A n \in D : n \in C <=> comp[n] \in C
Tied(D, x, y) == \A C \in SUBSET Nodes : Whole(C, D) => (x \in C <=> y \in C)
Same(x, y) == Tied(Nodes, x, y)
Below(u) == {n \in Nodes : n < u}

Settled(n) == comp[comp[n]] = comp[n]

Links == {"first", "second", "high", "swap", "up", "twice", "low", "root", "hook"}
Climbs == {"high", "swap", "up", "twice", "low"}
Shortens == {"test", "shorten", "store"}
Hands == [at : {"idle"} \cup Links \cup Shortens, u : Int, todo : Seq(Nodes),
          p : Int, high : Int, low : Int]
Linking == stage.loop \in {"sample", "link", "hook"}
Compressing == stage.loop \in {"compress", "final"}

ComponentTypes ==
    /\ kernel \in {"afforest", "sv"}
    /\ net \in Networks
    /\ comp \in [Nodes -> Nodes]
    /\ hand \in [Threads -> Hands]
    /\ ahead \in SUBSET Nodes
    /\ stage \in [loop : {"sample", "compress", "link", "final", "hook", "end"}, round : Nat]
    /\ skipped \in Nodes \cup {NoSkip}
    /\ change \in BOOLEAN

\* Where a thread may be, and what the values it has read are worth.
Placed(h) ==
    /\ h.at = "idle" => h = Idle
    /\ h.at # "idle" => h.u \in Nodes
    /\ h.at \in Links => /\ Linking /\ h.todo # <<>>
                         /\ \A i \in 1 .. Len(h.todo) : Together(h.u, h.todo[i])
    /\ h.at \in Climbs => kernel = "afforest"
    /\ h.at \in {"root", "hook"} => kernel = "sv"
    /\ h.at \in Shortens => Compressing
Read(h) ==
    /\ h.at \in {"second", "twice", "low", "store"} => h.p \in Nodes /\ Together(h.u, h.p)
    /\ h.at \in Climbs \cup {"root", "hook"} =>
          /\ h.high \in Nodes /\ h.low \in Nodes /\ h.low < h.high
          /\ Together(h.u, h.high) /\ Together(h.u, h.low)
    /\ h.at \in {"shorten", "store"} => comp[h.u] # h.u
    /\ h.at = "store" => h.p <= comp[h.u] /\ Tied(Below(h.u), comp[h.u], h.p)
\* Afforest: to join high and low joins the ends of the edge.
Climbing(h) ==
    kernel = "afforest" =>
        /\ h.at = "second" => Same(h.u, h.p)
        /\ h.at \in {"twice", "low"} => Same(h.high, h.p)
        /\ h.at \in Climbs => \/ Same(h.u, h.high) /\ Same(Head(h.todo), h.low)
                              \/ Same(h.u, h.low) /\ Same(Head(h.todo), h.high)
\* Shiloach-Vishkin, while nothing has changed: labels are roots.
Hooking(h) ==
    kernel = "sv" /\ ~change =>
        /\ h.at = "second" => h.p = comp[h.u]
        /\ h.at = "root" => comp[h.high] = h.high
        /\ h.at \notin {"shorten", "store"}
HandFits(h) == Placed(h) /\ Read(h) /\ Climbing(h) /\ Hooking(h)

Keeps(t, u) == hand[t].at # "idle" /\ hand[t].u = u
HandsFit ==
    /\ \A t \in Threads : HandFits(hand[t])
    /\ \A t \in Threads, u \in Nodes : Keeps(t, u) => u \notin ahead
    /\ \A t, s \in Threads, u \in Nodes : Keeps(t, u) /\ Keeps(s, u) => t = s

\* What a loop has to do for u, and that it is still in a thread's hands.
Due(u) ==
    CASE stage.loop = "sample" ->
           IF stage.round \in DOMAIN net.out[u] THEN {net.out[u][stage.round]} ELSE {}
      [] stage.loop = "link" -> ToSet(Rest(u))
      [] stage.loop = "hook" -> ToSet(net.out[u])
      [] OTHER -> {}
Pending(u, v) == \E t \in Threads : Keeps(t, u) /\ v \in ToSet(hand[t].todo)

Descending ==
    \A n \in Nodes : comp[n] <= n /\ Together(n, comp[n])
Compressed ==
    /\ Compressing => \A n \in Nodes \ ahead : (\A t \in Threads : ~Keeps(t, n)) => Settled(n)
    /\ stage.loop = "end" => \A n \in Nodes : Settled(n)
Loops ==
    /\ kernel = "sv" => stage.loop \in {"hook", "compress", "end"}
    /\ kernel = "afforest" => /\ stage.loop # "hook"
                              /\ stage.round \in 1 .. NeighborRounds
                              /\ stage.loop \in {"link", "final", "end"} =>
                                    stage.round = NeighborRounds /\ skipped \in Nodes

Sampled ==
    LET rounds == IF stage.loop = "sample" THEN stage.round - 1 ELSE stage.round
    IN  \A u \in Nodes : \A i \in DOMAIN net.out[u] : i <= rounds => Same(u, net.out[u][i])
Linked ==
    \A u \in Nodes \ ahead : \/ stage.loop = "link" /\ Same(u, skipped)
                             \/ \A v \in Due(u) : Same(u, v) \/ Pending(u, v)
AllLinked ==
    \A u \in Nodes : Same(u, skipped) \/ \A v \in ToSet(Rest(u)) : Same(u, v)
AfforestLinks ==
    kernel = "afforest" =>
        /\ Sampled
        /\ stage.loop \in {"sample", "link"} => Linked
        /\ stage.loop \in {"final", "end"} => AllLinked
Hooked ==
    kernel = "sv" =>
        /\ stage.loop = "end" => ~change
        /\ ~change => \A n \in Nodes : Settled(n)
        /\ ~change => \A u \in Nodes \ ahead : \A v \in Due(u) : comp[u] = comp[v] \/ Pending(u, v)
        /\ ~change /\ stage.loop # "hook" =>
              \A u \in Nodes : \A v \in ToSet(net.out[u]) : comp[u] = comp[v]

ComponentInv == ComponentTypes /\ HandsFit /\ Descending /\ Compressed /\ Loops
                /\ AfforestLinks /\ Hooked

-----------------------------------------------------------------------------
\* Being together, and being tied, are equivalences.
LEMMA TogetherLaws ==
    /\ \A x : Together(x, x)
    /\ \A x, y : Together(x, y) => Together(y, x)
    /\ \A x, y, z : Together(x, y) /\ Together(y, z) => Together(x, z)
  BY Zenon DEF Together

LEMMA TiedLaws ==
    /\ \A D, x : Tied(D, x, x)
    /\ \A D, x, y : Tied(D, x, y) => Tied(D, y, x)
    /\ \A D, x, y, z : Tied(D, x, y) /\ Tied(D, y, z) => Tied(D, x, z)
  BY Zenon DEF Tied

LEMMA SameLaws ==
    /\ \A x : Same(x, x)
    /\ \A x, y : Same(x, y) => Same(y, x)
    /\ \A x, y, z : Same(x, y) /\ Same(y, z) => Same(x, z)
  BY TiedLaws, Zenon DEF Same

\* A node and its label are tied; so are nodes tied by fewer labels.
LEMMA SameLabel == \A n \in Nodes : Same(n, comp[n])
  BY DEF Same, Tied, Whole

LEMMA TiedBelow ==
    \A u \in Nodes : \A n \in Below(u) : Tied(Below(u), n, comp[n])
  BY DEF Tied, Whole, Below

LEMMA EdgeTogether ==
    ASSUME NEW u \in Nodes, NEW v \in Nodes,
           v \in ToSet(net.out[u]) \/ u \in ToSet(net.out[v])
    PROVE  Together(u, v)
<1> SUFFICES ASSUME NEW C \in SUBSET Nodes, Enclosed(net, C)
             PROVE  u \in C <=> v \in C
  BY DEF Together
<1>1. Beside(net, u, v) /\ Beside(net, v, u)
  BY DEF Beside
<1>. QED
  BY <1>1 DEF Enclosed

\* A component: the nodes that are together with one of its nodes.
LEMMA ComponentIs ==
    ASSUME NEW n \in Nodes
    PROVE  Connected(net, n) = {v \in Nodes : Together(n, v)}
<1>1. ASSUME NEW C \in SUBSET Nodes, Enclosed(net, C)
      PROVE  Enclosed(net, Nodes \ C)
  <2> SUFFICES ASSUME NEW u \in Nodes \ C, NEW v \in Nodes, Beside(net, u, v), v \in C
               PROVE  FALSE
    BY DEF Enclosed
  <2>1. Beside(net, v, u)
    BY DEF Beside
  <2>. QED
    BY <1>1, <2>1 DEF Enclosed
<1>2. ASSUME NEW v \in Connected(net, n)
      PROVE  v \in Nodes /\ Together(n, v)
  <2>1. v \in Nodes /\ \A C \in SUBSET Nodes : n \in C /\ Enclosed(net, C) => v \in C
    BY <1>2 DEF Connected
  <2> SUFFICES ASSUME NEW C \in SUBSET Nodes, Enclosed(net, C)
               PROVE  n \in C <=> v \in C
    BY <2>1 DEF Together
  <2>2. Nodes \ C \in SUBSET Nodes /\ Enclosed(net, Nodes \ C)
    BY <1>1
  <2>. QED
    BY <2>1, <2>2
<1>3. ASSUME NEW v \in Nodes, Together(n, v)
      PROVE  v \in Connected(net, n)
  BY <1>3 DEF Connected, Together
<1>. QED
  BY <1>2, <1>3

-----------------------------------------------------------------------------
\* What a changed label does to the ties.
LEMMA RootHung ==
    ASSUME comp \in [Nodes -> Nodes], NEW a \in Nodes, NEW b \in Nodes,
           comp[a] = a, comp' = [comp EXCEPT ![a] = b]
    PROVE  \A x, y : Same(x, y) => Same(x, y)'
<1>1. ASSUME NEW C, Whole(C, Nodes)'
      PROVE  Whole(C, Nodes)
  BY <1>1 DEF Whole
<1>. QED
  BY <1>1 DEF Same, Tied

LEMMA LabelRaised ==
    ASSUME comp \in [Nodes -> Nodes], NEW a \in Nodes, NEW b \in Nodes,
           Tied(Below(a), comp[a], b), comp' = [comp EXCEPT ![a] = b]
    PROVE  /\ \A x, y : Same(x, y) => Same(x, y)'
           /\ \A u \in Nodes : \A x, y : Tied(Below(u), x, y) => Tied(Below(u), x, y)'
<1>1. ASSUME NEW D \in SUBSET Nodes, a \in D => Below(a) \subseteq D,
             NEW C \in SUBSET Nodes, Whole(C, D)'
      PROVE  Whole(C, D)
  <2>1. \A n \in D : n \in C <=> comp'[n] \in C
    BY <1>1 DEF Whole
  <2>2. \A n \in Nodes : n # a => comp'[n] = comp[n]
    OBVIOUS
  <2>3. CASE a \in D
    <3>1. a \notin Below(a)
      BY GraphsAssumption DEF Below
    <3>2. Whole(C, Below(a))
      BY <1>1, <2>1, <2>2, <2>3, <3>1 DEF Whole, Below
    <3>3. comp[a] \in C <=> b \in C
      BY <3>2 DEF Tied
    <3>4. comp'[a] = b
      OBVIOUS
    <3>. QED
      BY <1>1, <2>1, <2>2, <2>3, <3>3, <3>4 DEF Whole
  <2>4. CASE a \notin D
    BY <1>1, <2>1, <2>2, <2>4 DEF Whole
  <2>. QED
    BY <2>3, <2>4
<1>2. \A x, y : Same(x, y) => Same(x, y)'
  <2>1. Nodes \in SUBSET Nodes /\ Below(a) \subseteq Nodes
    BY DEF Below
  <2>2. \A C \in SUBSET Nodes : Whole(C, Nodes)' => Whole(C, Nodes)
    BY <1>1, <2>1
  <2>. QED
    BY <2>2, Zenon DEF Same, Tied
<1>3. ASSUME NEW u \in Nodes
      PROVE  \A x, y : Tied(Below(u), x, y) => Tied(Below(u), x, y)'
  <2>1. Below(u) \in SUBSET Nodes /\ (a \in Below(u) => Below(a) \subseteq Below(u))
    <3>1. Below(u) \in SUBSET Nodes
      BY DEF Below
    <3>2. ASSUME NEW n \in Below(a), a \in Below(u)
          PROVE  n \in Below(u)
      <4>1. n \in Nat /\ a \in Nat /\ u \in Nat /\ n \in Nodes
        BY GraphsAssumption DEF Below
      <4>2. n < a /\ a < u
        BY <3>2 DEF Below
      <4>. QED
        BY <4>1, <4>2 DEF Below
    <3>. QED
      BY <3>1, <3>2
  <2>2. \A C \in SUBSET Nodes : Whole(C, Below(u))' => Whole(C, Below(u))
    BY <1>1, <2>1
  <2>3. Below(u)' = Below(u)
    BY DEF Below
  <2>. QED
    BY <2>2, <2>3, Zenon DEF Tied
<1>. QED
  BY <1>2, <1>3
-----------------------------------------------------------------------------
\* What a thread has in hand, field by field.
Fields(h, at, u, todo, p, high, low) ==
    /\ h \in Hands
    /\ h.at = at /\ h.u = u /\ h.todo = todo /\ h.p = p /\ h.high = high /\ h.low = low

Places == {"idle"} \cup Links \cup Shortens

LEMMA HandFields ==
    ASSUME NEW h \in Hands
    PROVE  /\ Fields(h, h.at, h.u, h.todo, h.p, h.high, h.low)
           /\ h.at \in Places /\ h.u \in Int /\ h.todo \in Seq(Nodes)
           /\ h.p \in Int /\ h.high \in Int /\ h.low \in Int
  BY DEF Fields, Hands, Places

LEMMA IdleFields == Fields(Idle, "idle", 0, <<>>, 0, 0, 0)
<1>1. PICK todo : todo = <<>>
  OBVIOUS
<1>2. todo \in Seq(Nodes)
  BY <1>1
<1>3. Idle = [at |-> "idle", u |-> 0, todo |-> todo, p |-> 0, high |-> 0, low |-> 0]
  BY <1>1 DEF Idle
<1>4. Fields(Idle, "idle", 0, todo, 0, 0, 0)
  BY <1>2, <1>3 DEF Fields, Hands
<1>. QED
  BY <1>1, <1>4

\* One field at a time.
LEMMA FieldSet ==
    /\ \A h, k, at, u, todo, p, high, low : \A x \in Places :
       Fields(h, at, u, todo, p, high, low) /\ k = [h EXCEPT !.at = x]
         => Fields(k, x, u, todo, p, high, low)
    /\ \A h, k, at, u, todo, p, high, low : \A x \in Int :
       Fields(h, at, u, todo, p, high, low) /\ k = [h EXCEPT !.u = x]
         => Fields(k, at, x, todo, p, high, low)
    /\ \A h, k, at, u, todo, p, high, low : \A x \in Seq(Nodes) :
       Fields(h, at, u, todo, p, high, low) /\ k = [h EXCEPT !.todo = x]
         => Fields(k, at, u, x, p, high, low)
    /\ \A h, k, at, u, todo, p, high, low : \A x \in Int :
       Fields(h, at, u, todo, p, high, low) /\ k = [h EXCEPT !.p = x]
         => Fields(k, at, u, todo, x, high, low)
    /\ \A h, k, at, u, todo, p, high, low : \A x \in Int :
       Fields(h, at, u, todo, p, high, low) /\ k = [h EXCEPT !.high = x]
         => Fields(k, at, u, todo, p, x, low)
    /\ \A h, k, at, u, todo, p, high, low : \A x \in Int :
       Fields(h, at, u, todo, p, high, low) /\ k = [h EXCEPT !.low = x]
         => Fields(k, at, u, todo, p, high, x)
<1>1. \A h, k, at, u, todo, p, high, low : \A x \in Places :
     Fields(h, at, u, todo, p, high, low) /\ k = [h EXCEPT !.at = x]
       => Fields(k, x, u, todo, p, high, low)
  BY DEF Fields, Hands, Places
<1>2. \A h, k, at, u, todo, p, high, low : \A x \in Int :
     Fields(h, at, u, todo, p, high, low) /\ k = [h EXCEPT !.u = x]
       => Fields(k, at, x, todo, p, high, low)
  BY DEF Fields, Hands, Places
<1>3. \A h, k, at, u, todo, p, high, low : \A x \in Seq(Nodes) :
     Fields(h, at, u, todo, p, high, low) /\ k = [h EXCEPT !.todo = x]
       => Fields(k, at, u, x, p, high, low)
  BY DEF Fields, Hands, Places
<1>4. \A h, k, at, u, todo, p, high, low : \A x \in Int :
     Fields(h, at, u, todo, p, high, low) /\ k = [h EXCEPT !.p = x]
       => Fields(k, at, u, todo, x, high, low)
  BY DEF Fields, Hands, Places
<1>5. \A h, k, at, u, todo, p, high, low : \A x \in Int :
     Fields(h, at, u, todo, p, high, low) /\ k = [h EXCEPT !.high = x]
       => Fields(k, at, u, todo, p, x, low)
  BY DEF Fields, Hands, Places
<1>6. \A h, k, at, u, todo, p, high, low : \A x \in Int :
     Fields(h, at, u, todo, p, high, low) /\ k = [h EXCEPT !.low = x]
       => Fields(k, at, u, todo, p, high, x)
  BY DEF Fields, Hands, Places
<1>. QED
  BY <1>1, <1>2, <1>3, <1>4, <1>5, <1>6, Zenon

LEMMA HandChanges ==
    ASSUME NEW h \in Hands, NEW at \in Places, NEW p \in Int, NEW high \in Int, NEW low \in Int
    PROVE  /\ Fields([h EXCEPT !.at = at], at, h.u, h.todo, h.p, h.high, h.low)
           /\ Fields([h EXCEPT !.at = at, !.p = p], at, h.u, h.todo, p, h.high, h.low)
           /\ Fields([h EXCEPT !.at = at, !.p = p, !.high = high, !.low = low],
                     at, h.u, h.todo, p, high, low)
<1>1. PICK a : a = [h EXCEPT !.at = at]
  OBVIOUS
<1>2. Fields(a, at, h.u, h.todo, h.p, h.high, h.low)
  BY <1>1, HandFields, FieldSet, Zenon
<1>3. PICK b : b = [a EXCEPT !.p = p]
  OBVIOUS
<1>4. Fields(b, at, h.u, h.todo, p, h.high, h.low)
  BY <1>2, <1>3, FieldSet, Zenon
<1>5. PICK c : c = [b EXCEPT !.high = high]
  OBVIOUS
<1>6. Fields(c, at, h.u, h.todo, p, high, h.low)
  BY <1>4, <1>5, FieldSet, Zenon
<1>7. PICK d : d = [c EXCEPT !.low = low]
  OBVIOUS
<1>8. Fields(d, at, h.u, h.todo, p, high, low)
  BY <1>6, <1>7, FieldSet, Zenon
<1>9. b = [h EXCEPT !.at = at, !.p = p]
  BY <1>1, <1>3 DEF Hands
<1>10. d = [h EXCEPT !.at = at, !.p = p, !.high = high, !.low = low]
  BY <1>1, <1>3, <1>5, <1>7 DEF Hands
<1>. QED
  BY <1>1, <1>2, <1>4, <1>8, <1>9, <1>10

LEMMA HandTaken ==
    ASSUME NEW at \in Places, NEW u \in Int, NEW todo \in Seq(Nodes)
    PROVE  /\ Fields([Idle EXCEPT !.at = at, !.u = u], at, u, <<>>, 0, 0, 0)
           /\ Fields([Idle EXCEPT !.at = at, !.u = u, !.todo = todo], at, u, todo, 0, 0, 0)
<1>1. PICK h : h = Idle
  OBVIOUS
<1>2. Fields(h, "idle", 0, <<>>, 0, 0, 0)
  BY <1>1, IdleFields
<1>3. PICK a : a = [h EXCEPT !.at = at]
  OBVIOUS
<1>4. Fields(a, at, 0, <<>>, 0, 0, 0)
  BY <1>2, <1>3, FieldSet, Zenon
<1>5. PICK b : b = [a EXCEPT !.u = u]
  OBVIOUS
<1>6. Fields(b, at, u, <<>>, 0, 0, 0)
  BY <1>4, <1>5, FieldSet, Zenon
<1>7. PICK c : c = [b EXCEPT !.todo = todo]
  OBVIOUS
<1>8. Fields(c, at, u, todo, 0, 0, 0)
  BY <1>6, <1>7, FieldSet, Zenon
<1>9. h \in Hands
  BY <1>2 DEF Fields
<1>10. b = [h EXCEPT !.at = at, !.u = u]
  BY <1>3, <1>5, <1>9 DEF Hands
<1>11. c = [h EXCEPT !.at = at, !.u = u, !.todo = todo]
  BY <1>3, <1>5, <1>7, <1>9 DEF Hands
<1>. QED
  BY <1>1, <1>6, <1>8, <1>10, <1>11

\* The first neighbour of a list and the others.
LEMMA TodoSplits ==
    ASSUME NEW todo \in Seq(Nodes), todo # <<>>
    PROVE  /\ Len(todo) \in Nat /\ Len(todo) >= 1 /\ 1 \in 1 .. Len(todo)
           /\ Head(todo) = todo[1] /\ Head(todo) \in Nodes
           /\ Len(todo) # 1 => /\ Tail(todo) \in Seq(Nodes) /\ Tail(todo) # <<>>
                               /\ Len(Tail(todo)) = Len(todo) - 1
                               /\ \A i \in 1 .. Len(Tail(todo)) : Tail(todo)[i] = todo[i + 1]
           /\ \A v \in ToSet(todo) : \/ v = Head(todo)
                                     \/ Len(todo) # 1 /\ v \in ToSet(Tail(todo))
           /\ Len(todo) = 1 => ToSet(todo) = {Head(todo)}
<1>1. Len(todo) \in Nat /\ Len(todo) >= 1 /\ 1 \in 1 .. Len(todo)
  OBVIOUS
<1>2. Head(todo) = todo[1] /\ Head(todo) \in Nodes
  BY <1>1
<1>3. Len(todo) # 1 => /\ Tail(todo) \in Seq(Nodes) /\ Tail(todo) # <<>>
                       /\ Len(Tail(todo)) = Len(todo) - 1
                       /\ \A i \in 1 .. Len(Tail(todo)) : Tail(todo)[i] = todo[i + 1]
  <2> SUFFICES ASSUME Len(todo) # 1
               PROVE  /\ Tail(todo) \in Seq(Nodes) /\ Tail(todo) # <<>>
                      /\ Len(Tail(todo)) = Len(todo) - 1
                      /\ \A i \in 1 .. Len(Tail(todo)) : Tail(todo)[i] = todo[i + 1]
    OBVIOUS
  <2>1. Tail(todo) \in Seq(Nodes) /\ Len(Tail(todo)) = Len(todo) - 1
    BY <1>1
  <2>2. Tail(todo) # <<>>
    BY <1>1, <2>1
  <2>3. \A i \in 1 .. Len(Tail(todo)) : Tail(todo)[i] = todo[i + 1]
    BY <1>1, <2>1
  <2>. QED
    BY <2>1, <2>2, <2>3
<1>4. ASSUME NEW v \in ToSet(todo)
      PROVE  v = Head(todo) \/ (Len(todo) # 1 /\ v \in ToSet(Tail(todo)))
  <2>1. PICK i \in 1 .. Len(todo) : v = todo[i]
    BY <1>4 DEF ToSet
  <2>2. CASE i = 1
    BY <1>2, <2>1, <2>2
  <2>3. CASE i # 1
    <3>1. Len(todo) # 1 /\ i - 1 \in 1 .. Len(Tail(todo)) /\ Tail(todo)[i - 1] = v
      BY <1>1, <1>3, <2>1, <2>3
    <3>2. DOMAIN Tail(todo) = 1 .. Len(Tail(todo))
      BY <1>3, <3>1
    <3>. QED
      BY <3>1, <3>2 DEF ToSet
  <2>. QED
    BY <2>2, <2>3
<1>5. Len(todo) = 1 => ToSet(todo) = {Head(todo)}
  BY <1>1, <1>2 DEF ToSet
<1>. QED
  BY <1>1, <1>2, <1>3, <1>4, <1>5

\* Through with an edge: the next one, or nothing.
LEMMA NextEdgeFits ==
    ASSUME NEW h \in Hands, Placed(h), h.at \in Links
    PROVE  /\ NextEdge(h) \in Hands /\ Placed(NextEdge(h))
           /\ NextEdge(h).at \in {"idle", "first"}
           /\ NextEdge(h).at # "idle" => NextEdge(h).u = h.u
           /\ \A v \in ToSet(h.todo) : \/ v = Head(h.todo)
                                       \/ /\ NextEdge(h).at # "idle"
                                          /\ v \in ToSet(NextEdge(h).todo)
<1>1. h.todo \in Seq(Nodes) /\ h.todo # <<>> /\ h.u \in Int /\ h.u \in Nodes /\ h.at # "idle"
  BY HandFields DEF Placed, Links
<1>2. CASE Len(h.todo) = 1
  <2>1. NextEdge(h) = Idle
    BY <1>2 DEF NextEdge
  <2>2. Idle \in Hands /\ Idle.at = "idle"
    BY IdleFields DEF Fields
  <2>3. Placed(Idle)
    BY <2>2 DEF Placed, Links, Climbs, Shortens
  <2>4. ToSet(h.todo) = {Head(h.todo)}
    BY <1>1, <1>2, TodoSplits
  <2>. QED
    BY <2>1, <2>2, <2>3, <2>4
<1>3. CASE Len(h.todo) # 1
  <2> DEFINE n == NextEdge(h)
  <2>1. n = [Idle EXCEPT !.at = "first", !.u = h.u, !.todo = Tail(h.todo)]
    BY <1>3 DEF NextEdge
  <2>2. Tail(h.todo) \in Seq(Nodes) /\ "first" \in Places
    BY <1>1, <1>3, TodoSplits DEF Places, Links
  <2>9. Fields([Idle EXCEPT !.at = "first", !.u = h.u, !.todo = Tail(h.todo)],
               "first", h.u, Tail(h.todo), 0, 0, 0)
    BY <1>1, <2>2, HandTaken
  <2>3. Fields(n, "first", h.u, Tail(h.todo), 0, 0, 0)
    BY <2>1, <2>9
  <2>4. n \in Hands /\ n.at = "first" /\ n.u = h.u /\ n.todo = Tail(h.todo)
    BY <2>3 DEF Fields
  <2>5. \A i \in 1 .. Len(Tail(h.todo)) : Together(h.u, Tail(h.todo)[i])
    <3>1. \A i \in 1 .. Len(h.todo) : Together(h.u, h.todo[i])
      BY DEF Placed
    <3>2. /\ Len(h.todo) \in Nat /\ Len(Tail(h.todo)) = Len(h.todo) - 1
          /\ \A i \in 1 .. Len(Tail(h.todo)) : Tail(h.todo)[i] = h.todo[i + 1]
      BY <1>1, <1>3, TodoSplits
    <3>3. \A i \in 1 .. Len(Tail(h.todo)) : i + 1 \in 1 .. Len(h.todo)
      BY <3>2
    <3>. QED
      BY <3>1, <3>2, <3>3
  <2>6. Linking /\ Tail(h.todo) # <<>>
    BY <1>1, <1>3, TodoSplits DEF Placed
  <2>7. Placed(n)
    BY <1>1, <2>4, <2>5, <2>6 DEF Placed, Links, Climbs, Shortens
  <2>8. \A v \in ToSet(h.todo) : v = Head(h.todo) \/ v \in ToSet(n.todo)
    BY <1>1, <2>4, TodoSplits
  <2>. QED
    BY <2>4, <2>7, <2>8
<1>. QED
  BY <1>2, <1>3

\* At the start of an edge nothing has been read.
LEMMA FreshFits ==
    \A h : h.at \in {"idle", "first"} => Read(h) /\ Climbing(h) /\ Hooking(h)
  BY DEF Read, Climbing, Hooking, Climbs
\* What the graph says of the lists.
LEMMA GraphLists ==
    ASSUME ComponentTypes, NEW u \in Nodes
    PROVE  /\ net.out[u] \in Seq(Nodes) /\ net.in[u] \in Seq(Nodes)
           /\ Len(net.out[u]) \in Nat /\ DOMAIN net.out[u] = 1 .. Len(net.out[u])
           /\ ToSet(net.out[u]) \subseteq Nodes
           /\ ToSet(net.in[u]) = {v \in Nodes : u \in ToSet(net.out[v])}
           /\ ~net.directed => ToSet(net.in[u]) = ToSet(net.out[u])
           /\ net.directed \in BOOLEAN
<1>1. Built(net)
  BY GraphsAssumption DEF ComponentTypes
<1>2. net.out[u] \in Seq(Nodes) /\ net.in[u] \in Seq(Nodes)
  BY <1>1 DEF Built
<1>3. ToSet(net.in[u]) = {v \in Nodes : u \in ToSet(net.out[v])}
  BY <1>1 DEF Built
<1>4. Len(net.out[u]) \in Nat /\ DOMAIN net.out[u] = 1 .. Len(net.out[u])
      /\ \A i \in DOMAIN net.out[u] : net.out[u][i] \in Nodes
  BY <1>2
<1>5. ToSet(net.out[u]) \subseteq Nodes
  BY <1>4 DEF ToSet
<1>. QED
  BY <1>1, <1>2, <1>3, <1>4, <1>5 DEF Built

LEMMA TwoLists ==
    ASSUME NEW r \in Seq(Nodes), NEW s \in Seq(Nodes)
    PROVE  r \o s \in Seq(Nodes) /\ ToSet(r \o s) = ToSet(r) \cup ToSet(s)
<1>1. /\ Len(r) \in Nat /\ Len(s) \in Nat
      /\ DOMAIN r = 1 .. Len(r) /\ DOMAIN s = 1 .. Len(s)
  OBVIOUS
<1>2. /\ r \o s \in Seq(Nodes) /\ DOMAIN (r \o s) = 1 .. Len(r) + Len(s)
      /\ \A k \in 1 .. Len(r) + Len(s) : (r \o s)[k] = IF k <= Len(r) THEN r[k] ELSE s[k - Len(r)]
  OBVIOUS
<1>3. ASSUME NEW v \in ToSet(r \o s)
      PROVE  v \in ToSet(r) \cup ToSet(s)
  <2>1. PICK k \in 1 .. Len(r) + Len(s) : v = (r \o s)[k]
    BY <1>2, <1>3 DEF ToSet
  <2>2. CASE k <= Len(r)
    BY <1>1, <1>2, <2>1, <2>2 DEF ToSet
  <2>3. CASE ~(k <= Len(r))
    <3>1. k - Len(r) \in 1 .. Len(s) /\ v = s[k - Len(r)]
      BY <1>1, <1>2, <2>1, <2>3
    <3>. QED
      BY <1>1, <3>1 DEF ToSet
  <2>. QED
    BY <2>2, <2>3
<1>4. ASSUME NEW v \in ToSet(r)
      PROVE  v \in ToSet(r \o s)
  <2>1. PICK k \in 1 .. Len(r) : v = r[k]
    BY <1>1, <1>4 DEF ToSet
  <2>2. k \in 1 .. Len(r) + Len(s) /\ v = (r \o s)[k]
    BY <1>1, <1>2, <2>1
  <2>. QED
    BY <1>2, <2>2 DEF ToSet
<1>5. ASSUME NEW v \in ToSet(s)
      PROVE  v \in ToSet(r \o s)
  <2>1. PICK k \in 1 .. Len(s) : v = s[k]
    BY <1>1, <1>5 DEF ToSet
  <2>2. Len(r) + k \in 1 .. Len(r) + Len(s) /\ ~(Len(r) + k <= Len(r)) /\ (Len(r) + k) - Len(r) = k
    BY <1>1
  <2>3. v = (r \o s)[Len(r) + k]
    BY <1>2, <2>1, <2>2
  <2>. QED
    BY <1>2, <2>2, <2>3 DEF ToSet
<1>. QED
  BY <1>2, <1>3, <1>4, <1>5

LEMMA ListBehind ==
    ASSUME NEW s \in Seq(Nodes), NEW k \in Nat
    PROVE  /\ SubSeq(s, k + 1, Len(s)) \in Seq(Nodes)
           /\ ToSet(SubSeq(s, k + 1, Len(s))) \subseteq ToSet(s)
           /\ \A j \in DOMAIN s : j > k => s[j] \in ToSet(SubSeq(s, k + 1, Len(s)))
<1>1. PICK n \in Nat : n = Len(s) /\ DOMAIN s = 1 .. n
  OBVIOUS
<1>2. PICK r : r = SubSeq(s, k + 1, n)
  OBVIOUS
<1>3. CASE k < n
  <2>1. r \in Seq(Nodes) /\ Len(r) = n - k
    BY <1>1, <1>2, <1>3
  <2>2. \A i \in 1 .. n - k : r[i] = s[k + i]
    BY <1>1, <1>2, <1>3
  <2>3. DOMAIN r = 1 .. n - k
    BY <1>1, <1>3, <2>1
  <2>4. \A i \in 1 .. n - k : k + i \in 1 .. n
    BY <1>1, <1>3
  <2>5. ToSet(r) \subseteq ToSet(s)
    BY <1>1, <2>2, <2>3, <2>4 DEF ToSet
  <2>6. ASSUME NEW j \in 1 .. n, j > k
        PROVE  s[j] \in ToSet(r)
    <3>1. j - k \in 1 .. n - k /\ k + (j - k) = j
      BY <1>1, <2>6
    <3>2. r[j - k] = s[j]
      BY <2>2, <3>1
    <3>. QED
      BY <2>3, <3>1, <3>2 DEF ToSet
  <2>. QED
    BY <1>1, <1>2, <2>1, <2>5, <2>6
<1>4. CASE ~(k < n)
  <2>1. r = <<>>
    BY <1>1, <1>2, <1>4
  <2>2. ToSet(r) = {} /\ r \in Seq(Nodes)
    BY <2>1 DEF ToSet
  <2>. QED
    BY <1>1, <1>2, <1>4, <2>2
<1>. QED
  BY <1>3, <1>4

\* The rest of a node's edges: those behind the sampled ones, and the
\* incoming ones of a directed graph.
LEMMA RestNodes ==
    ASSUME ComponentTypes, NEW u \in Nodes
    PROVE  /\ Rest(u) \in Seq(Nodes)
           /\ \A v \in ToSet(Rest(u)) : v \in Nodes /\ Together(u, v)
           /\ \A i \in DOMAIN net.out[u] : i > NeighborRounds => net.out[u][i] \in ToSet(Rest(u))
           /\ net.directed => \A v \in Nodes : u \in ToSet(net.out[v]) => v \in ToSet(Rest(u))
<1> DEFINE behind == SubSeq(net.out[u], NeighborRounds + 1, Len(net.out[u]))
           incoming == IF net.directed THEN net.in[u] ELSE <<>>
<1>1. /\ behind \in Seq(Nodes) /\ ToSet(behind) \subseteq ToSet(net.out[u])
      /\ \A i \in DOMAIN net.out[u] : i > NeighborRounds => net.out[u][i] \in ToSet(behind)
  BY RoundsAssumption, GraphLists, ListBehind
<1>2. /\ incoming \in Seq(Nodes)
      /\ ToSet(incoming) = IF net.directed THEN ToSet(net.in[u]) ELSE {}
  BY GraphLists DEF ToSet
<1>3. Rest(u) = behind \o incoming
  BY DEF Rest, InNeighbours
<1>4. Rest(u) \in Seq(Nodes) /\ ToSet(Rest(u)) = ToSet(behind) \cup ToSet(incoming)
  <2> HIDE DEF behind, incoming
  <2>. QED
    BY <1>1, <1>2, <1>3, TwoLists
<1> HIDE DEF behind, incoming
<1>5. ASSUME NEW v \in ToSet(Rest(u))
      PROVE  v \in Nodes /\ Together(u, v)
  <2>1. v \in Nodes /\ (v \in ToSet(net.out[u]) \/ u \in ToSet(net.out[v]))
    BY <1>1, <1>2, <1>4, <1>5, GraphLists
  <2>. QED
    BY <2>1, EdgeTogether
<1>6. ASSUME NEW v \in Nodes, net.directed, u \in ToSet(net.out[v])
      PROVE  v \in ToSet(Rest(u))
  BY <1>2, <1>4, <1>6, GraphLists
<1>. QED
  BY <1>1, <1>4, <1>5, <1>6

LEMMA DueNodes ==
    ASSUME ComponentTypes, NEW u \in Nodes, NEW v \in Due(u)
    PROVE  v \in Nodes /\ Together(u, v)
<1>1. CASE stage.loop = "link"
  <2>1. v \in ToSet(Rest(u))
    BY <1>1 DEF Due
  <2>. QED
    BY <2>1, RestNodes
<1>2. CASE stage.loop # "link"
  <2>1. v \in ToSet(net.out[u])
    BY <1>2 DEF Due, ToSet
  <2>2. v \in Nodes
    BY <2>1, GraphLists
  <2>. QED
    BY <2>1, <2>2, EdgeTogether
<1>. QED
  BY <1>1, <1>2
-----------------------------------------------------------------------------
\* The edge is done with: its ends are in one tree, or have one label.
Met(u, v) ==
    /\ kernel = "afforest" => Same(u, v)
    /\ kernel = "sv" /\ ~change => comp[u] = comp[v]

LEMMA ConstantsKept ==
    ASSUME UNCHANGED <<kernel, net, ahead, stage>>
    PROVE  /\ \A x, y : Together(x, y) <=> Together(x, y)'
           /\ Linking' = Linking /\ Compressing' = Compressing
           /\ \A h : Placed(h) => Placed(h)'
           /\ \A u : Due(u)' = Due(u) /\ Rest(u)' = Rest(u)
<1>1. \A x, y : Together(x, y) <=> Together(x, y)'
  BY DEF Together
<1>2. Linking' = Linking /\ Compressing' = Compressing
  BY DEF Linking, Compressing
<1>3. \A h : Placed(h) => Placed(h)'
  BY <1>1, <1>2 DEF Placed
<1>4. \A u : Rest(u)' = Rest(u)
  BY DEF Rest
<1>5. \A u : Due(u)' = Due(u)
  BY <1>4 DEF Due
<1>. QED
  BY <1>1, <1>2, <1>3, <1>4, <1>5

\* A step of a thread that has a node: what it must do for the invariant.
LEMMA HandStep ==
    ASSUME ComponentInv, NEW t \in Threads, NEW h \in Hands, hand[t].at # "idle",
           NEW u, hand[t].u = u,
           hand' = [hand EXCEPT ![t] = h],
           UNCHANGED <<kernel, net, ahead, stage, skipped>>,
           comp' \in [Nodes -> Nodes], change' \in BOOLEAN,
           \A s \in Threads : HandFits(hand[s])',
           h.at # "idle" => h.u = u,
           Descending',
           kernel = "afforest" => \A x, y \in Nodes : Same(x, y) => Same(x, y)',
           kernel = "sv" /\ ~change' => ~change /\ comp' = comp,
           Compressing => \A n \in Nodes : n # u /\ Settled(n) => Settled(n)',
           Compressing /\ h.at = "idle" => Settled(u)',
           Linking => \A v \in ToSet(hand[t].todo) : \/ h.at # "idle" /\ v \in ToSet(h.todo)
                                                     \/ Met(u, v)'
    PROVE  ComponentInv'
<1>1. hand'[t] = h /\ \A s \in Threads : s # t => hand'[s] = hand[s]
  BY DEF ComponentInv, ComponentTypes
<1>2. u \in Nodes /\ Keeps(t, u) /\ u \notin ahead /\ (Linking \/ Compressing)
  BY DEF ComponentInv, ComponentTypes, HandsFit, HandFits, Placed, Keeps, Hands
<1>3. ComponentTypes'
  BY DEF ComponentInv, ComponentTypes
<1>4. \A s \in Threads, x \in Nodes : Keeps(s, x)' => Keeps(s, x)
  BY <1>1 DEF Keeps
<1>5. \A s \in Threads, x \in Nodes : s # t => (Keeps(s, x)' <=> Keeps(s, x))
  BY <1>1 DEF Keeps
<1>6. HandsFit'
  <2>1. \A s \in Threads, x \in Nodes : Keeps(s, x)' => x \notin ahead'
    BY <1>4 DEF ComponentInv, HandsFit
  <2>2. \A s, r \in Threads, x \in Nodes : Keeps(s, x)' /\ Keeps(r, x)' => s = r
    BY <1>4 DEF ComponentInv, HandsFit
  <2>. QED
    BY <2>1, <2>2 DEF HandsFit
<1>7. Compressed'
  <2>1. ASSUME NEW n \in Nodes \ ahead', Compressing', \A s \in Threads : ~Keeps(s, n)'
        PROVE  Settled(n)'
    <3>1. Compressing
      BY <2>1, ConstantsKept
    <3>2. CASE n = u
      <4>1. h.at = "idle"
        BY <1>1, <2>1, <3>2 DEF Keeps
      <4>. QED
        BY <3>1, <3>2, <4>1
    <3>3. CASE n # u
      <4>1. ~Keeps(t, n)
        BY <3>3 DEF Keeps
      <4>2. \A s \in Threads : ~Keeps(s, n)
        BY <1>5, <2>1, <4>1
      <4>3. Settled(n)
        BY <2>1, <3>1, <4>2 DEF ComponentInv, Compressed
      <4>. QED
        BY <3>1, <3>3, <4>3
    <3>. QED
      BY <3>2, <3>3
  <2>2. stage'.loop # "end"
    BY <1>2 DEF Linking, Compressing
  <2>. QED
    BY <2>1, <2>2 DEF Compressed
<1>8. Loops'
  BY DEF ComponentInv, Loops
<1>9. ASSUME NEW x \in Nodes, NEW v, Pending(x, v), Linking
      PROVE  Pending(x, v)' \/ Met(x, v)'
  <2>1. PICK s \in Threads : Keeps(s, x) /\ v \in ToSet(hand[s].todo)
    BY <1>9 DEF Pending
  <2>2. CASE s # t
    <3>1. Keeps(s, x)' /\ hand'[s] = hand[s]
      BY <1>1, <1>5, <2>1, <2>2
    <3>. QED
      BY <2>1, <3>1 DEF Pending
  <2>3. CASE s = t
    <3>1. x = u
      BY <2>1, <2>3 DEF Keeps
    <3>2. CASE h.at # "idle" /\ v \in ToSet(h.todo)
      BY <1>1, <3>1, <3>2 DEF Pending, Keeps
    <3>3. CASE Met(u, v)'
      BY <3>1, <3>3
    <3>. QED
      BY <1>9, <2>1, <2>3, <3>2, <3>3
  <2>. QED
    BY <2>2, <2>3
<1>10. AfforestLinks'
  <2> SUFFICES ASSUME kernel = "afforest"
               PROVE  /\ Sampled'
                      /\ stage.loop \in {"sample", "link"} => Linked'
                      /\ stage.loop \in {"final", "end"} => AllLinked'
    BY DEF AfforestLinks
  <2>1. /\ Sampled /\ (stage.loop \in {"sample", "link"} => Linked)
        /\ stage.loop \in {"final", "end"} => AllLinked
    BY DEF ComponentInv, AfforestLinks
  <2>2. Built(net)
    BY GraphsAssumption DEF ComponentInv, ComponentTypes
  <2>3. \A x \in Nodes : /\ net.out[x] \in Seq(Nodes) /\ net.in[x] \in Seq(Nodes)
    BY <2>2 DEF Built
  <2>4. Sampled'
    <3>1. \A x \in Nodes : \A i \in DOMAIN net.out[x] : net.out[x][i] \in Nodes
      BY <2>3
    <3>. QED
      BY <2>1, <3>1 DEF Sampled
  <2>5. ASSUME stage.loop \in {"sample", "link"}
        PROVE  Linked'
    <3>1. ASSUME NEW x \in Nodes \ ahead', ~(stage'.loop = "link" /\ Same(x, skipped)'),
                 NEW v \in Due(x)'
          PROVE  Same(x, v)' \/ Pending(x, v)'
      <4>1. v \in Due(x) /\ v \in Nodes
        <5>1. v \in Due(x)
          BY ConstantsKept, <3>1
        <5>. QED
          BY <5>1, DueNodes DEF ComponentInv
      <4>2. ~(stage.loop = "link" /\ Same(x, skipped))
        BY <3>1 DEF ComponentInv, Loops
      <4>3. Same(x, v) \/ Pending(x, v)
        BY <2>1, <2>5, <3>1, <4>1, <4>2 DEF Linked
      <4>4. Pending(x, v) => Pending(x, v)' \/ Same(x, v)'
        BY <1>9, <2>5 DEF Linking, Met
      <4>. QED
        BY <4>1, <4>3, <4>4
    <3>. QED
      BY <3>1, Zenon DEF Linked
  <2>6. ASSUME stage.loop \in {"final", "end"}
        PROVE  AllLinked'
    <3>1. skipped \in Nodes
      BY <2>6 DEF ComponentInv, Loops
    <3>2. \A x \in Nodes : \A v \in ToSet(Rest(x)) : v \in Nodes
      BY RestNodes DEF ComponentInv
    <3>3. \A x \in Nodes : Rest(x)' = Rest(x)
      BY ConstantsKept
    <3>. QED
      BY <2>1, <2>6, <3>1, <3>2, <3>3 DEF AllLinked
  <2>. QED
    BY <2>4, <2>5, <2>6
<1>11. Hooked'
  <2> SUFFICES ASSUME kernel = "sv"
               PROVE  Hooked'
    BY DEF Hooked
  <2>1. stage.loop # "end" /\ stage'.loop # "end"
    BY <1>2 DEF Linking, Compressing
  <2> SUFFICES ASSUME ~change'
               PROVE  Hooked'
    BY <2>1 DEF Hooked
  <2>2. ~change /\ comp' = comp
    OBVIOUS
  <2>3. /\ \A n \in Nodes : Settled(n)
        /\ \A x \in Nodes \ ahead : \A v \in Due(x) : comp[x] = comp[v] \/ Pending(x, v)
        /\ stage.loop # "hook" =>
              \A x \in Nodes : \A v \in ToSet(net.out[x]) : comp[x] = comp[v]
    BY <2>2 DEF ComponentInv, Hooked
  <2>4. ASSUME NEW x \in Nodes \ ahead', NEW v \in Due(x)'
        PROVE  comp'[x] = comp'[v] \/ Pending(x, v)'
    <3>1. v \in Due(x)
      BY <2>4, ConstantsKept
    <3>2. CASE stage.loop = "hook"
      BY <1>9, <2>2, <2>3, <2>4, <3>1, <3>2 DEF Linking, Met
    <3>3. CASE stage.loop # "hook"
      <4>1. Due(x) = {}
        BY <3>3 DEF Due, ComponentInv, Loops
      <4>. QED
        BY <3>1, <4>1
    <3>. QED
      BY <3>2, <3>3
  <2>5. \A n \in Nodes : Settled(n)'
    BY <2>2, <2>3 DEF Settled
  <2>. QED
    BY <2>1, <2>2, <2>3, <2>4, <2>5 DEF Hooked
<1>. QED
  BY <1>3, <1>6, <1>7, <1>8, <1>10, <1>11 DEF ComponentInv
-----------------------------------------------------------------------------
\* What is known of a thread that has a node.
LEMMA InHand ==
    ASSUME ComponentInv, NEW t \in Threads, hand[t].at # "idle"
    PROVE  /\ hand[t] \in Hands /\ HandFits(hand[t])
           /\ hand[t].u \in Nodes /\ comp[hand[t].u] \in Nodes
           /\ hand[t].at \in Places /\ hand[t].todo \in Seq(Nodes)
           /\ hand[t].at \in Links => /\ hand[t].todo # <<>> /\ Head(hand[t].todo) \in Nodes
                                      /\ Together(hand[t].u, Head(hand[t].todo))
                                      /\ \A v \in ToSet(hand[t].todo) : v \in Nodes
<1>1. hand[t] \in Hands /\ HandFits(hand[t])
  BY DEF ComponentInv, ComponentTypes, HandsFit
<1>2. hand[t].u \in Nodes
  BY <1>1 DEF HandFits, Placed
<1>3. comp[hand[t].u] \in Nodes
  BY <1>2 DEF ComponentInv, ComponentTypes
<1>4. hand[t].at \in Places /\ hand[t].todo \in Seq(Nodes)
  BY <1>1, HandFields
<1>5. ASSUME hand[t].at \in Links
      PROVE  /\ hand[t].todo # <<>> /\ Head(hand[t].todo) \in Nodes
             /\ Together(hand[t].u, Head(hand[t].todo))
             /\ \A v \in ToSet(hand[t].todo) : v \in Nodes
  <2>1. /\ hand[t].todo # <<>>
        /\ \A i \in 1 .. Len(hand[t].todo) : Together(hand[t].u, hand[t].todo[i])
    BY <1>1, <1>5 DEF HandFits, Placed
  <2>2. /\ 1 \in 1 .. Len(hand[t].todo) /\ Head(hand[t].todo) = hand[t].todo[1]
        /\ Head(hand[t].todo) \in Nodes
    BY <1>4, <2>1, TodoSplits
  <2>3. \A v \in ToSet(hand[t].todo) : v \in Nodes
    BY <1>4 DEF ToSet
  <2>. QED
    BY <2>1, <2>2, <2>3
<1>. QED
  BY <1>1, <1>2, <1>3, <1>4, <1>5

LEMMA LabelNumbers ==
    ASSUME ComponentInv
    PROVE  /\ Nodes \subseteq Nat /\ Nodes \subseteq Int
           /\ \A n \in Nodes : /\ comp[n] \in Nodes /\ comp[n] <= n
                               /\ Together(n, comp[n]) /\ Same(n, comp[n])
  BY GraphsAssumption, SameLabel DEF ComponentInv, ComponentTypes, Descending

\* A thread that only reads.
LEMMA ReadStep ==
    ASSUME ComponentInv, NEW t \in Threads, NEW h \in Hands, hand[t].at # "idle",
           Reads(t, hand[t].at, h), HandFits(h),
           h.at # "idle" => h.u = hand[t].u,
           Compressing /\ h.at = "idle" => Settled(hand[t].u),
           Linking => \A v \in ToSet(hand[t].todo) : \/ h.at # "idle" /\ v \in ToSet(h.todo)
                                                     \/ Met(hand[t].u, v)
    PROVE  ComponentInv'
<1>1. PICK u : u = hand[t].u
  OBVIOUS
<1>2. /\ hand' = [hand EXCEPT ![t] = h]
      /\ UNCHANGED <<kernel, net, comp, ahead, stage, skipped, change>>
  BY DEF Reads
<1>3. /\ \A D, x, y : Tied(D, x, y) <=> Tied(D, x, y)'
      /\ \A x, y : Same(x, y) <=> Same(x, y)'
      /\ \A x : Settled(x) <=> Settled(x)'
      /\ \A x, y : Met(x, y) <=> Met(x, y)'
  <2>1. \A D, x, y : Tied(D, x, y) <=> Tied(D, x, y)'
    BY <1>2 DEF Tied, Whole
  <2>2. \A x, y : Same(x, y) <=> Same(x, y)'
    BY <2>1 DEF Same
  <2>. QED
    BY <1>2, <2>1, <2>2 DEF Settled, Met
<1>4. \A k : HandFits(k) => HandFits(k)'
  <2>1. /\ \A x, y : Together(x, y) <=> Together(x, y)'
        /\ \A k : Placed(k) => Placed(k)'
    BY <1>2, ConstantsKept
  <2>2. \A k : Read(k) => Read(k)'
    BY <1>2, <1>3, <2>1 DEF Read, Below
  <2>3. \A k : Climbing(k) => Climbing(k)'
    BY <1>2, <1>3 DEF Climbing
  <2>4. \A k : Hooking(k) => Hooking(k)'
    BY <1>2 DEF Hooking
  <2>. QED
    BY <2>1, <2>2, <2>3, <2>4 DEF HandFits
<1>5. \A s \in Threads : HandFits(hand[s])'
  <2>1. \A s \in Threads : hand'[s] = IF s = t THEN h ELSE hand[s]
    BY <1>2 DEF ComponentInv, ComponentTypes
  <2>2. \A s \in Threads : HandFits(hand[s])
    BY DEF ComponentInv, HandsFit
  <2>3. \A s \in Threads : \A k : k = hand'[s] => HandFits(k)'
    BY <1>4, <2>1, <2>2
  <2>. QED
    BY <2>3
<1>6. Descending'
  <2>1. Descending /\ \A x, y : Together(x, y) <=> Together(x, y)'
    BY <1>2, ConstantsKept DEF ComponentInv
  <2>. QED
    BY <1>2, <2>1 DEF Descending
<1>7. comp' \in [Nodes -> Nodes] /\ change' \in BOOLEAN
  BY <1>2 DEF ComponentInv, ComponentTypes
<1>8. Linking => \A v \in ToSet(hand[t].todo) : \/ h.at # "idle" /\ v \in ToSet(h.todo)
                                                \/ Met(u, v)'
  BY <1>1, <1>3
<1>. QED
  BY <1>1, <1>2, <1>3, <1>5, <1>6, <1>7, <1>8, HandStep

\* Two different labels: the higher and the lower one.
LEMMA HigherLower ==
    ASSUME NEW p \in Int, NEW q \in Int, p # q
    PROVE  \/ Max({p, q}) = p /\ Min({p, q}) = q /\ q < p
           \/ Max({p, q}) = q /\ Min({p, q}) = p /\ p < q
<1>1. CASE q < p
  <2>1. /\ \A x \in {p, q} : (\A y \in {p, q} : x >= y) => x = p
        /\ \A y \in {p, q} : p >= y
    BY <1>1
  <2>2. /\ \A x \in {p, q} : (\A y \in {p, q} : x =< y) => x = q
        /\ \A y \in {p, q} : q =< y
    BY <1>1
  <2>. QED
    BY <1>1, <2>1, <2>2 DEF Max, Min
<1>2. CASE p < q
  <2>1. /\ \A x \in {p, q} : (\A y \in {p, q} : x >= y) => x = q
        /\ \A y \in {p, q} : q >= y
    BY <1>2
  <2>2. /\ \A x \in {p, q} : (\A y \in {p, q} : x =< y) => x = p
        /\ \A y \in {p, q} : p =< y
    BY <1>2
  <2>. QED
    BY <1>2, <2>1, <2>2 DEF Max, Min
<1>. QED
  BY <1>1, <1>2

LEMMA ComparedFits ==
    ASSUME ComponentInv, NEW h \in Hands, Placed(h), h.at \in Links,
           NEW p \in Nodes, NEW q \in Nodes, Together(h.u, p), Together(h.u, q),
           kernel = "afforest" => \/ Same(h.u, p) /\ Same(Head(h.todo), q)
                                  \/ Same(h.u, q) /\ Same(Head(h.todo), p),
           kernel = "sv" /\ ~change => /\ comp[p] = p /\ comp[q] = q
                                       /\ p = comp[h.u] /\ q = comp[Head(h.todo)]
    PROVE  /\ Compared(h, p, q) \in Hands /\ HandFits(Compared(h, p, q))
           /\ Compared(h, p, q).at # "idle" => Compared(h, p, q).u = h.u
           /\ \A v \in ToSet(h.todo) : \/ /\ Compared(h, p, q).at # "idle"
                                          /\ v \in ToSet(Compared(h, p, q).todo)
                                       \/ Met(h.u, v)
<1>1. p \in Int /\ q \in Int /\ h.u \in Nodes /\ h.at # "idle"
  BY LabelNumbers DEF Placed, Links
<1>2. CASE p = q
  <2>1. PICK n : n = NextEdge(h)
    OBVIOUS
  <2>2. Compared(h, p, q) = n
    BY <1>2, <2>1 DEF Compared
  <2>3. /\ n \in Hands /\ Placed(n) /\ n.at \in {"idle", "first"}
        /\ n.at # "idle" => n.u = h.u
        /\ \A v \in ToSet(h.todo) : v = Head(h.todo) \/ (n.at # "idle" /\ v \in ToSet(n.todo))
    BY <2>1, NextEdgeFits
  <2>4. HandFits(n)
    BY <2>3, FreshFits DEF HandFits
  <2>5. Met(h.u, Head(h.todo))
    <3>1. kernel = "afforest" => Same(h.u, Head(h.todo))
      BY <1>2, SameLaws
    <3>. QED
      BY <1>2, <3>1 DEF Met
  <2>. QED
    BY <2>2, <2>3, <2>4, <2>5
<1>3. CASE p # q
  <2>1. PICK high, low : /\ high = Max({p, q}) /\ low = Min({p, q}) /\ low < high
                         /\ {high, low} = {p, q}
    BY <1>1, <1>3, HigherLower
  <2>2. high \in Nodes /\ low \in Nodes /\ high \in Int /\ low \in Int
    BY <1>1, <2>1
  <2>3. PICK at : at = IF kernel = "sv" THEN "root" ELSE "high"
    OBVIOUS
  <2>4. PICK n : n = Compared(h, p, q)
    OBVIOUS
  <2>5. n = [h EXCEPT !.at = at, !.p = 0, !.high = high, !.low = low]
    BY <1>3, <2>1, <2>3, <2>4 DEF Compared
  <2>6. at \in Places /\ at \in {"root", "high"}
    BY <2>3 DEF Places, Links
  <2>7. Fields(n, at, h.u, h.todo, 0, high, low)
    <3>1. Fields([h EXCEPT !.at = at, !.p = 0, !.high = high, !.low = low],
                 at, h.u, h.todo, 0, high, low)
      <4>1. 0 \in Int
        OBVIOUS
      <4>. QED
        BY <2>2, <2>6, <4>1, HandChanges, Zenon
    <3>. QED
      BY <2>5, <3>1
  <2>8. n \in Hands /\ n.at = at /\ n.u = h.u /\ n.todo = h.todo /\ n.high = high /\ n.low = low
    BY <2>7 DEF Fields
  <2>9. Placed(n)
    <3>1. kernel \in {"afforest", "sv"}
      BY DEF ComponentInv, ComponentTypes
    <3>. QED
      BY <1>1, <2>3, <2>6, <2>8, <3>1 DEF Placed, Links, Climbs, Shortens
  <2>10. Together(h.u, high) /\ Together(h.u, low)
    BY <2>1
  <2>11. Read(n)
    BY <2>1, <2>2, <2>6, <2>8, <2>10 DEF Read, Climbs
  <2>12. Climbing(n)
    <3>1. kernel = "afforest" => \/ Same(h.u, high) /\ Same(Head(h.todo), low)
                                 \/ Same(h.u, low) /\ Same(Head(h.todo), high)
      BY <1>3, <2>1
    <3>. QED
      BY <2>6, <2>8, <3>1 DEF Climbing, Climbs
  <2>13. Hooking(n)
    <3>1. kernel = "sv" /\ ~change => comp[high] = high
      BY <2>1
    <3>. QED
      BY <2>6, <2>8, <3>1 DEF Hooking
  <2>. QED
    BY <1>1, <2>4, <2>6, <2>8, <2>9, <2>11, <2>12, <2>13 DEF HandFits
<1>. QED
  BY <1>2, <1>3
-----------------------------------------------------------------------------
\* One lemma for each step of a thread.
LEMMA FirstLabelStep ==
    ASSUME ComponentInv, NEW t \in Threads, FirstLabel(t)
    PROVE  ComponentInv'
<1> DEFINE h == hand[t]
<1>1. h.at = "first" /\ h.at # "idle" /\ h.at \in Links
  BY DEF FirstLabel, Reads, Links
<1>2. /\ h \in Hands /\ HandFits(h) /\ h.u \in Nodes /\ h.todo \in Seq(Nodes)
      /\ comp[h.u] \in Nodes /\ comp[h.u] \in Int
  BY <1>1, InHand, LabelNumbers
<1>3. PICK n : n = [h EXCEPT !.at = "second", !.p = comp[h.u]]
  OBVIOUS
<1>4. Fields(n, "second", h.u, h.todo, comp[h.u], h.high, h.low)
  <2>1. "second" \in Places /\ h.high \in Int /\ h.low \in Int
    BY <1>2, HandFields DEF Places, Links
  <2>2. Fields([h EXCEPT !.at = "second", !.p = comp[h.u]],
               "second", h.u, h.todo, comp[h.u], h.high, h.low)
    BY <1>2, <2>1, HandChanges
  <2>. QED
    BY <1>3, <2>2
<1>5. n \in Hands /\ n.at = "second" /\ n.u = h.u /\ n.todo = h.todo /\ n.p = comp[h.u]
  BY <1>4 DEF Fields
<1>6. HandFits(n)
  <2>1. Placed(h) /\ Together(h.u, comp[h.u]) /\ Same(h.u, comp[h.u])
    BY <1>2, LabelNumbers DEF HandFits
  <2>2. Placed(n)
    BY <1>1, <1>5, <2>1 DEF Placed, Links, Climbs, Shortens
  <2>3. Read(n)
    BY <1>2, <1>5, <2>1 DEF Read, Climbs
  <2>4. Climbing(n)
    BY <1>5, <2>1 DEF Climbing, Climbs
  <2>5. Hooking(n)
    BY <1>5 DEF Hooking
  <2>. QED
    BY <2>2, <2>3, <2>4, <2>5 DEF HandFits
<1>7. Reads(t, h.at, n)
  BY <1>1, <1>3 DEF FirstLabel
<1>. QED
  BY <1>1, <1>5, <1>6, <1>7, ReadStep

LEMMA SecondLabelStep ==
    ASSUME ComponentInv, NEW t \in Threads, SecondLabel(t)
    PROVE  ComponentInv'
<1> DEFINE h == hand[t]
<1>1. h.at = "second" /\ h.at # "idle" /\ h.at \in Links
  BY DEF SecondLabel, Reads, Links
<1>2. PICK v : v = Head(h.todo)
  OBVIOUS
<1>3. /\ h \in Hands /\ HandFits(h) /\ h.u \in Nodes /\ v \in Nodes /\ comp[v] \in Nodes
      /\ Together(h.u, v) /\ Together(v, comp[v]) /\ Same(v, comp[v])
  BY <1>1, <1>2, InHand, LabelNumbers
<1>4. Placed(h) /\ Linking /\ Read(h) /\ Climbing(h) /\ Hooking(h)
  BY <1>1, <1>3 DEF HandFits, Placed
<1>5. h.p \in Nodes /\ Together(h.u, h.p)
  BY <1>1, <1>4 DEF Read
<1>6. Together(h.u, comp[v])
  BY <1>3, TogetherLaws
<1>7. kernel = "afforest" => Same(h.u, h.p) /\ Same(Head(h.todo), comp[v])
  BY <1>1, <1>2, <1>3, <1>4 DEF Climbing
<1>8. kernel = "sv" /\ ~change => /\ comp[h.p] = h.p /\ comp[comp[v]] = comp[v]
                                  /\ h.p = comp[h.u] /\ comp[v] = comp[Head(h.todo)]
  <2>1. kernel = "sv" /\ ~change => h.p = comp[h.u] /\ \A n \in Nodes : comp[comp[n]] = comp[n]
    BY <1>1, <1>4 DEF Hooking, ComponentInv, Hooked, Settled
  <2>. QED
    BY <1>2, <1>3, <2>1
<1>9. PICK n : n = Compared(h, h.p, comp[v])
  OBVIOUS
<1>10. /\ n \in Hands /\ HandFits(n) /\ (n.at # "idle" => n.u = h.u)
       /\ \A x \in ToSet(h.todo) : (n.at # "idle" /\ x \in ToSet(n.todo)) \/ Met(h.u, x)
  <2>1. PICK q \in Nodes : q = comp[v]
    BY <1>3
  <2>2. /\ kernel = "afforest" => Same(h.u, h.p) /\ Same(Head(h.todo), q)
        /\ kernel = "sv" /\ ~change => /\ comp[h.p] = h.p /\ comp[q] = q
                                        /\ h.p = comp[h.u] /\ q = comp[Head(h.todo)]
    BY <1>7, <1>8, <2>1
  <2>3. Together(h.u, q) /\ n = Compared(h, h.p, q)
    BY <1>6, <1>9, <2>1
  <2>4. /\ Compared(h, h.p, q) \in Hands /\ HandFits(Compared(h, h.p, q))
        /\ Compared(h, h.p, q).at # "idle" => Compared(h, h.p, q).u = h.u
        /\ \A x \in ToSet(h.todo) : \/ /\ Compared(h, h.p, q).at # "idle"
                                       /\ x \in ToSet(Compared(h, h.p, q).todo)
                                    \/ Met(h.u, x)
    BY <1>1, <1>3, <1>4, <1>5, <2>2, <2>3, ComparedFits
  <2>. QED
    BY <2>3, <2>4
<1>11. Reads(t, h.at, n)
  BY <1>1, <1>2, <1>9 DEF SecondLabel
<1>12. ~Compressing
  BY <1>4 DEF Linking, Compressing
<1>. QED
  BY <1>1, <1>10, <1>11, <1>12, ReadStep

\* What Link knows while it climbs.
LEMMA InClimb ==
    ASSUME ComponentInv, NEW t \in Threads, hand[t].at \in Climbs
    PROVE  /\ hand[t].at # "idle" /\ hand[t].at \in Links /\ kernel = "afforest"
           /\ hand[t] \in Hands /\ HandFits(hand[t]) /\ Placed(hand[t]) /\ Linking /\ ~Compressing
           /\ hand[t].high \in Nodes /\ hand[t].low \in Nodes /\ hand[t].low < hand[t].high
           /\ Together(hand[t].u, hand[t].high) /\ Together(hand[t].u, hand[t].low)
           /\ \/ Same(hand[t].u, hand[t].high) /\ Same(Head(hand[t].todo), hand[t].low)
              \/ Same(hand[t].u, hand[t].low) /\ Same(Head(hand[t].todo), hand[t].high)
<1>1. hand[t].at # "idle" /\ hand[t].at \in Links
  BY DEF Climbs, Links
<1>2. hand[t] \in Hands /\ HandFits(hand[t])
  BY <1>1, InHand
<1>3. Placed(hand[t]) /\ Linking /\ kernel = "afforest" /\ ~Compressing
  BY <1>1, <1>2 DEF HandFits, Placed, Linking, Compressing
<1>. QED
  BY <1>1, <1>2, <1>3 DEF HandFits, Read, Climbing

\* Link goes on with the same edge.
LEMMA ClimbStep ==
    ASSUME ComponentInv, NEW t \in Threads, hand[t].at \in Climbs,
           NEW at \in Climbs, NEW p \in Nodes,
           at \in {"twice", "low"} => Together(hand[t].u, p) /\ Same(hand[t].high, p),
           NEW n \in Hands, Reads(t, hand[t].at, n),
           Fields(n, at, hand[t].u, hand[t].todo, p, hand[t].high, hand[t].low)
           \/ (at \notin {"twice", "low"}
               /\ Fields(n, at, hand[t].u, hand[t].todo, hand[t].p, hand[t].high, hand[t].low))
    PROVE  ComponentInv'
<1> DEFINE h == hand[t]
<1>1. /\ n.at = at /\ n.u = h.u /\ n.todo = h.todo /\ n.high = h.high /\ n.low = h.low
      /\ at \in {"twice", "low"} => n.p = p
  BY DEF Fields
<1>2. Placed(n)
  <2>1. Placed(h) /\ h.at \in Links /\ h.at # "idle" /\ kernel = "afforest" /\ at \in Links
    BY InClimb DEF Climbs, Links
  <2>2. h.u \in Nodes /\ Linking /\ h.todo # <<>>
        /\ \A i \in 1 .. Len(h.todo) : Together(h.u, h.todo[i])
    BY <2>1 DEF Placed
  <2>. QED
    BY <1>1, <2>1, <2>2 DEF Placed, Links, Climbs, Shortens
<1>3. Read(n)
  BY <1>1, InClimb DEF Read, Climbs
<1>4. Climbing(n)
  BY <1>1, InClimb DEF Climbing, Climbs
<1>5. Hooking(n)
  BY InClimb DEF Hooking
<1>6. HandFits(n) /\ n.at # "idle" /\ n.todo = h.todo
  BY <1>1, <1>2, <1>3, <1>4, <1>5 DEF HandFits, Climbs
<1>. QED
  BY <1>1, <1>6, InClimb, ReadStep

\* Link is through with the edge: its ends are in one tree.
LEMMA EdgeDone ==
    ASSUME ComponentInv, NEW t \in Threads, hand[t].at \in Climbs,
           Same(hand[t].high, hand[t].low)
    PROVE  Met(hand[t].u, Head(hand[t].todo))
<1>1. Same(hand[t].u, Head(hand[t].todo))
  BY InClimb, SameLaws
<1>. QED
  BY <1>1, InClimb DEF Met

LEMMA HighParentStep ==
    ASSUME ComponentInv, NEW t \in Threads, HighParent(t)
    PROVE  ComponentInv'
<1> DEFINE h == hand[t]
<1>1. h.at = "high" /\ h.at \in Climbs
  BY DEF HighParent, Reads, Climbs
<1>2. CASE comp[h.high] = h.low
  <2>1. PICK n : n = NextEdge(h)
    OBVIOUS
  <2>2. Reads(t, h.at, n)
    BY <1>1, <1>2, <2>1 DEF HighParent
  <2>3. /\ n \in Hands /\ Placed(n) /\ n.at \in {"idle", "first"}
        /\ n.at # "idle" => n.u = h.u
        /\ \A v \in ToSet(h.todo) : v = Head(h.todo) \/ (n.at # "idle" /\ v \in ToSet(n.todo))
    BY <1>1, <2>1, InClimb, NextEdgeFits
  <2>4. HandFits(n)
    BY <2>3, FreshFits DEF HandFits
  <2>5. Met(h.u, Head(h.todo))
    <3>1. Same(h.high, h.low)
      BY <1>1, <1>2, InClimb, LabelNumbers
    <3>. QED
      BY <1>1, <3>1, EdgeDone
  <2>. QED
    BY <1>1, <2>2, <2>3, <2>4, <2>5, InClimb, ReadStep
<1>3. CASE comp[h.high] # h.low
  <2>1. PICK at : at = IF comp[h.high] = h.high THEN "swap" ELSE "up"
    OBVIOUS
  <2>2. at \in Climbs /\ at \in Places /\ at \notin {"twice", "low"}
    BY <2>1 DEF Climbs, Places, Links
  <2>3. PICK n : n = [h EXCEPT !.at = at]
    OBVIOUS
  <2>4. Reads(t, h.at, n)
    BY <1>1, <1>3, <2>1, <2>3 DEF HighParent
  <2>5. Fields(n, at, h.u, h.todo, h.p, h.high, h.low)
    BY <1>1, <2>2, <2>3, InClimb, HandFields, FieldSet, Zenon
  <2>6. n \in Hands
    BY <2>5 DEF Fields
  <2>7. h.high \in Nodes
    BY <1>1, InClimb
  <2>. QED
    BY <1>1, <2>2, <2>4, <2>5, <2>6, <2>7, ClimbStep
<1>. QED
  BY <1>2, <1>3

LEMMA UpOnceStep ==
    ASSUME ComponentInv, NEW t \in Threads, UpOnce(t)
    PROVE  ComponentInv'
<1> DEFINE h == hand[t]
<1>1. h.at = "up" /\ h.at \in Climbs
  BY DEF UpOnce, Reads, Climbs
<1>2. PICK p : p = comp[h.high]
  OBVIOUS
<1>3. p \in Nodes /\ p \in Int /\ Together(h.u, p) /\ Same(h.high, p)
  BY <1>1, <1>2, InClimb, LabelNumbers, TogetherLaws
<1>4. PICK n : n = [h EXCEPT !.at = "twice", !.p = p]
  OBVIOUS
<1>5. Reads(t, h.at, n)
  BY <1>1, <1>2, <1>4 DEF UpOnce
<1>6. "twice" \in Climbs /\ "twice" \in Places /\ h \in Hands
  BY <1>1, InClimb DEF Climbs, Places, Links
<1>7. h.high \in Int /\ h.low \in Int
  BY <1>6, HandFields
<1>8. Fields([h EXCEPT !.at = "twice", !.p = p], "twice", h.u, h.todo, p, h.high, h.low)
  BY <1>3, <1>6, <1>7, HandChanges
<1>9. Fields(n, "twice", h.u, h.todo, p, h.high, h.low)
  BY <1>4, <1>8
<1>10. n \in Hands
  BY <1>9 DEF Fields
<1>. QED
  BY <1>1, <1>3, <1>5, <1>6, <1>9, <1>10, ClimbStep

LEMMA UpTwiceStep ==
    ASSUME ComponentInv, NEW t \in Threads, UpTwice(t)
    PROVE  ComponentInv'
<1> DEFINE h == hand[t]
<1>1. h.at = "twice" /\ h.at \in Climbs
  BY DEF UpTwice, Reads, Climbs
<1>2. PICK p : p = comp[h.p]
  OBVIOUS
<1>3. p \in Nodes /\ p \in Int /\ Together(h.u, p) /\ Same(h.high, p)
  <2>1. Read(h) /\ Climbing(h) /\ kernel = "afforest"
    BY <1>1, InClimb DEF HandFits
  <2>2. h.p \in Nodes /\ Together(h.u, h.p) /\ Same(h.high, h.p)
    BY <1>1, <2>1 DEF Read, Climbing
  <2>3. p \in Nodes /\ p \in Int /\ Together(h.p, p) /\ Same(h.p, p)
    BY <1>2, <2>2, LabelNumbers
  <2>. QED
    BY <2>2, <2>3, TogetherLaws, SameLaws
<1>4. PICK n : n = [h EXCEPT !.at = "low", !.p = p]
  OBVIOUS
<1>5. Reads(t, h.at, n)
  BY <1>1, <1>2, <1>4 DEF UpTwice
<1>6. "low" \in Climbs /\ "low" \in Places /\ h \in Hands
  BY <1>1, InClimb DEF Climbs, Places, Links
<1>7. h.high \in Int /\ h.low \in Int
  BY <1>6, HandFields
<1>8. Fields([h EXCEPT !.at = "low", !.p = p], "low", h.u, h.todo, p, h.high, h.low)
  BY <1>3, <1>6, <1>7, HandChanges
<1>9. Fields(n, "low", h.u, h.todo, p, h.high, h.low)
  BY <1>4, <1>8
<1>10. n \in Hands
  BY <1>9 DEF Fields
<1>. QED
  BY <1>1, <1>3, <1>5, <1>6, <1>9, <1>10, ClimbStep

LEMMA LowParentStep ==
    ASSUME ComponentInv, NEW t \in Threads, LowParent(t)
    PROVE  ComponentInv'
<1> DEFINE h == hand[t]
<1>1. h.at = "low" /\ h.at \in Climbs /\ h.at \in Links /\ h.at # "idle"
  BY DEF LowParent, Reads, Climbs, Links
<1>2. PICK q : q = comp[h.low]
  OBVIOUS
<1>3. Read(h) /\ Climbing(h) /\ kernel = "afforest" /\ Placed(h) /\ h \in Hands /\ ~Compressing
  BY <1>1, InClimb DEF HandFits
<1>4. h.p \in Nodes /\ Together(h.u, h.p) /\ Same(h.high, h.p)
  BY <1>1, <1>3 DEF Read, Climbing
<1>5. q \in Nodes /\ Together(h.u, q) /\ Same(h.low, q)
  <2>1. h.low \in Nodes /\ Together(h.u, h.low)
    BY <1>1, InClimb
  <2>. QED
    BY <1>2, <2>1, LabelNumbers, TogetherLaws
<1>6. \/ Same(h.u, h.p) /\ Same(Head(h.todo), q)
      \/ Same(h.u, q) /\ Same(Head(h.todo), h.p)
  BY <1>1, <1>4, <1>5, InClimb, SameLaws
<1>7. PICK n : n = Compared(h, h.p, q)
  OBVIOUS
<1>8. ~(kernel = "sv")
  BY <1>3
<1>9. /\ n \in Hands /\ HandFits(n) /\ (n.at # "idle" => n.u = h.u)
      /\ \A x \in ToSet(h.todo) : (n.at # "idle" /\ x \in ToSet(n.todo)) \/ Met(h.u, x)
  BY <1>1, <1>3, <1>4, <1>5, <1>6, <1>7, <1>8, ComparedFits
<1>10. Reads(t, h.at, n)
  BY <1>1, <1>2, <1>7 DEF LowParent
<1>. QED
  BY <1>1, <1>3, <1>9, <1>10, ReadStep
-----------------------------------------------------------------------------
\* The stores of the linking loops.
LEMMA LabelLowered ==
    ASSUME ComponentInv, NEW a \in Nodes, NEW b \in Nodes, b < a, Together(a, b),
           UNCHANGED <<kernel, net, ahead, stage>>, comp' = [comp EXCEPT ![a] = b]
    PROVE  comp' \in [Nodes -> Nodes] /\ Descending'
<1>1. comp \in [Nodes -> Nodes] /\ Nodes \subseteq Nat
  BY LabelNumbers DEF ComponentInv, ComponentTypes
<1>2. \A n \in Nodes : comp'[n] = IF n = a THEN b ELSE comp[n]
  BY <1>1
<1>3. comp' \in [Nodes -> Nodes]
  BY <1>1
<1>4. \A x, y : Together(x, y) <=> Together(x, y)'
  BY ConstantsKept
<1>5. \A n \in Nodes : comp'[n] <= n /\ Together(n, comp'[n])
  BY <1>1, <1>2, LabelNumbers
<1>6. Descending'
  BY <1>4, <1>5 DEF Descending
<1>. QED
  BY <1>3, <1>6

\* While edges are linked, a store spoils nothing that a thread has read.
LEMMA LinkHands ==
    ASSUME ComponentInv, Linking, UNCHANGED <<kernel, net, ahead, stage>>,
           kernel = "afforest" => \A x, y : Same(x, y) => Same(x, y)',
           kernel = "sv" => change'
    PROVE  \A k : HandFits(k) => HandFits(k)'
<1>1. ~Compressing
  BY DEF Linking, Compressing
<1> SUFFICES ASSUME NEW k, HandFits(k)
             PROVE  HandFits(k)'
  OBVIOUS
<1>2. Placed(k) /\ Placed(k)' /\ k.at \notin Shortens /\ \A x, y : Together(x, y) <=> Together(x, y)'
  BY <1>1, ConstantsKept DEF HandFits, Placed
<1>3. Read(k)'
  BY <1>2 DEF HandFits, Read, Shortens
<1>4. Climbing(k)'
  BY DEF HandFits, Climbing
<1>5. Hooking(k)'
  BY DEF Hooking
<1>. QED
  BY <1>2, <1>3, <1>4, <1>5 DEF HandFits

LEMMA LinkStep ==
    ASSUME ComponentInv, NEW t \in Threads, hand[t].at \in Links,
           hand' = [hand EXCEPT ![t] = NextEdge(hand[t])],
           UNCHANGED <<kernel, net, ahead, stage, skipped>>, change' \in BOOLEAN,
           NEW a \in Nodes, NEW b \in Nodes, b < a, Together(a, b),
           comp' = [comp EXCEPT ![a] = b],
           kernel = "afforest" => comp[a] = a,
           kernel = "sv" => change',
           kernel = "afforest" => \/ Same(hand[t].u, a) /\ Same(Head(hand[t].todo), b)
                                  \/ Same(hand[t].u, b) /\ Same(Head(hand[t].todo), a)
    PROVE  ComponentInv'
<1>1. PICK u, v, n, todo : u = hand[t].u /\ v = Head(hand[t].todo) /\ n = NextEdge(hand[t])
                           /\ todo = hand[t].todo
  OBVIOUS
<1>2. /\ hand[t].at # "idle" /\ hand[t] \in Hands /\ HandFits(hand[t]) /\ Placed(hand[t]) /\ Linking
      /\ ~Compressing
  BY InHand DEF HandFits, Placed, Links, Linking, Compressing
<1>3. /\ n \in Hands /\ Placed(n) /\ n.at \in {"idle", "first"}
      /\ n.at # "idle" => n.u = u
      /\ \A x \in ToSet(todo) : x = v \/ (n.at # "idle" /\ x \in ToSet(n.todo))
  BY <1>1, <1>2, NextEdgeFits
<1>4. comp' \in [Nodes -> Nodes] /\ Descending'
  BY LabelLowered
<1>5. kernel = "afforest" => \A x, y : Same(x, y) => Same(x, y)'
  BY RootHung DEF ComponentInv, ComponentTypes
<1>6. \A k : HandFits(k) => HandFits(k)'
  BY <1>2, <1>5, LinkHands
<1>7. \A s \in Threads : HandFits(hand[s])'
  <2>1. \A s \in Threads : hand'[s] = IF s = t THEN n ELSE hand[s]
    BY <1>1 DEF ComponentInv, ComponentTypes
  <2>2. HandFits(n)
    BY <1>3, FreshFits DEF HandFits
  <2>3. \A s \in Threads : HandFits(hand[s])
    BY DEF ComponentInv, HandsFit
  <2>4. \A s \in Threads : \A k : k = hand'[s] => HandFits(k)'
    BY <1>6, <2>1, <2>2, <2>3
  <2>. QED
    BY <2>4
<1>8. Met(u, v)'
  <2>1. ASSUME kernel = "afforest"
        PROVE  Same(u, v)'
    <3>1. Same(a, b)'
      <4>1. comp'[a] = b /\ comp' \in [Nodes -> Nodes]
        BY DEF ComponentInv, ComponentTypes
      <4>2. \A C \in SUBSET Nodes : Whole(C, Nodes)' => (a \in C <=> b \in C)
        BY <4>1 DEF Whole
      <4>. QED
        BY <4>2 DEF Same, Tied
    <3>2. \/ Same(u, a)' /\ Same(v, b)'
          \/ Same(u, b)' /\ Same(v, a)'
      BY <1>1, <1>5, <2>1
    <3>. QED
      BY <3>1, <3>2 DEF Same, Tied
  <2>2. kernel' = kernel /\ (kernel = "sv" => change')
    OBVIOUS
  <2>. QED
    BY <2>1, <2>2 DEF Met
<1>9. \A x \in ToSet(todo) : (n.at # "idle" /\ x \in ToSet(n.todo)) \/ Met(u, x)'
  BY <1>3, <1>8
<1>10. hand' = [hand EXCEPT ![t] = n]
  BY <1>1
<1>11. kernel = "sv" /\ ~change' => ~change /\ comp' = comp
  OBVIOUS
<1>12. Linking => \A x \in ToSet(hand[t].todo) : (n.at # "idle" /\ x \in ToSet(n.todo)) \/ Met(u, x)'
  BY <1>1, <1>9
<1>13. hand[t].u = u /\ \A s \in Threads : HandFits(hand[s])'
  BY <1>1, <1>7
<1>14. /\ kernel = "afforest" => \A x, y \in Nodes : Same(x, y) => Same(x, y)'
       /\ Compressing => \A x \in Nodes : x # u /\ Settled(x) => Settled(x)'
       /\ Compressing /\ n.at = "idle" => Settled(u)'
  BY <1>2, <1>5
<1>. QED
  BY <1>2, <1>3, <1>4, <1>10, <1>11, <1>12, <1>13, <1>14, HandStep

LEMMA CompareAndSwapStep ==
    ASSUME ComponentInv, NEW t \in Threads, CompareAndSwap(t)
    PROVE  ComponentInv'
<1> DEFINE h == hand[t]
<1>1. h.at = "swap" /\ h.at \in Climbs /\ h.at \in Links
  BY DEF CompareAndSwap, Climbs, Links
<1>2. UNCHANGED <<kernel, net, ahead, stage, skipped, change>>
  BY DEF CompareAndSwap
<1>3. CASE comp[h.high] = h.high
  <2>1. /\ comp' = [comp EXCEPT ![h.high] = h.low]
        /\ hand' = [hand EXCEPT ![t] = NextEdge(h)]
    BY <1>3 DEF CompareAndSwap
  <2>2. h.high \in Nodes /\ h.low \in Nodes /\ h.low < h.high /\ kernel = "afforest"
    BY <1>1, InClimb
  <2>3. Together(h.high, h.low)
    BY <1>1, InClimb, TogetherLaws
  <2>4. \/ Same(h.u, h.high) /\ Same(Head(h.todo), h.low)
        \/ Same(h.u, h.low) /\ Same(Head(h.todo), h.high)
    BY <1>1, InClimb
  <2>5. change' \in BOOLEAN
    BY <1>2 DEF ComponentInv, ComponentTypes
  <2>6. ~(kernel = "sv")
    BY <2>2
  <2>. QED
    BY <1>1, <1>2, <1>3, <2>1, <2>2, <2>3, <2>4, <2>5, <2>6, LinkStep
<1>4. CASE comp[h.high] # h.high
  <2>1. PICK n : n = [h EXCEPT !.at = "up"]
    OBVIOUS
  <2>2. Reads(t, h.at, n)
    BY <1>2, <1>4, <2>1 DEF CompareAndSwap, Reads
  <2>3. "up" \in Climbs /\ "up" \in Places
    BY DEF Climbs, Places, Links
  <2>4. Fields(n, "up", h.u, h.todo, h.p, h.high, h.low)
    <3>1. PICK at : at = "up" /\ at \in Places
      BY <2>3
    <3>2. n = [h EXCEPT !.at = at]
      BY <2>1, <3>1
    <3>3. Fields(n, at, h.u, h.todo, h.p, h.high, h.low)
      <4>1. at \in Places
        BY <3>1
      <4>2. h \in Hands
        BY <1>1, InClimb
      <4>. QED
        BY <3>2, <4>1, <4>2, HandFields, FieldSet, Zenon
    <3>. QED
      BY <3>1, <3>3
  <2>5. n \in Hands
    BY <2>4 DEF Fields
  <2>6. h.high \in Nodes
    BY <1>1, InClimb
  <2>. QED
    BY <1>1, <2>2, <2>3, <2>4, <2>5, <2>6, ClimbStep
<1>. QED
  BY <1>3, <1>4

\* What Shiloach-Vishkin knows when it is about to hook.
LEMMA InHook ==
    ASSUME ComponentInv, NEW t \in Threads, hand[t].at \in {"root", "hook"}
    PROVE  /\ hand[t].at # "idle" /\ hand[t].at \in Links /\ kernel = "sv"
           /\ hand[t] \in Hands /\ HandFits(hand[t]) /\ Placed(hand[t]) /\ Linking /\ ~Compressing
           /\ hand[t].high \in Nodes /\ hand[t].low \in Nodes /\ hand[t].low < hand[t].high
           /\ Together(hand[t].u, hand[t].high) /\ Together(hand[t].u, hand[t].low)
<1>1. hand[t].at # "idle" /\ hand[t].at \in Links
  BY DEF Links
<1>2. hand[t] \in Hands /\ HandFits(hand[t])
  BY <1>1, InHand
<1>3. Placed(hand[t]) /\ Linking /\ kernel = "sv" /\ ~Compressing
  BY <1>1, <1>2 DEF HandFits, Placed, Linking, Compressing
<1>. QED
  BY <1>1, <1>2, <1>3 DEF HandFits, Read

LEMMA RootTestStep ==
    ASSUME ComponentInv, NEW t \in Threads, RootTest(t)
    PROVE  ComponentInv'
<1> DEFINE h == hand[t]
<1>1. h.at = "root" /\ h.at \in {"root", "hook"}
  BY DEF RootTest, Reads
<1>2. CASE comp[h.high] = h.high
  <2>1. PICK n : n = [h EXCEPT !.at = "hook"]
    OBVIOUS
  <2>2. Reads(t, h.at, n)
    BY <1>1, <1>2, <2>1 DEF RootTest
  <2>3. "hook" \in Places
    BY DEF Places, Links
  <2>4. Fields(n, "hook", h.u, h.todo, h.p, h.high, h.low)
    <3>1. PICK at : at = "hook" /\ at \in Places
      BY <2>3
    <3>2. n = [h EXCEPT !.at = at]
      BY <2>1, <3>1
    <3>3. Fields(n, at, h.u, h.todo, h.p, h.high, h.low)
      <4>1. at \in Places
        BY <3>1
      <4>2. h \in Hands
        BY <1>1, InHook
      <4>. QED
        BY <3>2, <4>1, <4>2, HandFields, FieldSet, Zenon
    <3>. QED
      BY <3>1, <3>3
  <2>5. /\ n \in Hands /\ n.at = "hook" /\ n.u = h.u /\ n.todo = h.todo /\ n.high = h.high
        /\ n.low = h.low
    BY <2>4 DEF Fields
  <2>6. Placed(n)
    <3>1. /\ h.u \in Nodes /\ Linking /\ h.todo # <<>> /\ kernel = "sv"
          /\ \A i \in 1 .. Len(h.todo) : Together(h.u, h.todo[i])
      BY <1>1, InHook DEF Placed
    <3>. QED
      BY <2>5, <3>1 DEF Placed, Links, Climbs, Shortens
  <2>7. Read(n)
    BY <1>1, <2>5, InHook DEF Read, Climbs
  <2>8. Climbing(n) /\ Hooking(n)
    BY <1>1, <2>5, InHook DEF Climbing, Hooking
  <2>9. HandFits(n) /\ n.at # "idle"
    BY <2>5, <2>6, <2>7, <2>8 DEF HandFits
  <2>. QED
    BY <1>1, <2>2, <2>5, <2>9, InHook, ReadStep
<1>3. CASE comp[h.high] # h.high
  <2>1. PICK n : n = NextEdge(h)
    OBVIOUS
  <2>2. Reads(t, h.at, n)
    BY <1>1, <1>3, <2>1 DEF RootTest
  <2>3. /\ n \in Hands /\ Placed(n) /\ n.at \in {"idle", "first"}
        /\ n.at # "idle" => n.u = h.u
        /\ \A v \in ToSet(h.todo) : v = Head(h.todo) \/ (n.at # "idle" /\ v \in ToSet(n.todo))
    BY <1>1, <2>1, InHook, NextEdgeFits
  <2>4. HandFits(n)
    BY <2>3, FreshFits DEF HandFits
  <2>5. Met(h.u, Head(h.todo))
    <3>1. kernel = "sv" /\ change
      BY <1>1, <1>3, InHook DEF HandFits, Hooking
    <3>. QED
      BY <3>1 DEF Met
  <2>. QED
    BY <1>1, <2>2, <2>3, <2>4, <2>5, InHook, ReadStep
<1>. QED
  BY <1>2, <1>3

LEMMA HookStep ==
    ASSUME ComponentInv, NEW t \in Threads, Hook(t)
    PROVE  ComponentInv'
<1> DEFINE h == hand[t]
<1>1. h.at \in {"root", "hook"}
  BY DEF Hook
<1>2. /\ UNCHANGED <<kernel, net, ahead, stage, skipped>> /\ change' = TRUE
      /\ comp' = [comp EXCEPT ![h.high] = h.low] /\ hand' = [hand EXCEPT ![t] = NextEdge(h)]
  BY DEF Hook
<1>3. h.high \in Nodes /\ h.low \in Nodes /\ h.low < h.high /\ kernel = "sv" /\ h.at \in Links
  BY <1>1, InHook
<1>4. Together(h.high, h.low)
  BY <1>1, InHook, TogetherLaws
<1>5. ~(kernel = "afforest") /\ change' \in BOOLEAN /\ change'
  BY <1>2, <1>3
<1>. QED
  BY <1>2, <1>3, <1>4, <1>5, LinkStep
-----------------------------------------------------------------------------
\* What a thread knows that shortens the way to a root.
LEMMA InShorten ==
    ASSUME ComponentInv, NEW t \in Threads, hand[t].at \in Shortens
    PROVE  /\ hand[t].at # "idle" /\ hand[t] \in Hands /\ HandFits(hand[t])
           /\ Placed(hand[t]) /\ Read(hand[t]) /\ Hooking(hand[t])
           /\ Compressing /\ ~Linking
           /\ hand[t].u \in Nodes /\ hand[t].u \in Int
           /\ hand[t].todo \in Seq(Nodes) /\ hand[t].high \in Int /\ hand[t].low \in Int
<1>1. hand[t].at # "idle"
  BY DEF Shortens
<1>2. /\ hand[t] \in Hands /\ HandFits(hand[t]) /\ hand[t].u \in Nodes /\ hand[t].u \in Int
      /\ hand[t].todo \in Seq(Nodes)
  BY <1>1, InHand, LabelNumbers
<1>3. hand[t].high \in Int /\ hand[t].low \in Int
  BY <1>2, HandFields
<1>4. Compressing /\ ~Linking
  BY <1>2 DEF HandFits, Placed, Linking, Compressing
<1>. QED
  BY <1>1, <1>2, <1>3, <1>4 DEF HandFits

LEMMA CompressTestStep ==
    ASSUME ComponentInv, NEW t \in Threads, CompressTest(t)
    PROVE  ComponentInv'
<1> DEFINE h == hand[t]
<1>1. h.at = "test" /\ h.at \in Shortens
  BY DEF CompressTest, Reads, Shortens
<1>2. CASE comp[h.u] = comp[comp[h.u]]
  <2>1. PICK n : n = Idle
    OBVIOUS
  <2>2. Reads(t, h.at, n)
    BY <1>1, <1>2, <2>1 DEF CompressTest
  <2>3. n \in Hands /\ n.at = "idle"
    BY <2>1, IdleFields DEF Fields
  <2>4. Placed(n)
    BY <2>1, <2>3 DEF Placed, Links, Climbs, Shortens
  <2>5. HandFits(n)
    BY <2>3, <2>4, FreshFits DEF HandFits
  <2>6. Settled(h.u)
    BY <1>2 DEF Settled
  <2>. QED
    BY <1>1, <2>2, <2>3, <2>5, <2>6, InShorten, ReadStep
<1>3. CASE comp[h.u] # comp[comp[h.u]]
  <2>1. PICK n : n = [h EXCEPT !.at = "shorten"]
    OBVIOUS
  <2>2. Reads(t, h.at, n)
    BY <1>1, <1>3, <2>1 DEF CompressTest
  <2>3. Fields(n, "shorten", h.u, h.todo, h.p, h.high, h.low)
    <3>1. "shorten" \in Places /\ h.p \in Int /\ h.high \in Int /\ h.low \in Int /\ h \in Hands
      BY <1>1, InShorten, HandFields DEF Places, Shortens
    <3>2. Fields([h EXCEPT !.at = "shorten"], "shorten", h.u, h.todo, h.p, h.high, h.low)
      BY <3>1, HandChanges
    <3>. QED
      BY <2>1, <3>2
  <2>4. n \in Hands /\ n.at = "shorten" /\ n.u = h.u
    BY <2>3 DEF Fields
  <2>5. Placed(n)
    BY <1>1, <2>4, InShorten DEF Placed, Links, Climbs, Shortens
  <2>6. Read(n)
    BY <1>3, <2>4 DEF Read, Climbs
  <2>7. Climbing(n)
    BY <2>4 DEF Climbing, Climbs
  <2>8. Hooking(n)
    <3>1. kernel = "sv" /\ ~change => Settled(h.u)
      BY <1>1, InShorten DEF ComponentInv, Hooked
    <3>. QED
      BY <1>3, <3>1 DEF Hooking, Settled
  <2>9. HandFits(n) /\ n.at # "idle"
    BY <2>4, <2>5, <2>6, <2>7, <2>8 DEF HandFits
  <2>. QED
    BY <1>1, <2>2, <2>4, <2>9, InShorten, ReadStep
<1>. QED
  BY <1>2, <1>3

LEMMA GrandParentStep ==
    ASSUME ComponentInv, NEW t \in Threads, GrandParent(t)
    PROVE  ComponentInv'
<1> DEFINE h == hand[t]
<1>1. h.at = "shorten" /\ h.at \in Shortens
  BY DEF GrandParent, Reads, Shortens
<1>2. PICK p : p = comp[comp[h.u]]
  OBVIOUS
<1>3. /\ h.u \in Nodes /\ comp[h.u] \in Nodes /\ p \in Nodes /\ p \in Int
      /\ comp[h.u] <= h.u /\ comp[h.u] # h.u /\ p <= comp[h.u] /\ Together(h.u, p)
  <2>1. h.u \in Nodes /\ comp[h.u] # h.u
    BY <1>1, InShorten DEF Read
  <2>2. comp[h.u] \in Nodes /\ comp[h.u] <= h.u /\ Together(h.u, comp[h.u])
    BY <2>1, LabelNumbers
  <2>3. p \in Nodes /\ p \in Int /\ p <= comp[h.u] /\ Together(comp[h.u], p)
    BY <1>2, <2>2, LabelNumbers
  <2>. QED
    BY <2>1, <2>2, <2>3, TogetherLaws
<1>4. Tied(Below(h.u), comp[h.u], p)
  <2>1. comp[h.u] \in Below(h.u)
    <3>1. PICK a, b : a = comp[h.u] /\ b = h.u
      OBVIOUS
    <3>2. a \in Nodes /\ b \in Nodes /\ a <= b /\ a # b /\ Nodes \subseteq Int
      BY <1>3, <3>1, LabelNumbers
    <3>3. a \in Below(b)
      BY <3>2 DEF Below
    <3>. QED
      BY <3>1, <3>3
  <2>. QED
    BY <1>2, <1>3, <2>1, TiedBelow
<1>5. PICK n : n = [h EXCEPT !.at = "store", !.p = p]
  OBVIOUS
<1>6. Reads(t, h.at, n)
  BY <1>1, <1>2, <1>5 DEF GrandParent
<1>7. Fields(n, "store", h.u, h.todo, p, h.high, h.low)
  <2>1. "store" \in Places /\ h.high \in Int /\ h.low \in Int /\ h \in Hands
    BY <1>1, InShorten DEF Places, Shortens
  <2>2. Fields([h EXCEPT !.at = "store", !.p = p], "store", h.u, h.todo, p, h.high, h.low)
    BY <1>3, <2>1, HandChanges
  <2>. QED
    BY <1>5, <2>2
<1>8. n \in Hands /\ n.at = "store" /\ n.u = h.u /\ n.p = p
  BY <1>7 DEF Fields
<1>9. Placed(n)
  BY <1>1, <1>8, InShorten DEF Placed, Links, Climbs, Shortens
<1>10. Read(n)
  BY <1>3, <1>4, <1>8 DEF Read, Climbs
<1>11. Climbing(n)
  BY <1>8 DEF Climbing, Climbs
<1>12. Hooking(n)
  BY <1>1, <1>8, InShorten DEF Hooking
<1>13. HandFits(n) /\ n.at # "idle"
  BY <1>8, <1>9, <1>10, <1>11, <1>12 DEF HandFits
<1>. QED
  BY <1>1, <1>6, <1>8, <1>13, InShorten, ReadStep

\* To hang a node higher spoils nothing of the threads with other nodes.
LEMMA ShortenHands ==
    ASSUME ComponentInv, Compressing, UNCHANGED <<kernel, net, ahead, stage, change>>,
           NEW u \in Nodes, NEW p \in Nodes, comp' = [comp EXCEPT ![u] = p],
           \A v \in Nodes : \A x, y : Tied(Below(v), x, y) => Tied(Below(v), x, y)'
    PROVE  \A k : HandFits(k) /\ k.u # u => HandFits(k)'
<1>1. ~Linking
  BY DEF Linking, Compressing
<1> SUFFICES ASSUME NEW k, HandFits(k), k.u # u
             PROVE  HandFits(k)'
  OBVIOUS
<1>2. Placed(k) /\ Read(k) /\ Climbing(k) /\ Hooking(k)
  BY DEF HandFits
<1>3. Placed(k)' /\ k.at \notin Links /\ \A x, y : Together(x, y) <=> Together(x, y)'
  BY <1>1, <1>2, ConstantsKept DEF Placed
<1>4. k.at \notin {"second", "twice", "low", "root", "hook"} /\ k.at \notin Climbs
  BY <1>3 DEF Links, Climbs
<1>5. Read(k)'
  <2>1. ASSUME k.at \in {"shorten", "store"}
        PROVE  k.u \in Nodes /\ comp'[k.u] = comp[k.u]
    BY <1>2, <2>1 DEF Placed, ComponentInv, ComponentTypes
  <2>2. ASSUME k.at = "store"
        PROVE  Tied(Below(k.u), comp[k.u], k.p)'
    <3>1. PICK v, c, q : v = k.u /\ c = comp[k.u] /\ q = k.p
      OBVIOUS
    <3>2. v \in Nodes /\ Tied(Below(v), c, q) /\ comp'[k.u] = c
      BY <1>2, <2>1, <2>2, <3>1 DEF Read
    <3>3. Tied(Below(v), c, q)'
      BY <3>2
    <3>. QED
      BY <3>1, <3>2, <3>3 DEF Tied
  <2>. QED
    BY <1>2, <1>3, <1>4, <2>1, <2>2 DEF Read
<1>6. Climbing(k)'
  BY <1>4 DEF Climbing
<1>7. Hooking(k)'
  BY <1>2, <1>4 DEF Hooking
<1>. QED
  BY <1>3, <1>5, <1>6, <1>7 DEF HandFits

LEMMA ShortenStep ==
    ASSUME ComponentInv, NEW t \in Threads, Shorten(t)
    PROVE  ComponentInv'
<1>1. PICK h, u, p : h = hand[t] /\ u = h.u /\ p = h.p
  OBVIOUS
<1>2. h.at = "store" /\ h.at \in Shortens /\ hand[t].at # "idle" /\ hand[t].u = u
  BY <1>1 DEF Shorten, Shortens
<1>3. /\ comp' = [comp EXCEPT ![u] = p]
      /\ UNCHANGED <<kernel, net, ahead, stage, skipped, change>>
  BY <1>1 DEF Shorten
<1>4. /\ h \in Hands /\ HandFits(h) /\ Placed(h) /\ Read(h) /\ Hooking(h) /\ Compressing /\ ~Linking
      /\ u \in Nodes /\ h.high \in Int /\ h.low \in Int
  BY <1>1, <1>2, InShorten
<1>5. /\ p \in Nodes /\ Together(u, p) /\ comp[u] # u /\ p <= comp[u]
      /\ Tied(Below(u), comp[u], p)
  BY <1>1, <1>2, <1>4 DEF Read
<1>6. p < u
  BY <1>4, <1>5, LabelNumbers
<1>7. ~(kernel = "sv" /\ ~change)
  BY <1>2, <1>4 DEF Hooking
<1>8. PICK n : n = [h EXCEPT !.at = "test", !.p = 0]
  OBVIOUS
<1>9. hand' = [hand EXCEPT ![t] = n]
  BY <1>1, <1>8 DEF Shorten, ComponentInv, ComponentTypes
<1>10. n \in Hands /\ n.at = "test" /\ n.u = u
  <2>1. "test" \in Places /\ 0 \in Int
    BY DEF Places, Shortens
  <2>2. Fields([h EXCEPT !.at = "test", !.p = 0], "test", h.u, h.todo, 0, h.high, h.low)
    BY <1>4, <2>1, HandChanges, Zenon
  <2>3. Fields(n, "test", h.u, h.todo, 0, h.high, h.low)
    BY <1>8, <2>2
  <2>. QED
    BY <1>1, <2>3 DEF Fields
<1>11. comp' \in [Nodes -> Nodes] /\ Descending'
  BY <1>3, <1>4, <1>5, <1>6, LabelLowered
<1>12. /\ \A x, y : Same(x, y) => Same(x, y)'
       /\ \A v \in Nodes : \A x, y : Tied(Below(v), x, y) => Tied(Below(v), x, y)'
  BY <1>3, <1>4, <1>5, LabelRaised DEF ComponentInv, ComponentTypes
<1>13. \A s \in Threads : HandFits(hand[s])'
  <2>1. hand'[t] = n /\ \A s \in Threads : s # t => hand'[s] = hand[s]
    BY <1>9 DEF ComponentInv, ComponentTypes
  <2>2. HandFits(n)'
    <3>1. Placed(n)
      BY <1>4, <1>10 DEF Placed, Links, Climbs, Shortens
    <3>2. Placed(n)'
      BY <1>3, <3>1, ConstantsKept
    <3>3. Read(n)' /\ Climbing(n)' /\ Hooking(n)'
      BY <1>10 DEF Read, Climbing, Hooking, Climbs
    <3>. QED
      BY <3>2, <3>3 DEF HandFits
  <2>3. \A k : HandFits(k) /\ k.u # u => HandFits(k)'
    BY <1>3, <1>4, <1>5, <1>12, ShortenHands
  <2>4. ASSUME NEW s \in Threads, s # t, NEW k, k = hand[s]
        PROVE  HandFits(k)'
    <3>1. HandFits(k)
      BY <2>4 DEF ComponentInv, HandsFit
    <3>2. CASE k.at = "idle"
      <4>1. Placed(k)' /\ Read(k)' /\ Climbing(k)' /\ Hooking(k)'
        <5>1. Placed(k)'
          BY <1>3, <3>1, ConstantsKept DEF HandFits
        <5>. QED
          BY <3>2, <5>1 DEF Read, Climbing, Hooking, Climbs
      <4>. QED
        BY <4>1 DEF HandFits
    <3>3. CASE k.at # "idle"
      <4>1. k.u # u
        BY <1>2, <1>4, <2>4, <3>3 DEF ComponentInv, HandsFit, Keeps
      <4>. QED
        BY <2>3, <3>1, <4>1
    <3>. QED
      BY <3>2, <3>3
  <2>5. \A s \in Threads : \A k : k = hand'[s] => HandFits(k)'
    BY <2>1, <2>2, <2>4
  <2>. QED
    BY <2>5
<1>14. \A x \in Nodes : x # u /\ Settled(x) => Settled(x)'
  <2>1. \A x \in Nodes : comp'[x] = IF x = u THEN p ELSE comp[x]
    BY <1>3 DEF ComponentInv, ComponentTypes
  <2>. QED
    BY <1>5, <2>1, LabelNumbers DEF Settled
<1>15. /\ kernel = "afforest" => \A x, y \in Nodes : Same(x, y) => Same(x, y)'
       /\ kernel = "sv" /\ ~change' => ~change /\ comp' = comp
       /\ change' \in BOOLEAN /\ n.at # "idle"
       /\ UNCHANGED <<kernel, net, ahead, stage, skipped>>
  BY <1>3, <1>7, <1>10, <1>12 DEF ComponentInv, ComponentTypes
<1>. QED
  BY <1>2, <1>4, <1>9, <1>10, <1>11, <1>13, <1>14, <1>15, HandStep
-----------------------------------------------------------------------------
\* What a step leaves to be so when it changes neither labels nor the loop.
LEMMA LabelsKept ==
    ASSUME UNCHANGED <<kernel, net, comp, change>>
    PROVE  /\ \A x, y : Together(x, y) <=> Together(x, y)'
           /\ \A D, x, y : Tied(D, x, y) <=> Tied(D, x, y)'
           /\ \A x, y : Same(x, y) <=> Same(x, y)'
           /\ \A x : Settled(x) <=> Settled(x)'
           /\ \A k : Read(k) /\ Climbing(k) /\ Hooking(k) => Read(k)' /\ Climbing(k)' /\ Hooking(k)'
<1>1. \A x, y : Together(x, y) <=> Together(x, y)'
  BY DEF Together
<1>2. \A D, x, y : Tied(D, x, y) <=> Tied(D, x, y)'
  BY DEF Tied, Whole
<1>3. \A x, y : Same(x, y) <=> Same(x, y)'
  BY <1>2 DEF Same
<1>4. \A x : Settled(x) <=> Settled(x)'
  BY DEF Settled
<1>5. \A k : Read(k) => Read(k)'
  BY <1>1, <1>2 DEF Read, Below
<1>6. \A k : Climbing(k) => Climbing(k)'
  BY <1>3 DEF Climbing
<1>7. \A k : Hooking(k) => Hooking(k)'
  BY DEF Hooking
<1>. QED
  BY <1>1, <1>2, <1>3, <1>4, <1>5, <1>6, <1>7

\* What is to be done for u is what a thread takes, but for a node in the
\* component left out.
LEMMA TodoNodes ==
    ASSUME ComponentInv, NEW u \in Nodes
    PROVE  /\ Todo(u) \in Seq(Nodes)
           /\ \A v \in ToSet(Todo(u)) : v \in Nodes /\ Together(u, v)
           /\ (stage.loop = "link" /\ comp[u] = skipped) \/ Due(u) = ToSet(Todo(u))
           /\ ~Linking => Due(u) = {} /\ Todo(u) = <<>>
<1>1. ComponentTypes
  BY DEF ComponentInv
<1>2. /\ net.out[u] \in Seq(Nodes) /\ ToSet(net.out[u]) \subseteq Nodes
      /\ \A v \in ToSet(net.out[u]) : v \in Nodes /\ Together(u, v)
  BY <1>1, GraphLists, EdgeTogether
<1>3. Rest(u) \in Seq(Nodes) /\ \A v \in ToSet(Rest(u)) : v \in Nodes /\ Together(u, v)
  BY <1>1, RestNodes
<1>4. <<>> \in Seq(Nodes) /\ ToSet(<<>>) = {}
  BY DEF ToSet
<1>5. CASE stage.loop = "sample"
  <2>1. CASE stage.round \in DOMAIN net.out[u]
    <3>1. PICK v : v = net.out[u][stage.round]
      OBVIOUS
    <3>2. v \in ToSet(net.out[u])
      BY <2>1, <3>1 DEF ToSet
    <3>3. <<v>> \in Seq(Nodes) /\ ToSet(<<v>>) = {v}
      BY <1>2, <3>2 DEF ToSet
    <3>4. Todo(u) = <<v>> /\ Due(u) = {v}
      BY <1>5, <2>1, <3>1 DEF Todo, Due
    <3>. QED
      BY <1>2, <1>5, <3>2, <3>3, <3>4 DEF Linking
  <2>2. CASE stage.round \notin DOMAIN net.out[u]
    <3>1. Todo(u) = <<>> /\ Due(u) = {}
      BY <1>5, <2>2 DEF Todo, Due
    <3>. QED
      BY <1>4, <3>1
  <2>. QED
    BY <2>1, <2>2
<1>6. CASE stage.loop = "link"
  <2>1. CASE comp[u] = skipped
    <3>1. Todo(u) = <<>>
      BY <1>6, <2>1 DEF Todo
    <3>. QED
      BY <1>4, <1>6, <2>1, <3>1 DEF Linking
  <2>2. CASE comp[u] # skipped
    <3>1. Todo(u) = Rest(u) /\ Due(u) = ToSet(Rest(u))
      BY <1>6, <2>2 DEF Todo, Due
    <3>. QED
      BY <1>3, <1>6, <3>1 DEF Linking
  <2>. QED
    BY <2>1, <2>2
<1>7. CASE stage.loop = "hook"
  <2>1. Todo(u) = net.out[u] /\ Due(u) = ToSet(net.out[u])
    BY <1>7 DEF Todo, Due
  <2>. QED
    BY <1>2, <1>7, <2>1 DEF Linking
<1>8. CASE stage.loop \notin {"sample", "link", "hook"}
  <2>1. Todo(u) = <<>> /\ Due(u) = {}
    BY <1>8 DEF Todo, Due
  <2>. QED
    BY <1>4, <2>1
<1>. QED
  BY <1>5, <1>6, <1>7, <1>8

\* What a thread has in hand after it took u.
LEMMA TakenFits ==
    ASSUME ComponentInv, NEW u \in Nodes
    PROVE  LET n == IF stage.loop \in {"compress", "final"} THEN [Idle EXCEPT !.at = "test", !.u = u]
                    ELSE IF Todo(u) = <<>> THEN Idle
                    ELSE [Idle EXCEPT !.at = "first", !.u = u, !.todo = Todo(u)]
           IN  /\ n \in Hands /\ HandFits(n)
               /\ n.at # "idle" => n.u = u
               /\ Compressing => n.at # "idle"
               /\ ~Compressing /\ Todo(u) # <<>> => n.at # "idle" /\ n.todo = Todo(u)
<1> DEFINE m == IF stage.loop \in {"compress", "final"} THEN [Idle EXCEPT !.at = "test", !.u = u]
                ELSE IF Todo(u) = <<>> THEN Idle
                ELSE [Idle EXCEPT !.at = "first", !.u = u, !.todo = Todo(u)]
<1>1. PICK n : n = m
  OBVIOUS
<1>2. u \in Int /\ Todo(u) \in Seq(Nodes)
  BY LabelNumbers, TodoNodes
<1>3. CASE Compressing
  <2>1. n = [Idle EXCEPT !.at = "test", !.u = u]
    BY <1>1, <1>3 DEF Compressing
  <2>2. Fields([Idle EXCEPT !.at = "test", !.u = u], "test", u, <<>>, 0, 0, 0)
    <3>1. "test" \in Places /\ <<>> \in Seq(Nodes)
      BY DEF Places, Shortens
    <3>. QED
      BY <1>2, <3>1, HandTaken
  <2>3. n \in Hands /\ n.at = "test" /\ n.u = u
    BY <2>1, <2>2 DEF Fields
  <2>4. Placed(n)
    BY <1>3, <2>3 DEF Placed, Links, Climbs, Shortens
  <2>5. Read(n) /\ Climbing(n) /\ Hooking(n)
    BY <2>3 DEF Read, Climbing, Hooking, Climbs
  <2>. QED
    BY <1>1, <1>3, <2>3, <2>4, <2>5 DEF HandFits
<1>4. CASE ~Compressing /\ Todo(u) = <<>>
  <2>1. n = Idle
    BY <1>1, <1>4 DEF Compressing
  <2>2. n \in Hands /\ n.at = "idle"
    BY <2>1, IdleFields DEF Fields
  <2>3. Placed(n)
    BY <2>1, <2>2 DEF Placed, Links, Climbs, Shortens
  <2>4. HandFits(n)
    BY <2>2, <2>3, FreshFits DEF HandFits
  <2>. QED
    BY <1>1, <1>4, <2>2, <2>4
<1>5. CASE ~Compressing /\ Todo(u) # <<>>
  <2>1. n = [Idle EXCEPT !.at = "first", !.u = u, !.todo = Todo(u)]
    BY <1>1, <1>5 DEF Compressing
  <2>2. "first" \in Places
    BY DEF Places, Links
  <2>3. Fields([Idle EXCEPT !.at = "first", !.u = u, !.todo = Todo(u)], "first", u, Todo(u), 0, 0, 0)
    BY <1>2, <2>2, HandTaken
  <2>4. n \in Hands /\ n.at = "first" /\ n.u = u /\ n.todo = Todo(u)
    BY <2>1, <2>3 DEF Fields
  <2>5. Linking /\ \A i \in 1 .. Len(n.todo) : Together(u, n.todo[i])
    <3>1. Linking
      BY <1>5, TodoNodes
    <3>2. \A i \in 1 .. Len(Todo(u)) : Todo(u)[i] \in ToSet(Todo(u))
      BY <1>2 DEF ToSet
    <3>. QED
      BY <2>4, <3>1, <3>2, TodoNodes
  <2>6. Placed(n)
    BY <1>5, <2>4, <2>5 DEF Placed, Links, Climbs, Shortens
  <2>7. HandFits(n)
    BY <2>4, <2>6, FreshFits DEF HandFits
  <2>. QED
    BY <1>1, <1>5, <2>4, <2>7
<1>. QED
  BY <1>3, <1>4, <1>5

LEMMA TakeStep ==
    ASSUME ComponentInv, NEW t \in Threads, NEW u \in Nodes, Take(t, u)
    PROVE  ComponentInv'
<1>1. PICK n : n = IF stage.loop \in {"compress", "final"} THEN [Idle EXCEPT !.at = "test", !.u = u]
                   ELSE IF Todo(u) = <<>> THEN Idle
                   ELSE [Idle EXCEPT !.at = "first", !.u = u, !.todo = Todo(u)]
  OBVIOUS
<1>2. /\ n \in Hands /\ HandFits(n)
      /\ n.at # "idle" => n.u = u
      /\ Compressing => n.at # "idle"
      /\ ~Compressing /\ Todo(u) # <<>> => n.at # "idle" /\ n.todo = Todo(u)
  BY <1>1, TakenFits
<1>3. /\ hand[t].at = "idle" /\ u \in ahead /\ ahead' = ahead \ {u}
      /\ hand' = [hand EXCEPT ![t] = n]
      /\ UNCHANGED <<kernel, net, comp, stage, skipped, change>>
  BY <1>1 DEF Take
<1>4. hand'[t] = n /\ \A s \in Threads : s # t => hand'[s] = hand[s]
  BY <1>3 DEF ComponentInv, ComponentTypes
<1>5. ComponentTypes'
  BY <1>2, <1>3 DEF ComponentInv, ComponentTypes
<1>6. \A s \in Threads, x \in Nodes : Keeps(s, x) => Keeps(s, x)' /\ s # t
  BY <1>3, <1>4 DEF Keeps
<1>7. \A s \in Threads, x \in Nodes : Keeps(s, x)' => Keeps(s, x) \/ (s = t /\ x = u)
  BY <1>2, <1>4 DEF Keeps
<1>8. /\ Linking' = Linking /\ Compressing' = Compressing
      /\ \A x : Due(x)' = Due(x) /\ Rest(x)' = Rest(x)
  BY <1>3 DEF Linking, Compressing, Due, Rest
<1>9. HandsFit'
  <2>1. \A k : HandFits(k) => HandFits(k)'
    <3>1. \A k : Placed(k) => Placed(k)'
      BY <1>3, <1>8, LabelsKept DEF Placed
    <3>. QED
      BY <1>3, <3>1, LabelsKept DEF HandFits
  <2>2. \A s \in Threads : \A k : k = hand'[s] => HandFits(k)'
    BY <1>2, <1>4, <2>1 DEF ComponentInv, HandsFit
  <2>3. \A s \in Threads, x \in Nodes : Keeps(s, x)' => x \notin ahead'
    BY <1>3, <1>7 DEF ComponentInv, HandsFit
  <2>4. \A s, r \in Threads, x \in Nodes : Keeps(s, x)' /\ Keeps(r, x)' => s = r
    BY <1>3, <1>7 DEF ComponentInv, HandsFit
  <2>. QED
    BY <2>2, <2>3, <2>4 DEF HandsFit
<1>10. Descending'
  BY <1>3, LabelsKept DEF ComponentInv, Descending
<1>11. Compressed'
  <2>1. ASSUME NEW x \in Nodes \ ahead', Compressing, \A s \in Threads : ~Keeps(s, x)'
        PROVE  Settled(x)'
    <3>1. x # u
      BY <1>2, <1>4, <2>1 DEF Keeps
    <3>2. Settled(x)
      BY <1>3, <1>6, <2>1, <3>1 DEF ComponentInv, Compressed
    <3>. QED
      BY <1>3, <3>2, LabelsKept
  <2>2. stage.loop = "end" => \A x \in Nodes : Settled(x)'
    BY <1>3, LabelsKept DEF ComponentInv, Compressed
  <2>. QED
    BY <1>3, <1>8, <2>1, <2>2 DEF Compressed
<1>12. Loops'
  BY <1>3 DEF ComponentInv, Loops
<1>13. \A x \in Nodes : \A v : Pending(x, v) => Pending(x, v)'
  BY <1>4, <1>6 DEF Pending
<1>14. \A v \in Due(u) : (stage.loop = "link" /\ comp[u] = skipped) \/ Pending(u, v)'
  <2> SUFFICES ASSUME NEW v \in Due(u), ~(stage.loop = "link" /\ comp[u] = skipped)
               PROVE  Pending(u, v)'
    OBVIOUS
  <2>1. v \in ToSet(Todo(u)) /\ Linking /\ Todo(u) # <<>>
    <3>1. Due(u) = ToSet(Todo(u)) /\ Linking
      BY TodoNodes
    <3>2. ToSet(<<>>) = {}
      BY DEF ToSet
    <3>. QED
      BY <3>1, <3>2
  <2>2. ~Compressing
    BY <2>1 DEF Linking, Compressing
  <2>. QED
    BY <1>2, <1>4, <2>1, <2>2 DEF Pending, Keeps
<1>15. AfforestLinks'
  <2> SUFFICES ASSUME kernel = "afforest"
               PROVE  /\ Sampled'
                      /\ stage.loop \in {"sample", "link"} => Linked'
                      /\ stage.loop \in {"final", "end"} => AllLinked'
    BY <1>3 DEF AfforestLinks
  <2>1. /\ Sampled /\ (stage.loop \in {"sample", "link"} => Linked)
        /\ stage.loop \in {"final", "end"} => AllLinked
    BY DEF ComponentInv, AfforestLinks
  <2>2. Sampled'
    BY <1>3, <2>1, LabelsKept DEF Sampled
  <2>3. ASSUME stage.loop \in {"sample", "link"}
        PROVE  Linked'
    <3> SUFFICES ASSUME NEW x \in Nodes \ ahead', ~(stage.loop = "link" /\ Same(x, skipped)),
                        NEW v \in Due(x)
                 PROVE  Same(x, v) \/ Pending(x, v)'
      BY <1>3, <1>8, LabelsKept DEF Linked
    <3>1. CASE x = u
      <4>1. comp[u] = skipped => Same(u, skipped)
        BY SameLabel
      <4>. QED
        BY <1>14, <3>1, <4>1
    <3>2. CASE x # u
      BY <1>3, <1>13, <2>1, <2>3, <3>2 DEF Linked
    <3>. QED
      BY <3>1, <3>2
  <2>4. stage.loop \in {"final", "end"} => AllLinked'
    BY <1>3, <1>8, <2>1, LabelsKept DEF AllLinked
  <2>. QED
    BY <2>2, <2>3, <2>4
<1>16. Hooked'
  <2> SUFFICES ASSUME kernel = "sv"
               PROVE  Hooked'
    BY <1>3 DEF Hooked
  <2>1. stage.loop = "end" => ~change
    BY DEF ComponentInv, Hooked
  <2> SUFFICES ASSUME ~change
               PROVE  Hooked'
    BY <1>3, <2>1 DEF Hooked
  <2>2. /\ \A x \in Nodes : Settled(x)
        /\ \A x \in Nodes \ ahead : \A v \in Due(x) : comp[x] = comp[v] \/ Pending(x, v)
        /\ stage.loop # "hook" =>
              \A x \in Nodes : \A v \in ToSet(net.out[x]) : comp[x] = comp[v]
    BY DEF ComponentInv, Hooked
  <2>3. \A x \in Nodes \ ahead' : \A v \in Due(x) : comp[x] = comp[v] \/ Pending(x, v)'
    <3> SUFFICES ASSUME NEW x \in Nodes \ ahead', NEW v \in Due(x)
                 PROVE  comp[x] = comp[v] \/ Pending(x, v)'
      OBVIOUS
    <3>1. stage.loop # "link"
      BY DEF ComponentInv, Loops
    <3>. QED
      BY <1>3, <1>13, <1>14, <2>2, <3>1
  <2>4. \A x \in Nodes : Settled(x)'
    BY <1>3, <2>2, LabelsKept
  <2>. QED
    BY <1>3, <1>8, <2>1, <2>2, <2>3, <2>4 DEF Hooked
<1>. QED
  BY <1>5, <1>9, <1>10, <1>11, <1>12, <1>15, <1>16 DEF ComponentInv
-----------------------------------------------------------------------------
\* At the barrier nothing is pending any more.
LEMMA BarrierStep ==
    ASSUME ComponentInv, Barrier
    PROVE  ComponentInv'
<1>1. /\ ahead = {} /\ \A t \in Threads : hand[t] = Idle
      /\ stage.loop # "end" /\ stage' = AfterLoop
      /\ ahead' = IF stage'.loop = "end" THEN {} ELSE Nodes
      /\ change' = IF stage'.loop = "hook" THEN FALSE ELSE change
      /\ skipped' \in IF stage'.loop = "link" THEN {comp[n] : n \in Nodes} ELSE {skipped}
      /\ UNCHANGED <<kernel, net, comp, hand>>
  BY DEF Barrier
<1>2. /\ stage \in [loop : {"sample", "compress", "link", "final", "hook", "end"}, round : Nat]
      /\ kernel \in {"afforest", "sv"} /\ skipped \in Nodes \cup {NoSkip} /\ change \in BOOLEAN
  BY DEF ComponentInv, ComponentTypes
<1>3. \A t \in Threads : hand[t].at = "idle"
  <2>1. Idle.at = "idle"
    BY IdleFields DEF Fields
  <2>. QED
    BY <1>1, <2>1
<1>4. /\ \A t \in Threads, x \in Nodes : ~Keeps(t, x) /\ ~Keeps(t, x)'
      /\ \A x \in Nodes : \A v : ~Pending(x, v) /\ ~Pending(x, v)'
  <2>1. \A t \in Threads, x \in Nodes : ~Keeps(t, x) /\ ~Keeps(t, x)'
    BY <1>1, <1>3 DEF Keeps
  <2>. QED
    BY <2>1 DEF Pending
<1>5. \/ /\ stage.loop = "sample" /\ stage'.loop = "compress" /\ stage'.round = stage.round
      \/ /\ stage.loop = "compress" /\ kernel = "afforest" /\ stage.round < NeighborRounds
         /\ stage'.loop = "sample" /\ stage'.round = stage.round + 1
      \/ /\ stage.loop = "compress" /\ kernel = "afforest" /\ ~(stage.round < NeighborRounds)
         /\ stage'.loop = "link" /\ stage'.round = stage.round
      \/ /\ stage.loop = "link" /\ stage'.loop = "final" /\ stage'.round = stage.round
      \/ /\ stage.loop = "final" /\ stage'.loop = "end" /\ stage'.round = stage.round
      \/ /\ stage.loop = "hook" /\ stage'.loop = "compress" /\ stage'.round = stage.round
      \/ /\ stage.loop = "compress" /\ kernel = "sv" /\ change
         /\ stage'.loop = "hook" /\ stage'.round = stage.round
      \/ /\ stage.loop = "compress" /\ kernel = "sv" /\ ~change
         /\ stage'.loop = "end" /\ stage'.round = stage.round
  BY <1>1, <1>2 DEF AfterLoop
<1>6. stage' \in [loop : {"sample", "compress", "link", "final", "hook", "end"}, round : Nat]
  BY <1>1, <1>2 DEF AfterLoop
<1>7. skipped' \in Nodes \cup {NoSkip} /\ change' \in BOOLEAN /\ ahead' \in SUBSET Nodes
  BY <1>1, <1>2, LabelNumbers
<1>8. ComponentTypes'
  BY <1>1, <1>6, <1>7 DEF ComponentInv, ComponentTypes
<1>9. HandsFit'
  <2>1. Placed(Idle)' /\ Read(Idle)' /\ Climbing(Idle)' /\ Hooking(Idle)'
    <3>1. Idle.at = "idle"
      BY IdleFields DEF Fields
    <3>. QED
      BY <3>1 DEF Placed, Read, Climbing, Hooking, Links, Climbs, Shortens
  <2>2. \A k : k = Idle => HandFits(k)'
    BY <2>1 DEF HandFits
  <2>3. \A t \in Threads : HandFits(hand[t])'
    BY <1>1, <2>2
  <2>. QED
    BY <1>4, <2>3 DEF HandsFit
<1>10. Descending'
  <2>1. \A x, y : Together(x, y) <=> Together(x, y)'
    BY <1>1 DEF Together
  <2>. QED
    BY <1>1, <2>1 DEF ComponentInv, Descending
<1>11. /\ \A x, y : Same(x, y) <=> Same(x, y)'
       /\ \A x : Settled(x) <=> Settled(x)'
       /\ \A x : Rest(x)' = Rest(x)
  BY <1>1 DEF Same, Tied, Whole, Settled, Rest
<1>12. Compressing => \A n \in Nodes : Settled(n)
  BY <1>1, <1>4 DEF ComponentInv, Compressed
<1>13. Compressed'
  <2>1. Compressing' => Nodes \ ahead' = {}
    BY <1>1 DEF Compressing
  <2>2. stage'.loop = "end" => Compressing
    BY <1>5 DEF Compressing
  <2>. QED
    BY <1>11, <1>12, <2>1, <2>2 DEF Compressed
<1>14. Loops
  BY DEF ComponentInv
<1>15. Loops'
  <2>1. ASSUME kernel = "sv"
        PROVE  stage'.loop \in {"hook", "compress", "end"}
    BY <1>5, <1>14, <2>1 DEF Loops
  <2>2. ASSUME kernel = "afforest"
        PROVE  /\ stage'.loop # "hook" /\ stage'.round \in 1 .. NeighborRounds
               /\ stage'.loop \in {"link", "final", "end"} =>
                     stage'.round = NeighborRounds /\ skipped' \in Nodes
    <3>1. /\ stage.loop # "hook" /\ stage.round \in 1 .. NeighborRounds
          /\ stage.loop \in {"link", "final", "end"} =>
                     stage.round = NeighborRounds /\ skipped \in Nodes
      BY <1>14, <2>2 DEF Loops
    <3>2. stage'.loop # "hook" /\ stage'.round \in 1 .. NeighborRounds
      BY <1>5, <2>2, <3>1, RoundsAssumption
    <3>3. stage'.loop \in {"link", "final", "end"} => stage'.round = NeighborRounds
      BY <1>5, <2>2, <3>1, RoundsAssumption
    <3>4. stage'.loop \in {"link", "final", "end"} => skipped' \in Nodes
      <4>1. CASE stage'.loop = "link"
        BY <1>1, <4>1, LabelNumbers
      <4>2. CASE stage'.loop \in {"final", "end"}
        <5>1. stage.loop \in {"link", "final", "end"} /\ skipped' = skipped
          BY <1>1, <1>5, <2>2, <4>2
        <5>. QED
          BY <3>1, <5>1
      <4>. QED
        BY <4>1, <4>2
    <3>. QED
      BY <3>2, <3>3, <3>4
  <2>. QED
    BY <1>1, <2>1, <2>2 DEF Loops
<1>16. AfforestLinks'
  <2> SUFFICES ASSUME kernel = "afforest"
               PROVE  /\ Sampled'
                      /\ stage'.loop \in {"sample", "link"} => Linked'
                      /\ stage'.loop \in {"final", "end"} => AllLinked'
    BY <1>1 DEF AfforestLinks
  <2>1. /\ Sampled /\ (stage.loop \in {"sample", "link"} => Linked)
        /\ stage.loop \in {"final", "end"} => AllLinked
    BY <1>1 DEF ComponentInv, AfforestLinks
  <2>2. stage.round \in 1 .. NeighborRounds /\ stage.round \in Nat /\ stage.loop # "hook"
    BY <1>2, <1>14 DEF Loops
  <2>3. \A x \in Nodes : net.out[x] \in Seq(Nodes) /\ \A i \in DOMAIN net.out[x] : i \in Nat
    BY GraphLists DEF ComponentInv
  <2>4. Sampled'
    <3> SUFFICES ASSUME NEW x \in Nodes, NEW i \in DOMAIN net.out[x],
                        i <= IF stage'.loop = "sample" THEN stage'.round - 1 ELSE stage'.round
                 PROVE  Same(x, net.out[x][i])
      BY <1>1, <1>11 DEF Sampled
    <3>1. i <= stage.round /\ i \in Nat
      BY <1>5, <2>2, <2>3
    <3>2. CASE stage.loop # "sample"
      BY <2>1, <3>1, <3>2 DEF Sampled
    <3>3. CASE stage.loop = "sample" /\ i <= stage.round - 1
      BY <2>1, <3>3 DEF Sampled
    <3>4. CASE stage.loop = "sample" /\ i = stage.round
      <4>1. net.out[x][i] \in Due(x)
        BY <3>4 DEF Due
      <4>. QED
        BY <1>1, <1>4, <2>1, <3>4, <4>1 DEF Linked
    <3>. QED
      BY <2>2, <3>1, <3>2, <3>3, <3>4
  <2>5. stage'.loop \in {"sample", "link"} => Linked'
    BY <1>1 DEF Linked
  <2>6. ASSUME stage'.loop \in {"final", "end"}
        PROVE  AllLinked'
    <3>1. skipped' = skipped /\ stage.loop \in {"link", "final"}
      BY <1>1, <1>5, <2>6
    <3>2. AllLinked
      <4>1. CASE stage.loop = "link"
        <5>1. \A x \in Nodes : Due(x) = ToSet(Rest(x))
          BY <4>1 DEF Due
        <5>. QED
          BY <1>1, <1>4, <2>1, <4>1, <5>1 DEF Linked, AllLinked
      <4>2. CASE stage.loop = "final"
        BY <2>1, <4>2
      <4>. QED
        BY <3>1, <4>1, <4>2
    <3>. QED
      BY <1>11, <3>1, <3>2 DEF AllLinked
  <2>. QED
    BY <2>4, <2>5, <2>6
<1>17. Hooked'
  <2> SUFFICES ASSUME kernel = "sv"
               PROVE  Hooked'
    BY <1>1 DEF Hooked
  <2>1. Hooked /\ stage.loop \in {"hook", "compress"}
    BY <1>1, <1>14 DEF ComponentInv, Loops
  <2>2. CASE stage.loop = "hook"
    <3>1. stage'.loop = "compress" /\ change' = change
      BY <1>1, <1>5, <2>2
    <3>2. \A x \in Nodes : Due(x) = ToSet(net.out[x]) /\ Due(x)' = {}
      BY <1>1, <2>2, <3>1 DEF Due
    <3>3. ~change => \A x \in Nodes : Settled(x)'
      BY <1>11, <2>1 DEF Hooked
    <3>4. ~change => \A x \in Nodes : \A v \in ToSet(net.out[x]) : comp[x] = comp[v]
      BY <1>1, <1>4, <2>1, <3>2 DEF Hooked
    <3>. QED
      BY <1>1, <3>1, <3>2, <3>3, <3>4 DEF Hooked
  <2>3. CASE stage.loop = "compress" /\ change
    <3>1. stage'.loop = "hook" /\ ahead' = Nodes
      BY <1>1, <1>5, <2>3
    <3>2. \A x \in Nodes : Settled(x)'
      BY <1>11, <1>12, <2>3 DEF Compressing
    <3>. QED
      BY <3>1, <3>2 DEF Hooked
  <2>4. CASE stage.loop = "compress" /\ ~change
    <3>1. stage'.loop = "end" /\ change' = change
      BY <1>1, <1>5, <2>4
    <3>2. \A x \in Nodes : Settled(x)'
      BY <1>11, <1>12, <2>4 DEF Compressing
    <3>3. \A x \in Nodes : \A v \in ToSet(net.out[x]) : comp[x] = comp[v]
      BY <2>1, <2>4 DEF Hooked
    <3>4. \A x \in Nodes : Due(x)' = {}
      BY <3>1 DEF Due
    <3>. QED
      BY <1>1, <2>4, <3>1, <3>2, <3>3, <3>4 DEF Hooked
  <2>. QED
    BY <1>2, <2>1, <2>2, <2>3, <2>4
<1>. QED
  BY <1>8, <1>9, <1>10, <1>13, <1>15, <1>16, <1>17 DEF ComponentInv

LEMMA ComponentsStart == ComponentsInit => ComponentInv
<1> SUFFICES ASSUME ComponentsInit
             PROVE  ComponentInv
  OBVIOUS
<1>1. /\ kernel \in {"afforest", "sv"} /\ net \in Networks
      /\ \A n \in Nodes : comp[n] = n
      /\ \A t \in Threads : hand[t] = Idle
      /\ ahead = Nodes /\ skipped = NoSkip /\ change = FALSE
      /\ stage.loop = IF kernel = "sv" THEN "hook" ELSE "sample"
      /\ stage.round = 1
  BY DEF ComponentsInit
<1>2. Idle \in Hands /\ Idle.at = "idle"
  BY IdleFields DEF Fields
<1>3. ComponentTypes
  BY <1>2 DEF ComponentsInit, ComponentTypes
<1>4. HandsFit
  <2>1. Placed(Idle) /\ Read(Idle) /\ Climbing(Idle) /\ Hooking(Idle)
    BY <1>2 DEF Placed, Read, Climbing, Hooking, Links, Climbs, Shortens
  <2>2. \A t \in Threads : HandFits(hand[t])
    BY <1>1, <2>1 DEF HandFits
  <2>. QED
    BY <1>1, <1>2, <2>2 DEF HandsFit, Keeps
<1>5. Descending
  BY <1>1, GraphsAssumption, TogetherLaws DEF Descending
<1>6. Compressed
  BY <1>1 DEF Compressed, Compressing
<1>7. Loops
  BY <1>1, RoundsAssumption DEF Loops
<1>8. AfforestLinks
  <2>1. kernel = "afforest" => Sampled
    <3> SUFFICES ASSUME kernel = "afforest", NEW u \in Nodes, NEW i \in DOMAIN net.out[u], i <= 0
                 PROVE  FALSE
      BY <1>1 DEF Sampled
    <3>. QED
      BY <1>3, GraphLists
  <2>. QED
    BY <1>1, <2>1 DEF AfforestLinks, Linked
<1>9. Hooked
  BY <1>1 DEF Hooked, Settled
<1>. QED
  BY <1>3, <1>4, <1>5, <1>6, <1>7, <1>8, <1>9 DEF ComponentInv

LEMMA ComponentsStep == ComponentInv /\ [ComponentsNext]_componentVars => ComponentInv'
<1> SUFFICES ASSUME ComponentInv, [ComponentsNext]_componentVars
             PROVE  ComponentInv'
  OBVIOUS
<1>1. ASSUME NEW t \in Threads, NEW u \in Nodes, Take(t, u)
      PROVE  ComponentInv'
  BY <1>1, TakeStep
<1>2. ASSUME NEW t \in Threads, FirstLabel(t) \/ SecondLabel(t)
      PROVE  ComponentInv'
  BY <1>2, FirstLabelStep, SecondLabelStep
<1>3. ASSUME NEW t \in Threads, HighParent(t) \/ CompareAndSwap(t)
      PROVE  ComponentInv'
  BY <1>3, HighParentStep, CompareAndSwapStep
<1>4. ASSUME NEW t \in Threads, UpOnce(t) \/ UpTwice(t) \/ LowParent(t)
      PROVE  ComponentInv'
  BY <1>4, UpOnceStep, UpTwiceStep, LowParentStep
<1>5. ASSUME NEW t \in Threads, RootTest(t) \/ Hook(t)
      PROVE  ComponentInv'
  BY <1>5, RootTestStep, HookStep
<1>6. ASSUME NEW t \in Threads, CompressTest(t) \/ GrandParent(t) \/ Shorten(t)
      PROVE  ComponentInv'
  BY <1>6, CompressTestStep, GrandParentStep, ShortenStep
<1>7. CASE Barrier
  BY <1>7, BarrierStep
<1>8. CASE UNCHANGED componentVars
  <2>1. UNCHANGED <<kernel, net, comp, hand, ahead, stage, skipped, change>>
    BY <1>8 DEF componentVars
  <2>2. /\ \A x, y : Together(x, y) <=> Together(x, y)'
        /\ \A x, y : Same(x, y) <=> Same(x, y)'
        /\ \A x : Settled(x) <=> Settled(x)'
        /\ \A k : Read(k) /\ Climbing(k) /\ Hooking(k) => Read(k)' /\ Climbing(k)' /\ Hooking(k)'
    BY <2>1, LabelsKept
  <2>3. /\ Linking' = Linking /\ Compressing' = Compressing
        /\ \A k : Placed(k) => Placed(k)'
        /\ \A x : Due(x)' = Due(x) /\ Rest(x)' = Rest(x)
    BY <2>1, ConstantsKept
  <2>4. /\ \A t, x : Keeps(t, x) <=> Keeps(t, x)'
        /\ \A x, v : Pending(x, v) <=> Pending(x, v)'
    BY <2>1 DEF Keeps, Pending
  <2>5. ComponentTypes' /\ Loops'
    BY <2>1 DEF ComponentInv, ComponentTypes, Loops
  <2>6. HandsFit'
    <3>1. \A k : HandFits(k) => HandFits(k)'
      BY <2>2, <2>3 DEF HandFits
    <3>2. \A t \in Threads : HandFits(hand[t])'
      <4>1. \A t \in Threads : \A k : k = hand[t] => HandFits(k)'
        BY <3>1 DEF ComponentInv, HandsFit
      <4>2. \A t \in Threads : \A k : k = hand'[t] => HandFits(k)'
        BY <2>1, <4>1
      <4>. QED
        BY <4>2
    <3>. QED
      BY <2>1, <2>4, <3>2 DEF ComponentInv, HandsFit
  <2>7. Descending' /\ Compressed'
    BY <2>1, <2>2, <2>3, <2>4 DEF ComponentInv, Descending, Compressed
  <2>8. AfforestLinks'
    <3>1. Sampled => Sampled'
      BY <2>1, <2>2 DEF Sampled
    <3>2. Linked => Linked'
      BY <2>1, <2>2, <2>3, <2>4 DEF Linked
    <3>3. AllLinked => AllLinked'
      BY <2>1, <2>2, <2>3 DEF AllLinked
    <3>. QED
      BY <2>1, <3>1, <3>2, <3>3 DEF ComponentInv, AfforestLinks
  <2>9. Hooked'
    BY <2>1, <2>2, <2>3, <2>4 DEF ComponentInv, Hooked
  <2>. QED
    BY <2>5, <2>6, <2>7, <2>8, <2>9 DEF ComponentInv
<1>. QED
  BY <1>1, <1>2, <1>3, <1>4, <1>5, <1>6, <1>7, <1>8 DEF ComponentsNext

\* When the loops are through, the ends of every edge have one label.
LEMMA EdgesAgree ==
    ASSUME ComponentInv, stage.loop = "end", NEW u \in Nodes, NEW v \in ToSet(net.out[u])
    PROVE  v \in Nodes /\ comp[u] = comp[v]
<1>1. ComponentTypes /\ kernel \in {"afforest", "sv"} /\ v \in Nodes
  BY GraphLists DEF ComponentInv, ComponentTypes
<1>2. CASE kernel = "sv"
  BY <1>1, <1>2 DEF ComponentInv, Hooked
<1>3. CASE kernel = "afforest"
  <2>1. Sampled /\ AllLinked /\ stage.round = NeighborRounds
    BY <1>3 DEF ComponentInv, AfforestLinks, Loops
  <2>2. \A x \in Nodes : \A i \in DOMAIN net.out[x] :
           \/ Same(x, net.out[x][i])
           \/ net.out[x][i] \in ToSet(Rest(x))
    <3> SUFFICES ASSUME NEW x \in Nodes, NEW i \in DOMAIN net.out[x], ~Same(x, net.out[x][i])
                 PROVE  net.out[x][i] \in ToSet(Rest(x))
      OBVIOUS
    <3>1. ~(i <= NeighborRounds)
      BY <2>1 DEF Sampled
    <3>2. i \in Nat
      BY <1>1, GraphLists
    <3>3. i > NeighborRounds
      BY <3>1, <3>2, RoundsAssumption
    <3>. QED
      BY <1>1, <3>3, RestNodes
  <2>3. \A x \in Nodes : \A y \in ToSet(net.out[x]) :
           Same(x, y) \/ Same(x, skipped)
    <3> SUFFICES ASSUME NEW x \in Nodes, NEW y \in ToSet(net.out[x])
                 PROVE  Same(x, y) \/ Same(x, skipped)
      OBVIOUS
    <3>1. PICK i \in DOMAIN net.out[x] : y = net.out[x][i]
      BY DEF ToSet
    <3>. QED
      BY <2>1, <2>2, <3>1 DEF AllLinked
  <2>4. Same(v, u) \/ Same(v, skipped)
    <3>1. CASE net.directed
      <4>1. u \in ToSet(Rest(v))
        BY <1>1, <3>1, RestNodes
      <4>. QED
        BY <1>1, <2>1, <4>1 DEF AllLinked
    <3>2. CASE ~net.directed
      <4>1. u \in ToSet(net.out[v])
        BY <1>1, <3>2, GraphLists
      <4>. QED
        BY <1>1, <2>3, <4>1
    <3>. QED
      BY <1>1, <3>1, <3>2, GraphLists
  <2>5. Same(u, v)
    BY <2>3, <2>4, SameLaws
  <2>6. \A n \in Nodes : comp[comp[n]] = comp[n] /\ comp[n] \in Nodes
    BY LabelNumbers DEF ComponentInv, Compressed, Settled
  <2> DEFINE C == {m \in Nodes : comp[m] = comp[u]}
  <2>7. C \in SUBSET Nodes /\ Whole(C, Nodes)
    BY <2>6 DEF Whole
  <2>8. u \in C <=> v \in C
    BY <2>5, <2>7 DEF Same, Tied
  <2>. QED
    BY <1>1, <2>8
<1>. QED
  BY <1>1, <1>2, <1>3

\* The components kernels: every label is one of a node of the component and
\* no higher than its node's, and in the end it is the component's least node.
LEMMA ComponentsFound == ComponentInv => ComponentsExact
<1> SUFFICES ASSUME ComponentInv, NEW n \in Nodes
             PROVE  /\ comp[n] # n => comp[n] < n /\ comp[n] \in Components[net][n]
                    /\ stage.loop = "end" => comp[n] = Min(Components[net][n])
  BY DEF ComponentsExact
<1>1. Components[net][n] = {v \in Nodes : Together(n, v)}
  BY ComponentIs DEF Components, ComponentInv, ComponentTypes
<1>2. comp[n] \in Nodes /\ comp[n] <= n /\ Together(n, comp[n]) /\ n \in Int /\ comp[n] \in Int
  BY LabelNumbers
<1>3. ASSUME stage.loop = "end"
      PROVE  comp[n] = Min(Components[net][n])
  <2> DEFINE C == {m \in Nodes : comp[m] = comp[n]}
  <2>1. C \in SUBSET Nodes /\ n \in C
    OBVIOUS
  <2>2. Enclosed(net, C)
    <3> SUFFICES ASSUME NEW u \in C, NEW v \in Nodes, Beside(net, u, v)
                 PROVE  comp[v] = comp[u]
      BY DEF Enclosed
    <3>. QED
      BY <1>3, EdgesAgree DEF Beside
  <2>3. ASSUME NEW v \in Nodes, Together(n, v)
        PROVE  comp[n] <= v
    <3>1. comp[v] = comp[n]
      BY <2>1, <2>2, <2>3 DEF Together
    <3>. QED
      BY <3>1, LabelNumbers
  <2>4. PICK S : S = Components[net][n]
    OBVIOUS
  <2>5. comp[n] \in S /\ S \subseteq Int /\ \A v \in S : comp[n] =< v
    BY <1>1, <1>2, <2>3, <2>4, LabelNumbers
  <2>6. \A x \in S : (\A y \in S : x =< y) => x = comp[n]
    BY <1>2, <2>5
  <2>7. comp[n] = Min(S)
    BY <2>5, <2>6 DEF Min
  <2>. QED
    BY <2>4, <2>7
<1>. QED
  BY <1>1, <1>2, <1>3

\* The threads of both component kernels, on any graph.
THEOREM ComponentsAreExact == ComponentsSpec => []ComponentsExact
<1>1. ComponentsSpec => []ComponentInv
  BY ComponentsStart, ComponentsStep, PTL DEF ComponentsSpec
<1>. QED
  BY <1>1, ComponentsFound, PTL
=============================================================================
