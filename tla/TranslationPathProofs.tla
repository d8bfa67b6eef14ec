------------------------- MODULE TranslationPathProofs -------------------------
(***************************************************************************)
(* TranslationPath for every set of pages and every size of its arrays     *)
(* that TranslationAssumption allows: who waits for a translation is named *)
(* by a packet for its page, and no packet is lost.                        *)
(*                                                                         *)
(* The run's property says that a waiter is named.  The invariant says the *)
(* converse too: whoever a packet names waits, for the page of the packet, *)
(* and in one packet only.  Without it a slot that is taken again could be *)
(* completed by an old packet, and the packets in a queue could not be     *)
(* counted by the requests they stand for.                                 *)
(***************************************************************************)
EXTENDS TranslationPath, FiniteSetTheorems, SequenceTheorems, WellFoundedInduction, TLAPS

Type == {Load, FromL1d}
Request ==
    [page : Page, type : Type, level : {1, 2}, first : Waiters \cup {Nobody},
     merged : SUBSET Waiters, returned : BOOLEAN, data : Page \cup {Waiting, Dropped}]

\* Queues and MSHRs alike are functions into packets.
InQueue(f, w) == \E k \in DOMAIN f : w \in Named(f[k])
Asks(f, p) == \E k \in DOMAIN f : f[k].page = p /\ f[k].level = 1
DistinctPages(f) == \A j, k \in DOMAIN f : f[j].page = f[k].page => j = k

Demands == Reads \cup Writes

\* In L1D's queues l, w waits for page p.
Waits(l, w, p) == l[w] # Free /\ l[w].pa = Waiting /\ l[w].page = p
NamedWait(l, f, S) == \A k \in DOMAIN f : \A w \in Named(f[k]) \cap S : Waits(l, w, f[k].page)

\* Packets of reads and writes, in DTLB; packets of STLB, of level 2 if no
\* read or write has joined the prefetch that came first.
OfDemand(d) == d.type = Load /\ d.level = 1 /\ Named(d) \subseteq Demands /\ d.first \in Demands
OfStlb(d) == (d.type = Load <=> d.level = 1) /\ (d.level = 2 => d.first \in Prefetches)

MshrType(f) ==
    /\ IsFiniteSet(DOMAIN f) /\ DOMAIN f \subseteq Page
    /\ \A p \in DOMAIN f : f[p] \in Request /\ f[p].page = p

TypeInv ==
    /\ l1 \in [Waiters -> [page : Page \cup {0}, pa : Page \cup {Waiting, Dropped}]]
    /\ \A w \in Waiters : l1[w] = Free \/ l1[w].page \in Page
    /\ pqHead \in 0..(PqSize - 1)
    /\ dtlbRq \in Seq(Request) /\ stlbRq \in Seq(Request)
    /\ dtlbDone \in Seq(Request) /\ stlbDone \in Seq(Request)
    /\ MshrType(dtlbMshr) /\ MshrType(stlbMshr)
    /\ DOMAIN walks \subseteq Page
    /\ failed = FALSE

\* Whoever a packet in DTLB names waits for its page, and in one packet only.
DtlbForms ==
    /\ DistinctPages(dtlbRq)
    /\ \A k \in DOMAIN dtlbRq : OfDemand(dtlbRq[k]) /\ ~dtlbRq[k].returned
    /\ \A p \in DOMAIN dtlbMshr :
        OfDemand(dtlbMshr[p]) /\ (dtlbMshr[p].returned => dtlbMshr[p].data = p)
    /\ \A k \in DOMAIN dtlbDone :
        OfDemand(dtlbDone[k]) /\ dtlbDone[k].data = dtlbDone[k].page

DtlbNames ==
    NamedWait(l1, dtlbRq, Demands) /\ NamedWait(l1, dtlbMshr, Demands)
        /\ NamedWait(l1, dtlbDone, Demands)

NotBoth(f, g, S) == \A w \in S : ~(InQueue(f, w) /\ InQueue(g, w))
Disjoint(f) == \A j, k \in DOMAIN f : j # k => Named(f[j]) \cap Named(f[k]) = {}

DtlbOnce ==
    /\ NotBoth(dtlbRq, dtlbMshr, Demands) /\ NotBoth(dtlbRq, dtlbDone, Demands)
    /\ NotBoth(dtlbMshr, dtlbDone, Demands)
    /\ Disjoint(dtlbDone)

\* The same for the prefetches a packet in STLB names.  In PROCESSED there may
\* be two copies of a packet; after the first one the requests wait no longer,
\* but their slots are not free yet.
Pending(l, f) == \A k \in DOMAIN f : \A w \in Named(f[k]) : l[w] # Free /\ l[w].page = f[k].page

StlbForms ==
    /\ DistinctPages(stlbRq)
    /\ \A k \in DOMAIN stlbRq : OfStlb(stlbRq[k])
    /\ \A p \in DOMAIN stlbMshr : OfStlb(stlbMshr[p])
    /\ \A k \in DOMAIN stlbDone :
        Named(stlbDone[k]) \subseteq Prefetches /\ stlbDone[k].data \in {stlbDone[k].page, Dropped}

StlbNames ==
    NamedWait(l1, stlbRq, Prefetches) /\ NamedWait(l1, stlbMshr, Prefetches)
        /\ Pending(l1, stlbDone)

StlbOnce ==
    /\ NotBoth(stlbRq, stlbMshr, Prefetches) /\ NotBoth(stlbRq, stlbDone, Prefetches)
    /\ NotBoth(stlbMshr, stlbDone, Prefetches)

\* DTLB waits for a page iff one packet of level 1 in STLB asks for it.
Unreturned(f, p) == p \in DOMAIN f /\ ~f[p].returned
Asked ==
    \A p \in Page :
        /\ Unreturned(dtlbMshr, p) <=> Asks(stlbRq, p) \/ Asks(stlbMshr, p)
        /\ ~(Asks(stlbRq, p) /\ Asks(stlbMshr, p))

\* PQ is a ring with n used slots from pqHead.
InWindow(h, n, j) == IF j >= h THEN j - h < n ELSE j + PqSize - h < n
RingOf(l, h, n) == \A j \in 0..(PqSize - 1) : l[<<"prefetch", j>>] # Free <=> InWindow(h, n, j)
Ring == \E n \in 0..PqSize : RingOf(l1, pqHead, n)

\* Whoever waits is named.
Awaits(l, w) == l[w] # Free /\ l[w].pa = Waiting
AllNamed(l, f, g, h, S) == \A w \in S : Awaits(l, w) => InQueue(f, w) \/ InQueue(g, w) \/ InQueue(h, w)
DtlbAll == AllNamed(l1, dtlbRq, dtlbMshr, dtlbDone, Demands)
StlbAll == AllNamed(l1, stlbRq, stlbMshr, stlbDone, Prefetches)

Answers ==
    \A w \in Waiters :
        l1[w].pa \in {Waiting, l1[w].page} \cup (IF w \in Prefetches THEN {Dropped} ELSE {})

IInv ==
    /\ TypeInv /\ DtlbForms /\ DtlbNames /\ DtlbOnce /\ StlbForms /\ StlbNames /\ StlbOnce
    /\ Asked /\ Ring /\ DtlbAll /\ StlbAll /\ Answers

-----------------------------------------------------------------------------
(* Waiters, and the packets that name them.                                *)

LEMMA Ranges ==
    /\ RqSize \in Nat /\ WqSize \in Nat /\ PqSize \in Nat /\ PqSize > 0
    /\ StlbRq \in Nat /\ DtlbMshr \in Nat /\ Processed \in Nat
    /\ StlbRq >= PqSize + DtlbMshr /\ Processed >= RqSize + WqSize
    /\ Page \subseteq Nat /\ 0 \notin Page
  BY TranslationAssumption

LEMMA WaiterKinds ==
    /\ Demands \cap Prefetches = {} /\ Waiters = Demands \cup Prefetches
    /\ Reads \subseteq Demands /\ Writes \subseteq Demands
    /\ Nobody \notin Waiters
    /\ \A j \in 0..(PqSize - 1) : <<"prefetch", j>> \in Prefetches
    /\ \A w \in Prefetches : \E j \in 0..(PqSize - 1) : w = <<"prefetch", j>>
  BY Ranges DEF Demands, Reads, Writes, Prefetches, Waiters, Nobody

LEMMA Slots ==
    ASSUME NEW name, NEW n \in Nat
    PROVE  IsFiniteSet({name} \X (0..(n - 1))) /\ Cardinality({name} \X (0..(n - 1))) = n
<1>. DEFINE S == {name} \X (0..(n - 1))
            f == [k \in 1..n |-> <<name, k - 1>>]
<1>1. f \in [1..n -> S]
  OBVIOUS
<1>2. f \in Injection(1..n, S)
  BY <1>1 DEF Injection, IsInjective
<1>3. \A x \in S : \E k \in 1..n : f[k] = x
  <2>. SUFFICES ASSUME NEW x \in S PROVE \E k \in 1..n : f[k] = x
    OBVIOUS
  <2>1. PICK j \in 0..(n - 1) : x = <<name, j>>
    OBVIOUS
  <2>2. j + 1 \in 1..n /\ f[j + 1] = x
    BY <2>1
  <2>. QED
    BY <2>2
<1>4. f \in Bijection(1..n, S)
  BY <1>1, <1>2, <1>3 DEF Bijection, Surjection
<1>5. ExistsBijection(1..n, S)
  BY <1>4 DEF ExistsBijection
<1>6. Cardinality(S) = n
  BY <1>5, FS_CountingElements
<1>7. IsFiniteSet(S)
  BY <1>5, FS_NatBijection
<1>. QED
  BY <1>6, <1>7

LEMMA Sizes ==
    /\ IsFiniteSet(Prefetches) /\ Cardinality(Prefetches) = PqSize
    /\ IsFiniteSet(Demands) /\ Cardinality(Demands) <= RqSize + WqSize
<1>1. /\ IsFiniteSet(Prefetches) /\ Cardinality(Prefetches) = PqSize
      /\ IsFiniteSet(Reads) /\ Cardinality(Reads) = RqSize
      /\ IsFiniteSet(Writes) /\ Cardinality(Writes) = WqSize
  BY Slots, Ranges DEF Prefetches, Reads, Writes
<1>2. IsFiniteSet(Demands) /\ Reads \cap Writes = {}
  BY <1>1, FS_Union DEF Demands, Reads, Writes
<1>3. IsFiniteSet(Reads \cap Writes) /\ Cardinality(Reads \cap Writes) = 0
  BY <1>2, FS_EmptySet
<1>4. Cardinality(Demands) = Cardinality(Reads) + Cardinality(Writes) - Cardinality(Reads \cap Writes)
  BY <1>1, FS_Union DEF Demands
<1>. QED
  BY <1>1, <1>2, <1>3, <1>4, Ranges

\* What a merge leaves of the two packets.
LEMMA MergeInRqIs ==
    ASSUME NEW e \in Request, NEW d \in Request
    PROVE  LET r == MergeInRq(e, d) IN
           /\ r \in Request /\ r.page = e.page /\ r.first = e.first
           /\ Named(r) = Named(e) \cup ({d.first} \ {Nobody})
           /\ r.level = 1 <=> e.level = 1 \/ d.level = 1
           /\ r.type = Load <=> e.type = Load \/ d.type = Load
           /\ r.returned = e.returned /\ r.data = e.data
<1>. DEFINE r == MergeInRq(e, d)
<1>1. r = [e EXCEPT !.merged = e.merged \cup ({d.first} \ {Nobody}),
                    !.level = IF d.level < e.level THEN d.level ELSE e.level,
                    !.type = IF d.type = Load THEN Load ELSE e.type]
  BY DEF MergeInRq, Request
<1>2. /\ r.page = e.page /\ r.first = e.first /\ r.merged = e.merged \cup ({d.first} \ {Nobody})
      /\ r.level = (IF d.level < e.level THEN d.level ELSE e.level)
      /\ r.type = (IF d.type = Load THEN Load ELSE e.type)
      /\ r.returned = e.returned /\ r.data = e.data
  BY <1>1 DEF Request
<1>3. r \in Request
  <2>1. /\ e.merged \cup ({d.first} \ {Nobody}) \in SUBSET Waiters
        /\ (IF d.level < e.level THEN d.level ELSE e.level) \in {1, 2}
        /\ (IF d.type = Load THEN Load ELSE e.type) \in Type
    BY DEF Request, Type
  <2>. QED
    BY <1>1, <2>1 DEF Request
<1>4. r.level = 1 <=> e.level = 1 \/ d.level = 1
  BY <1>2 DEF Request
<1>5. r.type = Load <=> e.type = Load \/ d.type = Load
  BY <1>2 DEF Request
<1>. QED
  BY <1>2, <1>3, <1>4, <1>5 DEF Named

LEMMA MergeInMshrIs ==
    ASSUME NEW e \in Request, NEW d \in Request
    PROVE  LET r == MergeInMshr(e, d) IN
           /\ r \in Request /\ r.page = e.page /\ r.first \in {e.first, d.first}
           /\ Named(r) = Named(e) \cup Named(d)
           /\ r.level = 1 <=> e.level = 1 \/ d.level = 1
           /\ r.type = Load <=> e.type = Load \/ d.type = Load
           /\ r.type # Load => r.first = e.first
           /\ r.returned = e.returned /\ r.data = e.data
<1>. DEFINE r == MergeInMshr(e, d)
            both == Named(e) \cup Named(d)
            least == IF d.level < e.level THEN d.level ELSE e.level
<1>0. both \subseteq Waiters /\ least \in {1, 2} /\ (least = 1 <=> e.level = 1 \/ d.level = 1)
  BY DEF Named, Request
<1>1. CASE e.type = FromL1d /\ d.type # FromL1d
  <2>1. r = [e EXCEPT !.type = d.type, !.level = least, !.first = d.first,
                      !.merged = both \ {d.first}]
    BY <1>1 DEF MergeInMshr, Request
  <2>2. /\ r.page = e.page /\ r.first = d.first /\ r.merged = both \ {d.first}
        /\ r.level = least /\ r.type = d.type /\ r.returned = e.returned /\ r.data = e.data
    BY <2>1 DEF Request
  <2>3. r \in Request
    BY <1>0, <2>1 DEF Request, Type
  <2>4. Named(r) = both
    BY <2>2 DEF Named
  <2>. QED
    BY <1>0, <1>1, <2>2, <2>3, <2>4 DEF Request, Type, Load, FromL1d
<1>2. CASE ~(e.type = FromL1d /\ d.type # FromL1d)
  <2>1. r = [e EXCEPT !.level = least, !.merged = both \ {e.first}]
    BY <1>2 DEF MergeInMshr, Request
  <2>2. /\ r.page = e.page /\ r.first = e.first /\ r.merged = both \ {e.first}
        /\ r.level = least /\ r.type = e.type /\ r.returned = e.returned /\ r.data = e.data
    BY <2>1 DEF Request
  <2>3. r \in Request
    BY <1>0, <2>1 DEF Request, Type
  <2>4. Named(r) = both
    BY <2>2 DEF Named
  <2>5. r.type = Load <=> e.type = Load \/ d.type = Load
    BY <1>2, <2>2 DEF Request, Type, Load, FromL1d
  <2>. QED
    BY <1>0, <2>2, <2>3, <2>4, <2>5
<1>. QED
  BY <1>1, <1>2

LEMMA PacketIs ==
    ASSUME NEW p \in Page, NEW type \in Type, NEW level \in {1, 2}, NEW w \in Waiters
    PROVE  LET d == Packet(p, type, level, w) IN
           /\ d \in Request /\ d.page = p /\ d.type = type /\ d.level = level
           /\ d.first = w /\ d.merged = {} /\ Named(d) = {w} /\ ~d.returned
<1>1. Nobody \notin Waiters
  BY WaiterKinds
<1>. QED
  BY <1>1 DEF Packet, Request, Named, Waiting

-----------------------------------------------------------------------------
(* What a queue or the MSHRs hold after a packet has come or gone.         *)

\* Queue r is q after packet d was added: to a packet for its page, or behind.
Joined(q, r, d) ==
    /\ r \in Seq(Request) /\ DOMAIN q \subseteq DOMAIN r
    /\ \A k \in DOMAIN r :
        \/ k \in DOMAIN q /\ q[k].page # d.page /\ r[k] = q[k]
        \/ k \in DOMAIN q /\ q[k].page = d.page /\ r[k] = MergeInRq(q[k], d)
        \/ k = Len(q) + 1 /\ r[k] = d /\ \A j \in DOMAIN q : q[j].page # d.page
    /\ \E k \in DOMAIN r : IF k \in DOMAIN q THEN q[k].page = d.page ELSE r[k] = d

LEMMA AddRqJoins ==
    ASSUME NEW q \in Seq(Request), NEW d \in Request
    PROVE  Joined(q, AddRq(q, d), d)
<1>. DEFINE same == {k \in DOMAIN q : q[k].page = d.page}
            r == AddRq(q, d)
<1>1. CASE same = {}
  <2>1. r = Append(q, d)
    BY <1>1 DEF AddRq
  <2>2. r \in Seq(Request) /\ Len(r) = Len(q) + 1 /\ r[Len(q) + 1] = d
        /\ \A k \in 1..Len(q) : r[k] = q[k]
    BY <2>1
  <2>3. DOMAIN q = 1..Len(q) /\ DOMAIN r = 1..(Len(q) + 1) /\ Len(q) \in Nat
    BY <2>2
  <2>4. \A j \in DOMAIN q : q[j].page # d.page
    BY <1>1
  <2>5. \A k \in DOMAIN r : k \notin DOMAIN q => k = Len(q) + 1
    BY <2>3
  <2>6. \A k \in DOMAIN r : IF k \in DOMAIN q THEN q[k].page # d.page /\ r[k] = q[k]
                            ELSE k = Len(q) + 1 /\ r[k] = d
    BY <2>2, <2>3, <2>4, <2>5
  <2>7. Len(q) + 1 \in DOMAIN r /\ Len(q) + 1 \notin DOMAIN q
    BY <2>3
  <2>8. DOMAIN q \subseteq DOMAIN r
    BY <2>3
  <2>. QED
    BY <2>2, <2>4, <2>6, <2>7, <2>8 DEF Joined
<1>2. CASE same # {}
  <2>1. r = [k \in DOMAIN q |-> IF k \in same THEN MergeInRq(q[k], d) ELSE q[k]]
    BY <1>2 DEF AddRq
  <2>2. \A k \in DOMAIN q : q[k] \in Request
    OBVIOUS
  <2>3. \A k \in DOMAIN q : (IF k \in same THEN MergeInRq(q[k], d) ELSE q[k]) \in Request
    BY <2>2, MergeInRqIs
  <2>4. r \in [1..Len(q) -> Request] /\ DOMAIN r = DOMAIN q
    BY <2>1, <2>3
  <2>5. r \in Seq(Request)
    BY <2>4
  <2>. QED
    BY <1>2, <2>1, <2>4, <2>5 DEF Joined
<1>. QED
  BY <1>1, <1>2

\* Where the names of the new queue come from.
LEMMA JoinedHolds ==
    ASSUME NEW q \in Seq(Request), NEW d \in Request, NEW r, Joined(q, r, d), DistinctPages(q)
    PROVE  /\ r \in Seq(Request) /\ DistinctPages(r)
           /\ \A w : w \notin d.merged =>
                (InQueue(r, w) <=> InQueue(q, w) \/ (w = d.first /\ w # Nobody))
           /\ \A p : Asks(r, p) <=> Asks(q, p) \/ (p = d.page /\ d.level = 1)
           /\ (\A k \in DOMAIN q : OfStlb(q[k])) /\ OfStlb(d) => \A k \in DOMAIN r : OfStlb(r[k])
           /\ (\A k \in DOMAIN q : OfDemand(q[k]) /\ ~q[k].returned) /\ OfDemand(d) /\ ~d.returned =>
                \A k \in DOMAIN r : OfDemand(r[k]) /\ ~r[k].returned
           /\ \A l, S : /\ NamedWait(l, q, S)
                        /\ d.merged \cap S = {}
                        /\ d.first \in S => Waits(l, d.first, d.page)
                        => NamedWait(l, r, S)
<1>1. /\ r \in Seq(Request) /\ DOMAIN q \subseteq DOMAIN r
      /\ \A k \in DOMAIN q : q[k] \in Request
  BY DEF Joined
<1>2. \A k \in DOMAIN q : q[k].page = d.page =>
        LET m == MergeInRq(q[k], d) IN
           /\ m.page = q[k].page /\ m.first = q[k].first
           /\ Named(m) = Named(q[k]) \cup ({d.first} \ {Nobody})
           /\ m.level = 1 <=> q[k].level = 1 \/ d.level = 1
           /\ m.type = Load <=> q[k].type = Load \/ d.type = Load
           /\ m.returned = q[k].returned
  BY <1>1, MergeInRqIs
<1>3. \A k \in DOMAIN r :
        \/ k \in DOMAIN q /\ q[k].page # d.page /\ r[k] = q[k]
        \/ /\ k \in DOMAIN q /\ q[k].page = d.page /\ r[k].page = d.page
           /\ r[k].first = q[k].first
           /\ Named(r[k]) = Named(q[k]) \cup ({d.first} \ {Nobody})
           /\ r[k].level = 1 <=> q[k].level = 1 \/ d.level = 1
           /\ r[k].type = Load <=> q[k].type = Load \/ d.type = Load
           /\ r[k].returned = q[k].returned
        \/ k = Len(q) + 1 /\ r[k] = d /\ \A j \in DOMAIN q : q[j].page # d.page
  BY <1>2 DEF Joined
<1>4. PICK m \in DOMAIN r : IF m \in DOMAIN q THEN q[m].page = d.page ELSE r[m] = d
  BY DEF Joined
<1>5. DistinctPages(r)
  <2>. SUFFICES ASSUME NEW j \in DOMAIN r, NEW k \in DOMAIN r, r[j].page = r[k].page
                PROVE  j = k
    BY DEF DistinctPages
  <2>1. CASE j \in DOMAIN q /\ k \in DOMAIN q
    <3>1. q[j].page = r[j].page /\ q[k].page = r[k].page
      BY <1>3, <2>1
    <3>. QED
      BY <2>1, <3>1 DEF DistinctPages
  <2>2. CASE j \notin DOMAIN q \/ k \notin DOMAIN q
    <3>1. \A i \in DOMAIN q : q[i].page # d.page
      BY <1>3, <2>2
    <3>2. r[j].page = d.page /\ r[k].page = d.page
      BY <1>3, <2>2, <3>1
    <3>3. j \notin DOMAIN q /\ k \notin DOMAIN q
      BY <1>3, <3>1, <3>2
    <3>. QED
      BY <1>3, <3>3
  <2>. QED
    BY <2>1, <2>2
<1>6. ASSUME NEW w, w \notin d.merged
      PROVE  InQueue(r, w) <=> InQueue(q, w) \/ (w = d.first /\ w # Nobody)
  <2>1. w \in Named(d) <=> w = d.first /\ w # Nobody
    BY <1>6 DEF Named
  <2>2. ASSUME NEW k \in DOMAIN r, w \in Named(r[k])
        PROVE  InQueue(q, w) \/ (w = d.first /\ w # Nobody)
    BY <1>3, <2>1, <2>2 DEF InQueue
  <2>3. ASSUME NEW k \in DOMAIN q, w \in Named(q[k])
        PROVE  k \in DOMAIN r /\ w \in Named(r[k])
    <3>1. k \in DOMAIN r /\ k # Len(q) + 1
      BY <1>1
    <3>. QED
      BY <1>3, <2>3, <3>1
  <2>4. ASSUME w = d.first, w # Nobody PROVE w \in Named(r[m])
    BY <1>1, <1>3, <1>4, <2>1, <2>4
  <2>. QED
    BY <2>2, <2>3, <2>4 DEF InQueue
<1>7. ASSUME NEW p
      PROVE  Asks(r, p) <=> Asks(q, p) \/ (p = d.page /\ d.level = 1)
  <2>2. ASSUME NEW k \in DOMAIN r, r[k].page = p, r[k].level = 1
        PROVE  Asks(q, p) \/ (p = d.page /\ d.level = 1)
    BY <1>3, <2>2 DEF Asks
  <2>3. ASSUME NEW k \in DOMAIN q, q[k].page = p, q[k].level = 1
        PROVE  k \in DOMAIN r /\ r[k].page = p /\ r[k].level = 1
    <3>1. k \in DOMAIN r /\ k # Len(q) + 1
      BY <1>1
    <3>. QED
      BY <1>3, <2>3, <3>1
  <2>4. ASSUME p = d.page, d.level = 1 PROVE r[m].page = p /\ r[m].level = 1
    BY <1>1, <1>3, <1>4, <2>4
  <2>. QED
    BY <2>2, <2>3, <2>4 DEF Asks
<1>8. ASSUME \A k \in DOMAIN q : OfStlb(q[k]), OfStlb(d), NEW k \in DOMAIN r
      PROVE  OfStlb(r[k])
  <2>0. r[k] \in Request
    BY <1>1
  <2>1. r[k].level \in {1, 2} /\ d.level \in {1, 2}
    BY <2>0 DEF Request
  <2>2. CASE k \in DOMAIN q
    <3>1. OfStlb(q[k]) /\ q[k].level \in {1, 2}
      BY <1>1, <1>8, <2>2 DEF Request
    <3>. QED
      BY <1>3, <1>8, <2>1, <2>2, <3>1 DEF OfStlb
  <2>3. CASE k \notin DOMAIN q
    BY <1>3, <1>8, <2>3
  <2>. QED
    BY <2>2, <2>3
<1>9. ASSUME \A k \in DOMAIN q : OfDemand(q[k]) /\ ~q[k].returned, OfDemand(d), ~d.returned,
             NEW k \in DOMAIN r
      PROVE  OfDemand(r[k]) /\ ~r[k].returned
  <2>2. CASE k \in DOMAIN q
    <3>1. OfDemand(q[k]) /\ ~q[k].returned
      BY <1>9, <2>2
    <3>2. {d.first} \ {Nobody} \subseteq Demands
      BY <1>9 DEF OfDemand
    <3>. QED
      BY <1>3, <1>9, <2>2, <3>1, <3>2 DEF OfDemand
  <2>3. CASE k \notin DOMAIN q
    BY <1>3, <1>9, <2>3
  <2>. QED
    BY <2>2, <2>3
<1>10. ASSUME NEW l, NEW S, NamedWait(l, q, S), d.merged \cap S = {},
              d.first \in S => Waits(l, d.first, d.page)
       PROVE  NamedWait(l, r, S)
  <2>. SUFFICES ASSUME NEW k \in DOMAIN r, NEW w \in Named(r[k]) \cap S
                PROVE  Waits(l, w, r[k].page)
    BY DEF NamedWait
  <2>1. w = d.first => Waits(l, w, d.page)
    BY <1>10
  <2>2. w \in Named(d) => w = d.first
    BY <1>10 DEF Named
  <2>3. k \in DOMAIN q /\ w \in Named(q[k]) => Waits(l, w, q[k].page)
    BY <1>10 DEF NamedWait
  <2>. QED
    BY <1>3, <2>1, <2>2, <2>3
<1>. QED
  BY <1>1, <1>5, <1>6, <1>7, <1>8, <1>9, <1>10

\* The first packet goes.
LEMMA TailHolds ==
    ASSUME NEW q \in Seq(Request), q # << >>
    PROVE  LET r == Tail(q)
               d == Head(q)
           IN  /\ r \in Seq(Request) /\ d \in Request /\ d = q[1] /\ 1 \in DOMAIN q
               /\ \A w : InQueue(q, w) <=> InQueue(r, w) \/ w \in Named(d)
               /\ \A p : Asks(q, p) <=> Asks(r, p) \/ (p = d.page /\ d.level = 1)
               /\ DistinctPages(q) => DistinctPages(r) /\ \A k \in DOMAIN r : r[k].page # d.page
               /\ \A k \in DOMAIN r : k + 1 \in DOMAIN q /\ r[k] = q[k + 1]
               /\ \A l, S : NamedWait(l, q, S) => NamedWait(l, r, S)
               /\ \A l : Pending(l, q) => Pending(l, r)
               /\ Disjoint(q) => Disjoint(r) /\ \A w \in Named(d) : ~InQueue(r, w)
<1>. DEFINE r == Tail(q)
            d == Head(q)
<1>1. /\ r \in Seq(Request) /\ d \in Request /\ d = q[1] /\ Len(q) \in Nat /\ Len(q) >= 1
      /\ DOMAIN q = 1..Len(q) /\ DOMAIN r = 1..(Len(q) - 1)
  OBVIOUS
<1>2. \A k \in DOMAIN r : k + 1 \in DOMAIN q /\ k + 1 # 1 /\ r[k] = q[k + 1]
  BY <1>1
<1>3. \A k \in DOMAIN q : k = 1 \/ (k - 1 \in DOMAIN r /\ r[k - 1] = q[k])
  BY <1>1
<1>4. 1 \in DOMAIN q
  BY <1>1
<1>5. \A j, k \in DOMAIN r : j + 1 = k + 1 => j = k
  BY <1>1
<1>6. ASSUME NEW w PROVE InQueue(q, w) <=> InQueue(r, w) \/ w \in Named(d)
  BY <1>1, <1>2, <1>3, <1>4 DEF InQueue
<1>7. ASSUME NEW p PROVE Asks(q, p) <=> Asks(r, p) \/ (p = d.page /\ d.level = 1)
  <2>1. ASSUME NEW k \in DOMAIN q, q[k].page = p, q[k].level = 1
        PROVE  Asks(r, p) \/ (p = d.page /\ d.level = 1)
    BY <1>1, <1>3, <2>1 DEF Asks
  <2>2. ASSUME NEW k \in DOMAIN r, r[k].page = p, r[k].level = 1 PROVE Asks(q, p)
    BY <1>2, <2>2 DEF Asks
  <2>3. p = d.page /\ d.level = 1 => Asks(q, p)
    BY <1>1, <1>4 DEF Asks
  <2>. QED
    BY <2>1, <2>2, <2>3 DEF Asks
<1>8. ASSUME DistinctPages(q) PROVE DistinctPages(r) /\ \A k \in DOMAIN r : r[k].page # d.page
  BY <1>1, <1>2, <1>4, <1>5, <1>8 DEF DistinctPages
<1>9. ASSUME NEW l, NEW S, NamedWait(l, q, S) PROVE NamedWait(l, r, S)
  BY <1>2, <1>9 DEF NamedWait
<1>10. ASSUME NEW l, Pending(l, q) PROVE Pending(l, r)
  BY <1>2, <1>10 DEF Pending
<1>11. ASSUME Disjoint(q) PROVE Disjoint(r) /\ \A w \in Named(d) : ~InQueue(r, w)
  BY <1>1, <1>2, <1>4, <1>5, <1>11 DEF Disjoint, InQueue
<1>. QED
  BY <1>1, <1>2, <1>4, <1>6, <1>7, <1>8, <1>9, <1>10, <1>11

\* A packet is put behind the others.
LEMMA AppendHolds ==
    ASSUME NEW q \in Seq(Request), NEW d \in Request
    PROVE  LET r == Append(q, d) IN
           /\ r \in Seq(Request)
           /\ \A w : InQueue(r, w) <=> InQueue(q, w) \/ w \in Named(d)
           /\ \A k \in DOMAIN r : r[k] = d \/ (k \in DOMAIN q /\ r[k] = q[k])
           /\ Disjoint(q) /\ (\A w \in Named(d) : ~InQueue(q, w)) => Disjoint(r)
<1>. DEFINE r == Append(q, d)
<1>1. /\ r \in Seq(Request) /\ Len(q) \in Nat
      /\ DOMAIN q = 1..Len(q) /\ DOMAIN r = 1..(Len(q) + 1) /\ r[Len(q) + 1] = d
      /\ \A k \in 1..Len(q) : r[k] = q[k]
  OBVIOUS
<1>2. \A k \in DOMAIN r : (k = Len(q) + 1 /\ r[k] = d) \/ (k \in DOMAIN q /\ r[k] = q[k])
  BY <1>1
<1>3. \A k \in DOMAIN q : k \in DOMAIN r /\ r[k] = q[k]
  BY <1>1
<1>4. Len(q) + 1 \in DOMAIN r /\ r[Len(q) + 1] = d
  BY <1>1
<1>5. ASSUME NEW w PROVE InQueue(r, w) <=> InQueue(q, w) \/ w \in Named(d)
  BY <1>2, <1>3, <1>4 DEF InQueue
<1>6. ASSUME Disjoint(q), \A w \in Named(d) : ~InQueue(q, w) PROVE Disjoint(r)
  BY <1>2, <1>6 DEF Disjoint, InQueue
<1>. QED
  BY <1>1, <1>2, <1>5, <1>6

\* No copy of a packet, one, or two go to PROCESSED of STLB.
Copies(n, d) == [k \in 1..n |-> d]

\* Queue r is q with n copies of d behind.
Copied(q, r, d, n) ==
    /\ r \in Seq(Request)
    /\ \A w : InQueue(r, w) <=> InQueue(q, w) \/ (n > 0 /\ w \in Named(d))
    /\ \A k \in DOMAIN r : (n > 0 /\ r[k] = d) \/ (k \in DOMAIN q /\ r[k] = q[k])

LEMMA CopiesHold ==
    ASSUME NEW q \in Seq(Request), NEW d \in Request, NEW n \in {0, 1, 2},
           NEW r, r = q \o Copies(n, d)
    PROVE  Copied(q, r, d, n)
<1>. DEFINE c == Copies(n, d)
<1>1. c \in Seq(Request) /\ Len(c) = n /\ \A k \in 1..n : c[k] = d
  BY DEF Copies
<1>2. /\ r \in Seq(Request) /\ Len(q) \in Nat
      /\ DOMAIN q = 1..Len(q) /\ DOMAIN r = 1..(Len(q) + n)
      /\ \A k \in 1..Len(q) : r[k] = q[k]
      /\ \A k \in (Len(q) + 1)..(Len(q) + n) : r[k] = d
  BY <1>1
<1>3. \A k \in DOMAIN r : (n > 0 /\ r[k] = d) \/ (k \in DOMAIN q /\ r[k] = q[k])
  BY <1>2
<1>4. \A k \in DOMAIN q : k \in DOMAIN r /\ r[k] = q[k]
  BY <1>2
<1>5. n > 0 => Len(q) + 1 \in DOMAIN r /\ r[Len(q) + 1] = d
  BY <1>2
<1>6. ASSUME NEW w PROVE InQueue(r, w) <=> InQueue(q, w) \/ (n > 0 /\ w \in Named(d))
  BY <1>3, <1>4, <1>5 DEF InQueue
<1>. QED
  BY <1>2, <1>3, <1>6 DEF Copied

\* A miss gets an MSHR: g are the MSHRs f and d.
Allocated(f, g, p, d) ==
    /\ MshrType(g) /\ DOMAIN g = DOMAIN f \cup {p}
    /\ g[p] = d /\ \A x \in DOMAIN f : g[x] = f[x] /\ x # p
    /\ \A w : InQueue(g, w) <=> InQueue(f, w) \/ w \in Named(d)
    /\ \A x : Asks(g, x) <=> Asks(f, x) \/ (x = p /\ d.level = 1)

LEMMA WithHolds ==
    ASSUME NEW f, MshrType(f), NEW d \in Request, NEW p, p = d.page, p \notin DOMAIN f,
           NEW g, g = With(f, p, d)
    PROVE  Allocated(f, g, p, d)
<1>0. p \in Page
  BY DEF Request
<1>1. /\ DOMAIN g = DOMAIN f \cup {p} /\ g[p] = d
      /\ \A x \in DOMAIN f : g[x] = f[x] /\ x # p
  BY DEF With
<1>2. IsFiniteSet(DOMAIN g)
  BY <1>1, FS_AddElement DEF MshrType
<1>3. MshrType(g)
  BY <1>0, <1>1, <1>2 DEF MshrType
<1>4. ASSUME NEW w PROVE InQueue(g, w) <=> InQueue(f, w) \/ w \in Named(d)
  BY <1>1 DEF InQueue
<1>5. ASSUME NEW x PROVE Asks(g, x) <=> Asks(f, x) \/ (x = p /\ d.level = 1)
  BY <1>1 DEF Asks
<1>. QED
  BY <1>1, <1>3, <1>4, <1>5 DEF Allocated

LEMMA WithNames ==
    ASSUME NEW f, NEW d, NEW p, p = d.page, p \notin DOMAIN f, NEW g, g = With(f, p, d),
           NEW l, NEW S, NamedWait(l, f, S), \A w \in Named(d) \cap S : Waits(l, w, p)
    PROVE  NamedWait(l, g, S)
  BY DEF NamedWait, With

\* An MSHR is released: g are the MSHRs f but that of p.
Released(f, g, p) ==
    /\ MshrType(g) /\ DOMAIN g = DOMAIN f \ {p} /\ \A x \in DOMAIN g : g[x] = f[x]
    /\ \A w : InQueue(f, w) <=> InQueue(g, w) \/ w \in Named(f[p])
    /\ \A x : Asks(f, x) <=> Asks(g, x) \/ (x = p /\ f[p].level = 1)
    /\ ~Asks(g, p)

LEMMA WithoutHolds ==
    ASSUME NEW f, MshrType(f), NEW p, p \in DOMAIN f, NEW g, g = Without(f, p)
    PROVE  Released(f, g, p)
<1>1. DOMAIN g = DOMAIN f \ {p} /\ \A x \in DOMAIN g : g[x] = f[x] /\ x # p
  BY DEF Without, Restrict
<1>2. IsFiniteSet(DOMAIN g)
  BY <1>1, FS_Subset DEF MshrType
<1>3. MshrType(g)
  BY <1>1, <1>2 DEF MshrType
<1>4. ASSUME NEW w PROVE InQueue(f, w) <=> InQueue(g, w) \/ w \in Named(f[p])
  BY <1>1 DEF InQueue
<1>5. \A x \in DOMAIN f : f[x].page = x
  BY DEF MshrType
<1>6. ASSUME NEW x
      PROVE  /\ Asks(f, x) <=> Asks(g, x) \/ (x = p /\ f[p].level = 1)
             /\ x = p => ~Asks(g, x)
  BY <1>1, <1>5 DEF Asks
<1>. QED
  BY <1>1, <1>3, <1>4, <1>6 DEF Released

LEMMA WithoutNames ==
    ASSUME NEW f, NEW p, NEW g, g = Without(f, p), NEW l, NEW S, NamedWait(l, f, S)
    PROVE  NamedWait(l, g, S)
  BY DEF NamedWait, Without, Restrict

\* An MSHR takes over another packet, or gets its answer.
Changed(f, g, p, d) ==
    /\ MshrType(g) /\ DOMAIN g = DOMAIN f /\ g[p] = d
    /\ \A x \in DOMAIN f : x # p => g[x] = f[x]
    /\ \A w : InQueue(g, w) <=> InQueue(f, w) \/ w \in Named(d)
    /\ \A x : Asks(g, x) <=> Asks(f, x) \/ (x = p /\ d.level = 1)

LEMMA ChangeHolds ==
    ASSUME NEW f, MshrType(f), NEW p \in DOMAIN f, NEW d \in Request, d.page = p,
           Named(f[p]) \subseteq Named(d), f[p].level = 1 => d.level = 1,
           NEW g, g = [f EXCEPT ![p] = d]
    PROVE  Changed(f, g, p, d)
<1>1. DOMAIN g = DOMAIN f /\ g[p] = d /\ \A x \in DOMAIN f : x # p => g[x] = f[x]
  OBVIOUS
<1>2. MshrType(g)
  BY <1>1 DEF MshrType
<1>3. ASSUME NEW w PROVE InQueue(g, w) <=> InQueue(f, w) \/ w \in Named(d)
  BY <1>1 DEF InQueue
<1>4. f[p].page = p
  BY DEF MshrType
<1>5. ASSUME NEW x PROVE Asks(g, x) <=> Asks(f, x) \/ (x = p /\ d.level = 1)
  BY <1>1, <1>4 DEF Asks
<1>. QED
  BY <1>1, <1>2, <1>3, <1>5 DEF Changed

-----------------------------------------------------------------------------
(* What does not change.                                                   *)

LEMMA NamedWaitMoves ==
    ASSUME NEW l, NEW m, NEW f, NEW S, NamedWait(l, f, S),
           \A w \in S : InQueue(f, w) => m[w] = l[w]
    PROVE  NamedWait(m, f, S)
  BY DEF NamedWait, InQueue, Waits

LEMMA DtlbFrame ==
    ASSUME DtlbForms, DtlbNames, DtlbOnce, DtlbAll, UNCHANGED dtlbVars,
           \A w \in Demands : l1'[w] = l1[w]
    PROVE  DtlbForms' /\ DtlbNames' /\ DtlbOnce' /\ DtlbAll'
<1>1. dtlbRq' = dtlbRq /\ dtlbMshr' = dtlbMshr /\ dtlbDone' = dtlbDone
  BY DEF dtlbVars
<1>2. DtlbForms' /\ DtlbOnce'
  BY <1>1 DEF DtlbForms, DtlbOnce
<1>3. DtlbNames'
  BY <1>1, NamedWaitMoves DEF DtlbNames
<1>4. DtlbAll'
  BY <1>1 DEF DtlbAll, AllNamed, Awaits
<1>. QED
  BY <1>2, <1>3, <1>4

LEMMA StlbFrame ==
    ASSUME StlbForms, StlbNames, StlbOnce, StlbAll, UNCHANGED stlbVars,
           \A w \in Prefetches : l1'[w] = l1[w]
    PROVE  StlbForms' /\ StlbNames' /\ StlbOnce' /\ StlbAll'
<1>1. stlbRq' = stlbRq /\ stlbMshr' = stlbMshr /\ stlbDone' = stlbDone
  BY DEF stlbVars
<1>2. StlbForms' /\ StlbOnce'
  BY <1>1 DEF StlbForms, StlbOnce
<1>3. Pending(l1', stlbDone)
  BY DEF StlbForms, StlbNames, Pending
<1>4. StlbNames'
  BY <1>1, <1>3, NamedWaitMoves DEF StlbNames
<1>5. StlbAll'
  BY <1>1 DEF StlbAll, AllNamed, Awaits
<1>. QED
  BY <1>2, <1>4, <1>5

LEMMA RingFrame ==
    ASSUME Ring, pqHead' = pqHead, \A w \in Prefetches : l1'[w] = Free <=> l1[w] = Free
    PROVE  Ring'
<1>1. PICK n \in 0..PqSize : RingOf(l1, pqHead, n)
  BY DEF Ring
<1>2. RingOf(l1', pqHead', n)
  BY <1>1, WaiterKinds DEF RingOf
<1>. QED
  BY <1>2 DEF Ring

LEMMA FreeIs == Free.page = 0 /\ Free.pa = Waiting
  BY DEF Free

\* A request or its completion changes one slot, or some of them.
LEMMA L1Type ==
    ASSUME TypeInv, NEW w \in Waiters, NEW p \in Page, NEW pa \in Page \cup {Waiting, Dropped}
    PROVE  LET e == [page |-> p, pa |-> pa]
               m == [l1 EXCEPT ![w] = e]
               z == [l1 EXCEPT ![w] = Free]
           IN  /\ e # Free
               /\ m \in [Waiters -> [page : Page \cup {0}, pa : Page \cup {Waiting, Dropped}]]
               /\ \A x \in Waiters : m[x] = Free \/ m[x].page \in Page
               /\ m[w] = e /\ \A x \in Waiters : x # w => m[x] = l1[x]
               /\ z \in [Waiters -> [page : Page \cup {0}, pa : Page \cup {Waiting, Dropped}]]
               /\ \A x \in Waiters : z[x] = Free \/ z[x].page \in Page
               /\ z[w] = Free /\ \A x \in Waiters : x # w => z[x] = l1[x]
  BY Ranges DEF TypeInv, Free

LEMMA RequestSlot ==
    ASSUME TypeInv, NEW w \in Waiters, NEW p \in Page
    PROVE  LET m == [l1 EXCEPT ![w] = [page |-> p, pa |-> Waiting]] IN
           /\ m \in [Waiters -> [page : Page \cup {0}, pa : Page \cup {Waiting, Dropped}]]
           /\ \A x \in Waiters : m[x] = Free \/ m[x].page \in Page
           /\ Waits(m, w, p) /\ \A x \in Waiters : x # w => m[x] = l1[x]
<1>. DEFINE e == [page |-> p, pa |-> Waiting]
            m == [l1 EXCEPT ![w] = e]
<1>1. /\ e # Free /\ m[w] = e /\ \A x \in Waiters : x # w => m[x] = l1[x]
      /\ m \in [Waiters -> [page : Page \cup {0}, pa : Page \cup {Waiting, Dropped}]]
      /\ \A x \in Waiters : m[x] = Free \/ m[x].page \in Page
  BY L1Type
<1>2. e.page = p /\ e.pa = Waiting
  OBVIOUS
<1>. QED
  BY <1>1, <1>2 DEF Waits

LEMMA LeastExists ==
    ASSUME NEW S \in SUBSET Nat, S # {}
    PROVE  \E x \in S : \A y \in S : x <= y
<1>1. IsWellFoundedOn(OpToRel(<, Nat), Nat)
  BY NatLessThanWellFounded
<1>2. PICK x \in S : \A y \in S : ~(<<y, x>> \in OpToRel(<, Nat))
  BY <1>1, WFMin
<1>3. ASSUME NEW y \in S PROVE x <= y
  <2>1. y \in Nat /\ x \in Nat /\ ~(y < x)
    BY <1>2 DEF OpToRel
  <2>. QED
    BY <2>1
<1>. QED
  BY <1>3

LEMMA LowestIs ==
    ASSUME NEW name, NEW n \in Nat, NEW Q, Q = {name} \X (0..(n - 1)), FreeSlots(Q) # {}
    PROVE  LowestFree(Q) \in Q /\ l1[LowestFree(Q)] = Free
<1>. DEFINE F == FreeSlots(Q)
<1>0. PICK N : N = {k \in 0..(n - 1) : <<name, k>> \in F}
  OBVIOUS
<1>1. F \subseteq Q /\ \A w \in F : l1[w] = Free
  BY DEF FreeSlots
<1>2. \A w \in F : \E k \in N : w = <<name, k>>
  <2>. SUFFICES ASSUME NEW w \in F PROVE \E k \in N : w = <<name, k>>
    OBVIOUS
  <2>1. w \in {name} \X (0..(n - 1))
    BY <1>1
  <2>2. PICK k \in 0..(n - 1) : w = <<name, k>>
    BY <2>1
  <2>. QED
    BY <1>0, <2>2
<1>3. N \in SUBSET Nat /\ N # {}
  <2>1. PICK w \in F : TRUE
    OBVIOUS
  <2>2. N # {}
    BY <1>2, <2>1
  <2>3. \A k \in N : k \in Nat
    BY <1>0
  <2>. QED
    BY <2>2, <2>3
<1>4. PICK k \in N : \A j \in N : k <= j
  BY <1>3, LeastExists
<1>5. <<name, k>> \in F /\ \A x \in F : <<name, k>>[2] <= x[2]
  <2>1. ASSUME NEW x \in F PROVE k <= x[2]
    <3>1. PICK j \in N : x = <<name, j>>
      BY <1>2
    <3>2. x[2] = j
      BY <3>1
    <3>. QED
      BY <1>4, <3>2
  <2>2. <<name, k>>[2] = k
    OBVIOUS
  <2>3. <<name, k>> \in F
    BY <1>0
  <2>. QED
    BY <2>1, <2>2, <2>3
<1>6. LowestFree(Q) \in F
  BY <1>5 DEF LowestFree
<1>. QED
  BY <1>1, <1>6

-----------------------------------------------------------------------------
(* L1D.                                                                    *)

LEMMA AddDemandInv ==
    ASSUME IInv, NEW queue \in {Reads, Writes}, NEW p \in Page, AddDemand(queue, p)
    PROVE  IInv'
<1>0. /\ TypeInv /\ DtlbForms /\ DtlbNames /\ DtlbOnce /\ StlbForms /\ StlbNames /\ StlbOnce
      /\ Asked /\ Ring /\ DtlbAll /\ StlbAll /\ Answers
  BY DEF IInv
<1>1. PICK w : w = LowestFree(queue)
  OBVIOUS
<1>2. w \in queue /\ l1[w] = Free
  BY <1>1, LowestIs, Ranges DEF AddDemand, Reads, Writes
<1>3. w \in Demands /\ w \in Waiters /\ w \notin Prefetches
  BY <1>2, WaiterKinds
<1>4. PICK d : d = Packet(p, Load, 1, w)
  OBVIOUS
<1>5. d \in Request /\ d.page = p /\ d.type = Load /\ d.level = 1 /\ d.first = w
        /\ d.merged = {} /\ Named(d) = {w} /\ ~d.returned
  BY <1>3, <1>4, PacketIs DEF Type
<1>6. PICK r : r = AddRq(dtlbRq, d)
  OBVIOUS
<1>7. dtlbRq \in Seq(Request) /\ DistinctPages(dtlbRq)
  BY <1>0 DEF TypeInv, DtlbForms
<1>8. Joined(dtlbRq, r, d)
  BY <1>5, <1>6, <1>7, AddRqJoins
<1>9. PICK m : m = [l1 EXCEPT ![w] = [page |-> p, pa |-> Waiting]]
  OBVIOUS
<1>10. /\ l1' = m /\ dtlbRq' = r /\ pqHead' = pqHead /\ UNCHANGED stlbVars
       /\ dtlbMshr' = dtlbMshr /\ dtlbDone' = dtlbDone /\ walks' = walks /\ failed' = failed
  BY <1>1, <1>4, <1>6, <1>9 DEF AddDemand
<1>11. /\ m \in [Waiters -> [page : Page \cup {0}, pa : Page \cup {Waiting, Dropped}]]
       /\ \A x \in Waiters : m[x] = Free \/ m[x].page \in Page
       /\ Waits(m, w, p) /\ \A x \in Waiters : x # w => m[x] = l1[x]
  BY <1>0, <1>3, <1>9, RequestSlot
<1>12. ~InQueue(dtlbRq, w) /\ ~InQueue(dtlbMshr, w) /\ ~InQueue(dtlbDone, w)
  BY <1>0, <1>2, <1>3 DEF DtlbNames, NamedWait, InQueue, Waits
<1>13. OfDemand(d)
  BY <1>3, <1>5 DEF OfDemand
<1>14. /\ r \in Seq(Request) /\ DistinctPages(r)
       /\ \A x : InQueue(r, x) <=> InQueue(dtlbRq, x) \/ (x = w /\ x # Nobody)
       /\ \A k \in DOMAIN r : OfDemand(r[k]) /\ ~r[k].returned
  BY <1>0, <1>5, <1>7, <1>8, <1>13, JoinedHolds DEF DtlbForms
<1>15. TypeInv'
  <2>1. stlbRq' = stlbRq /\ stlbMshr' = stlbMshr /\ stlbDone' = stlbDone
    BY <1>10 DEF stlbVars
  <2>. QED
    BY <1>0, <1>10, <1>11, <1>14, <2>1 DEF TypeInv
<1>16. DtlbForms'
  BY <1>0, <1>10, <1>14 DEF DtlbForms
<1>17. DtlbNames'
  <2>1. NamedWait(m, dtlbRq, Demands) /\ NamedWait(m, dtlbMshr, Demands)
          /\ NamedWait(m, dtlbDone, Demands)
    BY <1>0, <1>11, <1>12, NamedWaitMoves, WaiterKinds DEF DtlbNames
  <2>2. NamedWait(m, r, Demands)
    BY <1>5, <1>7, <1>8, <1>11, <2>1, JoinedHolds
  <2>. QED
    BY <1>10, <2>1, <2>2 DEF DtlbNames
<1>18. DtlbOnce'
  BY <1>0, <1>10, <1>12, <1>14 DEF DtlbOnce, NotBoth
<1>19. StlbForms' /\ StlbNames' /\ StlbOnce' /\ StlbAll'
  BY <1>0, <1>3, <1>10, <1>11, StlbFrame, WaiterKinds
<1>20. Asked'
  BY <1>0, <1>10 DEF Asked, stlbVars
<1>21. Ring'
  BY <1>0, <1>3, <1>10, <1>11, RingFrame, WaiterKinds
<1>22. DtlbAll'
  <2>1. w # Nobody
    BY <1>3, WaiterKinds
  <2>. QED
    BY <1>0, <1>10, <1>11, <1>14, <2>1, WaiterKinds DEF DtlbAll, AllNamed, Awaits
<1>23. Answers'
  BY <1>0, <1>3, <1>10, <1>11 DEF Answers, Waits
<1>. QED
  BY <1>15, <1>16, <1>17, <1>18, <1>19, <1>20, <1>21, <1>22, <1>23 DEF IInv

\* The ring of PQ: what Used counts, the slot after the last, the slot of the
\* first.
LEMMA Modulus ==
    ASSUME NEW n \in Nat, n > 0, NEW x \in 0..(2 * n - 1)
    PROVE  x % n = IF x < n THEN x ELSE x - n
  OBVIOUS

Place(h, k) == IF h + k < PqSize THEN h + k ELSE h + k - PqSize

LEMMA RingCounts ==
    ASSUME NEW h \in 0..(PqSize - 1), NEW n \in 0..PqSize, RingOf(l1, h, n)
    PROVE  Used(Prefetches) = n /\ (FreeSlots(Prefetches) # {} => n < PqSize)
<1>. DEFINE U == {w \in Prefetches : l1[w] # Free}
            f == [k \in 1..n |-> <<"prefetch", Place(h, k - 1)>>]
<1>1. \A k \in 1..n : /\ Place(h, k - 1) \in 0..(PqSize - 1)
                      /\ InWindow(h, n, Place(h, k - 1))
  BY Ranges DEF Place, InWindow
<1>2. \A j, k \in 1..n : Place(h, j - 1) = Place(h, k - 1) => j = k
  BY Ranges DEF Place
<1>3. \A j \in 0..(PqSize - 1) : InWindow(h, n, j) => \E k \in 1..n : j = Place(h, k - 1)
  <2>. SUFFICES ASSUME NEW j \in 0..(PqSize - 1), InWindow(h, n, j)
                PROVE  \E k \in 1..n : j = Place(h, k - 1)
    OBVIOUS
  <2>1. CASE j >= h
    <3>1. j - h + 1 \in 1..n /\ j = Place(h, (j - h + 1) - 1)
      BY <2>1, Ranges DEF InWindow, Place
    <3>. QED
      BY <3>1
  <2>2. CASE j < h
    <3>1. j + PqSize - h + 1 \in 1..n /\ j = Place(h, (j + PqSize - h + 1) - 1)
      BY <2>2, Ranges DEF InWindow, Place
    <3>. QED
      BY <3>1
  <2>. QED
    BY <2>1, <2>2
<1>4. \A k \in 1..n : f[k] \in U
  BY <1>1, WaiterKinds DEF RingOf
<1>5. f \in Injection(1..n, U)
  BY <1>2, <1>4 DEF Injection, IsInjective
<1>6. \A w \in U : \E k \in 1..n : f[k] = w
  <2>. SUFFICES ASSUME NEW w \in U PROVE \E k \in 1..n : f[k] = w
    OBVIOUS
  <2>1. PICK j \in 0..(PqSize - 1) : w = <<"prefetch", j>>
    BY WaiterKinds
  <2>2. InWindow(h, n, j)
    BY <2>1 DEF RingOf
  <2>. QED
    BY <1>3, <2>1, <2>2
<1>7. f \in Bijection(1..n, U)
  BY <1>4, <1>5, <1>6 DEF Bijection, Surjection
<1>8. ExistsBijection(1..n, U)
  BY <1>7 DEF ExistsBijection
<1>9. Cardinality(U) = n
  BY <1>8, FS_CountingElements
<1>10. Prefetches \cap U = U /\ Prefetches \ U = FreeSlots(Prefetches)
  BY DEF FreeSlots
<1>11. Cardinality(FreeSlots(Prefetches)) = PqSize - n /\ IsFiniteSet(FreeSlots(Prefetches))
  BY <1>9, <1>10, Sizes, FS_Difference, FS_Subset
<1>12. FreeSlots(Prefetches) # {} => Cardinality(FreeSlots(Prefetches)) # 0
  BY <1>11, FS_EmptySet
<1>13. Used(Prefetches) = n
  BY <1>11, Sizes, Ranges DEF Used
<1>. QED
  BY <1>11, <1>12, <1>13, Ranges

LEMMA RingAdds ==
    ASSUME NEW h \in 0..(PqSize - 1), NEW n \in 0..PqSize, n < PqSize
    PROVE  LET t == (h + n) % PqSize IN
           /\ t \in 0..(PqSize - 1) /\ ~InWindow(h, n, t)
           /\ \A j \in 0..(PqSize - 1) : InWindow(h, n + 1, j) <=> InWindow(h, n, j) \/ j = t
<1>1. PICK t : t = (h + n) % PqSize
  OBVIOUS
<1>2. t = IF h + n < PqSize THEN h + n ELSE h + n - PqSize
  BY <1>1, Modulus, Ranges
<1>3. /\ t \in 0..(PqSize - 1) /\ ~InWindow(h, n, t)
      /\ \A j \in 0..(PqSize - 1) : InWindow(h, n + 1, j) <=> InWindow(h, n, j) \/ j = t
  BY <1>2, Ranges DEF InWindow
<1>. QED
  BY <1>1, <1>3

LEMMA RingRemoves ==
    ASSUME NEW h \in 0..(PqSize - 1), NEW n \in 0..PqSize, InWindow(h, n, h)
    PROVE  LET t == (h + 1) % PqSize IN
           /\ t \in 0..(PqSize - 1) /\ n - 1 \in 0..PqSize
           /\ \A j \in 0..(PqSize - 1) : InWindow(t, n - 1, j) <=> InWindow(h, n, j) /\ j # h
<1>1. PICK t : t = (h + 1) % PqSize
  OBVIOUS
<1>2. t = IF h + 1 < PqSize THEN h + 1 ELSE h + 1 - PqSize
  BY <1>1, Modulus, Ranges
<1>3. /\ t \in 0..(PqSize - 1) /\ n - 1 \in 0..PqSize
      /\ \A j \in 0..(PqSize - 1) : InWindow(t, n - 1, j) <=> InWindow(h, n, j) /\ j # h
  BY <1>2, Ranges DEF InWindow
<1>. QED
  BY <1>1, <1>3

LEMMA AddPrefetchInv ==
    ASSUME IInv, NEW p \in Page, AddPrefetch(p)
    PROVE  IInv'
<1>0. /\ TypeInv /\ DtlbForms /\ DtlbNames /\ DtlbOnce /\ StlbForms /\ StlbNames /\ StlbOnce
      /\ Asked /\ Ring /\ DtlbAll /\ StlbAll /\ Answers
  BY DEF IInv
<1>1. PICK n \in 0..PqSize : RingOf(l1, pqHead, n)
  BY <1>0 DEF Ring
<1>2. pqHead \in 0..(PqSize - 1)
  BY <1>0 DEF TypeInv
<1>3. Used(Prefetches) = n /\ n < PqSize
  BY <1>1, <1>2, RingCounts DEF AddPrefetch
<1>4. PICK t : t = (pqHead + n) % PqSize
  OBVIOUS
<1>5. /\ t \in 0..(PqSize - 1) /\ ~InWindow(pqHead, n, t)
      /\ \A j \in 0..(PqSize - 1) :
            InWindow(pqHead, n + 1, j) <=> InWindow(pqHead, n, j) \/ j = t
  BY <1>2, <1>3, <1>4, RingAdds
<1>6. PICK w : w = <<"prefetch", t>>
  OBVIOUS
<1>7. l1[w] = Free
  BY <1>1, <1>5, <1>6 DEF RingOf
<1>8. w \in Prefetches /\ w \in Waiters /\ w \notin Demands
  BY <1>5, <1>6, WaiterKinds
<1>9. PICK d : d = Packet(p, FromL1d, 2, w)
  OBVIOUS
<1>10. d \in Request /\ d.page = p /\ d.type = FromL1d /\ d.level = 2 /\ d.first = w
        /\ d.merged = {} /\ Named(d) = {w}
  BY <1>8, <1>9, PacketIs DEF Type
<1>11. PICK r : r = AddRq(stlbRq, d)
  OBVIOUS
<1>12. stlbRq \in Seq(Request) /\ DistinctPages(stlbRq)
  BY <1>0 DEF TypeInv, StlbForms
<1>13. Joined(stlbRq, r, d)
  BY <1>10, <1>11, <1>12, AddRqJoins
<1>14. PICK m : m = [l1 EXCEPT ![w] = [page |-> p, pa |-> Waiting]]
  OBVIOUS
<1>15. /\ l1' = m /\ stlbRq' = r /\ pqHead' = pqHead /\ UNCHANGED dtlbVars
       /\ stlbMshr' = stlbMshr /\ stlbDone' = stlbDone /\ walks' = walks /\ failed' = failed
  BY <1>3, <1>4, <1>6, <1>9, <1>11, <1>14 DEF AddPrefetch
<1>16. /\ m \in [Waiters -> [page : Page \cup {0}, pa : Page \cup {Waiting, Dropped}]]
       /\ \A x \in Waiters : m[x] = Free \/ m[x].page \in Page
       /\ Waits(m, w, p) /\ \A x \in Waiters : x # w => m[x] = l1[x]
  BY <1>0, <1>8, <1>14, RequestSlot
<1>17. ~InQueue(stlbRq, w) /\ ~InQueue(stlbMshr, w) /\ ~InQueue(stlbDone, w)
  BY <1>0, <1>7, <1>8 DEF StlbNames, NamedWait, Pending, InQueue, Waits
<1>18. OfStlb(d)
  BY <1>8, <1>10 DEF OfStlb, Load, FromL1d
<1>19. /\ r \in Seq(Request) /\ DistinctPages(r)
       /\ \A x : InQueue(r, x) <=> InQueue(stlbRq, x) \/ (x = w /\ x # Nobody)
       /\ \A x : Asks(r, x) <=> Asks(stlbRq, x)
       /\ \A k \in DOMAIN r : OfStlb(r[k])
  BY <1>0, <1>10, <1>12, <1>13, <1>18, JoinedHolds DEF StlbForms
<1>20. TypeInv'
  <2>1. dtlbRq' = dtlbRq /\ dtlbMshr' = dtlbMshr /\ dtlbDone' = dtlbDone
    BY <1>15 DEF dtlbVars
  <2>. QED
    BY <1>0, <1>15, <1>16, <1>19, <2>1 DEF TypeInv
<1>21. StlbForms'
  BY <1>0, <1>15, <1>19 DEF StlbForms
<1>22. StlbNames'
  <2>1. NamedWait(m, stlbRq, Prefetches) /\ NamedWait(m, stlbMshr, Prefetches)
    BY <1>0, <1>16, <1>17, NamedWaitMoves, WaiterKinds DEF StlbNames
  <2>2. NamedWait(m, r, Prefetches)
    BY <1>10, <1>12, <1>13, <1>16, <2>1, JoinedHolds
  <2>3. Pending(m, stlbDone)
    BY <1>0, <1>16, <1>17, WaiterKinds DEF StlbNames, StlbForms, Pending, InQueue
  <2>. QED
    BY <1>15, <2>1, <2>2, <2>3 DEF StlbNames
<1>23. StlbOnce'
  BY <1>0, <1>15, <1>17, <1>19 DEF StlbOnce, NotBoth
<1>24. DtlbForms' /\ DtlbNames' /\ DtlbOnce' /\ DtlbAll'
  BY <1>0, <1>8, <1>15, <1>16, DtlbFrame, WaiterKinds
<1>25. Asked'
  BY <1>0, <1>15, <1>19 DEF Asked, dtlbVars
<1>26. Ring'
  <2>1. \A j \in 0..(PqSize - 1) : m[<<"prefetch", j>>] # Free <=> InWindow(pqHead, n + 1, j)
    <3>. SUFFICES ASSUME NEW j \in 0..(PqSize - 1)
                  PROVE  m[<<"prefetch", j>>] # Free <=> InWindow(pqHead, n + 1, j)
      OBVIOUS
    <3>1. <<"prefetch", j>> \in Waiters /\ (<<"prefetch", j>> = w <=> j = t)
      BY <1>6, WaiterKinds
    <3>. QED
      BY <1>1, <1>5, <1>16, <3>1 DEF RingOf, Waits
  <2>2. RingOf(m, pqHead, n + 1) /\ n + 1 \in 0..PqSize
    BY <1>3, <2>1, Ranges DEF RingOf
  <2>. QED
    BY <1>15, <2>2 DEF Ring
<1>27. StlbAll'
  <2>1. w # Nobody
    BY <1>8, WaiterKinds
  <2>. QED
    BY <1>0, <1>15, <1>16, <1>19, <2>1, WaiterKinds DEF StlbAll, AllNamed, Awaits
<1>28. Answers'
  BY <1>0, <1>8, <1>15, <1>16 DEF Answers, Waits
<1>. QED
  BY <1>20, <1>21, <1>22, <1>23, <1>24, <1>25, <1>26, <1>27, <1>28 DEF IInv

\* A request of L1D whose translation has come, or was dropped, is taken.
LEMMA AccessInv ==
    ASSUME IInv, NEW w \in Waiters, Access(w)
    PROVE  IInv'
<1>0. /\ TypeInv /\ DtlbForms /\ DtlbNames /\ DtlbOnce /\ StlbForms /\ StlbNames /\ StlbOnce
      /\ Asked /\ Ring /\ DtlbAll /\ StlbAll /\ Answers
  BY DEF IInv
<1>1. w \in Demands /\ w \notin Prefetches /\ l1[w].pa # Waiting
  BY WaiterKinds DEF Access, Demands
<1>2. PICK m : m = [l1 EXCEPT ![w] = Free]
  OBVIOUS
<1>3. /\ l1' = m /\ pqHead' = pqHead /\ UNCHANGED dtlbVars /\ UNCHANGED stlbVars
      /\ walks' = walks /\ failed' = failed
  BY <1>2 DEF Access
<1>4. /\ dtlbRq' = dtlbRq /\ dtlbMshr' = dtlbMshr /\ dtlbDone' = dtlbDone
      /\ stlbRq' = stlbRq /\ stlbMshr' = stlbMshr /\ stlbDone' = stlbDone
  BY <1>3 DEF dtlbVars, stlbVars
<1>5. /\ m \in [Waiters -> [page : Page \cup {0}, pa : Page \cup {Waiting, Dropped}]]
      /\ \A x \in Waiters : m[x] = Free \/ m[x].page \in Page
      /\ m[w] = Free /\ \A x \in Waiters : x # w => m[x] = l1[x]
  <2>1. l1[w].page \in Page
    BY <1>0, <1>1, FreeIs DEF TypeInv
  <2>. QED
    BY <1>0, <1>2, <2>1, L1Type
<1>6. ~InQueue(dtlbRq, w) /\ ~InQueue(dtlbMshr, w) /\ ~InQueue(dtlbDone, w)
  BY <1>0, <1>1 DEF DtlbNames, NamedWait, InQueue, Waits
<1>7. TypeInv'
  BY <1>0, <1>3, <1>4, <1>5 DEF TypeInv
<1>8. DtlbForms' /\ DtlbOnce'
  BY <1>0, <1>4 DEF DtlbForms, DtlbOnce
<1>9. DtlbNames'
  <2>1. NamedWait(m, dtlbRq, Demands) /\ NamedWait(m, dtlbMshr, Demands)
          /\ NamedWait(m, dtlbDone, Demands)
    BY <1>0, <1>5, <1>6, NamedWaitMoves, WaiterKinds DEF DtlbNames
  <2>. QED
    BY <1>3, <1>4, <2>1 DEF DtlbNames
<1>10. DtlbAll'
  BY <1>0, <1>3, <1>4, <1>5, WaiterKinds DEF DtlbAll, AllNamed, Awaits
<1>11. StlbForms' /\ StlbNames' /\ StlbOnce' /\ StlbAll'
  BY <1>0, <1>1, <1>3, <1>5, StlbFrame, WaiterKinds
<1>12. Asked'
  BY <1>0, <1>4 DEF Asked
<1>13. Ring'
  BY <1>0, <1>1, <1>3, <1>5, RingFrame, WaiterKinds
<1>14. Answers'
  BY <1>0, <1>1, <1>3, <1>5, FreeIs DEF Answers
<1>. QED
  BY <1>7, <1>8, <1>9, <1>10, <1>11, <1>12, <1>13, <1>14 DEF IInv

LEMMA HandlePrefetchInv ==
    ASSUME IInv, HandlePrefetch
    PROVE  IInv'
<1>0. /\ TypeInv /\ DtlbForms /\ DtlbNames /\ DtlbOnce /\ StlbForms /\ StlbNames /\ StlbOnce
      /\ Asked /\ Ring /\ DtlbAll /\ StlbAll /\ Answers
  BY DEF IInv
<1>1. PICK w : w = <<"prefetch", pqHead>>
  OBVIOUS
<1>2. pqHead \in 0..(PqSize - 1)
  BY <1>0 DEF TypeInv
<1>3. w \in Prefetches /\ w \notin Demands /\ w \in Waiters /\ l1[w].pa # Waiting
      /\ \A d \in Range(stlbDone) : w \notin Named(d)
  BY <1>1, <1>2, WaiterKinds DEF HandlePrefetch
<1>4. PICK m : m = [l1 EXCEPT ![w] = Free]
  OBVIOUS
<1>5. /\ l1' = m /\ pqHead' = (pqHead + 1) % PqSize /\ UNCHANGED dtlbVars /\ UNCHANGED stlbVars
      /\ walks' = walks /\ failed' = failed
  BY <1>1, <1>4 DEF HandlePrefetch
<1>6. /\ dtlbRq' = dtlbRq /\ dtlbMshr' = dtlbMshr /\ dtlbDone' = dtlbDone
      /\ stlbRq' = stlbRq /\ stlbMshr' = stlbMshr /\ stlbDone' = stlbDone
  BY <1>5 DEF dtlbVars, stlbVars
<1>7. l1[w] # Free /\ l1[w].page \in Page
  BY <1>0, <1>3, FreeIs DEF TypeInv
<1>8. /\ m \in [Waiters -> [page : Page \cup {0}, pa : Page \cup {Waiting, Dropped}]]
      /\ \A x \in Waiters : m[x] = Free \/ m[x].page \in Page
      /\ m[w] = Free /\ \A x \in Waiters : x # w => m[x] = l1[x]
  BY <1>0, <1>3, <1>4, <1>7, L1Type
<1>9. ~InQueue(stlbRq, w) /\ ~InQueue(stlbMshr, w)
  BY <1>0, <1>3 DEF StlbNames, NamedWait, InQueue, Waits
<1>10. ~InQueue(stlbDone, w)
  BY <1>3 DEF InQueue, Range
<1>11. PICK n \in 0..PqSize : RingOf(l1, pqHead, n)
  BY <1>0 DEF Ring
<1>12. InWindow(pqHead, n, pqHead)
  BY <1>1, <1>2, <1>7, <1>11 DEF RingOf
<1>13. PICK t : t = (pqHead + 1) % PqSize
  OBVIOUS
<1>14. /\ t \in 0..(PqSize - 1) /\ n - 1 \in 0..PqSize
       /\ \A j \in 0..(PqSize - 1) :
            InWindow(t, n - 1, j) <=> InWindow(pqHead, n, j) /\ j # pqHead
  BY <1>2, <1>12, <1>13, RingRemoves
<1>15. TypeInv'
  BY <1>0, <1>5, <1>6, <1>8, <1>13, <1>14 DEF TypeInv
<1>16. Ring'
  <2>1. \A j \in 0..(PqSize - 1) : m[<<"prefetch", j>>] # Free <=> InWindow(t, n - 1, j)
    <3>. SUFFICES ASSUME NEW j \in 0..(PqSize - 1)
                  PROVE  m[<<"prefetch", j>>] # Free <=> InWindow(t, n - 1, j)
      OBVIOUS
    <3>1. <<"prefetch", j>> \in Waiters /\ (<<"prefetch", j>> = w <=> j = pqHead)
      BY <1>1, WaiterKinds
    <3>. QED
      BY <1>8, <1>11, <1>14, <3>1 DEF RingOf
  <2>2. RingOf(m, t, n - 1)
    BY <2>1 DEF RingOf
  <2>. QED
    BY <1>5, <1>13, <1>14, <2>2 DEF Ring
<1>17. StlbForms' /\ StlbOnce'
  BY <1>0, <1>6 DEF StlbForms, StlbOnce
<1>18. StlbNames'
  <2>1. NamedWait(m, stlbRq, Prefetches) /\ NamedWait(m, stlbMshr, Prefetches)
    BY <1>0, <1>8, <1>9, NamedWaitMoves, WaiterKinds DEF StlbNames
  <2>2. Pending(m, stlbDone)
    BY <1>0, <1>8, <1>10, WaiterKinds DEF StlbNames, StlbForms, Pending, InQueue
  <2>. QED
    BY <1>5, <1>6, <2>1, <2>2 DEF StlbNames
<1>19. StlbAll'
  BY <1>0, <1>5, <1>6, <1>8, WaiterKinds DEF StlbAll, AllNamed, Awaits
<1>20. DtlbForms' /\ DtlbNames' /\ DtlbOnce' /\ DtlbAll'
  BY <1>0, <1>3, <1>5, <1>8, DtlbFrame, WaiterKinds
<1>21. Asked'
  BY <1>0, <1>6 DEF Asked
<1>22. Answers'
  BY <1>0, <1>3, <1>5, <1>8, FreeIs DEF Answers
<1>. QED
  BY <1>15, <1>16, <1>17, <1>18, <1>19, <1>20, <1>21, <1>22 DEF IInv

\* In m the requests in C have the answer v.
IsCompletion(m, l, C, v) ==
    m = [w \in Waiters |-> IF w \in C THEN [l[w] EXCEPT !.pa = v] ELSE l[w]]

LEMMA CompletedSlots ==
    ASSUME TypeInv, NEW C, C \subseteq Waiters, NEW p \in Page,
           NEW v \in Page \cup {Waiting, Dropped}, NEW m,
           \A w \in C : l1[w] # Free /\ l1[w].page = p,
           IsCompletion(m, l1, C, v)
    PROVE  /\ m \in [Waiters -> [page : Page \cup {0}, pa : Page \cup {Waiting, Dropped}]]
           /\ \A w \in Waiters : m[w] = Free \/ m[w].page \in Page
           /\ \A w \in C : m[w] # Free /\ m[w].page = p /\ m[w].pa = v
           /\ \A w \in Waiters : w \notin C => m[w] = l1[w]
<1>0. m = [w \in Waiters |-> IF w \in C THEN [l1[w] EXCEPT !.pa = v] ELSE l1[w]]
  BY DEF IsCompletion
<1>1. ASSUME NEW w \in C
      PROVE  /\ [l1[w] EXCEPT !.pa = v] \in [page : Page \cup {0}, pa : Page \cup {Waiting, Dropped}]
             /\ [l1[w] EXCEPT !.pa = v].page = p /\ [l1[w] EXCEPT !.pa = v].pa = v
  <2>1. l1[w] \in [page : Page \cup {0}, pa : Page \cup {Waiting, Dropped}] /\ l1[w].page = p
    BY DEF TypeInv
  <2>. QED
    BY <2>1
<1>2. \A w \in C : m[w].page = p /\ m[w].pa = v /\ m[w] # Free
  BY <1>0, <1>1, Ranges, FreeIs
<1>3. \A w \in Waiters : w \notin C => m[w] = l1[w]
  BY <1>0
<1>4. ASSUME NEW w \in Waiters
      PROVE  m[w] \in [page : Page \cup {0}, pa : Page \cup {Waiting, Dropped}]
  <2>1. l1[w] \in [page : Page \cup {0}, pa : Page \cup {Waiting, Dropped}]
    BY DEF TypeInv
  <2>. QED
    BY <1>0, <1>1, <2>1
<1>5. m \in [Waiters -> [page : Page \cup {0}, pa : Page \cup {Waiting, Dropped}]]
  BY <1>0, <1>4
<1>6. \A w \in Waiters : m[w] = Free \/ m[w].page \in Page
  BY <1>2, <1>3 DEF TypeInv
<1>. QED
  BY <1>2, <1>3, <1>5, <1>6

LEMMA ProcessDtlbInv ==
    ASSUME IInv, ProcessDtlb
    PROVE  IInv'
<1>0. /\ TypeInv /\ DtlbForms /\ DtlbNames /\ DtlbOnce /\ StlbForms /\ StlbNames /\ StlbOnce
      /\ Asked /\ Ring /\ DtlbAll /\ StlbAll /\ Answers
  BY DEF IInv
<1>1. dtlbDone # << >> /\ dtlbDone \in Seq(Request)
  BY <1>0 DEF ProcessDtlb, TypeInv
<1>2. PICK d, r : d = Head(dtlbDone) /\ r = Tail(dtlbDone)
  OBVIOUS
<1>3. /\ r \in Seq(Request) /\ d \in Request /\ d = dtlbDone[1] /\ 1 \in DOMAIN dtlbDone
      /\ \A w : InQueue(dtlbDone, w) <=> InQueue(r, w) \/ w \in Named(d)
      /\ \A k \in DOMAIN r : k + 1 \in DOMAIN dtlbDone /\ r[k] = dtlbDone[k + 1]
      /\ NamedWait(l1, r, Demands)
      /\ Disjoint(r) /\ \A w \in Named(d) : ~InQueue(r, w)
  BY <1>0, <1>1, <1>2, TailHolds DEF DtlbOnce, DtlbNames
<1>4. OfDemand(d) /\ d.data = d.page /\ d.page \in Page
  BY <1>0, <1>3 DEF DtlbForms, Request
<1>5. Named(d) \subseteq Demands /\ Named(d) \subseteq Waiters
      /\ \A w \in Named(d) : Waits(l1, w, d.page)
  BY <1>0, <1>3, <1>4, WaiterKinds DEF OfDemand, DtlbNames, NamedWait
<1>6. Completed(d) = Named(d)
  BY <1>5 DEF Completed, Waits
<1>7. PICK m : m = [w \in Waiters |-> IF w \in Named(d) THEN [l1[w] EXCEPT !.pa = d.page] ELSE l1[w]]
  OBVIOUS
<1>8. /\ l1' = m /\ dtlbDone' = r /\ dtlbRq' = dtlbRq /\ dtlbMshr' = dtlbMshr
      /\ pqHead' = pqHead /\ UNCHANGED stlbVars /\ walks' = walks /\ failed' = failed
  BY <1>2, <1>4, <1>6, <1>7 DEF ProcessDtlb
<1>9. /\ m \in [Waiters -> [page : Page \cup {0}, pa : Page \cup {Waiting, Dropped}]]
      /\ \A w \in Waiters : m[w] = Free \/ m[w].page \in Page
      /\ \A w \in Named(d) : m[w] # Free /\ m[w].page = d.page /\ m[w].pa = d.page
      /\ \A w \in Waiters : w \notin Named(d) => m[w] = l1[w]
  <2>1. PICK C, p : C = Named(d) /\ p = d.page
    OBVIOUS
  <2>2. C \subseteq Waiters /\ p \in Page /\ p \in Page \cup {Waiting, Dropped}
          /\ \A w \in C : l1[w] # Free /\ l1[w].page = p
    BY <1>4, <1>5, <2>1 DEF Waits
  <2>3. IsCompletion(m, l1, C, p)
    BY <1>7, <2>1 DEF IsCompletion
  <2>4. /\ m \in [Waiters -> [page : Page \cup {0}, pa : Page \cup {Waiting, Dropped}]]
        /\ \A w \in Waiters : m[w] = Free \/ m[w].page \in Page
        /\ \A w \in C : m[w] # Free /\ m[w].page = p /\ m[w].pa = p
        /\ \A w \in Waiters : w \notin C => m[w] = l1[w]
    BY <1>0, <2>2, <2>3, CompletedSlots
  <2>. QED
    BY <2>1, <2>4
<1>10. \A w \in Named(d) : ~InQueue(dtlbRq, w) /\ ~InQueue(dtlbMshr, w)
  BY <1>0, <1>3, <1>5 DEF DtlbOnce, NotBoth
<1>11. TypeInv'
  BY <1>0, <1>3, <1>8, <1>9 DEF TypeInv, stlbVars
<1>12. DtlbForms'
  BY <1>0, <1>3, <1>8 DEF DtlbForms
<1>13. DtlbNames'
  <2>1. \A w \in Demands : InQueue(r, w) \/ InQueue(dtlbRq, w) \/ InQueue(dtlbMshr, w) => m[w] = l1[w]
    BY <1>3, <1>9, <1>10, WaiterKinds
  <2>2. NamedWait(m, dtlbRq, Demands) /\ NamedWait(m, dtlbMshr, Demands)
    BY <1>0, <2>1, NamedWaitMoves DEF DtlbNames
  <2>3. NamedWait(m, r, Demands)
    BY <1>3, <2>1, NamedWaitMoves
  <2>. QED
    BY <1>8, <2>2, <2>3 DEF DtlbNames
<1>14. DtlbOnce'
  BY <1>0, <1>3, <1>8 DEF DtlbOnce, NotBoth
<1>15. DtlbAll'
  <2>. SUFFICES ASSUME NEW w \in Demands, Awaits(m, w)
                PROVE  InQueue(dtlbRq, w) \/ InQueue(dtlbMshr, w) \/ InQueue(r, w)
    BY <1>8 DEF DtlbAll, AllNamed
  <2>1. w \notin Named(d)
    BY <1>4, <1>9, Ranges DEF Awaits, Waiting
  <2>2. Awaits(l1, w)
    BY <1>9, <2>1, WaiterKinds DEF Awaits
  <2>. QED
    BY <1>0, <1>3, <2>1, <2>2 DEF DtlbAll, AllNamed
<1>16. \A w \in Prefetches : m[w] = l1[w]
  BY <1>5, <1>9, WaiterKinds
<1>17. StlbForms' /\ StlbNames' /\ StlbOnce' /\ StlbAll'
  BY <1>0, <1>8, <1>16, StlbFrame
<1>18. Asked'
  BY <1>0, <1>8 DEF Asked, stlbVars
<1>19. Ring'
  BY <1>0, <1>8, <1>16, RingFrame
<1>20. Answers'
  BY <1>0, <1>8, <1>9 DEF Answers
<1>. QED
  BY <1>11, <1>12, <1>13, <1>14, <1>15, <1>17, <1>18, <1>19, <1>20 DEF IInv

LEMMA ProcessStlbInv ==
    ASSUME IInv, ProcessStlb
    PROVE  IInv'
<1>0. /\ TypeInv /\ DtlbForms /\ DtlbNames /\ DtlbOnce /\ StlbForms /\ StlbNames /\ StlbOnce
      /\ Asked /\ Ring /\ DtlbAll /\ StlbAll /\ Answers
  BY DEF IInv
<1>1. stlbDone # << >> /\ stlbDone \in Seq(Request)
  BY <1>0 DEF ProcessStlb, TypeInv
<1>2. PICK d, r : d = Head(stlbDone) /\ r = Tail(stlbDone)
  OBVIOUS
<1>3. /\ r \in Seq(Request) /\ d \in Request /\ d = stlbDone[1] /\ 1 \in DOMAIN stlbDone
      /\ \A w : InQueue(stlbDone, w) <=> InQueue(r, w) \/ w \in Named(d)
      /\ \A k \in DOMAIN r : k + 1 \in DOMAIN stlbDone /\ r[k] = stlbDone[k + 1]
      /\ Pending(l1, r)
  BY <1>0, <1>1, <1>2, TailHolds DEF StlbNames
<1>4. Named(d) \subseteq Prefetches /\ d.data \in {d.page, Dropped} /\ d.page \in Page
  BY <1>0, <1>3 DEF StlbForms, Request
<1>5. \A w \in Named(d) : l1[w] # Free /\ l1[w].page = d.page
  BY <1>0, <1>3 DEF StlbNames, Pending
<1>6. PICK C : C = {w \in Named(d) : l1[w].pa = Waiting}
  OBVIOUS
<1>7. Completed(d) = C /\ C \subseteq Named(d) /\ C \subseteq Waiters
  BY <1>4, <1>5, <1>6, WaiterKinds DEF Completed
<1>8. PICK m : m = [w \in Waiters |-> IF w \in C THEN [l1[w] EXCEPT !.pa = d.data] ELSE l1[w]]
  OBVIOUS
<1>9. /\ l1' = m /\ stlbDone' = r /\ stlbRq' = stlbRq /\ stlbMshr' = stlbMshr
      /\ pqHead' = pqHead /\ UNCHANGED dtlbVars /\ walks' = walks /\ failed' = failed
  BY <1>2, <1>7, <1>8 DEF ProcessStlb
<1>10. /\ m \in [Waiters -> [page : Page \cup {0}, pa : Page \cup {Waiting, Dropped}]]
       /\ \A w \in Waiters : m[w] = Free \/ m[w].page \in Page
       /\ \A w \in C : m[w] # Free /\ m[w].page = d.page /\ m[w].pa = d.data
       /\ \A w \in Waiters : w \notin C => m[w] = l1[w]
  <2>1. PICK p, v : p = d.page /\ v = d.data
    OBVIOUS
  <2>2. C \subseteq Waiters /\ p \in Page /\ v \in Page \cup {Waiting, Dropped}
          /\ \A w \in C : l1[w] # Free /\ l1[w].page = p
    BY <1>4, <1>5, <1>7, <2>1
  <2>3. IsCompletion(m, l1, C, v)
    BY <1>8, <2>1 DEF IsCompletion
  <2>4. /\ m \in [Waiters -> [page : Page \cup {0}, pa : Page \cup {Waiting, Dropped}]]
        /\ \A w \in Waiters : m[w] = Free \/ m[w].page \in Page
        /\ \A w \in C : m[w] # Free /\ m[w].page = p /\ m[w].pa = v
        /\ \A w \in Waiters : w \notin C => m[w] = l1[w]
    BY <1>0, <2>2, <2>3, CompletedSlots
  <2>. QED
    BY <2>1, <2>4
<1>11. \A w \in Named(d) : ~InQueue(stlbRq, w) /\ ~InQueue(stlbMshr, w)
  BY <1>0, <1>3, <1>4 DEF StlbOnce, NotBoth
<1>12. TypeInv'
  BY <1>0, <1>3, <1>9, <1>10 DEF TypeInv, dtlbVars
<1>13. StlbForms'
  BY <1>0, <1>3, <1>9 DEF StlbForms
<1>14. StlbNames'
  <2>1. NamedWait(m, stlbRq, Prefetches) /\ NamedWait(m, stlbMshr, Prefetches)
    BY <1>0, <1>7, <1>10, <1>11, NamedWaitMoves, WaiterKinds DEF StlbNames
  <2>2. Pending(m, r)
    <3>. SUFFICES ASSUME NEW k \in DOMAIN r, NEW w \in Named(r[k])
                  PROVE  m[w] # Free /\ m[w].page = r[k].page
      BY DEF Pending
    <3>1. l1[w] # Free /\ l1[w].page = r[k].page
      BY <1>3 DEF Pending
    <3>2. w \in Waiters
      BY <1>0, <1>3, WaiterKinds DEF StlbForms
    <3>3. CASE w \in C
      BY <1>5, <1>7, <1>10, <3>1, <3>3
    <3>4. CASE w \notin C
      BY <1>10, <3>1, <3>2, <3>4
    <3>. QED
      BY <3>3, <3>4
  <2>. QED
    BY <1>9, <2>1, <2>2 DEF StlbNames
<1>15. StlbOnce'
  BY <1>0, <1>3, <1>9 DEF StlbOnce, NotBoth
<1>16. StlbAll'
  <2>. SUFFICES ASSUME NEW w \in Prefetches, Awaits(m, w)
                PROVE  InQueue(stlbRq, w) \/ InQueue(stlbMshr, w) \/ InQueue(r, w)
    BY <1>9 DEF StlbAll, AllNamed
  <2>1. w \notin C
    BY <1>4, <1>10, Ranges DEF Awaits, Waiting, Dropped
  <2>2. Awaits(l1, w)
    BY <1>10, <2>1, WaiterKinds DEF Awaits
  <2>3. w \notin Named(d)
    BY <1>6, <2>1, <2>2 DEF Awaits
  <2>. QED
    BY <1>0, <1>3, <2>2, <2>3 DEF StlbAll, AllNamed
<1>17. \A w \in Demands : m[w] = l1[w]
  BY <1>4, <1>7, <1>10, WaiterKinds
<1>18. DtlbForms' /\ DtlbNames' /\ DtlbOnce' /\ DtlbAll'
  BY <1>0, <1>9, <1>17, DtlbFrame
<1>19. Asked'
  BY <1>0, <1>9 DEF Asked, dtlbVars
<1>20. Ring'
  <2>1. \A w \in Prefetches : m[w] = Free <=> l1[w] = Free
    BY <1>5, <1>7, <1>10, WaiterKinds
  <2>. QED
    BY <1>0, <1>9, <2>1, RingFrame
<1>21. Answers'
  <2>. SUFFICES ASSUME NEW w \in Waiters
                PROVE  m[w].pa \in {Waiting, m[w].page} \cup (IF w \in Prefetches THEN {Dropped} ELSE {})
    BY <1>9 DEF Answers
  <2>1. CASE w \in C
    BY <1>4, <1>7, <1>10, <2>1
  <2>2. CASE w \notin C
    BY <1>0, <1>10, <2>2 DEF Answers
  <2>. QED
    BY <2>1, <2>2
<1>. QED
  BY <1>12, <1>13, <1>14, <1>15, <1>16, <1>18, <1>19, <1>20, <1>21 DEF IInv

-----------------------------------------------------------------------------
(* DTLB. Its PROCESSED never drops a packet, and STLB.RQ has room for each   *)
(* of its misses.                                                            *)

LEMMA CountUp ==
    ASSUME NEW n \in Nat
    PROVE  Cardinality(1..n) = n
<1>1. Cardinality(1..n) = IF 1 > n THEN 0 ELSE n - 1 + 1
  BY FS_Interval
<1>. QED
  BY <1>1

\* Each packet in PROCESSED stands for a request of its own.
LEMMA DoneHasRoom ==
    ASSUME IInv, NEW w \in Demands, ~InQueue(dtlbDone, w)
    PROVE  Len(dtlbDone) < Processed
<1>. DEFINE n == Len(dtlbDone)
            f == [k \in 1..n |-> dtlbDone[k].first]
<1>1. /\ dtlbDone \in Seq(Request) /\ n \in Nat /\ DOMAIN dtlbDone = 1..n
      /\ \A k \in 1..n : dtlbDone[k].first \in Demands
      /\ Disjoint(dtlbDone)
  BY DEF IInv, TypeInv, DtlbForms, DtlbOnce, OfDemand
<1>2. \A k \in 1..n : dtlbDone[k].first \in Named(dtlbDone[k])
  BY <1>1, WaiterKinds DEF Named
<1>3. \A k \in 1..n : f[k] \in Demands \ {w}
  BY <1>1, <1>2 DEF InQueue
<1>4. \A j, k \in 1..n : f[j] = f[k] => j = k
  BY <1>1, <1>2 DEF Disjoint
<1>5. f \in Injection(1..n, Demands \ {w})
  BY <1>3, <1>4 DEF Injection, IsInjective
<1>6. IsFiniteSet(Demands \ {w}) /\ Cardinality(Demands \ {w}) = Cardinality(Demands) - 1
  BY Sizes, FS_RemoveElement
<1>7. Cardinality(1..n) <= Cardinality(Demands \ {w})
  BY <1>5, <1>6, FS_Injection
<1>8. Cardinality(1..n) = n
  BY <1>1, CountUp
<1>9. Cardinality(Demands) \in Nat
  BY Sizes, FS_CardinalityType
<1>. QED
  BY <1>1, <1>6, <1>7, <1>8, <1>9, Sizes, Ranges

\* A packet in STLB.RQ stands for an MSHR of DTLB or a prefetch of L1D's PQ.
LEMMA StlbHasRoom ==
    ASSUME IInv, Cardinality(DOMAIN dtlbMshr) < DtlbMshr
    PROVE  Len(stlbRq) < StlbRq
<1>. DEFINE n == Len(stlbRq)
            A == {k \in 1..n : stlbRq[k].level = 1}
            B == {k \in 1..n : stlbRq[k].level # 1}
            f == [k \in A |-> stlbRq[k].page]
            g == [k \in B |-> stlbRq[k].first]
<1>0. TypeInv /\ StlbForms /\ StlbNames /\ Asked
  BY DEF IInv
<1>1. /\ stlbRq \in Seq(Request) /\ n \in Nat /\ DOMAIN stlbRq = 1..n
      /\ DistinctPages(stlbRq) /\ IsFiniteSet(DOMAIN dtlbMshr)
  BY <1>0 DEF TypeInv, StlbForms, MshrType
<1>2. \A k \in 1..n : stlbRq[k] \in Request /\ stlbRq[k].level \in {1, 2} /\ stlbRq[k].page \in Page
  <2>1. \A k \in 1..n : stlbRq[k] \in Request
    BY <1>1
  <2>. QED
    BY <2>1 DEF Request
<1>3. \A k \in A : f[k] \in DOMAIN dtlbMshr
  BY <1>0, <1>1, <1>2 DEF Asked, Asks, Unreturned
<1>4. \A j, k \in A : f[j] = f[k] => j = k
  BY <1>1 DEF DistinctPages
<1>5. f \in Injection(A, DOMAIN dtlbMshr)
  BY <1>3, <1>4 DEF Injection, IsInjective
<1>6. \A k \in B : g[k] \in Prefetches
  BY <1>0, <1>1, <1>2 DEF StlbForms, OfStlb
<1>7. \A k \in B : l1[g[k]].page = stlbRq[k].page
  <2>1. \A k \in B : g[k] \in Named(stlbRq[k])
    BY <1>6, WaiterKinds DEF Named
  <2>. QED
    BY <1>0, <1>1, <1>6, <2>1 DEF StlbNames, NamedWait, Waits
<1>8. \A j, k \in B : g[j] = g[k] => j = k
  <2>1. \A j, k \in B : g[j] = g[k] => stlbRq[j].page = stlbRq[k].page
    BY <1>7
  <2>2. \A j, k \in 1..n : stlbRq[j].page = stlbRq[k].page => j = k
    BY <1>1 DEF DistinctPages
  <2>. QED
    BY <2>1, <2>2
<1>9. g \in Injection(B, Prefetches)
  BY <1>6, <1>8 DEF Injection, IsInjective
<1>10. IsFiniteSet(A) /\ Cardinality(A) <= Cardinality(DOMAIN dtlbMshr)
  BY <1>1, <1>5, FS_Injection
<1>11. IsFiniteSet(B) /\ Cardinality(B) <= PqSize
  BY <1>9, Sizes, FS_Injection
<1>12. A \cup B = 1..n /\ A \cap B = {}
  OBVIOUS
<1>13. Cardinality(1..n) = Cardinality(A) + Cardinality(B) - Cardinality(A \cap B)
  BY <1>10, <1>11, <1>12, FS_Union
<1>14. Cardinality(A \cap B) = 0 /\ Cardinality(1..n) = n
  <2>1. Cardinality(1..n) = n
    BY <1>1, CountUp
  <2>2. Cardinality({}) = 0
    BY FS_EmptySet
  <2>. QED
    BY <1>12, <2>1, <2>2
<1>15. Cardinality(A) \in Nat /\ Cardinality(B) \in Nat /\ Cardinality(DOMAIN dtlbMshr) \in Nat
  BY <1>1, <1>10, <1>11, FS_CardinalityType
<1>16. PICK a, b, c, size : a = Cardinality(A) /\ b = Cardinality(B)
                              /\ c = Cardinality(DOMAIN dtlbMshr) /\ size = Cardinality(1..n)
  OBVIOUS
<1>17. a \in Nat /\ b \in Nat /\ c \in Nat /\ a <= c /\ b <= PqSize
  BY <1>10, <1>11, <1>15, <1>16
<1>18. size = n /\ size = a + b - Cardinality(A \cap B) /\ Cardinality(A \cap B) = 0
  BY <1>13, <1>14, <1>16
<1>19. n = a + b /\ c < DtlbMshr
  BY <1>16, <1>17, <1>18
<1>20. a + b < PqSize + DtlbMshr
  BY <1>17, <1>19, Ranges
<1>. QED
  BY <1>17, <1>19, <1>20, Ranges

\* The packet at the head of RQ, and what is behind it.
LEMMA DtlbHead ==
    ASSUME IInv, dtlbRq # << >>
    PROVE  LET d == Head(dtlbRq)
               r == Tail(dtlbRq)
           IN  /\ d \in Request /\ d.page \in Page /\ OfDemand(d) /\ ~d.returned
               /\ Named(d) \subseteq Demands /\ d.first \in Named(d)
               /\ \A w \in Named(d) : /\ Waits(l1, w, d.page) /\ ~InQueue(r, w)
                                      /\ ~InQueue(dtlbMshr, w) /\ ~InQueue(dtlbDone, w)
               /\ r \in Seq(Request) /\ DistinctPages(r) /\ NamedWait(l1, r, Demands)
               /\ \A k \in DOMAIN r : OfDemand(r[k]) /\ ~r[k].returned
               /\ \A w : InQueue(dtlbRq, w) <=> InQueue(r, w) \/ w \in Named(d)
<1>. DEFINE d == Head(dtlbRq)
            r == Tail(dtlbRq)
<1>0. TypeInv /\ DtlbForms /\ DtlbNames /\ DtlbOnce
  BY DEF IInv
<1>1. dtlbRq \in Seq(Request) /\ DistinctPages(dtlbRq) /\ NamedWait(l1, dtlbRq, Demands)
  BY <1>0 DEF TypeInv, DtlbForms, DtlbNames
<1>2. /\ r \in Seq(Request) /\ d \in Request /\ d = dtlbRq[1] /\ 1 \in DOMAIN dtlbRq
      /\ \A w : InQueue(dtlbRq, w) <=> InQueue(r, w) \/ w \in Named(d)
      /\ DistinctPages(r) /\ \A k \in DOMAIN r : r[k].page # d.page
      /\ \A k \in DOMAIN r : k + 1 \in DOMAIN dtlbRq /\ r[k] = dtlbRq[k + 1]
      /\ NamedWait(l1, r, Demands)
  BY <1>1, TailHolds
<1>3. d.page \in Page /\ OfDemand(d) /\ ~d.returned
  BY <1>0, <1>2 DEF DtlbForms, Request
<1>4. Named(d) \subseteq Demands /\ d.first \in Named(d)
  BY <1>3, WaiterKinds DEF OfDemand, Named
<1>5. \A w \in Named(d) : Waits(l1, w, d.page)
  BY <1>1, <1>2, <1>4 DEF NamedWait
<1>6. \A w \in Named(d) : ~InQueue(r, w)
  BY <1>2, <1>4, <1>5 DEF InQueue, NamedWait, Waits
<1>7. \A w \in Named(d) : ~InQueue(dtlbMshr, w) /\ ~InQueue(dtlbDone, w)
  BY <1>0, <1>2, <1>4 DEF DtlbOnce, NotBoth
<1>8. \A k \in DOMAIN r : OfDemand(r[k]) /\ ~r[k].returned
  BY <1>0, <1>2 DEF DtlbForms
<1>. QED
  BY <1>2, <1>3, <1>4, <1>5, <1>6, <1>7, <1>8

LEMMA DtlbHitInv ==
    ASSUME IInv, dtlbRq # << >>, dtlbRq' = Tail(dtlbRq), DtlbHit(Head(dtlbRq)),
           UNCHANGED <<l1, pqHead, stlbMshr, stlbDone, walks>>
    PROVE  IInv'
<1>0. /\ TypeInv /\ DtlbForms /\ DtlbNames /\ DtlbOnce /\ StlbForms /\ StlbNames /\ StlbOnce
      /\ Asked /\ Ring /\ DtlbAll /\ StlbAll /\ Answers
  BY DEF IInv
<1>1. PICK d, r : d = Head(dtlbRq) /\ r = Tail(dtlbRq)
  OBVIOUS
<1>2. /\ d \in Request /\ d.page \in Page /\ OfDemand(d) /\ ~d.returned
      /\ Named(d) \subseteq Demands /\ d.first \in Named(d)
      /\ \A w \in Named(d) : /\ Waits(l1, w, d.page) /\ ~InQueue(r, w)
                             /\ ~InQueue(dtlbMshr, w) /\ ~InQueue(dtlbDone, w)
      /\ r \in Seq(Request) /\ DistinctPages(r) /\ NamedWait(l1, r, Demands)
      /\ \A k \in DOMAIN r : OfDemand(r[k]) /\ ~r[k].returned
      /\ \A w : InQueue(dtlbRq, w) <=> InQueue(r, w) \/ w \in Named(d)
  BY <1>1, DtlbHead
<1>3. PICK e : e = [d EXCEPT !.data = d.page]
  OBVIOUS
<1>4. e \in Request /\ e.page = d.page /\ e.data = d.page /\ Named(e) = Named(d) /\ OfDemand(e)
  <2>1. e \in Request /\ e.page = d.page /\ e.data = d.page /\ e.first = d.first
          /\ e.merged = d.merged /\ e.type = d.type /\ e.level = d.level
    BY <1>2, <1>3 DEF Request
  <2>. QED
    BY <1>2, <2>1 DEF Named, OfDemand
<1>5. Len(dtlbDone) < Processed
  BY <1>2, DoneHasRoom
<1>6. PICK c : c = Append(dtlbDone, e)
  OBVIOUS
<1>7. /\ dtlbRq' = r /\ dtlbDone' = c /\ dtlbMshr' = dtlbMshr /\ stlbRq' = stlbRq /\ failed' = failed
      /\ l1' = l1 /\ pqHead' = pqHead /\ stlbMshr' = stlbMshr /\ stlbDone' = stlbDone /\ walks' = walks
  BY <1>1, <1>3, <1>5, <1>6 DEF DtlbHit, AddProcessed
<1>8. dtlbDone \in Seq(Request) /\ Disjoint(dtlbDone)
  BY <1>0 DEF TypeInv, DtlbOnce
<1>9. /\ c \in Seq(Request)
      /\ \A w : InQueue(c, w) <=> InQueue(dtlbDone, w) \/ w \in Named(d)
      /\ \A k \in DOMAIN c : c[k] = e \/ (k \in DOMAIN dtlbDone /\ c[k] = dtlbDone[k])
      /\ Disjoint(c)
  BY <1>2, <1>4, <1>6, <1>8, AppendHolds
<1>10. TypeInv'
  BY <1>0, <1>2, <1>7, <1>9 DEF TypeInv
<1>11. DtlbForms'
  BY <1>0, <1>2, <1>4, <1>7, <1>9 DEF DtlbForms
<1>12. DtlbNames'
  <2>1. NamedWait(l1, c, Demands)
    BY <1>0, <1>2, <1>4, <1>9 DEF DtlbNames, NamedWait
  <2>. QED
    BY <1>0, <1>2, <1>7, <2>1 DEF DtlbNames
<1>13. DtlbOnce'
  BY <1>0, <1>2, <1>7, <1>9 DEF DtlbOnce, NotBoth
<1>14. DtlbAll'
  BY <1>0, <1>2, <1>7, <1>9 DEF DtlbAll, AllNamed
<1>15. StlbForms' /\ StlbNames' /\ StlbOnce' /\ StlbAll'
  BY <1>0, <1>7, StlbFrame DEF stlbVars
<1>16. Asked' /\ Answers'
  BY <1>0, <1>7 DEF Asked, Answers
<1>17. Ring'
  BY <1>0, <1>7, RingFrame
<1>. QED
  BY <1>10, <1>11, <1>12, <1>13, <1>14, <1>15, <1>16, <1>17 DEF IInv

LEMMA DtlbMergeInv ==
    ASSUME IInv, dtlbRq # << >>, dtlbRq' = Tail(dtlbRq), DtlbMerge(Head(dtlbRq)),
           UNCHANGED <<l1, pqHead, stlbMshr, stlbDone, walks>>
    PROVE  IInv'
<1>0. /\ TypeInv /\ DtlbForms /\ DtlbNames /\ DtlbOnce /\ StlbForms /\ StlbNames /\ StlbOnce
      /\ Asked /\ Ring /\ DtlbAll /\ StlbAll /\ Answers
  BY DEF IInv
<1>1. PICK d, r : d = Head(dtlbRq) /\ r = Tail(dtlbRq)
  OBVIOUS
<1>2. /\ d \in Request /\ d.page \in Page /\ OfDemand(d) /\ ~d.returned
      /\ Named(d) \subseteq Demands /\ d.first \in Named(d)
      /\ \A w \in Named(d) : /\ Waits(l1, w, d.page) /\ ~InQueue(r, w)
                             /\ ~InQueue(dtlbMshr, w) /\ ~InQueue(dtlbDone, w)
      /\ r \in Seq(Request) /\ DistinctPages(r) /\ NamedWait(l1, r, Demands)
      /\ \A k \in DOMAIN r : OfDemand(r[k]) /\ ~r[k].returned
      /\ \A w : InQueue(dtlbRq, w) <=> InQueue(r, w) \/ w \in Named(d)
  BY <1>1, DtlbHead
<1>3. PICK p : p = d.page
  OBVIOUS
<1>4. p \in DOMAIN dtlbMshr
  BY <1>1, <1>3 DEF DtlbMerge
<1>5. PICK o : o = dtlbMshr[p]
  OBVIOUS
<1>6. o \in Request /\ o.page = p /\ OfDemand(o) /\ MshrType(dtlbMshr)
  BY <1>0, <1>4, <1>5 DEF TypeInv, MshrType, DtlbForms
<1>7. PICK e : e = MergeInMshr(o, d)
  OBVIOUS
<1>8. /\ e \in Request /\ e.page = p /\ e.first \in {o.first, d.first}
      /\ Named(e) = Named(o) \cup Named(d)
      /\ e.level = 1 <=> o.level = 1 \/ d.level = 1
      /\ e.type = Load <=> o.type = Load \/ d.type = Load
      /\ e.returned = o.returned /\ e.data = o.data
  BY <1>2, <1>6, <1>7, MergeInMshrIs
<1>9. OfDemand(e)
  BY <1>2, <1>6, <1>8 DEF OfDemand
<1>10. PICK g : g = [dtlbMshr EXCEPT ![p] = e]
  OBVIOUS
<1>11. /\ dtlbRq' = r /\ dtlbMshr' = g /\ dtlbDone' = dtlbDone /\ stlbRq' = stlbRq /\ failed' = failed
       /\ l1' = l1 /\ pqHead' = pqHead /\ stlbMshr' = stlbMshr /\ stlbDone' = stlbDone /\ walks' = walks
  BY <1>1, <1>3, <1>5, <1>7, <1>10 DEF DtlbMerge
<1>12. Named(o) \subseteq Named(e) /\ (o.level = 1 => e.level = 1)
  BY <1>8
<1>13. /\ MshrType(g) /\ DOMAIN g = DOMAIN dtlbMshr /\ g[p] = e
       /\ \A x \in DOMAIN dtlbMshr : x # p => g[x] = dtlbMshr[x]
       /\ \A w : InQueue(g, w) <=> InQueue(dtlbMshr, w) \/ w \in Named(e)
  <2>1. Changed(dtlbMshr, g, p, e)
    BY <1>4, <1>5, <1>6, <1>8, <1>10, <1>12, ChangeHolds
  <2>. QED
    BY <2>1 DEF Changed
<1>14. \A w \in Named(o) : InQueue(dtlbMshr, w)
  BY <1>4, <1>5 DEF InQueue
<1>15. \A w : InQueue(g, w) <=> InQueue(dtlbMshr, w) \/ w \in Named(d)
  BY <1>8, <1>13, <1>14
<1>16. TypeInv'
  BY <1>0, <1>2, <1>11, <1>13 DEF TypeInv
<1>17. DtlbForms'
  <2>1. \A x \in DOMAIN g : OfDemand(g[x]) /\ (g[x].returned => g[x].data = x)
    BY <1>0, <1>4, <1>5, <1>8, <1>9, <1>13 DEF DtlbForms
  <2>. QED
    BY <1>0, <1>2, <1>11, <2>1 DEF DtlbForms
<1>18. DtlbNames'
  <2>1. \A w \in Named(o) : Waits(l1, w, p)
    BY <1>0, <1>4, <1>5, <1>6 DEF DtlbNames, NamedWait, OfDemand
  <2>2. \A w \in Named(e) \cap Demands : Waits(l1, w, p)
    BY <1>2, <1>3, <1>8, <2>1
  <2>3. \A x \in DOMAIN g : g[x].page = x
    BY <1>13 DEF MshrType
  <2>4. NamedWait(l1, g, Demands)
    BY <1>0, <1>4, <1>8, <1>13, <2>2, <2>3 DEF DtlbNames, NamedWait
  <2>. QED
    BY <1>0, <1>2, <1>11, <2>4 DEF DtlbNames
<1>19. DtlbOnce'
  BY <1>0, <1>2, <1>11, <1>15 DEF DtlbOnce, NotBoth
<1>20. DtlbAll'
  BY <1>0, <1>2, <1>11, <1>15 DEF DtlbAll, AllNamed
<1>21. StlbForms' /\ StlbNames' /\ StlbOnce' /\ StlbAll'
  BY <1>0, <1>11, StlbFrame DEF stlbVars
<1>22. Asked' /\ Answers'
  <2>1. \A x : Unreturned(g, x) <=> Unreturned(dtlbMshr, x)
    BY <1>4, <1>5, <1>8, <1>13 DEF Unreturned
  <2>. QED
    BY <1>0, <1>11, <2>1 DEF Asked, Answers
<1>23. Ring'
  BY <1>0, <1>11, RingFrame
<1>. QED
  BY <1>16, <1>17, <1>18, <1>19, <1>20, <1>21, <1>22, <1>23 DEF IInv

LEMMA DtlbMissInv ==
    ASSUME IInv, dtlbRq # << >>, dtlbRq' = Tail(dtlbRq), DtlbMiss(Head(dtlbRq)),
           UNCHANGED <<l1, pqHead, stlbMshr, stlbDone, walks>>
    PROVE  IInv'
<1>0. /\ TypeInv /\ DtlbForms /\ DtlbNames /\ DtlbOnce /\ StlbForms /\ StlbNames /\ StlbOnce
      /\ Asked /\ Ring /\ DtlbAll /\ StlbAll /\ Answers
  BY DEF IInv
<1>1. PICK d, r : d = Head(dtlbRq) /\ r = Tail(dtlbRq)
  OBVIOUS
<1>2. /\ d \in Request /\ d.page \in Page /\ OfDemand(d) /\ ~d.returned
      /\ Named(d) \subseteq Demands /\ d.first \in Named(d)
      /\ \A w \in Named(d) : /\ Waits(l1, w, d.page) /\ ~InQueue(r, w)
                             /\ ~InQueue(dtlbMshr, w) /\ ~InQueue(dtlbDone, w)
      /\ r \in Seq(Request) /\ DistinctPages(r) /\ NamedWait(l1, r, Demands)
      /\ \A k \in DOMAIN r : OfDemand(r[k]) /\ ~r[k].returned
      /\ \A w : InQueue(dtlbRq, w) <=> InQueue(r, w) \/ w \in Named(d)
  BY <1>1, DtlbHead
<1>3. PICK p, g, c : p = d.page /\ g = With(dtlbMshr, p, d) /\ c = AddRq(stlbRq, d)
  OBVIOUS
<1>4. Len(stlbRq) < StlbRq
  BY StlbHasRoom DEF DtlbMiss
<1>5. /\ dtlbRq' = r /\ dtlbMshr' = g /\ dtlbDone' = dtlbDone /\ stlbRq' = c /\ failed' = failed
      /\ l1' = l1 /\ pqHead' = pqHead /\ stlbMshr' = stlbMshr /\ stlbDone' = stlbDone /\ walks' = walks
  BY <1>1, <1>3, <1>4 DEF DtlbMiss, Fits
<1>6. p \notin DOMAIN dtlbMshr /\ MshrType(dtlbMshr) /\ p \in Page
  BY <1>0, <1>1, <1>2, <1>3 DEF DtlbMiss, TypeInv
<1>7. /\ MshrType(g) /\ DOMAIN g = DOMAIN dtlbMshr \cup {p}
      /\ g[p] = d /\ \A x \in DOMAIN dtlbMshr : g[x] = dtlbMshr[x] /\ x # p
      /\ \A w : InQueue(g, w) <=> InQueue(dtlbMshr, w) \/ w \in Named(d)
  <2>1. Allocated(dtlbMshr, g, p, d)
    BY <1>2, <1>3, <1>6, WithHolds
  <2>. QED
    BY <2>1 DEF Allocated
<1>8. stlbRq \in Seq(Request) /\ DistinctPages(stlbRq) /\ \A k \in DOMAIN stlbRq : OfStlb(stlbRq[k])
  BY <1>0 DEF TypeInv, StlbForms
<1>9. Joined(stlbRq, c, d)
  BY <1>2, <1>3, <1>8, AddRqJoins
<1>10. OfStlb(d) /\ d.level = 1 /\ d.first \notin Prefetches /\ d.merged \cap Prefetches = {}
  BY <1>2, WaiterKinds DEF OfDemand, OfStlb, Named
<1>11. /\ c \in Seq(Request) /\ DistinctPages(c)
       /\ \A w : w \notin d.merged =>
                (InQueue(c, w) <=> InQueue(stlbRq, w) \/ (w = d.first /\ w # Nobody))
       /\ \A x : Asks(c, x) <=> Asks(stlbRq, x) \/ (x = d.page /\ d.level = 1)
       /\ \A k \in DOMAIN c : OfStlb(c[k])
  BY <1>2, <1>8, <1>9, <1>10, JoinedHolds
<1>12. NamedWait(l1, c, Prefetches)
  BY <1>0, <1>2, <1>8, <1>9, <1>10, JoinedHolds DEF StlbNames
<1>13. \A w \in Prefetches : InQueue(c, w) <=> InQueue(stlbRq, w)
  BY <1>10, <1>11
<1>14. TypeInv'
  BY <1>0, <1>2, <1>5, <1>7, <1>11 DEF TypeInv
<1>15. DtlbForms'
  <2>1. \A x \in DOMAIN g : OfDemand(g[x]) /\ (g[x].returned => g[x].data = x)
    BY <1>0, <1>2, <1>7 DEF DtlbForms
  <2>. QED
    BY <1>0, <1>2, <1>5, <2>1 DEF DtlbForms
<1>16. DtlbNames'
  <2>1. NamedWait(l1, g, Demands)
    BY <1>0, <1>2, <1>3, <1>6, WithNames DEF DtlbNames
  <2>. QED
    BY <1>0, <1>2, <1>5, <2>1 DEF DtlbNames
<1>17. DtlbOnce'
  BY <1>0, <1>2, <1>5, <1>7 DEF DtlbOnce, NotBoth
<1>18. DtlbAll'
  BY <1>0, <1>2, <1>5, <1>7 DEF DtlbAll, AllNamed
<1>19. StlbForms'
  BY <1>0, <1>5, <1>11 DEF StlbForms
<1>20. StlbNames'
  BY <1>0, <1>5, <1>12 DEF StlbNames
<1>21. StlbOnce'
  BY <1>0, <1>5, <1>13 DEF StlbOnce, NotBoth
<1>22. StlbAll'
  BY <1>0, <1>5, <1>13 DEF StlbAll, AllNamed
<1>23. Asked'
  <2>. SUFFICES ASSUME NEW x \in Page
                PROVE  /\ Unreturned(g, x) <=> Asks(c, x) \/ Asks(stlbMshr, x)
                       /\ ~(Asks(c, x) /\ Asks(stlbMshr, x))
    BY <1>5 DEF Asked
  <2>1. CASE x = p
    <3>1. Unreturned(g, x) /\ ~Unreturned(dtlbMshr, x)
      BY <1>2, <1>6, <1>7, <2>1 DEF Unreturned
    <3>2. ~Asks(stlbMshr, x)
      BY <1>0, <3>1 DEF Asked
    <3>. QED
      BY <1>3, <1>10, <1>11, <2>1, <3>1, <3>2
  <2>2. CASE x # p
    <3>1. Unreturned(g, x) <=> Unreturned(dtlbMshr, x)
      BY <1>7, <2>2 DEF Unreturned
    <3>. QED
      BY <1>0, <1>3, <1>11, <2>2, <3>1 DEF Asked
  <2>. QED
    BY <2>1, <2>2
<1>24. Answers'
  BY <1>0, <1>5 DEF Answers
<1>25. Ring'
  BY <1>0, <1>5, RingFrame
<1>. QED
  BY <1>14, <1>15, <1>16, <1>17, <1>18, <1>19, <1>20, <1>21, <1>22, <1>23, <1>24, <1>25 DEF IInv

LEMMA DtlbFillInv ==
    ASSUME IInv, NEW p \in Page, DtlbFill(p)
    PROVE  IInv'
<1>0. /\ TypeInv /\ DtlbForms /\ DtlbNames /\ DtlbOnce /\ StlbForms /\ StlbNames /\ StlbOnce
      /\ Asked /\ Ring /\ DtlbAll /\ StlbAll /\ Answers
  BY DEF IInv
<1>1. p \in DOMAIN dtlbMshr /\ dtlbMshr[p].returned /\ MshrType(dtlbMshr)
  BY <1>0 DEF DtlbFill, TypeInv
<1>2. PICK d : d = dtlbMshr[p]
  OBVIOUS
<1>3. /\ d \in Request /\ d.page = p /\ d.data = p /\ OfDemand(d) /\ d.first \in Named(d)
      /\ Named(d) \subseteq Demands /\ \A w \in Named(d) : InQueue(dtlbMshr, w)
  BY <1>0, <1>1, <1>2, WaiterKinds DEF MshrType, DtlbForms, OfDemand, Named, InQueue
<1>4. \A w \in Named(d) : ~InQueue(dtlbRq, w) /\ ~InQueue(dtlbDone, w) /\ Waits(l1, w, p)
  BY <1>0, <1>1, <1>2, <1>3 DEF DtlbOnce, NotBoth, DtlbNames, NamedWait
<1>5. Len(dtlbDone) < Processed
  BY <1>3, <1>4, DoneHasRoom
<1>6. PICK c, g : c = Append(dtlbDone, d) /\ g = Without(dtlbMshr, p)
  OBVIOUS
<1>7. /\ dtlbMshr' = g /\ dtlbDone' = c /\ dtlbRq' = dtlbRq /\ UNCHANGED stlbVars
      /\ l1' = l1 /\ pqHead' = pqHead /\ walks' = walks /\ failed' = failed
  BY <1>2, <1>5, <1>6 DEF DtlbFill, AddProcessed
<1>8. stlbRq' = stlbRq /\ stlbMshr' = stlbMshr /\ stlbDone' = stlbDone
  BY <1>7 DEF stlbVars
<1>9. dtlbDone \in Seq(Request) /\ Disjoint(dtlbDone)
  BY <1>0 DEF TypeInv, DtlbOnce
<1>10. /\ c \in Seq(Request)
       /\ \A w : InQueue(c, w) <=> InQueue(dtlbDone, w) \/ w \in Named(d)
       /\ \A k \in DOMAIN c : c[k] = d \/ (k \in DOMAIN dtlbDone /\ c[k] = dtlbDone[k])
       /\ Disjoint(c)
  BY <1>3, <1>4, <1>6, <1>9, AppendHolds
<1>11. /\ MshrType(g) /\ DOMAIN g = DOMAIN dtlbMshr \ {p} /\ \A x \in DOMAIN g : g[x] = dtlbMshr[x]
       /\ \A w : InQueue(dtlbMshr, w) <=> InQueue(g, w) \/ w \in Named(d)
       /\ NamedWait(l1, g, Demands)
  <2>1. NamedWait(l1, g, Demands)
    BY <1>0, <1>6, WithoutNames DEF DtlbNames
  <2>2. Released(dtlbMshr, g, p)
    BY <1>1, <1>6, WithoutHolds
  <2>. QED
    BY <1>2, <2>1, <2>2 DEF Released
<1>12. \A w \in Named(d) : ~InQueue(g, w)
  <2>1. \A x \in DOMAIN g : g[x].page = x /\ x # p
    BY <1>11 DEF MshrType
  <2>. QED
    BY <1>3, <1>4, <1>11, <2>1 DEF InQueue, NamedWait, Waits
<1>13. TypeInv'
  BY <1>0, <1>7, <1>8, <1>10, <1>11 DEF TypeInv
<1>14. DtlbForms'
  BY <1>0, <1>3, <1>7, <1>10, <1>11 DEF DtlbForms
<1>15. DtlbNames'
  <2>1. NamedWait(l1, c, Demands)
    BY <1>0, <1>3, <1>4, <1>10 DEF DtlbNames, NamedWait
  <2>. QED
    BY <1>0, <1>7, <1>11, <2>1 DEF DtlbNames
<1>16. DtlbOnce'
  BY <1>0, <1>4, <1>7, <1>10, <1>11, <1>12 DEF DtlbOnce, NotBoth
<1>17. DtlbAll'
  BY <1>0, <1>7, <1>10, <1>11 DEF DtlbAll, AllNamed
<1>18. StlbForms' /\ StlbNames' /\ StlbOnce' /\ StlbAll'
  BY <1>0, <1>7, StlbFrame
<1>19. Asked'
  <2>1. \A x : Unreturned(g, x) <=> Unreturned(dtlbMshr, x)
    BY <1>1, <1>11 DEF Unreturned
  <2>. QED
    BY <1>0, <1>7, <1>8, <2>1 DEF Asked
<1>20. Answers'
  BY <1>0, <1>7 DEF Answers
<1>21. Ring'
  BY <1>0, <1>7, RingFrame
<1>. QED
  BY <1>13, <1>14, <1>15, <1>16, <1>17, <1>18, <1>19, <1>20, <1>21 DEF IInv

-----------------------------------------------------------------------------
(* STLB.                                                                   *)

LEMMA StlbHead ==
    ASSUME IInv, stlbRq # << >>
    PROVE  LET d == Head(stlbRq)
               r == Tail(stlbRq)
           IN  /\ d \in Request /\ d.page \in Page /\ OfStlb(d)
               /\ \A w \in Named(d) \cap Prefetches :
                    /\ Waits(l1, w, d.page) /\ ~InQueue(r, w)
                    /\ ~InQueue(stlbMshr, w) /\ ~InQueue(stlbDone, w)
               /\ r \in Seq(Request) /\ DistinctPages(r) /\ NamedWait(l1, r, Prefetches)
               /\ \A k \in DOMAIN r : OfStlb(r[k])
               /\ \A w : InQueue(stlbRq, w) <=> InQueue(r, w) \/ w \in Named(d)
               /\ \A p : Asks(stlbRq, p) <=> Asks(r, p) \/ (p = d.page /\ d.level = 1)
               /\ ~Asks(r, d.page)
<1>. DEFINE d == Head(stlbRq)
            r == Tail(stlbRq)
<1>0. TypeInv /\ StlbForms /\ StlbNames /\ StlbOnce
  BY DEF IInv
<1>1. stlbRq \in Seq(Request) /\ DistinctPages(stlbRq) /\ NamedWait(l1, stlbRq, Prefetches)
  BY <1>0 DEF TypeInv, StlbForms, StlbNames
<1>2. /\ r \in Seq(Request) /\ d \in Request /\ d = stlbRq[1] /\ 1 \in DOMAIN stlbRq
      /\ \A w : InQueue(stlbRq, w) <=> InQueue(r, w) \/ w \in Named(d)
      /\ \A p : Asks(stlbRq, p) <=> Asks(r, p) \/ (p = d.page /\ d.level = 1)
      /\ DistinctPages(r) /\ \A k \in DOMAIN r : r[k].page # d.page
      /\ \A k \in DOMAIN r : k + 1 \in DOMAIN stlbRq /\ r[k] = stlbRq[k + 1]
      /\ NamedWait(l1, r, Prefetches)
  BY <1>1, TailHolds
<1>3. d.page \in Page /\ OfStlb(d)
  BY <1>0, <1>2 DEF StlbForms, Request
<1>4. \A w \in Named(d) \cap Prefetches : Waits(l1, w, d.page)
  BY <1>1, <1>2 DEF NamedWait
<1>5. \A w \in Named(d) \cap Prefetches : ~InQueue(r, w)
  BY <1>2, <1>4 DEF InQueue, NamedWait, Waits
<1>6. \A w \in Named(d) \cap Prefetches : ~InQueue(stlbMshr, w) /\ ~InQueue(stlbDone, w)
  BY <1>0, <1>2 DEF StlbOnce, NotBoth
<1>7. \A k \in DOMAIN r : OfStlb(r[k])
  BY <1>0, <1>2 DEF StlbForms
<1>8. ~Asks(r, d.page)
  BY <1>2 DEF Asks
<1>. QED
  BY <1>2, <1>3, <1>4, <1>5, <1>6, <1>7, <1>8

\* What goes to PROCESSED names the prefetches the packet names, and no other.
LEMMA CopyIs ==
    ASSUME NEW d \in Request, NEW v \in Page \cup {Waiting, Dropped}
    PROVE  LET e == ForPrefetches(d, v) IN
           /\ e \in Request /\ e.page = d.page /\ e.data = v
           /\ Named(e) = Named(d) \cap Prefetches
<1>. DEFINE e == ForPrefetches(d, v)
<1>1. /\ e.first = (IF d.first \in Prefetches THEN d.first ELSE Nobody)
      /\ e.merged = d.merged \cap Prefetches /\ e.page = d.page /\ e.data = v
      /\ e.type = d.type /\ e.level = d.level /\ e.returned = d.returned
  BY DEF ForPrefetches, Request
<1>2. e = [d EXCEPT !.first = IF d.first \in Prefetches THEN d.first ELSE Nobody,
                    !.merged = d.merged \cap Prefetches, !.data = v]
  BY DEF ForPrefetches, Request
<1>3. /\ (IF d.first \in Prefetches THEN d.first ELSE Nobody) \in Waiters \cup {Nobody}
      /\ d.merged \cap Prefetches \in SUBSET Waiters
  BY WaiterKinds DEF Request
<1>4. e \in Request
  BY <1>2, <1>3 DEF Request
<1>5. Nobody \notin Prefetches
  BY WaiterKinds
<1>. QED
  BY <1>1, <1>4, <1>5 DEF Named

LEMMA TimesIs ==
    ASSUME NEW d, NEW hit
    PROVE  /\ Times(d, hit) \in {0, 1, 2}
           /\ Times(d, hit) = 0 => Named(d) \cap Prefetches = {}
<1>1. CASE d.first \in Prefetches \/ d.merged \cap Prefetches # {}
  BY <1>1 DEF Times
<1>2. CASE ~(d.first \in Prefetches \/ d.merged \cap Prefetches # {})
  BY <1>2 DEF Times, Named
<1>. QED
  BY <1>1, <1>2

\* PROCESSED after the prefetches a packet names have been told.
Told(c, d) ==
    /\ c \in Seq(Request) /\ Pending(l1, c)
    /\ \A w : InQueue(c, w) <=> InQueue(stlbDone, w) \/ w \in Named(d) \cap Prefetches
    /\ \A k \in DOMAIN c :
        Named(c[k]) \subseteq Prefetches /\ c[k].data \in {c[k].page, Dropped}

LEMMA NotifyTells ==
    ASSUME IInv, NEW d \in Request, NEW v \in {d.page, Dropped}, NEW hit, Notify(d, v, hit),
           \A w \in Named(d) \cap Prefetches : Waits(l1, w, d.page), NEW c, c = stlbDone'
    PROVE  Told(c, d)
<1>0. TypeInv /\ StlbForms /\ StlbNames
  BY DEF IInv
<1>1. PICK n, e : n = Times(d, hit) /\ e = ForPrefetches(d, v)
  OBVIOUS
<1>2. n \in {0, 1, 2} /\ (n = 0 => Named(d) \cap Prefetches = {})
  BY <1>1, TimesIs
<1>3. v \in Page \cup {Waiting, Dropped}
  BY DEF Request
<1>4. e \in Request /\ e.page = d.page /\ e.data = v /\ Named(e) = Named(d) \cap Prefetches
  BY <1>1, <1>3, CopyIs
<1>5. PICK q : q = stlbDone
  OBVIOUS
<1>6. c = q \o Copies(n, e) /\ q \in Seq(Request)
  BY <1>0, <1>1, <1>5 DEF Notify, TypeInv, Copies
<1>7. /\ c \in Seq(Request)
      /\ \A w : InQueue(c, w) <=> InQueue(q, w) \/ (n > 0 /\ w \in Named(e))
      /\ \A k \in DOMAIN c : (n > 0 /\ c[k] = e) \/ (k \in DOMAIN q /\ c[k] = q[k])
  <2>1. Copied(q, c, e, n)
    BY <1>2, <1>4, <1>6, CopiesHold
  <2>. QED
    BY <2>1 DEF Copied
<1>8. \A w : InQueue(c, w) <=> InQueue(stlbDone, w) \/ w \in Named(d) \cap Prefetches
  BY <1>2, <1>4, <1>5, <1>7
<1>9. \A k \in DOMAIN c : Named(c[k]) \subseteq Prefetches /\ c[k].data \in {c[k].page, Dropped}
  BY <1>0, <1>4, <1>5, <1>7 DEF StlbForms
<1>10. Pending(l1, c)
  BY <1>0, <1>4, <1>5, <1>7 DEF StlbNames, Pending, Waits
<1>. QED
  BY <1>7, <1>8, <1>9, <1>10 DEF Told

\* An answer to DTLB finds the MSHR it is for.
LEMMA ReturnInv ==
    ASSUME IInv, NEW d \in Request, d.level = 1 => Unreturned(dtlbMshr, d.page), ReturnToDtlb(d),
           dtlbRq' = dtlbRq, dtlbDone' = dtlbDone, l1' = l1
    PROVE  /\ failed' = failed /\ MshrType(dtlbMshr')
           /\ DtlbForms' /\ DtlbNames' /\ DtlbOnce' /\ DtlbAll'
           /\ \A x : Unreturned(dtlbMshr', x)
                        <=> Unreturned(dtlbMshr, x) /\ ~(d.level = 1 /\ x = d.page)
<1>0. TypeInv /\ DtlbForms /\ DtlbNames /\ DtlbOnce /\ DtlbAll
  BY DEF IInv
<1>1. CASE d.level # 1
  <2>1. dtlbMshr' = dtlbMshr /\ failed' = failed /\ UNCHANGED dtlbVars
    BY <1>1 DEF ReturnToDtlb, dtlbVars
  <2>2. MshrType(dtlbMshr')
    BY <1>0, <2>1 DEF TypeInv
  <2>3. DtlbForms' /\ DtlbNames' /\ DtlbOnce' /\ DtlbAll'
    BY <1>0, <2>1, DtlbFrame
  <2>. QED
    BY <1>1, <2>1, <2>2, <2>3
<1>2. CASE d.level = 1
  <2>1. PICK p : p = d.page
    OBVIOUS
  <2>2. p \in DOMAIN dtlbMshr /\ ~dtlbMshr[p].returned /\ MshrType(dtlbMshr)
    BY <1>0, <1>2, <2>1 DEF Unreturned, TypeInv
  <2>3. PICK o : o = dtlbMshr[p]
    OBVIOUS
  <2>4. o \in Request /\ o.page = p /\ p \in Page /\ OfDemand(o)
    BY <1>0, <2>2, <2>3 DEF MshrType, DtlbForms
  <2>5. PICK e : e = [o EXCEPT !.returned = TRUE, !.data = p]
    OBVIOUS
  <2>6. /\ e \in Request /\ e.page = p /\ e.data = p /\ e.returned /\ e.first = o.first
        /\ e.merged = o.merged /\ e.type = o.type /\ e.level = o.level
    BY <2>4, <2>5 DEF Request
  <2>7. Named(e) = Named(o) /\ OfDemand(e) /\ (o.level = 1 => e.level = 1)
    BY <2>4, <2>6 DEF Named, OfDemand
  <2>8. PICK g : g = [dtlbMshr EXCEPT ![p] = e]
    OBVIOUS
  <2>9. dtlbMshr' = g /\ failed' = failed
    BY <1>2, <2>1, <2>2, <2>3, <2>5, <2>8 DEF ReturnToDtlb
  <2>10. /\ MshrType(g) /\ DOMAIN g = DOMAIN dtlbMshr /\ g[p] = e
         /\ \A x \in DOMAIN dtlbMshr : x # p => g[x] = dtlbMshr[x]
         /\ \A w : InQueue(g, w) <=> InQueue(dtlbMshr, w) \/ w \in Named(e)
    <3>1. Changed(dtlbMshr, g, p, e)
      BY <2>2, <2>3, <2>6, <2>7, <2>8, ChangeHolds
    <3>. QED
      BY <3>1 DEF Changed
  <2>11. \A w : InQueue(g, w) <=> InQueue(dtlbMshr, w)
    BY <2>2, <2>3, <2>7, <2>10 DEF InQueue
  <2>12. DtlbForms'
    <3>1. \A x \in DOMAIN g : OfDemand(g[x]) /\ (g[x].returned => g[x].data = x)
      BY <1>0, <2>6, <2>7, <2>10 DEF DtlbForms
    <3>. QED
      BY <1>0, <2>9, <3>1 DEF DtlbForms
  <2>13. DtlbNames'
    <3>1. \A w \in Named(e) \cap Demands : Waits(l1, w, p)
      BY <1>0, <2>2, <2>3, <2>4, <2>7 DEF DtlbNames, NamedWait
    <3>2. NamedWait(l1, g, Demands)
      BY <1>0, <2>6, <2>10, <3>1 DEF DtlbNames, NamedWait
    <3>. QED
      BY <1>0, <2>9, <3>2 DEF DtlbNames
  <2>14. DtlbOnce' /\ DtlbAll'
    BY <1>0, <2>9, <2>11 DEF DtlbOnce, NotBoth, DtlbAll, AllNamed
  <2>15. \A x : Unreturned(g, x) <=> Unreturned(dtlbMshr, x) /\ x # p
    BY <2>6, <2>10 DEF Unreturned
  <2>. QED
    BY <1>2, <2>1, <2>9, <2>10, <2>12, <2>13, <2>14, <2>15
<1>. QED
  BY <1>1, <1>2

LEMMA StlbHitInv ==
    ASSUME IInv, stlbRq # << >>, stlbRq' = Tail(stlbRq), StlbHit(Head(stlbRq)),
           UNCHANGED <<l1, pqHead, dtlbRq, dtlbDone>>
    PROVE  IInv'
<1>0. /\ TypeInv /\ DtlbForms /\ DtlbNames /\ DtlbOnce /\ StlbForms /\ StlbNames /\ StlbOnce
      /\ Asked /\ Ring /\ DtlbAll /\ StlbAll /\ Answers
  BY DEF IInv
<1>1. PICK d, r : d = Head(stlbRq) /\ r = Tail(stlbRq)
  OBVIOUS
<1>2. /\ d \in Request /\ d.page \in Page /\ OfStlb(d)
      /\ \A w \in Named(d) \cap Prefetches :
           /\ Waits(l1, w, d.page) /\ ~InQueue(r, w)
           /\ ~InQueue(stlbMshr, w) /\ ~InQueue(stlbDone, w)
      /\ r \in Seq(Request) /\ DistinctPages(r) /\ NamedWait(l1, r, Prefetches)
      /\ \A k \in DOMAIN r : OfStlb(r[k])
      /\ \A w : InQueue(stlbRq, w) <=> InQueue(r, w) \/ w \in Named(d)
      /\ \A p : Asks(stlbRq, p) <=> Asks(r, p) \/ (p = d.page /\ d.level = 1)
      /\ ~Asks(r, d.page)
  BY <1>1, StlbHead
<1>3. /\ stlbRq' = r /\ stlbMshr' = stlbMshr /\ walks' = walks /\ l1' = l1 /\ pqHead' = pqHead
      /\ dtlbRq' = dtlbRq /\ dtlbDone' = dtlbDone
      /\ Notify(d, d.page, TRUE) /\ ReturnToDtlb(d)
  BY <1>1 DEF StlbHit
<1>4. PICK c : c = stlbDone'
  OBVIOUS
<1>5. /\ c \in Seq(Request) /\ Pending(l1, c)
      /\ \A w : InQueue(c, w) <=> InQueue(stlbDone, w) \/ w \in Named(d) \cap Prefetches
      /\ \A k \in DOMAIN c :
           Named(c[k]) \subseteq Prefetches /\ c[k].data \in {c[k].page, Dropped}
  BY <1>2, <1>3, <1>4, NotifyTells DEF Told
<1>6. d.level = 1 => Unreturned(dtlbMshr, d.page)
  BY <1>0, <1>2 DEF Asked
<1>7. /\ failed' = failed /\ MshrType(dtlbMshr')
      /\ DtlbForms' /\ DtlbNames' /\ DtlbOnce' /\ DtlbAll'
      /\ \A x : Unreturned(dtlbMshr', x)
                   <=> Unreturned(dtlbMshr, x) /\ ~(d.level = 1 /\ x = d.page)
  BY <1>2, <1>3, <1>6, ReturnInv
<1>8. TypeInv'
  BY <1>0, <1>2, <1>3, <1>4, <1>5, <1>7 DEF TypeInv
<1>9. StlbForms'
  BY <1>0, <1>2, <1>3, <1>4, <1>5 DEF StlbForms
<1>10. StlbNames'
  BY <1>0, <1>2, <1>3, <1>4, <1>5 DEF StlbNames
<1>11. StlbOnce'
  BY <1>0, <1>2, <1>3, <1>4, <1>5 DEF StlbOnce, NotBoth
<1>12. StlbAll'
  BY <1>0, <1>2, <1>3, <1>4, <1>5 DEF StlbAll, AllNamed
<1>13. Asked'
  <2>. SUFFICES ASSUME NEW x \in Page
                PROVE  /\ Unreturned(dtlbMshr', x) <=> Asks(r, x) \/ Asks(stlbMshr, x)
                       /\ ~(Asks(r, x) /\ Asks(stlbMshr, x))
    BY <1>3 DEF Asked
  <2>1. CASE d.level = 1 /\ x = d.page
    <3>1. ~Asks(r, x) /\ Asks(stlbRq, x)
      BY <1>2, <2>1
    <3>. QED
      BY <1>0, <1>7, <2>1, <3>1 DEF Asked
  <2>2. CASE ~(d.level = 1 /\ x = d.page)
    BY <1>0, <1>2, <1>7, <2>2 DEF Asked
  <2>. QED
    BY <2>1, <2>2
<1>14. Answers'
  BY <1>0, <1>3 DEF Answers
<1>15. Ring'
  BY <1>0, <1>3, RingFrame
<1>. QED
  BY <1>7, <1>8, <1>9, <1>10, <1>11, <1>12, <1>13, <1>14, <1>15 DEF IInv

LEMMA StlbMergeInv ==
    ASSUME IInv, stlbRq # << >>, stlbRq' = Tail(stlbRq), StlbMerge(Head(stlbRq)),
           UNCHANGED <<l1, pqHead, dtlbRq, dtlbDone>>
    PROVE  IInv'
<1>0. /\ TypeInv /\ DtlbForms /\ DtlbNames /\ DtlbOnce /\ StlbForms /\ StlbNames /\ StlbOnce
      /\ Asked /\ Ring /\ DtlbAll /\ StlbAll /\ Answers
  BY DEF IInv
<1>1. PICK d, r : d = Head(stlbRq) /\ r = Tail(stlbRq)
  OBVIOUS
<1>2. /\ d \in Request /\ d.page \in Page /\ OfStlb(d)
      /\ \A w \in Named(d) \cap Prefetches :
           /\ Waits(l1, w, d.page) /\ ~InQueue(r, w)
           /\ ~InQueue(stlbMshr, w) /\ ~InQueue(stlbDone, w)
      /\ r \in Seq(Request) /\ DistinctPages(r) /\ NamedWait(l1, r, Prefetches)
      /\ \A k \in DOMAIN r : OfStlb(r[k])
      /\ \A w : InQueue(stlbRq, w) <=> InQueue(r, w) \/ w \in Named(d)
      /\ \A p : Asks(stlbRq, p) <=> Asks(r, p) \/ (p = d.page /\ d.level = 1)
      /\ ~Asks(r, d.page)
  BY <1>1, StlbHead
<1>3. PICK p : p = d.page
  OBVIOUS
<1>4. p \in DOMAIN stlbMshr
  BY <1>1, <1>3 DEF StlbMerge
<1>5. PICK o : o = stlbMshr[p]
  OBVIOUS
<1>6. o \in Request /\ o.page = p /\ OfStlb(o) /\ MshrType(stlbMshr)
  BY <1>0, <1>4, <1>5 DEF TypeInv, MshrType, StlbForms
<1>7. PICK e : e = MergeInMshr(o, d)
  OBVIOUS
<1>8. /\ e \in Request /\ e.page = p /\ e.first \in {o.first, d.first}
      /\ Named(e) = Named(o) \cup Named(d)
      /\ e.level = 1 <=> o.level = 1 \/ d.level = 1
      /\ e.type = Load <=> o.type = Load \/ d.type = Load
      /\ e.type # Load => e.first = o.first
  BY <1>2, <1>6, <1>7, MergeInMshrIs
<1>9. OfStlb(e)
  <2>1. o.level \in {1, 2} /\ d.level \in {1, 2} /\ e.level \in {1, 2}
    BY <1>2, <1>6, <1>8 DEF Request
  <2>. QED
    BY <1>2, <1>6, <1>8, <2>1 DEF OfStlb
<1>10. PICK g : g = [stlbMshr EXCEPT ![p] = e]
  OBVIOUS
<1>11. /\ stlbRq' = r /\ stlbMshr' = g /\ stlbDone' = stlbDone /\ walks' = walks /\ failed' = failed
       /\ l1' = l1 /\ pqHead' = pqHead /\ UNCHANGED dtlbVars
       /\ dtlbRq' = dtlbRq /\ dtlbMshr' = dtlbMshr /\ dtlbDone' = dtlbDone
  BY <1>1, <1>3, <1>5, <1>7, <1>10 DEF StlbMerge, dtlbVars
<1>12. Named(o) \subseteq Named(e) /\ (o.level = 1 => e.level = 1)
  BY <1>8
<1>13. /\ MshrType(g) /\ DOMAIN g = DOMAIN stlbMshr /\ g[p] = e
       /\ \A x \in DOMAIN stlbMshr : x # p => g[x] = stlbMshr[x]
       /\ \A w : InQueue(g, w) <=> InQueue(stlbMshr, w) \/ w \in Named(e)
       /\ \A x : Asks(g, x) <=> Asks(stlbMshr, x) \/ (x = p /\ e.level = 1)
  <2>1. Changed(stlbMshr, g, p, e)
    BY <1>4, <1>5, <1>6, <1>8, <1>10, <1>12, ChangeHolds
  <2>. QED
    BY <2>1 DEF Changed
<1>14. \A w \in Named(o) : InQueue(stlbMshr, w)
  BY <1>4, <1>5 DEF InQueue
<1>15. \A w : InQueue(g, w) <=> InQueue(stlbMshr, w) \/ w \in Named(d)
  BY <1>8, <1>13, <1>14
<1>16. \A x : Asks(g, x) <=> Asks(stlbMshr, x) \/ (x = p /\ d.level = 1)
  <2>1. o.level = 1 => Asks(stlbMshr, p)
    BY <1>4, <1>5, <1>6 DEF Asks
  <2>. QED
    BY <1>8, <1>13, <2>1
<1>17. TypeInv'
  BY <1>0, <1>2, <1>11, <1>13 DEF TypeInv
<1>18. StlbForms'
  <2>1. \A x \in DOMAIN g : OfStlb(g[x])
    BY <1>0, <1>9, <1>13 DEF StlbForms
  <2>. QED
    BY <1>0, <1>2, <1>11, <2>1 DEF StlbForms
<1>19. StlbNames'
  <2>1. \A w \in Named(o) \cap Prefetches : Waits(l1, w, p)
    BY <1>0, <1>4, <1>5, <1>6 DEF StlbNames, NamedWait
  <2>2. \A w \in Named(e) \cap Prefetches : Waits(l1, w, p)
    BY <1>2, <1>3, <1>8, <2>1
  <2>3. NamedWait(l1, g, Prefetches)
    BY <1>0, <1>8, <1>13, <2>2 DEF StlbNames, NamedWait
  <2>. QED
    BY <1>0, <1>2, <1>11, <2>3 DEF StlbNames
<1>20. StlbOnce'
  BY <1>0, <1>2, <1>11, <1>15 DEF StlbOnce, NotBoth
<1>21. StlbAll'
  BY <1>0, <1>2, <1>11, <1>15 DEF StlbAll, AllNamed
<1>22. DtlbForms' /\ DtlbNames' /\ DtlbOnce' /\ DtlbAll'
  BY <1>0, <1>11, DtlbFrame
<1>23. Asked'
  <2>. SUFFICES ASSUME NEW x \in Page
                PROVE  /\ Unreturned(dtlbMshr, x) <=> Asks(r, x) \/ Asks(g, x)
                       /\ ~(Asks(r, x) /\ Asks(g, x))
    BY <1>11 DEF Asked
  <2>1. CASE x = p
    <3>1. ~Asks(r, x)
      BY <1>2, <1>3, <2>1
    <3>. QED
      BY <1>0, <1>2, <1>3, <1>16, <2>1, <3>1 DEF Asked
  <2>2. CASE x # p
    BY <1>0, <1>2, <1>3, <1>16, <2>2 DEF Asked
  <2>. QED
    BY <2>1, <2>2
<1>24. Answers'
  BY <1>0, <1>11 DEF Answers
<1>25. Ring'
  BY <1>0, <1>11, RingFrame
<1>. QED
  BY <1>17, <1>18, <1>19, <1>20, <1>21, <1>22, <1>23, <1>24, <1>25 DEF IInv

LEMMA StlbMissInv ==
    ASSUME IInv, stlbRq # << >>, stlbRq' = Tail(stlbRq), StlbMiss(Head(stlbRq)),
           UNCHANGED <<l1, pqHead, dtlbRq, dtlbDone>>
    PROVE  IInv'
<1>0. /\ TypeInv /\ DtlbForms /\ DtlbNames /\ DtlbOnce /\ StlbForms /\ StlbNames /\ StlbOnce
      /\ Asked /\ Ring /\ DtlbAll /\ StlbAll /\ Answers
  BY DEF IInv
<1>1. PICK d, r : d = Head(stlbRq) /\ r = Tail(stlbRq)
  OBVIOUS
<1>2. /\ d \in Request /\ d.page \in Page /\ OfStlb(d)
      /\ \A w \in Named(d) \cap Prefetches :
           /\ Waits(l1, w, d.page) /\ ~InQueue(r, w)
           /\ ~InQueue(stlbMshr, w) /\ ~InQueue(stlbDone, w)
      /\ r \in Seq(Request) /\ DistinctPages(r) /\ NamedWait(l1, r, Prefetches)
      /\ \A k \in DOMAIN r : OfStlb(r[k])
      /\ \A w : InQueue(stlbRq, w) <=> InQueue(r, w) \/ w \in Named(d)
      /\ \A p : Asks(stlbRq, p) <=> Asks(r, p) \/ (p = d.page /\ d.level = 1)
      /\ ~Asks(r, d.page)
  BY <1>1, StlbHead
<1>3. PICK p, g : p = d.page /\ g = With(stlbMshr, p, d)
  OBVIOUS
<1>4. p \notin DOMAIN stlbMshr /\ MshrType(stlbMshr) /\ p \in Page
  BY <1>0, <1>1, <1>2, <1>3 DEF StlbMiss, TypeInv
<1>5. /\ stlbRq' = r /\ stlbMshr' = g /\ stlbDone' = stlbDone /\ failed' = failed
      /\ l1' = l1 /\ pqHead' = pqHead /\ UNCHANGED dtlbVars
      /\ dtlbRq' = dtlbRq /\ dtlbMshr' = dtlbMshr /\ dtlbDone' = dtlbDone
      /\ walks' = With(walks, p, d.type)
  BY <1>1, <1>3 DEF StlbMiss, dtlbVars
<1>6. /\ MshrType(g) /\ DOMAIN g = DOMAIN stlbMshr \cup {p}
      /\ g[p] = d /\ \A x \in DOMAIN stlbMshr : g[x] = stlbMshr[x] /\ x # p
      /\ \A w : InQueue(g, w) <=> InQueue(stlbMshr, w) \/ w \in Named(d)
      /\ \A x : Asks(g, x) <=> Asks(stlbMshr, x) \/ (x = p /\ d.level = 1)
  <2>1. Allocated(stlbMshr, g, p, d)
    BY <1>2, <1>3, <1>4, WithHolds
  <2>. QED
    BY <2>1 DEF Allocated
<1>7. TypeInv'
  <2>1. DOMAIN walks' \subseteq Page
    BY <1>0, <1>4, <1>5 DEF TypeInv, With
  <2>. QED
    BY <1>0, <1>2, <1>5, <1>6, <2>1 DEF TypeInv
<1>8. StlbForms'
  <2>1. \A x \in DOMAIN g : OfStlb(g[x])
    BY <1>0, <1>2, <1>6 DEF StlbForms
  <2>. QED
    BY <1>0, <1>2, <1>5, <2>1 DEF StlbForms
<1>9. StlbNames'
  <2>1. NamedWait(l1, g, Prefetches)
    BY <1>0, <1>2, <1>3, <1>4, WithNames DEF StlbNames
  <2>. QED
    BY <1>0, <1>2, <1>5, <2>1 DEF StlbNames
<1>10. StlbOnce'
  BY <1>0, <1>2, <1>5, <1>6 DEF StlbOnce, NotBoth
<1>11. StlbAll'
  BY <1>0, <1>2, <1>5, <1>6 DEF StlbAll, AllNamed
<1>12. DtlbForms' /\ DtlbNames' /\ DtlbOnce' /\ DtlbAll'
  BY <1>0, <1>5, DtlbFrame
<1>13. Asked'
  <2>. SUFFICES ASSUME NEW x \in Page
                PROVE  /\ Unreturned(dtlbMshr, x) <=> Asks(r, x) \/ Asks(g, x)
                       /\ ~(Asks(r, x) /\ Asks(g, x))
    BY <1>5 DEF Asked
  <2>1. CASE x = p
    <3>1. ~Asks(r, x)
      BY <1>2, <1>3, <2>1
    <3>. QED
      BY <1>0, <1>2, <1>3, <1>6, <2>1, <3>1 DEF Asked
  <2>2. CASE x # p
    BY <1>0, <1>2, <1>3, <1>6, <2>2 DEF Asked
  <2>. QED
    BY <2>1, <2>2
<1>14. Answers'
  BY <1>0, <1>5 DEF Answers
<1>15. Ring'
  BY <1>0, <1>5, RingFrame
<1>. QED
  BY <1>7, <1>8, <1>9, <1>10, <1>11, <1>12, <1>13, <1>14, <1>15 DEF IInv

\* The MSHR of page p goes, its prefetches are told v, DTLB gets its answer.
LEMMA StlbReleaseInv ==
    ASSUME IInv, NEW p \in Page, p \in DOMAIN stlbMshr, NEW v \in {p, Dropped},
           Notify(stlbMshr[p], v, FALSE), ReturnToDtlb(stlbMshr[p]),
           stlbMshr' = Without(stlbMshr, p),
           UNCHANGED <<l1, pqHead, dtlbRq, dtlbDone, stlbRq, walks>>
    PROVE  IInv'
<1>0. /\ TypeInv /\ DtlbForms /\ DtlbNames /\ DtlbOnce /\ StlbForms /\ StlbNames /\ StlbOnce
      /\ Asked /\ Ring /\ DtlbAll /\ StlbAll /\ Answers
  BY DEF IInv
<1>1. PICK d, g : d = stlbMshr[p] /\ g = Without(stlbMshr, p)
  OBVIOUS
<1>2. MshrType(stlbMshr) /\ d \in Request /\ d.page = p /\ OfStlb(d)
  BY <1>0, <1>1 DEF TypeInv, MshrType, StlbForms
<1>3. \A w \in Named(d) \cap Prefetches :
        Waits(l1, w, p) /\ InQueue(stlbMshr, w) /\ ~InQueue(stlbRq, w) /\ ~InQueue(stlbDone, w)
  <2>1. \A w \in Named(d) \cap Prefetches : Waits(l1, w, p) /\ InQueue(stlbMshr, w)
    BY <1>0, <1>1, <1>2 DEF StlbNames, NamedWait, InQueue
  <2>. QED
    BY <1>0, <2>1 DEF StlbOnce, NotBoth
<1>4. /\ stlbRq' = stlbRq /\ stlbMshr' = g /\ walks' = walks /\ l1' = l1 /\ pqHead' = pqHead
      /\ dtlbRq' = dtlbRq /\ dtlbDone' = dtlbDone
      /\ Notify(d, v, FALSE) /\ ReturnToDtlb(d)
  BY <1>1
<1>5. PICK c : c = stlbDone'
  OBVIOUS
<1>6. /\ c \in Seq(Request) /\ Pending(l1, c)
      /\ \A w : InQueue(c, w) <=> InQueue(stlbDone, w) \/ w \in Named(d) \cap Prefetches
      /\ \A k \in DOMAIN c :
           Named(c[k]) \subseteq Prefetches /\ c[k].data \in {c[k].page, Dropped}
  <2>1. v \in {d.page, Dropped} /\ \A w \in Named(d) \cap Prefetches : Waits(l1, w, d.page)
    BY <1>2, <1>3
  <2>2. Told(c, d)
    BY <1>2, <1>4, <1>5, <2>1, NotifyTells
  <2>. QED
    BY <2>2 DEF Told
<1>7. d.level = 1 => Unreturned(dtlbMshr, d.page) /\ Asks(stlbMshr, p) /\ ~Asks(stlbRq, p)
  <2>1. d.level = 1 => Asks(stlbMshr, p)
    BY <1>1, <1>2 DEF Asks
  <2>. QED
    BY <1>0, <1>2, <2>1 DEF Asked
<1>8. /\ failed' = failed /\ MshrType(dtlbMshr')
      /\ DtlbForms' /\ DtlbNames' /\ DtlbOnce' /\ DtlbAll'
      /\ \A x : Unreturned(dtlbMshr', x)
                   <=> Unreturned(dtlbMshr, x) /\ ~(d.level = 1 /\ x = d.page)
  BY <1>2, <1>4, <1>7, ReturnInv
<1>9. /\ MshrType(g) /\ DOMAIN g = DOMAIN stlbMshr \ {p} /\ \A x \in DOMAIN g : g[x] = stlbMshr[x]
      /\ \A w : InQueue(stlbMshr, w) <=> InQueue(g, w) \/ w \in Named(d)
      /\ \A x : Asks(stlbMshr, x) <=> Asks(g, x) \/ (x = p /\ d.level = 1)
      /\ ~Asks(g, p)
  <2>1. Released(stlbMshr, g, p)
    BY <1>1, <1>2, WithoutHolds
  <2>. QED
    BY <1>1, <2>1 DEF Released
<1>10. NamedWait(l1, g, Prefetches)
  BY <1>0, <1>1, WithoutNames DEF StlbNames
<1>11. \A w \in Named(d) \cap Prefetches : ~InQueue(g, w)
  <2>1. \A x \in DOMAIN g : g[x].page = x /\ x # p
    BY <1>9 DEF MshrType
  <2>. QED
    BY <1>3, <1>10, <2>1 DEF InQueue, NamedWait, Waits
<1>12. TypeInv'
  BY <1>0, <1>4, <1>5, <1>6, <1>8, <1>9 DEF TypeInv
<1>13. StlbForms'
  BY <1>0, <1>4, <1>5, <1>6, <1>9 DEF StlbForms
<1>14. StlbNames'
  BY <1>0, <1>4, <1>5, <1>6, <1>10 DEF StlbNames
<1>15. StlbOnce'
  BY <1>0, <1>3, <1>4, <1>5, <1>6, <1>9, <1>11 DEF StlbOnce, NotBoth
<1>16. StlbAll'
  BY <1>0, <1>4, <1>5, <1>6, <1>9 DEF StlbAll, AllNamed
<1>17. Asked'
  <2>. SUFFICES ASSUME NEW x \in Page
                PROVE  /\ Unreturned(dtlbMshr', x) <=> Asks(stlbRq, x) \/ Asks(g, x)
                       /\ ~(Asks(stlbRq, x) /\ Asks(g, x))
    BY <1>4 DEF Asked
  <2>1. CASE d.level = 1 /\ x = p
    BY <1>2, <1>7, <1>8, <1>9, <2>1
  <2>2. CASE ~(d.level = 1 /\ x = p)
    BY <1>0, <1>2, <1>8, <1>9, <2>2 DEF Asked
  <2>. QED
    BY <2>1, <2>2
<1>18. Answers'
  BY <1>0, <1>4 DEF Answers
<1>19. Ring'
  BY <1>0, <1>4, RingFrame
<1>. QED
  BY <1>8, <1>12, <1>13, <1>14, <1>15, <1>16, <1>17, <1>18, <1>19 DEF IInv

\* An MSHR of STLB gets its answer, or loses it again: nobody else is named.
LEMMA StlbMarkInv ==
    ASSUME IInv, NEW p \in Page, p \in DOMAIN stlbMshr, NEW e \in Request,
           e.page = p, e.first = stlbMshr[p].first, e.merged = stlbMshr[p].merged,
           e.type = stlbMshr[p].type, e.level = stlbMshr[p].level,
           stlbMshr' = [stlbMshr EXCEPT ![p] = e], DOMAIN walks' \subseteq Page,
           UNCHANGED <<l1, pqHead, dtlbVars, stlbRq, stlbDone, failed>>
    PROVE  IInv'
<1>0. /\ TypeInv /\ DtlbForms /\ DtlbNames /\ DtlbOnce /\ StlbForms /\ StlbNames /\ StlbOnce
      /\ Asked /\ Ring /\ DtlbAll /\ StlbAll /\ Answers
  BY DEF IInv
<1>1. PICK o, g : o = stlbMshr[p] /\ g = [stlbMshr EXCEPT ![p] = e]
  OBVIOUS
<1>2. MshrType(stlbMshr) /\ o \in Request /\ o.page = p /\ OfStlb(o)
  BY <1>0, <1>1 DEF TypeInv, MshrType, StlbForms
<1>3. /\ stlbRq' = stlbRq /\ stlbMshr' = g /\ stlbDone' = stlbDone /\ failed' = failed
      /\ l1' = l1 /\ pqHead' = pqHead /\ UNCHANGED dtlbVars
      /\ dtlbRq' = dtlbRq /\ dtlbMshr' = dtlbMshr /\ dtlbDone' = dtlbDone
  BY <1>1 DEF dtlbVars
<1>4. Named(e) = Named(o) /\ OfStlb(e) /\ e.level = o.level
  BY <1>1, <1>2 DEF Named, OfStlb
<1>5. /\ MshrType(g) /\ DOMAIN g = DOMAIN stlbMshr /\ g[p] = e
      /\ \A x \in DOMAIN stlbMshr : x # p => g[x] = stlbMshr[x]
      /\ \A w : InQueue(g, w) <=> InQueue(stlbMshr, w) \/ w \in Named(e)
      /\ \A x : Asks(g, x) <=> Asks(stlbMshr, x) \/ (x = p /\ e.level = 1)
  <2>1. Named(o) \subseteq Named(e) /\ (o.level = 1 => e.level = 1)
    BY <1>4
  <2>2. Changed(stlbMshr, g, p, e)
    BY <1>1, <1>2, <2>1, ChangeHolds
  <2>. QED
    BY <2>2 DEF Changed
<1>6. \A w : InQueue(g, w) <=> InQueue(stlbMshr, w)
  BY <1>1, <1>4, <1>5 DEF InQueue
<1>7. \A x : Asks(g, x) <=> Asks(stlbMshr, x)
  <2>1. o.level = 1 => Asks(stlbMshr, p)
    BY <1>1, <1>2 DEF Asks
  <2>. QED
    BY <1>4, <1>5, <2>1
<1>8. TypeInv'
  BY <1>0, <1>3, <1>5 DEF TypeInv
<1>9. StlbForms'
  <2>1. \A x \in DOMAIN g : OfStlb(g[x])
    BY <1>0, <1>4, <1>5 DEF StlbForms
  <2>. QED
    BY <1>0, <1>3, <2>1 DEF StlbForms
<1>10. StlbNames'
  <2>1. \A w \in Named(e) \cap Prefetches : Waits(l1, w, p)
    BY <1>0, <1>1, <1>2, <1>4 DEF StlbNames, NamedWait
  <2>2. NamedWait(l1, g, Prefetches)
    BY <1>0, <1>5, <2>1 DEF StlbNames, NamedWait
  <2>. QED
    BY <1>0, <1>3, <2>2 DEF StlbNames
<1>11. StlbOnce' /\ StlbAll'
  BY <1>0, <1>3, <1>6 DEF StlbOnce, NotBoth, StlbAll, AllNamed
<1>12. DtlbForms' /\ DtlbNames' /\ DtlbOnce' /\ DtlbAll'
  BY <1>0, <1>3, DtlbFrame
<1>13. Asked' /\ Answers'
  BY <1>0, <1>3, <1>7 DEF Asked, Answers
<1>14. Ring'
  BY <1>0, <1>3, RingFrame
<1>. QED
  BY <1>8, <1>9, <1>10, <1>11, <1>12, <1>13, <1>14 DEF IInv

LEMMA StlbFillInv ==
    ASSUME IInv, NEW p \in Page, StlbFill(p)
    PROVE  IInv'
<1>0. TypeInv /\ StlbForms /\ Asked
  BY DEF IInv
<1>1. PICK m : m = stlbMshr[p]
  OBVIOUS
<1>2. p \in DOMAIN stlbMshr /\ m \in Request /\ m.page = p /\ OfStlb(m)
  BY <1>0, <1>1 DEF StlbFill, TypeInv, MshrType, StlbForms
<1>3. UNCHANGED <<l1, pqHead, dtlbRq, dtlbDone, stlbRq>>
  BY DEF StlbFill
<1>4. CASE StlbDrop(m)
  BY <1>1, <1>2, <1>3, <1>4, StlbReleaseInv DEF StlbDrop
<1>5. CASE StlbStore(m)
  BY <1>1, <1>2, <1>3, <1>5, StlbReleaseInv DEF StlbStore
<1>6. CASE StlbSendAgain(m)
  <2>1. PICK e : e = [m EXCEPT !.returned = FALSE]
    OBVIOUS
  <2>2. /\ e \in Request /\ e.page = p /\ e.first = m.first /\ e.merged = m.merged
        /\ e.type = m.type /\ e.level = m.level
    BY <1>2, <2>1 DEF Request
  <2>3. stlbMshr' = [stlbMshr EXCEPT ![p] = e]
    BY <1>1, <1>2, <1>6, <2>1 DEF StlbSendAgain
  <2>4. DOMAIN walks' \subseteq Page
    BY <1>0, <1>2, <1>6 DEF StlbSendAgain, TypeInv, With
  <2>5. UNCHANGED <<l1, pqHead, dtlbVars, stlbRq, stlbDone, failed>>
    BY <1>3, <1>6 DEF StlbSendAgain, dtlbVars
  <2>. QED
    BY <1>1, <1>2, <2>2, <2>3, <2>4, <2>5, StlbMarkInv
<1>. QED
  BY <1>1, <1>4, <1>5, <1>6 DEF StlbFill

\* STLB has an MSHR for each walk, and it has not returned: return_data finds it.
Fresh(q) == \A k \in DOMAIN q : ~q[k].returned
Walked == Fresh(stlbRq) /\ \A p \in DOMAIN walks : Unreturned(stlbMshr, p)

LEMMA AnswerInv ==
    ASSUME IInv, Walked, NEW p \in Page, Answer(p)
    PROVE  IInv'
<1>0. TypeInv
  BY DEF IInv
<1>1. p \in DOMAIN stlbMshr /\ MshrType(stlbMshr)
  BY <1>0 DEF Answer, Walked, Unreturned, TypeInv
<1>2. PICK m : m = stlbMshr[p]
  OBVIOUS
<1>3. PICK data \in {p, Dropped} :
        stlbMshr' = [stlbMshr EXCEPT ![p].returned = TRUE, ![p].data = data]
  <2>1. PICK data \in {p} \cup (IF walks[p] = FromL1d THEN {Dropped} ELSE {}) :
          stlbMshr' = [stlbMshr EXCEPT ![p].returned = TRUE, ![p].data = data]
    BY DEF Answer
  <2>2. data \in {p, Dropped}
    OBVIOUS
  <2>. QED
    BY <2>1, <2>2
<1>4. PICK e : e = [m EXCEPT !.returned = TRUE, !.data = data]
  OBVIOUS
<1>5. m \in Request /\ m.page = p
  BY <1>1, <1>2 DEF MshrType
<1>6. /\ e \in Request /\ e.page = p /\ e.first = m.first /\ e.merged = m.merged
      /\ e.type = m.type /\ e.level = m.level
  BY <1>4, <1>5 DEF Request
<1>7. stlbMshr' = [stlbMshr EXCEPT ![p] = e]
  BY <1>1, <1>2, <1>3, <1>4
<1>8. DOMAIN walks' \subseteq Page
  BY <1>0 DEF Answer, TypeInv, Without, Restrict
<1>9. UNCHANGED <<l1, pqHead, dtlbVars, stlbRq, stlbDone, failed>>
  BY DEF Answer
<1>. QED
  BY <1>1, <1>2, <1>6, <1>7, <1>8, <1>9, StlbMarkInv

LEMMA FreshJoins ==
    ASSUME NEW q \in Seq(Request), NEW d, NEW r, r = AddRq(q, d), Fresh(q), ~d.returned
    PROVE  Fresh(r)
<1>. DEFINE same == {k \in DOMAIN q : q[k].page = d.page}
<1>1. \A k \in DOMAIN q : q[k] \in Request
  OBVIOUS
<1>2. ASSUME NEW k \in DOMAIN q PROVE MergeInRq(q[k], d).returned = q[k].returned
  BY <1>1 DEF MergeInRq, Request
<1>3. CASE same = {}
  <2>1. r = Append(q, d)
    BY <1>3 DEF AddRq
  <2>2. \A k \in DOMAIN r : r[k] = d \/ (k \in DOMAIN q /\ r[k] = q[k])
    BY <2>1
  <2>. QED
    BY <2>2 DEF Fresh
<1>4. CASE same # {}
  <2>1. r = [k \in DOMAIN q |-> IF k \in same THEN MergeInRq(q[k], d) ELSE q[k]]
    BY <1>4 DEF AddRq
  <2>. QED
    BY <1>2, <2>1 DEF Fresh
<1>. QED
  BY <1>3, <1>4

LEMMA WalkedStep ==
    ASSUME IInv, Walked, [Next]_vars
    PROVE  Walked'
<1>0. TypeInv /\ DtlbForms /\ StlbForms /\ MshrType(stlbMshr) /\ stlbRq \in Seq(Request)
  BY DEF IInv, TypeInv
<1>1. CASE UNCHANGED <<stlbRq, stlbMshr, walks>>
  BY <1>1 DEF Walked
<1>2. ASSUME NEW d, ~d.returned, stlbRq' = AddRq(stlbRq, d),
             UNCHANGED <<stlbMshr, walks>>
      PROVE  Walked'
  <2>1. PICK r : r = AddRq(stlbRq, d)
    OBVIOUS
  <2>2. Fresh(r)
    BY <1>0, <1>2, <2>1, FreshJoins DEF Walked
  <2>. QED
    BY <1>2, <2>1, <2>2 DEF Walked
<1>3. ASSUME NEW p \in Page, AddPrefetch(p) PROVE Walked'
  <2>1. PICK d : d = Packet(p, FromL1d, 2, <<"prefetch", (pqHead + Used(Prefetches)) % PqSize>>)
    OBVIOUS
  <2>2. ~d.returned
    BY <2>1 DEF Packet
  <2>. QED
    BY <1>2, <1>3, <2>1, <2>2 DEF AddPrefetch
<1>4. CASE DtlbRead
  <2>1. PICK d : d = Head(dtlbRq)
    OBVIOUS
  <2>2. d \in Request /\ ~d.returned
    BY <1>4, <2>1, DtlbHead DEF DtlbRead
  <2>3. CASE DtlbHit(d) \/ DtlbMerge(d)
    BY <1>1, <1>4, <2>3 DEF DtlbHit, DtlbMerge, DtlbRead
  <2>4. CASE DtlbMiss(d)
    BY <1>1, <1>2, <1>4, <2>2, <2>4 DEF DtlbMiss, DtlbRead
  <2>. QED
    BY <1>4, <2>1, <2>3, <2>4 DEF DtlbRead
<1>5. CASE StlbRead
  <2>1. PICK d, r : d = Head(stlbRq) /\ r = Tail(stlbRq)
    OBVIOUS
  <2>2. stlbRq # << >> /\ stlbRq' = r
    BY <1>5, <2>1 DEF StlbRead
  <2>3. /\ d \in Request /\ d = stlbRq[1] /\ 1 \in DOMAIN stlbRq
        /\ \A k \in DOMAIN r : k + 1 \in DOMAIN stlbRq /\ r[k] = stlbRq[k + 1]
    BY <1>0, <2>1, <2>2, TailHolds
  <2>4. ~d.returned /\ Fresh(r)
    BY <2>3 DEF Walked, Fresh
  <2>5. CASE StlbHit(d)
    BY <2>2, <2>4, <2>5 DEF StlbHit, Walked
  <2>6. CASE StlbMerge(d)
    <3>1. PICK p, o, e : p = d.page /\ o = stlbMshr[p] /\ e = MergeInMshr(o, d)
      OBVIOUS
    <3>2. p \in DOMAIN stlbMshr /\ walks' = walks /\ stlbMshr' = [stlbMshr EXCEPT ![p] = e]
      BY <2>6, <3>1 DEF StlbMerge
    <3>3. o \in Request
      BY <1>0, <3>1, <3>2 DEF MshrType
    <3>4. e.returned = o.returned
      BY <2>3, <3>1, <3>3, MergeInMshrIs
    <3>5. \A x : Unreturned(stlbMshr, x) => Unreturned(stlbMshr', x)
      BY <3>1, <3>2, <3>4 DEF Unreturned
    <3>. QED
      BY <2>2, <2>4, <3>2, <3>5 DEF Walked
  <2>7. CASE StlbMiss(d)
    <3>1. \A p \in DOMAIN walks' : Unreturned(stlbMshr', p)
      BY <2>4, <2>7 DEF StlbMiss, Walked, Unreturned, With
    <3>. QED
      BY <2>2, <2>4, <3>1 DEF Walked
  <2>. QED
    BY <1>5, <2>1, <2>5, <2>6, <2>7 DEF StlbRead
<1>6. ASSUME NEW p \in Page, StlbFill(p) PROVE Walked'
  <2>1. PICK m : m = stlbMshr[p]
    OBVIOUS
  <2>2. /\ p \in DOMAIN stlbMshr /\ m.page = p /\ m.returned /\ stlbRq' = stlbRq
        /\ p \notin DOMAIN walks
    BY <1>0, <1>6, <2>1 DEF StlbFill, MshrType, Walked, Unreturned
  <2>3. CASE StlbDrop(m) \/ StlbStore(m)
    <3>1. stlbMshr' = Without(stlbMshr, p) /\ walks' = walks
      BY <2>2, <2>3 DEF StlbDrop, StlbStore
    <3>. QED
      BY <2>2, <3>1 DEF Walked, Unreturned, Without, Restrict
  <2>4. CASE StlbSendAgain(m)
    <3>1. /\ stlbMshr' = [stlbMshr EXCEPT ![p].returned = FALSE]
          /\ walks' = With(walks, p, m.type)
      BY <2>2, <2>4 DEF StlbSendAgain
    <3>2. m \in Request
      BY <1>0, <2>1, <2>2 DEF MshrType
    <3>3. DOMAIN stlbMshr' = DOMAIN stlbMshr /\ ~stlbMshr'[p].returned
          /\ \A x \in DOMAIN stlbMshr : x # p => stlbMshr'[x] = stlbMshr[x]
      BY <2>1, <2>2, <3>1, <3>2 DEF Request
    <3>. QED
      BY <2>2, <3>1, <3>3 DEF Walked, Unreturned, With
  <2>. QED
    BY <1>6, <2>1, <2>3, <2>4 DEF StlbFill
<1>7. ASSUME NEW p \in Page, Answer(p) PROVE Walked'
  <2>1. walks' = Without(walks, p) /\ stlbRq' = stlbRq
    BY <1>7 DEF Answer
  <2>2. DOMAIN stlbMshr' = DOMAIN stlbMshr
        /\ \A x \in DOMAIN stlbMshr : x # p => stlbMshr'[x] = stlbMshr[x]
    BY <1>7 DEF Answer
  <2>. QED
    BY <2>1, <2>2 DEF Walked, Unreturned, Without, Restrict
<1>8. ASSUME NEW p \in Page, NEW queue \in {Reads, Writes}, AddDemand(queue, p)
      PROVE  Walked'
  BY <1>1, <1>8 DEF AddDemand, stlbVars
<1>9. ASSUME NEW w \in Waiters, Access(w) PROVE Walked'
  BY <1>1, <1>9 DEF Access, stlbVars
<1>10. CASE HandlePrefetch \/ ProcessDtlb \/ ProcessStlb
  BY <1>1, <1>10 DEF HandlePrefetch, ProcessDtlb, ProcessStlb, stlbVars
<1>11. ASSUME NEW p \in Page, DtlbFill(p) PROVE Walked'
  BY <1>1, <1>11 DEF DtlbFill, stlbVars
<1>12. CASE UNCHANGED vars
  BY <1>1, <1>12 DEF vars, stlbVars
<1>13. CASE Requests
  BY <1>3, <1>8, <1>13 DEF Requests
<1>14. CASE Work
  BY <1>4, <1>5, <1>6, <1>7, <1>9, <1>10, <1>11, <1>14 DEF Work
<1>. QED
  BY <1>12, <1>13, <1>14 DEF Next

-----------------------------------------------------------------------------
(* The theorems.                                                           *)

LEMMA InitInv == Init => IInv /\ Walked
<1>. SUFFICES ASSUME Init PROVE IInv /\ Walked
  OBVIOUS
<1>1. /\ l1 = [w \in Waiters |-> Free] /\ pqHead = 0 /\ failed = FALSE
      /\ dtlbRq = << >> /\ dtlbMshr = << >> /\ dtlbDone = << >>
      /\ stlbRq = << >> /\ stlbMshr = << >> /\ stlbDone = << >> /\ walks = << >>
  BY DEF Init
<1>2. \A w \in Waiters : l1[w] = Free
  BY <1>1
<1>3. DOMAIN << >> = {} /\ IsFiniteSet({}) /\ << >> \in Seq(Request)
  BY FS_EmptySet
<1>4. MshrType(<< >>)
  BY <1>3 DEF MshrType
<1>5. \A w, p : ~InQueue(<< >>, w) /\ ~Asks(<< >>, p) /\ ~Unreturned(<< >>, p)
  BY <1>3 DEF InQueue, Asks, Unreturned
<1>6. TypeInv
  <2>1. l1 \in [Waiters -> [page : Page \cup {0}, pa : Page \cup {Waiting, Dropped}]]
    BY <1>1 DEF Free
  <2>2. pqHead \in 0..(PqSize - 1)
    BY <1>1, Ranges
  <2>. QED
    BY <1>1, <1>2, <1>3, <1>4, <2>1, <2>2 DEF TypeInv
<1>7. DtlbForms /\ StlbForms
  BY <1>1, <1>3 DEF DtlbForms, StlbForms, DistinctPages
<1>8. DtlbNames /\ StlbNames
  BY <1>1, <1>3 DEF DtlbNames, StlbNames, NamedWait, Pending
<1>9. DtlbOnce /\ StlbOnce
  BY <1>1, <1>3, <1>5 DEF DtlbOnce, StlbOnce, NotBoth, Disjoint
<1>10. Asked
  BY <1>1, <1>5 DEF Asked
<1>11. Ring
  <2>1. \A j \in 0..(PqSize - 1) : l1[<<"prefetch", j>>] = Free
    BY <1>2, WaiterKinds
  <2>2. \A j \in 0..(PqSize - 1) : ~InWindow(0, 0, j)
    BY Ranges DEF InWindow
  <2>3. RingOf(l1, pqHead, 0) /\ 0 \in 0..PqSize
    BY <1>1, <2>1, <2>2, Ranges DEF RingOf
  <2>. QED
    BY <2>3 DEF Ring
<1>12. DtlbAll /\ StlbAll
  BY <1>2, WaiterKinds DEF DtlbAll, StlbAll, AllNamed, Awaits
<1>13. Answers
  BY <1>2, FreeIs DEF Answers
<1>14. Walked
  BY <1>1, <1>3 DEF Walked, Fresh
<1>. QED
  BY <1>6, <1>7, <1>8, <1>9, <1>10, <1>11, <1>12, <1>13, <1>14 DEF IInv

LEMMA NextInv ==
    ASSUME IInv, Walked, [Next]_vars
    PROVE  IInv'
<1>1. ASSUME NEW p \in Page, AddDemand(Reads, p) \/ AddDemand(Writes, p) PROVE IInv'
  BY <1>1, AddDemandInv
<1>2. ASSUME NEW p \in Page, AddPrefetch(p) PROVE IInv'
  BY <1>2, AddPrefetchInv
<1>3. ASSUME NEW w \in Waiters, Access(w) PROVE IInv'
  BY <1>3, AccessInv
<1>4. CASE HandlePrefetch
  BY <1>4, HandlePrefetchInv
<1>5. CASE ProcessDtlb
  BY <1>5, ProcessDtlbInv
<1>6. CASE ProcessStlb
  BY <1>6, ProcessStlbInv
<1>7. CASE DtlbRead
  BY <1>7, DtlbHitInv, DtlbMergeInv, DtlbMissInv DEF DtlbRead
<1>8. CASE StlbRead
  BY <1>8, StlbHitInv, StlbMergeInv, StlbMissInv DEF StlbRead
<1>9. ASSUME NEW p \in Page, DtlbFill(p) PROVE IInv'
  BY <1>9, DtlbFillInv
<1>10. ASSUME NEW p \in Page, StlbFill(p) PROVE IInv'
  BY <1>10, StlbFillInv
<1>11. ASSUME NEW p \in Page, Answer(p) PROVE IInv'
  BY <1>11, AnswerInv
<1>12. CASE UNCHANGED vars
  <2>1. /\ UNCHANGED dtlbVars /\ UNCHANGED stlbVars
        /\ l1' = l1 /\ pqHead' = pqHead /\ walks' = walks /\ failed' = failed
    BY <1>12 DEF vars
  <2>2. /\ dtlbRq' = dtlbRq /\ dtlbMshr' = dtlbMshr /\ dtlbDone' = dtlbDone
        /\ stlbRq' = stlbRq /\ stlbMshr' = stlbMshr /\ stlbDone' = stlbDone
    BY <2>1 DEF dtlbVars, stlbVars
  <2>3. DtlbForms' /\ DtlbNames' /\ DtlbOnce' /\ DtlbAll'
    BY <2>1, DtlbFrame DEF IInv
  <2>4. StlbForms' /\ StlbNames' /\ StlbOnce' /\ StlbAll'
    BY <2>1, StlbFrame DEF IInv
  <2>5. TypeInv' /\ Asked' /\ Answers'
    BY <2>1, <2>2 DEF IInv, TypeInv, Asked, Answers
  <2>6. Ring'
    BY <2>1, RingFrame DEF IInv
  <2>. QED
    BY <2>3, <2>4, <2>5, <2>6 DEF IInv
<1>13. CASE Requests
  BY <1>1, <1>2, <1>13 DEF Requests
<1>14. CASE Work
  BY <1>3, <1>4, <1>5, <1>6, <1>7, <1>8, <1>9, <1>10, <1>11, <1>14 DEF Work
<1>. QED
  BY <1>12, <1>13, <1>14 DEF Next

LEMMA Invariant == Spec => [](IInv /\ Walked)
<1>1. Init => IInv /\ Walked
  BY InitInv
<1>2. IInv /\ Walked /\ [Next]_vars => (IInv /\ Walked)'
  BY NextInv, WalkedStep
<1>. QED
  BY <1>1, <1>2, PTL DEF Spec

\* Nobody is completed for another: whoever a packet of DTLB names waits for
\* the page of the packet and is named by that packet only; the same for the
\* prefetches that packets of STLB name. So an index in a packet never means
\* a later request that got the same slot of L1D's RQ, WQ or PQ.
THEOREM NamesAreCurrent == Spec => [](DtlbNames /\ DtlbOnce /\ StlbNames /\ StlbOnce)
<1>1. IInv /\ Walked => DtlbNames /\ DtlbOnce /\ StlbNames /\ StlbOnce
  BY DEF IInv
<1>. QED
  BY <1>1, Invariant, PTL

\* STLB.return_data finds an MSHR for every answer of the walker (it asserts
\* that), and one that has no answer yet.
THEOREM AnswersFindMshr == Spec => []Walked
<1>. QED
  BY Invariant, PTL

\* Who waits is named by a packet for its page, a page DTLB waits for is asked
\* for, who no longer waits got its own page, and no packet was lost.
THEOREM EveryWaiterNamed == Spec => []WaitersNamed
<1>1. ASSUME IInv PROVE WaitersNamed
  <2>0. /\ TypeInv /\ DtlbForms /\ DtlbNames /\ StlbForms /\ StlbNames
        /\ Asked /\ DtlbAll /\ StlbAll /\ Answers
    BY <1>1 DEF IInv
  <2>1. ASSUME NEW w \in Waiters, l1[w] # Free, l1[w].pa = Waiting
        PROVE  \E d \in IF w \in Prefetches THEN InFlight(stlbRq, stlbMshr, stlbDone)
                                            ELSE InFlight(dtlbRq, dtlbMshr, dtlbDone) :
                   d.page = l1[w].page /\ w \in Named(d)
    <3>1. CASE w \in Prefetches
      <4>1. InQueue(stlbRq, w) \/ InQueue(stlbMshr, w) \/ InQueue(stlbDone, w)
        BY <2>0, <2>1, <3>1 DEF StlbAll, AllNamed, Awaits
      <4>2. \E d \in InFlight(stlbRq, stlbMshr, stlbDone) : d.page = l1[w].page /\ w \in Named(d)
        <5>1. CASE InQueue(stlbRq, w)
          BY <2>0, <3>1, <5>1 DEF InQueue, StlbNames, NamedWait, Waits, InFlight, Range
        <5>2. CASE InQueue(stlbMshr, w)
          BY <2>0, <3>1, <5>2 DEF InQueue, StlbNames, NamedWait, Waits, InFlight, Range
        <5>3. CASE InQueue(stlbDone, w)
          BY <2>0, <3>1, <5>3 DEF InQueue, StlbNames, Pending, InFlight, Range
        <5>. QED
          BY <4>1, <5>1, <5>2, <5>3
      <4>. QED
        BY <3>1, <4>2
    <3>2. CASE w \notin Prefetches
      <4>1. w \in Demands
        BY <3>2, WaiterKinds
      <4>2. InQueue(dtlbRq, w) \/ InQueue(dtlbMshr, w) \/ InQueue(dtlbDone, w)
        BY <2>0, <2>1, <4>1 DEF DtlbAll, AllNamed, Awaits
      <4>3. \E d \in InFlight(dtlbRq, dtlbMshr, dtlbDone) : d.page = l1[w].page /\ w \in Named(d)
        <5>1. CASE InQueue(dtlbRq, w)
          BY <2>0, <4>1, <5>1 DEF InQueue, DtlbNames, NamedWait, Waits, InFlight, Range
        <5>2. CASE InQueue(dtlbMshr, w)
          BY <2>0, <4>1, <5>2 DEF InQueue, DtlbNames, NamedWait, Waits, InFlight, Range
        <5>3. CASE InQueue(dtlbDone, w)
          BY <2>0, <4>1, <5>3 DEF InQueue, DtlbNames, NamedWait, Waits, InFlight, Range
        <5>. QED
          BY <4>2, <5>1, <5>2, <5>3
      <4>. QED
        BY <3>2, <4>3
    <3>. QED
      BY <3>1, <3>2
  <2>2. ASSUME NEW p \in DOMAIN dtlbMshr, ~dtlbMshr[p].returned
        PROVE  \E d \in InFlight(stlbRq, stlbMshr, << >>) :
                   d.page = p /\ d.level = 1 /\ d.type = Load
    <3>1. Asks(stlbRq, p) \/ Asks(stlbMshr, p)
      BY <2>0, <2>2 DEF TypeInv, MshrType, Asked, Unreturned
    <3>2. CASE Asks(stlbRq, p)
      BY <2>0, <3>2 DEF Asks, StlbForms, OfStlb, InFlight, Range
    <3>3. CASE Asks(stlbMshr, p)
      BY <2>0, <3>3 DEF Asks, StlbForms, OfStlb, InFlight, Range
    <3>. QED
      BY <3>1, <3>2, <3>3
  <2>3. ~failed /\ \A w \in Waiters :
            l1[w].pa \in {Waiting, l1[w].page} \cup (IF w \in Prefetches THEN {Dropped} ELSE {})
    BY <2>0 DEF TypeInv, Answers
  <2>. QED
    BY <2>1, <2>2, <2>3 DEF WaitersNamed
<1>. QED
  BY <1>1, Invariant, PTL
=============================================================================
