--------------------------- MODULE FrontEndProofs ---------------------------
(***************************************************************************)
(* FrontEnd for every trace, every answer of the predictor and every size  *)
(* of the buffers and of BTB: a stall of reading is due to one branch, and *)
(* BTB holds the last targets.                                             *)
(*                                                                         *)
(* The runs' properties count the entries that wait.  The invariant says   *)
(* where the one that waits is: it is the last instruction in the three    *)
(* buffers, since nothing is read until it is resolved; and what it knows: *)
(* a taken branch that waits carries the target that BTB has still to be   *)
(* told, and BTB is wrong about no other branch.                           *)
(***************************************************************************)
EXTENDS FrontEnd, FiniteSetTheorems, SequenceTheorems, WellFoundedInduction, TLAPS

Entry ==
    [n : Nat, ip : Ip, line : Line, branch : {"none", "direct", "conditional", "indirect", "other"},
     taken : BOOLEAN, target : Ip, branch_mispredicted : BOOLEAN, btb_miss : BOOLEAN,
     fetched : {"no", "inflight", "completed"}, wait : Nat, executed : BOOLEAN]
Way == [ip : Ip, target : Ip]

TypeInv ==
    /\ instr_unique_id \in Nat
    /\ ifetch \in Seq(Entry) /\ decode \in Seq(Entry) /\ rob \in Seq(Entry)
    /\ warmup_complete \in BOOLEAN /\ fetch_stall \in BOOLEAN
    /\ fetch_resume \in Nat \cup {None}
    /\ btb \in [0..(BtbSet - 1) -> Seq(Way)]
    /\ lastTarget \in [Ip -> Ip \cup {None}]

\* No stage puts more into a buffer than there is room for.
Bounded == Len(ifetch) <= IfetchSize /\ Len(decode) <= DecodeSize /\ Len(rob) <= RobSize

Waits(e) == ~e.executed /\ (e.branch_mispredicted \/ e.btb_miss)
SomeWaits(seq) == \E k \in 1..Len(seq) : Waits(seq[k])

\* Only instructions in ROB have been executed.
Unexecuted(seq) == \A k \in 1..Len(seq) : ~seq[k].executed

\* Whoever waits is the last instruction of the three buffers.
Ends(seq) == \A k \in 1..Len(seq) : Waits(seq[k]) => k = Len(seq)
Youngest ==
    /\ Ends(ifetch) /\ Ends(decode) /\ Ends(rob)
    /\ SomeWaits(decode) \/ SomeWaits(rob) => Len(ifetch) = 0
    /\ SomeWaits(rob) => Len(decode) = 0

\* Somebody waits iff reading is stalled and no cycle to resume in is known.
Stalled ==
    /\ SomeWaits(ifetch) \/ SomeWaits(decode) \/ SomeWaits(rob)
            <=> fetch_stall /\ fetch_resume = None
    /\ fetch_stall \/ fetch_resume = None
    /\ fetch_stall /\ fetch_resume = None => warmup_complete

\* A branch that waits and was taken carries the target it was last taken to;
\* only a taken branch misses in BTB.
Knows(seq, last) ==
    \A k \in 1..Len(seq) : Waits(seq[k]) =>
        /\ seq[k].btb_miss => seq[k].taken
        /\ seq[k].taken => last[seq[k].ip] = seq[k].target
Knowing == Knows(ifetch, lastTarget) /\ Knows(decode, lastTarget) /\ Knows(rob, lastTarget)

\* BTB has one entry for a branch, and is wrong only about one that waits.
OneWay(ways) == \A j, k \in 1..Len(ways) : ways[j].ip = ways[k].ip => j = k
OneWayEach(b) == \A s \in 0..(BtbSet - 1) : OneWay(b[s])
Told(ways, ip, target) == \A k \in 1..Len(ways) : ways[k].ip = ip => ways[k].target = target
TakenWaits(seq, ip) == \E k \in 1..Len(seq) : Waits(seq[k]) /\ seq[k].ip = ip /\ seq[k].taken
BtbInv ==
    /\ OneWayEach(btb)
    /\ \A ip \in Ip :
        \/ Told(SetOf(ip), ip, lastTarget[ip])
        \/ TakenWaits(ifetch, ip) \/ TakenWaits(decode, ip) \/ TakenWaits(rob, ip)

IInv ==
    /\ TypeInv /\ Bounded /\ Unexecuted(ifetch) /\ Unexecuted(decode)
    /\ Youngest /\ Stalled /\ Knowing /\ BtbInv

-----------------------------------------------------------------------------
(* Numbers. *)

\* A set of numbers that is bounded and not empty has a largest member.
LEMMA LargestExists ==
    ASSUME NEW n \in Nat, NEW S \in SUBSET (0..n), S # {}
    PROVE  \E x \in S : \A y \in S : x >= y
<1>. DEFINE T == {n - y : y \in S}
<1>0. \A y \in S : y \in Nat /\ n - y \in Nat
  OBVIOUS
<1>1. T \in SUBSET Nat /\ T # {}
  BY <1>0
<1>2. IsWellFoundedOn(OpToRel(<, Nat), Nat)
  BY NatLessThanWellFounded
<1>3. PICK t \in T : \A u \in T : ~(<<u, t>> \in OpToRel(<, Nat))
  BY <1>1, <1>2, WFMin
<1>4. PICK x \in S : t = n - x
  BY <1>3
<1>5. ASSUME NEW y \in S PROVE x >= y
  <2>1. n - y \in T /\ n - y \in Nat /\ t \in Nat
    BY <1>0, <1>4
  <2>2. ~(n - y < t)
    BY <1>3, <2>1 DEF OpToRel
  <2>. QED
    BY <1>0, <1>4, <2>1, <2>2
<1>. QED
  BY <1>5

\* So Max, which the stages use to count the instructions they take, is one of
\* the counts they may take.
LEMMA MaxIs ==
    ASSUME NEW n \in Nat, NEW S \in SUBSET (0..n), S # {}
    PROVE  Max(S) \in S
<1>1. \E x \in S : \A y \in S : x >= y
  BY LargestExists
<1>. QED
  BY <1>1 DEF Max

\* An address belongs to one of the sets of BTB.
LEMMA Modulus ==
    ASSUME NEW n \in Nat \ {0}, NEW x \in Nat
    PROVE  x % n \in 0..(n - 1)
  OBVIOUS

-----------------------------------------------------------------------------
(* The buffers. *)

\* What a stage that moves the first n entries of one buffer behind those of
\* the next one leaves: c is the next buffer, d the rest.
MovedOn(a, b, n, c, d) ==
    /\ Len(c) = Len(b) + n /\ Len(d) = Len(a) - n
    /\ \A k \in 1..Len(b) : c[k] = b[k]
    /\ \A k \in 1..n : c[Len(b) + k] = a[k]
    /\ \A k \in 1..Len(d) : d[k] = a[n + k]

LEMMA DroppedIs ==
    ASSUME NEW S, NEW a \in Seq(S), NEW n \in 0..Len(a), NEW d, d = Dropped(a, n)
    PROVE  /\ d \in Seq(S) /\ Len(d) = Len(a) - n
           /\ \A k \in 1..Len(d) : d[k] = a[n + k]
<1>1. Len(a) \in Nat /\ n \in Nat
  OBVIOUS
<1>2. d = SubSeq(a, n + 1, Len(a))
  BY DEF Dropped
<1>3. \A k \in (n + 1)..Len(a) : a[k] \in S
  BY <1>1
<1>4. /\ SubSeq(a, n + 1, Len(a)) \in Seq(S)
      /\ Len(SubSeq(a, n + 1, Len(a))) = IF n + 1 <= Len(a) THEN Len(a) - (n + 1) + 1 ELSE 0
      /\ \A i \in 1..(Len(a) - (n + 1) + 1) : SubSeq(a, n + 1, Len(a))[i] = a[n + 1 + i - 1]
  BY <1>1, <1>3, SubSeqProperties
<1>5. Len(d) = Len(a) - n
  BY <1>1, <1>2, <1>4
<1>6. \A k \in 1..Len(d) : d[k] = a[n + k]
  BY <1>1, <1>2, <1>4, <1>5
<1>. QED
  BY <1>2, <1>4, <1>5, <1>6

LEMMA TakenIs ==
    ASSUME NEW S, NEW a \in Seq(S), NEW n \in 0..Len(a), NEW m, m = SubSeq(a, 1, n)
    PROVE  /\ m \in Seq(S) /\ Len(m) = n
           /\ \A k \in 1..n : m[k] = a[k]
<1>1. Len(a) \in Nat /\ n \in Nat
  OBVIOUS
<1>2. \A k \in 1..n : a[k] \in S
  BY <1>1
<1>3. /\ SubSeq(a, 1, n) \in Seq(S)
      /\ Len(SubSeq(a, 1, n)) = IF 1 <= n THEN n - 1 + 1 ELSE 0
      /\ \A i \in 1..(n - 1 + 1) : SubSeq(a, 1, n)[i] = a[1 + i - 1]
  BY <1>1, <1>2, SubSeqProperties
<1>4. Len(m) = n
  BY <1>1, <1>3
<1>5. \A k \in 1..n : m[k] = a[k]
  BY <1>1, <1>3
<1>. QED
  BY <1>3, <1>4, <1>5

LEMMA MovedOnIs ==
    ASSUME NEW S, NEW a \in Seq(S), NEW b \in Seq(S), NEW n \in 0..Len(a),
           NEW m \in Seq(S), Len(m) = n, \A k \in 1..n : m[k] = a[k],
           NEW c, c = b \o m, NEW d, d = Dropped(a, n)
    PROVE  c \in Seq(S) /\ d \in Seq(S) /\ MovedOn(a, b, n, c, d)
<1>1. Len(a) \in Nat /\ Len(b) \in Nat /\ n \in Nat
  OBVIOUS
<1>2. /\ d \in Seq(S) /\ Len(d) = Len(a) - n
      /\ \A k \in 1..Len(d) : d[k] = a[n + k]
  BY DroppedIs
<1>3. /\ c \in Seq(S) /\ Len(c) = Len(b) + n
      /\ \A k \in 1..(Len(b) + n) : c[k] = IF k <= Len(b) THEN b[k] ELSE m[k - Len(b)]
  <2>1. /\ b \o m \in Seq(S) /\ Len(b \o m) = Len(b) + Len(m)
        /\ \A k \in 1..(Len(b) + Len(m)) :
              (b \o m)[k] = IF k <= Len(b) THEN b[k] ELSE m[k - Len(b)]
    BY ConcatProperties
  <2>. QED
    BY <2>1
<1>4. ASSUME NEW k \in 1..Len(b) PROVE c[k] = b[k]
  BY <1>1, <1>3
<1>5. ASSUME NEW k \in 1..n PROVE c[Len(b) + k] = a[k]
  <2>1. Len(b) + k \in 1..(Len(b) + n) /\ ~(Len(b) + k <= Len(b)) /\ Len(b) + k - Len(b) = k
    BY <1>1
  <2>2. c[Len(b) + k] = m[k]
    BY <1>3, <2>1
  <2>. QED
    BY <2>2
<1>. QED
  BY <1>2, <1>3, <1>4, <1>5 DEF MovedOn

\* Moving on changes nothing about who waits, and he stays the last one.
LEMMA MovedOnWaits ==
    ASSUME NEW a \in Seq(Entry), NEW b \in Seq(Entry), NEW n \in 0..Len(a),
           NEW c \in Seq(Entry), NEW d \in Seq(Entry), MovedOn(a, b, n, c, d)
    PROVE  /\ SomeWaits(c) \/ SomeWaits(d) <=> SomeWaits(a) \/ SomeWaits(b)
           /\ \A ip : TakenWaits(c, ip) \/ TakenWaits(d, ip)
                        <=> TakenWaits(a, ip) \/ TakenWaits(b, ip)
           /\ \A last : Knows(a, last) /\ Knows(b, last) => Knows(c, last) /\ Knows(d, last)
<1>1. /\ Len(a) \in Nat /\ Len(b) \in Nat /\ Len(c) \in Nat /\ Len(d) \in Nat
      /\ n \in Nat /\ n <= Len(a)
      /\ Len(c) = Len(b) + n /\ Len(d) = Len(a) - n
  BY DEF MovedOn
<1>2. \A k \in 1..Len(c) : \/ k \in 1..Len(b) /\ c[k] = b[k]
                           \/ \E j \in 1..Len(a) : c[k] = a[j]
  <2>1. TAKE k \in 1..Len(c)
  <2>2. CASE k <= Len(b)
    BY <1>1, <2>2 DEF MovedOn
  <2>3. CASE ~(k <= Len(b))
    <3>1. k - Len(b) \in 1..n /\ k = Len(b) + (k - Len(b)) /\ k - Len(b) \in 1..Len(a)
      BY <1>1, <2>3 DEF MovedOn
    <3>2. c[k] = a[k - Len(b)]
      BY <3>1 DEF MovedOn
    <3>. QED
      BY <3>1, <3>2
  <2>. QED
    BY <2>2, <2>3
<1>3. \A k \in 1..Len(d) : \E j \in 1..Len(a) : d[k] = a[j]
  <2>1. \A k \in 1..Len(d) : n + k \in 1..Len(a) /\ d[k] = a[n + k]
    BY <1>1 DEF MovedOn
  <2>. QED
    BY <2>1
<1>4. \A k \in 1..Len(b) : \E j \in 1..Len(c) : c[j] = b[k]
  <2>1. \A k \in 1..Len(b) : k \in 1..Len(c) /\ c[k] = b[k]
    BY <1>1 DEF MovedOn
  <2>. QED
    BY <2>1
<1>5. \A k \in 1..Len(a) : \/ \E j \in 1..Len(c) : c[j] = a[k]
                           \/ \E j \in 1..Len(d) : d[j] = a[k]
  <2>1. TAKE k \in 1..Len(a)
  <2>2. CASE k <= n
    <3>1. k \in 1..n /\ Len(b) + k \in 1..Len(c)
      BY <1>1, <2>2 DEF MovedOn
    <3>2. c[Len(b) + k] = a[k]
      BY <3>1 DEF MovedOn
    <3>. QED
      BY <3>1, <3>2
  <2>3. CASE ~(k <= n)
    <3>1. k - n \in 1..Len(d) /\ n + (k - n) = k
      BY <1>1, <2>3 DEF MovedOn
    <3>2. d[k - n] = a[k]
      BY <3>1 DEF MovedOn
    <3>. QED
      BY <3>1, <3>2
  <2>. QED
    BY <2>2, <2>3
<1>6. SomeWaits(c) \/ SomeWaits(d) <=> SomeWaits(a) \/ SomeWaits(b)
  BY <1>2, <1>3, <1>4, <1>5 DEF SomeWaits
<1>7. ASSUME NEW ip
      PROVE  TakenWaits(c, ip) \/ TakenWaits(d, ip) <=> TakenWaits(a, ip) \/ TakenWaits(b, ip)
  <2>1. TakenWaits(c, ip) \/ TakenWaits(d, ip) => TakenWaits(a, ip) \/ TakenWaits(b, ip)
    BY <1>2, <1>3 DEF TakenWaits
  <2>2. TakenWaits(a, ip) \/ TakenWaits(b, ip) => TakenWaits(c, ip) \/ TakenWaits(d, ip)
    BY <1>4, <1>5 DEF TakenWaits
  <2>. QED
    BY <2>1, <2>2
<1>8. ASSUME NEW last, Knows(a, last), Knows(b, last)
      PROVE  Knows(c, last) /\ Knows(d, last)
  BY <1>2, <1>3, <1>8 DEF Knows
<1>. QED
  BY <1>6, <1>7, <1>8

LEMMA MovedOnEnds ==
    ASSUME NEW a \in Seq(Entry), NEW b \in Seq(Entry), NEW n \in 0..Len(a),
           NEW c \in Seq(Entry), NEW d \in Seq(Entry), MovedOn(a, b, n, c, d),
           Ends(a), Ends(b), SomeWaits(b) => Len(a) = 0
    PROVE  /\ Ends(c) /\ Ends(d)
           /\ SomeWaits(c) => Len(d) = 0
<1>1. /\ Len(a) \in Nat /\ Len(b) \in Nat /\ Len(c) \in Nat /\ Len(d) \in Nat
      /\ n \in Nat /\ n <= Len(a)
      /\ Len(c) = Len(b) + n /\ Len(d) = Len(a) - n
  BY DEF MovedOn
<1>. PICK la \in Nat, lb \in Nat, lc \in Nat, ld \in Nat :
          la = Len(a) /\ lb = Len(b) /\ lc = Len(c) /\ ld = Len(d)
  BY <1>1
<1>0. n \in Nat /\ n <= la /\ lc = lb + n /\ ld = la - n
  BY <1>1
<1>2. ASSUME NEW k \in 1..lc, Waits(c[k]) PROVE k = lc /\ ld = 0
  <2>1. CASE k <= lb
    <3>1. k \in 1..lb /\ c[k] = b[k]
      BY <1>0, <2>1 DEF MovedOn
    <3>2. la = 0 /\ k = lb
      BY <1>2, <3>1 DEF SomeWaits, Ends
    <3>3. n = 0
      BY <1>0, <3>2
    <3>. QED
      BY <1>0, <3>2, <3>3
  <2>2. CASE ~(k <= lb)
    <3>1. k - lb \in 1..n /\ k = lb + (k - lb) /\ k - lb \in 1..la
      BY <1>0, <2>2
    <3>2. c[k] = a[k - lb]
      BY <3>1 DEF MovedOn
    <3>3. k - lb = la
      BY <1>2, <3>1, <3>2 DEF Ends
    <3>. QED
      BY <1>0, <3>1, <3>3
  <2>. QED
    BY <2>1, <2>2
<1>3. ASSUME NEW k \in 1..ld, Waits(d[k]) PROVE k = ld
  <2>1. n + k \in 1..la /\ d[k] = a[n + k]
    BY <1>0 DEF MovedOn
  <2>2. n + k = la
    BY <1>3, <2>1 DEF Ends
  <2>. QED
    BY <1>0, <2>2
<1>. QED
  BY <1>2, <1>3 DEF Ends, SomeWaits

\* A buffer whose entries change in other fields only.
Similar(a, b) ==
    /\ Len(b) = Len(a)
    /\ \A k \in 1..Len(a) :
          /\ b[k].ip = a[k].ip /\ b[k].taken = a[k].taken /\ b[k].target = a[k].target
          /\ b[k].branch_mispredicted = a[k].branch_mispredicted
          /\ b[k].btb_miss = a[k].btb_miss /\ b[k].executed = a[k].executed

LEMMA SimilarWaits ==
    ASSUME NEW a \in Seq(Entry), NEW b \in Seq(Entry), Similar(a, b)
    PROVE  /\ SomeWaits(b) <=> SomeWaits(a)
           /\ Ends(b) <=> Ends(a)
           /\ Unexecuted(b) <=> Unexecuted(a)
           /\ \A ip : TakenWaits(b, ip) <=> TakenWaits(a, ip)
           /\ \A last : Knows(b, last) <=> Knows(a, last)
<1>1. \A k \in 1..Len(a) : Waits(b[k]) <=> Waits(a[k])
  BY DEF Similar, Waits
<1>2. Len(b) = Len(a)
  BY DEF Similar
<1>3. SomeWaits(b) <=> SomeWaits(a)
  BY <1>1, <1>2 DEF SomeWaits
<1>4. Ends(b) <=> Ends(a)
  BY <1>1, <1>2 DEF Ends
<1>5. Unexecuted(b) <=> Unexecuted(a)
  BY <1>2 DEF Unexecuted, Similar
<1>6. ASSUME NEW ip PROVE TakenWaits(b, ip) <=> TakenWaits(a, ip)
  BY <1>1, <1>2 DEF TakenWaits, Similar
<1>7. ASSUME NEW last PROVE Knows(b, last) <=> Knows(a, last)
  BY <1>1, <1>2 DEF Knows, Similar
<1>. QED
  BY <1>3, <1>4, <1>5, <1>6, <1>7

-----------------------------------------------------------------------------
(* The branch target buffer. *)

\* The ways of one set, changed so that nothing but the target of ip does.
Rewritten(w, f, ip, target) ==
    /\ f \in Seq(Way) /\ OneWay(f) /\ Told(f, ip, target)
    /\ \A i \in Ip \ {ip} : \A t : Told(w, i, t) => Told(f, i, t)

\* A new way in front of the others, as many as there is room for.
LEMMA FilledWays ==
    ASSUME NEW w \in Seq(Way), OneWay(w), NEW ip \in Ip, NEW target \in Ip,
           \A k \in 1..Len(w) : w[k].ip # ip, NEW f,
           f = SubSeq(<<[ip |-> ip, target |-> target]>> \o w, 1, Smaller(BtbWay, Len(w) + 1))
    PROVE  Rewritten(w, f, ip, target)
<1>. DEFINE e == [ip |-> ip, target |-> target]
            g == <<e>> \o w
            n == Smaller(BtbWay, Len(w) + 1)
<1>1. e \in Way /\ e.ip = ip /\ e.target = target
  BY DEF Way
<1>. HIDE DEF e
<1>2. /\ g \in Seq(Way) /\ Len(g) = Len(w) + 1 /\ Len(w) \in Nat
      /\ g[1] = e /\ \A k \in 1..Len(w) : g[k + 1] = w[k]
  <2>1. <<e>> \in Seq(Way) /\ Len(<<e>>) = 1 /\ <<e>>[1] = e /\ Len(w) \in Nat
    BY <1>1
  <2>2. /\ g \in Seq(Way) /\ Len(g) = 1 + Len(w)
        /\ \A k \in 1..(1 + Len(w)) : g[k] = IF k <= 1 THEN <<e>>[k] ELSE w[k - 1]
    BY <2>1, ConcatProperties
  <2>3. \A k \in 1..Len(w) : k + 1 \in 1..(1 + Len(w)) /\ ~(k + 1 <= 1) /\ k + 1 - 1 = k
    BY <2>1
  <2>. QED
    BY <2>1, <2>2, <2>3
<1>3. n \in 1..Len(g)
  BY <1>2, FrontEndAssumption DEF Smaller
<1>. HIDE DEF g, n
<1>4. f \in Seq(Way) /\ Len(f) = n /\ \A k \in 1..n : f[k] = g[k]
  <2>1. n \in 0..Len(g) /\ f = SubSeq(g, 1, n)
    BY <1>2, <1>3 DEF g, n, e
  <2>. QED
    BY <1>2, <2>1, TakenIs
<1>5. \A k \in 1..n : \/ k = 1 /\ f[k] = e
                      \/ k # 1 /\ k - 1 \in 1..Len(w) /\ f[k] = w[k - 1]
  <2>1. TAKE k \in 1..n
  <2>2. CASE k = 1
    BY <1>2, <1>4, <2>2
  <2>3. CASE k # 1
    <3>1. k - 1 \in 1..Len(w) /\ k - 1 + 1 = k
      BY <1>2, <1>3, <2>3
    <3>2. g[k] = w[k - 1]
      BY <1>2, <3>1
    <3>. QED
      BY <1>4, <2>3, <3>1, <3>2
  <2>. QED
    BY <2>2, <2>3
<1>6. ASSUME NEW j \in 1..n, NEW k \in 1..n, f[j].ip = f[k].ip PROVE j = k
  <2>1. CASE j = 1 /\ k = 1
    BY <2>1
  <2>2. CASE j = 1 /\ k # 1
    BY <1>1, <1>5, <1>6, <2>2
  <2>3. CASE j # 1 /\ k = 1
    BY <1>1, <1>5, <1>6, <2>3
  <2>4. CASE j # 1 /\ k # 1
    <3>1. j - 1 \in 1..Len(w) /\ k - 1 \in 1..Len(w) /\ w[j - 1].ip = w[k - 1].ip
      BY <1>5, <1>6, <2>4
    <3>2. j - 1 = k - 1
      BY <3>1 DEF OneWay
    <3>. QED
      BY <3>2
  <2>. QED
    BY <2>1, <2>2, <2>3, <2>4
<1>7. Told(f, ip, target)
  BY <1>1, <1>4, <1>5 DEF Told
<1>8. ASSUME NEW i \in Ip \ {ip}, NEW t, Told(w, i, t) PROVE Told(f, i, t)
  BY <1>1, <1>4, <1>5, <1>8 DEF Told
<1>. QED
  BY <1>4, <1>6, <1>7, <1>8 DEF Rewritten, OneWay

\* Another target in the way that there is.
LEMMA RetargetedWays ==
    ASSUME NEW w \in Seq(Way), OneWay(w), NEW ip \in Ip, NEW target \in Ip,
           NEW k \in 1..Len(w), w[k].ip = ip, NEW f,
           f = [w EXCEPT ![k].target = target]
    PROVE  Rewritten(w, f, ip, target)
<1>1. /\ Len(w) \in Nat /\ DOMAIN w = 1..Len(w) /\ \A j \in 1..Len(w) : w[j] \in Way
  OBVIOUS
<1>2. \A j \in 1..Len(w) : /\ w[j] = [ip |-> w[j].ip, target |-> w[j].target]
                           /\ w[j].ip \in Ip /\ w[j].target \in Ip
  BY <1>1 DEF Way
<1>3. /\ f = [j \in 1..Len(w) |-> IF j = k THEN [w[k] EXCEPT !.target = target] ELSE w[j]]
  BY <1>1
<1>4. /\ [w[k] EXCEPT !.target = target].ip = ip
      /\ [w[k] EXCEPT !.target = target].target = target
      /\ [w[k] EXCEPT !.target = target] \in Way
  <2>1. w[k] = [ip |-> ip, target |-> w[k].target]
    BY <1>2
  <2>2. [w[k] EXCEPT !.target = target] = [ip |-> ip, target |-> target]
    BY <2>1
  <2>. QED
    BY <2>2 DEF Way
<1>5. f \in Seq(Way) /\ Len(f) = Len(w)
  <2>1. \A j \in 1..Len(w) : f[j] \in Way
    BY <1>1, <1>3, <1>4
  <2>. QED
    BY <1>1, <1>3, <2>1
<1>6. \A j \in 1..Len(w) : /\ f[j].ip = w[j].ip
                           /\ f[j].target = IF j = k THEN target ELSE w[j].target
  BY <1>3, <1>4
<1>7. OneWay(f)
  BY <1>5, <1>6 DEF OneWay
<1>8. Told(f, ip, target)
  BY <1>5, <1>6 DEF Told, OneWay
<1>9. ASSUME NEW i \in Ip \ {ip}, NEW t, Told(w, i, t) PROVE Told(f, i, t)
  BY <1>5, <1>6, <1>9 DEF Told
<1>. QED
  BY <1>5, <1>7, <1>8, <1>9 DEF Rewritten

\* The way that is used goes to the front.
LEMMA UsedWay ==
    ASSUME NEW w \in Seq(Way), NEW k \in 1..Len(w), NEW f,
           f = <<w[k]>> \o RemoveAt(w, k)
    PROVE  /\ f \in Seq(Way) /\ Len(f) = Len(w) /\ f[1] = w[k]
           /\ \A j \in 2..Len(w) : f[j] = IF j - 1 <= k - 1 THEN w[j - 1] ELSE w[j]
<1>1. Len(w) \in Nat /\ w[k] \in Way /\ \A j \in 1..Len(w) : w[j] \in Way
  OBVIOUS
<1>. PICK n \in Nat : n = Len(w)
  BY <1>1
<1>. DEFINE a == SubSeq(w, 1, k - 1)
            b == SubSeq(w, k + 1, Len(w))
            g == a \o b
<1>2. /\ a \in Seq(Way) /\ Len(a) = k - 1 /\ \A j \in 1..(k - 1) : a[j] = w[j]
  <2>1. k - 1 \in 0..Len(w)
    BY <1>1
  <2>. QED
    BY <2>1, TakenIs
<1>3. /\ b \in Seq(Way) /\ Len(b) = n - k /\ \A j \in 1..(n - k) : b[j] = w[k + j]
  <2>1. k \in 0..Len(w) /\ b = Dropped(w, k)
    BY <1>1 DEF Dropped
  <2>2. b \in Seq(Way) /\ Len(b) = Len(w) - k /\ \A j \in 1..Len(b) : b[j] = w[k + j]
    BY <2>1, DroppedIs
  <2>. QED
    BY <2>2
<1>. HIDE DEF a, b
<1>4. /\ g \in Seq(Way) /\ Len(g) = n - 1
      /\ \A j \in 1..(n - 1) : g[j] = IF j <= k - 1 THEN w[j] ELSE w[j + 1]
  <2>1. /\ g \in Seq(Way) /\ Len(g) = Len(a) + Len(b)
        /\ \A j \in 1..(Len(a) + Len(b)) : g[j] = IF j <= Len(a) THEN a[j] ELSE b[j - Len(a)]
    BY <1>2, <1>3, ConcatProperties
  <2>2. Len(a) + Len(b) = n - 1
    BY <1>2, <1>3
  <2>3. ASSUME NEW j \in 1..(n - 1) PROVE g[j] = IF j <= k - 1 THEN w[j] ELSE w[j + 1]
    <3>1. CASE j <= k - 1
      BY <1>2, <2>1, <2>2, <3>1
    <3>2. CASE ~(j <= k - 1)
      <4>1. j - (k - 1) \in 1..(n - k) /\ k + (j - (k - 1)) = j + 1
        BY <3>2
      <4>2. g[j] = b[j - (k - 1)]
        BY <1>2, <2>1, <2>2, <3>2
      <4>. QED
        BY <1>3, <3>2, <4>1, <4>2
    <3>. QED
      BY <3>1, <3>2
  <2>. QED
    BY <2>1, <2>2, <2>3
<1>5. RemoveAt(w, k) = g
  BY DEF RemoveAt, g, a, b
<1>. HIDE DEF g
<1>6. /\ f \in Seq(Way) /\ Len(f) = n /\ f[1] = w[k]
      /\ \A j \in 2..n : f[j] = g[j - 1]
  <2>1. <<w[k]>> \in Seq(Way) /\ Len(<<w[k]>>) = 1 /\ <<w[k]>>[1] = w[k] /\ n > 0
    BY <1>1
  <2>2. /\ <<w[k]>> \o g \in Seq(Way) /\ Len(<<w[k]>> \o g) = Len(<<w[k]>>) + Len(g)
        /\ \A j \in 1..(Len(<<w[k]>>) + Len(g)) :
              (<<w[k]>> \o g)[j] = IF j <= Len(<<w[k]>>) THEN <<w[k]>>[j]
                                   ELSE g[j - Len(<<w[k]>>)]
    BY <1>4, <2>1, ConcatProperties
  <2>3. Len(<<w[k]>>) + Len(g) = n
    BY <1>4, <2>1
  <2>4. \A j \in 2..n : j \in 1..n /\ ~(j <= 1)
    OBVIOUS
  <2>5. 1 \in 1..n
    BY <2>1
  <2>. QED
    BY <1>5, <2>1, <2>2, <2>3, <2>4, <2>5
<1>. QED
  BY <1>4, <1>6

LEMMA UsedWays ==
    ASSUME NEW w \in Seq(Way), OneWay(w), NEW n \in Nat, n = Len(w), NEW k \in 1..n,
           NEW f \in Seq(Way), Len(f) = n, f[1] = w[k],
           \A j \in 2..n : f[j] = IF j - 1 <= k - 1 THEN w[j - 1] ELSE w[j]
    PROVE  /\ OneWay(f)
           /\ \A i, t : Told(w, i, t) => Told(f, i, t)
\* Where the way at place j was before.
<1>. DEFINE at == [j \in 1..n |-> IF j = 1 THEN k ELSE IF j <= k THEN j - 1 ELSE j]
<1>7. \A j \in 1..n : at[j] \in 1..n /\ f[j] = w[at[j]]
  <2>1. TAKE j \in 1..n
  <2>2. CASE j = 1
    BY <2>2
  <2>3. CASE j # 1
    <3>1. j \in 2..n /\ j - 1 \in 1..(n - 1) /\ j - 1 + 1 = j
      BY <2>3
    <3>2. f[j] = IF j - 1 <= k - 1 THEN w[j - 1] ELSE w[j]
      BY <3>1
    <3>3. CASE j <= k
      <4>1. at[j] = j - 1
        BY <2>3, <3>3
      <4>2. f[j] = w[j - 1]
        BY <3>2, <3>3
      <4>. QED
        BY <3>1, <4>1, <4>2
    <3>4. CASE ~(j <= k)
      <4>1. at[j] = j
        BY <2>3, <3>4
      <4>2. f[j] = w[j]
        BY <3>2, <3>4
      <4>. QED
        BY <4>1, <4>2
    <3>. QED
      BY <3>3, <3>4
  <2>. QED
    BY <2>2, <2>3
<1>8. \A i, j \in 1..n : at[i] = at[j] => i = j
  OBVIOUS
<1>. HIDE DEF at
<1>9. ASSUME NEW i \in 1..n, NEW j \in 1..n, f[i].ip = f[j].ip PROVE i = j
  <2>1. at[i] \in 1..Len(w) /\ at[j] \in 1..Len(w) /\ w[at[i]].ip = w[at[j]].ip
    BY <1>7, <1>9
  <2>2. at[i] = at[j]
    BY <2>1 DEF OneWay
  <2>. QED
    BY <1>8, <2>2
<1>10. ASSUME NEW i, NEW t, Told(w, i, t), NEW j \in 1..n, f[j].ip = i
       PROVE  f[j].target = t
  <2>1. at[j] \in 1..Len(w) /\ f[j] = w[at[j]]
    BY <1>7
  <2>. QED
    BY <1>10, <2>1 DEF Told
<1>. QED
  BY <1>9, <1>10 DEF OneWay, Told

\* Each address has its set, and it is a sequence of ways.
LEMMA Sets ==
    ASSUME TypeInv, NEW ip \in Ip
    PROVE  /\ ip % BtbSet \in 0..(BtbSet - 1)
           /\ SetOf(ip) = btb[ip % BtbSet] /\ SetOf(ip) \in Seq(Way)
           /\ DOMAIN SetOf(ip) = 1..Len(SetOf(ip))
<1>1. ip \in Nat /\ BtbSet \in Nat \ {0}
  BY CodeAssumption, FrontEndAssumption
<1>2. ip % BtbSet \in 0..(BtbSet - 1)
  BY <1>1, Modulus
<1>3. SetOf(ip) = btb[ip % BtbSet]
  BY DEF SetOf
<1>4. SetOf(ip) \in Seq(Way)
  BY <1>2, <1>3 DEF TypeInv
<1>. QED
  BY <1>2, <1>3, <1>4

\* One set rewritten.
Rewrites(b, ip, target) ==
    /\ b \in [0..(BtbSet - 1) -> Seq(Way)] /\ OneWayEach(b)
    /\ Told(b[ip % BtbSet], ip, target)
    /\ \A i \in Ip \ {ip} : \A t : Told(SetOf(i), i, t) => Told(b[i % BtbSet], i, t)

LEMMA RewrittenSet ==
    ASSUME TypeInv, OneWayEach(btb), NEW ip \in Ip, NEW target, NEW f,
           Rewritten(SetOf(ip), f, ip, target), NEW b, b = [btb EXCEPT ![ip % BtbSet] = f]
    PROVE  Rewrites(b, ip, target)
<1>. PICK s \in 0..(BtbSet - 1) : s = ip % BtbSet
  BY Sets
<1>1. btb \in [0..(BtbSet - 1) -> Seq(Way)] /\ f \in Seq(Way) /\ b = [btb EXCEPT ![s] = f]
  BY DEF TypeInv, Rewritten
<1>2. /\ b \in [0..(BtbSet - 1) -> Seq(Way)] /\ b[s] = f
      /\ \A r \in 0..(BtbSet - 1) : r # s => b[r] = btb[r]
  BY <1>1
<1>3. OneWayEach(b)
  <2>1. ASSUME NEW r \in 0..(BtbSet - 1) PROVE OneWay(b[r])
    <3>1. CASE r = s
      BY <1>2, <3>1 DEF Rewritten
    <3>2. CASE r # s
      BY <1>2, <3>2 DEF OneWayEach
    <3>. QED
      BY <3>1, <3>2
  <2>. QED
    BY <2>1 DEF OneWayEach
<1>4. Told(b[ip % BtbSet], ip, target)
  BY <1>2 DEF Rewritten
<1>5. ASSUME NEW i \in Ip \ {ip}, NEW t, Told(SetOf(i), i, t)
      PROVE  Told(b[i % BtbSet], i, t)
  <2>1. i % BtbSet \in 0..(BtbSet - 1) /\ SetOf(i) = btb[i % BtbSet]
    BY Sets
  <2>2. CASE i % BtbSet = s
    <3>1. SetOf(i) = SetOf(ip)
      BY <2>1, <2>2, Sets
    <3>2. Told(f, i, t)
      BY <1>5, <3>1 DEF Rewritten
    <3>. QED
      BY <1>2, <2>2, <3>2
  <2>3. CASE i % BtbSet # s
    <3>1. b[i % BtbSet] = SetOf(i)
      BY <1>2, <2>1, <2>3
    <3>. QED
      BY <1>5, <3>1
  <2>. QED
    BY <2>2, <2>3
<1>. QED
  BY <1>2, <1>3, <1>4, <1>5 DEF Rewrites

\* fill_btb tells BTB the target of ip and nothing else.
LEMMA FillBtbIs ==
    ASSUME TypeInv, OneWayEach(btb), NEW ip \in Ip, NEW target \in Ip,
           NEW b, b = FillBtb(ip, target)
    PROVE  Rewrites(b, ip, target)
<1>. PICK s \in 0..(BtbSet - 1) : s = ip % BtbSet
  BY Sets
<1>. PICK w \in Seq(Way) : w = SetOf(ip) /\ w = btb[s] /\ DOMAIN w = 1..Len(w)
  BY Sets
<1>0. OneWay(w) /\ btb \in [0..(BtbSet - 1) -> Seq(Way)]
  BY DEF OneWayEach, TypeInv
<1>1. CASE BtbHit(ip)
  <2>. DEFINE k == CHOOSE k \in Ways(ip) : TRUE
              f == [w EXCEPT ![k].target = target]
  <2>1. k \in Ways(ip)
    BY <1>1 DEF BtbHit
  <2>2. k \in 1..Len(w) /\ w[k].ip = ip
    BY <2>1 DEF Ways
  <2>3. b = [btb EXCEPT ![s][k].target = target]
    BY <1>1 DEF FillBtb
  <2>. HIDE DEF k
  <2>4. b = [btb EXCEPT ![s] = f]
    BY <1>0, <2>3
  <2>5. Rewritten(w, f, ip, target)
    BY <1>0, <2>2, RetargetedWays
  <2>. HIDE DEF f
  <2>. QED
    BY <2>4, <2>5, RewrittenSet
<1>2. CASE ~BtbHit(ip)
  <2>. DEFINE f == SubSeq(<<[ip |-> ip, target |-> target]>> \o w, 1, Smaller(BtbWay, Len(w) + 1))
  <2>1. \A k \in 1..Len(w) : w[k].ip # ip
    BY <1>2 DEF BtbHit, Ways
  <2>2. b = [btb EXCEPT ![s] = f]
    BY <1>0, <1>2 DEF FillBtb
  <2>3. Rewritten(w, f, ip, target)
    BY <1>0, <2>1, FilledWays
  <2>. HIDE DEF f
  <2>. QED
    BY <2>2, <2>3, RewrittenSet
<1>. QED
  BY <1>1, <1>2

\* A lookup changes the order of the ways of one set and no target.
Looked(b) ==
    /\ b \in [0..(BtbSet - 1) -> Seq(Way)] /\ OneWayEach(b)
    /\ \A i \in Ip : \A t : Told(SetOf(i), i, t) => Told(b[i % BtbSet], i, t)

LEMMA UsedIs ==
    ASSUME TypeInv, OneWayEach(btb), NEW ip \in Ip, BtbHit(ip), NEW b, b = Used(ip)
    PROVE  Looked(b)
<1>. PICK s \in 0..(BtbSet - 1) : s = ip % BtbSet
  BY Sets
<1>. PICK w \in Seq(Way) : w = SetOf(ip) /\ w = btb[s] /\ DOMAIN w = 1..Len(w)
  BY Sets
<1>0. OneWay(w) /\ btb \in [0..(BtbSet - 1) -> Seq(Way)]
  BY DEF OneWayEach, TypeInv
<1>. DEFINE k == CHOOSE k \in Ways(ip) : TRUE
            f == <<w[k]>> \o RemoveAt(w, k)
<1>1. k \in Ways(ip)
  BY DEF BtbHit
<1>2. k \in 1..Len(w) /\ w[k].ip = ip
  BY <1>1 DEF Ways
<1>3. b = [btb EXCEPT ![s] = f]
  BY <1>0 DEF Used
<1>. HIDE DEF k
<1>4. /\ f \in Seq(Way) /\ Len(f) = Len(w) /\ f[1] = w[k]
      /\ \A j \in 2..Len(w) : f[j] = IF j - 1 <= k - 1 THEN w[j - 1] ELSE w[j]
  BY <1>2, UsedWay
<1>. HIDE DEF f
<1>5. OneWay(f) /\ \A i, t : Told(w, i, t) => Told(f, i, t)
  <2>1. Len(w) \in Nat
    OBVIOUS
  <2>. QED
    BY <1>0, <1>2, <1>4, <2>1, UsedWays
<1>6. /\ b \in [0..(BtbSet - 1) -> Seq(Way)] /\ b[s] = f
      /\ \A r \in 0..(BtbSet - 1) : r # s => b[r] = btb[r]
  BY <1>0, <1>3, <1>4
<1>7. OneWayEach(b)
  <2>1. ASSUME NEW r \in 0..(BtbSet - 1) PROVE OneWay(b[r])
    <3>1. CASE r = s
      BY <1>5, <1>6, <3>1
    <3>2. CASE r # s
      BY <1>6, <3>2 DEF OneWayEach
    <3>. QED
      BY <3>1, <3>2
  <2>. QED
    BY <2>1 DEF OneWayEach
<1>8. ASSUME NEW i \in Ip, NEW t, Told(SetOf(i), i, t)
      PROVE  Told(b[i % BtbSet], i, t)
  <2>1. i % BtbSet \in 0..(BtbSet - 1) /\ SetOf(i) = btb[i % BtbSet]
    BY Sets
  <2>2. CASE i % BtbSet = s
    BY <1>5, <1>6, <1>8, <2>1, <2>2
  <2>3. CASE i % BtbSet # s
    <3>1. b[i % BtbSet] = SetOf(i)
      BY <1>6, <2>1, <2>3
    <3>. QED
      BY <1>8, <3>1
  <2>. QED
    BY <2>2, <2>3
<1>. QED
  BY <1>6, <1>7, <1>8 DEF Looked

\* What BTB answers on a hit is the one target it has for the branch.
LEMMA BtbTargetIs ==
    ASSUME TypeInv, OneWayEach(btb), NEW ip \in Ip, BtbHit(ip)
    PROVE  /\ Told(SetOf(ip), ip, BtbTarget(ip))
           /\ \A t : Told(SetOf(ip), ip, t) => BtbTarget(ip) = t
<1>. PICK s \in 0..(BtbSet - 1) : s = ip % BtbSet
  BY Sets
<1>. PICK w \in Seq(Way) : w = SetOf(ip) /\ w = btb[s] /\ DOMAIN w = 1..Len(w)
  BY Sets
<1>. DEFINE k == CHOOSE k \in Ways(ip) : TRUE
<1>0. OneWay(w)
  BY DEF OneWayEach
<1>1. k \in Ways(ip)
  BY DEF BtbHit
<1>2. k \in 1..Len(w) /\ w[k].ip = ip
  BY <1>1 DEF Ways
<1>3. BtbTarget(ip) = w[k].target
  BY DEF BtbTarget
<1>. HIDE DEF k
<1>4. \A j \in 1..Len(w) : w[j].ip = ip => j = k
  BY <1>0, <1>2 DEF OneWay
<1>. QED
  BY <1>2, <1>3, <1>4 DEF Told

-----------------------------------------------------------------------------
(* The stages. *)

\* The parts of IInv that read a variable which did not change.
LEMMA SameBtb ==
    ASSUME BtbInv, btb' = btb, lastTarget' = lastTarget,
           \A ip \in Ip :
              TakenWaits(ifetch, ip) \/ TakenWaits(decode, ip) \/ TakenWaits(rob, ip)
              => TakenWaits(ifetch', ip) \/ TakenWaits(decode', ip) \/ TakenWaits(rob', ip)
    PROVE  BtbInv'
<1>1. \A ip \in Ip : SetOf(ip)' = SetOf(ip)
  BY DEF SetOf
<1>2. OneWayEach(btb)'
  BY DEF BtbInv
<1>3. \A ip \in Ip :
         \/ Told(SetOf(ip), ip, lastTarget[ip])'
         \/ TakenWaits(ifetch', ip) \/ TakenWaits(decode', ip) \/ TakenWaits(rob', ip)
  BY <1>1 DEF BtbInv
<1>. QED
  BY <1>2, <1>3 DEF BtbInv

LEMMA InitInv == Init => IInv
<1>. SUFFICES ASSUME Init PROVE IInv
  OBVIOUS
<1>1. /\ ifetch = <<>> /\ decode = <<>> /\ rob = <<>>
      /\ <<>> \in Seq(Entry) /\ Len(<<>>) = 0 /\ <<>> \in Seq(Way)
  BY DEF Init
<1>2. TypeInv
  BY <1>1 DEF Init, TypeInv, None
<1>3. Bounded
  BY <1>1, FrontEndAssumption DEF Bounded
<1>4. /\ Unexecuted(<<>>) /\ Ends(<<>>) /\ ~SomeWaits(<<>>)
      /\ \A last : Knows(<<>>, last)
  BY <1>1 DEF Unexecuted, Ends, SomeWaits, Knows
<1>5. Youngest
  BY <1>1, <1>4 DEF Youngest
<1>6. Stalled
  BY <1>1, <1>4 DEF Stalled, Init
<1>7. Knowing
  BY <1>1, <1>4 DEF Knowing
<1>8. BtbInv
  <2>1. \A s \in 0..(BtbSet - 1) : btb[s] = <<>>
    BY DEF Init
  <2>2. OneWayEach(btb)
    BY <1>1, <2>1 DEF OneWayEach, OneWay
  <2>3. ASSUME NEW ip \in Ip PROVE Told(SetOf(ip), ip, lastTarget[ip])
    <3>1. SetOf(ip) = <<>>
      BY <1>2, <2>1, Sets
    <3>. QED
      BY <1>1, <3>1 DEF Told
  <2>. QED
    BY <2>2, <2>3 DEF BtbInv
<1>. QED
  BY <1>1, <1>2, <1>3, <1>4, <1>5, <1>6, <1>7, <1>8 DEF IInv

\* retire_rob takes executed instructions only.
LEMMA RetireCount ==
    ASSUME TypeInv, NEW n,
           n = Max({k \in 0..Smaller(RetireWidth, Len(rob)) : \A j \in 1..k : rob[j].executed})
    PROVE  n \in 0..Len(rob) /\ \A j \in 1..n : rob[j].executed
<1>. DEFINE most == Smaller(RetireWidth, Len(rob))
            S == {k \in 0..most : \A j \in 1..k : rob[j].executed}
<1>1. Len(rob) \in Nat
  BY DEF TypeInv
<1>2. most \in Nat /\ most <= Len(rob)
  BY <1>1, FrontEndAssumption DEF Smaller
<1>. HIDE DEF most
<1>3. S \in SUBSET (0..most) /\ 0 \in S
  BY <1>2
<1>4. Max(S) \in S
  BY <1>2, <1>3, MaxIs
<1>5. n \in S
  BY <1>4 DEF most
<1>. QED
  BY <1>1, <1>2, <1>5

LEMMA RetireInv == IInv /\ Retire => IInv'
<1>. SUFFICES ASSUME IInv, Retire PROVE IInv'
  OBVIOUS
<1>. PICK n : /\ n \in 0..Len(rob) /\ \A j \in 1..n : rob[j].executed
              /\ rob' = Dropped(rob, n)
  <2>. DEFINE n == Max({k \in 0..Smaller(RetireWidth, Len(rob)) : \A j \in 1..k : rob[j].executed})
  <2>1. n \in 0..Len(rob) /\ \A j \in 1..n : rob[j].executed
    BY RetireCount DEF IInv
  <2>2. rob' = Dropped(rob, n)
    BY DEF Retire
  <2>. QED
    BY <2>1, <2>2
<1>1. UNCHANGED <<instr_unique_id, ifetch, decode, warmup_complete, fetch_stall, fetch_resume,
                  btb, lastTarget>>
  BY DEF Retire, trace, stall
<1>2. /\ rob \in Seq(Entry) /\ Len(rob) \in Nat
      /\ rob' \in Seq(Entry) /\ Len(rob') = Len(rob) - n
      /\ \A k \in 1..Len(rob') : rob'[k] = rob[n + k]
  <2>1. rob \in Seq(Entry)
    BY DEF IInv, TypeInv
  <2>. QED
    BY <2>1, DroppedIs
<1>. PICK len \in Nat, left \in Nat : len = Len(rob) /\ left = Len(rob') /\ n \in 0..len
                                     /\ left = len - n
  BY <1>2
<1>3. \A k \in 1..left : n + k \in 1..len /\ rob'[k] = rob[n + k]
  BY <1>2
<1>4. \A k \in 1..len : Waits(rob[k]) => k - n \in 1..left /\ rob'[k - n] = rob[k]
  <2>1. ASSUME NEW k \in 1..len, Waits(rob[k]) PROVE k - n \in 1..left /\ rob'[k - n] = rob[k]
    <3>1. ~(k \in 1..n)
      BY <2>1 DEF Waits
    <3>2. k - n \in 1..left /\ n + (k - n) = k
      BY <3>1
    <3>. QED
      BY <1>3, <3>2
  <2>. QED
    BY <2>1
<1>5. SomeWaits(rob') <=> SomeWaits(rob)
  BY <1>3, <1>4 DEF SomeWaits
<1>6. Ends(rob')
  <2>1. ASSUME NEW k \in 1..left, Waits(rob'[k]) PROVE k = left
    <3>1. n + k \in 1..len /\ Waits(rob[n + k])
      BY <1>3, <2>1
    <3>2. n + k = len
      BY <3>1 DEF IInv, Youngest, Ends
    <3>. QED
      BY <3>2
  <2>. QED
    BY <2>1 DEF Ends
<1>7. Knows(rob', lastTarget)
  <2>1. Knows(rob, lastTarget)
    BY DEF IInv, Knowing
  <2>. QED
    BY <1>3, <2>1 DEF Knows
<1>8. \A ip \in Ip : TakenWaits(rob, ip) => TakenWaits(rob', ip)
  BY <1>4 DEF TakenWaits
<1>9. BtbInv'
  BY <1>1, <1>8, SameBtb DEF IInv
<1>10. TypeInv' /\ Bounded'
  <2>1. Len(rob') <= RobSize
    BY <1>2, FrontEndAssumption DEF IInv, Bounded
  <2>. QED
    BY <1>1, <1>2, <2>1 DEF IInv, TypeInv, Bounded
<1>11. Youngest' /\ Stalled' /\ Knowing'
  BY <1>1, <1>5, <1>6, <1>7 DEF IInv, Youngest, Stalled, Knowing
<1>. QED
  BY <1>1, <1>9, <1>10, <1>11 DEF IInv

\* One entry of a sequence replaced.
LEMMA ReplacedAt ==
    ASSUME NEW S, NEW a \in Seq(S), NEW k \in 1..Len(a), NEW x \in S,
           NEW b, b = [a EXCEPT ![k] = x]
    PROVE  /\ b \in Seq(S) /\ Len(b) = Len(a)
           /\ b[k] = x /\ \A j \in 1..Len(a) : j # k => b[j] = a[j]
  OBVIOUS

\* An entry that is sent to L1I or answered.
LEMMA RefetchedIs ==
    ASSUME NEW x \in Entry, NEW f \in {"no", "inflight", "completed"},
           NEW y, y = [x EXCEPT !.fetched = f]
    PROVE  /\ y \in Entry
           /\ y.ip = x.ip /\ y.taken = x.taken /\ y.target = x.target
           /\ y.branch_mispredicted = x.branch_mispredicted
           /\ y.btb_miss = x.btb_miss /\ y.executed = x.executed
  BY DEF Entry

LEMMA ExecuteInv ==
    ASSUME IInv, NEW n, Execute(n)
    PROVE  IInv'
<1>0. PICK k \in DOMAIN rob :
          LET e == rob[k]
              resolves == e.branch_mispredicted \/ e.btb_miss
          IN  /\ ~e.executed
              /\ rob' = [rob EXCEPT ![k].executed = TRUE]
              /\ fetch_resume' = IF resolves /\ warmup_complete THEN 1 ELSE fetch_resume
              /\ btb' = IF resolves /\ e.taken THEN FillBtb(e.ip, e.target) ELSE btb
              /\ UNCHANGED <<stage, trace, ifetch, decode, num_retired, warmup_complete,
                             fetch_stall, l1i, processed, lastTarget>>
  BY DEF Execute
<1>. DEFINE e == rob[k]
            resolves == e.branch_mispredicted \/ e.btb_miss
<1>1. /\ rob \in Seq(Entry) /\ DOMAIN rob = 1..Len(rob) /\ Len(rob) \in Nat
      /\ k \in 1..Len(rob) /\ \A j \in 1..Len(rob) : rob[j] \in Entry
  BY DEF IInv, TypeInv
<1>2. /\ e.ip \in Ip /\ e.target \in Ip /\ e.taken \in BOOLEAN
      /\ e.branch_mispredicted \in BOOLEAN /\ e.btb_miss \in BOOLEAN
  BY <1>1 DEF Entry
<1>3. /\ UNCHANGED <<instr_unique_id, ifetch, decode, warmup_complete, fetch_stall, lastTarget>>
      /\ fetch_resume' = IF resolves /\ warmup_complete THEN 1 ELSE fetch_resume
      /\ btb' = IF resolves /\ e.taken THEN FillBtb(e.ip, e.target) ELSE btb
      /\ ~e.executed
  BY <1>0 DEF trace
<1>4. /\ rob' \in Seq(Entry) /\ Len(rob') = Len(rob)
      /\ rob'[k].executed /\ \A j \in 1..Len(rob) : j # k => rob'[j] = rob[j]
  <2>1. [e EXCEPT !.executed = TRUE] \in Entry /\ [e EXCEPT !.executed = TRUE].executed
    BY <1>1 DEF Entry
  <2>2. rob' = [rob EXCEPT ![k] = [e EXCEPT !.executed = TRUE]]
    BY <1>0, <1>1
  <2>. HIDE DEF e
  <2>. QED
    <3>. PICK x \in Entry : x = [e EXCEPT !.executed = TRUE] /\ x.executed
      BY <2>1
    <3>1. rob' = [rob EXCEPT ![k] = x]
      BY <2>2
    <3>2. /\ rob' \in Seq(Entry) /\ Len(rob') = Len(rob)
          /\ rob'[k] = x /\ \A j \in 1..Len(rob) : j # k => rob'[j] = rob[j]
      BY <1>1, <3>1, ReplacedAt
    <3>. QED
      BY <3>2
<1>5. \A j \in 1..Len(rob) : Waits(rob'[j]) <=> Waits(rob[j]) /\ j # k
  BY <1>4 DEF Waits
<1>6. Knows(rob', lastTarget)
  <2>1. Knows(rob, lastTarget)
    BY DEF IInv, Knowing
  <2>2. \A j \in 1..Len(rob) : Waits(rob'[j]) => rob'[j] = rob[j] /\ Waits(rob[j])
    BY <1>4, <1>5
  <2>. QED
    BY <1>4, <2>1, <2>2 DEF Knows
<1>7. Ends(rob')
  BY <1>4, <1>5 DEF IInv, Youngest, Ends
<1>8. fetch_resume' \in Nat \cup {None} /\ Bounded'
  BY <1>3, <1>4 DEF IInv, TypeInv, Bounded, None
<1>9. CASE ~resolves
  <2>1. \A j \in 1..Len(rob) : (Waits(rob'[j]) <=> Waits(rob[j])) /\ (Waits(rob[j]) => j # k)
    BY <1>5, <1>9 DEF Waits
  <2>2. SomeWaits(rob') <=> SomeWaits(rob)
    BY <1>4, <2>1 DEF SomeWaits
  <2>3. \A ip \in Ip : TakenWaits(rob, ip) => TakenWaits(rob', ip)
    BY <1>4, <2>1 DEF TakenWaits
  <2>4. btb' = btb /\ fetch_resume' = fetch_resume
    BY <1>3, <1>9
  <2>5. BtbInv'
    BY <1>3, <2>3, <2>4, SameBtb DEF IInv
  <2>6. TypeInv' /\ Youngest' /\ Stalled' /\ Knowing'
    BY <1>3, <1>4, <1>6, <1>7, <2>2, <2>4 DEF IInv, TypeInv, Youngest, Stalled, Knowing
  <2>. QED
    BY <1>3, <1>8, <2>5, <2>6 DEF IInv
<1>10. CASE resolves
  <2>1. Waits(e)
    BY <1>3, <1>10 DEF Waits
  <2>2. SomeWaits(rob) /\ k = Len(rob)
    BY <1>1, <2>1 DEF SomeWaits, IInv, Youngest, Ends
  <2>3. ~SomeWaits(rob')
    <3>1. \A j \in 1..Len(rob) : Waits(rob[j]) => j = Len(rob)
      BY DEF IInv, Youngest, Ends
    <3>. QED
      BY <1>4, <1>5, <2>2, <3>1 DEF SomeWaits
  <2>4. Len(ifetch) = 0 /\ Len(decode) = 0
    BY <2>2 DEF IInv, Youngest
  <2>5. ~SomeWaits(ifetch) /\ ~SomeWaits(decode)
    BY <2>4 DEF SomeWaits
  <2>6. fetch_stall /\ fetch_resume = None /\ warmup_complete
    BY <2>2 DEF IInv, Stalled
  <2>7. fetch_resume' = 1
    BY <1>3, <1>10, <2>6
  <2>8. Stalled'
    BY <1>3, <2>3, <2>5, <2>6, <2>7 DEF Stalled, None
  <2>9. Youngest' /\ Knowing'
    BY <1>3, <1>6, <1>7, <2>3 DEF IInv, Youngest, Knowing
  <2>10. Knows(rob, lastTarget) /\ OneWayEach(btb) /\ TypeInv
    BY DEF IInv, Knowing, BtbInv
  <2>11. \A ip \in Ip : TakenWaits(rob, ip) => ip = e.ip /\ e.taken
    <3>1. \A j \in 1..Len(rob) : Waits(rob[j]) => j = k
      BY <2>2 DEF IInv, Youngest, Ends
    <3>. QED
      BY <3>1 DEF TakenWaits
  <2>12. \A ip \in Ip : ~TakenWaits(ifetch, ip) /\ ~TakenWaits(decode, ip)
    BY <2>4 DEF TakenWaits
  <2>13. \A ip \in Ip : Told(SetOf(ip), ip, lastTarget[ip]) \/ (ip = e.ip /\ e.taken)
    BY <2>11, <2>12 DEF IInv, BtbInv
  <2>14. CASE ~e.taken
    <3>1. btb' = btb
      BY <1>3, <2>14
    <3>2. \A ip \in Ip : ~TakenWaits(rob, ip)
      BY <2>11, <2>14
    <3>3. BtbInv'
      BY <1>3, <2>12, <3>1, <3>2, SameBtb DEF IInv
    <3>4. TypeInv'
      BY <1>3, <1>4, <1>8, <3>1 DEF IInv, TypeInv
    <3>. QED
      BY <1>3, <1>8, <2>8, <2>9, <3>3, <3>4 DEF IInv
  <2>15. CASE e.taken
    <3>1. btb' = FillBtb(e.ip, e.target)
      BY <1>3, <1>10, <2>15
    <3>2. Rewrites(btb', e.ip, e.target)
      BY <1>2, <2>10, <3>1, FillBtbIs
    <3>3. lastTarget[e.ip] = e.target
      BY <1>1, <2>1, <2>10, <2>15 DEF Knows
    <3>4. \A ip \in Ip : Told(btb'[ip % BtbSet], ip, lastTarget[ip])
      BY <2>13, <3>2, <3>3 DEF Rewrites
    <3>5. BtbInv'
      BY <1>3, <3>2, <3>4 DEF BtbInv, SetOf, Rewrites
    <3>6. TypeInv'
      BY <1>3, <1>4, <1>8, <3>2 DEF IInv, TypeInv, Rewrites
    <3>. QED
      BY <1>3, <1>8, <2>8, <2>9, <3>5, <3>6 DEF IInv
  <2>. QED
    BY <1>2, <2>14, <2>15
<1>. QED
  BY <1>9, <1>10

\* Stages that change other fields of entries only.
LEMMA SimilarInv ==
    ASSUME IInv, ifetch' \in Seq(Entry), decode' \in Seq(Entry),
           Similar(ifetch, ifetch'), Similar(decode, decode'),
           UNCHANGED <<instr_unique_id, rob, warmup_complete, fetch_stall, fetch_resume,
                       btb, lastTarget>>
    PROVE  IInv'
<1>1. ifetch \in Seq(Entry) /\ decode \in Seq(Entry)
  BY DEF IInv, TypeInv
<1>2. /\ SomeWaits(ifetch') <=> SomeWaits(ifetch)
      /\ Ends(ifetch') <=> Ends(ifetch)
      /\ Unexecuted(ifetch') <=> Unexecuted(ifetch)
      /\ \A ip : TakenWaits(ifetch', ip) <=> TakenWaits(ifetch, ip)
      /\ \A last : Knows(ifetch', last) <=> Knows(ifetch, last)
      /\ Len(ifetch') = Len(ifetch)
  BY <1>1, SimilarWaits DEF Similar
<1>3. /\ SomeWaits(decode') <=> SomeWaits(decode)
      /\ Ends(decode') <=> Ends(decode)
      /\ Unexecuted(decode') <=> Unexecuted(decode)
      /\ \A ip : TakenWaits(decode', ip) <=> TakenWaits(decode, ip)
      /\ \A last : Knows(decode', last) <=> Knows(decode, last)
      /\ Len(decode') = Len(decode)
  BY <1>1, SimilarWaits DEF Similar
<1>4. BtbInv'
  BY <1>2, <1>3, SameBtb DEF IInv
<1>5. TypeInv' /\ Bounded' /\ Unexecuted(ifetch') /\ Unexecuted(decode')
  BY <1>2, <1>3 DEF IInv, TypeInv, Bounded
<1>6. Youngest' /\ Knowing'
  BY <1>2, <1>3 DEF IInv, Youngest, Knowing
<1>7. Stalled'
  BY <1>2, <1>3 DEF IInv, Stalled
<1>. QED
  BY <1>4, <1>5, <1>6, <1>7 DEF IInv

LEMMA SimilarSame == ASSUME NEW a PROVE Similar(a, a)
  BY DEF Similar

LEMMA UpdateRobInv == IInv /\ UpdateRob => IInv'
<1>. SUFFICES ASSUME IInv, UpdateRob PROVE IInv'
  OBVIOUS
<1>. PICK lines : /\ ifetch' = Delivered(lines)
                  /\ UNCHANGED <<trace, decode, rob, warmup_complete, stall, btb, lastTarget>>
  BY DEF UpdateRob
<1>1. ifetch \in Seq(Entry) /\ decode \in Seq(Entry) /\ DOMAIN ifetch = 1..Len(ifetch)
  BY DEF IInv, TypeInv
<1>2. \A k \in 1..Len(ifetch) :
         /\ ifetch[k] \in Entry
         /\ [ifetch[k] EXCEPT !.fetched = "completed"] \in Entry
  BY <1>1, RefetchedIs
<1>3. ifetch' = [k \in 1..Len(ifetch) |->
                   IF ifetch[k].line \in lines THEN [ifetch[k] EXCEPT !.fetched = "completed"]
                   ELSE ifetch[k]]
  BY <1>1 DEF Delivered
<1>4. ifetch' \in Seq(Entry) /\ Len(ifetch') = Len(ifetch)
  BY <1>1, <1>2, <1>3
<1>5. Similar(ifetch, ifetch')
  BY <1>2, <1>3, <1>4, RefetchedIs DEF Similar
<1>. QED
  BY <1>1, <1>4, <1>5, SimilarInv, SimilarSame DEF trace, stall

LEMMA SendReadInv ==
    ASSUME IInv, NEW line, SendRead(line)
    PROVE  IInv'
<1>1. ifetch \in Seq(Entry) /\ decode \in Seq(Entry) /\ DOMAIN ifetch = 1..Len(ifetch)
  BY DEF IInv, TypeInv
<1>2. \A k \in 1..Len(ifetch) :
         /\ ifetch[k] \in Entry
         /\ [ifetch[k] EXCEPT !.fetched = "inflight"] \in Entry
  BY <1>1, RefetchedIs
<1>3. ifetch' = [k \in 1..Len(ifetch) |->
                   IF ifetch[k].line = line THEN [ifetch[k] EXCEPT !.fetched = "inflight"]
                   ELSE ifetch[k]]
  BY <1>1 DEF SendRead
<1>4. ifetch' \in Seq(Entry) /\ Len(ifetch') = Len(ifetch)
  BY <1>1, <1>2, <1>3
<1>5. Similar(ifetch, ifetch')
  BY <1>2, <1>3, <1>4, RefetchedIs DEF Similar
<1>6. UNCHANGED <<instr_unique_id, decode, rob, warmup_complete, fetch_stall, fetch_resume,
                  btb, lastTarget>>
  BY DEF SendRead, trace, stall
<1>. QED
  BY <1>1, <1>4, <1>5, <1>6, SimilarInv, SimilarSame

\* A buffer in which entries wait shorter.
LEMMA RewaitedIs ==
    ASSUME NEW x \in Entry, NEW w \in Nat, NEW y, y = [x EXCEPT !.wait = w]
    PROVE  /\ y \in Entry
           /\ y.ip = x.ip /\ y.taken = x.taken /\ y.target = x.target
           /\ y.branch_mispredicted = x.branch_mispredicted
           /\ y.btb_miss = x.btb_miss /\ y.executed = x.executed
  BY DEF Entry

Rewaited(a, b, n) ==
    /\ n = Len(a) /\ b = [k \in 1..n |-> b[k]]
    /\ \A k \in 1..n : b[k] = a[k] \/ \E w \in Nat : b[k] = [a[k] EXCEPT !.wait = w]

LEMMA RewaitedSimilar ==
    ASSUME NEW a \in Seq(Entry), NEW n \in Nat, NEW b, Rewaited(a, b, n)
    PROVE  b \in Seq(Entry) /\ Similar(a, b)
<1>1. \A k \in 1..n : a[k] \in Entry
  BY DEF Rewaited
<1>2. ASSUME NEW k \in 1..n
      PROVE  /\ b[k] \in Entry
             /\ b[k].ip = a[k].ip /\ b[k].taken = a[k].taken /\ b[k].target = a[k].target
             /\ b[k].branch_mispredicted = a[k].branch_mispredicted
             /\ b[k].btb_miss = a[k].btb_miss /\ b[k].executed = a[k].executed
  <2>1. CASE b[k] = a[k]
    BY <1>1, <2>1
  <2>2. CASE \E w \in Nat : b[k] = [a[k] EXCEPT !.wait = w]
    <3>1. PICK w \in Nat : b[k] = [a[k] EXCEPT !.wait = w]
      BY <2>2
    <3>. QED
      BY <1>1, <3>1, RewaitedIs
  <2>. QED
    BY <2>1, <2>2 DEF Rewaited
<1>3. b \in Seq(Entry) /\ Len(b) = n
  BY <1>2 DEF Rewaited
<1>. QED
  BY <1>2, <1>3 DEF Similar, Rewaited

LEMMA AnswerInv ==
    ASSUME IInv, NEW line, Answer(line)
    PROVE  IInv'
<1>1. UNCHANGED <<instr_unique_id, ifetch, decode, rob, warmup_complete, fetch_stall,
                  fetch_resume, btb, lastTarget>>
  BY DEF Answer, trace, stall, buffers
<1>2. ifetch' \in Seq(Entry) /\ decode' \in Seq(Entry)
  BY <1>1 DEF IInv, TypeInv
<1>. QED
  BY <1>1, <1>2, SimilarInv, SimilarSame

\* The end of a cycle: a cycle to resume in comes nearer and stays known.
LEMMA EndCycleInv == IInv /\ EndCycle => IInv'
<1>. SUFFICES ASSUME IInv, EndCycle PROVE IInv'
  OBVIOUS
<1>. DEFINE Earlier(x) == IF x > 0 THEN x - 1 ELSE x
<1>1. /\ UNCHANGED <<instr_unique_id, ifetch, rob, fetch_stall, btb, lastTarget>>
      /\ fetch_resume' = Earlier(fetch_resume)
      /\ warmup_complete' = (warmup_complete \/ num_retired > WarmUp)
  BY DEF EndCycle, trace
<1>2. /\ ifetch \in Seq(Entry) /\ decode \in Seq(Entry) /\ DOMAIN decode = 1..Len(decode)
      /\ Len(decode) \in Nat /\ \A k \in 1..Len(decode) : decode[k] \in Entry
  BY DEF IInv, TypeInv
<1>3. decode' = [k \in 1..Len(decode) |->
                   IF decode[k].wait = Undecoded THEN decode[k]
                   ELSE [decode[k] EXCEPT !.wait = Earlier(decode[k].wait)]]
  BY <1>2 DEF EndCycle
<1>4. \A k \in 1..Len(decode) : Earlier(decode[k].wait) \in Nat
  <2>1. \A k \in 1..Len(decode) : decode[k].wait \in Nat
    BY <1>2 DEF Entry
  <2>. QED
    BY <2>1
<1>5. /\ fetch_resume' \in Nat \cup {None}
      /\ fetch_resume' = None <=> fetch_resume = None
  BY <1>1 DEF IInv, TypeInv, None
<1>. HIDE DEF Earlier
<1>6. decode' \in Seq(Entry) /\ Similar(decode, decode')
  <2>. PICK n \in Nat : n = Len(decode)
    BY <1>2
  <2>1. decode' = [k \in 1..n |-> decode'[k]]
    BY <1>3
  <2>2. \A k \in 1..n : \/ decode'[k] = decode[k]
                        \/ \E w \in Nat : decode'[k] = [decode[k] EXCEPT !.wait = w]
    BY <1>3, <1>4
  <2>. QED
    BY <1>2, <2>1, <2>2, RewaitedSimilar DEF Rewaited
<1>7. /\ SomeWaits(decode') <=> SomeWaits(decode)
      /\ Ends(decode') <=> Ends(decode)
      /\ Unexecuted(decode') <=> Unexecuted(decode)
      /\ \A ip : TakenWaits(decode', ip) <=> TakenWaits(decode, ip)
      /\ \A last : Knows(decode', last) <=> Knows(decode, last)
      /\ Len(decode') = Len(decode)
  BY <1>2, <1>6, SimilarWaits DEF Similar
<1>8. warmup_complete' \in BOOLEAN /\ (warmup_complete => warmup_complete')
  BY <1>1
<1>9. BtbInv'
  BY <1>1, <1>7, SameBtb DEF IInv
<1>10. TypeInv' /\ Bounded' /\ Unexecuted(decode')
  BY <1>1, <1>5, <1>6, <1>7, <1>8 DEF IInv, TypeInv, Bounded
<1>11. Youngest' /\ Knowing'
  BY <1>1, <1>7 DEF IInv, Youngest, Knowing
<1>12. Stalled'
  BY <1>1, <1>5, <1>7, <1>8 DEF IInv, Stalled
<1>. QED
  BY <1>1, <1>9, <1>10, <1>11, <1>12 DEF IInv

\* fetch_instruction moves what is fetched, and no more than DECODE_BUFFER takes.
LEMMA FetchCount ==
    ASSUME TypeInv, Bounded, NEW n,
           n = LET most == Smaller(DecodeWidth, Smaller(Len(ifetch), DecodeSize - Len(decode)))
               IN  Max({k \in 0..most : \A j \in 1..k : ifetch[j].fetched = "completed"})
    PROVE  n \in 0..Len(ifetch) /\ Len(decode) + n <= DecodeSize
<1>. DEFINE most == Smaller(DecodeWidth, Smaller(Len(ifetch), DecodeSize - Len(decode)))
            S == {k \in 0..most : \A j \in 1..k : ifetch[j].fetched = "completed"}
<1>1. Len(ifetch) \in Nat /\ Len(decode) \in Nat /\ Len(decode) <= DecodeSize /\ DecodeSize \in Nat
  BY FrontEndAssumption DEF TypeInv, Bounded
<1>2. most \in Nat /\ most <= Len(ifetch) /\ most <= DecodeSize - Len(decode)
  BY <1>1, FrontEndAssumption DEF Smaller
<1>. HIDE DEF most
<1>3. S \in SUBSET (0..most) /\ 0 \in S
  BY <1>2
<1>4. Max(S) \in S
  BY <1>2, <1>3, MaxIs
<1>5. n \in S
  BY <1>4 DEF most
<1>. QED
  BY <1>1, <1>2, <1>5

LEMMA FetchInstructionInv == IInv /\ FetchInstruction => IInv'
<1>. SUFFICES ASSUME IInv, FetchInstruction PROVE IInv'
  OBVIOUS
<1>0. PICK n \in 0..Len(ifetch) :
               /\ Len(decode) + n <= DecodeSize
               /\ decode' = decode \o SubSeq(ifetch, 1, n) /\ ifetch' = Dropped(ifetch, n)
  <2>. DEFINE most == Smaller(DecodeWidth, Smaller(Len(ifetch), DecodeSize - Len(decode)))
              n == Max({k \in 0..most : \A j \in 1..k : ifetch[j].fetched = "completed"})
  <2>1. n \in 0..Len(ifetch) /\ Len(decode) + n <= DecodeSize
    BY FetchCount DEF IInv
  <2>2. decode' = decode \o SubSeq(ifetch, 1, n) /\ ifetch' = Dropped(ifetch, n)
    BY DEF FetchInstruction
  <2>. QED
    BY <2>1, <2>2
<1>. DEFINE resumes == fetch_stall /\ fetch_resume = 0
<1>1. /\ UNCHANGED <<instr_unique_id, rob, warmup_complete, btb, lastTarget>>
      /\ fetch_stall' = (fetch_stall /\ ~resumes)
      /\ fetch_resume' = IF resumes THEN None ELSE fetch_resume
  BY DEF FetchInstruction
<1>2. ifetch \in Seq(Entry) /\ decode \in Seq(Entry) /\ rob \in Seq(Entry)
  BY DEF IInv, TypeInv
<1>3. ifetch' \in Seq(Entry) /\ decode' \in Seq(Entry) /\ MovedOn(ifetch, decode, n, decode', ifetch')
  <2>. DEFINE m == SubSeq(ifetch, 1, n)
  <2>1. m \in Seq(Entry) /\ Len(m) = n /\ \A k \in 1..n : m[k] = ifetch[k]
    BY <1>2, TakenIs
  <2>2. decode' = decode \o m /\ ifetch' = Dropped(ifetch, n)
    BY <1>0
  <2>. HIDE DEF m
  <2>. QED
    BY <1>2, <2>1, <2>2, MovedOnIs
<1>4. /\ SomeWaits(decode') \/ SomeWaits(ifetch') <=> SomeWaits(ifetch) \/ SomeWaits(decode)
      /\ \A ip : TakenWaits(decode', ip) \/ TakenWaits(ifetch', ip)
                   <=> TakenWaits(ifetch, ip) \/ TakenWaits(decode, ip)
      /\ \A last : Knows(ifetch, last) /\ Knows(decode, last)
                     => Knows(decode', last) /\ Knows(ifetch', last)
  BY <1>2, <1>3, MovedOnWaits
<1>5. /\ Ends(decode') /\ Ends(ifetch')
      /\ SomeWaits(decode') => Len(ifetch') = 0
  <2>1. Ends(ifetch) /\ Ends(decode) /\ (SomeWaits(decode) => Len(ifetch) = 0)
    BY DEF IInv, Youngest
  <2>. QED
    BY <1>2, <1>3, <2>1, MovedOnEnds
<1>6. Len(decode') = Len(decode) + n /\ Len(ifetch') = Len(ifetch) - n
  BY <1>3 DEF MovedOn
<1>7. SomeWaits(rob) => Len(ifetch') = 0 /\ Len(decode') = 0
  <2>1. SomeWaits(rob) => Len(ifetch) = 0 /\ Len(decode) = 0
    BY DEF IInv, Youngest
  <2>. QED
    BY <1>0, <1>2, <1>6, <2>1
<1>8. Youngest'
  BY <1>1, <1>5, <1>7 DEF IInv, Youngest
<1>9. Bounded'
  <2>1. /\ Len(ifetch) \in Nat /\ Len(decode) \in Nat /\ n \in Nat
        /\ Len(ifetch) <= IfetchSize /\ IfetchSize \in Nat
    BY <1>2, FrontEndAssumption DEF IInv, Bounded
  <2>2. Len(ifetch') <= IfetchSize
    BY <1>6, <2>1
  <2>3. Len(decode') <= DecodeSize
    BY <1>0, <1>6
  <2>. QED
    BY <1>1, <2>2, <2>3 DEF IInv, Bounded
<1>10. Unexecuted(ifetch') /\ Unexecuted(decode')
  <2>1. ASSUME NEW k \in 1..Len(ifetch') PROVE ~ifetch'[k].executed
    <3>1. n + k \in 1..Len(ifetch) /\ ifetch'[k] = ifetch[n + k]
      BY <1>0, <1>2, <1>3, <1>6 DEF MovedOn
    <3>. QED
      BY <3>1 DEF IInv, Unexecuted
  <2>2. ASSUME NEW k \in 1..Len(decode') PROVE ~decode'[k].executed
    <3>1. CASE k <= Len(decode)
      <4>1. k \in 1..Len(decode) /\ decode'[k] = decode[k]
        BY <1>2, <1>3, <1>6, <3>1 DEF MovedOn
      <4>. QED
        BY <4>1 DEF IInv, Unexecuted
    <3>2. CASE ~(k <= Len(decode))
      <4>1. /\ k - Len(decode) \in 1..n /\ k - Len(decode) \in 1..Len(ifetch)
            /\ Len(decode) + (k - Len(decode)) = k
        BY <1>0, <1>2, <1>6, <3>2
      <4>2. decode'[k] = ifetch[k - Len(decode)]
        BY <1>3, <4>1 DEF MovedOn
      <4>. QED
        BY <4>1, <4>2 DEF IInv, Unexecuted
    <3>. QED
      BY <3>1, <3>2
  <2>. QED
    BY <2>1, <2>2 DEF Unexecuted
<1>11. BtbInv'
  BY <1>1, <1>4, SameBtb DEF IInv
<1>12. Knowing'
  BY <1>1, <1>4 DEF IInv, Knowing
<1>13. Stalled'
  <2>1. fetch_stall \in BOOLEAN /\ Stalled
    BY DEF IInv, TypeInv
  <2>2. CASE resumes
    <3>1. fetch_stall' = FALSE /\ fetch_resume' = None
      BY <1>1, <2>2
    <3>2. ~(SomeWaits(ifetch) \/ SomeWaits(decode) \/ SomeWaits(rob))
      BY <2>1, <2>2 DEF Stalled, None
    <3>. QED
      BY <1>1, <1>4, <3>1, <3>2 DEF Stalled
  <2>3. CASE ~resumes
    <3>1. fetch_stall' = fetch_stall /\ fetch_resume' = fetch_resume
      BY <1>1, <2>1, <2>3
    <3>. QED
      BY <1>1, <1>4, <2>1, <3>1 DEF Stalled
  <2>. QED
    BY <2>2, <2>3
<1>14. TypeInv'
  BY <1>1, <1>3 DEF IInv, TypeInv
<1>. QED
  BY <1>8, <1>9, <1>10, <1>11, <1>12, <1>13, <1>14 DEF IInv

\* decode_and_dispatch moves no more than ROB takes.
LEMMA DispatchCount ==
    ASSUME TypeInv, Bounded
    PROVE  Dispatched \in 0..Len(decode) /\ Len(rob) + Dispatched <= RobSize
<1>. DEFINE most == Smaller(DecodeWidth, Smaller(Len(decode), RobSize - Len(rob)))
            S == {k \in 0..most : \A j \in 1..k : Ready(decode[j])}
<1>1. Len(decode) \in Nat /\ Len(rob) \in Nat /\ Len(rob) <= RobSize /\ RobSize \in Nat
  BY FrontEndAssumption DEF TypeInv, Bounded
<1>2. most \in Nat /\ most <= Len(decode) /\ most <= RobSize - Len(rob)
  BY <1>1, FrontEndAssumption DEF Smaller
<1>. HIDE DEF most
<1>3. S \in SUBSET (0..most) /\ 0 \in S
  BY <1>2
<1>4. Max(S) \in S
  BY <1>2, <1>3, MaxIs
<1>5. Dispatched \in S
  BY <1>4 DEF most, Dispatched
<1>. QED
  BY <1>1, <1>2, <1>5

\* Paying the latency of decoding changes nothing else.
LEMMA StampedIs ==
    ASSUME NEW buffer \in Seq(Entry), NEW b, b = Stamped(buffer)
    PROVE  b \in Seq(Entry) /\ Similar(buffer, b)
<1>. DEFINE undecoded == {k \in DOMAIN buffer : buffer[k].wait = Undecoded}
            last == IF Len(buffer) = DecodeSize THEN 1 ELSE Len(buffer)
            turn == {k \in undecoded : /\ k <= last
                                       /\ Cardinality({j \in undecoded : j < k}) < DecodeWidth}
            latency == IF warmup_complete THEN DecodeLatency ELSE 0
<1>1. latency + 1 \in Nat
  BY FrontEndAssumption
<1>2. b = [k \in DOMAIN buffer |->
             IF k \in turn THEN [buffer[k] EXCEPT !.wait = latency + 1] ELSE buffer[k]]
  BY DEF Stamped
<1>. HIDE DEF turn, latency
<1>. HIDE DEF undecoded, last
<1>. PICK n \in Nat : n = Len(buffer)
  OBVIOUS
<1>3. b = [k \in 1..n |-> b[k]] /\ DOMAIN buffer = 1..n
  BY <1>2
<1>4. \A k \in 1..n : b[k] = buffer[k] \/ \E w \in Nat : b[k] = [buffer[k] EXCEPT !.wait = w]
  BY <1>1, <1>2, <1>3
<1>5. Rewaited(buffer, b, n)
  BY <1>3, <1>4 DEF Rewaited
<1>. QED
  BY <1>5, RewaitedSimilar

\* An instruction that decode has resolved.
LEMMA ResolvedIs ==
    ASSUME NEW x \in Entry, ResolvedByDecode(x), NEW y, y = [x EXCEPT !.btb_miss = FALSE]
    PROVE  y \in Entry /\ ~Waits(y)
<1>1. y \in Entry /\ y.btb_miss = FALSE /\ y.branch_mispredicted = x.branch_mispredicted
  BY DEF Entry
<1>. QED
  BY <1>1 DEF ResolvedByDecode, Waits

LEMMA DecodeAndDispatchInv == IInv /\ DecodeAndDispatch => IInv'
<1>. SUFFICES ASSUME IInv, DecodeAndDispatch PROVE IInv'
  OBVIOUS
<1>. DEFINE moved == SubSeq(decode, 1, Dispatched)
            known == {e \in ToSet(moved) : ResolvedByDecode(e)}
            branch == CHOOSE e \in known : TRUE
<1>1. /\ UNCHANGED <<instr_unique_id, ifetch, warmup_complete, fetch_stall, lastTarget>>
      /\ fetch_resume' = IF known # {} /\ warmup_complete THEN 1 ELSE fetch_resume
      /\ btb' = IF known # {} THEN FillBtb(branch.ip, branch.target) ELSE btb
  BY DEF DecodeAndDispatch, trace
<1>. PICK n \in 0..Len(decode) : n = Dispatched /\ Len(rob) + n <= RobSize
  BY DispatchCount DEF IInv
<1>. DEFINE q == [k \in 1..n |-> IF ResolvedByDecode(moved[k])
                                 THEN [moved[k] EXCEPT !.btb_miss = FALSE] ELSE moved[k]]
            d == Dropped(decode, n)
<1>2. rob' = rob \o q /\ decode' = Stamped(d)
  BY DEF DecodeAndDispatch
<1>3. /\ ifetch \in Seq(Entry) /\ decode \in Seq(Entry) /\ rob \in Seq(Entry)
      /\ Len(ifetch) \in Nat /\ Len(decode) \in Nat /\ Len(rob) \in Nat
      /\ n \in Nat /\ n <= Len(decode) /\ \A k \in 1..Len(decode) : decode[k] \in Entry
  BY DEF IInv, TypeInv
<1>4. /\ moved \in Seq(Entry) /\ Len(moved) = n /\ \A k \in 1..n : moved[k] = decode[k]
  BY <1>3, TakenIs
<1>5. d \in Seq(Entry) /\ Len(d) = Len(decode) - n /\ \A k \in 1..Len(d) : d[k] = decode[n + k]
  BY <1>3, DroppedIs
<1>6. known = {e \in {moved[k] : k \in 1..n} : ResolvedByDecode(e)}
  <2>. HIDE DEF moved
  <2>1. DOMAIN moved = 1..n
    BY <1>4
  <2>. QED
    BY <2>1 DEF ToSet
<1>. HIDE DEF moved, d
<1>7. decode' \in Seq(Entry) /\ Similar(d, decode')
  BY <1>2, <1>5, StampedIs
<1>8. /\ SomeWaits(decode') <=> SomeWaits(d)
      /\ Ends(decode') <=> Ends(d)
      /\ Unexecuted(decode') <=> Unexecuted(d)
      /\ \A ip : TakenWaits(decode', ip) <=> TakenWaits(d, ip)
      /\ \A last : Knows(decode', last) <=> Knows(d, last)
      /\ Len(decode') = Len(d)
  BY <1>5, <1>7, SimilarWaits DEF Similar
<1>9. Unexecuted(decode')
  <2>1. ASSUME NEW k \in 1..Len(d) PROVE ~d[k].executed
    <3>1. n + k \in 1..Len(decode) /\ d[k] = decode[n + k]
      BY <1>3, <1>5
    <3>. QED
      BY <3>1 DEF IInv, Unexecuted
  <2>. QED
    BY <1>8, <2>1 DEF Unexecuted
<1>10. q \in Seq(Entry) /\ Len(q) = n
  <2>1. ASSUME NEW k \in 1..n PROVE q[k] \in Entry
    <3>1. moved[k] \in Entry
      BY <1>3, <1>4
    <3>2. CASE ResolvedByDecode(moved[k])
      BY <3>1, <3>2, ResolvedIs
    <3>3. CASE ~ResolvedByDecode(moved[k])
      BY <3>1, <3>3
    <3>. QED
      BY <3>2, <3>3
  <2>2. q = [k \in 1..n |-> q[k]]
    OBVIOUS
  <2>. HIDE DEF q
  <2>. QED
    BY <1>3, <2>1, <2>2
<1>11. \A k \in 1..n : q[k] = IF ResolvedByDecode(moved[k])
                              THEN [moved[k] EXCEPT !.btb_miss = FALSE] ELSE moved[k]
  OBVIOUS
<1>. HIDE DEF q
<1>12. /\ rob' \in Seq(Entry) /\ Len(rob') = Len(rob) + n
       /\ \A k \in 1..(Len(rob) + n) : rob'[k] = IF k <= Len(rob) THEN rob[k] ELSE q[k - Len(rob)]
  <2>1. /\ rob \o q \in Seq(Entry) /\ Len(rob \o q) = Len(rob) + Len(q)
        /\ \A k \in 1..(Len(rob) + Len(q)) :
              (rob \o q)[k] = IF k <= Len(rob) THEN rob[k] ELSE q[k - Len(rob)]
    BY <1>3, <1>10, ConcatProperties
  <2>. QED
    BY <1>2, <1>10, <2>1
<1>13. Bounded'
  <2>1. Len(decode') <= DecodeSize
    <3>1. Len(decode) <= DecodeSize /\ DecodeSize \in Nat
      BY FrontEndAssumption DEF IInv, Bounded
    <3>2. Len(decode') = Len(decode) - n
      BY <1>5, <1>8
    <3>. QED
      BY <1>3, <3>1, <3>2
  <2>2. Len(rob') <= RobSize
    BY <1>12
  <2>. QED
    BY <1>1, <2>1, <2>2 DEF IInv, Bounded
<1>14. CASE known = {}
  <2>1. \A k \in 1..n : q[k] = decode[k]
    <3>1. \A k \in 1..n : ~ResolvedByDecode(moved[k])
      BY <1>6, <1>14
    <3>. QED
      BY <1>4, <1>11, <3>1
  <2>2. MovedOn(decode, rob, n, rob', d)
    BY <1>2, <1>3, <1>10, <2>1, MovedOnIs DEF d
  <2>3. btb' = btb /\ fetch_resume' = fetch_resume
    BY <1>1, <1>14
  <2>4. /\ SomeWaits(rob') \/ SomeWaits(d) <=> SomeWaits(decode) \/ SomeWaits(rob)
        /\ \A ip : TakenWaits(rob', ip) \/ TakenWaits(d, ip)
                     <=> TakenWaits(decode, ip) \/ TakenWaits(rob, ip)
        /\ \A last : Knows(decode, last) /\ Knows(rob, last)
                       => Knows(rob', last) /\ Knows(d, last)
    BY <1>3, <1>5, <1>12, <2>2, MovedOnWaits
  <2>5. /\ Ends(rob') /\ Ends(d)
        /\ SomeWaits(rob') => Len(d) = 0
    <3>1. Ends(decode) /\ Ends(rob) /\ (SomeWaits(rob) => Len(decode) = 0)
      BY DEF IInv, Youngest
    <3>. QED
      BY <1>3, <1>5, <1>12, <2>2, <3>1, MovedOnEnds
  <2>6. Youngest'
    BY <1>1, <1>8, <2>4, <2>5 DEF IInv, Youngest
  <2>7. Stalled'
    BY <1>1, <1>8, <2>3, <2>4 DEF IInv, Stalled
  <2>8. Knowing'
    BY <1>1, <1>8, <2>4 DEF IInv, Knowing
  <2>9. BtbInv'
    BY <1>1, <1>8, <2>3, <2>4, SameBtb DEF IInv
  <2>10. TypeInv'
    BY <1>1, <1>7, <1>12, <2>3 DEF IInv, TypeInv
  <2>. QED
    BY <1>1, <1>9, <1>13, <2>6, <2>7, <2>8, <2>9, <2>10 DEF IInv
<1>15. CASE known # {}
  <2>1. \A k \in 1..n : ResolvedByDecode(moved[k]) => Waits(decode[k])
    <3>1. \A k \in 1..n : k \in 1..Len(decode) /\ ~decode[k].executed
      BY <1>3 DEF IInv, Unexecuted
    <3>. QED
      BY <1>4, <3>1 DEF ResolvedByDecode, Waits
  <2>2. PICK k \in 1..n : ResolvedByDecode(moved[k])
    BY <1>6, <1>15
  <2>3. k = n /\ n = Len(decode) /\ k \in 1..Len(decode) /\ Waits(decode[k])
    <3>1. k \in 1..Len(decode) /\ Waits(decode[k])
      BY <1>3, <2>1, <2>2
    <3>2. k = Len(decode)
      BY <3>1 DEF IInv, Youngest, Ends
    <3>. QED
      BY <1>3, <3>1, <3>2
  <2>. DEFINE e == decode[n]
  <2>4. \A j \in 1..n : Waits(decode[j]) => j = n
    BY <2>3 DEF IInv, Youngest, Ends
  <2>5. branch = e
    <3>1. \A x \in known : x = e
      BY <1>4, <1>6, <2>1, <2>4
    <3>2. branch \in known
      BY <1>15
    <3>. QED
      BY <3>1, <3>2
  <2>6. SomeWaits(decode) /\ Len(ifetch) = 0 /\ ~SomeWaits(rob)
    BY <2>3 DEF SomeWaits, IInv, Youngest
  <2>7. Len(d) = 0 /\ Len(decode') = 0
    BY <1>3, <1>5, <1>8, <2>3
  <2>8. ~SomeWaits(rob')
    <3>1. ASSUME NEW j \in 1..(Len(rob) + n) PROVE ~Waits(rob'[j])
      <4>1. CASE j <= Len(rob)
        <5>1. j \in 1..Len(rob) /\ rob'[j] = rob[j]
          BY <1>3, <1>12, <4>1
        <5>. QED
          BY <2>6, <5>1 DEF SomeWaits
      <4>2. CASE ~(j <= Len(rob))
        <5>. PICK i \in 1..n : i = j - Len(rob)
          BY <1>3, <4>2
        <5>1. rob'[j] = q[i]
          BY <1>12, <4>2
        <5>2. CASE ResolvedByDecode(moved[i])
          <6>1. moved[i] \in Entry
            BY <1>4
          <6>2. q[i] = [moved[i] EXCEPT !.btb_miss = FALSE]
            BY <1>11, <5>2
          <6>. QED
            BY <5>1, <5>2, <6>1, <6>2, ResolvedIs
        <5>3. CASE ~ResolvedByDecode(moved[i])
          <6>1. i # n
            BY <2>2, <2>3, <5>3
          <6>2. ~Waits(decode[i]) /\ q[i] = decode[i]
            BY <1>4, <1>11, <2>4, <5>3, <6>1
          <6>. QED
            BY <5>1, <6>2
        <5>. QED
          BY <5>2, <5>3
      <4>. QED
        BY <4>1, <4>2
    <3>. QED
      BY <1>12, <3>1 DEF SomeWaits
  <2>9. ~SomeWaits(ifetch) /\ ~SomeWaits(decode')
    BY <2>6, <2>7 DEF SomeWaits
  <2>10. fetch_stall /\ fetch_resume = None /\ warmup_complete /\ fetch_resume' = 1
    BY <1>1, <1>15, <2>6 DEF IInv, Stalled
  <2>11. Stalled'
    BY <1>1, <2>8, <2>9, <2>10 DEF Stalled, None
  <2>12. Youngest' /\ Knowing'
    BY <1>1, <2>8, <2>9 DEF Youngest, Knowing, Ends, Knows, SomeWaits
  <2>13. /\ e \in Entry /\ e.ip \in Ip /\ e.target \in Ip
    <3>1. e \in Entry
      BY <1>3, <2>3
    <3>. QED
      BY <3>1 DEF Entry
  <2>14. e.taken /\ lastTarget[e.ip] = e.target
    <3>1. e.btb_miss
      BY <1>4, <2>2, <2>3 DEF ResolvedByDecode
    <3>. QED
      BY <2>3, <3>1 DEF IInv, Knowing, Knows
  <2>15. TypeInv /\ OneWayEach(btb)
    BY DEF IInv, BtbInv
  <2>16. Rewrites(btb', e.ip, e.target)
    BY <1>1, <1>15, <2>5, <2>13, <2>15, FillBtbIs
  <2>17. \A ip \in Ip : ip # e.ip => ~TakenWaits(ifetch, ip) /\ ~TakenWaits(decode, ip) /\ ~TakenWaits(rob, ip)
    <3>1. \A ip : ~TakenWaits(ifetch, ip) /\ ~TakenWaits(rob, ip)
      BY <2>6, <2>9 DEF SomeWaits, TakenWaits
    <3>2. \A ip : TakenWaits(decode, ip) => ip = e.ip
      BY <2>3, <2>4 DEF TakenWaits
    <3>. QED
      BY <3>1, <3>2
  <2>18. \A ip \in Ip : Told(btb'[ip % BtbSet], ip, lastTarget[ip])
    <3>1. \A ip \in Ip : ip # e.ip => Told(SetOf(ip), ip, lastTarget[ip])
      BY <2>17 DEF IInv, BtbInv
    <3>. QED
      BY <2>14, <2>16, <3>1 DEF Rewrites
  <2>19. BtbInv'
    BY <1>1, <2>16, <2>18 DEF BtbInv, SetOf, Rewrites
  <2>20. TypeInv'
    BY <1>1, <1>7, <1>12, <2>10, <2>16 DEF IInv, TypeInv, Rewrites
  <2>. QED
    BY <1>1, <1>9, <1>13, <2>11, <2>12, <2>19, <2>20 DEF IInv
<1>. QED
  BY <1>14, <1>15

\* Reading is allowed only when nobody waits.
LEMMA NobodyWaits ==
    ASSUME IInv, ~fetch_stall
    PROVE  /\ fetch_resume = None
           /\ ~SomeWaits(ifetch) /\ ~SomeWaits(decode) /\ ~SomeWaits(rob)
           /\ \A ip \in Ip : Told(SetOf(ip), ip, lastTarget[ip])
<1>1. /\ fetch_resume = None
      /\ ~SomeWaits(ifetch) /\ ~SomeWaits(decode) /\ ~SomeWaits(rob)
  BY DEF IInv, Stalled
<1>2. \A ip \in Ip : ~TakenWaits(ifetch, ip) /\ ~TakenWaits(decode, ip) /\ ~TakenWaits(rob, ip)
  BY <1>1 DEF SomeWaits, TakenWaits
<1>. QED
  BY <1>1, <1>2 DEF IInv, BtbInv

LEMMA ReadInstrInv ==
    ASSUME IInv, NEW ip \in Ip, NEW target \in Ip, NEW taken \in BOOLEAN,
           NEW prediction \in BOOLEAN, ReadInstr(ip, target, taken, prediction)
    PROVE  IInv'
<1>. DEFINE branch == Code[ip].branch # "none"
            miss == branch /\ warmup_complete /\ MissesBtb(ip, taken, target)
            mispredicted == branch /\ warmup_complete /\ taken # prediction
            x == [n |-> instr_unique_id, ip |-> ip, line |-> Code[ip].line,
                  branch |-> Code[ip].branch, taken |-> taken, target |-> target,
                  branch_mispredicted |-> mispredicted, btb_miss |-> miss, fetched |-> "no",
                  wait |-> Undecoded, executed |-> FALSE]
<1>1. /\ CanRead
      /\ ifetch' = Append(ifetch, x)
      /\ instr_unique_id' = instr_unique_id + 1
      /\ fetch_stall' = (miss \/ mispredicted)
      /\ btb' = IF branch /\ BtbHit(ip) /\ ~MissesBtb(ip, taken, target) THEN Used(ip) ELSE btb
      /\ lastTarget' = IF branch /\ taken /\ warmup_complete
                       THEN [lastTarget EXCEPT ![ip] = target] ELSE lastTarget
      /\ UNCHANGED <<decode, rob, warmup_complete, fetch_resume>>
  BY DEF ReadInstr
<1>2. ~fetch_stall /\ Len(ifetch) < IfetchSize
  BY <1>1 DEF CanRead
<1>3. /\ fetch_resume = None
      /\ ~SomeWaits(ifetch) /\ ~SomeWaits(decode) /\ ~SomeWaits(rob)
      /\ \A i \in Ip : Told(SetOf(i), i, lastTarget[i])
  BY <1>2, NobodyWaits
<1>4. x \in Entry
  <2>1. /\ Code[ip].branch \in {"none", "direct", "conditional", "indirect", "other"}
        /\ Code[ip].line \in Line
    BY CodeAssumption DEF Line
  <2>2. instr_unique_id \in Nat /\ Undecoded \in Nat
    BY FrontEndAssumption DEF IInv, TypeInv, Undecoded
  <2>3. miss \in BOOLEAN /\ mispredicted \in BOOLEAN
    OBVIOUS
  <2>. HIDE DEF miss, mispredicted
  <2>. QED
    BY <2>1, <2>2, <2>3 DEF Entry
<1>5. /\ Waits(x) <=> miss \/ mispredicted
      /\ ~x.executed /\ x.ip = ip /\ x.taken = taken /\ x.target = target
      /\ x.btb_miss => x.taken
  BY DEF Waits, MissesBtb
<1>6. miss \/ mispredicted => branch /\ warmup_complete
  OBVIOUS
<1>7. ~(miss \/ mispredicted) /\ branch /\ warmup_complete => ~MissesBtb(ip, taken, target)
  OBVIOUS
<1>. HIDE DEF x, miss, mispredicted
<1>. PICK n \in Nat : n = Len(ifetch)
  <2>1. Len(ifetch) \in Nat
    BY DEF IInv, TypeInv
  <2>. QED
    BY <2>1
<1>8. /\ ifetch' \in Seq(Entry) /\ Len(ifetch') = n + 1 /\ ifetch'[n + 1] = x
      /\ \A k \in 1..n : ifetch'[k] = ifetch[k]
  <2>1. ifetch \in Seq(Entry)
    BY DEF IInv, TypeInv
  <2>. QED
    BY <1>1, <1>4, <2>1, AppendProperties
<1>9. \A k \in 1..(n + 1) : \/ k \in 1..n /\ ~Waits(ifetch'[k]) /\ ~ifetch'[k].executed
                            \/ k = n + 1 /\ ifetch'[k] = x
  <2>1. \A k \in 1..n : ~Waits(ifetch[k]) /\ ~ifetch[k].executed
    BY <1>3 DEF SomeWaits, IInv, Unexecuted
  <2>2. \A k \in 1..(n + 1) : k \in 1..n \/ k = n + 1
    OBVIOUS
  <2>. QED
    BY <1>8, <2>1, <2>2
<1>10. n + 1 \in 1..(n + 1)
  OBVIOUS
<1>11. SomeWaits(ifetch') <=> miss \/ mispredicted
  BY <1>5, <1>8, <1>9, <1>10 DEF SomeWaits
<1>12. Unexecuted(ifetch') /\ Unexecuted(decode')
  BY <1>1, <1>5, <1>8, <1>9 DEF IInv, Unexecuted
<1>13. Youngest'
  <2>1. Ends(ifetch')
    BY <1>8, <1>9 DEF Ends
  <2>. QED
    BY <1>1, <1>3, <2>1 DEF IInv, Youngest
<1>14. Stalled'
  BY <1>1, <1>3, <1>6, <1>11 DEF Stalled
<1>15. Bounded'
  <2>1. n + 1 <= IfetchSize
    BY <1>2, FrontEndAssumption
  <2>. QED
    BY <1>1, <1>8, <2>1 DEF IInv, Bounded
<1>16. lastTarget' \in [Ip -> Ip \cup {None}]
  BY <1>1 DEF IInv, TypeInv
<1>17. /\ branch /\ taken /\ warmup_complete => lastTarget'[ip] = target
       /\ \A i \in Ip : i # ip => lastTarget'[i] = lastTarget[i]
       /\ ~(branch /\ taken /\ warmup_complete) => lastTarget' = lastTarget
  BY <1>1 DEF IInv, TypeInv
<1>18. Knowing'
  <2>1. Knows(ifetch', lastTarget')
    BY <1>5, <1>6, <1>8, <1>9, <1>17 DEF Knows
  <2>2. Knows(decode, lastTarget') /\ Knows(rob, lastTarget')
    BY <1>3 DEF Knows, SomeWaits
  <2>. QED
    BY <1>1, <2>1, <2>2 DEF Knowing
<1>19. TypeInv /\ OneWayEach(btb)
  BY DEF IInv, BtbInv
<1>20. Looked(btb')
  <2>1. CASE branch /\ BtbHit(ip) /\ ~MissesBtb(ip, taken, target)
    <3>1. btb' = Used(ip)
      BY <1>1, <2>1
    <3>. QED
      BY <1>19, <2>1, <3>1, UsedIs
  <2>2. CASE ~(branch /\ BtbHit(ip) /\ ~MissesBtb(ip, taken, target))
    <3>1. btb' = btb
      BY <1>1, <2>2
    <3>. QED
      BY <1>19, <3>1 DEF Looked, SetOf, TypeInv
  <2>. QED
    BY <2>1, <2>2
<1>21. BtbInv'
  <2>1. ASSUME NEW i \in Ip
        PROVE  Told(btb'[i % BtbSet], i, lastTarget'[i]) \/ TakenWaits(ifetch', i)
    <3>1. CASE lastTarget'[i] = lastTarget[i]
      BY <1>3, <1>20, <3>1 DEF Looked
    <3>2. CASE lastTarget'[i] # lastTarget[i]
      <4>1. i = ip /\ branch /\ taken /\ warmup_complete /\ lastTarget'[ip] = target
        BY <1>17, <3>2
      <4>2. CASE miss \/ mispredicted
        BY <1>5, <1>8, <1>10, <4>1, <4>2 DEF TakenWaits
      <4>3. CASE ~(miss \/ mispredicted)
        <5>1. BtbHit(ip) /\ BtbTarget(ip) = target
          BY <1>7, <4>1, <4>3 DEF MissesBtb
        <5>2. Told(SetOf(ip), ip, target)
          BY <1>19, <5>1, BtbTargetIs
        <5>. QED
          BY <1>20, <4>1, <5>2 DEF Looked
      <4>. QED
        BY <4>2, <4>3
    <3>. QED
      BY <3>1, <3>2
  <2>2. OneWayEach(btb)'
    BY <1>20 DEF Looked
  <2>. QED
    BY <2>1, <2>2 DEF BtbInv, SetOf
<1>22. TypeInv'
  <2>1. fetch_stall' \in BOOLEAN /\ instr_unique_id' \in Nat
    BY <1>1 DEF IInv, TypeInv
  <2>. QED
    BY <1>1, <1>8, <1>16, <1>20, <2>1 DEF IInv, TypeInv, Looked
<1>. QED
  BY <1>12, <1>13, <1>14, <1>15, <1>18, <1>21, <1>22 DEF IInv

-----------------------------------------------------------------------------
(* The theorems. *)

LEMMA NextInv == IInv /\ [Next]_vars => IInv'
<1>. SUFFICES ASSUME IInv, [Next]_vars PROVE IInv'
  OBVIOUS
<1>1. CASE Retire
  BY <1>1, RetireInv
<1>2. CASE UpdateRob
  BY <1>2, UpdateRobInv
<1>3. CASE DecodeAndDispatch
  BY <1>3, DecodeAndDispatchInv
<1>4. CASE FetchInstruction
  BY <1>4, FetchInstructionInv
<1>5. CASE Read
  <2>. PICK ip \in Ip, target \in Ip, taken \in BOOLEAN, prediction \in BOOLEAN :
            ReadInstr(ip, target, taken, prediction)
    BY <1>5 DEF Read
  <2>. QED
    BY ReadInstrInv
<1>6. CASE EndCycle
  BY <1>6, EndCycleInv
<1>7. CASE \E n \in 0..(MaxInstr - 1) : Execute(n)
  BY <1>7, ExecuteInv
<1>8. CASE \E line \in Line : SendRead(line) \/ Answer(line)
  BY <1>8, SendReadInv, AnswerInv
<1>9. CASE UNCHANGED vars
  <2>1. UNCHANGED <<instr_unique_id, ifetch, decode, rob, warmup_complete, fetch_stall,
                    fetch_resume, btb, lastTarget>>
    BY <1>9 DEF vars, trace, stall, buffers
  <2>2. ifetch' \in Seq(Entry) /\ decode' \in Seq(Entry)
    BY <2>1 DEF IInv, TypeInv
  <2>. QED
    BY <2>1, <2>2, SimilarInv, SimilarSame
<1>. QED
  BY <1>1, <1>2, <1>3, <1>4, <1>5, <1>6, <1>7, <1>8, <1>9 DEF Next, Cycle

LEMMA Invariant == Spec => []IInv
BY InitInv, NextInv, PTL DEF Spec

\* The entries that the property counts are those that wait.
LEMMA UnresolvedIs ==
    ASSUME IInv
    PROVE  \A e : e \in Unresolved <=>
              \/ \E k \in 1..Len(ifetch) : e = ifetch[k] /\ Waits(e)
              \/ \E k \in 1..Len(decode) : e = decode[k] /\ Waits(e)
              \/ \E k \in 1..Len(rob) : e = rob[k] /\ Waits(e)
<1>1. /\ DOMAIN ifetch = 1..Len(ifetch) /\ DOMAIN decode = 1..Len(decode)
      /\ DOMAIN rob = 1..Len(rob)
  BY DEF IInv, TypeInv
<1>2. /\ ToSet(ifetch) = {ifetch[k] : k \in 1..Len(ifetch)}
      /\ ToSet(decode) = {decode[k] : k \in 1..Len(decode)}
      /\ ToSet(rob) = {rob[k] : k \in 1..Len(rob)}
  BY <1>1 DEF ToSet
<1>3. /\ \A k \in 1..Len(ifetch) : ~ifetch[k].executed
      /\ \A k \in 1..Len(decode) : ~decode[k].executed
  BY DEF IInv, Unexecuted
<1>. QED
  BY <1>2, <1>3 DEF Unresolved, Waits

\* At most one entry waits.
LEMMA OneWaits ==
    ASSUME IInv
    PROVE  \A e, f \in Unresolved : e = f
<1>. SUFFICES ASSUME NEW e \in Unresolved, NEW f \in Unresolved PROVE e = f
  OBVIOUS
<1>1. \A x \in Unresolved :
         \/ x = ifetch[Len(ifetch)] /\ SomeWaits(ifetch)
         \/ x = decode[Len(decode)] /\ SomeWaits(decode)
         \/ x = rob[Len(rob)] /\ SomeWaits(rob)
  BY UnresolvedIs DEF IInv, Youngest, Ends, SomeWaits
<1>2. /\ SomeWaits(decode) \/ SomeWaits(rob) => ~SomeWaits(ifetch)
      /\ SomeWaits(rob) => ~SomeWaits(decode)
  <2>1. /\ SomeWaits(decode) \/ SomeWaits(rob) => Len(ifetch) = 0
        /\ SomeWaits(rob) => Len(decode) = 0
    BY DEF IInv, Youngest
  <2>. QED
    BY <2>1 DEF SomeWaits
<1>. QED
  BY <1>1, <1>2

\* Reading is stalled exactly while one branch, and never a second one, is
\* unresolved or has been resolved and the cycle to resume in is known.
THEOREM StallIsExplained == Spec => []StallExplained
<1>1. IInv => StallExplained
  <2>. SUFFICES ASSUME IInv PROVE StallExplained
    OBVIOUS
  <2>1. Unresolved # {} <=> SomeWaits(ifetch) \/ SomeWaits(decode) \/ SomeWaits(rob)
    BY UnresolvedIs DEF SomeWaits
  <2>2. Stalled
    BY DEF IInv
  <2>3. CASE Unresolved = {}
    <3>1. Cardinality(Unresolved) = 0
      BY <2>3, FS_EmptySet
    <3>. QED
      BY <2>1, <2>2, <2>3, <3>1 DEF Stalled, StallExplained
  <2>4. CASE Unresolved # {}
    <3>1. PICK e : e \in Unresolved
      BY <2>4
    <3>2. Unresolved = {e}
      BY <3>1, OneWaits
    <3>3. Cardinality(Unresolved) = 1
      BY <3>2, FS_Singleton
    <3>. QED
      BY <2>1, <2>2, <2>4, <3>3 DEF Stalled, StallExplained
  <2>. QED
    BY <2>3, <2>4
<1>. QED
  BY <1>1, Invariant, PTL

\* While no branch is unresolved, BTB holds for every branch it knows the target
\* the branch was last taken to.
THEOREM BtbHoldsLastTargets == Spec => []BtbUpToDate
<1>1. IInv => BtbUpToDate
  <2>. SUFFICES ASSUME IInv, Unresolved = {}, NEW ip \in Ip, BtbHit(ip)
       PROVE  BtbTarget(ip) = lastTarget[ip]
    BY DEF BtbUpToDate
  <2>1. ~TakenWaits(ifetch, ip) /\ ~TakenWaits(decode, ip) /\ ~TakenWaits(rob, ip)
    BY UnresolvedIs DEF TakenWaits
  <2>2. Told(SetOf(ip), ip, lastTarget[ip])
    BY <2>1 DEF IInv, BtbInv
  <2>3. TypeInv /\ OneWayEach(btb)
    BY DEF IInv, BtbInv
  <2>. QED
    BY <2>2, <2>3, BtbTargetIs
<1>. QED
  BY <1>1, Invariant, PTL

\* No stage overruns a buffer, however the three stages that fill one and the
\* three that empty one follow each other.
THEOREM BuffersBounded == Spec => [](TypeInv /\ Bounded)
<1>1. IInv => TypeInv /\ Bounded
  BY DEF IInv
<1>. QED
  BY <1>1, Invariant, PTL
=============================================================================
