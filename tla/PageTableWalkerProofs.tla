------------------------ MODULE PageTableWalkerProofs ------------------------
(***************************************************************************)
(* PageTableWalker for every tree, every set of pages and every size of    *)
(* its queues.                                                             *)
(*                                                                         *)
(* First, each miss of the STLB that is not answered is named once in the  *)
(* walker, in RQ, in PQ or as the walk in progress.  What is mapped where  *)
(* plays no part: the invariant is about pages that wait and pages that    *)
(* are named, and these are the same set, in three parts that have no page *)
(* in common.  RQ has room because every entry of it stands for an MSHR of *)
(* the STLB.                                                               *)
(*                                                                         *)
(* Then, what is mapped: the four places that know a translation agree,    *)
(* and a walk reads the entry it is at.  The invariant Paging needs the    *)
(* shape of the tree, that frames are handed out in order, and what a page *)
(* swap does: it takes the frame of a page of the program (and nothing     *)
(* that translates is lost), or a translation page has a frame that data   *)
(* in DRAM may still name; only then can an assertion fail.                *)
(***************************************************************************)
EXTENDS PageTableWalker, FiniteSetTheorems, SequenceTheorems, WellFoundedInduction, TLAPS

Request == [page : Page, type : Types]

\* Records that are known by their fields, whatever they hold.
IsMiss(x) == x \in [type : Types, returned : BOOLEAN, data : {x.data}]
IsWalk(w) ==
    w \in [page : Page, type : {w.type}, level : {w.level}, init : {w.init},
           block : {w.block}, returned : {w.returned}]

\* The MSHRs of the STLB, and the walk in progress.
MissTable(t) ==
    /\ t = [v \in DOMAIN t |-> t[v]]
    /\ DOMAIN t \subseteq Page
    /\ \A v \in DOMAIN t : IsMiss(t[v])
AtMostOneWalk(walks) ==
    /\ \A w \in walks : IsWalk(w)
    /\ \A w, x \in walks : w = x

TypeInv ==
    /\ rq \in Seq(Request) /\ pq \in Seq(Request)
    /\ MissTable(stlbMshr)
    /\ AtMostOneWalk(mshr)

\* The pages that wait, and those that the walker names.
Unanswered(t) == {v \in DOMAIN t : ~t[v].returned}
Pages(q) == {q[k].page : k \in 1..Len(q)}
WalkPages(walks) == {w.page : w \in walks}
Distinct(q) == \A j, k \in 1..Len(q) : q[j].page = q[k].page => j = k

NamedOnce ==
    /\ Distinct(rq) /\ Distinct(pq)
    /\ Unanswered(stlbMshr) = Pages(rq) \cup Pages(pq) \cup WalkPages(mshr)
    /\ Pages(rq) \cap Pages(pq) = {}
    /\ Pages(rq) \cap WalkPages(mshr) = {} /\ Pages(pq) \cap WalkPages(mshr) = {}

MissesFit ==
    /\ IsFiniteSet(DOMAIN stlbMshr)
    /\ Cardinality(DOMAIN stlbMshr) <= StlbMshr

Sound == TypeInv /\ NamedOnce /\ MissesFit
IInv == failed \in BOOLEAN /\ (~failed => Sound)

-----------------------------------------------------------------------------
(* Queues of requests. *)

LEMMA AppendPages ==
    ASSUME NEW q \in Seq(Request), Distinct(q), NEW r \in Request, r.page \notin Pages(q),
           NEW s, s = Append(q, r)
    PROVE  s \in Seq(Request) /\ Distinct(s) /\ Pages(s) = Pages(q) \cup {r.page}
<1>. PICK n \in Nat : n = Len(q)
  OBVIOUS
<1>1. /\ s \in Seq(Request) /\ Len(s) = n + 1 /\ s[n + 1] = r
      /\ \A k \in 1..n : s[k] = q[k]
  BY AppendProperties
<1>2. \A k \in 1..(n + 1) : k \in 1..n \/ k = n + 1
  OBVIOUS
<1>3. n + 1 \in 1..(n + 1) /\ \A k \in 1..n : k \in 1..(n + 1)
  OBVIOUS
<1>4. Distinct(s)
  BY <1>1, <1>2 DEF Distinct, Pages
<1>5. Pages(s) = Pages(q) \cup {r.page}
  BY <1>1, <1>2, <1>3 DEF Pages
<1>. QED
  BY <1>1, <1>4, <1>5

LEMMA TailPages ==
    ASSUME NEW q \in Seq(Request), Distinct(q), q # << >>, NEW s, s = Tail(q)
    PROVE  /\ Head(q) \in Request /\ Head(q).page \in Pages(q)
           /\ s \in Seq(Request) /\ Distinct(s) /\ Pages(s) = Pages(q) \ {Head(q).page}
<1>. PICK n \in Nat : n = Len(q)
  OBVIOUS
<1>1. /\ n > 0 /\ Head(q) = q[1] /\ Head(q) \in Request
      /\ s \in Seq(Request) /\ Len(s) = n - 1 /\ \A k \in 1..(n - 1) : s[k] = q[k + 1]
  BY HeadTailProperties
<1>2. 1 \in 1..n /\ \A k \in 1..(n - 1) : k + 1 \in 1..n /\ k + 1 # 1
  BY <1>1
<1>3. Head(q).page \in Pages(q)
  BY <1>1, <1>2 DEF Pages
<1>4. ASSUME NEW j \in 1..(n - 1), NEW k \in 1..(n - 1), s[j].page = s[k].page PROVE j = k
  <2>1. j + 1 = k + 1
    BY <1>1, <1>2, <1>4 DEF Distinct
  <2>. QED
    BY <2>1
<1>5. Distinct(s)
  BY <1>1, <1>4 DEF Distinct
<1>6. \A k \in 1..n : k = 1 \/ (k - 1 \in 1..(n - 1) /\ k - 1 + 1 = k)
  OBVIOUS
<1>7. \A p \in Pages(s) : p \in Pages(q) /\ p # Head(q).page
  BY <1>1, <1>2 DEF Pages, Distinct
<1>8. \A p \in Pages(q) : p = Head(q).page \/ p \in Pages(s)
  <2>. SUFFICES ASSUME NEW k \in 1..n PROVE q[k].page = Head(q).page \/ q[k].page \in Pages(s)
    BY DEF Pages
  <2>1. CASE k = 1
    BY <1>1, <2>1
  <2>2. CASE k # 1
    <3>1. k - 1 \in 1..(n - 1) /\ s[k - 1] = q[k]
      BY <1>1, <1>6, <2>2
    <3>. QED
      BY <1>1, <3>1 DEF Pages
  <2>. QED
    BY <2>1, <2>2
<1>. QED
  BY <1>1, <1>3, <1>5, <1>7, <1>8

LEMMA CountUp ==
    ASSUME NEW n \in Nat
    PROVE  Cardinality(1..n) = n
<1>1. Cardinality(1..n) = IF 1 > n THEN 0 ELSE n - 1 + 1
  BY FS_Interval
<1>. QED
  BY <1>1

\* A queue without duplicates is as long as it has pages.
LEMMA LengthBound ==
    ASSUME NEW q \in Seq(Request), Distinct(q), NEW S, IsFiniteSet(S), Pages(q) \subseteq S
    PROVE  Len(q) <= Cardinality(S)
<1>. PICK n \in Nat : n = Len(q)
  OBVIOUS
<1>. DEFINE f == [k \in 1..n |-> q[k].page]
<1>1. \A k \in 1..n : f[k] \in S
  BY DEF Pages
<1>2. \A j, k \in 1..n : f[j] = f[k] => j = k
  BY DEF Distinct
<1>3. f \in Injection(1..n, S)
  BY <1>1, <1>2 DEF Injection, IsInjective
<1>4. Cardinality(1..n) <= Cardinality(S)
  BY <1>3, FS_Injection
<1>5. Cardinality(1..n) = n
  BY CountUp
<1>. QED
  BY <1>4, <1>5

\* A request finds room in RQ, and no request for its page: when a miss is
\* allocated, and when a dropped one is sent again.
LEMMA RequestFits ==
    ASSUME Sound, NEW v \in Page,
           \/ v \notin DOMAIN stlbMshr /\ Cardinality(DOMAIN stlbMshr) < StlbMshr
           \/ v \in DOMAIN stlbMshr /\ stlbMshr[v].returned
    PROVE  ~InRq(v) /\ v \notin Pages(rq) /\ v \notin Pages(pq) /\ Len(rq) < PtwRqSize
<1>1. v \notin Unanswered(stlbMshr)
  BY DEF Unanswered
<1>2. v \notin Pages(rq) /\ v \notin Pages(pq)
  BY <1>1 DEF Sound, NamedOnce
<1>3. rq \in Seq(Request) /\ DOMAIN rq = 1..Len(rq) /\ Distinct(rq)
  BY DEF Sound, TypeInv, NamedOnce
<1>4. ~InRq(v)
  BY <1>2, <1>3 DEF InRq, Pages
<1>5. /\ IsFiniteSet(DOMAIN stlbMshr) /\ Cardinality(DOMAIN stlbMshr) \in Nat
      /\ Cardinality(DOMAIN stlbMshr) <= StlbMshr
      /\ StlbMshr \in Nat /\ PtwRqSize \in Nat /\ PtwRqSize >= StlbMshr
  BY FS_CardinalityType, WalkerAssumption DEF Sound, MissesFit
<1>. DEFINE S == DOMAIN stlbMshr \ {v}
<1>6. Pages(rq) \subseteq S
  BY <1>2 DEF Sound, NamedOnce, Unanswered
<1>7. /\ IsFiniteSet(S)
      /\ Cardinality(S) = IF v \in DOMAIN stlbMshr THEN Cardinality(DOMAIN stlbMshr) - 1
                          ELSE Cardinality(DOMAIN stlbMshr)
  BY <1>5, FS_RemoveElement
<1>8. Cardinality(S) < StlbMshr
  BY <1>5, <1>7
<1>9. Len(rq) <= Cardinality(S)
  BY <1>3, <1>6, <1>7, LengthBound
<1>10. Len(rq) \in Nat /\ Cardinality(S) \in Nat
  BY <1>3, <1>7, FS_CardinalityType
<1>. QED
  BY <1>2, <1>4, <1>5, <1>8, <1>9, <1>10

-----------------------------------------------------------------------------
(* MSHRs of the STLB. *)

LEMMA AddMiss ==
    ASSUME NEW t, MissTable(t), NEW v \in Page, v \notin DOMAIN t,
           NEW e, IsMiss(e), ~e.returned, NEW s, s = With(t, v, e)
    PROVE  /\ MissTable(s) /\ DOMAIN s = DOMAIN t \cup {v}
           /\ Unanswered(s) = Unanswered(t) \cup {v}
<1>1. DOMAIN s = DOMAIN t \cup {v} /\ s = [z \in DOMAIN s |-> s[z]]
  BY DEF With
<1>2. s[v] = e /\ \A z \in DOMAIN t : s[z] = t[z]
  BY DEF With
<1>3. MissTable(s)
  BY <1>1, <1>2 DEF MissTable
<1>4. Unanswered(s) = Unanswered(t) \cup {v}
  BY <1>1, <1>2 DEF Unanswered
<1>. QED
  BY <1>1, <1>3, <1>4

LEMMA RemoveMiss ==
    ASSUME NEW t, MissTable(t), NEW v \in DOMAIN t, t[v].returned, NEW s, s = Without(t, v)
    PROVE  /\ MissTable(s) /\ DOMAIN s = DOMAIN t \ {v}
           /\ Unanswered(s) = Unanswered(t)
<1>1. DOMAIN s = DOMAIN t \ {v} /\ s = [z \in DOMAIN s |-> s[z]]
      /\ \A z \in DOMAIN s : s[z] = t[z]
  BY DEF Without, Restrict
<1>. QED
  BY <1>1 DEF MissTable, Unanswered

\* A change of one entry, that leaves it an MSHR.
LEMMA ChangeMiss ==
    ASSUME NEW t, MissTable(t), NEW v \in DOMAIN t, NEW e, IsMiss(e),
           NEW s, s = [t EXCEPT ![v] = e]
    PROVE  /\ MissTable(s) /\ DOMAIN s = DOMAIN t
           /\ Unanswered(s) = IF e.returned THEN Unanswered(t) \ {v}
                              ELSE Unanswered(t) \cup {v}
<1>1. DOMAIN s = DOMAIN t /\ s = [z \in DOMAIN s |-> s[z]]
      /\ s[v] = e /\ \A z \in DOMAIN t : z # v => s[z] = t[z]
  BY DEF MissTable
<1>2. MissTable(s)
  BY <1>1 DEF MissTable
<1>3. e.returned \in BOOLEAN
  BY DEF IsMiss
<1>4. CASE e.returned
  BY <1>1, <1>2, <1>4 DEF Unanswered
<1>5. CASE ~e.returned
  BY <1>1, <1>2, <1>5 DEF Unanswered
<1>. QED
  BY <1>1, <1>2, <1>3, <1>4, <1>5

\* What EXCEPT makes of an MSHR.
LEMMA ReturnedFields ==
    ASSUME NEW x, IsMiss(x), NEW d,
           NEW y, y = [[x EXCEPT !.returned = TRUE] EXCEPT !.data = d]
    PROVE  IsMiss(y) /\ y.returned
<1>1. PICK z : z = [x EXCEPT !.returned = TRUE]
  OBVIOUS
<1>2. z \in [type : Types, returned : BOOLEAN, data : {x.data}] /\ z.returned = TRUE
  BY <1>1 DEF IsMiss
<1>3. y = [z EXCEPT !.data = d]
  BY <1>1
<1>4. y \in [type : Types, returned : BOOLEAN, data : {d}] /\ y.returned = TRUE /\ y.data = d
  BY <1>2, <1>3
<1>. QED
  BY <1>4 DEF IsMiss

LEMMA ReopenedFields ==
    ASSUME NEW x, IsMiss(x), NEW y, y = [x EXCEPT !.returned = FALSE]
    PROVE  IsMiss(y) /\ ~y.returned
<1>1. /\ y \in [type : Types, returned : BOOLEAN, data : {x.data}]
      /\ y.returned = FALSE /\ y.data = x.data
  BY DEF IsMiss
<1>. QED
  BY <1>1 DEF IsMiss

LEMMA RetypedFields ==
    ASSUME NEW x, IsMiss(x), NEW type \in Types, NEW y, y = [x EXCEPT !.type = type]
    PROVE  IsMiss(y) /\ y.returned = x.returned
<1>1. /\ y \in [type : Types, returned : BOOLEAN, data : {x.data}]
      /\ y.returned = x.returned /\ y.data = x.data
  BY DEF IsMiss
<1>. QED
  BY <1>1 DEF IsMiss

LEMMA ReopenMiss ==
    ASSUME NEW t, MissTable(t), NEW v \in DOMAIN t,
           NEW s, s = [t EXCEPT ![v].returned = FALSE]
    PROVE  MissTable(s) /\ DOMAIN s = DOMAIN t /\ Unanswered(s) = Unanswered(t) \cup {v}
<1>1. PICK x : x = t[v]
  OBVIOUS
<1>2. PICK e : e = [x EXCEPT !.returned = FALSE]
  OBVIOUS
<1>3. IsMiss(e) /\ ~e.returned
  BY <1>1, <1>2, ReopenedFields DEF MissTable
<1>4. s = [t EXCEPT ![v] = e]
  BY <1>1, <1>2 DEF MissTable
<1>. QED
  BY <1>3, <1>4, ChangeMiss

LEMMA RetypeMiss ==
    ASSUME NEW t, MissTable(t), NEW v \in DOMAIN t,
           NEW e, IsMiss(e), e.returned = t[v].returned, NEW s, s = [t EXCEPT ![v] = e]
    PROVE  MissTable(s) /\ DOMAIN s = DOMAIN t /\ Unanswered(s) = Unanswered(t)
<1>1. MissTable(s) /\ DOMAIN s = DOMAIN t
      /\ Unanswered(s) = IF e.returned THEN Unanswered(t) \ {v} ELSE Unanswered(t) \cup {v}
  BY ChangeMiss
<1>2. e.returned \in BOOLEAN
  BY DEF IsMiss
<1>3. CASE e.returned
  BY <1>1, <1>3 DEF Unanswered
<1>4. CASE ~e.returned
  BY <1>1, <1>4 DEF Unanswered
<1>. QED
  BY <1>1, <1>2, <1>3, <1>4

-----------------------------------------------------------------------------
(* The walk in progress. *)

\* What EXCEPT makes of a walk: it goes on for the same page.
LEMMA WalkFields ==
    ASSUME NEW w, IsWalk(w), NEW b, NEW c, NEW d, NEW x,
           \/ x = [w EXCEPT !.returned = b]
           \/ x = [w EXCEPT !.block = c]
           \/ x = [w EXCEPT !.level = d]
    PROVE  IsWalk(x) /\ x.page = w.page
<1>1. CASE x = [w EXCEPT !.returned = b]
  <2>1. /\ x \in [page : Page, type : {w.type}, level : {w.level}, init : {w.init},
                  block : {w.block}, returned : {b}]
        /\ x.page = w.page /\ x.type = w.type /\ x.level = w.level /\ x.init = w.init
        /\ x.block = w.block /\ x.returned = b
    BY <1>1 DEF IsWalk
  <2>. QED
    BY <2>1 DEF IsWalk
<1>2. CASE x = [w EXCEPT !.block = c]
  <2>1. /\ x \in [page : Page, type : {w.type}, level : {w.level}, init : {w.init},
                  block : {c}, returned : {w.returned}]
        /\ x.page = w.page /\ x.type = w.type /\ x.level = w.level /\ x.init = w.init
        /\ x.block = c /\ x.returned = w.returned
    BY <1>2 DEF IsWalk
  <2>. QED
    BY <2>1 DEF IsWalk
<1>3. CASE x = [w EXCEPT !.level = d]
  <2>1. /\ x \in [page : Page, type : {w.type}, level : {d}, init : {w.init},
                  block : {w.block}, returned : {w.returned}]
        /\ x.page = w.page /\ x.type = w.type /\ x.level = d /\ x.init = w.init
        /\ x.block = w.block /\ x.returned = w.returned
    BY <1>3 DEF IsWalk
  <2>. QED
    BY <2>1 DEF IsWalk
<1>. QED
  BY <1>1, <1>2, <1>3

\* A request to DRAM leaves the walk in the MSHR, unless an assertion fails.
LEMMA WalkSent ==
    ASSUME NEW w, IsWalk(w), NEW inMshr, SendToDram(w, inMshr)
    PROVE  \/ failed' = TRUE
           \/ /\ failed' = failed
              /\ \E x : IsWalk(x) /\ x.page = w.page /\ mshr' = {x}
<1>. DEFINE forwarded == [kind |-> "write", block |-> w.block] \in dram
            merged == [kind |-> "read", block |-> w.block] \in dram
            atOnce == warm \/ forwarded
<1>1. PICK y : y = [w EXCEPT !.level = @ - 1]
  OBVIOUS
<1>2. PICK d : d = [y EXCEPT !.returned = TRUE]
  OBVIOUS
<1>3. PICK s : s = [w EXCEPT !.returned = FALSE]
  OBVIOUS
<1>4. y = [w EXCEPT !.level = w.level - 1]
  BY <1>1
<1>5. IsWalk(y) /\ y.page = w.page
  BY <1>4, WalkFields
<1>6. IsWalk(d) /\ d.page = w.page /\ IsWalk(s) /\ s.page = w.page
  BY <1>2, <1>3, <1>5, WalkFields
<1>7. d = [w EXCEPT !.level = @ - 1, !.returned = TRUE]
  BY <1>1, <1>2
<1>8. \/ mshr' = {d} /\ failed' = failed
      \/ mshr' = {s} /\ failed' = failed
      \/ failed' = TRUE
  BY <1>3, <1>7 DEF SendToDram
<1>. QED
  BY <1>6, <1>8

-----------------------------------------------------------------------------
(* The actions. Each leaves the invariant true or has failed an assertion.   *)

LEMMA SoundNext ==
    ASSUME NEW r \in Seq(Request), NEW p \in Seq(Request), NEW t, NEW walks,
           rq' = r, pq' = p, stlbMshr' = t, mshr' = walks,
           MissTable(t), IsFiniteSet(DOMAIN t), Cardinality(DOMAIN t) <= StlbMshr,
           AtMostOneWalk(walks), Distinct(r), Distinct(p),
           Unanswered(t) = Pages(r) \cup Pages(p) \cup WalkPages(walks),
           Pages(r) \cap Pages(p) = {}, Pages(r) \cap WalkPages(walks) = {},
           Pages(p) \cap WalkPages(walks) = {}
    PROVE  Sound'
<1>1. TypeInv'
  BY DEF TypeInv
<1>2. NamedOnce'
  BY DEF NamedOnce
<1>3. MissesFit'
  BY DEF MissesFit
<1>. QED
  BY <1>1, <1>2, <1>3 DEF Sound

LEMMA SoundFrame ==
    ASSUME Sound, UNCHANGED <<rq, pq, stlbMshr, mshr>>
    PROVE  Sound'
  BY SoundNext DEF Sound, TypeInv, NamedOnce, MissesFit

\* Of no walk and of one walk.
LEMMA WalkPagesOf ==
    /\ WalkPages({}) = {} /\ AtMostOneWalk({})
    /\ \A x : IsWalk(x) => WalkPages({x}) = {x.page} /\ AtMostOneWalk({x})
  BY DEF WalkPages, AtMostOneWalk

\* add_rq finds room, and no duplicate.
LEMMA Added ==
    ASSUME Sound, NEW v \in Page, NEW type \in Types, AddRq(v, type),
           \/ v \notin DOMAIN stlbMshr /\ Cardinality(DOMAIN stlbMshr) < StlbMshr
           \/ v \in DOMAIN stlbMshr /\ stlbMshr[v].returned
    PROVE  /\ failed' = failed
           /\ rq' \in Seq(Request) /\ Distinct(rq') /\ Pages(rq') = Pages(rq) \cup {v}
<1>1. ~InRq(v) /\ v \notin Pages(rq) /\ Len(rq) < PtwRqSize
  BY RequestFits
<1>. DEFINE r == [page |-> v, type |-> type]
<1>2. r \in Request /\ r.page = v
  BY DEF Request
<1>3. rq' = Append(rq, r) /\ failed' = failed
  BY <1>1 DEF AddRq
<1>. HIDE DEF r
<1>4. PICK s : s = Append(rq, r)
  OBVIOUS
<1>5. rq \in Seq(Request) /\ Distinct(rq)
  BY DEF Sound, TypeInv, NamedOnce
<1>6. s \in Seq(Request) /\ Distinct(s) /\ Pages(s) = Pages(rq) \cup {v}
  BY <1>1, <1>2, <1>4, <1>5, AppendPages
<1>. QED
  BY <1>3, <1>4, <1>6

LEMMA MissSound ==
    ASSUME Sound, NEW v \in Page, NEW type \in Types, Miss(v, type)
    PROVE  failed' = failed /\ Sound'
<1>1. /\ v \notin DOMAIN stlbMshr /\ Cardinality(DOMAIN stlbMshr) < StlbMshr
      /\ mshr' = mshr
  BY DEF Miss, walker
<1>2. PICK e : stlbMshr' = With(stlbMshr, v, e) /\ IsMiss(e) /\ ~e.returned
  <2>. DEFINE d == [type |-> type, returned |-> FALSE, data |-> NoFrame]
  <2>1. IsMiss(d) /\ ~d.returned
    BY DEF IsMiss
  <2>2. stlbMshr' = With(stlbMshr, v, d)
    BY DEF Miss
  <2>. HIDE DEF d
  <2>. QED
    BY <2>1, <2>2
<1>3. /\ rq \in Seq(Request) /\ pq \in Seq(Request) /\ MissTable(stlbMshr) /\ AtMostOneWalk(mshr)
      /\ Distinct(rq) /\ Distinct(pq)
      /\ Unanswered(stlbMshr) = Pages(rq) \cup Pages(pq) \cup WalkPages(mshr)
      /\ Pages(rq) \cap Pages(pq) = {}
      /\ Pages(rq) \cap WalkPages(mshr) = {} /\ Pages(pq) \cap WalkPages(mshr) = {}
      /\ IsFiniteSet(DOMAIN stlbMshr)
  BY DEF Sound, TypeInv, NamedOnce, MissesFit
<1>. PICK t : t = stlbMshr'
  OBVIOUS
<1>4. /\ MissTable(t) /\ DOMAIN t = DOMAIN stlbMshr \cup {v}
      /\ Unanswered(t) = Unanswered(stlbMshr) \cup {v}
  BY <1>1, <1>2, <1>3, AddMiss
<1>5. v \notin Unanswered(stlbMshr)
  BY <1>1 DEF Unanswered
<1>6. IsFiniteSet(DOMAIN t) /\ Cardinality(DOMAIN t) <= StlbMshr
  <2>1. IsFiniteSet(DOMAIN t) /\ Cardinality(DOMAIN t) = Cardinality(DOMAIN stlbMshr) + 1
    BY <1>1, <1>3, <1>4, FS_AddElement
  <2>2. Cardinality(DOMAIN stlbMshr) \in Nat /\ StlbMshr \in Nat
    BY <1>3, FS_CardinalityType, WalkerAssumption
  <2>. QED
    BY <1>1, <2>1, <2>2
<1>7. CASE type = Prefetch
  <2>. DEFINE r == [page |-> v, type |-> type]
  <2>1. r \in Request /\ r.page = v
    BY DEF Request
  <2>2. pq' = Append(pq, r) /\ rq' = rq /\ failed' = failed
    BY <1>7 DEF Miss
  <2>. HIDE DEF r
  <2>3. PICK p : p = Append(pq, r)
    OBVIOUS
  <2>4. p \in Seq(Request) /\ Distinct(p) /\ Pages(p) = Pages(pq) \cup {v}
    BY <1>3, <1>5, <2>1, <2>3, AppendPages
  <2>5. /\ Unanswered(t) = Pages(rq) \cup Pages(p) \cup WalkPages(mshr)
        /\ Pages(rq) \cap Pages(p) = {} /\ Pages(p) \cap WalkPages(mshr) = {}
    BY <1>3, <1>4, <1>5, <2>4
  <2>6. Sound'
    BY <1>1, <1>2, <1>3, <1>4, <1>6, <2>2, <2>3, <2>4, <2>5, SoundNext
  <2>. QED
    BY <2>2, <2>6
<1>8. CASE type # Prefetch
  <2>1. AddRq(v, type) /\ pq' = pq
    BY <1>8 DEF Miss
  <2>2. PICK q : q = rq'
    OBVIOUS
  <2>3. failed' = failed /\ q \in Seq(Request) /\ Distinct(q) /\ Pages(q) = Pages(rq) \cup {v}
    BY <1>1, <2>1, <2>2, Added
  <2>4. /\ Unanswered(t) = Pages(q) \cup Pages(pq) \cup WalkPages(mshr)
        /\ Pages(q) \cap Pages(pq) = {} /\ Pages(q) \cap WalkPages(mshr) = {}
    BY <1>3, <1>4, <1>5, <2>3
  <2>5. Sound'
    BY <1>1, <1>2, <1>3, <1>4, <1>6, <2>1, <2>2, <2>3, <2>4, SoundNext
  <2>. QED
    BY <2>3, <2>5
<1>. QED
  BY <1>7, <1>8

LEMMA MergeSound ==
    ASSUME Sound, NEW v \in Page, NEW type \in Types, Merge(v, type)
    PROVE  failed' = failed /\ Sound'
<1>1. v \in DOMAIN stlbMshr /\ rq' = rq /\ pq' = pq /\ mshr' = mshr /\ failed' = failed
  BY DEF Merge, walker
<1>2. PICK t : t = stlbMshr' /\ t = [stlbMshr EXCEPT ![v].type = type]
  BY DEF Merge
<1>3. MissTable(stlbMshr)
  BY DEF Sound, TypeInv
<1>4. MissTable(t) /\ DOMAIN t = DOMAIN stlbMshr /\ Unanswered(t) = Unanswered(stlbMshr)
  <2>1. \E e : /\ IsMiss(e) /\ e.returned = stlbMshr[v].returned
               /\ t = [stlbMshr EXCEPT ![v] = e]
    <3>1. PICK x : x = stlbMshr[v]
      OBVIOUS
    <3>2. PICK e : e = [x EXCEPT !.type = type]
      OBVIOUS
    <3>3. IsMiss(e) /\ e.returned = x.returned
      BY <1>1, <1>3, <3>1, <3>2, RetypedFields DEF MissTable
    <3>4. t = [stlbMshr EXCEPT ![v] = e]
      BY <1>2, <3>1, <3>2
    <3>. QED
      BY <3>1, <3>3, <3>4
  <2>2. PICK e : /\ IsMiss(e) /\ e.returned = stlbMshr[v].returned
                 /\ t = [stlbMshr EXCEPT ![v] = e]
    BY <2>1
  <2>. QED
    BY <1>1, <1>3, <2>2, RetypeMiss
<1>. QED
  BY <1>1, <1>2, <1>4, SoundNext DEF Sound, TypeInv, NamedOnce, MissesFit

LEMMA FillSound ==
    ASSUME Sound, NEW v \in Page, Fill(v)
    PROVE  failed' = failed /\ Sound'
<1>1. /\ v \in DOMAIN stlbMshr /\ stlbMshr[v].returned /\ pq' = pq /\ mshr' = mshr
      /\ FillTranslation(v) \/ DropPrefetch(v) \/ SendAgain(v)
  BY DEF Fill
<1>2. PICK t : t = stlbMshr'
  OBVIOUS
<1>3. MissTable(stlbMshr) /\ IsFiniteSet(DOMAIN stlbMshr) /\ Cardinality(DOMAIN stlbMshr) <= StlbMshr
  BY DEF Sound, TypeInv, MissesFit
<1>4. CASE FillTranslation(v) \/ DropPrefetch(v)
  <2>1. t = Without(stlbMshr, v) /\ rq' = rq /\ failed' = failed
    BY <1>2, <1>4 DEF FillTranslation, DropPrefetch
  <2>2. /\ MissTable(t) /\ DOMAIN t = DOMAIN stlbMshr \ {v}
        /\ Unanswered(t) = Unanswered(stlbMshr)
    BY <1>1, <1>3, <2>1, RemoveMiss
  <2>3. /\ IsFiniteSet(DOMAIN t) /\ Cardinality(DOMAIN t) = Cardinality(DOMAIN stlbMshr) - 1
        /\ Cardinality(DOMAIN stlbMshr) \in Nat /\ StlbMshr \in Nat
    BY <1>1, <1>3, <2>2, FS_RemoveElement, FS_CardinalityType, WalkerAssumption
  <2>4. Cardinality(DOMAIN t) <= StlbMshr
    BY <1>3, <2>3
  <2>. QED
    BY <1>1, <1>2, <2>1, <2>2, <2>3, <2>4, SoundNext DEF Sound, TypeInv, NamedOnce
<1>5. CASE SendAgain(v)
  <2>1. t = [stlbMshr EXCEPT ![v].returned = FALSE] /\ AddRq(v, Load)
    BY <1>2, <1>5 DEF SendAgain
  <2>2. /\ MissTable(t) /\ DOMAIN t = DOMAIN stlbMshr
        /\ Unanswered(t) = Unanswered(stlbMshr) \cup {v}
    BY <1>1, <1>3, <2>1, ReopenMiss
  <2>3. PICK q : q = rq'
    OBVIOUS
  <2>4. failed' = failed /\ q \in Seq(Request) /\ Distinct(q) /\ Pages(q) = Pages(rq) \cup {v}
    BY <1>1, <2>1, <2>3, Added DEF Types
  <2>5. v \notin Unanswered(stlbMshr)
    BY <1>1 DEF Unanswered
  <2>. QED
    BY <1>1, <1>2, <1>3, <2>2, <2>3, <2>4, <2>5, SoundNext DEF Sound, TypeInv, NamedOnce
<1>. QED
  BY <1>1, <1>4, <1>5

\* An answer to the STLB. Its page is named at one place, which the step leaves.
LEMMA AnswerSound ==
    ASSUME Sound, NEW v, v \in Unanswered(stlbMshr), NEW data, ReturnToStlb(v, data),
           NEW r \in Seq(Request), NEW p \in Seq(Request), NEW walks,
           rq' = r, pq' = p, mshr' = walks,
           Distinct(r), Distinct(p), AtMostOneWalk(walks),
           Pages(r) \subseteq Pages(rq), Pages(p) \subseteq Pages(pq),
           WalkPages(walks) \subseteq WalkPages(mshr),
           Pages(r) \cup Pages(p) \cup WalkPages(walks)
             = (Pages(rq) \cup Pages(pq) \cup WalkPages(mshr)) \ {v}
    PROVE  Sound'
<1>1. PICK t : t = stlbMshr'
  OBVIOUS
<1>2. MissTable(stlbMshr) /\ v \in DOMAIN stlbMshr
  BY DEF Sound, TypeInv, Unanswered
<1>3. /\ MissTable(t) /\ DOMAIN t = DOMAIN stlbMshr
      /\ Unanswered(t) = Unanswered(stlbMshr) \ {v}
  <2>1. t = [stlbMshr EXCEPT ![v].returned = TRUE, ![v].data = data]
    BY <1>1 DEF ReturnToStlb
  <2>2. \E e : IsMiss(e) /\ e.returned /\ t = [stlbMshr EXCEPT ![v] = e]
    <3>1. PICK x : x = stlbMshr[v]
      OBVIOUS
    <3>2. PICK e : e = [[x EXCEPT !.returned = TRUE] EXCEPT !.data = data]
      OBVIOUS
    <3>3. IsMiss(e) /\ e.returned
      BY <1>2, <3>1, <3>2, ReturnedFields DEF MissTable
    <3>4. t = [stlbMshr EXCEPT ![v] = e]
      BY <1>2, <2>1, <3>1, <3>2 DEF MissTable
    <3>. QED
      BY <3>3, <3>4
  <2>3. PICK e : IsMiss(e) /\ e.returned /\ t = [stlbMshr EXCEPT ![v] = e]
    BY <2>2
  <2>. QED
    BY <1>2, <2>3, ChangeMiss
<1>4. IsFiniteSet(DOMAIN t) /\ Cardinality(DOMAIN t) <= StlbMshr
  BY <1>3 DEF Sound, MissesFit
<1>5. Unanswered(t) = Pages(r) \cup Pages(p) \cup WalkPages(walks)
  BY <1>3 DEF Sound, NamedOnce
<1>6. /\ Pages(r) \cap Pages(p) = {} /\ Pages(r) \cap WalkPages(walks) = {}
      /\ Pages(p) \cap WalkPages(walks) = {}
  BY DEF Sound, NamedOnce
<1>. QED
  BY <1>1, <1>3, <1>4, <1>5, <1>6, SoundNext

\* A request that becomes a walk.
LEMMA WalkSound ==
    ASSUME Sound, mshr = {}, NEW v, stlbMshr' = stlbMshr,
           NEW r \in Seq(Request), NEW p \in Seq(Request), rq' = r, pq' = p,
           Distinct(r), Distinct(p),
           NEW x, IsWalk(x), x.page = v, mshr' = {x},
           \/ /\ v \in Pages(rq) /\ Pages(r) = Pages(rq) \ {v} /\ p = pq
           \/ /\ v \in Pages(pq) /\ Pages(p) = Pages(pq) \ {v} /\ r = rq
    PROVE  Sound'
<1>1. WalkPages({x}) = {v} /\ AtMostOneWalk({x}) /\ WalkPages(mshr) = {}
  BY WalkPagesOf
<1>2. /\ MissTable(stlbMshr) /\ IsFiniteSet(DOMAIN stlbMshr)
      /\ Cardinality(DOMAIN stlbMshr) <= StlbMshr
      /\ Unanswered(stlbMshr) = Pages(rq) \cup Pages(pq) /\ Pages(rq) \cap Pages(pq) = {}
  BY <1>1 DEF Sound, TypeInv, NamedOnce, MissesFit
<1>3. /\ Unanswered(stlbMshr) = Pages(r) \cup Pages(p) \cup WalkPages({x})
      /\ Pages(r) \cap Pages(p) = {} /\ Pages(r) \cap WalkPages({x}) = {}
      /\ Pages(p) \cap WalkPages({x}) = {}
  BY <1>1, <1>2
<1>. QED
  BY <1>1, <1>2, <1>3, SoundNext

LEMMA StartWalkSent ==
    ASSUME NEW req \in Request, NEW offset, StartWalk(req, offset)
    PROVE  /\ stlbMshr' = stlbMshr
           /\ \/ failed' = TRUE
              \/ failed' = failed /\ \E x : IsWalk(x) /\ x.page = req.page /\ mshr' = {x}
<1>. DEFINE level == HitLevel(req.page) - 1
            w == [page |-> req.page, type |-> req.type, level |-> level, init |-> level,
                  block |-> <<HitBase(req.page), offset>>, returned |-> FALSE]
<1>1. IsWalk(w) /\ w.page = req.page
  BY DEF IsWalk, Request
<1>2. SendToDram(w, warm) /\ stlbMshr' = stlbMshr
  BY DEF StartWalk
<1>. HIDE DEF w
<1>. QED
  BY <1>1, <1>2, WalkSent

LEMMA FirstWalkAnswers ==
    ASSUME NEW req, FirstWalk(req)
    PROVE  mshr' = mshr /\ failed' = failed /\ \E data : ReturnToStlb(req.page, data)
  BY DEF FirstWalk

LEMMA HandleRqSound ==
    ASSUME Sound, HandleRq
    PROVE  failed' = TRUE \/ (failed' = failed /\ Sound')
<1>1. PICK req, r : req = Head(rq) /\ r = Tail(rq)
  OBVIOUS
<1>2. /\ mshr = {} /\ rq # << >> /\ rq' = r /\ pq' = pq
      /\ FirstWalk(req) \/ StartWalk(req, Offset(req.page, HitLevel(req.page) - 1))
  BY <1>1 DEF HandleRq
<1>3. /\ rq \in Seq(Request) /\ pq \in Seq(Request) /\ Distinct(rq) /\ Distinct(pq)
      /\ Unanswered(stlbMshr) = Pages(rq) \cup Pages(pq) \cup WalkPages(mshr)
      /\ Pages(rq) \cap Pages(pq) = {} /\ AtMostOneWalk(mshr) /\ WalkPages(mshr) = {}
  BY <1>2, WalkPagesOf DEF Sound, TypeInv, NamedOnce
<1>4. /\ req \in Request /\ req.page \in Pages(rq)
      /\ r \in Seq(Request) /\ Distinct(r) /\ Pages(r) = Pages(rq) \ {req.page}
  BY <1>1, <1>2, <1>3, TailPages
<1>5. CASE FirstWalk(req)
  <2>1. PICK data : ReturnToStlb(req.page, data)
    BY <1>5, FirstWalkAnswers
  <2>2. mshr' = mshr /\ failed' = failed
    BY <1>5, FirstWalkAnswers
  <2>3. /\ req.page \in Unanswered(stlbMshr)
        /\ Pages(r) \cup Pages(pq) \cup WalkPages(mshr)
           = (Pages(rq) \cup Pages(pq) \cup WalkPages(mshr)) \ {req.page}
    BY <1>3, <1>4
  <2>4. Sound'
    BY <1>2, <1>3, <1>4, <2>1, <2>2, <2>3, AnswerSound
  <2>. QED
    BY <2>2, <2>4
<1>6. CASE StartWalk(req, Offset(req.page, HitLevel(req.page) - 1))
  <2>1. PICK offset : StartWalk(req, offset)
    BY <1>6
  <2>2. /\ stlbMshr' = stlbMshr
        /\ \/ failed' = TRUE
           \/ failed' = failed /\ \E x : IsWalk(x) /\ x.page = req.page /\ mshr' = {x}
    BY <1>4, <2>1, StartWalkSent
  <2>3. CASE failed' # TRUE
    <3>1. PICK x : IsWalk(x) /\ x.page = req.page /\ mshr' = {x}
      BY <2>2, <2>3
    <3>2. Sound'
      BY <1>2, <1>3, <1>4, <2>2, <3>1, WalkSound
    <3>. QED
      BY <2>2, <2>3, <3>2
  <2>. QED
    BY <2>3
<1>. QED
  BY <1>2, <1>5, <1>6

LEMMA HandlePqSound ==
    ASSUME Sound, HandlePq
    PROVE  failed' = TRUE \/ (failed' = failed /\ Sound')
<1>1. PICK req, p : req = Head(pq) /\ p = Tail(pq)
  OBVIOUS
<1>2. /\ mshr = {} /\ pq # << >> /\ rq' = rq /\ pq' = p
      /\ FirstWalk(req) \/ StartWalk(req, PrefetchOffset(req.page))
  BY <1>1 DEF HandlePq
<1>3. /\ rq \in Seq(Request) /\ pq \in Seq(Request) /\ Distinct(rq) /\ Distinct(pq)
      /\ Unanswered(stlbMshr) = Pages(rq) \cup Pages(pq) \cup WalkPages(mshr)
      /\ Pages(rq) \cap Pages(pq) = {} /\ AtMostOneWalk(mshr) /\ WalkPages(mshr) = {}
  BY <1>2, WalkPagesOf DEF Sound, TypeInv, NamedOnce
<1>4. /\ req \in Request /\ req.page \in Pages(pq)
      /\ p \in Seq(Request) /\ Distinct(p) /\ Pages(p) = Pages(pq) \ {req.page}
  BY <1>1, <1>2, <1>3, TailPages
<1>5. CASE FirstWalk(req)
  <2>1. PICK data : ReturnToStlb(req.page, data)
    BY <1>5, FirstWalkAnswers
  <2>2. mshr' = mshr /\ failed' = failed
    BY <1>5, FirstWalkAnswers
  <2>3. /\ req.page \in Unanswered(stlbMshr)
        /\ Pages(rq) \cup Pages(p) \cup WalkPages(mshr)
           = (Pages(rq) \cup Pages(pq) \cup WalkPages(mshr)) \ {req.page}
    BY <1>3, <1>4
  <2>4. Sound'
    BY <1>2, <1>3, <1>4, <2>1, <2>2, <2>3, AnswerSound
  <2>. QED
    BY <2>2, <2>4
<1>6. CASE StartWalk(req, PrefetchOffset(req.page))
  <2>1. PICK offset : StartWalk(req, offset)
    BY <1>6
  <2>2. /\ stlbMshr' = stlbMshr
        /\ \/ failed' = TRUE
           \/ failed' = failed /\ \E x : IsWalk(x) /\ x.page = req.page /\ mshr' = {x}
    BY <1>4, <2>1, StartWalkSent
  <2>3. CASE failed' # TRUE
    <3>1. PICK x : IsWalk(x) /\ x.page = req.page /\ mshr' = {x}
      BY <2>2, <2>3
    <3>2. Sound'
      BY <1>2, <1>3, <1>4, <2>2, <3>1, WalkSound
    <3>. QED
      BY <2>2, <2>3, <3>2
  <2>. QED
    BY <2>3
<1>. QED
  BY <1>2, <1>5, <1>6

\* A walk that ends answers its page; one that goes on stays for it.
LEMMA HandleMshrSound ==
    ASSUME Sound, HandleMshr
    PROVE  failed' = TRUE \/ (failed' = failed /\ Sound')
<1>1. PICK w \in mshr : DropWalk(w) \/ FaultWalk(w) \/ CompleteWalk(w) \/ NextLevel(w)
  BY DEF HandleMshr
<1>2. rq' = rq /\ pq' = pq
  BY DEF HandleMshr
<1>3. /\ rq \in Seq(Request) /\ pq \in Seq(Request) /\ Distinct(rq) /\ Distinct(pq)
      /\ MissTable(stlbMshr) /\ IsFiniteSet(DOMAIN stlbMshr)
      /\ Cardinality(DOMAIN stlbMshr) <= StlbMshr
      /\ Unanswered(stlbMshr) = Pages(rq) \cup Pages(pq) \cup WalkPages(mshr)
      /\ Pages(rq) \cap Pages(pq) = {} /\ Pages(rq) \cap WalkPages(mshr) = {}
      /\ Pages(pq) \cap WalkPages(mshr) = {}
  BY DEF Sound, TypeInv, NamedOnce, MissesFit
<1>4. IsWalk(w) /\ mshr = {w}
  BY DEF Sound, TypeInv, AtMostOneWalk
<1>5. WalkPages(mshr) = {w.page} /\ WalkPages({}) = {} /\ AtMostOneWalk({})
  BY <1>4, WalkPagesOf
<1>6. CASE DropWalk(w) \/ FaultWalk(w) \/ CompleteWalk(w)
  <2>1. mshr' = {} /\ failed' = failed /\ \E data : ReturnToStlb(w.page, data)
    BY <1>6 DEF DropWalk, FaultWalk, CompleteWalk, FinishWalk
  <2>2. PICK data : ReturnToStlb(w.page, data)
    BY <2>1
  <2>3. /\ w.page \in Unanswered(stlbMshr)
        /\ Pages(rq) \cup Pages(pq) \cup WalkPages({})
           = (Pages(rq) \cup Pages(pq) \cup WalkPages(mshr)) \ {w.page}
        /\ WalkPages({}) \subseteq WalkPages(mshr)
    BY <1>3, <1>5
  <2>4. Sound'
    BY <1>2, <1>3, <1>5, <2>1, <2>2, <2>3, AnswerSound
  <2>. QED
    BY <2>1, <2>4
<1>7. CASE NextLevel(w)
  <2>. DEFINE c == <<Entry(tree, w.page, w.level + 1), Offset(w.page, w.level)>>
  <2>1. PICK n : n = [w EXCEPT !.block = c]
    OBVIOUS
  <2>2. SendToDram(n, TRUE) /\ stlbMshr' = stlbMshr
    BY <1>7, <2>1 DEF NextLevel
  <2>3. IsWalk(n) /\ n.page = w.page
    BY <1>4, <2>1, WalkFields
  <2>4. \/ failed' = TRUE
        \/ failed' = failed /\ \E x : IsWalk(x) /\ x.page = w.page /\ mshr' = {x}
    BY <2>2, <2>3, WalkSent
  <2>5. CASE failed' # TRUE
    <3>1. PICK x : IsWalk(x) /\ x.page = w.page /\ mshr' = {x}
      BY <2>4, <2>5
    <3>2. WalkPages({x}) = WalkPages(mshr) /\ AtMostOneWalk({x})
      BY <1>5, <3>1, WalkPagesOf
    <3>3. Sound'
      BY <1>2, <1>3, <2>2, <3>1, <3>2, SoundNext
    <3>. QED
      BY <2>4, <2>5, <3>3
  <2>. QED
    BY <2>5
<1>. QED
  BY <1>1, <1>6, <1>7

LEMMA ReturnDataSound ==
    ASSUME Sound, ReturnData
    PROVE  failed' = failed /\ Sound'
<1>1. PICK w \in mshr : mshr' = {[w EXCEPT !.returned = TRUE, !.level = @ - 1]}
  BY DEF ReturnData
<1>2. rq' = rq /\ pq' = pq /\ stlbMshr' = stlbMshr /\ failed' = failed
  BY DEF ReturnData
<1>3. PICK y : y = [w EXCEPT !.returned = TRUE]
  OBVIOUS
<1>4. PICK x : x = [y EXCEPT !.level = y.level - 1]
  OBVIOUS
<1>5. IsWalk(w) /\ mshr = {w}
  BY DEF Sound, TypeInv, AtMostOneWalk
<1>6. IsWalk(y) /\ y.page = w.page
  BY <1>3, <1>5, WalkFields
<1>7. IsWalk(x) /\ x.page = w.page
  BY <1>4, <1>6, WalkFields
<1>8. mshr' = {x}
  BY <1>1, <1>3, <1>4
<1>9. WalkPages({x}) = WalkPages(mshr) /\ AtMostOneWalk({x})
  BY <1>5, <1>7, WalkPagesOf
<1>. QED
  BY <1>2, <1>8, <1>9, SoundNext DEF Sound, TypeInv, NamedOnce, MissesFit

-----------------------------------------------------------------------------
(* The theorems.                                                             *)

LEMMA InitInv ==
    ASSUME Init
    PROVE  IInv
<1>. PICK e : e = << >>
  OBVIOUS
<1>1. /\ rq = e /\ pq = e /\ stlbMshr = e /\ mshr = {} /\ failed = FALSE
      /\ e \in Seq(Request) /\ Len(e) = 0 /\ DOMAIN e = {} /\ e = [v \in DOMAIN e |-> e[v]]
  BY DEF Init
<1>2. 1..Len(e) = {}
  BY <1>1
<1>3. Pages(e) = {} /\ Distinct(e) /\ Unanswered(e) = {}
  BY <1>1, <1>2 DEF Pages, Distinct, Unanswered
<1>4. MissTable(e) /\ WalkPages({}) = {} /\ AtMostOneWalk({})
  BY <1>1, WalkPagesOf DEF MissTable
<1>5. IsFiniteSet(DOMAIN e) /\ Cardinality(DOMAIN e) = 0
  BY <1>1, FS_EmptySet
<1>6. TypeInv /\ NamedOnce
  BY <1>1, <1>3, <1>4 DEF TypeInv, NamedOnce
<1>7. MissesFit
  BY <1>1, <1>5, WalkerAssumption DEF MissesFit
<1>. QED
  BY <1>1, <1>6, <1>7 DEF IInv, Sound

LEMMA NextInv ==
    ASSUME IInv, [Next]_vars
    PROVE  IInv'
<1>1. CASE UNCHANGED vars
  BY <1>1, SoundFrame DEF vars, walker, IInv
<1>2. CASE Next
  <2>1. ~failed /\ failed = FALSE /\ Sound
    BY <1>2 DEF Next, IInv
  <2>2. ASSUME NEW v \in Page, NEW type \in Types, Miss(v, type) PROVE IInv'
    BY <2>1, <2>2, MissSound DEF IInv
  <2>3. ASSUME NEW v \in Page, NEW type \in Types, Merge(v, type) PROVE IInv'
    BY <2>1, <2>3, MergeSound DEF IInv
  <2>4. ASSUME NEW v \in Page, Fill(v) PROVE IInv'
    BY <2>1, <2>4, FillSound DEF IInv
  <2>5. CASE Operate
    BY <2>1, <2>5, HandleRqSound, HandlePqSound, HandleMshrSound DEF Operate, IInv
  <2>6. CASE ReturnData
    BY <2>1, <2>6, ReturnDataSound DEF IInv
  <2>7. CASE (\E v \in Page : Access("read", v) \/ Access("write", v)) \/ Serve \/ WarmupEnds
    <3>1. UNCHANGED <<rq, pq, stlbMshr, mshr>> /\ failed' = failed
      BY <2>7 DEF Access, Serve, WarmupEnds, walker
    <3>. QED
      BY <2>1, <3>1, SoundFrame DEF IInv
  <2>. QED
    BY <1>2, <2>2, <2>3, <2>4, <2>5, <2>6, <2>7 DEF Next
<1>. QED
  BY <1>1, <1>2

LEMMA Invariant == Spec => []IInv
<1>1. Init => IInv
  BY InitInv
<1>2. IInv /\ [Next]_vars => IInv'
  BY NextInv
<1>. QED
  BY <1>1, <1>2, PTL DEF Spec

\* In a queue without duplicates a page is counted once, or not at all.
LEMMA CountInQueue ==
    ASSUME NEW q \in Seq(Request), Distinct(q), NEW v
    PROVE  Cardinality({k \in DOMAIN q : q[k].page = v}) = IF v \in Pages(q) THEN 1 ELSE 0
<1>. DEFINE K == {k \in DOMAIN q : q[k].page = v}
<1>1. DOMAIN q = 1..Len(q)
  OBVIOUS
<1>2. CASE v \in Pages(q)
  <2>1. PICK k \in 1..Len(q) : q[k].page = v
    BY <1>2 DEF Pages
  <2>2. K = {k}
    BY <1>1, <2>1 DEF Distinct
  <2>. QED
    BY <1>2, <2>2, FS_Singleton
<1>3. CASE v \notin Pages(q)
  <2>1. K = {}
    BY <1>1, <1>3 DEF Pages
  <2>. QED
    BY <1>3, <2>1, FS_EmptySet
<1>. QED
  BY <1>2, <1>3

LEMMA CountInWalks ==
    ASSUME NEW walks, AtMostOneWalk(walks), NEW v
    PROVE  Cardinality({w \in walks : w.page = v}) = IF v \in WalkPages(walks) THEN 1 ELSE 0
<1>. DEFINE K == {w \in walks : w.page = v}
<1>1. CASE v \in WalkPages(walks)
  <2>1. PICK w \in walks : w.page = v
    BY <1>1 DEF WalkPages
  <2>2. K = {w}
    BY <2>1 DEF AtMostOneWalk
  <2>. QED
    BY <1>1, <2>2, FS_Singleton
<1>2. CASE v \notin WalkPages(walks)
  <2>1. K = {}
    BY <1>2 DEF WalkPages
  <2>. QED
    BY <1>2, <2>1, FS_EmptySet
<1>. QED
  BY <1>1, <1>2

\* Each miss of the STLB that is not answered is named exactly once in the
\* walker (RQ, PQ or the walk in progress), and the walker works for no other
\* page: PAGE_TABLE_WALKER::operate, add_rq and return_data with the STLB's
\* handle_read and handle_fill, for every tree, set of pages and queue size.
THEOREM EachMissHasOneWalk == Spec => []OneWalkPerMiss
<1>1. ASSUME IInv PROVE OneWalkPerMiss
  <2>. SUFFICES ASSUME ~failed, NEW v \in Page
                PROVE  Cardinality({k \in DOMAIN rq : rq[k].page = v})
                       + Cardinality({k \in DOMAIN pq : pq[k].page = v})
                       + Cardinality({w \in mshr : w.page = v})
                       = IF v \in DOMAIN stlbMshr /\ ~stlbMshr[v].returned THEN 1 ELSE 0
    BY DEF OneWalkPerMiss
  <2>1. /\ rq \in Seq(Request) /\ pq \in Seq(Request) /\ Distinct(rq) /\ Distinct(pq)
        /\ AtMostOneWalk(mshr)
        /\ Unanswered(stlbMshr) = Pages(rq) \cup Pages(pq) \cup WalkPages(mshr)
        /\ Pages(rq) \cap Pages(pq) = {} /\ Pages(rq) \cap WalkPages(mshr) = {}
        /\ Pages(pq) \cap WalkPages(mshr) = {}
    BY <1>1 DEF IInv, Sound, TypeInv, NamedOnce
  <2>2. PICK a, b, c : /\ a = Cardinality({k \in DOMAIN rq : rq[k].page = v})
                       /\ b = Cardinality({k \in DOMAIN pq : pq[k].page = v})
                       /\ c = Cardinality({w \in mshr : w.page = v})
    OBVIOUS
  <2>3. /\ a = IF v \in Pages(rq) THEN 1 ELSE 0
        /\ b = IF v \in Pages(pq) THEN 1 ELSE 0
        /\ c = IF v \in WalkPages(mshr) THEN 1 ELSE 0
    BY <2>1, <2>2, CountInQueue, CountInWalks
  <2>4. CASE v \in Unanswered(stlbMshr)
    <3>1. a + b + c = 1
      BY <2>1, <2>3, <2>4
    <3>2. v \in DOMAIN stlbMshr /\ ~stlbMshr[v].returned
      BY <2>4 DEF Unanswered
    <3>. QED
      BY <2>2, <3>1, <3>2
  <2>5. CASE v \notin Unanswered(stlbMshr)
    <3>1. a + b + c = 0
      BY <2>1, <2>3, <2>5
    <3>2. ~(v \in DOMAIN stlbMshr /\ ~stlbMshr[v].returned)
      BY <2>5 DEF Unanswered
    <3>. QED
      BY <2>2, <3>1, <3>2
  <2>. QED
    BY <2>4, <2>5
<1>. QED
  BY <1>1, Invariant, PTL

\* Whenever the STLB calls add_rq, for a miss it has an MSHR for or for a
\* dropped prefetch that a demand read took over, RQ has a free entry and none
\* for that page: the assertion of add_rq holds and no request is lost.
RequestsFit ==
    ~failed => \A v \in Page :
        (\/ v \notin DOMAIN stlbMshr /\ Cardinality(DOMAIN stlbMshr) < StlbMshr
         \/ v \in DOMAIN stlbMshr /\ stlbMshr[v].returned)
            => ~InRq(v) /\ Len(rq) < PtwRqSize

\* RQ of the walker takes every request of the STLB: neither the assertion of
\* add_rq nor its return of -2 is reached.
THEOREM RequestsAlwaysFit == Spec => []RequestsFit
<1>1. IInv => RequestsFit
  BY RequestFits DEF IInv, RequestsFit
<1>. QED
  BY <1>1, Invariant, PTL

-----------------------------------------------------------------------------
(* What is mapped.                                                           *)

IsMap(f) == f = [x \in DOMAIN f |-> f[x]]
IsMapping(m) ==
    m = [tree |-> m.tree, table |-> m.table, inverse |-> m.inverse,
         created |-> m.created, stlb |-> m.stlb]

\* The pages that exist when c translation pages were mapped.
Vpages(c) == Page \cup (Translation0..(Translation0 + c - 1))

\* Frames are handed out in order, and page_table and inverse_table are inverse.
FramesOk(m) ==
    /\ IsMap(m.table) /\ IsMap(m.inverse) /\ m.created \in Nat
    /\ \E n \in 0..DramPages : DOMAIN m.inverse = 1..n
    /\ DOMAIN m.table \subseteq Vpages(m.created)
    /\ \A v \in DOMAIN m.table : m.table[v] \in DOMAIN m.inverse /\ m.inverse[m.table[v]] = v
    /\ \A f \in DOMAIN m.inverse : m.inverse[f] \in DOMAIN m.table /\ m.table[m.inverse[f]] = f

\* The entry of page v at level i.
At(v, i) == <<i, Index(v, i)>>

\* A tree has no entry without the entries above it, and a page that has a
\* frame has an entry, which names it.
TreeOk(m) ==
    /\ IsMap(m.tree) /\ \A p \in DOMAIN m.tree : m.tree[p] \in Nat \ {0}
    /\ \A v \in Page : \A i \in 1..(Levels - 1) :
          At(v, i) \in DOMAIN m.tree => At(v, i + 1) \in DOMAIN m.tree
    /\ \A v \in DOMAIN m.table \cap Page :
          At(v, 1) \in DOMAIN m.tree /\ m.tree[At(v, 1)] = m.table[v]

\* The STLB has what the tree has.
StlbOk(m) ==
    /\ IsMap(m.stlb) /\ DOMAIN m.stlb \subseteq Page
    /\ \A v \in DOMAIN m.stlb : At(v, 1) \in DOMAIN m.tree /\ m.stlb[v] = m.tree[At(v, 1)]

MapOk(m) == IsMapping(m) /\ FramesOk(m) /\ TreeOk(m) /\ StlbOk(m)

\* Frame f was the frame of a page of the program once.
Used(m, f) == \E v \in Page : At(v, 1) \in DOMAIN m.tree /\ m.tree[At(v, 1)] = f

\* All translation pages have their frames (base is the one of CR3); or a frame
\* went from a page of the program to a translation page, of at least number c.
OfTranslation(m, f) == f \in DOMAIN m.inverse /\ m.inverse[f] >= Translation0
Intact(m, base) ==
    /\ base # NoFrame => OfTranslation(m, base)
    /\ \A p \in DOMAIN m.tree : p[1] # 1 => OfTranslation(m, m.tree[p])
Taken(m, c) ==
    \E f \in DOMAIN m.inverse : m.inverse[f] >= Translation0 + c /\ Used(m, f)
SwapOk(m, base) == Intact(m, base) \/ Taken(m, 0)

\* Some page of the program has a frame.
Populated(m) == DOMAIN m.table \cap Page # {}

Unmapped(m) ==
    /\ DOMAIN m.tree = {} /\ DOMAIN m.table = {} /\ DOMAIN m.inverse = {}
    /\ m.created = 0 /\ DOMAIN m.stlb = {}

Mapped ==
    /\ MapOk(Mapping) /\ SwapOk(Mapping, cr3) /\ cr3 \in Nat
    /\ cr3 = NoFrame => Unmapped(Mapping) /\ \A i \in 2..Levels : pscl[i] = << >>
    /\ cr3 # NoFrame => Populated(Mapping)

\* A PSCL holds what tree t holds, once for each index.
PsclEntry == [index : Nat, data : Nat]
PsclOk(q, t, i) ==
    /\ q \in Seq(PsclEntry)
    /\ \A k \in 1..Len(q) : <<i, q[k].index>> \in DOMAIN t /\ q[k].data = t[<<i, q[k].index>>]
    /\ \A j, k \in 1..Len(q) : q[j].index = q[k].index => j = k
Cached == pscl = [i \in 2..Levels |-> pscl[i]] /\ \A i \in 2..Levels : PsclOk(pscl[i], tree, i)

\* A walk is below the level it started from; the PSCLs it will fill do not
\* hold its page, and the block it reads is its entry.
WalkOk(w) ==
    /\ w.init \in 1..Levels /\ w.level \in 0..w.init /\ w.returned \in BOOLEAN
    /\ w.returned => w.level < w.init
    /\ ~w.returned => w.level > 0
    /\ \A i \in 2..w.init : Hits(i, w.page) = {}
Walking == \A w \in mshr : cr3 # NoFrame /\ WalkOk(w)

Answered ==
    \A v \in DOMAIN stlbMshr : stlbMshr[v].returned =>
        \/ stlbMshr[v].data = Dropped
        \/ At(v, 1) \in DOMAIN tree /\ stlbMshr[v].data = tree[At(v, 1)]

InDram == \A d \in dram : Used(Mapping, d.block[1])

Paging ==
    /\ Mapped /\ Cached /\ Walking /\ WalkReadsEntry /\ Answered /\ InDram
    /\ \A k \in 1..Len(pq) : pq[k].type = Prefetch
    /\ failed => Taken(Mapping, 0)

-----------------------------------------------------------------------------
(* Numbers, and functions that are defined by recursion.                     *)

LEMMA Sizes ==
    /\ Levels \in Nat /\ Levels >= 2 /\ Fan \in Nat /\ Fan > 0
    /\ Page \subseteq Nat /\ Translation0 \in Nat /\ \A v \in Page : v < Translation0
    /\ DramPages \in Nat /\ DramPages > Levels
  BY WalkerAssumption

LEMMA LeastExists ==
    ASSUME NEW S \in SUBSET Nat, S # {}
    PROVE  \E x \in S : \A y \in S : x <= y
<1>1. IsWellFoundedOn(OpToRel(<, Nat), Nat)
  BY NatLessThanWellFounded
<1>2. PICK x \in S : \A y \in S : ~(<<y, x>> \in OpToRel(<, Nat))
  BY <1>1, WFMin
<1>3. \A y \in S : ~(y < x)
  BY <1>2 DEF OpToRel
<1>. QED
  BY <1>3

\* The first n indices of page v, from the lowest level.
IndexTo(v, n, f) == f = [j \in 1..n |-> IF j = 1 THEN v ELSE f[j - 1] \div Fan]

LEMMA IndexExists ==
    ASSUME NEW v, NEW n \in Nat
    PROVE  \E f : IndexTo(v, n, f)
<1>. DEFINE S == {k \in Nat : ~\E f : IndexTo(v, k, f)}
<1>. SUFFICES S = {}
  OBVIOUS
<1>1. ASSUME S # {} PROVE FALSE
  <2>1. PICK k \in S : \A y \in S : k <= y
    BY <1>1, LeastExists
  <2>2. CASE k = 0
    <3>1. IndexTo(v, 0, [j \in 1..0 |-> v])
      BY DEF IndexTo
    <3>. QED
      BY <2>1, <2>2, <3>1
  <2>3. CASE k # 0
    <3>1. k - 1 \in Nat /\ k \in Nat /\ k - 1 \notin S
      BY <2>1, <2>3
    <3>2. PICK f : IndexTo(v, k - 1, f)
      BY <3>1
    <3>. DEFINE g == [j \in 1..k |-> IF j = 1 THEN v ELSE f[j - 1] \div Fan]
    <3>3. \A j \in 1..(k - 1) : g[j] = f[j]
      BY <3>1, <3>2 DEF IndexTo
    <3>4. g = [j \in 1..k |-> IF j = 1 THEN v ELSE g[j - 1] \div Fan]
      <4>1. \A j \in 1..k : j # 1 => j - 1 \in 1..(k - 1)
        BY <3>1
      <4>. QED
        BY <3>3, <4>1
    <3>. QED
      BY <2>1, <3>4 DEF IndexTo
  <2>. QED
    BY <2>2, <2>3
<1>. QED
  BY <1>1

\* get_index: page v itself at level 1, and a digit less at each level.
LEMMA IndexStep ==
    ASSUME NEW v
    PROVE  Index(v, 1) = v /\ \A i \in 1..(Levels - 1) : Index(v, i + 1) = Index(v, i) \div Fan
<1>. DEFINE f == CHOOSE g : g = [j \in 1..Levels |-> IF j = 1 THEN v ELSE g[j - 1] \div Fan]
<1>1. f = [j \in 1..Levels |-> IF j = 1 THEN v ELSE f[j - 1] \div Fan]
  BY Sizes, IndexExists DEF IndexTo
<1>2. \A i : Index(v, i) = f[i]
  BY DEF Index
<1>. HIDE DEF f
<1>3. f[1] = v /\ \A i \in 1..(Levels - 1) : f[i + 1] = f[i] \div Fan
  BY <1>1, Sizes
<1>. QED
  BY <1>2, <1>3

LEMMA IndexIsNat ==
    ASSUME NEW v \in Page, NEW i \in 1..Levels
    PROVE  Index(v, i) \in Nat
<1>. DEFINE S == {k \in Nat : k \in 1..Levels /\ Index(v, k) \notin Nat}
<1>. SUFFICES S = {}
  BY Sizes
<1>1. ASSUME S # {} PROVE FALSE
  <2>1. PICK k \in S : \A y \in S : k <= y
    BY <1>1, LeastExists
  <2>2. k # 1
    BY <2>1, IndexStep, Sizes
  <2>3. k - 1 \in 1..(Levels - 1) /\ k - 1 \notin S /\ k - 1 + 1 = k
    BY <2>1, <2>2, Sizes
  <2>4. Index(v, k - 1) \in Nat
    BY <2>3, Sizes
  <2>5. Index(v, k) = Index(v, k - 1) \div Fan
    BY <2>3, IndexStep
  <2>. QED
    BY <2>1, <2>4, <2>5, Sizes
<1>. QED
  BY <1>1

\* Pages that share an entry share those above it.
LEMMA SharedAbove ==
    ASSUME NEW v, NEW u, NEW i \in 1..(Levels - 1), Index(v, i) = Index(u, i)
    PROVE  Index(v, i + 1) = Index(u, i + 1)
<1>1. Index(v, i + 1) = Index(v, i) \div Fan
  BY IndexStep
<1>2. Index(u, i + 1) = Index(u, i) \div Fan
  BY IndexStep
<1>. QED
  BY <1>1, <1>2

-----------------------------------------------------------------------------
(* va_to_pa_ptw.                                                             *)

\* Function g is f with value y at x, and f without x.
Extends(g, f, x, y) ==
    /\ IsMap(g) /\ DOMAIN g = DOMAIN f \cup {x} /\ g[x] = y
    /\ \A z \in DOMAIN f : z # x => g[z] = f[z]
Lacks(g, f, x) ==
    IsMap(g) /\ DOMAIN g = DOMAIN f \ {x} /\ \A z \in DOMAIN g : g[z] = f[z]

LEMMA WithExtends ==
    ASSUME NEW f, NEW x, NEW y
    PROVE  Extends(With(f, x, y), f, x, y)
  BY DEF With, IsMap, Extends

LEMMA WithoutLacks ==
    ASSUME NEW f, NEW x
    PROVE  Lacks(Without(f, x), f, x)
  BY DEF Without, Restrict, IsMap, Lacks

\* Page v got frame f: from m to n.
Given(m, n, v, f) ==
    /\ IsMapping(n) /\ n.tree = m.tree /\ n.created = m.created
    /\ IsMap(n.table) /\ IsMap(n.inverse) /\ IsMap(n.stlb)
    /\ f \in Nat \ {0}
    /\ v \in DOMAIN n.table /\ n.table[v] = f
    /\ DOMAIN n.table \subseteq DOMAIN m.table \cup {v}
    /\ \A w \in DOMAIN n.table : w # v => n.table[w] = m.table[w]
    /\ f \in DOMAIN n.inverse /\ n.inverse[f] = v
    /\ DOMAIN n.inverse = DOMAIN m.inverse \cup {f}
    /\ \A g \in DOMAIN m.inverse : g # f => n.inverse[g] = m.inverse[g]
    /\ DOMAIN n.stlb \subseteq DOMAIN m.stlb
    /\ \A w \in DOMAIN n.stlb : n.stlb[w] = m.stlb[w]

\* The frame is the next one, and nobody loses it.
Fresh(m, n, v, f) ==
    /\ Given(m, n, v, f) /\ DOMAIN n.table = DOMAIN m.table \cup {v}
    /\ f \notin DOMAIN m.inverse
    /\ \E k \in 0..(DramPages - 1) : f = k + 1 /\ DOMAIN m.inverse = 1..k

\* It is that of the first page of page_table.
Swapped(m, n, v, f) ==
    /\ Given(m, n, v, f)
    /\ DOMAIN m.inverse = 1..DramPages /\ f \in DOMAIN m.inverse
    /\ DOMAIN n.table = (DOMAIN m.table \ {m.inverse[f]}) \cup {v}
    /\ \A w \in DOMAIN m.table : m.inverse[f] <= w

LEMMA FrameCount ==
    ASSUME NEW m, NEW k \in Nat, DOMAIN m.inverse = 1..k
    PROVE  Cardinality(DOMAIN m.inverse) = k /\ FreshFrame(m.inverse) = k + 1
<1>1. Cardinality(1..k) = k
  BY FS_Interval
<1>. QED
  BY <1>1 DEF FreshFrame

LEMMA VpagesAreNat ==
    ASSUME NEW m, FramesOk(m)
    PROVE  DOMAIN m.table \subseteq Nat
<1>1. m.created \in Nat /\ DOMAIN m.table \subseteq Vpages(m.created)
  BY DEF FramesOk
<1>2. \A c \in Nat : Vpages(c) \subseteq Nat
  <2>. SUFFICES ASSUME NEW c \in Nat PROVE Vpages(c) \subseteq Nat
    OBVIOUS
  <2>1. Page \subseteq Nat /\ Translation0..(Translation0 + c - 1) \subseteq Nat
    BY Sizes
  <2>. QED
    BY <2>1 DEF Vpages
<1>. QED
  BY <1>1, <1>2

\* The two results of VaToPa.
FreshResult(n, m, v, f) == n = [m EXCEPT !.table = With(@, v, f), !.inverse = With(@, f, v)]
SwapResult(n, m, v, f, victim) ==
    n = [m EXCEPT !.table = With(Without(@, victim), v, f), !.inverse[f] = v,
                  !.stlb = Without(@, victim)]

Updates(g, f, x, y) == g = [f EXCEPT ![x] = y]

LEMMA FreshFields ==
    ASSUME NEW m, IsMapping(m), NEW v, NEW f, NEW n, FreshResult(n, m, v, f)
    PROVE  /\ IsMapping(n) /\ n.tree = m.tree /\ n.created = m.created /\ n.stlb = m.stlb
           /\ n.table = With(m.table, v, f) /\ n.inverse = With(m.inverse, f, v)
  BY DEF IsMapping, FreshResult

LEMMA SwapFields ==
    ASSUME NEW m, IsMapping(m), NEW v, NEW f, NEW victim,
           NEW n, SwapResult(n, m, v, f, victim)
    PROVE  /\ IsMapping(n) /\ n.tree = m.tree /\ n.created = m.created
           /\ n.stlb = Without(m.stlb, victim)
           /\ n.table = With(Without(m.table, victim), v, f)
           /\ Updates(n.inverse, m.inverse, f, v)
  BY DEF IsMapping, SwapResult, Updates

LEMMA NruIs ==
    ASSUME NEW t, DOMAIN t \subseteq Nat, DOMAIN t # {}
    PROVE  NruPage(t) \in DOMAIN t /\ \A w \in DOMAIN t : NruPage(t) <= w
<1>1. \E v \in DOMAIN t : \A w \in DOMAIN t : v <= w
  BY LeastExists
<1>. QED
  BY <1>1 DEF NruPage

LEMMA FreshGives ==
    ASSUME NEW m, IsMap(m.stlb), NEW v, v \notin DOMAIN m.table,
           NEW k \in 0..(DramPages - 1), DOMAIN m.inverse = 1..k,
           NEW n, IsMapping(n), n.tree = m.tree, n.created = m.created, n.stlb = m.stlb,
           Extends(n.table, m.table, v, k + 1), Extends(n.inverse, m.inverse, k + 1, v)
    PROVE  Fresh(m, n, v, k + 1)
<1>1. /\ IsMap(n.table) /\ DOMAIN n.table = DOMAIN m.table \cup {v} /\ n.table[v] = k + 1
      /\ \A w \in DOMAIN m.table : w # v => n.table[w] = m.table[w]
  BY DEF Extends
<1>2. /\ IsMap(n.inverse) /\ DOMAIN n.inverse = DOMAIN m.inverse \cup {k + 1} /\ n.inverse[k + 1] = v
      /\ \A g \in DOMAIN m.inverse : g # k + 1 => n.inverse[g] = m.inverse[g]
  BY DEF Extends
<1>3. k + 1 \in Nat \ {0} /\ k + 1 \notin DOMAIN m.inverse
  BY Sizes
<1>5. Given(m, n, v, k + 1)
  BY <1>1, <1>2, <1>3 DEF Given
<1>. QED
  BY <1>1, <1>3, <1>5 DEF Fresh

LEMMA SwapGives ==
    ASSUME NEW m, FramesOk(m), IsMap(m.stlb), NEW v, v \notin DOMAIN m.table,
           DOMAIN m.inverse = 1..DramPages,
           NEW f \in DOMAIN m.inverse, \A w \in DOMAIN m.table : m.inverse[f] <= w,
           NEW n, IsMapping(n), n.tree = m.tree, n.created = m.created,
           Lacks(n.stlb, m.stlb, m.inverse[f]), Extends(n.inverse, m.inverse, f, v),
           NEW t, Lacks(t, m.table, m.inverse[f]), Extends(n.table, t, v, f)
    PROVE  Swapped(m, n, v, f)
<1>2. f \in Nat \ {0}
  BY Sizes
<1>3. DOMAIN t = DOMAIN m.table \ {m.inverse[f]} /\ \A z \in DOMAIN t : t[z] = m.table[z]
  BY DEF Lacks
<1>4. /\ IsMap(n.table) /\ DOMAIN n.table = DOMAIN t \cup {v} /\ n.table[v] = f
      /\ \A w \in DOMAIN t : w # v => n.table[w] = t[w]
  BY DEF Extends
<1>5. /\ v \in DOMAIN n.table /\ DOMAIN n.table \subseteq DOMAIN m.table \cup {v}
      /\ \A w \in DOMAIN n.table : w # v => n.table[w] = m.table[w]
  BY <1>3, <1>4
<1>6. /\ IsMap(n.inverse) /\ DOMAIN n.inverse = DOMAIN m.inverse \cup {f} /\ n.inverse[f] = v
      /\ f \in DOMAIN n.inverse
      /\ \A g \in DOMAIN m.inverse : g # f => n.inverse[g] = m.inverse[g]
  BY DEF Extends
<1>7. /\ IsMap(n.stlb) /\ DOMAIN n.stlb \subseteq DOMAIN m.stlb
      /\ \A w \in DOMAIN n.stlb : n.stlb[w] = m.stlb[w]
  BY DEF Lacks
<1>8. Given(m, n, v, f)
  BY <1>2, <1>4, <1>5, <1>6, <1>7 DEF Given
<1>9. DOMAIN n.table = (DOMAIN m.table \ {m.inverse[f]}) \cup {v}
  BY <1>3, <1>4
<1>. QED
  BY <1>8, <1>9 DEF Swapped

LEMMA VaToPaGives ==
    ASSUME NEW m, IsMapping(m), FramesOk(m), IsMap(m.stlb), NEW v, v \notin DOMAIN m.table
    PROVE  \E f : Fresh(m, VaToPa(m, v), v, f) \/ Swapped(m, VaToPa(m, v), v, f)
<1>1. PICK k \in 0..DramPages : DOMAIN m.inverse = 1..k
  BY DEF FramesOk
<1>2. k \in Nat /\ Cardinality(DOMAIN m.inverse) = k /\ FreshFrame(m.inverse) = k + 1
  BY <1>1, FrameCount, Sizes
<1>. DEFINE n == VaToPa(m, v)
<1>3. CASE k < DramPages
  <2>1. FreshResult(n, m, v, k + 1)
    BY <1>2, <1>3, Sizes DEF VaToPa, FreshResult
  <2>. HIDE DEF n
  <2>5. /\ IsMapping(n) /\ n.tree = m.tree /\ n.created = m.created /\ n.stlb = m.stlb
        /\ n.table = With(m.table, v, k + 1) /\ n.inverse = With(m.inverse, k + 1, v)
    BY <2>1, FreshFields
  <2>6. Extends(n.table, m.table, v, k + 1)
    BY <2>5, WithExtends
  <2>2. Extends(n.inverse, m.inverse, k + 1, v)
    BY <2>5, WithExtends
  <2>3. k \in 0..(DramPages - 1)
    BY <1>3, Sizes
  <2>4. Fresh(m, n, v, k + 1)
    BY <1>1, <2>5, <2>6, <2>2, <2>3, FreshGives
  <2>. QED
    BY <2>4 DEF n
<1>4. CASE k = DramPages
  <2>1. DOMAIN m.table # {} /\ DOMAIN m.table \subseteq Nat
    <3>1. 1 \in DOMAIN m.inverse
      BY <1>1, <1>4, Sizes
    <3>2. DOMAIN m.table \subseteq Nat
      BY VpagesAreNat
    <3>. QED
      BY <3>1, <3>2 DEF FramesOk
  <2>. DEFINE victim == NruPage(m.table)
              f == m.table[victim]
  <2>2. victim \in DOMAIN m.table /\ \A w \in DOMAIN m.table : victim <= w
    BY <2>1, NruIs
  <2>3. SwapResult(n, m, v, f, victim)
    BY <1>2, <1>4, Sizes DEF VaToPa, SwapResult
  <2>. HIDE DEF victim
  <2>4. f \in DOMAIN m.inverse /\ m.inverse[f] = victim /\ IsMap(m.inverse)
    BY <2>2 DEF FramesOk
  <2>. HIDE DEF f, n
  <2>5. /\ IsMapping(n) /\ n.tree = m.tree /\ n.created = m.created
        /\ n.stlb = Without(m.stlb, victim)
        /\ n.table = With(Without(m.table, victim), v, f)
        /\ Updates(n.inverse, m.inverse, f, v)
    BY <2>3, SwapFields
  <2>6. Lacks(n.stlb, m.stlb, victim)
    BY <2>5, WithoutLacks
  <2>7. Extends(n.inverse, m.inverse, f, v)
    BY <2>4, <2>5 DEF Extends, IsMap, Updates
  <2>8. Lacks(Without(m.table, victim), m.table, victim)
    BY WithoutLacks
  <2>9. Extends(n.table, Without(m.table, victim), v, f)
    BY <2>5, WithExtends
  <2>10. Swapped(m, n, v, f)
    BY <1>1, <1>4, <2>2, <2>4, <2>5, <2>6, <2>7, <2>8, <2>9, SwapGives
  <2>. QED
    BY <2>10 DEF n
<1>. QED
  BY <1>1, <1>3, <1>4, Sizes

\* Frames stay right when a page that has none gets one.
LEMMA GivenFrames ==
    ASSUME NEW m, FramesOk(m), NEW v, v \notin DOMAIN m.table, NEW c \in Nat,
           m.created <= c, v \in Vpages(c),
           NEW n, NEW f, Fresh(m, n, v, f) \/ Swapped(m, n, v, f)
    PROVE  /\ \E k \in 0..DramPages : DOMAIN n.inverse = 1..k
           /\ DOMAIN n.table \subseteq Vpages(c)
           /\ \A w \in DOMAIN n.table : n.table[w] \in DOMAIN n.inverse /\ n.inverse[n.table[w]] = w
           /\ \A g \in DOMAIN n.inverse : n.inverse[g] \in DOMAIN n.table /\ n.table[n.inverse[g]] = g
<1>0. Given(m, n, v, f)
  BY DEF Fresh, Swapped
<1>1. \E k \in 0..DramPages : DOMAIN n.inverse = 1..k
  <2>1. CASE Fresh(m, n, v, f)
    <3>1. PICK k \in 0..(DramPages - 1) : f = k + 1 /\ DOMAIN m.inverse = 1..k
      BY <2>1 DEF Fresh
    <3>2. k + 1 \in 0..DramPages /\ (1..k) \cup {k + 1} = 1..(k + 1)
      BY Sizes
    <3>. QED
      BY <1>0, <3>1, <3>2 DEF Given
  <2>2. CASE Swapped(m, n, v, f)
    <3>1. DOMAIN n.inverse = 1..DramPages
      BY <1>0, <2>2 DEF Swapped, Given
    <3>. QED
      BY <3>1, Sizes
  <2>. QED
    BY <2>1, <2>2
<1>2. DOMAIN n.table \subseteq Vpages(c)
  <2>1. m.created \in Nat /\ DOMAIN m.table \subseteq Vpages(m.created)
    BY DEF FramesOk
  <2>2. Vpages(m.created) \subseteq Vpages(c)
    BY <2>1, Sizes DEF Vpages
  <2>. QED
    BY <1>0, <2>1, <2>2 DEF Given
<1>3. \A w \in DOMAIN m.table : m.table[w] \in DOMAIN m.inverse /\ m.inverse[m.table[w]] = w
  BY DEF FramesOk
<1>4. \A g \in DOMAIN m.inverse : m.inverse[g] \in DOMAIN m.table /\ m.table[m.inverse[g]] = g
  BY DEF FramesOk
<1>5. ASSUME NEW w \in DOMAIN n.table
      PROVE  n.table[w] \in DOMAIN n.inverse /\ n.inverse[n.table[w]] = w
  <2>1. CASE w = v
    BY <1>0, <2>1 DEF Given
  <2>2. CASE w # v
    <3>1. w \in DOMAIN m.table /\ n.table[w] = m.table[w]
      BY <1>0, <2>2 DEF Given
    <3>2. m.table[w] # f
      <4>1. CASE Fresh(m, n, v, f)
        BY <1>3, <3>1, <4>1 DEF Fresh
      <4>2. CASE Swapped(m, n, v, f)
        BY <1>3, <2>2, <3>1, <4>2 DEF Swapped
      <4>. QED
        BY <4>1, <4>2
    <3>. QED
      BY <1>0, <1>3, <3>1, <3>2 DEF Given
  <2>. QED
    BY <2>1, <2>2
<1>6. ASSUME NEW g \in DOMAIN n.inverse
      PROVE  n.inverse[g] \in DOMAIN n.table /\ n.table[n.inverse[g]] = g
  <2>1. CASE g = f
    BY <1>0, <2>1 DEF Given
  <2>2. CASE g # f
    <3>1. g \in DOMAIN m.inverse /\ n.inverse[g] = m.inverse[g]
      BY <1>0, <2>2 DEF Given
    <3>2. m.inverse[g] \in DOMAIN m.table /\ m.table[m.inverse[g]] = g /\ m.inverse[g] # v
      BY <1>4, <3>1
    <3>3. m.inverse[g] \in DOMAIN n.table
      <4>1. CASE Fresh(m, n, v, f)
        BY <3>2, <4>1 DEF Fresh
      <4>2. CASE Swapped(m, n, v, f)
        BY <1>4, <2>2, <3>2, <4>2 DEF Swapped
      <4>. QED
        BY <4>1, <4>2
    <3>. QED
      BY <1>0, <3>1, <3>2, <3>3 DEF Given
  <2>. QED
    BY <2>1, <2>2
<1>. QED
  BY <1>1, <1>2, <1>5, <1>6

-----------------------------------------------------------------------------
(* A page gets a frame and an entry that names it.                           *)

Grows(t, s) == \A p \in DOMAIN t : p \in DOMAIN s /\ s[p] = t[p]

\* From n to r: entry p names frame f, and c translation pages were mapped.
Entered(r, n, p, f, c) ==
    /\ IsMapping(r) /\ r.created = c
    /\ r.table = n.table /\ r.inverse = n.inverse /\ r.stlb = n.stlb
    /\ Extends(r.tree, n.tree, p, f)

LEMMA IndexIsPage ==
    ASSUME NEW v \in Page, NEW u \in Page, At(u, 1) = At(v, 1)
    PROVE  u = v
<1>1. Index(u, 1) = Index(v, 1)
  BY DEF At
<1>2. Index(u, 1) = u
  BY IndexStep
<1>3. Index(v, 1) = v
  BY IndexStep
<1>. QED
  BY <1>1, <1>2, <1>3

LEMMA EnteredGrows ==
    ASSUME NEW m, NEW x, NEW n, NEW f, Given(m, n, x, f), NEW p, p \notin DOMAIN m.tree,
           NEW r, NEW c, Entered(r, n, p, f, c)
    PROVE  Grows(m.tree, r.tree) /\ DOMAIN r.tree = DOMAIN m.tree \cup {p} /\ r.tree[p] = f
  BY DEF Grows, Entered, Given, Extends

LEMMA EnteredTree ==
    ASSUME NEW m, MapOk(m), NEW x, NEW n, NEW f, Given(m, n, x, f),
           NEW v \in Page, NEW i \in 1..Levels, (i = 1 /\ x = v) \/ (i # 1 /\ x \notin Page),
           At(v, i) \notin DOMAIN m.tree, i < Levels => At(v, i + 1) \in DOMAIN m.tree,
           NEW r, NEW c, Entered(r, n, At(v, i), f, c)
    PROVE  TreeOk(r)
<1>1. /\ DOMAIN r.tree = DOMAIN m.tree \cup {At(v, i)} /\ r.tree[At(v, i)] = f
      /\ \A p \in DOMAIN m.tree : r.tree[p] = m.tree[p]
  BY EnteredGrows DEF Grows
<1>2. IsMap(r.tree)
  BY DEF Entered, Extends
<1>3. \A p \in DOMAIN r.tree : r.tree[p] \in Nat \ {0}
  BY <1>1 DEF MapOk, TreeOk, Given
<1>4. ASSUME NEW u \in Page, NEW k \in 1..(Levels - 1), At(u, k) \in DOMAIN r.tree
      PROVE  At(u, k + 1) \in DOMAIN r.tree
  <2>1. CASE At(u, k) \in DOMAIN m.tree
    BY <1>1, <2>1 DEF MapOk, TreeOk
  <2>2. CASE At(u, k) = At(v, i)
    <3>1. k = i /\ Index(u, k) = Index(v, k)
      BY <2>2 DEF At
    <3>2. Index(u, k + 1) = Index(v, k + 1)
      BY <3>1, SharedAbove
    <3>3. i < Levels
      BY <3>1, Sizes
    <3>. QED
      BY <1>1, <3>1, <3>2, <3>3 DEF At
  <2>. QED
    BY <1>1, <1>4, <2>1, <2>2
<1>5. ASSUME NEW u \in DOMAIN r.table \cap Page
      PROVE  At(u, 1) \in DOMAIN r.tree /\ r.tree[At(u, 1)] = r.table[u]
  <2>1. CASE u = x
    <3>1. i = 1 /\ x = v /\ r.table[x] = f
      BY <2>1 DEF Entered, Given
    <3>. QED
      BY <1>1, <2>1, <3>1
  <2>2. CASE u # x
    <3>1. u \in DOMAIN m.table /\ r.table[u] = m.table[u]
      BY <2>2 DEF Entered, Given
    <3>2. At(u, 1) \in DOMAIN m.tree /\ m.tree[At(u, 1)] = m.table[u]
      BY <3>1 DEF MapOk, TreeOk
    <3>. QED
      BY <1>1, <3>1, <3>2
  <2>. QED
    BY <2>1, <2>2
<1>. QED
  BY <1>2, <1>3, <1>4, <1>5 DEF TreeOk

LEMMA EnteredStlb ==
    ASSUME NEW m, MapOk(m), NEW x, NEW n, NEW f, Given(m, n, x, f),
           NEW p, p \notin DOMAIN m.tree, NEW r, NEW c, Entered(r, n, p, f, c)
    PROVE  StlbOk(r)
<1>1. \A q \in DOMAIN m.tree : q \in DOMAIN r.tree /\ r.tree[q] = m.tree[q]
  BY EnteredGrows DEF Grows
<1>2. /\ IsMap(r.stlb) /\ DOMAIN r.stlb \subseteq DOMAIN m.stlb
      /\ \A w \in DOMAIN r.stlb : r.stlb[w] = m.stlb[w]
  BY DEF Entered, Given
<1>3. /\ DOMAIN m.stlb \subseteq Page
      /\ \A w \in DOMAIN m.stlb : At(w, 1) \in DOMAIN m.tree /\ m.stlb[w] = m.tree[At(w, 1)]
  BY DEF MapOk, StlbOk
<1>. QED
  BY <1>1, <1>2, <1>3 DEF StlbOk

LEMMA EnteredFrames ==
    ASSUME NEW m, FramesOk(m), NEW x, x \notin DOMAIN m.table,
           NEW n, NEW f, Fresh(m, n, x, f) \/ Swapped(m, n, x, f),
           NEW c \in Nat, m.created <= c, x \in Vpages(c), NEW p, NEW r, Entered(r, n, p, f, c)
    PROVE  FramesOk(r)
<1>1. IsMap(n.table) /\ IsMap(n.inverse)
  BY DEF Fresh, Swapped, Given
<1>2. r.created = c /\ r.table = n.table /\ r.inverse = n.inverse
  BY DEF Entered
<1>3. /\ \E k \in 0..DramPages : DOMAIN n.inverse = 1..k
      /\ DOMAIN n.table \subseteq Vpages(c)
      /\ \A w \in DOMAIN n.table : n.table[w] \in DOMAIN n.inverse /\ n.inverse[n.table[w]] = w
      /\ \A g \in DOMAIN n.inverse : n.inverse[g] \in DOMAIN n.table /\ n.table[n.inverse[g]] = g
  BY GivenFrames
<1>. QED
  BY <1>1, <1>2, <1>3 DEF FramesOk

LEMMA EnteredOk ==
    ASSUME NEW m, MapOk(m), NEW x, x \notin DOMAIN m.table,
           NEW n, NEW f, Fresh(m, n, x, f) \/ Swapped(m, n, x, f),
           NEW c \in Nat, m.created <= c, x \in Vpages(c),
           NEW v \in Page, NEW i \in 1..Levels, (i = 1 /\ x = v) \/ (i # 1 /\ x \notin Page),
           At(v, i) \notin DOMAIN m.tree, i < Levels => At(v, i + 1) \in DOMAIN m.tree,
           NEW r, Entered(r, n, At(v, i), f, c)
    PROVE  MapOk(r)
<1>1. Given(m, n, x, f) /\ FramesOk(m)
  BY DEF Fresh, Swapped, MapOk
<1>2. FramesOk(r)
  BY <1>1, EnteredFrames
<1>3. TreeOk(r)
  BY <1>1, EnteredTree
<1>4. StlbOk(r)
  BY <1>1, EnteredStlb
<1>5. IsMapping(r)
  BY DEF Entered
<1>. QED
  BY <1>2, <1>3, <1>4, <1>5 DEF MapOk

-----------------------------------------------------------------------------
(* Who has the frames after a page got one.                                  *)

LEMMA UsedGrows ==
    ASSUME NEW m, NEW r, Grows(m.tree, r.tree), NEW g, Used(m, g)
    PROVE  Used(r, g)
  BY DEF Used, Grows

LEMMA OwnerKept ==
    ASSUME NEW m, NEW x, NEW n, NEW f, Given(m, n, x, f), NEW p, NEW r, NEW c,
           Entered(r, n, p, f, c)
    PROVE  /\ f \in DOMAIN r.inverse /\ r.inverse[f] = x
           /\ \A g \in DOMAIN m.inverse : g \in DOMAIN r.inverse /\ (g # f => r.inverse[g] = m.inverse[g])
  BY DEF Given, Entered

\* What is taken stays taken, when the page is a translation page.
LEMMA TakenKept ==
    ASSUME NEW m, NEW x, NEW n, NEW f, Given(m, n, x, f), NEW p, p \notin DOMAIN m.tree,
           NEW r, NEW c, Entered(r, n, p, f, c),
           NEW o \in Nat, x \in Nat, x >= Translation0 + o, Taken(m, o)
    PROVE  Taken(r, o)
<1>1. PICK g \in DOMAIN m.inverse : m.inverse[g] >= Translation0 + o /\ Used(m, g)
  BY DEF Taken
<1>2. Grows(m.tree, r.tree)
  BY EnteredGrows
<1>3. Used(r, g)
  BY <1>1, <1>2, UsedGrows
<1>4. g \in DOMAIN r.inverse /\ r.inverse[g] >= Translation0 + o
  BY <1>1, OwnerKept
<1>. QED
  BY <1>3, <1>4 DEF Taken

\* The page that a swap takes from the program.
LEMMA VictimOfProgram ==
    ASSUME NEW m, MapOk(m), Populated(m), NEW n, NEW x, NEW f, Swapped(m, n, x, f)
    PROVE  f \in DOMAIN m.inverse /\ m.inverse[f] \in Page /\ Used(m, f)
<1>1. f \in DOMAIN m.inverse /\ \A w \in DOMAIN m.table : m.inverse[f] <= w
  BY DEF Swapped
<1>2. m.inverse[f] \in DOMAIN m.table /\ m.table[m.inverse[f]] = f
  BY <1>1 DEF MapOk, FramesOk
<1>3. PICK u \in Page : u \in DOMAIN m.table
  BY DEF Populated
<1>4. m.inverse[f] <= u /\ u < Translation0 /\ u \in Nat
  BY <1>1, <1>3, Sizes
<1>5. m.created \in Nat /\ m.inverse[f] \in Page \cup (Translation0..(Translation0 + m.created - 1))
  BY <1>2 DEF MapOk, FramesOk, Vpages
<1>6. m.inverse[f] \in Page
  BY <1>4, <1>5, Sizes
<1>7. At(m.inverse[f], 1) \in DOMAIN m.tree /\ m.tree[At(m.inverse[f], 1)] = f
  BY <1>2, <1>6 DEF MapOk, TreeOk
<1>. QED
  BY <1>1, <1>6, <1>7 DEF Used

LEMMA TakenBySwap ==
    ASSUME NEW m, MapOk(m), Populated(m), NEW n, NEW x, NEW f, Swapped(m, n, x, f),
           NEW p, p \notin DOMAIN m.tree, NEW r, NEW c, Entered(r, n, p, f, c),
           NEW o \in Nat, x \in Nat, x >= Translation0 + o
    PROVE  Taken(r, o)
<1>1. Given(m, n, x, f)
  BY DEF Swapped
<1>2. Used(m, f)
  BY VictimOfProgram
<1>3. Grows(m.tree, r.tree)
  BY <1>1, EnteredGrows
<1>4. Used(r, f)
  BY <1>2, <1>3, UsedGrows
<1>5. f \in DOMAIN r.inverse /\ r.inverse[f] = x
  BY <1>1, OwnerKept
<1>. QED
  BY <1>4, <1>5 DEF Taken

\* All translation pages keep their frames, when nobody or a page of the
\* program loses one.
LEMMA IntactKept ==
    ASSUME NEW m, NEW base, Intact(m, base), NEW x, NEW n, NEW f, Given(m, n, x, f),
           f \in DOMAIN m.inverse => m.inverse[f] \in Page,
           NEW p, p \notin DOMAIN m.tree, p[1] # 1 => x >= Translation0,
           NEW r, NEW c, Entered(r, n, p, f, c)
    PROVE  Intact(r, base)
<1>1. /\ f \in DOMAIN r.inverse /\ r.inverse[f] = x
      /\ \A g \in DOMAIN m.inverse : g \in DOMAIN r.inverse /\ (g # f => r.inverse[g] = m.inverse[g])
  BY OwnerKept
<1>2. ASSUME NEW g, OfTranslation(m, g) PROVE OfTranslation(r, g)
  <2>1. g \in DOMAIN m.inverse /\ m.inverse[g] >= Translation0
    BY <1>2 DEF OfTranslation
  <2>2. g # f
    <3>1. ASSUME g = f PROVE FALSE
      <4>1. m.inverse[g] \in Page
        BY <2>1, <3>1
      <4>2. \A u \in Page : u \in Nat /\ Translation0 \in Nat /\ u < Translation0 /\ ~(u >= Translation0)
        BY Sizes
      <4>. QED
        BY <2>1, <4>1, <4>2
    <3>. QED
      BY <3>1
  <2>. QED
    BY <1>1, <2>1, <2>2 DEF OfTranslation
<1>3. /\ DOMAIN r.tree = DOMAIN m.tree \cup {p} /\ r.tree[p] = f
      /\ \A q \in DOMAIN m.tree : r.tree[q] = m.tree[q]
  BY EnteredGrows DEF Grows
<1>4. ASSUME NEW q \in DOMAIN r.tree, q[1] # 1 PROVE OfTranslation(r, r.tree[q])
  <2>1. CASE q \in DOMAIN m.tree
    <3>1. OfTranslation(m, m.tree[q])
      BY <1>4, <2>1 DEF Intact
    <3>. QED
      BY <1>2, <1>3, <2>1, <3>1
  <2>2. CASE q = p
    BY <1>1, <1>3, <1>4, <2>2 DEF OfTranslation
  <2>. QED
    BY <1>3, <2>1, <2>2
<1>5. base # NoFrame => OfTranslation(r, base)
  BY <1>2 DEF Intact
<1>. QED
  BY <1>4, <1>5 DEF Intact

\* Program pages do not go when the next frame is free.
LEMMA PopulatedKept ==
    ASSUME NEW m, Populated(m), NEW x, NEW n, NEW f, Fresh(m, n, x, f),
           NEW p, NEW r, NEW c, Entered(r, n, p, f, c)
    PROVE  Populated(r)
  BY DEF Populated, Fresh, Entered

\* A data page takes its frame from no page of the program only if all pages
\* that have a frame are younger than translation page o; that are too few.
LEMMA TakenByData ==
    ASSUME NEW m, MapOk(m), NEW n, NEW x \in Page, NEW f,
           Swapped(m, n, x, f) \/ Fresh(m, n, x, f),
           NEW p, p \notin DOMAIN m.tree, NEW r, NEW c, Entered(r, n, p, f, c),
           NEW o \in Nat, Taken(m, o), m.created < o + Levels
    PROVE  Taken(r, 0)
<1>1. PICK g \in DOMAIN m.inverse : m.inverse[g] >= Translation0 + o /\ Used(m, g)
  BY DEF Taken
<1>0. Given(m, n, x, f)
  BY DEF Swapped, Fresh
<1>2. Grows(m.tree, r.tree)
  BY <1>0, EnteredGrows
<1>3. Used(r, g)
  BY <1>1, <1>2, UsedGrows
<1>4. CASE g # f
  <2>1. g \in DOMAIN r.inverse /\ r.inverse[g] = m.inverse[g]
    BY <1>0, <1>1, <1>4, OwnerKept
  <2>2. r.inverse[g] \in Nat
    <3>1. m.inverse[g] \in DOMAIN m.table /\ DOMAIN m.table \subseteq Nat
      BY <1>1, VpagesAreNat DEF MapOk, FramesOk
    <3>. QED
      BY <2>1, <3>1
  <2>3. r.inverse[g] >= Translation0 + 0
    BY <1>1, <2>1, <2>2, Sizes
  <2>. QED
    BY <1>3, <2>1, <2>3 DEF Taken
<1>5. CASE g = f
  <2>1. Swapped(m, n, x, f)
    BY <1>1, <1>5 DEF Fresh
  <2>. DEFINE S == (Translation0 + o)..(Translation0 + m.created - 1)
  <2>2. \A w \in DOMAIN m.table : w \in S
    <3>1. m.created \in Nat /\ DOMAIN m.table \subseteq Page \cup (Translation0..(Translation0 + m.created - 1))
      BY DEF MapOk, FramesOk, Vpages
    <3>2. \A w \in DOMAIN m.table : m.inverse[f] <= w
      BY <2>1 DEF Swapped
    <3>3. m.inverse[f] \in DOMAIN m.table /\ DOMAIN m.table \subseteq Nat
      BY <1>1, <1>5, VpagesAreNat DEF MapOk, FramesOk
    <3>. SUFFICES ASSUME NEW w \in DOMAIN m.table PROVE w \in S
      OBVIOUS
    <3>4. w \in Nat /\ w >= Translation0 + o
      BY <1>1, <1>5, <3>2, <3>3, Sizes
    <3>. QED
      BY <3>1, <3>4, Sizes
  <2>3. DOMAIN m.inverse = 1..DramPages
    BY <2>1 DEF Swapped
  <2>4. m.inverse \in [1..DramPages -> S]
    <3>1. \A h \in 1..DramPages : m.inverse[h] \in S
      BY <2>2, <2>3 DEF MapOk, FramesOk
    <3>2. IsMap(m.inverse)
      BY DEF MapOk, FramesOk
    <3>. QED
      BY <2>3, <3>1, <3>2 DEF IsMap
  <2>5. \A h, k \in 1..DramPages : m.inverse[h] = m.inverse[k] => h = k
    <3>1. \A h \in 1..DramPages : m.table[m.inverse[h]] = h
      BY <2>3 DEF MapOk, FramesOk
    <3>. QED
      BY <3>1
  <2>6. m.inverse \in Injection(1..DramPages, S)
    BY <2>4, <2>5 DEF Injection, IsInjective
  <2>7. m.created \in Nat
    BY DEF MapOk, FramesOk
  <2>8. IsFiniteSet(S) /\ Cardinality(S) < Levels
    <3>. PICK a \in Int, b \in Int : a = Translation0 + o /\ b = Translation0 + m.created - 1
      BY <2>7, Sizes
    <3>1. IsFiniteSet(a..b) /\ Cardinality(a..b) = IF a > b THEN 0 ELSE b - a + 1
      BY FS_Interval
    <3>2. Cardinality(a..b) < Levels
      BY <2>7, <3>1, Sizes
    <3>. QED
      BY <3>1, <3>2
  <2>9. Cardinality(1..DramPages) <= Cardinality(S)
    BY <2>6, <2>8, FS_Injection
  <2>10. Cardinality(1..DramPages) = DramPages /\ Cardinality(S) \in Nat
    BY <2>8, CountUp, FS_CardinalityType, Sizes
  <2>. QED
    BY <2>8, <2>9, <2>10, Sizes
<1>. QED
  BY <1>4, <1>5

-----------------------------------------------------------------------------
(* handle_page_fault.                                                        *)

TranslationResult(r, n, p, f) == r = [n EXCEPT !.tree = With(@, p, f), !.created = @ + 1]
DataResult(r, n, p, f) == r = [n EXCEPT !.tree = With(@, p, f)]

LEMMA TranslationFields ==
    ASSUME NEW n, IsMapping(n), NEW p, NEW f, NEW r, TranslationResult(r, n, p, f)
    PROVE  Entered(r, n, p, f, n.created + 1)
<1>1. /\ IsMapping(r) /\ r.created = n.created + 1
      /\ r.table = n.table /\ r.inverse = n.inverse /\ r.stlb = n.stlb
      /\ r.tree = With(n.tree, p, f)
  BY DEF IsMapping, TranslationResult
<1>2. Extends(r.tree, n.tree, p, f)
  BY <1>1, WithExtends
<1>. QED
  BY <1>1, <1>2 DEF Entered

LEMMA DataFields ==
    ASSUME NEW n, IsMapping(n), NEW p, NEW f, NEW r, DataResult(r, n, p, f)
    PROVE  Entered(r, n, p, f, n.created)
<1>1. /\ IsMapping(r) /\ r.created = n.created
      /\ r.table = n.table /\ r.inverse = n.inverse /\ r.stlb = n.stlb
      /\ r.tree = With(n.tree, p, f)
  BY DEF IsMapping, DataResult
<1>2. Extends(r.tree, n.tree, p, f)
  BY <1>1, WithExtends
<1>. QED
  BY <1>1, <1>2 DEF Entered

LEMMA MapTranslationPageGives ==
    ASSUME NEW m, MapOk(m), NEW v, NEW i
    PROVE  LET x == Translation0 + m.created IN
           /\ x \in Nat /\ x \notin DOMAIN m.table /\ x \notin Page /\ x \in Vpages(m.created + 1)
           /\ \E n, f : /\ Fresh(m, n, x, f) \/ Swapped(m, n, x, f)
                        /\ Entered(MapTranslationPage(m, v, i), n, At(v, i), f, m.created + 1)
<1>. DEFINE x == Translation0 + m.created
            n == VaToPa(m, x)
            r == MapTranslationPage(m, v, i)
<1>1. IsMapping(m) /\ FramesOk(m) /\ IsMap(m.stlb) /\ m.created \in Nat
  BY DEF MapOk, StlbOk, FramesOk
<1>2. x \in Nat /\ x \notin Page
  BY <1>1, Sizes
<1>3. x \in Vpages(m.created + 1)
  BY <1>1, Sizes DEF Vpages
<1>4. x \notin DOMAIN m.table
  <2>1. DOMAIN m.table \subseteq Page \cup (Translation0..(Translation0 + m.created - 1))
    BY DEF MapOk, FramesOk, Vpages
  <2>2. x \notin Translation0..(Translation0 + m.created - 1)
    BY <1>1, Sizes
  <2>. QED
    BY <1>2, <2>1, <2>2
<1>5. r = [n EXCEPT !.tree = With(@, <<i, Index(v, i)>>, n.table[x]), !.created = @ + 1]
  BY DEF MapTranslationPage
<1>. HIDE DEF r, n, x
<1>6. PICK f : Fresh(m, n, x, f) \/ Swapped(m, n, x, f)
  BY <1>1, <1>4, VaToPaGives DEF n
<1>7. IsMapping(n) /\ n.created = m.created /\ n.table[x] = f
  BY <1>6 DEF Fresh, Swapped, Given
<1>8. TranslationResult(r, n, At(v, i), f)
  BY <1>5, <1>7 DEF TranslationResult, At
<1>9. Entered(r, n, At(v, i), f, n.created + 1)
  BY <1>7, <1>8, TranslationFields
<1>10. Entered(r, n, At(v, i), f, m.created + 1)
  BY <1>7, <1>9
<1>. QED
  BY <1>2, <1>3, <1>4, <1>6, <1>10 DEF r, x

LEMMA MapDataPageGives ==
    ASSUME NEW m, MapOk(m), NEW v, v \notin DOMAIN m.table
    PROVE  \E n, f : /\ Fresh(m, n, v, f) \/ Swapped(m, n, v, f)
                     /\ Entered(MapDataPage(m, v), n, At(v, 1), f, m.created)
<1>. DEFINE n == VaToPa(m, v)
            r == MapDataPage(m, v)
<1>1. IsMapping(m) /\ FramesOk(m) /\ IsMap(m.stlb)
  BY DEF MapOk, StlbOk
<1>2. r = [n EXCEPT !.tree = With(@, <<1, Index(v, 1)>>, n.table[v])]
  BY DEF MapDataPage
<1>. HIDE DEF r, n
<1>3. PICK f : Fresh(m, n, v, f) \/ Swapped(m, n, v, f)
  BY <1>1, VaToPaGives DEF n
<1>4. IsMapping(n) /\ n.created = m.created /\ n.table[v] = f
  BY <1>3 DEF Fresh, Swapped, Given
<1>5. DataResult(r, n, At(v, 1), f)
  BY <1>2, <1>4 DEF DataResult, At
<1>6. Entered(r, n, At(v, 1), f, n.created)
  BY <1>4, <1>5, DataFields
<1>7. Entered(r, n, At(v, 1), f, m.created)
  BY <1>4, <1>6
<1>. QED
  BY <1>3, <1>7 DEF r

LEMMA TakenWeaker ==
    ASSUME NEW m, FramesOk(m), NEW o \in Nat, Taken(m, o)
    PROVE  Taken(m, 0)
<1>1. PICK g \in DOMAIN m.inverse : m.inverse[g] >= Translation0 + o /\ Used(m, g)
  BY DEF Taken
<1>2. m.inverse[g] \in DOMAIN m.table /\ DOMAIN m.table \subseteq Nat
  BY <1>1, VpagesAreNat DEF FramesOk
<1>3. m.inverse[g] \in Nat
  BY <1>2
<1>4. m.inverse[g] >= Translation0 + 0
  BY <1>1, <1>3, Sizes
<1>. QED
  BY <1>1, <1>4 DEF Taken

LEMMA GrowsOn ==
    ASSUME NEW t, NEW s, Grows(t, s), NEW u, Grows(s, u)
    PROVE  Grows(t, u)
  BY DEF Grows

\* The frames in use, before and after the next one is given away.
LEMMA FreshCount ==
    ASSUME NEW m, NEW n, NEW x, NEW f, Fresh(m, n, x, f)
    PROVE  \E k \in Nat : Cardinality(DOMAIN m.inverse) = k /\ Cardinality(DOMAIN n.inverse) = k + 1
<1>1. PICK k \in 0..(DramPages - 1) : f = k + 1 /\ DOMAIN m.inverse = 1..k
  BY DEF Fresh
<1>2. DOMAIN n.inverse = (1..k) \cup {k + 1}
  BY <1>1 DEF Fresh, Given
<1>3. (1..k) \cup {k + 1} = 1..(k + 1) /\ k \in Nat /\ k + 1 \in Nat
  BY Sizes
<1>4. Cardinality(1..k) = k
  BY <1>3, CountUp
<1>5. Cardinality(1..(k + 1)) = k + 1
  BY <1>3, CountUp
<1>. QED
  BY <1>1, <1>2, <1>3, <1>4, <1>5

\* A page of the program has a frame, or a translation page of this fault took
\* one from the program, or there is room: the first fault with its root.
Room(m, n) == m.created = 1 /\ Cardinality(DOMAIN n.inverse) <= n.created
Victims(m, n) == Populated(n) \/ Taken(n, m.created) \/ Room(m, n)

\* The fault of page v at level i of mapping m, after j translation pages.
Faulting(m, n, v, i, j, base) ==
    /\ MapOk(n) /\ n.created = m.created + j /\ Grows(m.tree, n.tree)
    /\ SwapOk(n, base) /\ Victims(m, n)
    /\ \A k \in 1..Levels : At(v, k) \in DOMAIN n.tree <=> k > i - j

LEMMA SwapNeedsFrames ==
    ASSUME NEW m, m.created \in Nat, NEW n, n.created <= Levels, n.created \in Nat, Room(m, n),
           NEW q, NEW x, NEW f, Swapped(n, q, x, f)
    PROVE  FALSE
<1>1. DOMAIN n.inverse = 1..DramPages
  BY DEF Swapped
<1>2. Cardinality(DOMAIN n.inverse) = DramPages
  BY <1>1, CountUp, Sizes
<1>. QED
  BY <1>2, Sizes DEF Room

LEMMA VictimsKept ==
    ASSUME NEW m, m.created \in Nat, NEW n, MapOk(n), n.created >= m.created, n.created <= Levels \/ ~Room(m, n),
           Victims(m, n), NEW x \in Nat, x = Translation0 + n.created,
           NEW q, NEW f, Fresh(n, q, x, f) \/ Swapped(n, q, x, f),
           NEW p, p \notin DOMAIN n.tree, NEW r, Entered(r, q, p, f, n.created + 1)
    PROVE  Victims(m, r) /\ (Swapped(n, q, x, f) => Taken(r, m.created))
<1>0. n.created \in Nat /\ Given(n, q, x, f) /\ x >= Translation0 + m.created
  BY Sizes DEF MapOk, FramesOk, Fresh, Swapped
<1>1. CASE Taken(n, m.created)
  <2>1. Taken(r, m.created)
    BY <1>0, <1>1, TakenKept
  <2>. QED
    BY <2>1 DEF Victims
<1>2. CASE Swapped(n, q, x, f) /\ Populated(n)
  <2>1. Taken(r, m.created)
    BY <1>0, <1>2, TakenBySwap
  <2>. QED
    BY <2>1 DEF Victims
<1>3. CASE Swapped(n, q, x, f) /\ Room(m, n)
  BY <1>0, <1>3, SwapNeedsFrames
<1>4. CASE ~Swapped(n, q, x, f) /\ Populated(n)
  BY <1>4, PopulatedKept DEF Victims
<1>5. CASE ~Swapped(n, q, x, f) /\ Room(m, n)
  <2>1. PICK k \in Nat : Cardinality(DOMAIN n.inverse) = k /\ Cardinality(DOMAIN q.inverse) = k + 1
    BY <1>5, FreshCount
  <2>2. r.created = n.created + 1 /\ r.inverse = q.inverse
    BY DEF Entered
  <2>3. Room(m, r)
    BY <1>0, <1>5, <2>1, <2>2 DEF Room
  <2>. QED
    BY <1>5, <2>3 DEF Victims
<1>. QED
  BY <1>1, <1>2, <1>3, <1>4, <1>5 DEF Victims

LEMMA SwapOkKept ==
    ASSUME NEW n, MapOk(n), NEW base, SwapOk(n, base), NEW x \in Nat, x >= Translation0,
           NEW q, NEW f, Fresh(n, q, x, f), NEW p, p \notin DOMAIN n.tree,
           NEW r, NEW c, Entered(r, q, p, f, c)
    PROVE  SwapOk(r, base)
<1>0. Given(n, q, x, f) /\ f \notin DOMAIN n.inverse
  BY DEF Fresh
<1>1. CASE Intact(n, base)
  <2>1. Intact(r, base)
    BY <1>0, <1>1, IntactKept
  <2>. QED
    BY <2>1 DEF SwapOk
<1>2. CASE Taken(n, 0)
  <2>1. x >= Translation0 + 0 /\ 0 \in Nat
    BY Sizes
  <2>2. Taken(r, 0)
    BY <1>0, <1>2, <2>1, TakenKept
  <2>. QED
    BY <2>2 DEF SwapOk
<1>. QED
  BY <1>1, <1>2 DEF SwapOk

LEMMA TranslationMapped ==
    ASSUME NEW m, MapOk(m), NEW n, NEW v \in Page, NEW i \in 1..Levels, NEW j \in 0..(i - 2),
           m.created + i <= Levels + 1 \/ ~Room(m, n),
           NEW base, Faulting(m, n, v, i, j, base)
    PROVE  Faulting(m, MapTranslationPage(n, v, i - j), v, i, j + 1, base)
<1>. DEFINE l == i - j
            x == Translation0 + n.created
            r == MapTranslationPage(n, v, l)
<1>1. m.created \in Nat /\ n.created = m.created + j /\ l \in 2..Levels /\ j \in Nat /\ i \in Nat
  BY Sizes DEF MapOk, FramesOk, Faulting
<1>2. MapOk(n) /\ FramesOk(n) /\ n.created \in Nat /\ n.created >= m.created
  BY <1>1 DEF Faulting, MapOk, FramesOk
<1>3. /\ x \in Nat /\ x \notin DOMAIN n.table /\ x \notin Page /\ x \in Vpages(n.created + 1)
      /\ \E q, f : /\ Fresh(n, q, x, f) \/ Swapped(n, q, x, f)
                   /\ Entered(r, q, At(v, l), f, n.created + 1)
  BY <1>2, MapTranslationPageGives
<1>. HIDE DEF r
<1>4. PICK q, f : /\ Fresh(n, q, x, f) \/ Swapped(n, q, x, f)
                  /\ Entered(r, q, At(v, l), f, n.created + 1)
  BY <1>3
<1>5. At(v, l) \notin DOMAIN n.tree /\ (l < Levels => At(v, l + 1) \in DOMAIN n.tree)
  <2>1. l \in 1..Levels /\ ~(l > i - j) /\ (l < Levels => l + 1 \in 1..Levels /\ l + 1 > i - j)
    BY <1>1, Sizes
  <2>. QED
    BY <2>1 DEF Faulting
<1>6. Given(n, q, x, f)
  BY <1>4 DEF Fresh, Swapped
<1>7. MapOk(r)
  <2>1. n.created + 1 \in Nat /\ n.created <= n.created + 1 /\ l \in 1..Levels /\ l # 1
    BY <1>1, <1>2
  <2>. QED
    BY <1>2, <1>3, <1>4, <1>5, <2>1, EnteredOk
<1>8. r.created = m.created + (j + 1)
  BY <1>1, <1>4 DEF Entered
<1>9. /\ Grows(n.tree, r.tree) /\ DOMAIN r.tree = DOMAIN n.tree \cup {At(v, l)}
  BY <1>4, <1>5, <1>6, EnteredGrows
<1>10. Grows(m.tree, r.tree)
  BY <1>9, GrowsOn DEF Faulting
<1>11. \A k \in 1..Levels : At(v, k) \in DOMAIN r.tree <=> k > i - (j + 1)
  <2>. SUFFICES ASSUME NEW k \in 1..Levels
                PROVE  At(v, k) \in DOMAIN r.tree <=> k > i - (j + 1)
    OBVIOUS
  <2>1. At(v, k) = At(v, l) <=> k = l
    BY DEF At
  <2>2. At(v, k) \in DOMAIN n.tree <=> k > i - j
    BY DEF Faulting
  <2>3. At(v, k) \in DOMAIN r.tree <=> k > i - j \/ k = i - j
    BY <1>9, <2>1, <2>2
  <2>. QED
    BY <1>1, <2>3
<1>12. n.created <= Levels \/ ~Room(m, n)
  BY <1>1, Sizes
<1>. HIDE DEF l
<1>13. Victims(m, r) /\ (Swapped(n, q, x, f) => Taken(r, m.created))
  <2>1. Victims(m, n)
    BY DEF Faulting
  <2>. QED
    BY <1>1, <1>2, <1>3, <1>4, <1>5, <1>12, <2>1, VictimsKept
<1>14. SwapOk(r, base)
  <2>1. CASE Swapped(n, q, x, f)
    <3>1. Taken(r, m.created) /\ FramesOk(r)
      BY <1>7, <1>13, <2>1 DEF MapOk
    <3>2. Taken(r, 0)
      BY <1>1, <3>1, TakenWeaker
    <3>. QED
      BY <3>2 DEF SwapOk
  <2>2. CASE Fresh(n, q, x, f)
    <3>1. x >= Translation0 /\ SwapOk(n, base)
      BY <1>2, Sizes DEF Faulting
    <3>. QED
      BY <1>2, <1>3, <1>4, <1>5, <2>2, <3>1, SwapOkKept
  <2>. QED
    BY <1>4, <2>1, <2>2
<1>. QED
  BY <1>7, <1>8, <1>10, <1>11, <1>13, <1>14 DEF Faulting, r, l

\* What a fault leaves: all entries of page v, and a frame for it.
Faulted(m, n, v, base) ==
    /\ MapOk(n) /\ Grows(m.tree, n.tree) /\ SwapOk(n, base) /\ Populated(n)
    /\ \A k \in 1..Levels : At(v, k) \in DOMAIN n.tree

LEMMA DataMapped ==
    ASSUME NEW m, MapOk(m), NEW n, NEW v \in Page, NEW i \in 1..Levels,
           m.created + i <= Levels + 1 \/ ~Room(m, n),
           NEW base, Faulting(m, n, v, i, i - 1, base)
    PROVE  Faulted(m, MapDataPage(n, v), v, base)
<1>. DEFINE r == MapDataPage(n, v)
<1>1. m.created \in Nat /\ n.created = m.created + (i - 1) /\ i \in Nat
  BY Sizes DEF MapOk, FramesOk, Faulting
<1>2. MapOk(n) /\ FramesOk(n) /\ TreeOk(n) /\ n.created \in Nat
  BY DEF Faulting, MapOk, FramesOk
<1>3. At(v, 1) \notin DOMAIN n.tree /\ \A k \in 2..Levels : At(v, k) \in DOMAIN n.tree
  <2>1. 1 \in 1..Levels /\ ~(1 > i - (i - 1)) /\ \A k \in 2..Levels : k \in 1..Levels /\ k > i - (i - 1)
    BY <1>1, Sizes
  <2>. QED
    BY <2>1 DEF Faulting
<1>4. v \notin DOMAIN n.table
  BY <1>2, <1>3 DEF TreeOk
<1>5. PICK q, f : /\ Fresh(n, q, v, f) \/ Swapped(n, q, v, f)
                  /\ Entered(r, q, At(v, 1), f, n.created)
  BY <1>2, <1>4, MapDataPageGives
<1>. HIDE DEF r
<1>6. Given(n, q, v, f)
  BY <1>5 DEF Fresh, Swapped
<1>7. MapOk(r)
  <2>1. /\ n.created <= n.created /\ v \in Vpages(n.created) /\ 1 \in 1..Levels
        /\ 1 < Levels => At(v, 1 + 1) \in DOMAIN n.tree
    BY <1>2, <1>3, Sizes DEF Vpages
  <2>. QED
    BY <1>2, <1>3, <1>4, <1>5, <2>1, EnteredOk
<1>8. /\ Grows(n.tree, r.tree) /\ DOMAIN r.tree = DOMAIN n.tree \cup {At(v, 1)}
  BY <1>3, <1>5, <1>6, EnteredGrows
<1>9. Grows(m.tree, r.tree)
  BY <1>8, GrowsOn DEF Faulting
<1>10. \A k \in 1..Levels : At(v, k) \in DOMAIN r.tree
  <2>1. \A k \in 1..Levels : k = 1 \/ k \in 2..Levels
    BY Sizes
  <2>. QED
    BY <1>3, <1>8, <2>1
<1>11. Populated(r)
  BY <1>5, <1>6 DEF Populated, Entered, Given
<1>12. SwapOk(r, base)
  <2>0. At(v, 1)[1] = 1
    BY DEF At
  <2>1. ASSUME Intact(n, base), Fresh(n, q, v, f) \/ Populated(n) PROVE SwapOk(r, base)
    <3>1. f \in DOMAIN n.inverse => n.inverse[f] \in Page
      <4>1. CASE Fresh(n, q, v, f)
        BY <4>1 DEF Fresh
      <4>2. CASE Swapped(n, q, v, f) /\ Populated(n)
        BY <1>2, <4>2, VictimOfProgram
      <4>. QED
        BY <1>5, <2>1, <4>1, <4>2
    <3>2. Intact(r, base)
      BY <1>3, <1>5, <1>6, <2>0, <2>1, <3>1, IntactKept
    <3>. QED
      BY <3>2 DEF SwapOk
  <2>2. ASSUME NEW o \in Nat, Taken(n, o), n.created < o + Levels PROVE SwapOk(r, base)
    <3>1. Taken(r, 0)
      BY <1>2, <1>3, <1>5, <2>2, TakenByData
    <3>. QED
      BY <3>1 DEF SwapOk
  <2>3. ASSUME Taken(n, 0), Fresh(n, q, v, f) \/ Populated(n) PROVE SwapOk(r, base)
    <3>1. PICK g \in DOMAIN n.inverse : n.inverse[g] >= Translation0 + 0 /\ Used(n, g)
      BY <2>3 DEF Taken
    <3>2. g # f
      <4>1. CASE Fresh(n, q, v, f)
        BY <3>1, <4>1 DEF Fresh
      <4>2. CASE Swapped(n, q, v, f) /\ Populated(n)
        <5>1. n.inverse[f] \in Page
          BY <1>2, <4>2, VictimOfProgram
        <5>2. \A u \in Page : ~(u >= Translation0 + 0)
          BY Sizes
        <5>. QED
          BY <3>1, <5>1, <5>2
      <4>. QED
        BY <1>5, <2>3, <4>1, <4>2
    <3>3. g \in DOMAIN r.inverse /\ r.inverse[g] = n.inverse[g]
      BY <1>5, <1>6, <3>1, <3>2, OwnerKept
    <3>4. Used(r, g)
      BY <1>8, <3>1, UsedGrows
    <3>5. Taken(r, 0)
      BY <3>1, <3>3, <3>4 DEF Taken
    <3>. QED
      BY <3>5 DEF SwapOk
  <2>4. CASE Taken(n, m.created)
    <3>1. n.created < m.created + Levels
      BY <1>1, Sizes
    <3>. QED
      BY <1>1, <2>2, <2>4, <3>1
  <2>5. CASE Fresh(n, q, v, f) \/ Populated(n)
    BY <2>1, <2>3, <2>5 DEF Faulting, SwapOk
  <2>6. CASE Swapped(n, q, v, f) /\ Room(m, n)
    <3>1. n.created <= Levels
      BY <1>1, <2>6, Sizes
    <3>. QED
      BY <1>1, <1>2, <2>6, <3>1, SwapNeedsFrames
  <2>. QED
    BY <1>5, <2>4, <2>5, <2>6 DEF Faulting, Victims
<1>. QED
  BY <1>7, <1>9, <1>10, <1>11, <1>12 DEF Faulted, r

\* Mapping m after the first n pages of the fault of page v at level i.
MappedTo(m, v, i, n, g) ==
    g = [j \in 0..n |-> IF j = 0 THEN m ELSE MapTranslationPage(g[j - 1], v, i + 1 - j)]

LEMMA MappedExists ==
    ASSUME NEW m, NEW v, NEW i, NEW n \in Nat
    PROVE  \E g : MappedTo(m, v, i, n, g)
<1>. DEFINE S == {k \in Nat : ~\E g : MappedTo(m, v, i, k, g)}
<1>. SUFFICES S = {}
  OBVIOUS
<1>1. ASSUME S # {} PROVE FALSE
  <2>1. PICK k \in S : \A y \in S : k <= y
    BY <1>1, LeastExists
  <2>2. CASE k = 0
    <3>1. MappedTo(m, v, i, 0, [j \in 0..0 |-> m])
      BY DEF MappedTo
    <3>. QED
      BY <2>1, <2>2, <3>1
  <2>3. CASE k # 0
    <3>1. k - 1 \in Nat /\ k \in Nat /\ k - 1 \notin S
      BY <2>1, <2>3
    <3>2. PICK f : MappedTo(m, v, i, k - 1, f)
      BY <3>1
    <3>. DEFINE g == [j \in 0..k |-> IF j = 0 THEN m ELSE MapTranslationPage(f[j - 1], v, i + 1 - j)]
    <3>3. \A j \in 0..(k - 1) : g[j] = f[j]
      <4>1. \A j \in 0..(k - 1) : j \in 0..k
        BY <3>1
      <4>2. \A j \in 0..(k - 1) : f[j] = IF j = 0 THEN m ELSE MapTranslationPage(f[j - 1], v, i + 1 - j)
        BY <3>2 DEF MappedTo
      <4>. QED
        BY <4>1, <4>2
    <3>4. g = [j \in 0..k |-> IF j = 0 THEN m ELSE MapTranslationPage(g[j - 1], v, i + 1 - j)]
      <4>1. \A j \in 0..k : j # 0 => j - 1 \in 0..(k - 1)
        BY <3>1
      <4>. QED
        BY <3>3, <4>1
    <3>. HIDE DEF g
    <3>5. MappedTo(m, v, i, k, g)
      BY <3>4 DEF MappedTo
    <3>. QED
      BY <2>1, <3>5
  <2>. QED
    BY <2>2, <2>3
<1>. QED
  BY <1>1

LEMMA HandlePageFaultSteps ==
    ASSUME NEW m, NEW v, NEW i \in 1..Levels
    PROVE  \E g : /\ g[0] = m
                  /\ \A j \in 0..(i - 2) : g[j + 1] = MapTranslationPage(g[j], v, i - j)
                  /\ HandlePageFault(m, v, i) = MapDataPage(g[i - 1], v)
<1>. DEFINE g == CHOOSE f : f = [j \in 0..(i - 1) |->
                    IF j = 0 THEN m ELSE MapTranslationPage(f[j - 1], v, i + 1 - j)]
<1>1. i - 1 \in Nat /\ i \in Nat
  BY Sizes
<1>2. \E f : MappedTo(m, v, i, i - 1, f)
  BY <1>1, MappedExists
<1>3. g = [j \in 0..(i - 1) |-> IF j = 0 THEN m ELSE MapTranslationPage(g[j - 1], v, i + 1 - j)]
  BY <1>2 DEF MappedTo
<1>4. HandlePageFault(m, v, i) = MapDataPage(g[i - 1], v)
  BY DEF HandlePageFault
<1>. HIDE DEF g
<1>5. g[0] = m
  BY <1>1, <1>3
<1>6. \A j \in 0..(i - 2) : g[j + 1] = MapTranslationPage(g[j], v, i - j)
  <2>1. \A j \in 0..(i - 2) : j + 1 \in 0..(i - 1) /\ j + 1 # 0 /\ j + 1 - 1 = j /\ i + 1 - (j + 1) = i - j
    BY <1>1
  <2>2. \A j \in 0..(i - 2) :
            g[j + 1] = MapTranslationPage(g[j + 1 - 1], v, i + 1 - (j + 1))
    BY <1>3, <2>1
  <2>. QED
    BY <2>1, <2>2
<1>. QED
  BY <1>4, <1>5, <1>6

LEMMA FaultMaps ==
    ASSUME NEW m, MapOk(m), NEW v \in Page, NEW i \in 1..Levels, NEW base, SwapOk(m, base),
           \/ Populated(m)
           \/ m.created = 1 /\ Cardinality(DOMAIN m.inverse) <= 1,
           \A k \in 1..Levels : At(v, k) \in DOMAIN m.tree <=> k > i
    PROVE  Faulted(m, HandlePageFault(m, v, i), v, base)
<1>1. PICK g : /\ g[0] = m
               /\ \A j \in 0..(i - 2) : g[j + 1] = MapTranslationPage(g[j], v, i - j)
               /\ HandlePageFault(m, v, i) = MapDataPage(g[i - 1], v)
  BY HandlePageFaultSteps
<1>2. m.created \in Nat /\ i \in Nat
  BY Sizes DEF MapOk, FramesOk
<1>3. \A n : m.created + i <= Levels + 1 \/ ~Room(m, n)
  BY <1>2, Sizes DEF Room
<1>4. Faulting(m, m, v, i, 0, base)
  <2>1. Victims(m, m)
    BY DEF Victims, Room
  <2>2. Grows(m.tree, m.tree)
    BY DEF Grows
  <2>3. m.created = m.created + 0 /\ i - 0 = i
    BY <1>2
  <2>. QED
    BY <2>1, <2>2, <2>3 DEF Faulting
<1>. DEFINE S == {k \in Nat : k \in 0..(i - 1) /\ ~Faulting(m, g[k], v, i, k, base)}
<1>5. S = {}
  <2>1. ASSUME S # {} PROVE FALSE
    <3>1. PICK k \in S : \A y \in S : k <= y
      BY <2>1, LeastExists
    <3>2. k # 0
      BY <1>1, <1>4, <3>1
    <3>3. k - 1 \in 0..(i - 2) /\ k - 1 + 1 = k /\ k - 1 \notin S /\ k - 1 \in Nat /\ k - 1 \in 0..(i - 1)
      BY <1>2, <3>1, <3>2
    <3>4. Faulting(m, g[k - 1], v, i, k - 1, base)
      BY <3>3
    <3>5. Faulting(m, MapTranslationPage(g[k - 1], v, i - (k - 1)), v, i, k - 1 + 1, base)
      BY <1>3, <3>3, <3>4, TranslationMapped
    <3>6. g[k - 1 + 1] = MapTranslationPage(g[k - 1], v, i - (k - 1))
      BY <1>1, <3>3
    <3>. QED
      BY <3>1, <3>3, <3>5, <3>6
  <2>. QED
    BY <2>1
<1>6. Faulting(m, g[i - 1], v, i, i - 1, base)
  <2>1. i - 1 \in Nat /\ i - 1 \in 0..(i - 1)
    BY <1>2, Sizes
  <2>. QED
    BY <1>5, <2>1
<1>7. Faulted(m, MapDataPage(g[i - 1], v), v, base)
  BY <1>3, <1>6, DataMapped
<1>. QED
  BY <1>1, <1>7

\* An entry has all entries above it.
LEMMA AboveIsThere ==
    ASSUME NEW m, TreeOk(m), NEW v \in Page, NEW k \in 1..Levels, At(v, k) \in DOMAIN m.tree,
           NEW i \in k..Levels
    PROVE  At(v, i) \in DOMAIN m.tree
<1>. DEFINE S == {j \in Nat : j \in k..Levels /\ At(v, j) \notin DOMAIN m.tree}
<1>. SUFFICES S = {}
  BY Sizes
<1>1. ASSUME S # {} PROVE FALSE
  <2>1. PICK j \in S : \A y \in S : j <= y
    BY <1>1, LeastExists
  <2>2. j # k
    BY <2>1
  <2>3. j - 1 \in k..Levels /\ j - 1 \in 1..(Levels - 1) /\ j - 1 \notin S /\ j - 1 \in Nat /\ j - 1 + 1 = j
    BY <2>1, <2>2, Sizes
  <2>4. At(v, j - 1) \in DOMAIN m.tree
    BY <2>3
  <2>5. At(v, j - 1 + 1) \in DOMAIN m.tree
    BY <2>3, <2>4 DEF TreeOk
  <2>. QED
    BY <2>1, <2>3, <2>5
<1>. QED
  BY <1>1

\* The root of the first walk, and what is there then.
LEMMA RootMapped ==
    ASSUME NEW m, MapOk(m), Unmapped(m)
    PROVE  LET r == MapRoot(m)
               base == r.table[Translation0 + m.created]
           IN  /\ MapOk(r) /\ SwapOk(r, base) /\ base \in Nat \ {0} /\ DOMAIN r.tree = {}
               /\ r.created = 1 /\ Cardinality(DOMAIN r.inverse) = 1
<1>. DEFINE x == Translation0 + m.created
            n == VaToPa(m, x)
            r == MapRoot(m)
<1>1. /\ IsMapping(m) /\ FramesOk(m) /\ IsMap(m.stlb) /\ m.created = 0 /\ DOMAIN m.table = {}
      /\ DOMAIN m.inverse = {} /\ DOMAIN m.tree = {} /\ DOMAIN m.stlb = {}
  BY DEF MapOk, StlbOk, Unmapped
<1>2. x = Translation0 /\ x \in Nat /\ x \notin Page /\ x \in Vpages(1)
  BY <1>1, Sizes DEF Vpages
<1>3. r = [n EXCEPT !.created = @ + 1]
  BY DEF MapRoot
<1>. HIDE DEF r, n, x
<1>4. PICK f : Fresh(m, n, x, f) \/ Swapped(m, n, x, f)
  BY <1>1, VaToPaGives DEF n
<1>5. Fresh(m, n, x, f) /\ Given(m, n, x, f)
  BY <1>1, <1>4 DEF Swapped, Fresh
<1>6. IsMapping(n) /\ n.created = 0 /\ n.table[x] = f /\ n.tree = m.tree
  BY <1>1, <1>5 DEF Given
<1>7. /\ IsMapping(r) /\ r.created = 1 /\ r.table = n.table /\ r.inverse = n.inverse
      /\ r.stlb = n.stlb /\ r.tree = n.tree
  BY <1>3, <1>6 DEF IsMapping
<1>8. FramesOk(r)
  <2>1. m.created <= 1 /\ 1 \in Nat /\ x \notin DOMAIN m.table
    BY <1>1
  <2>2. /\ \E k \in 0..DramPages : DOMAIN n.inverse = 1..k
        /\ DOMAIN n.table \subseteq Vpages(1)
        /\ \A w \in DOMAIN n.table : n.table[w] \in DOMAIN n.inverse /\ n.inverse[n.table[w]] = w
        /\ \A g \in DOMAIN n.inverse : n.inverse[g] \in DOMAIN n.table /\ n.table[n.inverse[g]] = g
    BY <1>1, <1>2, <1>4, <2>1, GivenFrames
  <2>3. IsMap(n.table) /\ IsMap(n.inverse)
    BY <1>5 DEF Given
  <2>. QED
    BY <1>7, <2>2, <2>3 DEF FramesOk
<1>9. TreeOk(r)
  <2>1. IsMap(m.tree)
    BY DEF MapOk, TreeOk
  <2>2. DOMAIN r.tree = {} /\ IsMap(r.tree)
    BY <1>1, <1>6, <1>7, <2>1
  <2>3. DOMAIN r.table \cap Page = {}
    BY <1>1, <1>2, <1>5, <1>7 DEF Given
  <2>. QED
    BY <2>2, <2>3 DEF TreeOk
<1>10. StlbOk(r)
  BY <1>1, <1>5, <1>7 DEF StlbOk, Given
<1>11. OfTranslation(r, f)
  BY <1>2, <1>5, <1>7, Sizes DEF OfTranslation, Given
<1>12. SwapOk(r, f)
  <2>1. DOMAIN r.tree = {}
    BY <1>1, <1>6, <1>7
  <2>. QED
    BY <1>11, <2>1 DEF SwapOk, Intact
<1>13. Cardinality(DOMAIN r.inverse) = 1
  <2>1. DOMAIN r.inverse = {f}
    BY <1>1, <1>5, <1>7 DEF Given
  <2>. QED
    BY <2>1, FS_Singleton
<1>. QED
  BY <1>1, <1>5, <1>6, <1>7, <1>8, <1>9, <1>10, <1>12, <1>13 DEF MapOk, Given, r, x

-----------------------------------------------------------------------------
(* The paging-structure caches.                                              *)

LEMMA PsclGrows ==
    ASSUME NEW q, NEW t, NEW i, PsclOk(q, t, i), NEW s, Grows(t, s)
    PROVE  PsclOk(q, s, i)
  BY DEF PsclOk, Grows

LEMMA PsclEmpty ==
    ASSUME NEW t, NEW i
    PROVE  PsclOk(<< >>, t, i)
<1>1. << >> \in Seq(PsclEntry) /\ 1..Len(<< >>) = {}
  OBVIOUS
<1>. QED
  BY <1>1 DEF PsclOk

LEMMA PsclAppend ==
    ASSUME NEW q, NEW t, NEW i, PsclOk(q, t, i), NEW e \in PsclEntry,
           <<i, e.index>> \in DOMAIN t, e.data = t[<<i, e.index>>],
           \A k \in 1..Len(q) : q[k].index # e.index,
           NEW s, s = Append(q, e)
    PROVE  PsclOk(s, t, i) /\ Len(s) > 0
<1>1. q \in Seq(PsclEntry)
  BY DEF PsclOk
<1>. PICK n \in Nat : n = Len(q)
  BY <1>1
<1>2. /\ s \in Seq(PsclEntry) /\ Len(s) = n + 1 /\ s[n + 1] = e /\ \A k \in 1..n : s[k] = q[k]
  BY <1>1, AppendProperties
<1>3. \A k \in 1..(n + 1) : k \in 1..n \/ k = n + 1
  OBVIOUS
<1>4. \A k \in 1..n : /\ <<i, q[k].index>> \in DOMAIN t /\ q[k].data = t[<<i, q[k].index>>]
                      /\ q[k].index # e.index
  BY DEF PsclOk
<1>5. \A j, k \in 1..n : q[j].index = q[k].index => j = k
  BY DEF PsclOk
<1>6. \A k \in 1..(n + 1) : <<i, s[k].index>> \in DOMAIN t /\ s[k].data = t[<<i, s[k].index>>]
  BY <1>2, <1>3, <1>4
<1>7. \A j, k \in 1..(n + 1) : s[j].index = s[k].index => j = k
  BY <1>2, <1>3, <1>4, <1>5
<1>. QED
  BY <1>2, <1>6, <1>7 DEF PsclOk

LEMMA PsclTail ==
    ASSUME NEW q, NEW t, NEW i, PsclOk(q, t, i), Len(q) > 0, NEW s, s = Tail(q)
    PROVE  PsclOk(s, t, i)
<1>1. q \in Seq(PsclEntry)
  BY DEF PsclOk
<1>. PICK n \in Nat : n = Len(q)
  BY <1>1
<1>2. q # << >>
  OBVIOUS
<1>3. s \in Seq(PsclEntry) /\ Len(s) = n - 1 /\ \A k \in 1..(n - 1) : s[k] = q[k + 1]
  BY <1>1, <1>2, HeadTailProperties
<1>4. \A k \in 1..(n - 1) : k + 1 \in 1..n
  OBVIOUS
<1>5. \A k \in 1..n : <<i, q[k].index>> \in DOMAIN t /\ q[k].data = t[<<i, q[k].index>>]
  BY DEF PsclOk
<1>6. \A k \in 1..(n - 1) : <<i, s[k].index>> \in DOMAIN t /\ s[k].data = t[<<i, s[k].index>>]
  BY <1>3, <1>4, <1>5
<1>7. ASSUME NEW j \in 1..(n - 1), NEW k \in 1..(n - 1), s[j].index = s[k].index PROVE j = k
  <2>1. j + 1 = k + 1
    BY <1>3, <1>4, <1>7 DEF PsclOk
  <2>. QED
    BY <2>1
<1>. QED
  BY <1>3, <1>6, <1>7 DEF PsclOk

LEMMA EntryIs ==
    ASSUME NEW m, TreeOk(m), NEW v, NEW i
    PROVE  /\ At(v, i) \in DOMAIN m.tree => Entry(m.tree, v, i) = m.tree[At(v, i)] /\ Entry(m.tree, v, i) \in Nat \ {0}
           /\ At(v, i) \notin DOMAIN m.tree => Entry(m.tree, v, i) = NoFrame
           /\ At(v, i) \in DOMAIN m.tree <=> Entry(m.tree, v, i) # NoFrame
  BY DEF TreeOk, At, Entry, NoFrame

FilledWith(c, t, v, from) == c = FillPscls(t, v, from)

LEMMA FillPsclsOk ==
    ASSUME Cached, NEW m, TreeOk(m), Grows(tree, m.tree), NEW v \in Page, NEW from \in 1..Levels,
           \A i \in 2..from : Hits(i, v) = {} /\ At(v, i) \in DOMAIN m.tree,
           NEW c, FilledWith(c, m.tree, v, from)
    PROVE  c = [i \in 2..Levels |-> c[i]] /\ \A i \in 2..Levels : PsclOk(c[i], m.tree, i)
<1>1. c = [i \in 2..Levels |-> c[i]]
  BY DEF FillPscls, FilledWith
<1>2. ASSUME NEW i \in 2..Levels PROVE PsclOk(c[i], m.tree, i)
  <2>1. PsclOk(pscl[i], m.tree, i)
    BY PsclGrows DEF Cached
  <2>2. CASE ~(i <= from)
    <3>1. c[i] = pscl[i]
      BY <2>2 DEF FillPscls, FilledWith
    <3>. QED
      BY <2>1, <3>1
  <2>3. CASE i <= from
    <3>. DEFINE e == [index |-> Index(v, i), data |-> Entry(m.tree, v, i)]
    <3>1. i \in 2..from /\ i \in 1..Levels
      BY <2>3, Sizes
    <3>2. At(v, i) \in DOMAIN m.tree /\ Hits(i, v) = {} /\ Index(v, i) \in Nat
      BY <3>1, IndexIsNat
    <3>3. Entry(m.tree, v, i) = m.tree[At(v, i)] /\ Entry(m.tree, v, i) \in Nat
      BY <3>2, EntryIs
    <3>4. e \in PsclEntry /\ e.index = Index(v, i) /\ e.data = Entry(m.tree, v, i)
      BY <3>2, <3>3 DEF PsclEntry
    <3>5. c[i] = LET filled == Append(pscl[i], e) IN
                 IF Len(filled) > PsclWays[i] THEN Tail(filled) ELSE filled
      <4>1. i \in DOMAIN pscl
        BY DEF Cached
      <4>. QED
        BY <2>3, <4>1 DEF FillPscls, FillPscl, FilledWith
    <3>. HIDE DEF e
    <3>6. PICK s : s = Append(pscl[i], e)
      OBVIOUS
    <3>7. \A k \in 1..Len(pscl[i]) : pscl[i][k].index # e.index
      <4>1. pscl[i] \in Seq(PsclEntry)
        BY DEF Cached, PsclOk
      <4>2. DOMAIN pscl[i] = 1..Len(pscl[i])
        BY <4>1
      <4>. QED
        BY <3>2, <3>4, <4>2 DEF Hits
    <3>8. PsclOk(s, m.tree, i) /\ Len(s) > 0
      <4>1. <<i, e.index>> \in DOMAIN m.tree /\ e.data = m.tree[<<i, e.index>>]
        BY <3>2, <3>3, <3>4 DEF At
      <4>. QED
        BY <2>1, <3>4, <3>6, <3>7, <4>1, PsclAppend
    <3>9. PsclOk(Tail(s), m.tree, i)
      BY <3>8, PsclTail
    <3>. QED
      BY <3>5, <3>6, <3>8, <3>9
  <2>. QED
    BY <2>2, <2>3
<1>. QED
  BY <1>1, <1>2

\* Where a walk starts: below the lowest level that hits, or at the top.
LEMMA HitLevelIs ==
    ASSUME NEW v
    PROVE  /\ HitLevel(v) \in 2..(Levels + 1)
           /\ \A i \in 2..(HitLevel(v) - 1) : Hits(i, v) = {}
           /\ HitLevel(v) <= Levels => Hits(HitLevel(v), v) # {}
<1>. DEFINE hit == {i \in 2..Levels : Hits(i, v) # {}}
<1>1. HitLevel(v) = IF hit = {} THEN Levels + 1 ELSE CHOOSE i \in hit : \A j \in hit : i <= j
  BY DEF HitLevel
<1>2. CASE hit = {}
  <2>1. \A i \in 2..(HitLevel(v) - 1) : i \in 2..Levels
    BY <1>1, <1>2, Sizes
  <2>2. HitLevel(v) \in 2..(Levels + 1) /\ ~(HitLevel(v) <= Levels)
    BY <1>1, <1>2, Sizes
  <2>. QED
    BY <1>2, <2>1, <2>2
<1>3. CASE hit # {}
  <2>1. hit \subseteq Nat
    BY Sizes
  <2>2. \E i \in hit : \A j \in hit : i <= j
    BY <1>3, <2>1, LeastExists
  <2>3. HitLevel(v) \in hit /\ \A j \in hit : HitLevel(v) <= j
    BY <1>1, <1>3, <2>2
  <2>. HIDE DEF hit
  <2>4. HitLevel(v) \in 2..Levels /\ Hits(HitLevel(v), v) # {}
    BY <2>3 DEF hit
  <2>5. \A i \in 2..(HitLevel(v) - 1) : i \in 2..Levels /\ i \notin hit
    BY <2>3, <2>4, Sizes
  <2>6. \A i \in 2..(HitLevel(v) - 1) : Hits(i, v) = {}
    BY <2>5 DEF hit
  <2>. QED
    BY <2>4, <2>6, Sizes
<1>. QED
  BY <1>2, <1>3

LEMMA HitBaseIs ==
    ASSUME Cached, NEW v
    PROVE  \/ HitLevel(v) = Levels + 1 /\ HitBase(v) = cr3
           \/ /\ HitLevel(v) \in 2..Levels
              /\ At(v, HitLevel(v)) \in DOMAIN tree /\ HitBase(v) = tree[At(v, HitLevel(v))]
<1>1. CASE HitLevel(v) = Levels + 1
  BY <1>1 DEF HitBase
<1>2. CASE HitLevel(v) # Levels + 1
  <2>. DEFINE i == HitLevel(v)
              H == Hits(i, v)
              k == CHOOSE x \in H : \A j \in H : x <= j
  <2>1. i \in 2..Levels /\ H # {}
    BY <1>2, HitLevelIs, Sizes
  <2>2. HitBase(v) = pscl[i][k].data
    BY <1>2 DEF HitBase
  <2>. HIDE DEF i
  <2>3. PsclOk(pscl[i], tree, i)
    BY <2>1 DEF Cached
  <2>4. pscl[i] \in Seq(PsclEntry) /\ DOMAIN pscl[i] = 1..Len(pscl[i])
    BY <2>3 DEF PsclOk
  <2>5. H \subseteq Nat /\ H \subseteq 1..Len(pscl[i])
    BY <2>4 DEF Hits
  <2>6. \E x \in H : \A j \in H : x <= j
    BY <2>1, <2>5, LeastExists
  <2>7. k \in H
    BY <2>6
  <2>. HIDE DEF k
  <2>8. k \in 1..Len(pscl[i]) /\ pscl[i][k].index = Index(v, i)
    BY <2>5, <2>7 DEF Hits
  <2>9. At(v, i) \in DOMAIN tree /\ pscl[i][k].data = tree[At(v, i)]
    BY <2>3, <2>8 DEF PsclOk, At
  <2>. QED
    BY <2>1, <2>2, <2>9 DEF i
<1>. QED
  BY <1>1, <1>2

-----------------------------------------------------------------------------
(* The parts of the invariant in the next state.                             *)

LEMMA MappingFields ==
    /\ IsMapping(Mapping) /\ Mapping.tree = tree /\ Mapping.table = table
    /\ Mapping.inverse = inverse /\ Mapping.created = created /\ Mapping.stlb = stlb
  BY DEF Mapping, IsMapping

LEMMA MappingNext ==
    ASSUME NEW m, IsMapping(m), SetMapping(m), stlb' = m.stlb
    PROVE  Mapping' = m
  BY DEF SetMapping, Mapping, IsMapping

LEMMA MappedFrame ==
    ASSUME Mapped, UNCHANGED <<paging, stlb, pscl>>
    PROVE  Mapped'
<1>1. UNCHANGED <<tree, cr3, table, inverse, created, stlb, pscl>>
  BY DEF paging
<1>2. Mapping' = Mapping
  BY <1>1 DEF Mapping
<1>. QED
  BY <1>1, <1>2 DEF Mapped

LEMMA MappedNext ==
    ASSUME NEW m, MapOk(m), SwapOk(m, cr3'), Populated(m), SetMapping(m), stlb' = m.stlb,
           cr3' \in Nat \ {0}
    PROVE  Mapped'
<1>1. Mapping' = m
  BY MappingNext DEF MapOk
<1>. QED
  BY <1>1 DEF Mapped, NoFrame

LEMMA CachedFrame ==
    ASSUME Cached, UNCHANGED <<pscl, tree>>
    PROVE  Cached'
  BY DEF Cached

LEMMA CachedNext ==
    ASSUME Cached, NEW m, TreeOk(m), Grows(tree, m.tree), tree' = m.tree,
           NEW v \in Page, NEW from \in 1..Levels,
           \A i \in 2..from : Hits(i, v) = {} /\ At(v, i) \in DOMAIN m.tree,
           FilledWith(pscl', m.tree, v, from)
    PROVE  Cached'
<1>1. /\ pscl' = [i \in 2..Levels |-> pscl'[i]]
      /\ \A i \in 2..Levels : PsclOk(pscl'[i], m.tree, i)
  BY FillPsclsOk
<1>. QED
  BY <1>1 DEF Cached

LEMMA AnsweredNext ==
    ASSUME Answered, Grows(tree, tree'),
           \A v \in DOMAIN stlbMshr' : stlbMshr'[v].returned =>
              \/ v \in DOMAIN stlbMshr /\ stlbMshr[v].returned /\ stlbMshr'[v].data = stlbMshr[v].data
              \/ stlbMshr'[v].data = Dropped
              \/ At(v, 1) \in DOMAIN tree' /\ stlbMshr'[v].data = tree'[At(v, 1)]
    PROVE  Answered'
  BY DEF Answered, Grows

LEMMA InDramNext ==
    ASSUME InDram, Grows(tree, tree'), dram' = dram
    PROVE  InDram'
<1>1. Mapping.tree = tree /\ Mapping'.tree = tree'
  BY DEF Mapping
<1>2. \A g : Used(Mapping, g) => Used(Mapping', g)
  BY <1>1 DEF Used, Grows
<1>3. \A g : Used(Mapping, g)' <=> Used(Mapping', g)
  BY DEF Used
<1>. QED
  BY <1>2, <1>3 DEF InDram

LEMMA WalkingFrame ==
    ASSUME Walking, WalkReadsEntry, UNCHANGED <<mshr, cr3, pscl, tree>>
    PROVE  Walking' /\ WalkReadsEntry'
<1>1. \A i, v : Hits(i, v)' = Hits(i, v)
  BY DEF Hits
<1>2. \A w : WalkOk(w)' <=> WalkOk(w)
  BY <1>1 DEF WalkOk
<1>3. Walking'
  BY <1>2 DEF Walking
<1>4. WalkReadsEntry'
  BY DEF WalkReadsEntry, Entry
<1>. QED
  BY <1>3, <1>4

LEMMA NoWalk ==
    ASSUME mshr' = {}
    PROVE  Walking' /\ WalkReadsEntry'
  BY DEF Walking, WalkReadsEntry

LEMMA TakenFrame ==
    ASSUME Taken(Mapping, 0), UNCHANGED <<paging, stlb>>
    PROVE  Taken(Mapping, 0)'
<1>1. Mapping' = Mapping
  BY DEF Mapping, paging
<1>2. Taken(Mapping', 0)
  BY <1>1
<1>. QED
  BY <1>2 DEF Taken, Used

LEMMA GrowsSame ==
    ASSUME UNCHANGED tree
    PROVE  Grows(tree, tree')
  BY DEF Grows

-----------------------------------------------------------------------------
(* The actions.                                                              *)

Prefetches(p) == \A k \in 1..Len(p) : p[k].type = Prefetch

LEMMA AppendPrefetch ==
    ASSUME NEW p \in Seq(Request), Prefetches(p), NEW r \in Request, r.type = Prefetch
    PROVE  Prefetches(Append(p, r))
<1>. PICK n \in Nat : n = Len(p)
  OBVIOUS
<1>1. /\ Len(Append(p, r)) = n + 1 /\ Append(p, r)[n + 1] = r
      /\ \A k \in 1..n : Append(p, r)[k] = p[k]
  BY AppendProperties
<1>2. \A k \in 1..(n + 1) : k \in 1..n \/ k = n + 1
  OBVIOUS
<1>. QED
  BY <1>1, <1>2 DEF Prefetches

LEMMA TailPrefetch ==
    ASSUME NEW p \in Seq(Request), Prefetches(p), p # << >>
    PROVE  Prefetches(Tail(p)) /\ Head(p).type = Prefetch
<1>. PICK n \in Nat : n = Len(p)
  OBVIOUS
<1>1. n > 0 /\ Head(p) = p[1] /\ Len(Tail(p)) = n - 1 /\ \A k \in 1..(n - 1) : Tail(p)[k] = p[k + 1]
  BY HeadTailProperties
<1>2. 1 \in 1..n /\ \A k \in 1..(n - 1) : k + 1 \in 1..n
  BY <1>1
<1>. QED
  BY <1>1, <1>2 DEF Prefetches

\* Nothing but queues, MSHRs of the STLB and the warm-up.
LEMMA PagingFrame ==
    ASSUME Paging, ~failed, failed' = failed, UNCHANGED <<paging, pscl, mshr, stlb, dram>>,
           Answered', Prefetches(pq')
    PROVE  Paging'
<1>1. UNCHANGED <<paging, stlb, pscl>> /\ UNCHANGED <<pscl, tree>> /\ UNCHANGED <<mshr, cr3, pscl, tree>>
  BY DEF paging
<1>2. Mapped'
  BY <1>1, MappedFrame DEF Paging
<1>3. Cached'
  BY <1>1, CachedFrame DEF Paging
<1>4. Walking' /\ WalkReadsEntry'
  BY <1>1, WalkingFrame DEF Paging
<1>5. InDram'
  <2>1. Grows(tree, tree') /\ dram' = dram
    BY <1>1, GrowsSame
  <2>. QED
    BY <2>1, InDramNext DEF Paging
<1>. QED
  BY <1>2, <1>3, <1>4, <1>5 DEF Paging, Prefetches

LEMMA WithAnswered ==
    ASSUME Answered, UNCHANGED tree, NEW v, NEW e, ~e.returned, stlbMshr' = With(stlbMshr, v, e)
    PROVE  Answered'
<1>1. Extends(stlbMshr', stlbMshr, v, e)
  BY WithExtends
<1>2. Grows(tree, tree')
  BY GrowsSame
<1>3. ASSUME NEW u \in DOMAIN stlbMshr', stlbMshr'[u].returned
      PROVE  u \in DOMAIN stlbMshr /\ stlbMshr[u].returned /\ stlbMshr'[u].data = stlbMshr[u].data
  BY <1>1, <1>3 DEF Extends
<1>. QED
  BY <1>2, <1>3, AnsweredNext

LEMMA WithoutAnswered ==
    ASSUME Answered, UNCHANGED tree, NEW v, stlbMshr' = Without(stlbMshr, v)
    PROVE  Answered'
<1>1. Lacks(stlbMshr', stlbMshr, v)
  BY WithoutLacks
<1>2. Grows(tree, tree')
  BY GrowsSame
<1>3. ASSUME NEW u \in DOMAIN stlbMshr', stlbMshr'[u].returned
      PROVE  u \in DOMAIN stlbMshr /\ stlbMshr[u].returned /\ stlbMshr'[u].data = stlbMshr[u].data
  BY <1>1, <1>3 DEF Lacks
<1>. QED
  BY <1>2, <1>3, AnsweredNext

LEMMA MissPaging ==
    ASSUME Sound, Paging, ~failed, NEW v \in Page, NEW type \in Types, Miss(v, type)
    PROVE  Paging'
<1>1. failed' = failed
  BY MissSound
<1>2. UNCHANGED <<paging, pscl, mshr, stlb, dram>> /\ UNCHANGED tree
  BY DEF Miss, paging
<1>3. Answered'
  <2>. DEFINE e == [type |-> type, returned |-> FALSE, data |-> NoFrame]
  <2>1. stlbMshr' = With(stlbMshr, v, e) /\ ~e.returned
    BY DEF Miss
  <2>. HIDE DEF e
  <2>. QED
    BY <1>2, <2>1, WithAnswered DEF Paging
<1>4. Prefetches(pq')
  <2>1. Prefetches(pq) /\ pq \in Seq(Request)
    BY DEF Paging, Prefetches, Sound, TypeInv
  <2>2. CASE type = Prefetch
    <3>. DEFINE r == [page |-> v, type |-> type]
    <3>1. pq' = Append(pq, r) /\ r \in Request /\ r.type = Prefetch
      BY <2>2 DEF Miss, Request
    <3>. HIDE DEF r
    <3>. QED
      BY <2>1, <3>1, AppendPrefetch
  <2>3. CASE type # Prefetch
    BY <2>1, <2>3 DEF Miss
  <2>. QED
    BY <2>2, <2>3
<1>. QED
  BY <1>1, <1>2, <1>3, <1>4, PagingFrame

LEMMA MergePaging ==
    ASSUME Sound, Paging, ~failed, NEW v \in Page, NEW type \in Types, Merge(v, type)
    PROVE  Paging'
<1>1. UNCHANGED <<paging, pscl, mshr, stlb, dram>> /\ UNCHANGED <<tree, pq, failed>>
  BY DEF Merge, paging, walker
<1>2. v \in DOMAIN stlbMshr /\ stlbMshr' = [stlbMshr EXCEPT ![v].type = type]
  BY DEF Merge
<1>3. PICK x : x = stlbMshr[v]
  OBVIOUS
<1>4. PICK e : e = [x EXCEPT !.type = type]
  OBVIOUS
<1>5. IsMiss(x)
  BY <1>2, <1>3 DEF Sound, TypeInv, MissTable
<1>6. e.returned = x.returned /\ e.data = x.data
  BY <1>4, <1>5 DEF IsMiss
<1>7. stlbMshr' = [stlbMshr EXCEPT ![v] = e]
  BY <1>2, <1>3, <1>4
<1>8. ASSUME NEW u \in DOMAIN stlbMshr', stlbMshr'[u].returned
      PROVE  u \in DOMAIN stlbMshr /\ stlbMshr[u].returned /\ stlbMshr'[u].data = stlbMshr[u].data
  BY <1>2, <1>3, <1>6, <1>7, <1>8
<1>9. Answered'
  <2>1. Grows(tree, tree')
    BY <1>1, GrowsSame
  <2>. QED
    BY <1>8, <2>1, AnsweredNext DEF Paging
<1>10. Prefetches(pq')
  BY <1>1 DEF Paging, Prefetches
<1>. QED
  BY <1>1, <1>9, <1>10, PagingFrame

\* The STLB stores what the tree has.
LEMMA FillTranslationPaging ==
    ASSUME Sound, Paging, ~failed, NEW v \in Page, v \in DOMAIN stlbMshr, stlbMshr[v].returned,
           FillTranslation(v), UNCHANGED <<paging, pscl, pq, mshr, dram, warm>>
    PROVE  Paging'
<1>1. /\ UNCHANGED <<tree, cr3, table, inverse, created, failed, pscl, mshr, pq, dram>>
      /\ stlbMshr' = Without(stlbMshr, v)
  BY DEF FillTranslation, paging
<1>2. At(v, 1) \in DOMAIN tree /\ stlbMshr[v].data = tree[At(v, 1)]
  BY DEF FillTranslation, Paging, Answered
<1>3. PICK kept \in SUBSET DOMAIN stlb : stlb' = With(Restrict(stlb, kept), v, stlbMshr[v].data)
  BY DEF FillTranslation
<1>4. MapOk(Mapping) /\ SwapOk(Mapping, cr3) /\ cr3 \in Nat
  BY DEF Paging, Mapped
<1>5. cr3 # NoFrame /\ Populated(Mapping)
  BY <1>2, MappingFields DEF Paging, Mapped, Unmapped
<1>6. /\ IsMap(stlb') /\ DOMAIN stlb' = kept \cup {v} /\ stlb'[v] = tree[At(v, 1)]
      /\ \A u \in kept : u # v => stlb'[u] = stlb[u]
  <2>1. DOMAIN Restrict(stlb, kept) = kept /\ \A u \in kept : Restrict(stlb, kept)[u] = stlb[u]
    BY DEF Restrict
  <2>2. PICK r : r = Restrict(stlb, kept)
    OBVIOUS
  <2>3. Extends(stlb', r, v, stlbMshr[v].data)
    BY <1>3, <2>2, WithExtends
  <2>. QED
    BY <1>2, <2>1, <2>2, <2>3 DEF Extends
<1>7. PICK m : m = Mapping'
  OBVIOUS
<1>8. /\ IsMapping(m) /\ m.tree = tree /\ m.table = table /\ m.inverse = inverse
      /\ m.created = created /\ m.stlb = stlb'
  BY <1>1, <1>7 DEF Mapping, IsMapping
<1>9. FramesOk(m) /\ TreeOk(m)
  BY <1>4, <1>8, MappingFields DEF MapOk, FramesOk, TreeOk
<1>10. StlbOk(m)
  <2>1. /\ DOMAIN stlb \subseteq Page
        /\ \A u \in DOMAIN stlb : At(u, 1) \in DOMAIN tree /\ stlb[u] = tree[At(u, 1)]
    BY <1>4, MappingFields DEF MapOk, StlbOk
  <2>. QED
    BY <1>2, <1>6, <1>8, <2>1 DEF StlbOk
<1>11. SwapOk(m, cr3) /\ Populated(m)
  BY <1>4, <1>5, <1>8, MappingFields DEF SwapOk, Intact, OfTranslation, Taken, Used, Populated
<1>12. Mapped'
  <2>1. MapOk(m)
    BY <1>8, <1>9, <1>10 DEF MapOk
  <2>. QED
    BY <1>1, <1>4, <1>5, <1>7, <1>11, <2>1 DEF Mapped
<1>13. Cached'
  BY <1>1, CachedFrame DEF Paging
<1>14. Walking' /\ WalkReadsEntry'
  BY <1>1, WalkingFrame DEF Paging
<1>15. Answered'
  BY <1>1, WithoutAnswered DEF Paging
<1>16. InDram'
  BY <1>1, GrowsSame, InDramNext DEF Paging
<1>. QED
  BY <1>1, <1>12, <1>13, <1>14, <1>15, <1>16 DEF Paging

LEMMA FillPaging ==
    ASSUME Sound, Paging, ~failed, NEW v \in Page, Fill(v)
    PROVE  Paging'
<1>1. v \in DOMAIN stlbMshr /\ stlbMshr[v].returned /\ UNCHANGED <<paging, pscl, pq, mshr, dram, warm>>
  BY DEF Fill
<1>2. CASE FillTranslation(v)
  BY <1>1, <1>2, FillTranslationPaging
<1>3. CASE DropPrefetch(v) \/ SendAgain(v)
  <2>1. failed' = failed
    BY FillSound
  <2>2. UNCHANGED <<paging, pscl, mshr, stlb, dram>> /\ UNCHANGED <<tree, pq>>
    BY <1>1, <1>3 DEF DropPrefetch, SendAgain, paging
  <2>3. Prefetches(pq')
    BY <2>2 DEF Paging, Prefetches
  <2>4. Answered'
    <3>1. CASE DropPrefetch(v)
      BY <2>2, <3>1, WithoutAnswered DEF DropPrefetch, Paging
    <3>2. CASE SendAgain(v)
      <4>1. stlbMshr' = [stlbMshr EXCEPT ![v].returned = FALSE]
        BY <3>2 DEF SendAgain
      <4>2. IsMiss(stlbMshr[v])
        BY <1>1 DEF Sound, TypeInv, MissTable
      <4>3. PICK x : x = stlbMshr[v]
        OBVIOUS
      <4>4. PICK e : e = [x EXCEPT !.returned = FALSE]
        OBVIOUS
      <4>5. ~e.returned
        BY <4>2, <4>3, <4>4, ReopenedFields
      <4>6. stlbMshr' = [stlbMshr EXCEPT ![v] = e]
        BY <4>1, <4>3, <4>4
      <4>7. ASSUME NEW u \in DOMAIN stlbMshr', stlbMshr'[u].returned
            PROVE  u \in DOMAIN stlbMshr /\ stlbMshr[u].returned /\ stlbMshr'[u].data = stlbMshr[u].data
        BY <1>1, <4>5, <4>6, <4>7
      <4>8. Grows(tree, tree')
        BY <2>2, GrowsSame
      <4>. QED
        BY <4>7, <4>8, AnsweredNext DEF Paging
    <3>. QED
      BY <1>3, <3>1, <3>2
  <2>. QED
    BY <2>1, <2>2, <2>3, <2>4, PagingFrame
<1>. QED
  BY <1>2, <1>3 DEF Fill

LEMMA DoneFields ==
    ASSUME NEW w, IsWalk(w), NEW d, d = [w EXCEPT !.level = @ - 1, !.returned = TRUE]
    PROVE  /\ d.page = w.page /\ d.type = w.type /\ d.init = w.init /\ d.block = w.block
           /\ d.level = w.level - 1 /\ d.returned = TRUE
<1>1. PICK y : y = [w EXCEPT !.level = w.level - 1]
  OBVIOUS
<1>2. /\ y \in [page : Page, type : {w.type}, level : {w.level - 1}, init : {w.init},
                block : {w.block}, returned : {w.returned}]
      /\ y.page = w.page /\ y.type = w.type /\ y.init = w.init /\ y.block = w.block
      /\ y.level = w.level - 1
  BY <1>1 DEF IsWalk
<1>3. d = [y EXCEPT !.returned = TRUE]
  BY <1>1
<1>. QED
  BY <1>2, <1>3

LEMMA SentFields ==
    ASSUME NEW w, IsWalk(w), NEW b, NEW s, s = [w EXCEPT !.returned = b]
    PROVE  /\ s.page = w.page /\ s.type = w.type /\ s.init = w.init /\ s.block = w.block
           /\ s.level = w.level /\ s.returned = b
  BY DEF IsWalk

LEMMA BlockFields ==
    ASSUME NEW w, IsWalk(w), NEW b, NEW s, s = [w EXCEPT !.block = b]
    PROVE  /\ s.page = w.page /\ s.type = w.type /\ s.init = w.init /\ s.block = b
           /\ s.level = w.level /\ s.returned = w.returned
  BY DEF IsWalk

\* The block of walk w is its entry, or entry 0.
BlockOk(w) ==
    LET base == IF w.level = Levels THEN cr3 ELSE Entry(tree, w.page, w.level + 1)
        zero == w.type = Prefetch /\ w.level = w.init /\ w.level = Levels - 1
    IN  w.block \in {<<base, Offset(w.page, w.level)>>}
                    \cup (IF zero THEN {<<base, 0>>} ELSE {})

\* Who serves a block of data that a walk reads has it from a swap.
LEMMA ServedTaken ==
    ASSUME Paging, NEW b, Intact(Mapping, cr3) => OfTranslation(Mapping, b[1]),
           NEW kind, [kind |-> kind, block |-> b] \in dram
    PROVE  Taken(Mapping, 0)
<1>1. Used(Mapping, b[1])
  <2>1. PICK d : d = [kind |-> kind, block |-> b]
    OBVIOUS
  <2>2. d \in dram /\ d.block = b
    BY <2>1
  <2>. QED
    BY <2>2 DEF Paging, InDram
<1>2. CASE Intact(Mapping, cr3)
  <2>1. b[1] \in DOMAIN Mapping.inverse /\ Mapping.inverse[b[1]] >= Translation0
    BY <1>2 DEF OfTranslation
  <2>2. Translation0 + 0 = Translation0
    BY Sizes
  <2>. QED
    BY <1>1, <2>1, <2>2 DEF Taken
<1>3. CASE ~Intact(Mapping, cr3)
  BY <1>3 DEF Paging, Mapped, SwapOk
<1>. QED
  BY <1>2, <1>3

LEMMA SentPaging ==
    ASSUME Paging, ~failed, NEW w, IsWalk(w), NEW inMshr, warm => inMshr, SendToDram(w, inMshr),
           w.init \in 1..Levels, w.level \in 1..w.init, cr3 # NoFrame,
           \A i \in 2..w.init : Hits(i, w.page) = {},
           BlockOk(w), Intact(Mapping, cr3) => OfTranslation(Mapping, w.block[1]),
           UNCHANGED <<paging, pscl, stlb, dram, stlbMshr>>, Prefetches(pq')
    PROVE  Paging'
<1>1. /\ UNCHANGED <<tree, cr3, table, inverse, created, pscl, stlb, dram, stlbMshr>>
      /\ UNCHANGED <<paging, stlb, pscl>> /\ UNCHANGED <<pscl, tree>>
  BY DEF paging
<1>2. Mapped'
  BY <1>1, MappedFrame DEF Paging
<1>3. Cached'
  BY <1>1, CachedFrame DEF Paging
<1>4. Grows(tree, tree')
  BY <1>1, GrowsSame
<1>5. InDram'
  BY <1>1, <1>4, InDramNext DEF Paging
<1>6. Answered'
  <2>1. \A v \in DOMAIN stlbMshr' : stlbMshr'[v].returned =>
           v \in DOMAIN stlbMshr /\ stlbMshr[v].returned /\ stlbMshr'[v].data = stlbMshr[v].data
    BY <1>1
  <2>. QED
    BY <1>4, <2>1, AnsweredNext DEF Paging
<1>7. PICK d : d = [w EXCEPT !.level = @ - 1, !.returned = TRUE]
  OBVIOUS
<1>8. PICK s : s = [w EXCEPT !.returned = FALSE]
  OBVIOUS
<1>9. w.level \in Nat /\ w.init \in Nat
  BY Sizes
<1>10. \/ mshr' = {d} /\ failed' = failed
       \/ mshr' = {s} /\ failed' = failed
       \/ /\ failed' = TRUE /\ mshr' = mshr
          /\ \E kind : [kind |-> kind, block |-> w.block] \in dram
  BY <1>7, <1>8 DEF SendToDram
<1>11. \A i, v : Hits(i, v)' = Hits(i, v)
  BY <1>1 DEF Hits
<1>12. CASE mshr' = {d} /\ failed' = failed
  <2>1. /\ d.page = w.page /\ d.init = w.init /\ d.level = w.level - 1 /\ d.returned = TRUE
    BY <1>7, DoneFields
  <2>2. /\ w.level - 1 \in 0..w.init /\ w.level - 1 < w.init
    BY <1>9
  <2>3. WalkOk(d)'
    BY <1>11, <2>1, <2>2 DEF WalkOk
  <2>4. Walking' /\ WalkReadsEntry'
    BY <1>1, <1>12, <2>1, <2>3 DEF Walking, WalkReadsEntry
  <2>. QED
    BY <1>2, <1>3, <1>5, <1>6, <1>12, <2>4 DEF Paging, Prefetches
<1>13. CASE mshr' = {s} /\ failed' = failed
  <2>1. /\ s.page = w.page /\ s.init = w.init /\ s.level = w.level /\ s.returned = FALSE
        /\ s.type = w.type /\ s.block = w.block
    BY <1>8, SentFields
  <2>2. w.level \in 0..w.init /\ w.level > 0
    BY <1>9
  <2>3. WalkOk(s)'
    BY <1>11, <2>1, <2>2 DEF WalkOk
  <2>4. Walking'
    BY <1>1, <1>13, <2>3 DEF Walking
  <2>5. WalkReadsEntry'
    BY <1>1, <1>13, <2>1 DEF WalkReadsEntry, BlockOk, Entry
  <2>. QED
    BY <1>2, <1>3, <1>5, <1>6, <1>13, <2>4, <2>5 DEF Paging, Prefetches
<1>14. CASE /\ failed' = TRUE /\ mshr' = mshr
            /\ \E kind : [kind |-> kind, block |-> w.block] \in dram
  <2>1. Taken(Mapping, 0)
    BY <1>14, ServedTaken
  <2>2. Taken(Mapping, 0)'
    BY <1>1, <2>1, TakenFrame
  <2>3. Walking' /\ WalkReadsEntry'
    BY <1>1, <1>14, WalkingFrame DEF Paging
  <2>. QED
    BY <1>2, <1>3, <1>5, <1>6, <1>14, <2>2, <2>3 DEF Paging, Prefetches
<1>. QED
  BY <1>10, <1>12, <1>13, <1>14

LEMMA ReturnDataPaging ==
    ASSUME Sound, Paging, ~failed, ReturnData
    PROVE  Paging'
<1>1. PICK w \in mshr : ~w.returned /\ mshr' = {[w EXCEPT !.returned = TRUE, !.level = @ - 1]}
  BY DEF ReturnData
<1>2. PICK d : d = [w EXCEPT !.level = @ - 1, !.returned = TRUE]
  OBVIOUS
<1>3. mshr' = {d} /\ IsWalk(w)
  BY <1>1, <1>2 DEF Sound, TypeInv, AtMostOneWalk
<1>4. /\ d.page = w.page /\ d.init = w.init /\ d.level = w.level - 1 /\ d.returned = TRUE
  BY <1>2, <1>3, DoneFields
<1>5. /\ UNCHANGED <<tree, cr3, table, inverse, created, pscl, stlb, dram, stlbMshr, pq, failed>>
      /\ UNCHANGED <<paging, stlb, pscl>> /\ UNCHANGED <<pscl, tree>>
  BY DEF ReturnData, paging
<1>6. WalkOk(w) /\ cr3 # NoFrame
  BY <1>1 DEF Paging, Walking
<1>7. \A i, v : Hits(i, v)' = Hits(i, v)
  BY <1>5 DEF Hits
<1>8. WalkOk(d)'
  <2>1. w.init \in 1..Levels /\ w.level \in 0..w.init /\ w.level > 0 /\ w.init \in Nat
    BY <1>1, <1>6, Sizes DEF WalkOk
  <2>2. w.level - 1 \in 0..w.init /\ w.level - 1 < w.init
    BY <2>1
  <2>. QED
    BY <1>4, <1>6, <1>7, <2>1, <2>2 DEF WalkOk
<1>9. Walking' /\ WalkReadsEntry'
  BY <1>3, <1>4, <1>5, <1>6, <1>8 DEF Walking, WalkReadsEntry
<1>10. Mapped'
  BY <1>5, MappedFrame DEF Paging
<1>11. Cached'
  BY <1>5, CachedFrame DEF Paging
<1>12. Grows(tree, tree')
  BY <1>5, GrowsSame
<1>13. InDram'
  BY <1>5, <1>12, InDramNext DEF Paging
<1>14. Answered'
  <2>1. \A v \in DOMAIN stlbMshr' : stlbMshr'[v].returned =>
           v \in DOMAIN stlbMshr /\ stlbMshr[v].returned /\ stlbMshr'[v].data = stlbMshr[v].data
    BY <1>5
  <2>. QED
    BY <1>12, <2>1, AnsweredNext DEF Paging
<1>. QED
  BY <1>5, <1>9, <1>10, <1>11, <1>13, <1>14 DEF Paging

\* DRAM gets a block of a page that has a frame, and serves it.
LEMMA DramPaging ==
    ASSUME Paging, ~failed,
           \/ \E v \in Page : Access("read", v) \/ Access("write", v)
           \/ Serve \/ WarmupEnds
    PROVE  Paging'
<1>1. /\ UNCHANGED <<tree, cr3, table, inverse, created, pscl, stlb, mshr, stlbMshr, pq, failed>>
      /\ UNCHANGED <<paging, stlb, pscl>> /\ UNCHANGED <<pscl, tree>> /\ UNCHANGED <<mshr, cr3, pscl, tree>>
  BY DEF Access, Serve, WarmupEnds, paging, walker
<1>2. \/ dram' = dram \/ dram' = {}
      \/ \E v \in Page, kind \in {"read", "write"} : v \in DOMAIN table /\ dram' = {[kind |-> kind, block |-> <<table[v], 0>>]}
  BY DEF Access, Serve, WarmupEnds
<1>3. InDram'
  <2>1. CASE dram' = dram
    BY <1>1, <2>1, GrowsSame, InDramNext DEF Paging
  <2>2. CASE dram' = {}
    BY <2>2 DEF InDram
  <2>3. CASE \E v \in Page, kind \in {"read", "write"} : v \in DOMAIN table /\ dram' = {[kind |-> kind, block |-> <<table[v], 0>>]}
    <3>1. PICK v \in Page, kind \in {"read", "write"} : v \in DOMAIN table /\ dram' = {[kind |-> kind, block |-> <<table[v], 0>>]}
      BY <2>3
    <3>2. At(v, 1) \in DOMAIN tree /\ tree[At(v, 1)] = table[v]
      BY <3>1, MappingFields DEF Paging, Mapped, MapOk, TreeOk
    <3>3. Mapping'.tree = tree
      BY <1>1 DEF Mapping
    <3>4. Used(Mapping', table[v])
      BY <3>2, <3>3 DEF Used
    <3>5. \A d \in dram' : d.block[1] = table[v]
      BY <3>1
    <3>6. \A g : Used(Mapping, g)' <=> Used(Mapping', g)
      BY DEF Used
    <3>. QED
      BY <3>4, <3>5, <3>6 DEF InDram
  <2>. QED
    BY <1>2, <2>1, <2>2, <2>3
<1>4. Mapped'
  BY <1>1, MappedFrame DEF Paging
<1>5. Cached'
  BY <1>1, CachedFrame DEF Paging
<1>6. Walking' /\ WalkReadsEntry'
  BY <1>1, WalkingFrame DEF Paging
<1>7. Answered'
  <2>1. \A v \in DOMAIN stlbMshr' : stlbMshr'[v].returned =>
           v \in DOMAIN stlbMshr /\ stlbMshr[v].returned /\ stlbMshr'[v].data = stlbMshr[v].data
    BY <1>1
  <2>2. Grows(tree, tree')
    BY <1>1, GrowsSame
  <2>. QED
    BY <2>1, <2>2, AnsweredNext DEF Paging
<1>. QED
  BY <1>1, <1>3, <1>4, <1>5, <1>6, <1>7 DEF Paging

LEMMA DataOfAnswer ==
    ASSUME NEW x, IsMiss(x), NEW d,
           NEW y, y = [[x EXCEPT !.returned = TRUE] EXCEPT !.data = d]
    PROVE  y.data = d
<1>1. PICK z : z = [x EXCEPT !.returned = TRUE]
  OBVIOUS
<1>2. z \in [type : Types, returned : BOOLEAN, data : {x.data}]
  BY <1>1 DEF IsMiss
<1>3. y = [z EXCEPT !.data = d]
  BY <1>1
<1>. QED
  BY <1>2, <1>3

LEMMA ReturnAnswered ==
    ASSUME Sound, Answered, Grows(tree, tree'), NEW v \in DOMAIN stlbMshr, NEW data,
           ReturnToStlb(v, data),
           data = Dropped \/ (At(v, 1) \in DOMAIN tree' /\ data = tree'[At(v, 1)])
    PROVE  Answered'
<1>1. IsMiss(stlbMshr[v])
  BY DEF Sound, TypeInv, MissTable
<1>2. PICK x : x = stlbMshr[v]
  OBVIOUS
<1>3. PICK e : e = [[x EXCEPT !.returned = TRUE] EXCEPT !.data = data]
  OBVIOUS
<1>4. e.data = data
  BY <1>1, <1>2, <1>3, DataOfAnswer
<1>5. stlbMshr' = [stlbMshr EXCEPT ![v] = e]
  BY <1>2, <1>3 DEF ReturnToStlb
<1>6. ASSUME NEW u \in DOMAIN stlbMshr', stlbMshr'[u].returned
      PROVE  \/ u \in DOMAIN stlbMshr /\ stlbMshr[u].returned /\ stlbMshr'[u].data = stlbMshr[u].data
             \/ stlbMshr'[u].data = Dropped
             \/ At(u, 1) \in DOMAIN tree' /\ stlbMshr'[u].data = tree'[At(u, 1)]
  <2>1. CASE u = v
    <3>1. stlbMshr'[u].data = data
      BY <1>4, <1>5, <2>1
    <3>. QED
      BY <2>1, <3>1
  <2>2. CASE u # v
    BY <1>5, <1>6, <2>2
  <2>. QED
    BY <2>1, <2>2
<1>. QED
  BY <1>6, AnsweredNext

\* A walk ends with an answer, or never starts: what is mapped then is m.
LEMMA FinishPaging ==
    ASSUME Sound, Paging, ~failed, NEW v \in Page, v \in DOMAIN stlbMshr,
           NEW m, MapOk(m), Grows(tree, m.tree), SwapOk(m, cr3'), Populated(m),
           cr3' \in Nat \ {0}, NEW from \in 1..Levels, \A i \in 2..from : Hits(i, v) = {},
           \A i \in 1..Levels : At(v, i) \in DOMAIN m.tree,
           SetMapping(m), stlb' = m.stlb, FilledWith(pscl', m.tree, v, from),
           ReturnToStlb(v, Entry(m.tree, v, 1)),
           mshr' = {}, UNCHANGED <<dram, failed>>, Prefetches(pq')
    PROVE  Paging'
<1>1. Mapped'
  BY MappedNext
<1>2. TreeOk(m) /\ tree' = m.tree
  BY DEF MapOk, SetMapping
<1>3. Cached'
  <2>1. \A i \in 2..from : i \in 1..Levels
    BY Sizes
  <2>. QED
    BY <1>2, <2>1, CachedNext DEF Paging
<1>4. Grows(tree, tree')
  BY <1>2
<1>5. Answered'
  <2>1. At(v, 1) \in DOMAIN m.tree
    BY Sizes
  <2>2. Entry(m.tree, v, 1) = m.tree[At(v, 1)]
    BY <1>2, <2>1, EntryIs
  <2>. QED
    BY <1>2, <1>4, <2>1, <2>2, ReturnAnswered DEF Paging
<1>6. Walking' /\ WalkReadsEntry'
  BY NoWalk
<1>7. InDram'
  BY <1>4, InDramNext DEF Paging
<1>. QED
  BY <1>1, <1>3, <1>5, <1>6, <1>7 DEF Paging, Prefetches

LEMMA FirstWalkPaging ==
    ASSUME Sound, Paging, ~failed, NEW req, req.page \in Page, req.page \in DOMAIN stlbMshr,
           FirstWalk(req), mshr = {}, UNCHANGED dram, Prefetches(pq')
    PROVE  Paging'
<1>. DEFINE v == req.page
            r == MapRoot(Mapping)
            base == r.table[Translation0 + Mapping.created]
            m == HandlePageFault(r, v, Levels)
<1>1. /\ cr3 = NoFrame /\ SetMapping(m) /\ stlb' = m.stlb
      /\ cr3' = r.table[Translation0 + created] /\ pscl' = FillPscls(m.tree, v, Levels)
      /\ ReturnToStlb(v, Entry(m.tree, v, 1)) /\ mshr' = mshr /\ failed' = failed
  BY DEF FirstWalk
<1>2. MapOk(Mapping) /\ Unmapped(Mapping) /\ \A i \in 2..Levels : pscl[i] = << >>
  BY <1>1 DEF Paging, Mapped
<1>3. /\ MapOk(r) /\ SwapOk(r, base) /\ base \in Nat \ {0} /\ DOMAIN r.tree = {}
      /\ r.created = 1 /\ Cardinality(DOMAIN r.inverse) = 1
  BY <1>2, RootMapped
<1>4. cr3' = base
  BY <1>1, MappingFields
<1>5. FilledWith(pscl', m.tree, v, Levels)
  BY <1>1 DEF FilledWith
<1>. HIDE DEF r, base, m, v
<1>6. Faulted(r, m, v, base)
  <2>1. Levels \in 1..Levels /\ \A k \in 1..Levels : At(v, k) \in DOMAIN r.tree <=> k > Levels
    BY <1>3, Sizes
  <2>2. r.created = 1 /\ Cardinality(DOMAIN r.inverse) <= 1 /\ v \in Page
    BY <1>3 DEF v
  <2>3. Faulted(r, HandlePageFault(r, v, Levels), v, base)
    BY <1>3, <2>1, <2>2, FaultMaps
  <2>. QED
    BY <2>3 DEF m
<1>7. Grows(tree, m.tree)
  BY <1>2, MappingFields DEF Grows, Unmapped
<1>8. \A i \in 2..Levels : Hits(i, v) = {}
  BY <1>2 DEF Hits
<1>9. v \in Page /\ v \in DOMAIN stlbMshr /\ Levels \in 1..Levels
  BY Sizes DEF v
<1>10. /\ SetMapping(m) /\ stlb' = m.stlb /\ ReturnToStlb(v, Entry(m.tree, v, 1))
       /\ mshr' = {} /\ UNCHANGED <<dram, failed>>
  BY <1>1
<1>11. MapOk(m) /\ SwapOk(m, cr3') /\ Populated(m) /\ cr3' \in Nat \ {0}
       /\ \A k \in 1..Levels : At(v, k) \in DOMAIN m.tree
  BY <1>3, <1>4, <1>6 DEF Faulted
<1>. QED
  BY <1>5, <1>7, <1>8, <1>9, <1>10, <1>11, FinishPaging

LEMMA StartWalkPaging ==
    ASSUME Paging, ~failed, NEW req \in Request, NEW offset, StartWalk(req, offset),
           \/ offset = Offset(req.page, HitLevel(req.page) - 1)
           \/ offset = 0 /\ req.type = Prefetch /\ HitLevel(req.page) = Levels,
           UNCHANGED <<cr3, dram>>, Prefetches(pq')
    PROVE  Paging'
<1>. DEFINE level == HitLevel(req.page) - 1
            w == [page |-> req.page, type |-> req.type, level |-> level, init |-> level,
                  block |-> <<HitBase(req.page), offset>>, returned |-> FALSE]
<1>1. SendToDram(w, warm) /\ UNCHANGED <<paging, pscl, stlbMshr, stlb>>
  BY DEF StartWalk
<1>2. IsWalk(w) /\ w.page = req.page /\ w.type = req.type /\ w.level = level /\ w.init = level
      /\ w.block = <<HitBase(req.page), offset>> /\ req.page \in Page
  BY DEF IsWalk, Request
<1>. HIDE DEF w
<1>3. /\ HitLevel(req.page) \in 2..(Levels + 1)
      /\ \A i \in 2..(HitLevel(req.page) - 1) : Hits(i, req.page) = {}
      /\ HitLevel(req.page) <= Levels => Hits(HitLevel(req.page), req.page) # {}
  BY HitLevelIs
<1>4. level \in 1..Levels /\ level \in 1..level /\ level + 1 = HitLevel(req.page)
  BY <1>3, Sizes
<1>5. cr3 # NoFrame
  <2>1. CASE HitLevel(req.page) <= Levels
    <3>1. HitLevel(req.page) \in 2..Levels /\ Hits(HitLevel(req.page), req.page) # {}
      BY <1>3, <2>1, Sizes
    <3>2. pscl[HitLevel(req.page)] # << >>
      BY <3>1 DEF Hits
    <3>. QED
      BY <3>1, <3>2 DEF Paging, Mapped
  <2>. QED
    BY <2>1 DEF StartWalk
<1>6. \/ HitLevel(req.page) = Levels + 1 /\ HitBase(req.page) = cr3
      \/ /\ HitLevel(req.page) \in 2..Levels
         /\ At(req.page, HitLevel(req.page)) \in DOMAIN tree
         /\ HitBase(req.page) = tree[At(req.page, HitLevel(req.page))]
  BY HitBaseIs DEF Paging
<1>7. HitBase(req.page) = IF level = Levels THEN cr3 ELSE Entry(tree, req.page, level + 1)
  <2>1. CASE HitLevel(req.page) = Levels + 1
    <3>1. level = Levels /\ ~(HitLevel(req.page) \in 2..Levels)
      BY <2>1, Sizes
    <3>. QED
      BY <1>6, <3>1
  <2>2. CASE HitLevel(req.page) \in 2..Levels
    <3>1. level # Levels /\ HitLevel(req.page) # Levels + 1
      BY <2>2, Sizes
    <3>. HIDE DEF level
    <3>. QED
      BY <1>4, <1>6, <2>2, <3>1 DEF Entry, At
  <2>. QED
    BY <1>6, <2>1, <2>2
<1>8. BlockOk(w)
  <2>1. HitLevel(req.page) = Levels => level = Levels - 1
    BY <1>4, Sizes
  <2>2. offset = Offset(req.page, level) \/ (offset = 0 /\ w.type = Prefetch /\ level = Levels - 1)
    BY <1>2, <2>1
  <2>. HIDE DEF level
  <2>. QED
    BY <1>2, <1>7, <2>2 DEF BlockOk
<1>9. Intact(Mapping, cr3) => OfTranslation(Mapping, w.block[1])
  <2>1. w.block[1] = HitBase(req.page)
    BY <1>2
  <2>2. CASE HitBase(req.page) = cr3
    BY <1>5, <2>1, <2>2 DEF Intact
  <2>3. CASE /\ HitLevel(req.page) \in 2..Levels
             /\ At(req.page, HitLevel(req.page)) \in DOMAIN tree
             /\ HitBase(req.page) = tree[At(req.page, HitLevel(req.page))]
    <3>1. At(req.page, HitLevel(req.page))[1] # 1
      BY <2>3 DEF At
    <3>. QED
      BY <2>1, <2>3, <3>1, MappingFields DEF Intact
  <2>. QED
    BY <1>6, <2>2, <2>3
<1>. HIDE DEF level
<1>10. /\ w.init \in 1..Levels /\ w.level \in 1..w.init /\ \A i \in 2..w.init : Hits(i, w.page) = {}
  BY <1>2, <1>3, <1>4 DEF level
<1>. QED
  BY <1>1, <1>2, <1>5, <1>8, <1>9, <1>10, SentPaging

LEMMA HandleQueuePaging ==
    ASSUME Sound, Paging, ~failed, HandleRq \/ HandlePq
    PROVE  Paging'
<1>1. /\ rq \in Seq(Request) /\ pq \in Seq(Request) /\ Distinct(rq) /\ Distinct(pq)
      /\ Unanswered(stlbMshr) = Pages(rq) \cup Pages(pq) \cup WalkPages(mshr)
  BY DEF Sound, TypeInv, NamedOnce
<1>2. Unanswered(stlbMshr) \subseteq DOMAIN stlbMshr /\ Prefetches(pq)
  BY DEF Unanswered, Paging, Prefetches
<1>3. CASE HandleRq
  <2>1. PICK req : req = Head(rq)
    OBVIOUS
  <2>2. /\ mshr = {} /\ rq # << >> /\ pq' = pq /\ UNCHANGED dram
        /\ FirstWalk(req) \/ StartWalk(req, Offset(req.page, HitLevel(req.page) - 1))
    BY <1>3, <2>1 DEF HandleRq
  <2>3. Head(rq) \in Request /\ Head(rq).page \in Pages(rq)
    BY <1>1, <2>2, TailPages
  <2>4. req \in Request /\ req.page \in DOMAIN stlbMshr /\ req.page \in Page /\ Prefetches(pq')
    BY <1>1, <1>2, <2>1, <2>2, <2>3 DEF Request
  <2>5. CASE FirstWalk(req)
    BY <2>2, <2>4, <2>5, FirstWalkPaging
  <2>6. CASE StartWalk(req, Offset(req.page, HitLevel(req.page) - 1))
    <3>1. cr3' = cr3
      BY <2>6 DEF StartWalk, paging
    <3>2. PICK o : o = Offset(req.page, HitLevel(req.page) - 1)
      OBVIOUS
    <3>3. StartWalk(req, o)
      BY <2>6, <3>2
    <3>. QED
      BY <2>2, <2>4, <3>1, <3>2, <3>3, StartWalkPaging
  <2>. QED
    BY <2>2, <2>5, <2>6
<1>4. CASE HandlePq
  <2>1. PICK req : req = Head(pq)
    OBVIOUS
  <2>2. /\ mshr = {} /\ pq # << >> /\ pq' = Tail(pq) /\ UNCHANGED dram
        /\ FirstWalk(req) \/ StartWalk(req, PrefetchOffset(req.page))
    BY <1>4, <2>1 DEF HandlePq
  <2>3. Head(pq) \in Request /\ Head(pq).page \in Pages(pq)
    BY <1>1, <2>2, TailPages
  <2>4. Prefetches(Tail(pq)) /\ Head(pq).type = Prefetch
    BY <1>1, <1>2, <2>2, TailPrefetch
  <2>5. /\ req \in Request /\ req.page \in DOMAIN stlbMshr /\ req.page \in Page /\ Prefetches(pq')
        /\ req.type = Prefetch
    BY <1>1, <1>2, <2>1, <2>2, <2>3, <2>4 DEF Request
  <2>6. CASE FirstWalk(req)
    BY <2>2, <2>5, <2>6, FirstWalkPaging
  <2>7. CASE StartWalk(req, PrefetchOffset(req.page))
    <3>1. cr3' = cr3
      BY <2>7 DEF StartWalk, paging
    <3>2. PICK o : o = PrefetchOffset(req.page)
      OBVIOUS
    <3>3. \/ o = Offset(req.page, HitLevel(req.page) - 1)
          \/ o = 0 /\ HitLevel(req.page) = Levels
      BY <3>2 DEF PrefetchOffset
    <3>4. StartWalk(req, o)
      BY <2>7, <3>2
    <3>. QED
      BY <2>2, <2>5, <3>1, <3>3, <3>4, StartWalkPaging
  <2>. QED
    BY <2>2, <2>6, <2>7
<1>. QED
  BY <1>3, <1>4

\* The level of a fault is the highest one without an entry.
LEMMA FaultLevelIs ==
    ASSUME NEW w, w.level \in Nat, MissingLevels(w) # {}
    PROVE  /\ FaultLevel(w) \in MissingLevels(w)
           /\ \A j \in MissingLevels(w) : j <= FaultLevel(w)
<1>. DEFINE S == {Levels - i : i \in MissingLevels(w)}
<1>1. MissingLevels(w) \subseteq Nat /\ \A i \in MissingLevels(w) : i <= Levels
  BY Sizes DEF MissingLevels
<1>2. S \subseteq Nat /\ S # {}
  BY <1>1, Sizes
<1>3. PICK x \in S : \A y \in S : x <= y
  BY <1>2, LeastExists
<1>4. PICK i \in MissingLevels(w) : x = Levels - i
  BY <1>3
<1>5. \A j \in MissingLevels(w) : Levels - i <= Levels - j
  BY <1>3, <1>4
<1>6. \A j \in MissingLevels(w) : j <= i
  BY <1>1, <1>5, Sizes
<1>. QED
  BY <1>6 DEF FaultLevel

LEMMA HandleMshrPaging ==
    ASSUME Sound, Paging, ~failed, HandleMshr
    PROVE  Paging'
<1>1. PICK w \in mshr : w.returned /\ (DropWalk(w) \/ FaultWalk(w) \/ CompleteWalk(w) \/ NextLevel(w))
  BY DEF HandleMshr
<1>2. UNCHANGED <<cr3, rq, pq, dram, warm>> /\ Prefetches(pq')
  BY DEF HandleMshr, Paging, Prefetches
<1>3. IsWalk(w) /\ WalkOk(w) /\ cr3 # NoFrame /\ w.page \in Page
  BY <1>1 DEF Sound, TypeInv, AtMostOneWalk, Paging, Walking, IsWalk
<1>4. /\ w.init \in 1..Levels /\ w.level \in 0..w.init /\ w.level < w.init
      /\ w.level \in Nat /\ w.init \in Nat /\ \A i \in 2..w.init : Hits(i, w.page) = {}
  BY <1>1, <1>3, Sizes DEF WalkOk
<1>5. w.page \in DOMAIN stlbMshr
  BY <1>1 DEF Sound, NamedOnce, WalkPages, Unanswered
<1>6. /\ MapOk(Mapping) /\ TreeOk(Mapping) /\ SwapOk(Mapping, cr3) /\ Populated(Mapping)
      /\ cr3 \in Nat \ {0}
  BY <1>3 DEF Paging, Mapped, MapOk, NoFrame
<1>7. \A i : (At(w.page, i) \in DOMAIN tree <=> Entry(tree, w.page, i) # NoFrame)
             /\ (At(w.page, i) \in DOMAIN tree => Entry(tree, w.page, i) = tree[At(w.page, i)])
  BY <1>6, EntryIs, MappingFields
<1>8. CASE DropWalk(w)
  <2>1. /\ UNCHANGED <<tree, cr3, table, inverse, created, pscl, stlb, failed, dram>>
        /\ UNCHANGED <<paging, stlb, pscl>> /\ UNCHANGED <<pscl, tree>>
        /\ ReturnToStlb(w.page, Dropped) /\ mshr' = {}
    BY <1>2, <1>8 DEF DropWalk, paging
  <2>2. Mapped'
    BY <2>1, MappedFrame DEF Paging
  <2>3. Cached'
    BY <2>1, CachedFrame DEF Paging
  <2>4. Grows(tree, tree')
    BY <2>1, GrowsSame
  <2>5. Answered'
    <3>1. Answered
      BY DEF Paging
    <3>2. PICK d : d = Dropped
      OBVIOUS
    <3>3. ReturnToStlb(w.page, d)
      BY <2>1, <3>2
    <3>. QED
      BY <1>5, <2>4, <3>1, <3>2, <3>3, ReturnAnswered
  <2>6. Walking' /\ WalkReadsEntry'
    BY <2>1, NoWalk
  <2>7. InDram'
    BY <2>1, <2>4, InDramNext DEF Paging
  <2>. QED
    BY <1>2, <2>1, <2>2, <2>3, <2>5, <2>6, <2>7 DEF Paging, Prefetches
<1>9. ASSUME NEW m, FinishWalk(w, m), MapOk(m), Grows(tree, m.tree), SwapOk(m, cr3), Populated(m),
             \A i \in 1..Levels : At(w.page, i) \in DOMAIN m.tree
      PROVE  Paging'
  <2>1. /\ SetMapping(m) /\ stlb' = m.stlb /\ FilledWith(pscl', m.tree, w.page, w.init)
        /\ ReturnToStlb(w.page, Entry(m.tree, w.page, 1)) /\ mshr' = {} /\ UNCHANGED <<dram, failed>>
    BY <1>2, <1>9 DEF FinishWalk, FilledWith
  <2>2. SwapOk(m, cr3') /\ cr3' \in Nat \ {0}
    BY <1>2, <1>6, <1>9
  <2>3. PICK v \in Page : v = w.page
    BY <1>3
  <2>4. PICK from \in 1..Levels : from = w.init
    BY <1>4
  <2>. QED
    BY <1>2, <1>4, <1>5, <1>9, <2>1, <2>2, <2>3, <2>4, FinishPaging
<1>10. CASE FaultWalk(w)
  <2>1. PICK i : i = FaultLevel(w)
    OBVIOUS
  <2>2. MissingLevels(w) # {} /\ FinishWalk(w, HandlePageFault(Mapping, w.page, i))
    BY <1>10, <2>1 DEF FaultWalk
  <2>3. i \in MissingLevels(w) /\ \A j \in MissingLevels(w) : j <= i
    BY <1>4, <2>1, <2>2, FaultLevelIs
  <2>4. i \in 1..Levels /\ i >= w.level + 1 /\ Entry(tree, w.page, i) = NoFrame
    BY <1>4, <2>3, Sizes DEF MissingLevels
  <2>5. \A k \in 1..Levels : At(w.page, k) \in DOMAIN Mapping.tree <=> k > i
    <3>1. ASSUME NEW k \in 1..Levels, k > i PROVE At(w.page, k) \in DOMAIN tree
      <4>1. k \in (w.level + 1)..Levels /\ k \notin MissingLevels(w)
        BY <1>4, <2>3, <2>4, <3>1, Sizes
      <4>. QED
        BY <1>7, <4>1 DEF MissingLevels
    <3>2. ASSUME NEW k \in 1..Levels, ~(k > i), At(w.page, k) \in DOMAIN tree PROVE FALSE
      <4>1. i \in k..Levels
        BY <2>4, <3>2, Sizes
      <4>2. At(w.page, i) \in DOMAIN Mapping.tree
        BY <1>3, <1>6, <3>2, <4>1, AboveIsThere, MappingFields
      <4>. QED
        BY <1>7, <2>4, <4>2, MappingFields
    <3>. QED
      BY <3>1, <3>2, MappingFields
  <2>6. Faulted(Mapping, HandlePageFault(Mapping, w.page, i), w.page, cr3)
    BY <1>3, <1>6, <2>4, <2>5, FaultMaps
  <2>7. PICK m : m = HandlePageFault(Mapping, w.page, i)
    OBVIOUS
  <2>. QED
    BY <1>9, <2>2, <2>6, <2>7, MappingFields DEF Faulted
<1>11. CASE CompleteWalk(w)
  <2>1. FinishWalk(w, Mapping) /\ MissingLevels(w) = {} /\ w.level = 0
    BY <1>11 DEF CompleteWalk
  <2>2. \A i \in 1..Levels : At(w.page, i) \in DOMAIN tree
    <3>1. \A i \in 1..Levels : i \in (w.level + 1)..Levels
      BY <2>1, Sizes
    <3>. QED
      BY <1>7, <2>1, <3>1 DEF MissingLevels
  <2>3. PICK m : m = Mapping
    OBVIOUS
  <2>4. m.tree = tree /\ Grows(tree, m.tree)
    BY <2>3, MappingFields DEF Grows
  <2>. QED
    BY <1>6, <1>9, <2>1, <2>2, <2>3, <2>4
<1>12. CASE NextLevel(w)
  <2>1. PICK c : c = <<Entry(tree, w.page, w.level + 1), Offset(w.page, w.level)>>
    OBVIOUS
  <2>2. PICK n : n = [w EXCEPT !.block = c]
    OBVIOUS
  <2>3. SendToDram(n, TRUE) /\ w.level > 0 /\ MissingLevels(w) = {}
        /\ UNCHANGED <<tree, table, inverse, created, pscl, stlb, stlbMshr>>
    BY <1>12, <2>1, <2>2 DEF NextLevel
  <2>4. UNCHANGED <<paging, pscl, stlb, dram, stlbMshr>>
    BY <1>2, <2>3 DEF paging
  <2>5. /\ n.page = w.page /\ n.type = w.type /\ n.init = w.init /\ n.block = c
        /\ n.level = w.level
    BY <1>3, <2>2, BlockFields
  <2>6. IsWalk(n)
    BY <1>3, <2>2, WalkFields
  <2>7. /\ n.init \in 1..Levels /\ n.level \in 1..n.init /\ n.level # Levels
        /\ n.level + 1 \in (w.level + 1)..Levels
        /\ n.level + 1 # 1 /\ \A i \in 2..n.init : Hits(i, n.page) = {}
    BY <1>4, <2>3, <2>5, Sizes
  <2>8. BlockOk(n)
    BY <2>1, <2>5, <2>7 DEF BlockOk
  <2>9. Intact(Mapping, cr3) => OfTranslation(Mapping, n.block[1])
    <3>1. n.block[1] = Entry(tree, w.page, w.level + 1)
      BY <2>1, <2>5
    <3>2. At(w.page, w.level + 1) \in DOMAIN tree /\ n.block[1] = tree[At(w.page, w.level + 1)]
      BY <1>7, <2>3, <2>5, <2>7, <3>1 DEF MissingLevels
    <3>3. At(w.page, w.level + 1)[1] # 1
      BY <2>5, <2>7 DEF At
    <3>. QED
      BY <3>2, <3>3, MappingFields DEF Intact
  <2>. QED
    BY <1>2, <1>3, <2>3, <2>4, <2>6, <2>7, <2>8, <2>9, SentPaging
<1>. QED
  BY <1>1, <1>8, <1>10, <1>11, <1>12

LEMMA InitPaging ==
    ASSUME Init
    PROVE  Paging
<1>. PICK e : e = << >>
  OBVIOUS
<1>1. /\ tree = e /\ table = e /\ inverse = e /\ stlb = e /\ stlbMshr = e /\ pq = e
      /\ cr3 = NoFrame /\ created = 0 /\ mshr = {} /\ dram = {} /\ failed = FALSE
      /\ pscl = [i \in 2..Levels |-> e] /\ DOMAIN e = {} /\ e = [v \in DOMAIN e |-> e[v]]
      /\ 1..Len(e) = {}
  BY DEF Init
<1>2. PICK m : m = Mapping
  OBVIOUS
<1>3. /\ IsMapping(m) /\ m.tree = e /\ m.table = e /\ m.inverse = e /\ m.created = 0 /\ m.stlb = e
  BY <1>1, <1>2, MappingFields
<1>4. FramesOk(m)
  <2>1. 0 \in 0..DramPages /\ DOMAIN e = 1..0
    BY <1>1, Sizes
  <2>2. IsMap(e) /\ 0 \in Nat
    BY <1>1 DEF IsMap
  <2>. QED
    BY <1>1, <1>3, <2>1, <2>2 DEF FramesOk
<1>5. TreeOk(m) /\ StlbOk(m)
  BY <1>1, <1>3 DEF TreeOk, StlbOk, IsMap
<1>6. SwapOk(m, NoFrame) /\ Unmapped(m)
  BY <1>1, <1>3 DEF SwapOk, Intact, Unmapped
<1>7. Mapped
  <2>1. \A i \in 2..Levels : pscl[i] = << >>
    BY <1>1
  <2>2. MapOk(m) /\ NoFrame \in Nat
    BY <1>3, <1>4, <1>5 DEF MapOk, NoFrame
  <2>. QED
    BY <1>1, <1>2, <1>6, <2>1, <2>2 DEF Mapped
<1>8. Cached
  BY <1>1, PsclEmpty DEF Cached
<1>. QED
  BY <1>1, <1>7, <1>8 DEF Paging, Walking, WalkReadsEntry, Answered, InDram

PagingInv == IInv /\ Paging

LEMMA PagingNext ==
    ASSUME PagingInv, [Next]_vars
    PROVE  PagingInv'
<1>1. IInv'
  BY NextInv DEF PagingInv
<1>2. CASE UNCHANGED vars
  <2>1. /\ UNCHANGED <<tree, cr3, table, inverse, created, pscl, stlb, mshr, stlbMshr, pq, failed, dram>>
        /\ UNCHANGED <<paging, stlb, pscl>> /\ UNCHANGED <<pscl, tree>> /\ UNCHANGED <<mshr, cr3, pscl, tree>>
    BY <1>2 DEF vars, paging, walker
  <2>2. Mapped' /\ Cached' /\ Walking' /\ WalkReadsEntry' /\ Grows(tree, tree')
    BY <2>1, MappedFrame, CachedFrame, WalkingFrame, GrowsSame DEF PagingInv, Paging
  <2>3. InDram'
    BY <2>1, <2>2, InDramNext DEF PagingInv, Paging
  <2>4. Answered'
    BY <2>1 DEF PagingInv, Paging, Answered
  <2>5. failed' => Taken(Mapping, 0)'
    BY <2>1, TakenFrame DEF PagingInv, Paging
  <2>. QED
    BY <1>1, <2>1, <2>2, <2>3, <2>4, <2>5 DEF PagingInv, Paging
<1>3. CASE Next
  <2>1. ~failed /\ Sound /\ Paging
    BY <1>3 DEF Next, PagingInv, IInv
  <2>2. ASSUME NEW v \in Page, NEW type \in Types, Miss(v, type) PROVE Paging'
    BY <2>1, <2>2, MissPaging
  <2>3. ASSUME NEW v \in Page, NEW type \in Types, Merge(v, type) PROVE Paging'
    BY <2>1, <2>3, MergePaging
  <2>4. ASSUME NEW v \in Page, Fill(v) PROVE Paging'
    BY <2>1, <2>4, FillPaging
  <2>5. CASE Operate
    BY <1>1, <2>1, <2>5, HandleQueuePaging, HandleMshrPaging DEF Operate, PagingInv
  <2>6. CASE ReturnData
    BY <1>1, <2>1, <2>6, ReturnDataPaging DEF PagingInv
  <2>7. CASE (\E v \in Page : Access("read", v) \/ Access("write", v)) \/ Serve \/ WarmupEnds
    BY <1>1, <2>1, <2>7, DramPaging DEF PagingInv
  <2>. QED
    BY <1>1, <1>3, <2>2, <2>3, <2>4, <2>5, <2>6, <2>7 DEF Next, PagingInv
<1>. QED
  BY <1>2, <1>3

LEMMA PagingInvariant == Spec => []PagingInv
<1>1. Init => PagingInv
  BY InitInv, InitPaging DEF PagingInv
<1>2. PagingInv /\ [Next]_vars => PagingInv'
  BY PagingNext
<1>. QED
  BY <1>1, <1>2, PTL DEF Spec

\* The four places that know a translation tell the same, through every
\* allocation, eviction and page swap (va_to_pa_ptw, handle_page_fault).
THEOREM PagingStaysConsistent == Spec => []PagingConsistent
<1>1. PagingInv => PagingConsistent
  <2>. SUFFICES ASSUME PagingInv PROVE PagingConsistent
    OBVIOUS
  <2>1. MapOk(Mapping) /\ Cached /\ Answered
    BY DEF PagingInv, Paging, Mapped
  <2>2. MapsInverse
    BY <2>1, MappingFields DEF MapsInverse, MapOk, FramesOk
  <2>3. PsclsAgree
    <3>1. \A i \in 2..Levels : DOMAIN pscl[i] = 1..Len(pscl[i])
      BY <2>1 DEF Cached, PsclOk
    <3>. QED
      BY <2>1, <3>1 DEF PsclsAgree, Cached, PsclOk
  <2>4. TranslationsAgree
    <3>. SUFFICES ASSUME NEW v \in Page,
                         NEW f \in ({Entry(tree, v, 1)} \ {NoFrame})
                            \cup ({stlbMshr[u].data : u \in {x \in {v} \cap DOMAIN stlbMshr : stlbMshr[x].returned}}
                                  \ {Dropped})
                            \cup {stlb[u] : u \in {v} \cap DOMAIN stlb}
                  PROVE  IF v \in DOMAIN table THEN f = table[v] ELSE Lost(v)
      BY DEF TranslationsAgree
    <3>1. TreeOk(Mapping) /\ StlbOk(Mapping)
      BY <2>1 DEF MapOk
    <3>2. /\ At(v, 1) \in DOMAIN tree => Entry(tree, v, 1) = tree[At(v, 1)] /\ Entry(tree, v, 1) # NoFrame
          /\ At(v, 1) \notin DOMAIN tree => Entry(tree, v, 1) = NoFrame
      BY <3>1, EntryIs, MappingFields DEF NoFrame
    <3>3. At(v, 1) \in DOMAIN tree /\ f = tree[At(v, 1)]
      <4>1. CASE f \in {Entry(tree, v, 1)} \ {NoFrame}
        BY <3>2, <4>1
      <4>2. CASE f \in {stlbMshr[u].data : u \in {x \in {v} \cap DOMAIN stlbMshr : stlbMshr[x].returned}}
                       \ {Dropped}
        BY <2>1, <4>2 DEF Answered
      <4>3. CASE f \in {stlb[u] : u \in {v} \cap DOMAIN stlb}
        BY <3>1, <4>3, MappingFields DEF StlbOk
      <4>. QED
        BY <4>1, <4>2, <4>3
    <3>4. CASE v \in DOMAIN table
      BY <3>1, <3>3, <3>4, MappingFields DEF TreeOk
    <3>5. CASE v \notin DOMAIN table
      BY <3>2, <3>3, <3>5 DEF Lost
    <3>. QED
      BY <3>4, <3>5
  <2>. QED
    BY <2>2, <2>3, <2>4 DEF PagingConsistent
<1>. QED
  BY <1>1, PagingInvariant, PTL

\* A walk reads the entry it is at; an assertion of add_rq, operate or
\* return_data fails only after a page swap changed the owner of a frame.
THEOREM WalksAreSound == Spec => []WalksSound
<1>1. PagingInv => WalksSound
  <2>. SUFFICES ASSUME PagingInv PROVE WalksSound
    OBVIOUS
  <2>1. WalkReadsEntry /\ MapOk(Mapping)
    BY DEF PagingInv, Paging, Mapped
  <2>2. ASSUME failed
        PROVE  \E f \in DOMAIN inverse : inverse[f] >= Translation0 /\ \E v \in Page :
                  Entry(tree, v, 1) = f /\ Lost(v)
    <3>1. PICK f \in DOMAIN inverse : inverse[f] >= Translation0 + 0 /\ Used(Mapping, f)
      BY <2>2, MappingFields DEF PagingInv, Paging, Taken
    <3>2. PICK v \in Page : At(v, 1) \in DOMAIN tree /\ tree[At(v, 1)] = f
      BY <3>1, MappingFields DEF Used
    <3>3. Entry(tree, v, 1) = f /\ Entry(tree, v, 1) # NoFrame
      BY <2>1, <3>2, EntryIs, MappingFields DEF MapOk, NoFrame
    <3>4. inverse[f] >= Translation0
      BY <3>1, Sizes
    <3>5. v \notin DOMAIN table
      <4>1. ASSUME v \in DOMAIN table PROVE FALSE
        <5>1. table[v] = f
          BY <2>1, <3>2, <4>1, MappingFields DEF MapOk, TreeOk
        <5>2. inverse[f] = v
          BY <2>1, <4>1, <5>1, MappingFields DEF MapOk, FramesOk
        <5>3. v < Translation0 /\ v \in Nat /\ Translation0 \in Nat
          BY Sizes
        <5>. QED
          BY <3>4, <5>2, <5>3
      <4>. QED
        BY <4>1
    <3>. QED
      BY <3>3, <3>4, <3>5 DEF Lost
  <2>. QED
    BY <2>1, <2>2 DEF WalksSound, FailsOnlyAfterSwap
<1>. QED
  BY <1>1, PagingInvariant, PTL
=============================================================================
