----------------------------- MODULE POptProofs -----------------------------
(***************************************************************************)
(* POpt for every graph, every cut of it into epochs and lines, and every  *)
(* size of the set.                                                        *)
(*                                                                         *)
(* The matrix is built by a recursion from the last epoch backwards.  Its  *)
(* values are known in closed form, the definition of the matrix in        *)
(* MatrixExact.  That form solves the equation of the recursion            *)
(* (RowSolves), and no other function does (OneSolution), so the matrix is *)
(* what the definition says.                                               *)
(***************************************************************************)
EXTENDS POpt, WellFoundedInduction, TLAPS

IsGraph(neigh) == neigh \in [Vertices -> SUBSET Vertices]

\* The vertices of an epoch that read the line.
Reads(neigh, line, epoch) == {u \in Readers(neigh, line) : EpochOf(u) = epoch}

\* LaterEpochs and EpochDistance, for a graph that is not registered yet.
Later(neigh, line, epoch) == {e \in Epochs : e > epoch /\ Reads(neigh, line, e) # {}}
Distance(neigh, line, epoch) ==
    IF Later(neigh, line, epoch) = {} THEN MaxReref
    ELSE Least({MaxReref, Least(Later(neigh, line, epoch)) - epoch})

SubEpochOf(u, epoch) == (u - epoch * EpochSize) \div SubEpochSize

\* A byte of the matrix in closed form.
ByteOf(neigh, line, epoch) ==
    IF Reads(neigh, line, epoch) = {} THEN Msb + Distance(neigh, line, epoch)
    ELSE IF epoch = NumEpochs - 1 THEN MaxReref
    ELSE SubEpochOf(LastReader(neigh, line, epoch), epoch)
Row(neigh, line) == [epoch \in Epochs |-> ByteOf(neigh, line, epoch)]

-----------------------------------------------------------------------------
(* Numbers. *)

LEMMA LeastExists ==
    ASSUME NEW S \in SUBSET Nat, S # {}
    PROVE  Least(S) \in S /\ \A y \in S : Least(S) <= y
<1>1. IsWellFoundedOn(OpToRel(<, Nat), Nat)
  BY NatLessThanWellFounded
<1>2. PICK x \in S : \A y \in S : ~(<<y, x>> \in OpToRel(<, Nat))
  BY <1>1, WFMin
<1>3. ASSUME NEW y \in S PROVE x <= y
  <2>1. y \in Nat /\ x \in Nat /\ ~(y < x)
    BY <1>2 DEF OpToRel
  <2>. QED
    BY <2>1
<1>. QED
  BY <1>3 DEF Least

\* The largest member is found through its distance from the end.
LEMMA LargestExists ==
    ASSUME NEW n \in Nat, NEW S \in SUBSET (0..n), S # {}
    PROVE  Largest(S) \in S /\ \A y \in S : Largest(S) >= y
<1>. DEFINE T == {n - y : y \in S}
<1>0. \A y \in S : y \in Nat /\ n - y \in Nat
  OBVIOUS
<1>1. T \in SUBSET Nat /\ T # {}
  BY <1>0
<1>2. PICK t \in T : \A u \in T : t <= u
  BY <1>1, LeastExists
<1>3. PICK x \in S : t = n - x
  BY <1>2
<1>4. ASSUME NEW y \in S PROVE x >= y
  <2>1. n - y \in T /\ t <= n - y
    BY <1>2
  <2>. QED
    BY <1>0, <1>3, <2>1
<1>. QED
  BY <1>4 DEF Largest

LEMMA Division ==
    ASSUME NEW a \in Nat, NEW b \in Nat \ {0}
    PROVE  /\ a \div b \in Nat
           /\ b * (a \div b) <= a /\ a < b * (a \div b + 1)
  OBVIOUS

LEMMA DivisionBelow ==
    ASSUME NEW a \in Nat, NEW b \in Nat \ {0}, NEW n \in Nat, a < n * b
    PROVE  a \div b < n
  OBVIOUS

LEMMA DivisionMonotone ==
    ASSUME NEW a \in Nat, NEW c \in Nat, NEW b \in Nat \ {0}, a <= c
    PROVE  a \div b <= c \div b
  OBVIOUS

LEMMA CeilCovers ==
    ASSUME NEW m \in Nat \ {0}, NEW n \in Nat \ {0}
    PROVE  Ceil(m, n) \in Nat \ {0} /\ Ceil(m, n) * n >= m
<1>1. (m + n - 1) \div n \in Nat /\ ((m + n - 1) \div n) * n >= m
  OBVIOUS
<1>2. (m + n - 1) \div n # 0
  <2>1. 0 * n = 0
    OBVIOUS
  <2>. QED
    BY <1>1, <2>1
<1>. QED
  BY <1>1, <1>2 DEF Ceil

LEMMA CeilMonotone ==
    ASSUME NEW m \in Nat \ {0}, NEW n \in Nat \ {0}, NEW k \in 1..n
    PROVE  Ceil(m, n) <= Ceil(m, k)
<1>1. (m + n - 1) \div n <= (m + k - 1) \div k
  OBVIOUS
<1>. QED
  BY <1>1 DEF Ceil

-----------------------------------------------------------------------------
(* The sizes. *)

LEMMA Sizes ==
    /\ NumNodes \in Nat \ {0} /\ NumEpochs \in Nat \ {0} /\ SubEpochs \in Nat \ {0}
    /\ EpochSize \in Nat \ {0} /\ SubEpochSize \in Nat \ {0} /\ NumLines \in Nat \ {0}
    /\ EpochSize * NumEpochs >= NumNodes /\ SubEpochSize * SubEpochs >= EpochSize
    /\ NumLines * LineVertices >= NumNodes /\ EpochSize <= NumLines
    /\ LineVertices \in Nat \ {0} /\ Offset \in Nat /\ Offset < LineVertices
    /\ MaxReref \in Nat \ {0} /\ Msb = MaxReref + 1 /\ SubEpochs <= Msb
    /\ Ways \in Nat \ {0}
<1>1. /\ NumNodes \in Nat \ {0} /\ NumEpochs \in Nat \ {0} /\ SubEpochs \in Nat \ {0}
      /\ LineVertices \in 1..NumEpochs /\ Offset \in Nat /\ Offset < LineVertices
      /\ MaxReref \in Nat \ {0} /\ SubEpochs <= MaxReref + 1 /\ Ways \in Nat \ {0}
  BY PoptAssumption
<1>2. LineVertices \in Nat \ {0}
  BY <1>1
<1>3. EpochSize \in Nat \ {0} /\ EpochSize * NumEpochs >= NumNodes
  BY <1>1, CeilCovers DEF EpochSize
<1>4. SubEpochSize \in Nat \ {0} /\ SubEpochSize * SubEpochs >= EpochSize
  BY <1>1, <1>3, CeilCovers DEF SubEpochSize
<1>5. NumLines \in Nat \ {0} /\ NumLines * LineVertices >= NumNodes
  BY <1>1, <1>2, CeilCovers DEF NumLines
<1>6. EpochSize <= NumLines
  BY <1>1, CeilMonotone DEF EpochSize, NumLines
<1>. QED
  BY <1>1, <1>2, <1>3, <1>4, <1>5, <1>6 DEF Msb

\* A vertex lies in one of the epochs and lines, and inside of its epoch.
LEMMA Places ==
    ASSUME NEW u \in Vertices
    PROVE  /\ u \in Nat /\ EpochOf(u) \in Epochs /\ LineOf(u) \in Lines
           /\ EpochOf(u) * EpochSize <= u /\ u < (EpochOf(u) + 1) * EpochSize
<1>1. u \in Nat /\ u < NumNodes
  BY Sizes DEF Vertices
<1>2. u < NumEpochs * EpochSize
  BY <1>1, Sizes
<1>3. u \div EpochSize \in Nat /\ u \div EpochSize < NumEpochs
  BY <1>1, <1>2, Sizes, DivisionBelow, Division
<1>4. u \div LineVertices \in Nat /\ u \div LineVertices < NumLines
  BY <1>1, Sizes, DivisionBelow, Division
<1>5. EpochSize * (u \div EpochSize) <= u /\ u < EpochSize * (u \div EpochSize + 1)
  BY <1>1, Sizes, Division
<1>. QED
  BY <1>1, <1>3, <1>4, <1>5, Sizes DEF EpochOf, LineOf, Epochs, Lines

\* The sub-epoch of a vertex in its epoch, counted from 0, is below MSB.
LEMMA SubEpochBelow ==
    ASSUME NEW u \in Vertices
    PROVE  /\ SubEpochOf(u, EpochOf(u)) \in 0..(SubEpochs - 1)
           /\ SubEpochOf(u, EpochOf(u)) \in 0..MaxReref
           /\ u - EpochOf(u) * EpochSize \in Nat
<1>. PICK e : e = EpochOf(u)
  OBVIOUS
<1>. PICK s \in Nat : s = EpochSize
  BY Sizes
<1>1. e \in Nat /\ u \in Nat /\ e * s <= u /\ u < (e + 1) * s
  BY Places, Sizes DEF Epochs
<1>2. u - e * s \in Nat /\ u - e * s < s
  <2>1. (e + 1) * s = e * s + s /\ e * s \in Nat
    BY <1>1
  <2>. QED
    BY <1>1, <2>1
<1>3. u - e * s < SubEpochs * SubEpochSize
  BY <1>2, Sizes
<1>4. (u - e * s) \div SubEpochSize \in Nat /\ (u - e * s) \div SubEpochSize < SubEpochs
  BY <1>2, <1>3, Sizes, DivisionBelow, Division
<1>. QED
  BY <1>2, <1>4, Sizes DEF SubEpochOf

-----------------------------------------------------------------------------
(* Readers and distances.                                                    *)

LEMMA ReadersOfEpoch ==
    ASSUME NEW neigh, IsGraph(neigh), NEW line, NEW epoch
    PROVE  /\ Reads(neigh, line, epoch) \subseteq Vertices
           /\ \A u \in Reads(neigh, line, epoch) : EpochOf(u) = epoch
  BY DEF IsGraph, Reads, Readers

LEMMA LastReaderIs ==
    ASSUME NEW neigh, IsGraph(neigh), NEW line, NEW epoch
    PROVE  /\ Reads(neigh, line, epoch) = {} <=> LastReader(neigh, line, epoch) = None
           /\ Reads(neigh, line, epoch) # {} =>
                 /\ LastReader(neigh, line, epoch) \in Reads(neigh, line, epoch)
                 /\ \A u \in Reads(neigh, line, epoch) : u <= LastReader(neigh, line, epoch)
<1>. PICK S : S = Reads(neigh, line, epoch)
  OBVIOUS
<1>1. LastReader(neigh, line, epoch) = Largest(S)
  BY DEF LastReader, Reads
<1>2. S \subseteq Vertices
  BY ReadersOfEpoch
<1>3. CASE S = {}
  BY <1>1, <1>3 DEF Largest
<1>4. CASE S # {}
  <2>1. NumNodes - 1 \in Nat /\ S \in SUBSET (0..(NumNodes - 1))
    BY <1>2, Sizes DEF Vertices
  <2>2. Largest(S) \in S /\ \A y \in S : Largest(S) >= y
    BY <1>4, <2>1, LargestExists
  <2>3. \A y \in S : y \in Nat
    BY <2>1
  <2>4. None \notin S /\ \A y \in S : y <= Largest(S)
    BY <2>2, <2>3 DEF None
  <2>. QED
    BY <1>1, <1>4, <2>2, <2>4
<1>. QED
  BY <1>3, <1>4

LEMMA LeastOfTwo ==
    ASSUME NEW a \in Nat, NEW b \in Nat
    PROVE  /\ a <= b => Least({a, b}) = a
           /\ b <= a => Least({a, b}) = b
<1>1. {a, b} \in SUBSET Nat /\ {a, b} # {}
  OBVIOUS
<1>2. Least({a, b}) \in {a, b} /\ Least({a, b}) <= a /\ Least({a, b}) <= b
  BY <1>1, LeastExists
<1>. QED
  BY <1>2

\* The epochs after one are those after the next one, and the next one.
LEMMA LaterStep ==
    ASSUME NEW neigh, NEW line, NEW epoch \in Epochs
    PROVE  /\ epoch = NumEpochs - 1 => Later(neigh, line, epoch) = {}
           /\ epoch # NumEpochs - 1 =>
                /\ epoch + 1 \in Epochs
                /\ Reads(neigh, line, epoch + 1) = {} =>
                      Later(neigh, line, epoch) = Later(neigh, line, epoch + 1)
                /\ Reads(neigh, line, epoch + 1) # {} =>
                      /\ epoch + 1 \in Later(neigh, line, epoch)
                      /\ \A e \in Later(neigh, line, epoch) : epoch + 1 <= e
<1>1. \A e \in Epochs : e \in Nat /\ e <= NumEpochs - 1
  BY Sizes DEF Epochs
<1>2. epoch = NumEpochs - 1 => Later(neigh, line, epoch) = {}
  <2>1. ASSUME epoch = NumEpochs - 1, NEW e \in Epochs, e > epoch PROVE FALSE
    BY <1>1, <2>1, Sizes
  <2>. QED
    BY <2>1 DEF Later
<1>3. CASE epoch # NumEpochs - 1
  <2>1. epoch + 1 \in Epochs
    BY <1>3, Sizes DEF Epochs
  <2>2. \A e \in Epochs : e > epoch <=> e = epoch + 1 \/ e > epoch + 1
    BY <1>1
  <2>3. epoch + 1 > epoch /\ ~(epoch + 1 > epoch + 1)
    BY <1>1
  <2>4. Reads(neigh, line, epoch + 1) = {} =>
           Later(neigh, line, epoch) = Later(neigh, line, epoch + 1)
    BY <2>2 DEF Later
  <2>5. Reads(neigh, line, epoch + 1) # {} => epoch + 1 \in Later(neigh, line, epoch)
    BY <2>1, <2>3 DEF Later
  <2>6. \A e \in Later(neigh, line, epoch) : epoch + 1 <= e
    BY <1>1 DEF Later
  <2>. QED
    BY <1>3, <2>1, <2>4, <2>5, <2>6
<1>. QED
  BY <1>2, <1>3

LEMMA DistanceIs ==
    ASSUME NEW neigh, NEW line, NEW epoch \in Epochs
    PROVE  /\ Distance(neigh, line, epoch) \in 1..MaxReref
           /\ Later(neigh, line, epoch) = {} => Distance(neigh, line, epoch) = MaxReref
           /\ \A l \in Later(neigh, line, epoch) :
                 (\A e \in Later(neigh, line, epoch) : l <= e) =>
                     Distance(neigh, line, epoch)
                        = IF l - epoch <= MaxReref THEN l - epoch ELSE MaxReref
<1>. PICK S : S = Later(neigh, line, epoch)
  OBVIOUS
<1>1. epoch \in Nat /\ S \in SUBSET Nat /\ \A e \in S : e > epoch
  BY Sizes DEF Later, Epochs
<1>2. MaxReref \in Nat /\ MaxReref > 0
  BY Sizes
<1>3. CASE S = {}
  BY <1>2, <1>3 DEF Distance
<1>4. CASE S # {}
  <2>1. PICK l : l = Least(S) /\ l \in S /\ \A y \in S : l <= y
    BY <1>1, <1>4, LeastExists
  <2>2. PICK d : d = l - epoch
    OBVIOUS
  <2>3. d \in Nat /\ d > 0
    BY <1>1, <2>1, <2>2
  <2>4. Distance(neigh, line, epoch) = Least({MaxReref, d})
    BY <1>4, <2>1, <2>2 DEF Distance
  <2>5. Distance(neigh, line, epoch) = IF d <= MaxReref THEN d ELSE MaxReref
    BY <1>2, <2>3, <2>4, LeastOfTwo
  <2>6. \A k \in S : (\A e \in S : k <= e) => k = l
    <3>1. \A k \in S : k \in Nat
      BY <1>1
    <3>. QED
      BY <2>1, <3>1
  <2>. QED
    BY <1>2, <1>4, <2>2, <2>3, <2>5, <2>6
<1>. QED
  BY <1>3, <1>4

\* The distance from an epoch, by that from the next one.
LEMMA DistanceStep ==
    ASSUME NEW neigh, NEW line, NEW epoch \in Epochs, epoch # NumEpochs - 1
    PROVE  /\ Reads(neigh, line, epoch + 1) # {} => Distance(neigh, line, epoch) = 1
           /\ Reads(neigh, line, epoch + 1) = {} =>
                Distance(neigh, line, epoch)
                  = IF Distance(neigh, line, epoch + 1) = MaxReref THEN MaxReref
                    ELSE Distance(neigh, line, epoch + 1) + 1
<1>1. epoch \in Nat /\ epoch + 1 \in Epochs /\ MaxReref \in Nat /\ MaxReref > 0
  BY LaterStep, Sizes DEF Epochs
<1>2. CASE Reads(neigh, line, epoch + 1) # {}
  <2>1. /\ epoch + 1 \in Later(neigh, line, epoch)
        /\ \A e \in Later(neigh, line, epoch) : epoch + 1 <= e
    BY <1>2, LaterStep
  <2>2. PICK l : l = epoch + 1
    OBVIOUS
  <2>3. Distance(neigh, line, epoch) = IF l - epoch <= MaxReref THEN l - epoch ELSE MaxReref
    BY <2>1, <2>2, DistanceIs
  <2>4. l - epoch = 1 /\ 1 <= MaxReref
    BY <1>1, <2>2
  <2>. QED
    BY <1>2, <2>3, <2>4
<1>3. CASE Reads(neigh, line, epoch + 1) = {}
  <2>. PICK S : S = Later(neigh, line, epoch + 1)
    OBVIOUS
  <2>. PICK a, b : a = Distance(neigh, line, epoch) /\ b = Distance(neigh, line, epoch + 1)
    OBVIOUS
  <2>1. Later(neigh, line, epoch) = S
    BY <1>3, LaterStep
  <2>2. CASE S = {}
    BY <1>1, <1>3, <2>1, <2>2, DistanceIs
  <2>3. CASE S # {}
    <3>1. S \in SUBSET Nat /\ \A e \in S : e > epoch + 1
      BY Sizes DEF Later, Epochs
    <3>2. PICK l \in S : \A y \in S : l <= y
      BY <2>3, <3>1, LeastExists
    <3>3. /\ a = IF l - epoch <= MaxReref THEN l - epoch ELSE MaxReref
          /\ b = IF l - (epoch + 1) <= MaxReref THEN l - (epoch + 1) ELSE MaxReref
      BY <1>1, <2>1, <3>2, DistanceIs
    <3>4. l \in Nat /\ l > epoch + 1
      BY <3>1
    <3>5. a = IF b = MaxReref THEN MaxReref ELSE b + 1
      BY <1>1, <3>3, <3>4
    <3>. QED
      BY <1>3, <3>5
  <2>. QED
    BY <2>2, <2>3
<1>. QED
  BY <1>2, <1>3

-----------------------------------------------------------------------------
(* The recursion. *)

\* The body of the recursion, where byte is known for the next epoch.
Step(neigh, line, epoch, byte) ==
    LET last == LastReader(neigh, line, epoch)
    IN  IF epoch = NumEpochs - 1
        THEN IF last # None THEN MaxReref ELSE Msb + MaxReref
        ELSE IF last # None
        THEN NoMsb((last - epoch * EpochSize) \div SubEpochSize)
        ELSE IF HasMsb(byte) THEN OneFurther(byte)
        ELSE Msb + 1

\* A value of the closed form has MSB exactly when nothing reads the line.
LEMMA ByteRange ==
    ASSUME NEW neigh, IsGraph(neigh), NEW line, NEW epoch \in Epochs
    PROVE  /\ Reads(neigh, line, epoch) = {} =>
                 ByteOf(neigh, line, epoch) \in (Msb + 1)..(Msb + MaxReref)
           /\ Reads(neigh, line, epoch) # {} => ByteOf(neigh, line, epoch) \in 0..MaxReref
<1>1. MaxReref \in Nat \ {0} /\ Msb = MaxReref + 1
  BY Sizes
<1>2. CASE Reads(neigh, line, epoch) = {}
  <2>1. PICK d \in 1..MaxReref : d = Distance(neigh, line, epoch)
    BY DistanceIs
  <2>2. ByteOf(neigh, line, epoch) = Msb + d
    BY <1>2, <2>1 DEF ByteOf
  <2>. QED
    BY <1>1, <1>2, <2>2
<1>3. CASE Reads(neigh, line, epoch) # {}
  <2>1. PICK u \in Vertices : u = LastReader(neigh, line, epoch) /\ EpochOf(u) = epoch
    BY <1>3, LastReaderIs, ReadersOfEpoch
  <2>2. SubEpochOf(u, epoch) \in 0..MaxReref
    BY <2>1, SubEpochBelow
  <2>3. ByteOf(neigh, line, epoch) \in {MaxReref, SubEpochOf(u, epoch)}
    BY <1>3, <2>1 DEF ByteOf
  <2>. QED
    BY <1>1, <1>3, <2>2, <2>3
<1>. QED
  BY <1>2, <1>3

LEMMA StepOfByte ==
    ASSUME NEW neigh, IsGraph(neigh), NEW line, NEW epoch \in Epochs, NEW byte,
           epoch # NumEpochs - 1 => byte = ByteOf(neigh, line, epoch + 1)
    PROVE  Step(neigh, line, epoch, byte) = ByteOf(neigh, line, epoch)
<1>1. MaxReref \in Nat \ {0} /\ Msb = MaxReref + 1
  BY Sizes
<1>. PICK last : last = LastReader(neigh, line, epoch)
  OBVIOUS
<1>2. Reads(neigh, line, epoch) = {} <=> last = None
  BY LastReaderIs
<1>3. CASE epoch = NumEpochs - 1
  <2>1. Distance(neigh, line, epoch) = MaxReref
    BY <1>3, LaterStep, DistanceIs
  <2>. QED
    BY <1>2, <1>3, <2>1 DEF Step, ByteOf
<1>4. CASE epoch # NumEpochs - 1 /\ last # None
  <2>1. last \in Vertices /\ EpochOf(last) = epoch
    BY <1>2, <1>4, LastReaderIs, ReadersOfEpoch
  <2>2. PICK s \in 0..MaxReref : s = (last - epoch * EpochSize) \div SubEpochSize
    BY <2>1, SubEpochBelow DEF SubEpochOf
  <2>3. s % Msb = s
    BY <1>1
  <2>4. Step(neigh, line, epoch, byte) = s
    BY <1>4, <2>2, <2>3 DEF Step, NoMsb
  <2>. QED
    BY <1>2, <1>4, <2>2, <2>4 DEF ByteOf, SubEpochOf
<1>5. CASE epoch # NumEpochs - 1 /\ last = None
  <2>1. epoch + 1 \in Epochs
    BY <1>5, LaterStep
  <2>2. ByteOf(neigh, line, epoch) = Msb + Distance(neigh, line, epoch)
    BY <1>2, <1>5 DEF ByteOf
  <2>3. Step(neigh, line, epoch, byte) = IF HasMsb(byte) THEN OneFurther(byte) ELSE Msb + 1
    BY <1>5 DEF Step
  <2>4. CASE Reads(neigh, line, epoch + 1) = {}
    <3>1. PICK d \in 1..MaxReref : d = Distance(neigh, line, epoch + 1)
      BY <2>1, DistanceIs
    <3>2. byte = Msb + d
      BY <1>5, <2>4, <3>1 DEF ByteOf
    <3>3. Distance(neigh, line, epoch) = IF d = MaxReref THEN MaxReref ELSE d + 1
      BY <1>5, <2>4, <3>1, DistanceStep
    <3>4. HasMsb(byte)
      BY <1>1, <3>2 DEF HasMsb
    <3>5. OneFurther(byte) = IF d = MaxReref THEN Msb + d ELSE Msb + d + 1
      BY <1>1, <3>2 DEF OneFurther
    <3>6. CASE d = MaxReref
      BY <2>2, <2>3, <3>3, <3>4, <3>5, <3>6
    <3>7. CASE d # MaxReref
      <4>1. Msb + (d + 1) = Msb + d + 1
        BY <1>1
      <4>. QED
        BY <2>2, <2>3, <3>3, <3>4, <3>5, <3>7, <4>1
    <3>. QED
      BY <3>6, <3>7
  <2>5. CASE Reads(neigh, line, epoch + 1) # {}
    <3>1. byte \in 0..MaxReref
      BY <1>5, <2>1, <2>5, ByteRange
    <3>2. ~HasMsb(byte)
      BY <1>1, <3>1 DEF HasMsb
    <3>3. Distance(neigh, line, epoch) = 1
      BY <1>5, <2>5, DistanceStep
    <3>. QED
      BY <2>2, <2>3, <3>2, <3>3
  <2>. QED
    BY <2>4, <2>5
<1>. QED
  BY <1>3, <1>4, <1>5

Solves(neigh, line, f) ==
    f = [epoch \in Epochs |-> Step(neigh, line, epoch, f[epoch + 1])]

LEMMA RowSolves ==
    ASSUME NEW neigh, IsGraph(neigh), NEW line
    PROVE  Solves(neigh, line, Row(neigh, line))
<1>. PICK f : f = Row(neigh, line)
  OBVIOUS
<1>1. f = [epoch \in Epochs |-> ByteOf(neigh, line, epoch)]
  BY DEF Row
<1>2. \A epoch \in Epochs : epoch # NumEpochs - 1 => f[epoch + 1] = ByteOf(neigh, line, epoch + 1)
  BY <1>1, LaterStep
<1>3. \A epoch \in Epochs : Step(neigh, line, epoch, f[epoch + 1]) = ByteOf(neigh, line, epoch)
  BY <1>2, StepOfByte
<1>. QED
  BY <1>1, <1>3 DEF Solves

\* The last epoch for which another solution differed would differ from its
\* own equation, since the next epoch agrees.
LEMMA OneSolution ==
    ASSUME NEW neigh, IsGraph(neigh), NEW line, NEW f, Solves(neigh, line, f)
    PROVE  f = Row(neigh, line)
<1>. DEFINE Wrong == {epoch \in Epochs : f[epoch] # ByteOf(neigh, line, epoch)}
<1>1. /\ f = [epoch \in Epochs |-> f[epoch]]
      /\ \A epoch \in Epochs : f[epoch] = Step(neigh, line, epoch, f[epoch + 1])
  BY DEF Solves
<1>2. CASE Wrong # {}
  <2>1. NumEpochs - 1 \in Nat /\ Wrong \in SUBSET (0..(NumEpochs - 1))
    BY Sizes DEF Epochs
  <2>2. PICK e : e = Largest(Wrong) /\ e \in Wrong /\ \A y \in Wrong : e >= y
    BY <1>2, <2>1, LargestExists
  <2>3. e \in Epochs /\ e \in Nat /\ ~(e >= e + 1)
    BY <2>1, <2>2
  <2>4. e # NumEpochs - 1 => f[e + 1] = ByteOf(neigh, line, e + 1)
    BY <2>2, <2>3, LaterStep
  <2>5. f[e] = ByteOf(neigh, line, e)
    BY <1>1, <2>3, <2>4, StepOfByte
  <2>. QED
    BY <2>2, <2>5
<1>3. CASE Wrong = {}
  <2>1. \A epoch \in Epochs : f[epoch] = ByteOf(neigh, line, epoch)
    BY <1>3
  <2>. QED
    BY <1>1, <2>1 DEF Row
<1>. QED
  BY <1>2, <1>3

LEMMA MatrixIsRows ==
    ASSUME NEW neigh, IsGraph(neigh)
    PROVE  ReRefMatrix(neigh) = [line \in Lines |-> Row(neigh, line)]
<1>1. ASSUME NEW line \in Lines PROVE ReRefMatrix(neigh)[line] = Row(neigh, line)
  <2>. PICK r : r = Row(neigh, line)
    OBVIOUS
  <2>1. Solves(neigh, line, r)
    BY RowSolves
  <2>2. Solves(neigh, line, ReRefMatrix(neigh)[line])
    BY <2>1 DEF Solves, Step, ReRefMatrix
  <2>. QED
    BY <2>2, OneSolution
<1>2. ReRefMatrix(neigh) = [line \in Lines |-> ReRefMatrix(neigh)[line]]
  BY DEF ReRefMatrix
<1>. QED
  BY <1>1, <1>2

-----------------------------------------------------------------------------
(* The invariant: the matrix, once it is built, is that of the graph, and    *)
(* the set holds blocks of the array or of other memory, each once.          *)

Blocks == {None} \cup Regular \cup {BlockOf(v) : v \in Vertices}

Unregistered == matrix = [line \in Lines |-> <<>>] /\ ~irregular
Built == matrix = [line \in Lines |-> Row(graph, line)]

IInv ==
    /\ IsGraph(graph)
    /\ Unregistered \/ Built
    /\ irregular \in BOOLEAN /\ curr_dst \in Vertices \cup {None}
    /\ blocks \in [WayIds -> [block : Blocks, used : BOOLEAN]]
    /\ \A w, u \in WayIds :
          blocks[w].block = blocks[u].block /\ blocks[w].block # None => w = u

LEMMA RegisteredIs ==
    ASSUME IInv
    PROVE  Registered <=> Built
<1>1. 0 \in Lines /\ 0 \in Epochs
  BY Sizes DEF Lines, Epochs
<1>2. CASE Unregistered
  <2>1. matrix[0] = <<>>
    BY <1>1, <1>2 DEF Unregistered
  <2>2. DOMAIN Row(graph, 0) = Epochs
    BY DEF Row
  <2>3. Row(graph, 0) # <<>>
    BY <1>1, <2>2
  <2>. QED
    BY <1>1, <2>1, <2>3 DEF Registered, Built
<1>3. CASE Built
  <2>1. \A line \in Lines : matrix[line] = Row(graph, line) /\ DOMAIN Row(graph, line) = Epochs
    BY <1>3 DEF Built, Row
  <2>2. \A line \in Lines : matrix[line] # <<>>
    BY <1>1, <2>1
  <2>. QED
    BY <1>3, <2>2 DEF Registered
<1>. QED
  BY <1>2, <1>3 DEF IInv

LEMMA InitInv ==
    ASSUME Init
    PROVE  IInv
<1>1. IsGraph(graph) /\ Unregistered /\ curr_dst \in Vertices \cup {None}
  BY DEF Init, IsGraph, Unregistered
<1>2. FreeBlock \in [block : Blocks, used : BOOLEAN] /\ FreeBlock.block = None
  BY DEF FreeBlock, Blocks
<1>3. blocks = [w \in WayIds |-> FreeBlock]
  BY DEF Init
<1>. QED
  BY <1>1, <1>2, <1>3 DEF IInv, Init

\* Whatever way is filled, with a block that no way holds.
LEMMA FillWayInv ==
    ASSUME IInv, NEW w, NEW a \in Vertices \cup Regular, BlockOf(a) \notin Held, FillWay(w, a)
    PROVE  IInv'
<1>1. /\ UNCHANGED <<graph, matrix, irregular, curr_dst>>
      /\ blocks' = IF w = Bypass THEN blocks
                   ELSE [blocks EXCEPT ![w] = [block |-> BlockOf(a), used |-> FALSE]]
  BY DEF FillWay
<1>. DEFINE e == [block |-> BlockOf(a), used |-> FALSE]
<1>2. e \in [block : Blocks, used : BOOLEAN] /\ e.block = BlockOf(a)
  <2>1. BlockOf(a) \in Blocks
    BY DEF Blocks, BlockOf
  <2>. QED
    BY <2>1
<1>. HIDE DEF e
<1>3. \A u \in WayIds : blocks[u].block # e.block
  BY <1>2 DEF Held
<1>4. blocks \in [WayIds -> [block : Blocks, used : BOOLEAN]]
  BY DEF IInv
<1>5. CASE blocks' = blocks
  BY <1>1, <1>5 DEF IInv, Unregistered, Built
<1>6. CASE blocks' = [blocks EXCEPT ![w] = e]
  <2>1. blocks' \in [WayIds -> [block : Blocks, used : BOOLEAN]]
    BY <1>2, <1>4, <1>6
  <2>2. \A u \in WayIds : blocks'[u] = IF u = w THEN e ELSE blocks[u]
    BY <1>4, <1>6
  <2>3. \A v, u \in WayIds :
           blocks'[v].block = blocks'[u].block /\ blocks'[v].block # None => v = u
    BY <1>3, <2>2 DEF IInv
  <2>. QED
    BY <1>1, <2>1, <2>3 DEF IInv, Unregistered, Built
<1>. QED
  BY <1>1, <1>5, <1>6 DEF e

LEMMA ReadHitInv ==
    ASSUME IInv, NEW w \in WayIds, ReadHit(w)
    PROVE  IInv'
<1>1. /\ UNCHANGED <<graph, matrix, irregular, curr_dst>>
      /\ blocks' = [blocks EXCEPT ![w].used = TRUE]
  BY DEF ReadHit
<1>2. PICK x : x = blocks[w]
  OBVIOUS
<1>3. PICK e : e = [x EXCEPT !.used = TRUE]
  OBVIOUS
<1>4. blocks \in [WayIds -> [block : Blocks, used : BOOLEAN]] /\ x \in [block : Blocks, used : BOOLEAN]
  BY <1>2 DEF IInv
<1>5. e \in [block : Blocks, used : BOOLEAN] /\ e.block = x.block
  BY <1>3, <1>4
<1>6. blocks' = [blocks EXCEPT ![w] = e]
  BY <1>1, <1>2, <1>3
<1>7. blocks' \in [WayIds -> [block : Blocks, used : BOOLEAN]]
  BY <1>4, <1>5, <1>6
<1>8. \A u \in WayIds : blocks'[u].block = blocks[u].block
  BY <1>2, <1>4, <1>5, <1>6
<1>. QED
  BY <1>1, <1>7, <1>8 DEF IInv, Unregistered, Built

LEMMA NextInv ==
    ASSUME IInv, [Next]_vars
    PROVE  IInv'
<1>1. CASE UNCHANGED vars
  BY <1>1 DEF vars, IInv, Unregistered, Built
<1>2. ASSUME NEW neigh \in Graphs, RegisterGraphs(neigh) PROVE IInv'
  <2>1. IsGraph(neigh)
    BY PoptAssumption DEF IsGraph
  <2>2. /\ graph' = neigh /\ matrix' = [line \in Lines |-> Row(neigh, line)]
        /\ UNCHANGED <<irregular, curr_dst, blocks>>
    BY <1>2, <2>1, MatrixIsRows DEF RegisterGraphs
  <2>3. IsGraph(graph)' /\ Built'
    BY <2>1, <2>2 DEF Built, IsGraph
  <2>. QED
    BY <2>2, <2>3 DEF IInv
<1>3. CASE UpdateRegBaseBound
  <2>1. Built /\ irregular' = TRUE /\ UNCHANGED <<graph, matrix, curr_dst, blocks>>
    BY <1>3, RegisteredIs DEF UpdateRegBaseBound
  <2>. QED
    BY <2>1 DEF IInv, Built
<1>4. ASSUME NEW dst \in Vertices, UpdateCurrDst(dst) PROVE IInv'
  BY <1>4 DEF UpdateCurrDst, IInv, Unregistered, Built
<1>5. ASSUME NEW a \in Accessed \cup Regular, Fill(a) \/ WriteBack(a) PROVE IInv'
  <2>1. a \in Vertices \cup Regular
    BY PoptAssumption
  <2>2. BlockOf(a) \notin Held /\ \E w : FillWay(w, a)
    BY <1>5 DEF Fill, WriteBack
  <2>. QED
    BY <2>1, <2>2, FillWayInv
<1>6. ASSUME NEW w \in WayIds, ReadHit(w) PROVE IInv'
  BY <1>6, ReadHitInv
<1>. QED
  BY <1>1, <1>2, <1>3, <1>4, <1>5, <1>6 DEF Next

LEMMA Invariant == Spec => []IInv
<1>1. Init => IInv
  BY InitInv
<1>2. IInv /\ [Next]_vars => IInv'
  BY NextInv
<1>. QED
  BY <1>1, <1>2, PTL DEF Spec

-----------------------------------------------------------------------------
(* The matrix, and the lookup in it.                                         *)

LEMMA ByteIs ==
    ASSUME IInv, Registered, NEW line \in Lines, NEW epoch \in Epochs
    PROVE  matrix[line][epoch] = ByteOf(graph, line, epoch)
  BY RegisteredIs DEF Built, Row

LEMMA DistanceOfGraph ==
    ASSUME IInv, NEW line, NEW epoch
    PROVE  EpochDistance(line, epoch) = Distance(graph, line, epoch)
<1>1. \A e : LastReader(graph, line, e) # None <=> Reads(graph, line, e) # {}
  BY LastReaderIs DEF IInv
<1>2. LaterEpochs(line, epoch) = Later(graph, line, epoch)
  BY <1>1 DEF LaterEpochs, Later
<1>. QED
  BY <1>2 DEF EpochDistance, Distance

\* The bytes are bytes, and the set holds a block once: what fill_cache puts
\* into a way was in no other, for every graph and every size.
THEOREM TypeCorrect == Spec => []TypeOK
<1>1. ASSUME IInv PROVE TypeOK
  <2>1. ASSUME Registered PROVE matrix \in [Lines -> [Epochs -> 0..(Msb + MaxReref)]]
    <3>1. \A line \in Lines, epoch \in Epochs : ByteOf(graph, line, epoch) \in 0..(Msb + MaxReref)
      <4>. SUFFICES ASSUME NEW line \in Lines, NEW epoch \in Epochs
                    PROVE  ByteOf(graph, line, epoch) \in 0..(Msb + MaxReref)
        OBVIOUS
      <4>1. \/ ByteOf(graph, line, epoch) \in (Msb + 1)..(Msb + MaxReref)
            \/ ByteOf(graph, line, epoch) \in 0..MaxReref
        BY <1>1, ByteRange DEF IInv
      <4>. QED
        BY <4>1, Sizes
    <3>2. matrix = [line \in Lines |-> Row(graph, line)]
      BY <1>1, <2>1, RegisteredIs DEF Built
    <3>. QED
      BY <3>1, <3>2 DEF Row
  <2>2. \A w \in WayIds :
           /\ blocks[w].block \in {None} \cup Regular \cup {BlockOf(v) : v \in Vertices}
           /\ blocks[w].used \in BOOLEAN
    BY <1>1 DEF IInv, Blocks
  <2>. QED
    BY <1>1, <2>1, <2>2 DEF IInv, TypeOK, IsGraph
<1>. QED
  BY <1>1, Invariant, PTL

\* createReRefMatrixInterIntra builds what the matrix is meant to say, for
\* every graph: the sub-epoch of the last read of an epoch, or the distance in
\* epochs to the next read, which stops at MAX_REREF and does not wrap around.
THEOREM MatrixIsExact == Spec => []MatrixExact
<1>1. ASSUME IInv PROVE MatrixExact
  <2>. SUFFICES ASSUME Registered, NEW line \in Lines, NEW epoch \in Epochs
                PROVE  IF Reads(graph, line, epoch) = {}
                       THEN matrix[line][epoch] = Msb + EpochDistance(line, epoch)
                       ELSE /\ ~HasMsb(matrix[line][epoch])
                            /\ epoch # NumEpochs - 1 =>
                               matrix[line][epoch]
                                 = (Largest(Reads(graph, line, epoch)) - epoch * EpochSize)
                                     \div SubEpochSize
    BY DEF MatrixExact, Reads
  <2>1. matrix[line][epoch] = ByteOf(graph, line, epoch)
    BY <1>1, ByteIs
  <2>2. CASE Reads(graph, line, epoch) = {}
    <3>1. ByteOf(graph, line, epoch) = Msb + Distance(graph, line, epoch)
      BY <2>2 DEF ByteOf
    <3>2. EpochDistance(line, epoch) = Distance(graph, line, epoch)
      BY <1>1, DistanceOfGraph
    <3>. QED
      BY <2>1, <2>2, <3>1, <3>2
  <2>3. CASE Reads(graph, line, epoch) # {}
    <3>1. ByteOf(graph, line, epoch) \in 0..MaxReref
      BY <1>1, <2>3, ByteRange DEF IInv
    <3>2. ~HasMsb(matrix[line][epoch])
      BY <2>1, <3>1, Sizes DEF HasMsb
    <3>3. LastReader(graph, line, epoch) = Largest(Reads(graph, line, epoch))
      BY DEF LastReader, Reads
    <3>4. epoch # NumEpochs - 1 =>
             ByteOf(graph, line, epoch) = SubEpochOf(LastReader(graph, line, epoch), epoch)
      BY <2>3 DEF ByteOf
    <3>. QED
      BY <2>1, <2>3, <3>2, <3>3, <3>4 DEF SubEpochOf
  <2>. QED
    BY <2>2, <2>3
<1>. QED
  BY <1>1, Invariant, PTL

\* The position in the epoch that next_access works out is never beyond that of
\* a vertex of this epoch that is still to come: it is measured from a point
\* that is not before the start of the epoch.
LEMMA PositionBefore ==
    ASSUME NEW u \in Vertices, curr_dst \in Vertices, EpochOf(u) = EpochOf(curr_dst),
           curr_dst <= u
    PROVE  CurrentSubEpoch <= SubEpochOf(u, EpochOf(curr_dst))
<1>. PICK e : e = EpochOf(curr_dst)
  OBVIOUS
<1>1. /\ e \in Nat /\ curr_dst \in Nat /\ u \in Nat
      /\ EpochSize \in Nat /\ NumLines \in Nat /\ SubEpochSize \in Nat \ {0}
      /\ EpochSize <= NumLines /\ u - e * EpochSize \in Nat
  BY Places, Sizes, SubEpochBelow DEF Epochs
<1>2. e * EpochSize <= e * NumLines /\ e * EpochSize \in Nat /\ e * NumLines \in Nat
  BY <1>1
<1>. PICK m, n : m = curr_dst - e * NumLines /\ n = u - e * EpochSize
  OBVIOUS
<1>3. m \in Int /\ n \in Nat /\ m <= n
  BY <1>1, <1>2
<1>4. n \div SubEpochSize \in Nat
  BY <1>1, <1>3, Division
<1>5. CASE m < 0
  <2>1. -m \in Nat /\ (-m) \div SubEpochSize \in Nat
    BY <1>1, <1>3, <1>5, Division
  <2>2. Quotient(m, SubEpochSize) = -((-m) \div SubEpochSize)
    BY <1>5 DEF Quotient
  <2>3. Quotient(m, SubEpochSize) <= n \div SubEpochSize
    BY <1>4, <2>1, <2>2
  <2>. QED
    BY <2>3 DEF CurrentSubEpoch, SubEpochOf
<1>6. CASE ~(m < 0)
  <2>1. m \in Nat
    BY <1>3, <1>6
  <2>2. m \div SubEpochSize <= n \div SubEpochSize
    BY <1>1, <1>3, <2>1, DivisionMonotone
  <2>. QED
    BY <1>6, <2>2 DEF CurrentSubEpoch, SubEpochOf, Quotient
<1>. QED
  BY <1>5, <1>6

LEMMA PositionAtMost ==
    ASSUME curr_dst \in Vertices
    PROVE  CurrentSubEpoch <= MaxReref /\ CurrentSubEpoch \in Int
<1>1. curr_dst \in Nat
  BY Places
<1>2. /\ CurrentSubEpoch <= SubEpochOf(curr_dst, EpochOf(curr_dst))
      /\ SubEpochOf(curr_dst, EpochOf(curr_dst)) \in 0..MaxReref
  BY <1>1, PositionBefore, SubEpochBelow
<1>. PICK e \in Nat : e = EpochOf(curr_dst)
  BY Places DEF Epochs
<1>3. CurrentSubEpoch \in Int
  <2>. PICK m : m = curr_dst - e * NumLines
    OBVIOUS
  <2>1. NumLines \in Nat /\ SubEpochSize \in Nat \ {0}
    BY Sizes
  <2>2. e * NumLines \in Nat
    BY <2>1
  <2>3. m \in Int
    BY <1>1, <2>2
  <2>4. CASE m < 0
    <3>1. (-m) \div SubEpochSize \in Nat
      BY <2>1, <2>3, <2>4, Division
    <3>. QED
      BY <2>4, <3>1 DEF CurrentSubEpoch, Quotient
  <2>5. CASE ~(m < 0)
    <3>1. m \in Nat /\ m \div SubEpochSize \in Nat
      BY <2>1, <2>3, <2>5, Division
    <3>. QED
      BY <2>5, <3>1 DEF CurrentSubEpoch, Quotient
  <2>. QED
    BY <2>4, <2>5
<1>4. MaxReref \in Nat
  BY Sizes
<1>. QED
  BY <1>2, <1>3, <1>4

LEMMA ReadLaterIs ==
    ASSUME IInv, Registered, curr_dst \in Vertices, NEW v \in Vertices,
           NEW u \in Reads(graph, LineOf(v), EpochOf(curr_dst)),
           curr_dst <= u \/ EpochOf(curr_dst) = NumEpochs - 1
    PROVE  ReadLater(v) /\ ~HasMsb(matrix[LineOf(v)][EpochOf(curr_dst)])
<1>. PICK e \in Epochs : e = EpochOf(curr_dst)
  BY Places
<1>. PICK line \in Lines : line = LineOf(v)
  BY Places
<1>. PICK byte : byte = matrix[line][e]
  OBVIOUS
<1>1. byte = ByteOf(graph, line, e) /\ IsGraph(graph)
  BY ByteIs DEF IInv
<1>2. byte \in 0..MaxReref
  BY <1>1, ByteRange
<1>3. ~HasMsb(byte)
  BY <1>2, Sizes DEF HasMsb
<1>4. byte >= CurrentSubEpoch
  <2>1. CASE e = NumEpochs - 1
    <3>1. byte = MaxReref
      BY <1>1, <2>1 DEF ByteOf
    <3>. QED
      BY <3>1, PositionAtMost, Sizes
  <2>2. CASE e # NumEpochs - 1
    <3>1. PICK last \in Vertices : /\ last = LastReader(graph, line, e)
                                   /\ EpochOf(last) = e /\ u <= last
      BY <1>1, LastReaderIs, ReadersOfEpoch
    <3>2. u \in Vertices /\ u \in Nat /\ last \in Nat /\ curr_dst \in Nat
      BY <1>1, ReadersOfEpoch, Places
    <3>3. curr_dst <= last
      BY <2>2, <3>1, <3>2
    <3>4. CurrentSubEpoch <= SubEpochOf(last, e)
      BY <3>1, <3>3, PositionBefore
    <3>5. byte = SubEpochOf(last, e)
      BY <1>1, <2>2, <3>1 DEF ByteOf
    <3>6. byte \in Int /\ CurrentSubEpoch \in Int
      BY <1>2, PositionAtMost, Sizes
    <3>. QED
      BY <3>4, <3>5, <3>6
  <2>. QED
    BY <2>1, <2>2
<1>. QED
  BY <1>3, <1>4 DEF ReadLater

\* next_access says 0 for a line the kernel is still to read in this epoch,
\* counts the epochs exactly for a line this epoch does not read, and never
\* looks behind the last epoch.  It needs vertices_per_line <= LLC_NUM_EPOCHS,
\* which makes an epoch no longer than numCacheLines.
THEOREM LookupIsSafe == Spec => []LookupSafe
<1>1. ASSUME IInv PROVE NextAccessSafe
  <2>. SUFFICES ASSUME Registered, curr_dst # None, NEW v \in Vertices,
                       NEW e, e = EpochOf(curr_dst)
                PROVE  /\ (\E u \in Reads(graph, LineOf(v), e) : u >= curr_dst) => NextAccess(v) = 0
                       /\ Reads(graph, LineOf(v), e) = {} =>
                             NextAccess(v) = EpochDistance(LineOf(v), e)
    BY DEF NextAccessSafe, Reads
  <2>1. curr_dst \in Vertices /\ e \in Epochs /\ LineOf(v) \in Lines
    BY <1>1, Places DEF IInv
  <2>2. ASSUME NEW u \in Reads(graph, LineOf(v), e), u >= curr_dst PROVE NextAccess(v) = 0
    <3>1. u \in Nat /\ curr_dst \in Nat
      BY <1>1, <2>1, ReadersOfEpoch, Places DEF IInv
    <3>2. curr_dst <= u
      BY <2>2, <3>1
    <3>3. ReadLater(v) /\ ~HasMsb(matrix[LineOf(v)][EpochOf(curr_dst)])
      BY <1>1, <2>1, <3>2, ReadLaterIs
    <3>. QED
      BY <3>3 DEF NextAccess
  <2>3. ASSUME Reads(graph, LineOf(v), e) = {}
        PROVE  NextAccess(v) = EpochDistance(LineOf(v), e)
    <3>1. PICK d \in 1..MaxReref : d = Distance(graph, LineOf(v), e)
      BY <2>1, DistanceIs
    <3>2. matrix[LineOf(v)][e] = Msb + d
      BY <1>1, <2>1, <2>3, <3>1, ByteIs DEF ByteOf
    <3>3. HasMsb(Msb + d) /\ (Msb + d) % Msb = d
      <4>1. Msb \in Nat \ {0} /\ d \in Nat /\ d < Msb
        BY <3>1, Sizes
      <4>2. (Msb + d) % Msb = d
        BY <4>1
      <4>. QED
        BY <4>1, <4>2 DEF HasMsb
    <3>4. NextAccess(v) = d
      BY <3>2, <3>3 DEF NextAccess, NoMsb
    <3>. QED
      BY <1>1, <3>1, <3>4, DistanceOfGraph
  <2>. QED
    BY <2>2, <2>3
<1>2. ASSUME IInv PROVE LookupInBounds
  <2>. SUFFICES ASSUME Registered, EpochOf(curr_dst) = NumEpochs - 1, NEW v \in Vertices,
                       ~HasMsb(matrix[LineOf(v)][NumEpochs - 1])
                PROVE  ReadLater(v)
    BY DEF LookupInBounds
  <2>1. curr_dst \in Vertices
    <3>1. (-1) \div EpochSize # NumEpochs - 1
      BY Sizes
    <3>. QED
      BY <1>2, <3>1 DEF IInv, None, EpochOf
  <2>2. NumEpochs - 1 \in Epochs /\ LineOf(v) \in Lines
    BY Places, Sizes DEF Epochs
  <2>3. Reads(graph, LineOf(v), NumEpochs - 1) # {}
    <3>1. SUFFICES ASSUME Reads(graph, LineOf(v), NumEpochs - 1) = {} PROVE FALSE
      OBVIOUS
    <3>2. matrix[LineOf(v)][NumEpochs - 1] \in (Msb + 1)..(Msb + MaxReref)
      BY <1>2, <2>2, <3>1, ByteIs, ByteRange DEF IInv
    <3>. QED
      BY <3>2, Sizes DEF HasMsb
  <2>. QED
    BY <1>2, <2>1, <2>3, ReadLaterIs
<1>. QED
  BY <1>1, <1>2, Invariant, PTL DEF LookupSafe

-----------------------------------------------------------------------------
(* The victim.                                                               *)

LEMMA NextAccessIsNat ==
    ASSUME IInv, Registered, curr_dst \in Vertices, NEW v \in Vertices
    PROVE  NextAccess(v) \in Nat
<1>. PICK e \in Epochs : e = EpochOf(curr_dst)
  BY Places
<1>. PICK line \in Lines : line = LineOf(v)
  BY Places
<1>1. Msb \in Nat \ {0} /\ MaxReref \in Nat /\ IsGraph(graph)
  BY Sizes DEF IInv
<1>2. \A f \in Epochs : matrix[line][f] \in Nat
  <2>. SUFFICES ASSUME NEW f \in Epochs PROVE matrix[line][f] \in Nat
    OBVIOUS
  <2>1. \/ matrix[line][f] \in (Msb + 1)..(Msb + MaxReref)
        \/ matrix[line][f] \in 0..MaxReref
    BY <1>1, ByteIs, ByteRange
  <2>. QED
    BY <1>1, <2>1
<1>3. PICK byte \in Nat : byte = matrix[line][e]
  BY <1>2
<1>4. CASE HasMsb(byte)
  <2>1. byte % Msb \in Nat
    BY <1>1
  <2>. QED
    BY <1>3, <1>4, <2>1 DEF NextAccess, NoMsb
<1>5. CASE ~HasMsb(byte) /\ ReadLater(v)
  BY <1>3, <1>5 DEF NextAccess
<1>6. CASE ~HasMsb(byte) /\ ~ReadLater(v)
  <2>1. Reads(graph, line, e) # {}
    <3>1. SUFFICES ASSUME Reads(graph, line, e) = {} PROVE FALSE
      OBVIOUS
    <3>2. byte \in (Msb + 1)..(Msb + MaxReref)
      BY <1>1, <1>3, <3>1, ByteIs, ByteRange
    <3>. QED
      BY <1>1, <1>6, <3>2 DEF HasMsb
  <2>2. e # NumEpochs - 1
    BY <1>6, <2>1, ReadLaterIs
  <2>3. e + 1 \in Epochs
    BY <2>2, LaterStep
  <2>4. PICK next \in Nat : next = matrix[line][e + 1]
    BY <1>2, <2>3
  <2>5. InNextEpoch(next) \in Nat
    BY <1>1 DEF InNextEpoch
  <2>. QED
    BY <1>3, <1>6, <2>4, <2>5 DEF NextAccess
<1>. QED
  BY <1>4, <1>5, <1>6

\* A way with a block of the array has a distance.
LEMMA NextOfBlockIsNat ==
    ASSUME IInv, Registered, curr_dst \in Vertices, NEW w \in WayIds, IsIrregular(blocks[w].block)
    PROVE  NextOfBlock(blocks[w].block) \in Nat
<1>. PICK b : b = blocks[w].block
  OBVIOUS
<1>1. b \in Blocks /\ b \notin Regular /\ Start(b) >= 0
  BY DEF IInv, IsIrregular
<1>2. b # None
  <2>1. Start(None) < 0
    BY Sizes DEF Start, None
  <2>2. Start(None) \in Int
    BY Sizes DEF Start, None
  <2>. QED
    BY <1>1, <2>1, <2>2
<1>3. PICK v \in Vertices : BlockOf(v) = b
  BY <1>1, <1>2 DEF Blocks
<1>. DEFINE S == {NextAccess(u) : u \in Words(b)}
<1>4. v \in Words(b) /\ Words(b) \subseteq Vertices
  BY <1>3 DEF Words
<1>5. S \in SUBSET Nat /\ S # {}
  BY <1>4, NextAccessIsNat
<1>6. Least(S) \in Nat
  BY <1>5, LeastExists
<1>. QED
  BY <1>6 DEF NextOfBlock

\* The way that is chosen among blocks of the array is a way.
LEMMA FarthestIsWay ==
    ASSUME IInv, Registered, curr_dst \in Vertices,
           \A w \in WayIds : IsIrregular(blocks[w].block), NEW a, Farthest(a) # Bypass
    PROVE  Farthest(a) \in WayIds
<1>. DEFINE later == {w \in WayIds : NextReference(w) > NextAccess(a)}
            R == {NextReference(w) : w \in later}
            best == {w \in later : \A u \in later : NextReference(w) >= NextReference(u)}
<1>1. later # {} /\ Farthest(a) = Least(best)
  BY DEF Farthest
<1>2. Ways - 1 \in Nat /\ WayIds = 0..(Ways - 1)
  BY Sizes DEF WayIds
<1>3. \A w \in WayIds : NextReference(w) \in Nat /\ NextReference(w) <= NextReference(0)
  <2>. SUFFICES ASSUME NEW w \in WayIds
                PROVE  NextReference(w) \in Nat /\ NextReference(w) <= NextReference(0)
    OBVIOUS
  <2>. DEFINE S == {NextOfBlock(blocks[u].block) : u \in 0..w}
              Z == {NextOfBlock(blocks[u].block) : u \in 0..0}
  <2>1. 0..w \subseteq WayIds /\ 0 \in 0..w /\ 0..0 = {0} /\ 0 \in WayIds
    BY <1>2
  <2>2. \A u \in WayIds : NextOfBlock(blocks[u].block) \in Nat
    BY NextOfBlockIsNat
  <2>3. S \in SUBSET Nat /\ NextOfBlock(blocks[0].block) \in S
    BY <2>1, <2>2
  <2>4. Least(S) \in Nat /\ Least(S) <= NextOfBlock(blocks[0].block)
    BY <2>3, LeastExists
  <2>5. Z = {NextOfBlock(blocks[0].block)} /\ Z \in SUBSET Nat
    BY <2>1, <2>2
  <2>6. Least(Z) = NextOfBlock(blocks[0].block)
    BY <2>5, LeastExists
  <2>. QED
    BY <2>4, <2>6 DEF NextReference
<1>. PICK n \in Nat : n = NextReference(0)
  BY <1>2, <1>3
<1>4. \A w \in later : NextReference(w) \in 0..n
  BY <1>3
<1>5. R \in SUBSET (0..n) /\ R # {}
  BY <1>1, <1>4
<1>6. Largest(R) \in R /\ \A y \in R : Largest(R) >= y
  BY <1>5, LargestExists
<1>7. best # {}
  BY <1>6
<1>8. best \in SUBSET Nat
  BY <1>2
<1>9. Least(best) \in best
  BY <1>7, <1>8, LeastExists
<1>. QED
  BY <1>1, <1>9

\* A write back that misses always gets a way: the assertion of
\* handle_writeback that LLC does not bypass it holds for every matrix, every
\* set of blocks and every position of the kernel.
THEOREM WriteBackGetsWay == Spec => []WriteBackPlaced
<1>1. ASSUME IInv PROVE WriteBackPlaced
  <2>. SUFFICES ASSUME NEW a \in Accessed \cup Regular PROVE Victims(a, TRUE) \subseteq WayIds
    BY DEF WriteBackPlaced
  <2>. DEFINE unused == {w \in WayIds : ~blocks[w].used}
              regular == {w \in WayIds : ~IsIrregular(blocks[w].block)}
  <2>1. WayIds \in SUBSET Nat
    BY DEF WayIds
  <2>2. unused # {} => Least(unused) \in WayIds
    BY <2>1, LeastExists
  <2>3. regular # {} => Least(regular) \in WayIds
    BY <2>1, LeastExists
  <2>4. CASE ~irregular \/ curr_dst = None \/ a \in Regular
    BY <2>4 DEF Victims
  <2>5. CASE ~(~irregular \/ curr_dst = None \/ a \in Regular)
    <3>1. Registered /\ curr_dst \in Vertices
      BY <1>1, <2>5, RegisteredIs DEF IInv, Unregistered
    <3>2. CASE unused # {}
      BY <2>2, <2>5, <3>2 DEF Victims
    <3>3. CASE unused = {} /\ regular # {}
      BY <2>3, <2>5, <3>3 DEF Victims
    <3>4. CASE unused = {} /\ regular = {}
      <4>1. \A w \in WayIds : IsIrregular(blocks[w].block)
        BY <3>4
      <4>2. Farthest(a) # Bypass => Farthest(a) \in WayIds
        BY <1>1, <3>1, <4>1, FarthestIsWay
      <4>3. Victims(a, TRUE) = IF Farthest(a) = Bypass THEN WayIds ELSE {Farthest(a)}
        BY <2>5, <3>4 DEF Victims
      <4>. QED
        BY <4>2, <4>3
    <3>. QED
      BY <3>2, <3>3, <3>4
  <2>. QED
    BY <2>4, <2>5
<1>. QED
  BY <1>1, Invariant, PTL
=============================================================================
