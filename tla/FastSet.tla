------------------------------- MODULE FastSet -------------------------------
(* fastset (src/inc/set.h): a set of indices that is a sorted array while it *)
(* has fewer than SMALL_SIZE members and a bit set from then on. Both share  *)
(* one union: the words of the bit set are garbage until smalltobit.         *)
EXTENDS Integers, FiniteSets, Functions, Sequences

CONSTANTS
    Set,            \* the fastsets of the program
    Member,         \* 0..(MAX_SIZE - 1)
    SmallSize,      \* SMALL_SIZE
    SmallerSize,    \* SMALLER_SIZE
    WordSize        \* 64

ASSUME FastSetAssumption ==
    /\ IsFiniteSet(Member) /\ Member = 0..(Cardinality(Member) - 1)
    /\ {SmallSize, SmallerSize, WordSize} \subseteq Nat \ {0}
    /\ SmallSize > 1

VARIABLES
    card,           \* number of members of a small set, SMALL_SIZE for a bit set
    values,         \* data.values[0..card - 1] of a small set
    bits            \* data.bits of a bit set

setVars == <<card, values, bits>>

IsSmall(s) == card[s] < SmallSize

-----------------------------------------------------------------------------
(* A set as a record, so that operations compose.                            *)

Rep(s) == [card |-> card[s], values |-> values[s], bits |-> bits[s]]

Store(s, r) ==
    /\ card' = [card EXCEPT ![s] = r.card]
    /\ values' = [values EXCEPT ![s] = r.values]
    /\ bits' = [bits EXCEPT ![s] = r.bits]

\* Where the loop of insert_small ends: at the first value that is not less.
Place(v, x) ==
    CHOOSE i \in 1..(Len(v) + 1) : /\ \A j \in 1..(i - 1) : v[j] < x
                                   /\ i <= Len(v) => v[i] >= x

\* insert_small: x is there already, or what is behind it moves by one.
InsertSmall(v, x) ==
    LET i == Place(v, x)
    IN  IF i <= Len(v) /\ v[i] = x THEN v
        ELSE [k \in 1..(Len(v) + 1) |-> IF k < i THEN v[k] ELSE IF k = i THEN x ELSE v[k - 1]]

\* smalltobit: the bits of the first words are cleared, then set one by one.
SmallToBit(r) == [card |-> SmallSize, values |-> << >>, bits |-> Range(r.values)]

Inserted(r, x) ==
    IF r.card = 0 THEN [r EXCEPT !.card = 1, !.values = <<x>>]
    ELSE IF r.card < SmallSize
    THEN LET v == InsertSmall(r.values, x)
             grown == [r EXCEPT !.card = Len(v), !.values = v]
         IN  IF Len(v) = SmallSize THEN SmallToBit(grown) ELSE grown
    ELSE [r EXCEPT !.bits = @ \cup {x}]

\* join of a small set inserts its values one by one.
InsertedAll(r, v) ==
    LET step[i \in 0..Len(v)] == IF i = 0 THEN r ELSE Inserted(step[i - 1], v[i])
    IN  step[Len(v)]

\* Fault: only whole words are joined.
WordsFault(n) == {x \in Member : x < (n \div WordSize) * WordSize}

\* The members in the first ((n | 63) + 1) / 64 words.
Words(n) == {x \in Member : x < (n \div WordSize + 1) * WordSize}

Joined(r, t, n) ==
    IF t.card = 0 THEN r
    ELSE IF t.card < SmallSize THEN InsertedAll(r, t.values)
    ELSE LET big == IF r.card < SmallSize THEN SmallToBit(r) ELSE r
         IN  [big EXCEPT !.bits = @ \cup (t.bits \cap Words(n))]

-----------------------------------------------------------------------------
SetInit ==
    /\ card = [s \in Set |-> 0]
    /\ values = [s \in Set |-> << >>]
    /\ bits = [s \in Set |-> {}]

Insert(s, x) == Store(s, Inserted(Rep(s), x))

\* n is the size of the queue the members are indices of.
Join(s, t) == s # t /\ Store(s, Joined(Rep(s), Rep(t), Cardinality(Member)))

SetNext ==
    \E s \in Set : (\E x \in Member : Insert(s, x)) \/ (\E t \in Set : Join(s, t))

SetSpec == SetInit /\ [][SetNext]_setVars

-----------------------------------------------------------------------------
(* search and expand.                                                        *)

\* One round of the binary search between begin and end, which count from 0;
\* Middle counts from 1, as the values do here.
Middle(r) == (r.begin + r.end) \div 2 + 1

\* Fault: the interval begins one too far behind the middle.
NextRangeFault(v, x, r) ==
    IF r.end < r.begin THEN r
    ELSE IF x < v[Middle(r)] THEN [r EXCEPT !.end = Middle(r) - 2]
    ELSE IF x > v[Middle(r)] THEN [r EXCEPT !.begin = Middle(r) + 1]
    ELSE r

NextRange(v, x, r) ==
    IF r.end < r.begin THEN r
    ELSE IF x < v[Middle(r)] THEN [r EXCEPT !.end = Middle(r) - 2]
    ELSE IF x > v[Middle(r)] THEN [r EXCEPT !.begin = Middle(r)]
    ELSE r

\* The loop stops when the interval is empty or x is in its middle; it has no
\* more rounds than there are values.
BinarySearch(v, x) ==
    LET look[k \in 0..Len(v)] ==
            IF k = 0 THEN [begin |-> 0, end |-> Len(v) - 1] ELSE NextRange(v, x, look[k - 1])
        last == look[Len(v)]
    IN  last.begin <= last.end /\ v[Middle(last)] = x

\* search_small_linear gives up at the first greater value.
LinearSearch(v, x) ==
    \E i \in DOMAIN v : v[i] = x /\ \A j \in 1..(i - 1) : v[j] <= x

Search(s, x) ==
    IF card[s] = 0 THEN FALSE
    ELSE IF card[s] = 1 THEN values[s][1] = x
    ELSE IF ~IsSmall(s) THEN x \in bits[s]
    ELSE IF card[s] < SmallerSize THEN LinearSearch(values[s], x)
    ELSE BinarySearch(values[s], x)

\* expand: what ITERATE_SET goes through.
Expanded(s) == IF IsSmall(s) THEN Range(values[s]) ELSE bits[s]

-----------------------------------------------------------------------------
(* Properties.                                                               *)

\* The fastsets are sets that grow as asked: no member is lost or appears by
\* itself when an array becomes a bit set, in insert or in join, or when a word
\* is joined that is partly in use.
Sets == INSTANCE GrowingSets WITH
    Name <- Set, Element <- Member, members <- [s \in Set |-> Expanded(s)]
ImplementsSets == Sets!Spec

\* search, linear, binary or by bit, finds the members and nothing else, and
\* an array holds no member twice: the core counts on both when it counts
\* dependences.
SearchExact ==
    \A s \in Set :
        /\ \A x \in Member : Search(s, x) <=> x \in Expanded(s)
        /\ IsSmall(s) => Cardinality(Expanded(s)) = card[s]
=============================================================================
