-------------------------------- MODULE POpt --------------------------------
(***************************************************************************)
(* P-OPT, the replacement policy for graph kernels: the rereference matrix *)
(* (createReRefMatrixInterIntra, src/src/cache.cc), the lookup in it and   *)
(* the search for a victim (src/replacement/p-opt-intra.llc_repl), with    *)
(* one set of LLC blocks.                                                  *)
(*                                                                         *)
(* The kernel visits the vertices of a graph one after the other and reads *)
(* an element of the irregular array for each neighbour of the vertex it   *)
(* visits.  For every line of the array and every epoch of vertices, the   *)
(* matrix holds a byte: when the epoch reads the line, the sub-epoch of    *)
(* the last such read; otherwise MSB and the number of epochs until the    *)
(* line is read again.                                                     *)
(*                                                                         *)
(* Sets that no graph is registered for are run by DRRIP; its choice is    *)
(* left open.  Blocks that stay because the victim is dirty and the write  *)
(* queue of DRAM is full change nothing here.                              *)
(***************************************************************************)
EXTENDS Integers, FiniteSets

CONSTANTS
    NumNodes,       \* G.num_nodes()
    NumEpochs,      \* LLC_NUM_EPOCHS
    LineVertices,   \* vertices_per_line
    SubEpochs,      \* sub-epochs of an epoch
    MaxReref,       \* MAX_REREF
    Offset,         \* elements of a block before irreg_data_base
    Ways,           \* LLC_WAY
    Regular,        \* addresses outside of the irregular array, one for a block
    Graphs,         \* graphs a trace registers: the neighbours of every vertex
    Accessed        \* bound: the elements of the array that are accessed

Vertices == 0..(NumNodes - 1)

ASSUME PoptAssumption ==
    /\ NumNodes \in Nat \ {0} /\ NumEpochs \in Nat \ {0} /\ SubEpochs \in Nat \ {0}
    /\ Offset \in Nat /\ Ways \in Nat \ {0} /\ Regular \cap Int = {}
    /\ LineVertices \in 1..NumEpochs /\ Offset < LineVertices
    /\ MaxReref \in Nat \ {0} /\ SubEpochs <= MaxReref + 1
    /\ Graphs \subseteq [Vertices -> SUBSET Vertices] /\ Accessed \subseteq Vertices

VARIABLES
    graph, matrix,      \* LLC.matrix (the graph) and LLC.rerefMatrix
    irregular,          \* irreg_data_base is set
    curr_dst,           \* curr_dst_vertex
    blocks              \* the blocks of the set

vars == <<graph, matrix, irregular, curr_dst, blocks>>

None == -1

\* my_ceil, and division as C rounds it
Ceil(m, n) == (m + n - 1) \div n
Quotient(m, n) == IF m < 0 THEN -((-m) \div n) ELSE m \div n

Largest(S) == IF S = {} THEN None ELSE CHOOSE m \in S : \A n \in S : m >= n
Least(S) == CHOOSE m \in S : \A n \in S : m <= n

EpochSize == Ceil(NumNodes, NumEpochs)
SubEpochSize == Ceil(EpochSize, SubEpochs)
NumLines == Ceil(NumNodes, LineVertices)
Epochs == 0..(NumEpochs - 1)
Lines == 0..(NumLines - 1)

EpochOf(dst) == dst \div EpochSize
LineOf(v) == v \div LineVertices

\* A byte of the matrix: MSB and seven bits.
Msb == MaxReref + 1
HasMsb(byte) == byte >= Msb
NoMsb(byte) == byte % Msb

-----------------------------------------------------------------------------
(* The matrix. *)

\* The vertices that read line when they are visited.
Readers(neigh, line) == UNION {neigh[v] : v \in {u \in Vertices : LineOf(u) = line}}

\* Fault: the first reader of the epoch is kept.
LastReaderFault(neigh, line, epoch) ==
    LET readers == {u \in Readers(neigh, line) : EpochOf(u) = epoch}
    IN  IF readers = {} THEN None ELSE Least(readers)

\* tempReference
LastReader(neigh, line, epoch) ==
    Largest({u \in Readers(neigh, line) : EpochOf(u) = epoch})

\* An epoch further away; MaxReref stands for every longer distance.
OneFurther(byte) == IF byte = Msb + MaxReref THEN byte ELSE byte + 1

\* createReRefMatrixInterIntra, from the last epoch backwards
ReRefMatrix(neigh) ==
    [line \in Lines |->
        LET byte[epoch \in Epochs] ==
                LET last == LastReader(neigh, line, epoch)
                IN  IF epoch = NumEpochs - 1
                    THEN IF last # None THEN MaxReref ELSE Msb + MaxReref
                    ELSE IF last # None
                    THEN NoMsb((last - epoch * EpochSize) \div SubEpochSize)
                    ELSE IF HasMsb(byte[epoch + 1]) THEN OneFurther(byte[epoch + 1])
                    ELSE Msb + 1
        IN  byte]

\* next_access: the start of the epoch is taken to be epoch * numCacheLines
CurrentSubEpoch == Quotient(curr_dst - EpochOf(curr_dst) * NumLines, SubEpochSize)

\* Fault: the current sub-epoch is left out.
ReadLaterFault(v) == matrix[LineOf(v)][EpochOf(curr_dst)] > CurrentSubEpoch

\* The line of v is read in the current epoch, and not only before now.
ReadLater(v) == matrix[LineOf(v)][EpochOf(curr_dst)] >= CurrentSubEpoch

\* The result of next_access when it looks into the next epoch.
InNextEpoch(byte) ==
    IF ~HasMsb(byte) THEN 1
    ELSE IF byte = MaxReref THEN MaxReref
    ELSE byte + 1

\* next_access
NextAccess(v) ==
    LET row == matrix[LineOf(v)]
        epoch == EpochOf(curr_dst)
    IN  IF HasMsb(row[epoch]) THEN NoMsb(row[epoch])
        ELSE IF ReadLater(v) THEN 0
        ELSE InNextEpoch(row[epoch + 1])

-----------------------------------------------------------------------------
(* The victim. *)

BlockOf(a) == IF a \in Regular THEN a ELSE (a + Offset) \div LineVertices
Start(b) == b * LineVertices - Offset
Words(b) == {v \in Vertices : BlockOf(v) = b}

\* The block begins in the irregular array.
IsIrregular(b) == b \notin Regular /\ Start(b) >= 0

WayIds == 0..(Ways - 1)
Bypass == Ways
FreeBlock == [block |-> None, used |-> FALSE]

NextOfBlock(b) == Least({NextAccess(v) : v \in Words(b)})

\* The loop over the ways does not reset next_reference.
NextReference(w) == Least({NextOfBlock(blocks[u].block) : u \in 0..w})

\* The first way with the largest next_reference, if it exceeds that of v.
Farthest(v) ==
    LET later == {w \in WayIds : NextReference(w) > NextAccess(v)}
    IN  IF later = {} THEN Bypass
        ELSE Least({w \in later : \A u \in later : NextReference(w) >= NextReference(u)})

\* Fault: a write back may be turned away as well.
VictimsFault(a, writeback) ==
    LET unused == {w \in WayIds : ~blocks[w].used}
        regular == {w \in WayIds : ~IsIrregular(blocks[w].block)}
    IN  IF ~irregular \/ curr_dst = None \/ a \in Regular THEN WayIds
        ELSE IF unused # {} THEN {Least(unused)}
        ELSE IF regular # {} THEN {Least(regular)}
        ELSE {Farthest(a)}

\* llc_find_victim; DRRIP may choose any way.
Victims(a, writeback) ==
    LET unused == {w \in WayIds : ~blocks[w].used}
        regular == {w \in WayIds : ~IsIrregular(blocks[w].block)}
    IN  IF ~irregular \/ curr_dst = None \/ a \in Regular THEN WayIds
        ELSE IF unused # {} THEN {Least(unused)}
        ELSE IF regular # {} THEN {Least(regular)}
        ELSE IF Farthest(a) = Bypass /\ writeback THEN WayIds
        ELSE {Farthest(a)}

-----------------------------------------------------------------------------
(* The trace: PIN_registerGraphs, PIN_updateRegBaseBound, then             *)
(* PIN_updateCurrDst for the vertices in the order of the kernel, which is *)
(* any order for BFSKernel.  The calls take effect when the instruction is *)
(* read from the trace, so they are in no order with the accesses to LLC.  *)

Init ==
    /\ graph = [v \in Vertices |-> {}] /\ matrix = [line \in Lines |-> <<>>]
    /\ irregular = FALSE /\ curr_dst = None
    /\ blocks = [w \in WayIds |-> FreeBlock]

Registered == \A line \in Lines : matrix[line] # <<>>

RegisterGraphs(neigh) ==
    /\ ~Registered /\ graph' = neigh /\ matrix' = ReRefMatrix(neigh)
    /\ UNCHANGED <<irregular, curr_dst, blocks>>

UpdateRegBaseBound ==
    /\ Registered /\ irregular' = TRUE
    /\ UNCHANGED <<graph, matrix, curr_dst, blocks>>

UpdateCurrDst(dst) ==
    /\ irregular /\ curr_dst' = dst
    /\ UNCHANGED <<graph, matrix, irregular, blocks>>

Held == {blocks[w].block : w \in WayIds}

\* fill_cache; a bypass leaves the set alone.
FillWay(w, a) ==
    /\ blocks' = IF w = Bypass THEN blocks
                 ELSE [blocks EXCEPT ![w] = [block |-> BlockOf(a), used |-> FALSE]]
    /\ UNCHANGED <<graph, matrix, irregular, curr_dst>>

\* handle_fill
Fill(a) == BlockOf(a) \notin Held /\ \E w \in Victims(a, FALSE) : FillWay(w, a)

\* handle_writeback, on a miss
WriteBack(a) == BlockOf(a) \notin Held /\ \E w \in Victims(a, TRUE) : FillWay(w, a)

\* handle_read, on a hit
ReadHit(w) ==
    /\ blocks[w] # FreeBlock /\ blocks' = [blocks EXCEPT ![w].used = TRUE]
    /\ UNCHANGED <<graph, matrix, irregular, curr_dst>>

Next ==
    \/ \E neigh \in Graphs : RegisterGraphs(neigh)
    \/ UpdateRegBaseBound
    \/ \E dst \in Vertices : UpdateCurrDst(dst)
    \/ \E a \in Accessed \cup Regular : Fill(a) \/ WriteBack(a)
    \/ \E w \in WayIds : ReadHit(w)

Spec == Init /\ [][Next]_vars

-----------------------------------------------------------------------------
(* Properties. *)

\* The variables have their types, a byte of the matrix is a byte, and the set
\* holds a block once.
TypeOK ==
    /\ graph \in [Vertices -> SUBSET Vertices]
    /\ Registered => matrix \in [Lines -> [Epochs -> 0..(Msb + MaxReref)]]
    /\ irregular \in BOOLEAN /\ curr_dst \in Vertices \cup {None}
    /\ \A w \in WayIds :
          /\ blocks[w].block \in {None} \cup Regular \cup {BlockOf(v) : v \in Vertices}
          /\ blocks[w].used \in BOOLEAN
    /\ \A w, u \in WayIds :
          blocks[w].block = blocks[u].block /\ blocks[w].block # None => w = u

\* Epochs, after epoch, that read the line.
LaterEpochs(line, epoch) == {e \in Epochs : e > epoch /\ LastReader(graph, line, e) # None}

\* The distance to the next epoch that reads the line, at most MaxReref.
EpochDistance(line, epoch) ==
    LET later == LaterEpochs(line, epoch)
    IN  IF later = {} THEN MaxReref ELSE Least({MaxReref, Least(later) - epoch})

\* The matrix says what its definition promises: the sub-epoch of the last read
\* of an epoch, or the distance to the next epoch that reads the line; a graph
\* of more epochs than seven bits count does not wrap around.
MatrixExact ==
    Registered =>
        \A line \in Lines, epoch \in Epochs :
            LET readers == {u \in Readers(graph, line) : EpochOf(u) = epoch}
                byte == matrix[line][epoch]
            IN  IF readers = {} THEN byte = Msb + EpochDistance(line, epoch)
                ELSE /\ ~HasMsb(byte)
                     /\ epoch # NumEpochs - 1 =>
                        byte = (Largest(readers) - epoch * EpochSize) \div SubEpochSize

\* next_access (p-opt-intra.llc_repl) is right where the graph can tell without sub-epochs: it says 0
\* for a line the kernel is still to read in this epoch, and counts the epochs
\* exactly for a line this epoch does not read.
NextAccessSafe ==
    Registered /\ curr_dst # None =>
        \A v \in Vertices :
            LET epoch == EpochOf(curr_dst)
                readers == {u \in Readers(graph, LineOf(v)) : EpochOf(u) = epoch}
            IN  /\ (\E u \in readers : u >= curr_dst) => NextAccess(v) = 0
                /\ readers = {} => NextAccess(v) = EpochDistance(LineOf(v), epoch)

\* next_access never reads behind the end of the matrix, although it looks into
\* the next epoch and the last epoch has none.
LookupInBounds ==
    Registered /\ EpochOf(curr_dst) = NumEpochs - 1 =>
        \A v \in Vertices : HasMsb(matrix[LineOf(v)][NumEpochs - 1]) \/ ReadLater(v)

\* A line whose last read of the epoch is over is left out: ReadLater measures the
\* position in the epoch from epoch * numCacheLines, and reports it at distance 0.
LookupSafe == NextAccessSafe /\ LookupInBounds

\* A write back that misses is given a way, whatever the matrix says: "LLC
\* bypassing for writebacks is not allowed!" (handle_writeback) is not reached.
WriteBackPlaced ==
    \A a \in Accessed \cup Regular :
        BlockOf(a) \notin Held => Victims(a, TRUE) \subseteq WayIds

\* The comment on llc_find_victim: "Across all N - pick N with Nj maximum".  An
\* irregular block that is evicted for another one is among those the kernel
\* reads last.
FarthestEvicted ==
    irregular /\ curr_dst # None /\ (\A w \in WayIds : blocks[w].used /\ IsIrregular(blocks[w].block)) =>
        \A v \in Accessed :
            Farthest(v) # Bypass =>
                \A w \in WayIds :
                    NextOfBlock(blocks[w].block) <= NextOfBlock(blocks[Farthest(v)].block)
=============================================================================
