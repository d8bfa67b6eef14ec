---------------------------- MODULE LevelSearch ----------------------------
(* The searches by levels of the GAP benchmark suite, with threads: DOBFS    *)
(* (bfs.cc), which goes top down from a queue or bottom up from a bitmap,    *)
(* whichever looks cheaper, and the search of Brandes' algorithm (bc.cc),    *)
(* which counts shortest paths; both on the SlidingQueue.                    *)
EXTENDS ThreadedGraphs

CONSTANTS Webs,          \* graphs, as Networks
          Alpha, Beta,   \* when to turn bottom up, and when back
          LocalSize,     \* room of a QueueBuffer
          WordBits,      \* bits of a word of a Bitmap (64)
          Chunk          \* nodes given to a thread at once, bottom up (1024)

ASSUME WebsAssumption == \A g \in Webs : Built(g)

VARIABLES search,     \* "dobfs" or "brandes"
          web,        \* the graph
          origin,     \* source
          parent,     \* parent; below 0: not visited, minus the degree
          depths,     \* depths (brandes)
          paths,      \* path_counts (brandes)
          succ,       \* succ: edges to a next level (brandes)
          sliding,    \* SlidingQueue: shared, shared_out_start, shared_out_end
          starts,     \* depth_index (brandes)
          buffers,    \* the QueueBuffer of each thread
          front, nextFront,   \* bitmaps
          tally,      \* awake_count, old_awake_count, scout_count,
                      \* edges_to_check; depth of the level (brandes)
          member,     \* what each thread does
          due,        \* pieces of the parallel loop that no thread has yet
          step        \* "decide", "down", "up" or "end"

searchVars == <<search, web, origin, parent, depths, paths, succ, sliding, starts,
                buffers, front, nextFront, tally, member, due, step>>

Free == [at |-> "free", u |-> 0, todo |-> <<>>, seen |-> 0, word |-> {}]
Window == sliding.start + 1 .. sliding.end
Slid(q) == [q EXCEPT !.start = q.end, !.end = Len(q.shared)]

SearchInit ==
    /\ search \in {"dobfs", "brandes"}
    /\ web \in Webs
    /\ origin \in Nodes /\ Degree(web, origin) > 0
    /\ parent = [n \in Nodes |-> IF n = origin THEN n
                                 ELSE -Max({Degree(web, n), 1})]
    /\ depths = [n \in Nodes |-> IF n = origin THEN 0 ELSE -1]
    /\ paths = [n \in Nodes |-> IF n = origin THEN 1 ELSE 0]
    /\ succ = {}
    /\ sliding = [shared |-> <<origin>>, start |-> 0, end |-> 1]
    /\ starts = <<0>>
    /\ buffers = [t \in Threads |-> <<>>]
    /\ front = {} /\ nextFront = {}
    /\ tally = [awake |-> 0, old |-> 0, scout |-> Degree(web, origin),
                edges |-> Edges(web), depth |-> 0]
    /\ member = [t \in Threads |-> Free]
    /\ due = {}
    /\ step = "decide"

---------------------------------------------------------------------------
(* The queue, and the loop over its window.                                *)

(* push_back of a QueueBuffer; a full buffer goes to the queue first.      *)
Push(t, v) ==
    IF Len(buffers[t]) = LocalSize
    THEN /\ sliding' = [sliding EXCEPT !.shared = @ \o buffers[t]]
         /\ buffers' = [buffers EXCEPT ![t] = <<v>>]
    ELSE /\ buffers' = [buffers EXCEPT ![t] = Append(@, v)]
         /\ sliding' = sliding

Flush(t) ==
    /\ step = "down" /\ due = {} /\ member[t] = Free /\ buffers[t] # <<>>
    /\ sliding' = [sliding EXCEPT !.shared = @ \o buffers[t]]
    /\ buffers' = [buffers EXCEPT ![t] = <<>>]
    /\ UNCHANGED <<search, web, origin, parent, depths, paths, succ, starts, front,
                   nextFront, tally, member, due, step>>

TakeNode(t, i) ==
    /\ step = "down" /\ member[t] = Free /\ i \in due
    /\ due' = due \ {i}
    /\ LET u == sliding.shared[i] IN
       member' = [member EXCEPT ![t] =
                    IF web.out[u] = <<>> THEN Free
                    ELSE [Free EXCEPT !.at = "look", !.u = u, !.todo = web.out[u]]]
    /\ UNCHANGED <<search, web, origin, parent, depths, paths, succ, sliding, starts,
                   buffers, front, nextFront, tally, step>>

NextNeighbour(m) ==
    IF Len(m.todo) = 1 THEN Free
    ELSE [Free EXCEPT !.at = "look", !.u = m.u, !.todo = Tail(m.todo)]

(* The label of a neighbour: parent or depth.                              *)
Label(v) == IF search = "dobfs" THEN parent[v] ELSE depths[v]

Look(t) ==
    LET m == member[t]
        v == Head(m.todo)
    IN  /\ m.at = "look"
        /\ member' = [member EXCEPT ![t] =
                        IF Label(v) < 0 THEN [m EXCEPT !.at = "claim", !.seen = Label(v)]
                        ELSE IF search = "brandes" THEN [m EXCEPT !.at = "count"]
                        ELSE NextNeighbour(m)]
        /\ UNCHANGED <<search, web, origin, parent, depths, paths, succ, sliding,
                       starts, buffers, front, nextFront, tally, due, step>>

StillSeen(m, v) == Label(v) = m.seen

(* compare_and_swap: one thread gets the neighbour and queues it.          *)
Claim(t) ==
    LET m == member[t]
        v == Head(m.todo)
    IN  /\ m.at = "claim"
        /\ IF StillSeen(m, v)
           THEN /\ Push(t, v)
                /\ IF search = "dobfs"
                   THEN /\ parent' = [parent EXCEPT ![v] = m.u]
                        /\ tally' = [tally EXCEPT !.scout = @ - m.seen]
                        /\ depths' = depths
                   ELSE /\ depths' = [depths EXCEPT ![v] = tally.depth]
                        /\ UNCHANGED <<parent, tally>>
           ELSE UNCHANGED <<parent, depths, tally, sliding, buffers>>
        /\ member' = [member EXCEPT ![t] =
                        IF search = "brandes" THEN [m EXCEPT !.at = "count"]
                        ELSE NextNeighbour(m)]
        /\ UNCHANGED <<search, web, origin, paths, succ, starts, front, nextFront,
                       due, step>>

(* Brandes: an edge to the level that is being found; the addition is      *)
(* atomic.                                                                 *)
Count(t) ==
    LET m == member[t]
        v == Head(m.todo)
    IN  /\ m.at = "count"
        /\ IF depths[v] = tally.depth
           THEN /\ succ' = succ \cup {<<m.u, v>>}
                /\ paths' = [paths EXCEPT ![v] = @ + paths[m.u]]
           ELSE UNCHANGED <<succ, paths>>
        /\ member' = [member EXCEPT ![t] = NextNeighbour(m)]
        /\ UNCHANGED <<search, web, origin, parent, depths, sliding, starts, buffers,
                       front, nextFront, tally, due, step>>

---------------------------------------------------------------------------
(* Bottom up.                                                              *)

ChunkOf(n) == n \div Chunk
WordOf(n) == n \div WordBits

NextNode(m) == IF Len(m.todo) = 1 THEN Free ELSE [m EXCEPT !.todo = Tail(@), !.at = "scan"]

TakeChunk(t, c) ==
    /\ step = "up" /\ member[t] = Free /\ c \in due
    /\ due' = due \ {c}
    /\ member' = [member EXCEPT ![t] =
                    [Free EXCEPT !.at = "scan",
                                 !.todo = SetToSortSeq({n \in Nodes : ChunkOf(n) = c},
                                                       LAMBDA x, y : x < y)]]
    /\ UNCHANGED <<search, web, origin, parent, depths, paths, succ, sliding, starts,
                   buffers, front, nextFront, tally, step>>

(* An unvisited node takes its first in-neighbour in the front for its     *)
(* parent, and reads the word of the next bitmap that holds its bit.       *)
Scan(t) ==
    LET m == member[t]
        u == Head(m.todo)
        found == SelectSeq(InNeighbours(web, u), LAMBDA v : v \in front)
    IN  /\ m.at = "scan"
        /\ IF parent[u] < 0 /\ found # <<>>
           THEN /\ parent' = [parent EXCEPT ![u] = Head(found)]
                /\ tally' = [tally EXCEPT !.awake = @ + 1]
                /\ member' = [member EXCEPT ![t] =
                                [m EXCEPT !.at = "set",
                                          !.word = {n \in nextFront : WordOf(n) = WordOf(u)}]]
           ELSE /\ member' = [member EXCEPT ![t] = NextNode(m)]
                /\ UNCHANGED <<parent, tally>>
        /\ UNCHANGED <<search, web, origin, depths, paths, succ, sliding, starts,
                       buffers, front, nextFront, due, step>>

(* set_bit: the word goes back with the bit, whatever it holds by now.     *)
SetBit(t) ==
    LET m == member[t]
        u == Head(m.todo)
    IN  /\ m.at = "set"
        /\ nextFront' = {n \in nextFront : WordOf(n) # WordOf(u)} \cup m.word \cup {u}
        /\ member' = [member EXCEPT ![t] = NextNode([m EXCEPT !.word = {}])]
        /\ UNCHANGED <<search, web, origin, parent, depths, paths, succ, sliding,
                       starts, buffers, front, tally, due, step>>

---------------------------------------------------------------------------
(* Between the parallel loops.                                             *)

AllFree == \A t \in Threads : member[t] = Free /\ buffers[t] = <<>>
ChunksOf(S) == {ChunkOf(n) : n \in S}

(* DOBFS: finished, bottom up from here (the queue becomes a bitmap), or   *)
(* one level top down.  Brandes always goes down.                          *)
Decide ==
    /\ step = "decide"
    /\ \/ /\ Window = {}
          /\ step' = "end"
          /\ parent' = [n \in Nodes |-> IF parent[n] < -1 THEN -1 ELSE parent[n]]
          /\ starts' = Append(starts, sliding.start)
          /\ UNCHANGED <<sliding, front, nextFront, tally, due>>
       \/ /\ Window # {} /\ search = "dobfs" /\ tally.scout > tally.edges \div Alpha
          /\ front' = front \cup {sliding.shared[i] : i \in Window}
          /\ sliding' = Slid(sliding)
          /\ tally' = [tally EXCEPT !.old = Cardinality(Window), !.awake = 0]
          /\ nextFront' = {}
          /\ due' = ChunksOf(Nodes)
          /\ step' = "up"
          /\ UNCHANGED <<parent, starts>>
       \/ /\ Window # {} /\ (search = "brandes" \/ tally.scout <= tally.edges \div Alpha)
          /\ tally' = IF search = "brandes" THEN [tally EXCEPT !.depth = @ + 1]
                      ELSE [tally EXCEPT !.edges = @ - tally.scout, !.scout = 0]
          /\ due' = Window
          /\ step' = "down"
          /\ UNCHANGED <<parent, sliding, starts, front, nextFront>>
    /\ UNCHANGED <<search, web, origin, depths, paths, succ, buffers, member>>

EndDown ==
    /\ step = "down" /\ due = {} /\ AllFree
    /\ starts' = IF search = "brandes" THEN Append(starts, sliding.start) ELSE starts
    /\ sliding' = Slid(sliding)
    /\ step' = "decide"
    /\ UNCHANGED <<search, web, origin, parent, depths, paths, succ, buffers, front,
                   nextFront, tally, member, due>>

(* The bitmaps change places; bottom up again while the front grows or is  *)
(* large, else the front becomes the queue (BitmapToQueue).                *)
EndUp ==
    /\ step = "up" /\ due = {} /\ AllFree
    /\ front' = nextFront
    /\ IF tally.awake >= tally.old \/ tally.awake > Cardinality(Nodes) \div Beta
       THEN /\ tally' = [tally EXCEPT !.old = tally.awake, !.awake = 0]
            /\ nextFront' = {}
            /\ due' = ChunksOf(Nodes)
            /\ UNCHANGED <<sliding, step>>
       ELSE /\ nextFront' = front
            /\ sliding' = Slid([sliding EXCEPT !.shared = @ \o SetToSeq(nextFront)])
            /\ tally' = [tally EXCEPT !.scout = 1]
            /\ step' = "decide"
            /\ due' = {}
    /\ UNCHANGED <<search, web, origin, parent, depths, paths, succ, starts, buffers,
                   member>>

SearchNext ==
    \/ \E t \in Threads : \/ \E i \in due : TakeNode(t, i) \/ TakeChunk(t, i)
                          \/ Look(t) \/ Claim(t) \/ Count(t) \/ Flush(t)
                          \/ Scan(t) \/ SetBit(t)
    \/ Decide \/ EndDown \/ EndUp

---------------------------------------------------------------------------

(* BFSVerifier's view of the result: a tree of shortest paths over exactly *)
(* the nodes that can be reached, whatever mixture of directions was taken *)
(* and although front still holds the bits of an older level when the      *)
(* search turns bottom up again.                                           *)
TreeOfShortestPaths == ShortestPathTree(web, origin, parent, -1)

(* Brandes' second phase needs the exact numbers of shortest paths, the    *)
(* edges from level to level, and the queue cut into levels.               *)
PathsCounted ==
    LET depth == DepthFrom(web, origin)
    IN  /\ depths = depth
        /\ paths = Paths(web, origin)
        /\ succ = {e \in Nodes \X Nodes : /\ e[2] \in ToSet(web.out[e[1]])
                                          /\ depth[e[1]] # Unreached
                                          /\ depth[e[2]] = depth[e[1]] + 1}
        /\ \A k \in 1 .. Len(starts) - 1 :
              {sliding.shared[i] : i \in starts[k] + 1 .. starts[k + 1]}
                 = {n \in Nodes : k > 1 /\ depth[n] = k - 2}

(* The result is exact, and no node is queued twice: the queue has room    *)
(* for every node once.                                                    *)
LevelsExact ==
    /\ Len(sliding.shared) <= Cardinality(Nodes)
    /\ step = "end" => IF search = "dobfs" THEN TreeOfShortestPaths ELSE PathsCounted
=============================================================================
