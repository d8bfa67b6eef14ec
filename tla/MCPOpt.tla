------------------------------- MODULE MCPOpt -------------------------------
(* Graphs for POpt: two vertices of the first line have one neighbour each   *)
(* at most, one of the second line has a fixed one or none.                  *)
EXTENDS POpt

MCGraphs ==
    {[v \in Vertices |-> IF v = 1 THEN {t} \ {None} ELSE IF v = 2 THEN {u} \ {None}
                         ELSE IF v = 5 THEN w ELSE {}] :
        t \in Vertices \cup {None}, u \in {None, 4, 9}, w \in {{}, {3}}}

MCAccessed == {2, 5, 8}
=============================================================================
