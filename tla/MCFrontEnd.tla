----------------------------- MODULE MCFrontEnd -----------------------------
(* FrontEnd for TLC. *)
EXTENDS FrontEnd

\* A branch of each kind, on two lines.
MCCode ==
    << [line |-> 1, branch |-> "conditional", next |-> {1, 2}],
       [line |-> 1, branch |-> "indirect", next |-> {2, 3}],
       [line |-> 2, branch |-> "direct", next |-> {4}],
       [line |-> 2, branch |-> "other", next |-> {1}] >>
=============================================================================
