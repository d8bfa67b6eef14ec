----------------------------- MODULE GrowingSets -----------------------------
(* What the core expects of its fastsets: sets that grow by one member or by *)
(* another set.                                                              *)
CONSTANTS Name, Element

VARIABLE members

Init == members = [s \in Name |-> {}]

Insert(s, x) == members' = [members EXCEPT ![s] = @ \cup {x}]
Join(s, t) == members' = [members EXCEPT ![s] = @ \cup members[t]]

Next == \E s \in Name : (\E x \in Element : Insert(s, x)) \/ (\E t \in Name : Join(s, t))

Spec == Init /\ [][Next]_members
=============================================================================
