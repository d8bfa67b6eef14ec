-------------------------------- MODULE Fifo --------------------------------
(***************************************************************************)
(* What a PACKET_QUEUE promises to the handlers that use it in order: a    *)
(* bounded first-in first-out queue.                                       *)
(***************************************************************************)
EXTENDS Naturals, Sequences

CONSTANTS Capacity, Item

VARIABLE items

Init == items = <<>>

Put(x) == Len(items) < Capacity /\ items' = Append(items, x)
Take == items # <<>> /\ items' = Tail(items)

Next == Take \/ \E x \in Item : Put(x)

Spec == Init /\ [][Next]_items
=============================================================================
