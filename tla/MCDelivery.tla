----------------------------- MODULE MCDelivery -----------------------------
(* Small instances of Delivery for TLC. *)
EXTENDS Delivery

CONSTANTS e1, t1, t2

ToOne == [i \in Ids |-> e1]

=============================================================================
