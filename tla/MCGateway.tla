----------------------------- MODULE MCGateway -----------------------------
(* Small instances of Gateway for TLC. *)
EXTENDS Gateway

\* A failing journal, and a working one with and without contention for slots.
Small == {[slots |-> 2, faulty |-> TRUE], [slots |-> 2, faulty |-> FALSE],
          [slots |-> 1, faulty |-> FALSE]}

=============================================================================
