------------------------------ MODULE MCJournal ------------------------------
(* A small instance of Journal for TLC. *)
EXTENDS Journal, TLC

Symmetry == Permutations(Owners) \cup Permutations(Payloads)

=============================================================================
