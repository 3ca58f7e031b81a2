----------------------------- MODULE MCWorkers -----------------------------
(* Two workers on one slot, one admission an hour, two processes.             *)
EXTENDS Workers
CONSTANTS p1, p2, w1, w2
=============================================================================
