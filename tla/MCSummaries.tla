----------------------------- MODULE MCSummaries -----------------------------
(* One conversation, one worker, two dispatchers and the replay.              *)
EXTENDS Summaries, TLC
CONSTANTS d1, d2, w1

Symmetry == Permutations({d1, d2})
=============================================================================
