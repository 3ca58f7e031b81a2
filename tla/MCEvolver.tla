------------------------------ MODULE MCEvolver ------------------------------
\* A run of two candidates over two train cases and two held-out ones, with
\* verifier runs for both candidates and for the better one to be validated, and
\* an earlier validated run to return to; one proposal also edits the tests.
EXTENDS Evolver, TLC

CONSTANTS p, q, cheat, old, new

Proposals  == {p, q, cheat}
Changes    == p :> {"target"} @@ q :> {"target"} @@ cheat :> {"target", "tests"}
Before     == {old}
Sym        == Permutations({p, q})
==============================================================================
