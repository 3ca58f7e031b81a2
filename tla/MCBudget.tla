------------------------------ MODULE MCBudget ------------------------------
(* Two processes, two requests, three attempts; a primary model, a dearer one *)
(* as its fallback and one without a price that may answer in their place.    *)
(* Cached input is the dearest class of m.                                    *)
EXTENDS Resilient, TLC
CONSTANTS p1, p2, a1, a2, a3, r1, r2, m, dear, odd

Chain == <<m, dear>>

Tariff(in, out, read, write) == [input |-> in, output |-> out, read |-> read, write |-> write]

Prices == m :> Tariff(2, 3, 1, 5) @@ dear :> Tariff(9, 9, 9, 9) @@ odd :> Tariff(1, 1, 1, 1)
Counts == {Tariff(1, 1, 0, 0), Tariff(0, 1, 0, 2), Tariff(1, 1, 1, 1)}

Symmetry == Permutations({p1, p2}) \cup Permutations({a1, a2, a3})
              \cup Permutations({r1, r2})
=============================================================================
