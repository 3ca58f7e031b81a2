------------------------------ MODULE MCCurator ------------------------------
\* A session of short turns and of long requests that got no answer, with the
\* code's margins scaled down: two messages are protected at the head, which two
\* long requests make more than the budget holds.
EXTENDS Curator

SmallSizes == {[msgs |-> 2, tokens |-> 2], [msgs |-> 1, tokens |-> 4]}
NewTurn    == [msgs |-> 1, tokens |-> 1]
Empty      == "empty"
Weights    == [empty |-> 0, brief |-> 1, long |-> 3]
==============================================================================
