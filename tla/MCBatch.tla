---- MODULE MCBatch ----
\* One batch with a call of every kind.  Two reads that are grouped come after a
\* call with a receipt: a resumption of its approval may run them again.
EXTENDS Batch

OneBatch == <<"write", "read", "read", "plain", "shell">>

Trouble(c, f, n, p, e) == [crashes |-> c, faults |-> f, cancels |-> n, panics |-> p, edits |-> e]

\* Two crashes; a crash with a fault or a cancellation; a fault with a cancellation; a
\* panicking read with a crash or a fault.  The first three may meet an edit too.
AnyTwo == {Trouble(2, 0, 0, 0, 1), Trouble(1, 1, 0, 0, 1), Trouble(1, 0, 1, 0, 1),
           Trouble(0, 1, 1, 0, 0), Trouble(1, 0, 0, 1, 0), Trouble(0, 1, 0, 1, 0)}
====
