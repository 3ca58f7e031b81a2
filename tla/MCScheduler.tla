----------------------------- MODULE MCScheduler -----------------------------
(* Small instances of Scheduler for TLC. *)
EXTENDS Scheduler

CONSTANTS c1, c2, s1, s2

R(c, s, bg, busy, approval) ==
  [conv |-> c, source |-> s, background |-> bg, busy |-> busy, approval |-> approval]

\* Every policy, an approval and a background turn in one conversation; another
\* conversation contends for the foreground slot.
Mixed == {R(c1, s1, FALSE, "append", FALSE), R(c1, s1, TRUE, "inject", FALSE),
          R(c1, s1, FALSE, "interrupt", FALSE), R(c1, s1, FALSE, "append", TRUE),
          R(c2, s1, FALSE, "append", FALSE)}

OneSlotEach == [p \in Pools |-> 1]

=============================================================================
