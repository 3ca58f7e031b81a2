------------------------------- MODULE Workers -------------------------------
(***************************************************************************)
(* internal/worker/manager.go: the background workers of one session, run  *)
(* by the manager of whichever process holds the session's owner lease.    *)
(*                                                                         *)
(* A section under Manager.mu is one action, and so is a transaction of    *)
(* the receipts.  `pc` is the goroutine run(w); it holds a slot from       *)
(* "slot" to the return of the runner.  A manager is "ending" when its     *)
(* lifetime was cancelled, "sealed" from Seal to the revocation that       *)
(* follows it, and "joining" while Close waits for the workers.            *)
(***************************************************************************)
EXTENDS Naturals, FiniteSets, ReceiptFile

CONSTANTS
  Procs,
  Concurrency,    \* Options.Concurrency
  HourlyLimit,    \* Options.HourlyLimit
  InboxCapacity   \* DefaultInboxCapacity

ASSUME WorkersConstants ==
  /\ {Concurrency, HourlyLimit, InboxCapacity} \subseteq Nat \ {0} /\ Faulty \in BOOLEAN
  /\ IsFiniteSet(Jobs) /\ {"free", "none"} \cap Procs = {}

VARIABLES
  recent,    \* the Admissions of the receipts, of the last hour
  lease,     \* who holds the owner lease, or "free"
  manager,   \* per process: the state of its Manager
  slots,     \* Manager.slots: how many are taken
  worker,    \* per job: the goroutine and the Worker in memory
  stopped    \* history: jobs told to stop while they were active

vars == <<receipt, recent, lease, manager, slots, worker, stopped>>

Active  == {"queued", "running", "stopping"}
Slotted == {"slot", "entering", "running"}
Live    == {"queued", "returned", "ending", "closing"} \cup Slotted
Worker  == [pc : {"new", "gone", "done"} \cup Live, host : Procs \cup {"none"},
            status : {"none", "completed", "failed", "stopped"} \cup Active,
            cancelled : BOOLEAN, failed : BOOLEAN, inbox : 0 .. InboxCapacity]
NoWorker == [pc |-> "new", host |-> "none", status |-> "none",
             cancelled |-> FALSE, failed |-> FALSE, inbox |-> 0]

Init ==
  /\ File!Blank
  /\ recent = {}
  /\ lease = "free"
  /\ manager = [p \in Procs |-> "none"]
  /\ slots = [p \in Procs |-> 0]
  /\ worker = [w \in Jobs |-> NoWorker]
  /\ stopped = {}

Hosted(p) == {w \in Jobs : worker[w].host = p}
Running(p) == {w \in Hosted(p) : worker[w].pc \in Live}

-----------------------------------------------------------------------------
(* Ownership: NewDurable and Close                                         *)

Free == lease = "free"

NewDurable(p) ==
  /\ manager[p] = "none" /\ Free
  /\ \/ File!Interrupt /\ lease' = p /\ manager' = [manager EXCEPT ![p] = "open"]
     \/ Failing(receipt, File!Interrupt) /\ UNCHANGED <<lease, manager>>
  /\ UNCHANGED <<recent, slots, worker, stopped>>

\* Agent.Close ends the lifetime before it seals the manager.
EndLifetime(p) ==
  /\ manager[p] = "open"
  /\ manager' = [manager EXCEPT ![p] = "ending"]
  /\ worker' = [w \in Jobs |-> IF w \in Hosted(p) THEN [worker[w] EXCEPT !.cancelled = TRUE]
                               ELSE worker[w]]
  /\ UNCHANGED <<receipt, recent, lease, slots, stopped>>

\* A worker is told to stop.  (Seeded fault: its context is left alone.)
Halted_Marked(r) == [r EXCEPT !.status = IF @ \in Active THEN "stopping" ELSE @]
Halted(r) == [r EXCEPT !.status = IF @ \in Active THEN "stopping" ELSE @, !.cancelled = TRUE]

HaltAll(S) ==
  /\ worker' = [w \in Jobs |-> IF w \in S THEN Halted(worker[w]) ELSE worker[w]]
  /\ stopped' = stopped \cup {w \in S : worker[w].status \in Active}

Seal(p) ==
  /\ manager[p] \in {"open", "ending"}
  /\ manager' = [manager EXCEPT ![p] = "sealed"]
  /\ HaltAll(Hosted(p))
  /\ UNCHANGED <<receipt, recent, lease, slots>>

\* The revocation after Seal; its error is only kept for Close.
Sealed(p) ==
  /\ manager[p] = "sealed"
  /\ manager' = [manager EXCEPT ![p] = "joining"]
  /\ File!RevokeNotifications \/ (Faulty /\ UNCHANGED receipt)
  /\ UNCHANGED <<recent, lease, slots, worker, stopped>>

\* Close: the lease is released when every goroutine has ended.
Joined(p) == Running(p) = {}

Close(p) ==
  /\ manager[p] = "joining" /\ Joined(p)
  /\ lease' = "free"
  /\ manager' = [manager EXCEPT ![p] = "none"]
  /\ UNCHANGED <<receipt, recent, slots, worker, stopped>>

Crash(p) ==
  /\ manager[p] # "none"
  /\ lease' = "free"
  /\ manager' = [manager EXCEPT ![p] = "none"]
  /\ slots' = [slots EXCEPT ![p] = 0]
  /\ worker' = [w \in Jobs |-> IF w \in Running(p) THEN [NoWorker EXCEPT !.pc = "gone"]
                               ELSE worker[w]]
  /\ UNCHANGED <<receipt, recent, stopped>>

-----------------------------------------------------------------------------
(* One worker                                                              *)

\* StartContext: the receipt is written before the worker is registered.
Start(p, w) ==
  /\ manager[p] = "open"
  /\ worker[w].pc = "new"
  /\ Cardinality(recent) < HourlyLimit
  /\ \/ /\ File!PersistQueued(w)
        /\ recent' = recent \cup {w}
        /\ worker' = [worker EXCEPT ![w] = [NoWorker EXCEPT !.pc = "queued", !.host = p,
                                                            !.status = "queued"]]
     \/ /\ Failing(receipt, File!PersistQueued(w))       \* the admission is withdrawn
        /\ worker' = [worker EXCEPT ![w].pc = "gone"]
        /\ UNCHANGED recent
  /\ UNCHANGED <<lease, manager, slots, stopped>>

\* An hour passes since the admission.
Age(w) ==
  /\ w \in recent
  /\ recent' = recent \ {w}
  /\ UNCHANGED <<receipt, lease, manager, slots, worker, stopped>>

Step(w, from, to) == worker[w].pc = from /\ worker' = [worker EXCEPT ![w] = to]
Give(w) == slots' = [slots EXCEPT ![worker[w].host] = @ - 1]

\* run: a slot, or the end of the context.
Acquire(w) ==
  /\ \/ /\ worker[w].pc = "queued"
        /\ slots[worker[w].host] < Concurrency
        /\ Step(w, "queued", [worker[w] EXCEPT !.pc = "slot"])
        /\ slots' = [slots EXCEPT ![worker[w].host] = @ + 1]
     \/ /\ worker[w].cancelled
        /\ Step(w, "queued", [worker[w] EXCEPT !.pc = "returned", !.failed = TRUE])
        /\ UNCHANGED slots
  /\ UNCHANGED <<receipt, recent, lease, manager, stopped>>

\* With the slot it looks at the context once more ...
Enter(w) ==
  /\ \/ /\ ~worker[w].cancelled
        /\ Step(w, "slot", [worker[w] EXCEPT !.pc = "entering"])
        /\ UNCHANGED slots
     \/ /\ worker[w].cancelled
        /\ Step(w, "slot", [worker[w] EXCEPT !.pc = "returned", !.failed = TRUE])
        /\ Give(w)
  /\ UNCHANGED <<receipt, recent, lease, manager, stopped>>

\* ... and is running, unless it was told to stop since.
Begin(w) ==
  /\ Step(w, "entering", [worker[w] EXCEPT !.pc = "running",
                            !.status = IF @ = "stopping" THEN @ ELSE "running"])
  /\ UNCHANGED <<receipt, recent, lease, manager, slots, stopped>>

\* The runner takes its messages, and returns, cancelled or not, with an error
\* (a panic is one) or a result.
Receive(w) ==
  /\ worker[w].inbox > 0
  /\ Step(w, "running", [worker[w] EXCEPT !.inbox = @ - 1])
  /\ UNCHANGED <<receipt, recent, lease, manager, slots, stopped>>

Return(w, failed) ==
  /\ Step(w, "running", [worker[w] EXCEPT !.pc = "returned", !.failed = failed])
  /\ Give(w)
  /\ UNCHANGED <<receipt, recent, lease, manager, stopped>>

\* The outcome; the inbox is not read any more.  (Seeded fault: what the runner returned.)
Outcome_Returned(w) == IF worker[w].failed THEN "failed" ELSE "completed"
Outcome(w) ==
  IF worker[w].cancelled \/ worker[w].status = "stopping" THEN "stopped"
  ELSE IF worker[w].failed THEN "failed" ELSE "completed"

Decide(w) ==
  /\ Step(w, "returned", [worker[w] EXCEPT !.pc = "ending", !.status = Outcome(w),
                                           !.failed = FALSE, !.inbox = 0])
  /\ UNCHANGED <<receipt, recent, lease, manager, slots, stopped>>

Persist(w) ==
  /\ Step(w, "ending", [worker[w] EXCEPT !.pc = "closing"])
  /\ \/ File!PersistFinished(w, worker[w].status)
     \/ Failing(receipt, File!PersistFinished(w, worker[w].status))
  /\ UNCHANGED <<recent, lease, manager, slots, stopped>>

\* close(done), w.cancel.  The notifier is only a hint: the service also polls.
Finish(w) ==
  /\ Step(w, "closing", [worker[w] EXCEPT !.pc = "done", !.cancelled = TRUE])
  /\ UNCHANGED <<receipt, recent, lease, manager, slots, stopped>>

-----------------------------------------------------------------------------
(* Callers                                                                 *)

\* StopContext; whether its caller waits for done changes nothing.
\* (Seeded fault: the slot is given back at once.)
Capacity_Given(w) ==
  IF worker[w].pc \in Slotted THEN Give(w) ELSE UNCHANGED slots
Capacity(w) == UNCHANGED slots

StopContext(w) ==
  /\ worker[w].host # "none"
  /\ worker[w].status \in Active /\ HaltAll({w}) /\ Capacity(w)
  /\ UNCHANGED <<receipt, recent, lease, manager>>

CancelAll(p) ==
  /\ manager[p] # "none"
  /\ HaltAll({w \in Hosted(p) : worker[w].status \in Active})
  /\ UNCHANGED <<receipt, recent, lease, manager, slots>>

Send(w) ==
  /\ worker[w].host # "none" /\ manager[worker[w].host] \in {"open", "ending"}
  /\ worker[w].status \in {"queued", "running"}
  /\ worker[w].inbox < InboxCapacity
  /\ worker' = [worker EXCEPT ![w].inbox = @ + 1]
  /\ UNCHANGED <<receipt, recent, lease, manager, slots, stopped>>

\* The service of the owner acknowledges and revokes.
Notify(p) ==
  /\ manager[p] # "none"
  /\ File!RevokeNotifications \/ \E w \in Jobs : File!Pending(w) /\ File!Acknowledge(w)
  /\ UNCHANGED <<recent, lease, manager, slots, worker, stopped>>

-----------------------------------------------------------------------------
Run(w) ==
  \/ Acquire(w) \/ Enter(w) \/ Begin(w) \/ \E failed \in BOOLEAN : Return(w, failed)
  \/ Decide(w) \/ Persist(w) \/ Finish(w)

Next ==
  \/ \E p \in Procs :
       \/ NewDurable(p) \/ EndLifetime(p) \/ Seal(p) \/ Sealed(p) \/ Close(p) \/ Crash(p)
       \/ CancelAll(p) \/ Notify(p) \/ \E w \in Jobs : Start(p, w)
  \/ \E w \in Jobs : Run(w) \/ Age(w) \/ Receive(w) \/ StopContext(w) \/ Send(w)

Spec == Init /\ [][Next]_vars

\* A goroutine goes on, a runner returns once it is cancelled, and a sealed
\* manager is closed.
Fairness ==
  /\ \A w \in Jobs :
       /\ WF_vars(Acquire(w)) /\ WF_vars(Enter(w)) /\ WF_vars(Begin(w)) /\ WF_vars(Decide(w))
       /\ WF_vars(Persist(w)) /\ WF_vars(Finish(w))
       /\ WF_vars(worker[w].cancelled /\ \E failed \in BOOLEAN : Return(w, failed))
  /\ \A p \in Procs : WF_vars(Sealed(p)) /\ WF_vars(Close(p))

FairSpec == Spec /\ Fairness

-----------------------------------------------------------------------------
(* Properties                                                              *)

TypeOK ==
  /\ receipt \in File!Records
  /\ recent \subseteq Jobs /\ stopped \subseteq Jobs
  /\ lease \in Procs \cup {"free"}
  /\ manager \in [Procs -> {"none", "open", "ending", "sealed", "joining"}]
  /\ slots \in [Procs -> 0 .. Concurrency]
  /\ worker \in [Jobs -> Worker]

\* manager.go, "capacity remains held until the actual runner and its cleanup
\* return": a slot is taken by exactly the workers between acquisition and the
\* return of their runner, so no stop, cancellation or seal admits one too many.
CapacityHeld ==
  \A p \in Procs :
    slots[p] = Cardinality({w \in Hosted(p) : worker[w].pc \in Slotted})

\* results.go, NewDurable: a worker that is still running, in this process or
\* another, is never taken for interrupted, and no two processes run workers of
\* the session.
OwnerAlone ==
  /\ \A w \in Jobs : receipt[w].status = "interrupted" => worker[w].pc \notin Live
  /\ \A p, q \in Procs : Running(p) # {} /\ Running(q) # {} => p = q

\* One process hosts the session's workers, within its capacity.
HostedOnce == CapacityHeld /\ OwnerAlone

\* StopContext, CancelAll and Seal: a worker told to stop while it was active
\* never reports an outcome of its own, whatever its runner returned and in
\* whatever order the two met.
StopHolds == \A w \in stopped : receipt[w].status \notin {"completed", "failed"}

\* The manager implements the promise of its receipts: each ends once and stays,
\* and a revocation made while the worker was running survives its end.
KeepsReceipts == File!Spec

\* Manager.Close: a sealed manager waits for its cancelled workers and then gives
\* the session back, unless its process dies first.
CloseReturns == \A p \in Procs : manager[p] = "sealed" ~> manager[p] = "none"
=============================================================================
