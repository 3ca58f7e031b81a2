---------------------------- MODULE WorkersProofs ----------------------------
\* That the manager of background workers keeps the promise of its receipts, for
\* any number of workers, processes and slots, with failing writes or without.
\* Then the way of their results into the session, Summaries: once each, and handed
\* over only when recorded, for any number of results and summaries.
EXTENDS Workers, Summaries, FiniteSetTheorems, WellFoundedInduction, TLAPS

-----------------------------------------------------------------------------
(* The inductive invariant                                                 *)

\* A manager exists exactly where the owner lease is held.
Owned == \A p \in Procs : manager[p] # "none" <=> lease = p

Early   == {"queued", "returned"} \cup Slotted
Reports == {"completed", "failed", "stopped"}

\* What the goroutine of w, its Worker and its receipt say of each other.
Hosts(w) == worker[w].pc \in Live => worker[w].host \in Procs /\ lease = worker[w].host

Phase(w) ==
  /\ worker[w].pc \in {"new", "gone"} => worker[w].host = "none" /\ worker[w].status = "none"
  /\ worker[w].pc \in Early => worker[w].status \in Active
  /\ worker[w].pc \in {"ending", "closing", "done"} => worker[w].status \in Reports
  /\ worker[w].pc \in Early \cup {"ending"} => receipt[w].status = "queued"
  /\ worker[w].pc = "closing" => receipt[w].status # "interrupted"

\* A worker told to stop stays told, until its report says so.
Told(w) ==
  w \in stopped =>
    /\ worker[w].pc # "new"
    /\ worker[w].pc \in Early => worker[w].status = "stopping"
    /\ worker[w].pc \in {"ending", "closing"} => worker[w].status = "stopped"
    /\ receipt[w].status \notin {"completed", "failed"}

Bound == \A w \in Jobs : Hosts(w) /\ Phase(w) /\ Told(w)

IInv == TypeOK /\ Owned /\ Bound /\ CapacityHeld

-----------------------------------------------------------------------------
(* Types                                                                   *)

LEMMA TypeInit == Init => TypeOK
BY WorkersConstants
DEF Init, TypeOK, File!Blank, File!Records, File!Receipt, File!NoReceipt, NoWorker, Worker, Live,
    Slotted, Active

\* Every transaction keeps the file a file of receipts.
LEMMA RecordsType ==
  ASSUME receipt \in File!Records
  PROVE  /\ File!Interrupt => receipt' \in File!Records
         /\ File!RevokeNotifications => receipt' \in File!Records
         /\ \A w \in Jobs : File!PersistQueued(w) \/ File!Acknowledge(w) => receipt' \in File!Records
         /\ \A w \in Jobs, s \in Reports : File!PersistFinished(w, s) => receipt' \in File!Records
<1> USE DEF File!Records, File!Receipt, File!Ended
<1>1. File!Interrupt => receipt' \in File!Records
  BY DEF File!Interrupt
<1>2. File!RevokeNotifications => receipt' \in File!Records
  <2>1. ASSUME NEW r \in File!Receipt PROVE [r EXCEPT !.revoked = TRUE] \in File!Receipt
    OBVIOUS
  <2> QED BY <2>1 DEF File!RevokeNotifications
<1>3. ASSUME NEW w \in Jobs, File!PersistQueued(w) \/ File!Acknowledge(w)
      PROVE  receipt' \in File!Records
  BY <1>3 DEF File!PersistQueued, File!Acknowledge
<1>4. ASSUME NEW w \in Jobs, NEW s \in Reports, File!PersistFinished(w, s)
      PROVE  receipt' \in File!Records
  BY <1>4 DEF File!PersistFinished, File!Finished, Reports
<1> QED BY <1>1, <1>2, <1>3, <1>4

LEMMA InboxPositive == InboxCapacity \in Nat /\ InboxCapacity > 0
BY WorkersConstants

\* A Worker stays one through each of the steps of its goroutine.
LEMMA WorkerType ==
  ASSUME NEW r \in Worker
  PROVE  /\ Halted(r) \in Worker
         /\ [r EXCEPT !.cancelled = TRUE] \in Worker
         /\ [r EXCEPT !.pc = "gone"] \in Worker
         /\ \A pc \in Live \cup {"gone"} : [r EXCEPT !.pc = pc] \in Worker
         /\ \A failed \in BOOLEAN : [r EXCEPT !.pc = "returned", !.failed = failed] \in Worker
         /\ [r EXCEPT !.pc = "running", !.status = IF r.status = "stopping" THEN r.status ELSE "running"] \in Worker
         /\ \A s \in Reports :
              [r EXCEPT !.pc = "ending", !.status = s, !.failed = FALSE, !.inbox = 0] \in Worker
         /\ [r EXCEPT !.pc = "done", !.cancelled = TRUE] \in Worker
<1>1. Halted(r) \in Worker
  BY DEF Halted, Worker, Active
<1>2. [r EXCEPT !.cancelled = TRUE] \in Worker
  BY DEF Worker
<1>3. [r EXCEPT !.pc = "gone"] \in Worker
  BY DEF Worker
<1>4. ASSUME NEW pc \in Live \cup {"gone"} PROVE [r EXCEPT !.pc = pc] \in Worker
  BY <1>4 DEF Worker
<1>5. ASSUME NEW failed \in BOOLEAN PROVE [r EXCEPT !.pc = "returned", !.failed = failed] \in Worker
  BY DEF Worker, Live
<1>6. [r EXCEPT !.pc = "running", !.status = IF r.status = "stopping" THEN r.status ELSE "running"]
        \in Worker
  BY DEF Worker, Live, Slotted, Active
<1>7. ASSUME NEW s \in Reports
      PROVE  [r EXCEPT !.pc = "ending", !.status = s, !.failed = FALSE, !.inbox = 0] \in Worker
  <2> DEFINE a == [r EXCEPT !.pc = "ending", !.status = s]
             b == [a EXCEPT !.failed = FALSE]
  <2>1. a \in Worker
    BY DEF Worker, Live, Reports
  <2> HIDE DEF a
  <2>2. b \in Worker
    BY <2>1 DEF Worker
  <2> HIDE DEF b
  <2>3. [b EXCEPT !.inbox = 0] \in Worker
    BY <2>2, InboxPositive DEF Worker
  <2> QED BY <2>3 DEF a, b
<1>8. [r EXCEPT !.pc = "done", !.cancelled = TRUE] \in Worker
  BY DEF Worker
<1> QED BY <1>1, <1>2, <1>3, <1>4, <1>5, <1>6, <1>7, <1>8

LEMMA NewWorkerType ==
  /\ NoWorker \in Worker /\ [NoWorker EXCEPT !.pc = "gone"] \in Worker
  /\ \A p \in Procs :
       [NoWorker EXCEPT !.pc = "queued", !.host = p, !.status = "queued"] \in Worker
<1>1. NoWorker \in Worker
  BY InboxPositive DEF Worker, NoWorker
<1> HIDE DEF NoWorker
<1>2. [NoWorker EXCEPT !.pc = "gone"] \in Worker
  BY <1>1, WorkerType
<1>3. ASSUME NEW p \in Procs
      PROVE  [NoWorker EXCEPT !.pc = "queued", !.host = p, !.status = "queued"] \in Worker
  BY <1>1 DEF Worker, Live, Active
<1> QED BY <1>1, <1>2, <1>3

LEMMA HaltType ==
  ASSUME TypeOK, NEW S \in SUBSET Jobs, HaltAll(S)
  PROVE  worker' \in [Jobs -> Worker] /\ stopped' \subseteq Jobs
<1>1. \A w \in Jobs : Halted(worker[w]) \in Worker
  BY WorkerType DEF TypeOK
<1> QED BY <1>1 DEF HaltAll, TypeOK

\* One worker's record is replaced.
LEMMA OneWorker ==
  ASSUME worker \in [Jobs -> Worker], NEW w \in Jobs, NEW r \in Worker,
         worker' = [worker EXCEPT ![w] = r]
  PROVE  worker' \in [Jobs -> Worker]
  OBVIOUS

LEMMA TypeStep ==
  ASSUME IInv, [Next]_vars
  PROVE  TypeOK'
<1> USE WorkersConstants DEF TypeOK
<1>0. TypeOK /\ receipt \in File!Records
  BY DEF IInv
<1>1. ASSUME NEW p \in Procs, NewDurable(p) PROVE TypeOK'
  BY <1>0, <1>1, RecordsType DEF NewDurable, Failing
<1>2. ASSUME NEW p \in Procs, EndLifetime(p) PROVE TypeOK'
  <2>1. \A w \in Jobs : [worker[w] EXCEPT !.cancelled = TRUE] \in Worker
    BY <1>0, WorkerType
  <2>2. worker' \in [Jobs -> Worker]
    BY <1>0, <1>2, <2>1 DEF EndLifetime
  <2> QED BY <1>0, <1>2, <2>2 DEF EndLifetime
<1>3. ASSUME NEW p \in Procs, Seal(p) PROVE TypeOK'
  BY <1>0, <1>3, HaltType DEF Seal, Hosted
<1>4. ASSUME NEW p \in Procs, Sealed(p) PROVE TypeOK'
  BY <1>0, <1>4, RecordsType DEF Sealed
<1>5. ASSUME NEW p \in Procs, Close(p) PROVE TypeOK'
  BY <1>0, <1>5 DEF Close
<1>6. ASSUME NEW p \in Procs, Crash(p) PROVE TypeOK'
  <2>1. worker' \in [Jobs -> Worker]
    <3> DEFINE new == [NoWorker EXCEPT !.pc = "gone"]
    <3>1. new \in Worker
      BY NewWorkerType
    <3>2. worker' = [w \in Jobs |-> IF w \in Running(p) THEN new ELSE worker[w]]
      BY <1>6 DEF Crash
    <3> HIDE DEF new
    <3> QED BY <1>0, <3>1, <3>2
  <2> QED BY <1>0, <1>6, <2>1 DEF Crash
<1>7. ASSUME NEW p \in Procs, CancelAll(p) PROVE TypeOK'
  BY <1>0, <1>7, HaltType DEF CancelAll, Hosted
<1>8. ASSUME NEW p \in Procs, Notify(p) PROVE TypeOK'
  BY <1>0, <1>8, RecordsType DEF Notify
<1>9. ASSUME NEW p \in Procs, NEW w \in Jobs, Start(p, w) PROVE TypeOK'
  <2>1. worker' \in [Jobs -> Worker]
    <3>1. [NoWorker EXCEPT !.pc = "queued", !.host = p, !.status = "queued"] \in Worker
      BY NewWorkerType
    <3>2. [worker[w] EXCEPT !.pc = "gone"] \in Worker
      BY <1>0, WorkerType
    <3>3. \E r \in Worker : worker' = [worker EXCEPT ![w] = r]
      BY <1>9, <3>1, <3>2, Zenon DEF Start
    <3> QED BY <1>0, <3>3, OneWorker
  <2> QED BY <1>0, <1>9, <2>1, RecordsType DEF Start, Failing
<1>10. ASSUME NEW w \in Jobs, Run(w) PROVE TypeOK'
  <2>0. ASSUME worker[w].pc \in Slotted
        PROVE  worker[w].host \in Procs /\ slots[worker[w].host] - 1 \in 0 .. Concurrency
    <3>1. worker[w].host \in Procs
      BY <2>0 DEF IInv, Bound, Hosts, Live
    <3> DEFINE S == {v \in Hosted(worker[w].host) : worker[v].pc \in Slotted}
    <3>2. w \in S /\ S \subseteq Jobs
      BY <2>0 DEF Hosted
    <3>3. IsFiniteSet(S) /\ Cardinality(S) \in Nat
      BY <3>2, FS_Subset, FS_CardinalityType
    <3>4. Cardinality(S) # 0
      BY <3>2, <3>3, FS_EmptySet
    <3>5. slots[worker[w].host] = Cardinality(S)
      BY <3>1 DEF IInv, CapacityHeld
    <3> QED BY <1>0, <3>1, <3>3, <3>4, <3>5
  <2>1. CASE Acquire(w)
    <3>1. /\ [worker[w] EXCEPT !.pc = "slot"] \in Worker
          /\ [worker[w] EXCEPT !.pc = "returned", !.failed = TRUE] \in Worker
      BY <1>0, WorkerType DEF Live, Slotted
    <3>2. worker' \in [Jobs -> Worker]
      <4>1. \E r \in Worker : worker' = [worker EXCEPT ![w] = r]
        BY <2>1, <3>1, Zenon DEF Acquire, Step
      <4> QED BY <1>0, <4>1, OneWorker
    <3> QED BY <1>0, <2>1, <3>2 DEF Acquire
  <2>2. CASE Enter(w)
    <3>1. /\ [worker[w] EXCEPT !.pc = "entering"] \in Worker
          /\ [worker[w] EXCEPT !.pc = "returned", !.failed = TRUE] \in Worker
      BY <1>0, WorkerType DEF Live, Slotted
    <3>2. worker' \in [Jobs -> Worker]
      <4>1. \E r \in Worker : worker' = [worker EXCEPT ![w] = r]
        BY <2>2, <3>1, Zenon DEF Enter, Step
      <4> QED BY <1>0, <4>1, OneWorker
    <3> QED BY <1>0, <2>0, <2>2, <3>2 DEF Enter, Step, Give, Slotted
  <2>3. CASE Begin(w)
    <3>1. worker' \in [Jobs -> Worker]
      BY <1>0, <2>3, WorkerType DEF Begin, Step
    <3> QED BY <1>0, <2>3, <3>1 DEF Begin
  <2>4. ASSUME NEW failed \in BOOLEAN, Return(w, failed) PROVE TypeOK'
    <3>1. [worker[w] EXCEPT !.pc = "returned", !.failed = failed] \in Worker
      BY <1>0, WorkerType
    <3>2. worker' \in [Jobs -> Worker]
      <4>1. \E r \in Worker : worker' = [worker EXCEPT ![w] = r]
        BY <2>4, <3>1, Zenon DEF Return, Step
      <4> QED BY <1>0, <4>1, OneWorker
    <3> QED BY <1>0, <2>0, <2>4, <3>2 DEF Return, Step, Give, Slotted
  <2>5. CASE Decide(w)
    <3>1. Outcome(w) \in Reports
      BY DEF Outcome, Reports
    <3>2. worker' \in [Jobs -> Worker]
      BY <1>0, <2>5, <3>1, WorkerType DEF Decide, Step
    <3> QED BY <1>0, <2>5, <3>2 DEF Decide
  <2>6. CASE Persist(w)
    <3>1. worker[w].status \in Reports
      BY <2>6 DEF Persist, Step, IInv, Bound, Phase
    <3> QED BY <1>0, <2>6, <3>1, RecordsType DEF Persist, Failing, Step, Worker, Live, Slotted, Active
  <2>7. CASE Finish(w)
    <3>1. [worker[w] EXCEPT !.pc = "done", !.cancelled = TRUE] \in Worker
      BY <1>0, WorkerType
    <3>2. worker' \in [Jobs -> Worker]
      BY <1>0, <2>7, <3>1, OneWorker DEF Finish, Step
    <3> QED BY <1>0, <2>7, <3>2 DEF Finish
  <2> QED BY <1>10, <2>1, <2>2, <2>3, <2>4, <2>5, <2>6, <2>7 DEF Run
<1>11. ASSUME NEW w \in Jobs, Age(w) PROVE TypeOK'
  BY <1>0, <1>11 DEF Age
<1>12. ASSUME NEW w \in Jobs, Receive(w) PROVE TypeOK'
  BY <1>0, <1>12 DEF Receive, Step, Worker
<1>13. ASSUME NEW w \in Jobs, StopContext(w) PROVE TypeOK'
  BY <1>0, <1>13, HaltType DEF StopContext, Capacity
<1>14. ASSUME NEW w \in Jobs, Send(w) PROVE TypeOK'
  BY <1>0, <1>14 DEF Send, Worker
<1>15. CASE UNCHANGED vars
  BY <1>0, <1>15 DEF vars
<1> QED BY <1>1, <1>2, <1>3, <1>4, <1>5, <1>6, <1>7, <1>8, <1>9, <1>10, <1>11, <1>12, <1>13, <1>14,
           <1>15 DEF Next

-----------------------------------------------------------------------------
(* One owner, and what each worker's parts say of each other              *)

LEMMA OwnedStep ==
  ASSUME IInv, [Next]_vars
  PROVE  Owned'
<1> USE WorkersConstants DEF Owned
<1>0. Owned /\ TypeOK
  BY DEF IInv
<1>1. ASSUME NEW p \in Procs, NewDurable(p) \/ EndLifetime(p) \/ Seal(p) \/ Sealed(p) \/ Close(p) \/ Crash(p)
      PROVE  Owned'
  BY <1>0, <1>1 DEF TypeOK, NewDurable, EndLifetime, Seal, Sealed, Close, Crash, Free
<1>2. CASE UNCHANGED <<lease, manager>>
  BY <1>0, <1>2
<1>3. ASSUME NEW p \in Procs,
             CancelAll(p) \/ Notify(p) \/ \E w \in Jobs : Start(p, w)
      PROVE  UNCHANGED <<lease, manager>>
  BY <1>3 DEF CancelAll, Notify, Start
<1>4. ASSUME NEW w \in Jobs, Run(w) \/ Age(w) \/ Receive(w) \/ StopContext(w) \/ Send(w)
      PROVE  UNCHANGED <<lease, manager>>
  BY <1>4 DEF Run, Age, Receive, StopContext, Send, Acquire, Enter, Begin, Return, Decide, Persist, Finish
<1> QED BY <1>1, <1>2, <1>3, <1>4 DEF Next, vars

\* What is left alone by a step keeps its part of the invariant.
LEMMA BoundSame ==
  ASSUME Bound, NEW w \in Jobs,
         worker'[w].pc = worker[w].pc, worker'[w].host = worker[w].host,
         worker'[w].status = worker[w].status, receipt'[w].status = receipt[w].status,
         w \in stopped' <=> w \in stopped, worker[w].pc \in Live => lease' = lease
  PROVE  (Hosts(w) /\ Phase(w) /\ Told(w))'
<1>1. Hosts(w) /\ Phase(w) /\ Told(w)
  BY DEF Bound
<1> QED BY <1>1 DEF Hosts, Phase, Told

\* Telling workers to stop.
LEMMA BoundHalt ==
  ASSUME Bound, TypeOK, NEW S \in SUBSET Jobs, HaltAll(S), UNCHANGED <<receipt, lease>>,
         NEW w \in Jobs
  PROVE  (Hosts(w) /\ Phase(w) /\ Told(w))'
<1>0. Hosts(w) /\ Phase(w) /\ Told(w) /\ worker[w] \in Worker
  BY DEF Bound, TypeOK
<1>1. CASE w \notin S
  <2>1. worker'[w] = worker[w] /\ (w \in stopped' <=> w \in stopped)
    BY <1>1 DEF HaltAll
  <2> QED BY <2>1, BoundSame
<1>2. CASE w \in S
  <2>1. worker'[w] = Halted(worker[w]) /\ stopped' \cap {w} = (stopped \cup {v \in S : worker[v].status \in Active}) \cap {w}
    BY <1>2 DEF HaltAll
  <2>2. /\ worker'[w].pc = worker[w].pc /\ worker'[w].host = worker[w].host
        /\ worker'[w].status = IF worker[w].status \in Active THEN "stopping" ELSE worker[w].status
    BY <1>0, <2>1 DEF Halted, Worker
  <2>3. w \in stopped' <=> w \in stopped \/ worker[w].status \in Active
    BY <1>2, <2>1
  <2>4. worker[w].status \in Active => worker[w].pc \in Early
    BY <1>0 DEF Phase, Worker, Early, Reports, Live, Active
  <2> QED BY <1>0, <2>2, <2>3, <2>4 DEF Hosts, Phase, Told, Active, Early, Slotted, Reports, Live
<1> QED BY <1>1, <1>2

\* A step of one worker.
LEMMA BoundOne ==
  ASSUME Bound, TypeOK, NEW w \in Jobs, NEW r, worker' = [worker EXCEPT ![w] = r],
         UNCHANGED <<lease, stopped>>,
         \A v \in Jobs \ {w} : receipt'[v].status = receipt[v].status,
         (Hosts(w) /\ Phase(w) /\ Told(w))'
  PROVE  Bound'
<1>1. ASSUME NEW v \in Jobs, v # w PROVE (Hosts(v) /\ Phase(v) /\ Told(v))'
  <2>1. worker'[v] = worker[v]
    BY <1>1 DEF TypeOK
  <2> QED BY <1>1, <2>1, BoundSame
<1> QED BY <1>1 DEF Bound

\* What the transactions do to the status of a receipt.
LEMMA Statuses ==
  ASSUME receipt \in File!Records
  PROVE  /\ File!RevokeNotifications => \A v \in Jobs : receipt'[v].status = receipt[v].status
         /\ \A w \in Jobs : File!Acknowledge(w) =>
              \A v \in Jobs : receipt'[v].status = receipt[v].status
         /\ File!Interrupt => \A v \in Jobs : receipt'[v].status =
              IF receipt[v].status = "queued" THEN "interrupted" ELSE receipt[v].status
         /\ \A w \in Jobs : File!PersistQueued(w) =>
              receipt'[w].status = "queued" /\ \A v \in Jobs \ {w} : receipt'[v] = receipt[v]
         /\ \A w \in Jobs, s \in Reports : File!PersistFinished(w, s) =>
              receipt'[w].status = s /\ \A v \in Jobs \ {w} : receipt'[v] = receipt[v]
<1> USE DEF File!Records, File!Receipt
<1>1. ASSUME File!RevokeNotifications, NEW v \in Jobs
      PROVE  receipt'[v].status = receipt[v].status
  BY <1>1 DEF File!RevokeNotifications
<1>2. ASSUME NEW w \in Jobs, File!Acknowledge(w), NEW v \in Jobs
      PROVE  receipt'[v].status = receipt[v].status
  BY <1>2 DEF File!Acknowledge
<1>3. ASSUME File!Interrupt, NEW v \in Jobs
      PROVE  receipt'[v].status = IF receipt[v].status = "queued" THEN "interrupted" ELSE receipt[v].status
  BY <1>3 DEF File!Interrupt
<1>4. ASSUME NEW w \in Jobs, File!PersistQueued(w)
      PROVE  receipt'[w].status = "queued" /\ \A v \in Jobs \ {w} : receipt'[v] = receipt[v]
  BY <1>4 DEF File!PersistQueued
<1>5. ASSUME NEW w \in Jobs, NEW s \in Reports, File!PersistFinished(w, s)
      PROVE  receipt'[w].status = s /\ \A v \in Jobs \ {w} : receipt'[v] = receipt[v]
  BY <1>5 DEF File!PersistFinished, File!Finished
<1> QED BY <1>1, <1>2, <1>3, <1>4, <1>5

LEMMA BoundStart ==
  ASSUME Bound, TypeOK, NEW p \in Procs, NEW w \in Jobs, lease = p, Start(p, w)
  PROVE  Bound'
<1>0. receipt \in File!Records /\ Phase(w) /\ Told(w) /\ worker[w] \in Worker /\ w \notin stopped
  BY DEF TypeOK, Bound, Start, Told
<1>1. CASE File!PersistQueued(w) /\ worker' = [worker EXCEPT ![w] =
             [NoWorker EXCEPT !.pc = "queued", !.host = p, !.status = "queued"]]
  <2> DEFINE r == [NoWorker EXCEPT !.pc = "queued", !.host = p, !.status = "queued"]
  <2>1. r.pc = "queued" /\ r.host = p /\ r.status = "queued"
    BY DEF NoWorker
  <2>2. worker'[w] = r /\ UNCHANGED <<lease, stopped>>
    BY <1>1 DEF TypeOK, Start
  <2>3. worker' = [worker EXCEPT ![w] = r]
    BY <1>1
  <2>4. receipt'[w].status = "queued" /\ \A v \in Jobs \ {w} : receipt'[v] = receipt[v]
    BY <1>0, <1>1, Statuses
  <2> HIDE DEF r
  <2>5. (Hosts(w) /\ Phase(w) /\ Told(w))'
    BY <1>0, <2>1, <2>2, <2>4 DEF Hosts, Phase, Told, Early, Active, Live
  <2> QED BY <2>2, <2>3, <2>4, <2>5, BoundOne
<1>2. CASE /\ File!PersistQueued(w) \/ UNCHANGED receipt
           /\ worker' = [worker EXCEPT ![w].pc = "gone"]
  <2> DEFINE r == [worker[w] EXCEPT !.pc = "gone"]
  <2>1. r.pc = "gone" /\ r.host = worker[w].host /\ r.status = worker[w].status
    BY <1>0 DEF Worker
  <2>2. worker'[w] = r /\ UNCHANGED <<lease, stopped>> /\ worker[w].pc = "new"
    BY <1>2 DEF TypeOK, Start
  <2>3. worker' = [worker EXCEPT ![w] = r]
    BY <1>2
  <2>4. \A v \in Jobs \ {w} : receipt'[v] = receipt[v]
    BY <1>0, <1>2, Statuses
  <2> HIDE DEF r
  <2>5. (Hosts(w) /\ Phase(w) /\ Told(w))'
    BY <1>0, <2>1, <2>2, <2>4 DEF Hosts, Phase, Told, Early, Active, Live, Slotted
  <2> QED BY <2>2, <2>3, <2>4, <2>5, BoundOne
<1> QED BY <1>1, <1>2 DEF Start, Failing

\* A step of one goroutine that leaves the receipts alone and gives it the pc,
\* the status and the host of r.
LEMMA BoundMove ==
  ASSUME Bound, TypeOK, NEW w \in Jobs, NEW r, worker' = [worker EXCEPT ![w] = r],
         UNCHANGED <<receipt, lease, stopped>>, r.host = worker[w].host,
         \/ /\ worker[w].pc \in Early /\ r.pc \in Early
            /\ r.status \in Active /\ (worker[w].status = "stopping" => r.status = "stopping")
         \/ /\ worker[w].pc = "returned" /\ r.pc = "ending"
            /\ r.status \in Reports /\ (worker[w].status = "stopping" => r.status = "stopped")
         \/ worker[w].pc = "closing" /\ r.pc = "done" /\ r.status = worker[w].status
         \/ r.pc = worker[w].pc /\ r.status = worker[w].status
  PROVE  Bound'
<1>0. Hosts(w) /\ Phase(w) /\ Told(w) /\ worker[w] \in Worker
  BY DEF Bound, TypeOK
<1>1. worker'[w] = r
  BY DEF TypeOK
<1>2. CASE /\ worker[w].pc \in Early /\ r.pc \in Early
           /\ r.status \in Active /\ (worker[w].status = "stopping" => r.status = "stopping")
  <2>1. Hosts(w)'
    BY <1>0, <1>1, <1>2 DEF Hosts, Early, Live
  <2>2. Phase(w)'
    BY <1>0, <1>1, <1>2 DEF Phase, Early, Slotted
  <2>3. Told(w)'
    BY <1>0, <1>1, <1>2 DEF Told, Early, Slotted
  <2> QED BY <2>1, <2>2, <2>3, BoundOne
<1>3. CASE /\ worker[w].pc = "returned" /\ r.pc = "ending"
           /\ r.status \in Reports /\ (worker[w].status = "stopping" => r.status = "stopped")
  BY <1>0, <1>1, <1>3, BoundOne DEF Hosts, Phase, Told, Early, Slotted, Live
<1>4. CASE worker[w].pc = "closing" /\ r.pc = "done" /\ r.status = worker[w].status
  BY <1>0, <1>1, <1>4, BoundOne DEF Hosts, Phase, Told, Early, Slotted, Live
<1>5. CASE r.pc = worker[w].pc /\ r.status = worker[w].status
  BY <1>0, <1>1, <1>5, BoundOne DEF Hosts, Phase, Told
<1> QED BY <1>2, <1>3, <1>4, <1>5

LEMMA BoundRun ==
  ASSUME Bound, TypeOK, NEW w \in Jobs, Run(w)
  PROVE  Bound'
<1>0. Hosts(w) /\ Phase(w) /\ Told(w) /\ worker[w] \in Worker /\ receipt \in File!Records
  BY DEF Bound, TypeOK
<1>1. CASE Acquire(w)
  <2> DEFINE r == [worker[w] EXCEPT !.pc = "slot"]
             q == [worker[w] EXCEPT !.pc = "returned", !.failed = TRUE]
  <2>1. /\ r.pc = "slot" /\ r.host = worker[w].host /\ r.status = worker[w].status
        /\ q.pc = "returned" /\ q.host = worker[w].host /\ q.status = worker[w].status
    BY <1>0 DEF Worker
  <2>2. /\ worker' = [worker EXCEPT ![w] = r] \/ worker' = [worker EXCEPT ![w] = q]
        /\ worker[w].pc = "queued" /\ UNCHANGED <<receipt, lease, stopped>>
    BY <1>1 DEF Acquire, Step
  <2>3. worker[w].status \in Active
    BY <1>0, <2>2 DEF Phase, Early
  <2> HIDE DEF r, q
  <2>4. CASE worker' = [worker EXCEPT ![w] = r]
    BY <2>1, <2>2, <2>3, <2>4, BoundMove DEF Early, Slotted
  <2>5. CASE worker' = [worker EXCEPT ![w] = q]
    BY <2>1, <2>2, <2>3, <2>5, BoundMove DEF Early, Slotted
  <2> QED BY <2>2, <2>4, <2>5
<1>2. CASE Enter(w)
  <2> DEFINE r == [worker[w] EXCEPT !.pc = "entering"]
             q == [worker[w] EXCEPT !.pc = "returned", !.failed = TRUE]
  <2>1. /\ r.pc = "entering" /\ r.host = worker[w].host /\ r.status = worker[w].status
        /\ q.pc = "returned" /\ q.host = worker[w].host /\ q.status = worker[w].status
    BY <1>0 DEF Worker
  <2>2. /\ worker' = [worker EXCEPT ![w] = r] \/ worker' = [worker EXCEPT ![w] = q]
        /\ worker[w].pc = "slot" /\ UNCHANGED <<receipt, lease, stopped>>
    BY <1>2 DEF Enter, Step
  <2>3. worker[w].status \in Active
    BY <1>0, <2>2 DEF Phase, Early, Slotted
  <2> HIDE DEF r, q
  <2>4. CASE worker' = [worker EXCEPT ![w] = r]
    BY <2>1, <2>2, <2>3, <2>4, BoundMove DEF Early, Slotted
  <2>5. CASE worker' = [worker EXCEPT ![w] = q]
    BY <2>1, <2>2, <2>3, <2>5, BoundMove DEF Early, Slotted
  <2> QED BY <2>2, <2>4, <2>5
<1>3. CASE Begin(w)
  <2> DEFINE r == [worker[w] EXCEPT !.pc = "running",
                     !.status = IF worker[w].status = "stopping" THEN worker[w].status ELSE "running"]
  <2>1. /\ r.pc = "running" /\ r.host = worker[w].host
        /\ r.status = IF worker[w].status = "stopping" THEN "stopping" ELSE "running"
    BY <1>0 DEF Worker
  <2>2. /\ worker' = [worker EXCEPT ![w] = r]
        /\ worker[w].pc = "entering" /\ UNCHANGED <<receipt, lease, stopped>>
    BY <1>3 DEF Begin, Step
  <2> HIDE DEF r
  <2> QED BY <2>1, <2>2, BoundMove DEF Early, Slotted, Active
<1>4. ASSUME NEW failed \in BOOLEAN, Return(w, failed)
      PROVE  Bound'
  <2> DEFINE r == [worker[w] EXCEPT !.pc = "returned", !.failed = failed]
  <2>1. r.pc = "returned" /\ r.host = worker[w].host /\ r.status = worker[w].status
    BY <1>0 DEF Worker
  <2>2. /\ worker' = [worker EXCEPT ![w] = r]
        /\ worker[w].pc = "running" /\ UNCHANGED <<receipt, lease, stopped>>
    BY <1>4 DEF Return, Step
  <2>3. worker[w].status \in Active
    BY <1>0, <2>2 DEF Phase, Early, Slotted
  <2> HIDE DEF r
  <2> QED BY <2>1, <2>2, <2>3, BoundMove DEF Early, Slotted
<1>5. CASE Decide(w)
  <2> DEFINE r == [worker[w] EXCEPT !.pc = "ending", !.status = Outcome(w), !.failed = FALSE, !.inbox = 0]
  <2>1. r.pc = "ending" /\ r.host = worker[w].host /\ r.status = Outcome(w)
    BY <1>0 DEF Worker
  <2>2. /\ worker' = [worker EXCEPT ![w] = r]
        /\ worker[w].pc = "returned" /\ UNCHANGED <<receipt, lease, stopped>>
    BY <1>5 DEF Decide, Step
  <2>3. Outcome(w) \in Reports
    BY DEF Outcome, Reports
  <2>4. worker[w].status = "stopping" => Outcome(w) = "stopped"
    BY DEF Outcome
  <2> HIDE DEF r
  <2> QED BY <2>1, <2>2, <2>3, <2>4, BoundMove
<1>6. CASE Persist(w)
  <2> DEFINE r == [worker[w] EXCEPT !.pc = "closing"]
  <2>1. r.pc = "closing" /\ r.host = worker[w].host /\ r.status = worker[w].status
    BY <1>0 DEF Worker
  <2>2. /\ worker' = [worker EXCEPT ![w] = r] /\ worker'[w] = r
        /\ worker[w].pc = "ending" /\ UNCHANGED <<lease, stopped>>
    BY <1>6 DEF Persist, Step, TypeOK
  <2>3. worker[w].status \in Reports
    BY <1>0, <2>2 DEF Phase
  <2>4. /\ receipt'[w].status \in {receipt[w].status, worker[w].status}
        /\ \A v \in Jobs \ {w} : receipt'[v] = receipt[v]
    BY <1>0, <1>6, <2>3, Statuses DEF Persist, Failing
  <2> HIDE DEF r
  <2>5. (Hosts(w) /\ Phase(w) /\ Told(w))'
    BY <1>0, <2>1, <2>2, <2>3, <2>4 DEF Hosts, Phase, Told, Early, Slotted, Live, Reports
  <2> QED BY <2>2, <2>4, <2>5, BoundOne
<1>7. CASE Finish(w)
  <2> DEFINE r == [worker[w] EXCEPT !.pc = "done", !.cancelled = TRUE]
  <2>1. r.pc = "done" /\ r.host = worker[w].host /\ r.status = worker[w].status
    BY <1>0 DEF Worker
  <2>2. /\ worker' = [worker EXCEPT ![w] = r]
        /\ worker[w].pc = "closing" /\ UNCHANGED <<receipt, lease, stopped>>
    BY <1>7 DEF Finish, Step
  <2> HIDE DEF r
  <2> QED BY <2>1, <2>2, BoundMove
<1> QED BY <1>1, <1>2, <1>3, <1>4, <1>5, <1>6, <1>7 DEF Run

LEMMA BoundStep ==
  ASSUME IInv, [Next]_vars
  PROVE  Bound'
<1>0. Bound /\ TypeOK /\ Owned /\ receipt \in File!Records
  BY DEF IInv, TypeOK
<1>1. ASSUME NEW p \in Procs, NewDurable(p) PROVE Bound'
  <2>1. /\ \A v \in Jobs : receipt'[v].status \in
             {receipt[v].status, IF receipt[v].status = "queued" THEN "interrupted" ELSE receipt[v].status}
        /\ UNCHANGED <<worker, stopped>> /\ lease = "free"
    BY <1>0, <1>1, Statuses DEF NewDurable, Failing, Free
  <2> SUFFICES ASSUME NEW v \in Jobs PROVE (Hosts(v) /\ Phase(v) /\ Told(v))'
    BY DEF Bound
  <2>2. Hosts(v) /\ Phase(v) /\ Told(v)
    BY <1>0 DEF Bound
  <2>3. worker[v].pc \notin Live
    BY <2>1, <2>2, WorkersConstants DEF Hosts
  <2> QED BY <2>1, <2>2, <2>3 DEF Hosts, Phase, Told, Live, Early
<1>2. ASSUME NEW p \in Procs, EndLifetime(p) PROVE Bound'
  <2> SUFFICES ASSUME NEW v \in Jobs PROVE (Hosts(v) /\ Phase(v) /\ Told(v))'
    BY DEF Bound
  <2>1. /\ worker'[v].pc = worker[v].pc /\ worker'[v].host = worker[v].host
        /\ worker'[v].status = worker[v].status
    BY <1>0, <1>2 DEF EndLifetime, TypeOK, Worker
  <2> QED BY <1>0, <1>2, <2>1, BoundSame DEF EndLifetime
<1>3. ASSUME NEW p \in Procs, Seal(p) \/ CancelAll(p) PROVE Bound'
  <2>1. PICK S \in SUBSET Jobs : HaltAll(S) /\ UNCHANGED <<receipt, lease>>
    BY <1>3 DEF Seal, CancelAll, Hosted
  <2> QED BY <1>0, <2>1, BoundHalt DEF Bound
<1>4. ASSUME NEW p \in Procs, Sealed(p) \/ Notify(p) PROVE Bound'
  <2>1. /\ UNCHANGED <<worker, lease, stopped>>
        /\ \A v \in Jobs : receipt'[v].status = receipt[v].status
    BY <1>0, <1>4, Statuses DEF Sealed, Notify
  <2> QED BY <1>0, <2>1, BoundSame DEF Bound
<1>5. ASSUME NEW p \in Procs, Close(p) PROVE Bound'
  <2>1. UNCHANGED <<receipt, worker, stopped>> /\ lease = p
    BY <1>0, <1>5 DEF Close, Owned
  <2>2. \A v \in Jobs : worker[v].pc \notin Live
    BY <1>0, <1>5, <2>1 DEF Close, Joined, Running, Hosted, Bound, Hosts
  <2> QED BY <1>0, <2>1, <2>2, BoundSame DEF Bound
<1>6. ASSUME NEW p \in Procs, Crash(p) PROVE Bound'
  <2>1. UNCHANGED <<receipt, stopped>> /\ lease = p
    BY <1>0, <1>6 DEF Crash, Owned
  <2> SUFFICES ASSUME NEW v \in Jobs PROVE (Hosts(v) /\ Phase(v) /\ Told(v))'
    BY DEF Bound
  <2>2. Hosts(v) /\ Phase(v) /\ Told(v) /\ worker[v] \in Worker
    BY <1>0 DEF Bound, TypeOK
  <2>3. CASE worker[v].pc \notin Live
    <3>1. worker'[v] = worker[v]
      BY <1>6, <2>3 DEF Crash, Running
    <3> QED BY <1>0, <2>1, <2>3, <3>1, BoundSame
  <2>4. CASE worker[v].pc \in Live
    <3>1. v \in Running(p)
      BY <2>1, <2>2, <2>4 DEF Running, Hosted, Hosts
    <3> DEFINE r == [NoWorker EXCEPT !.pc = "gone"]
    <3>2. r.pc = "gone" /\ r.host = "none" /\ r.status = "none"
      BY DEF NoWorker
    <3>3. worker'[v] = r
      BY <1>6, <3>1 DEF Crash
    <3> HIDE DEF r
    <3> QED BY <2>1, <2>2, <3>2, <3>3 DEF Hosts, Phase, Told, Live, Slotted, Early
  <2> QED BY <2>3, <2>4
<1>7. ASSUME NEW p \in Procs, NEW w \in Jobs, Start(p, w) PROVE Bound'
  <2>1. lease = p
    BY <1>0, <1>7 DEF Start, Owned
  <2> QED BY <1>0, <1>7, <2>1, BoundStart
<1>8. ASSUME NEW w \in Jobs, Run(w) PROVE Bound'
  BY <1>0, <1>8, BoundRun
<1>9. ASSUME NEW w \in Jobs, Age(w) PROVE Bound'
  BY <1>0, <1>9, BoundSame DEF Age, Bound
<1>10. ASSUME NEW w \in Jobs, Receive(w) \/ Send(w) PROVE Bound'
  <2> SUFFICES ASSUME NEW v \in Jobs PROVE (Hosts(v) /\ Phase(v) /\ Told(v))'
    BY DEF Bound
  <2>1. /\ worker'[v].pc = worker[v].pc /\ worker'[v].host = worker[v].host
        /\ worker'[v].status = worker[v].status
    BY <1>0, <1>10 DEF Receive, Send, Step, TypeOK, Worker
  <2> QED BY <1>0, <1>10, <2>1, BoundSame DEF Receive, Send
<1>11. ASSUME NEW w \in Jobs, StopContext(w) PROVE Bound'
  BY <1>0, <1>11, BoundHalt DEF StopContext, Bound
<1>12. CASE UNCHANGED vars
  BY <1>0, <1>12, BoundSame DEF vars, Bound
<1> QED BY <1>1, <1>2, <1>3, <1>4, <1>5, <1>6, <1>7, <1>8, <1>9, <1>10, <1>11, <1>12 DEF Next

-----------------------------------------------------------------------------
(* Capacity: who holds a slot of p, and how many slots are taken           *)

Taken(p) == {w \in Hosted(p) : worker[w].pc \in Slotted}

LEMMA HoldingFinite == \A p \in Procs : IsFiniteSet(Taken(p)) /\ Cardinality(Taken(p)) \in Nat
<1>1. \A p \in Procs : Taken(p) \subseteq Jobs
  BY DEF Taken, Hosted
<1> QED BY <1>1, WorkersConstants, FS_Subset, FS_CardinalityType

\* A step that neither takes nor gives a slot.
LEMMA CapacitySame ==
  ASSUME CapacityHeld, UNCHANGED slots,
         \A v \in Jobs : /\ worker'[v].host = worker[v].host
                         /\ worker'[v].pc \in Slotted <=> worker[v].pc \in Slotted
  PROVE  CapacityHeld'
<1>1. \A p \in Procs : Taken(p)' = Taken(p)
  BY DEF Taken, Hosted
<1> QED BY <1>1 DEF CapacityHeld, Taken

\* A goroutine that acquires a slot.
LEMMA CapacityTaken ==
  ASSUME CapacityHeld, TypeOK, NEW w \in Jobs, worker[w].host \in Procs,
         NEW r, worker' = [worker EXCEPT ![w] = r], r.host = worker[w].host,
         worker[w].pc \notin Slotted, r.pc \in Slotted,
         slots' = [slots EXCEPT ![worker[w].host] = @ + 1]
  PROVE  CapacityHeld'
<1> SUFFICES ASSUME NEW p \in Procs PROVE slots'[p] = Cardinality(Taken(p)')
  BY DEF CapacityHeld, Taken
<1>0. slots[p] = Cardinality(Taken(p)) /\ slots[p] \in 0 .. Concurrency
  BY DEF CapacityHeld, Taken, TypeOK
<1>1. worker'[w] = r /\ \A v \in Jobs \ {w} : worker'[v] = worker[v]
  BY DEF TypeOK
<1>2. CASE worker[w].host = p
  <2>1. Taken(p)' = Taken(p) \cup {w} /\ w \notin Taken(p)
    BY <1>1, <1>2 DEF Taken, Hosted
  <2>2. slots'[p] = slots[p] + 1
    BY <1>2 DEF TypeOK
  <2>3. Cardinality(Taken(p) \cup {w}) = Cardinality(Taken(p)) + 1
    BY <2>1, HoldingFinite, FS_AddElement
  <2> QED BY <1>0, <2>1, <2>2, <2>3
<1>3. CASE worker[w].host # p
  <2>1. Taken(p)' = Taken(p)
    BY <1>1, <1>3 DEF Taken, Hosted
  <2>2. slots'[p] = slots[p]
    BY <1>3 DEF TypeOK
  <2> QED BY <1>0, <2>1, <2>2
<1> QED BY <1>2, <1>3

\* A goroutine that gives its slot back.
LEMMA CapacityGiven ==
  ASSUME CapacityHeld, TypeOK, NEW w \in Jobs, worker[w].host \in Procs,
         NEW r, worker' = [worker EXCEPT ![w] = r], r.host = worker[w].host,
         worker[w].pc \in Slotted, r.pc \notin Slotted, Give(w)
  PROVE  CapacityHeld'
<1> SUFFICES ASSUME NEW p \in Procs PROVE slots'[p] = Cardinality(Taken(p)')
  BY DEF CapacityHeld, Taken
<1>0. slots[p] = Cardinality(Taken(p)) /\ slots[p] \in 0 .. Concurrency
  BY DEF CapacityHeld, Taken, TypeOK
<1>1. worker'[w] = r /\ \A v \in Jobs \ {w} : worker'[v] = worker[v]
  BY DEF TypeOK
<1>2. CASE worker[w].host = p
  <2>1. Taken(p)' = Taken(p) \ {w} /\ w \in Taken(p)
    BY <1>1, <1>2 DEF Taken, Hosted
  <2>2. slots'[p] = slots[p] - 1
    BY <1>2 DEF TypeOK, Give
  <2>3. Cardinality(Taken(p) \ {w}) = Cardinality(Taken(p)) - 1
    BY <2>1, HoldingFinite, FS_RemoveElement
  <2> QED BY <1>0, <2>1, <2>2, <2>3
<1>3. CASE worker[w].host # p
  <2>1. Taken(p)' = Taken(p)
    BY <1>1, <1>3 DEF Taken, Hosted
  <2>2. slots'[p] = slots[p]
    BY <1>3 DEF TypeOK, Give
  <2> QED BY <1>0, <2>1, <2>2
<1> QED BY <1>2, <1>3

LEMMA CapacityCrash ==
  ASSUME CapacityHeld, TypeOK, NEW p \in Procs, Crash(p)
  PROVE  CapacityHeld'
<1> DEFINE dead == [NoWorker EXCEPT !.pc = "gone"]
<1>1. dead.host = "none" /\ dead.pc = "gone"
  BY DEF NoWorker
<1>2. \A v \in Jobs : worker'[v] = IF v \in Running(p) THEN dead ELSE worker[v]
  BY DEF Crash
<1>3. \A q \in Procs : slots'[q] = IF q = p THEN 0 ELSE slots[q]
  BY DEF Crash, TypeOK
<1> HIDE DEF dead
<1>4. Taken(p)' = {}
  BY <1>1, <1>2 DEF Taken, Hosted, Running, Live, Slotted
<1>5. ASSUME NEW q \in Procs, q # p PROVE Taken(q)' = Taken(q)
  BY <1>1, <1>2, <1>5, WorkersConstants DEF Taken, Hosted, Running
<1> QED BY <1>3, <1>4, <1>5, FS_EmptySet DEF CapacityHeld, Taken

LEMMA CapacityRun ==
  ASSUME CapacityHeld, TypeOK, Bound, NEW w \in Jobs, Run(w)
  PROVE  CapacityHeld'
<1>0. worker[w] \in Worker /\ Hosts(w)
  BY DEF TypeOK, Bound
<1>1. ASSUME NEW r, worker' = [worker EXCEPT ![w] = r], r.host = worker[w].host, UNCHANGED slots,
             r.pc \in Slotted <=> worker[w].pc \in Slotted
      PROVE  CapacityHeld'
  <2>1. \A v \in Jobs : worker'[v] = IF v = w THEN r ELSE worker[v]
    BY <1>1 DEF TypeOK
  <2> QED BY <1>1, <2>1, CapacitySame
<1>2. CASE Acquire(w)
  <2> DEFINE r == [worker[w] EXCEPT !.pc = "slot"]
             q == [worker[w] EXCEPT !.pc = "returned", !.failed = TRUE]
  <2>1. r.pc = "slot" /\ r.host = worker[w].host /\ q.pc = "returned" /\ q.host = worker[w].host
    BY <1>0 DEF Worker
  <2>2. /\ worker[w].pc = "queued" /\ worker[w].host \in Procs
        /\ \/ worker' = [worker EXCEPT ![w] = r] /\ slots' = [slots EXCEPT ![worker[w].host] = @ + 1]
           \/ worker' = [worker EXCEPT ![w] = q] /\ UNCHANGED slots
    BY <1>0, <1>2 DEF Acquire, Step, Hosts, Live
  <2> HIDE DEF r, q
  <2>3. CASE worker' = [worker EXCEPT ![w] = r] /\ slots' = [slots EXCEPT ![worker[w].host] = @ + 1]
    BY <2>1, <2>2, <2>3, CapacityTaken DEF Slotted
  <2>4. CASE worker' = [worker EXCEPT ![w] = q] /\ UNCHANGED slots
    BY <1>1, <2>1, <2>2, <2>4 DEF Slotted
  <2> QED BY <2>2, <2>3, <2>4
<1>3. CASE Enter(w)
  <2> DEFINE r == [worker[w] EXCEPT !.pc = "entering"]
             q == [worker[w] EXCEPT !.pc = "returned", !.failed = TRUE]
  <2>1. r.pc = "entering" /\ r.host = worker[w].host /\ q.pc = "returned" /\ q.host = worker[w].host
    BY <1>0 DEF Worker
  <2>2. /\ worker[w].pc = "slot" /\ worker[w].host \in Procs
        /\ \/ worker' = [worker EXCEPT ![w] = r] /\ UNCHANGED slots
           \/ worker' = [worker EXCEPT ![w] = q] /\ Give(w)
    BY <1>0, <1>3 DEF Enter, Step, Hosts, Live, Slotted
  <2> HIDE DEF r, q
  <2>3. CASE worker' = [worker EXCEPT ![w] = r] /\ UNCHANGED slots
    BY <1>1, <2>1, <2>2, <2>3 DEF Slotted
  <2>4. CASE worker' = [worker EXCEPT ![w] = q] /\ Give(w)
    BY <2>1, <2>2, <2>4, CapacityGiven DEF Slotted
  <2> QED BY <2>2, <2>3, <2>4
<1>4. CASE Begin(w)
  <2> DEFINE r == [worker[w] EXCEPT !.pc = "running",
                     !.status = IF worker[w].status = "stopping" THEN worker[w].status ELSE "running"]
  <2>1. r.pc = "running" /\ r.host = worker[w].host
    BY <1>0 DEF Worker
  <2>2. worker' = [worker EXCEPT ![w] = r] /\ worker[w].pc = "entering" /\ UNCHANGED slots
    BY <1>4 DEF Begin, Step
  <2> HIDE DEF r
  <2> QED BY <1>1, <2>1, <2>2 DEF Slotted
<1>5. ASSUME NEW failed \in BOOLEAN, Return(w, failed)
      PROVE  CapacityHeld'
  <2> DEFINE r == [worker[w] EXCEPT !.pc = "returned", !.failed = failed]
  <2>1. r.pc = "returned" /\ r.host = worker[w].host
    BY <1>0 DEF Worker
  <2>2. /\ worker' = [worker EXCEPT ![w] = r] /\ worker[w].pc = "running" /\ Give(w)
        /\ worker[w].host \in Procs
    BY <1>0, <1>5 DEF Return, Step, Hosts, Live, Slotted
  <2> HIDE DEF r
  <2> QED BY <2>1, <2>2, CapacityGiven DEF Slotted
<1>6. CASE Decide(w)
  <2> DEFINE r == [worker[w] EXCEPT !.pc = "ending", !.status = Outcome(w), !.failed = FALSE, !.inbox = 0]
  <2>1. r.pc = "ending" /\ r.host = worker[w].host
    BY <1>0 DEF Worker
  <2>2. worker' = [worker EXCEPT ![w] = r] /\ worker[w].pc = "returned" /\ UNCHANGED slots
    BY <1>6 DEF Decide, Step
  <2> HIDE DEF r
  <2> QED BY <1>1, <2>1, <2>2 DEF Slotted
<1>7. CASE Persist(w)
  <2> DEFINE r == [worker[w] EXCEPT !.pc = "closing"]
  <2>1. r.pc = "closing" /\ r.host = worker[w].host
    BY <1>0 DEF Worker
  <2>2. worker' = [worker EXCEPT ![w] = r] /\ worker[w].pc = "ending" /\ UNCHANGED slots
    BY <1>7 DEF Persist, Step
  <2> HIDE DEF r
  <2> QED BY <1>1, <2>1, <2>2 DEF Slotted
<1>8. CASE Finish(w)
  <2> DEFINE r == [worker[w] EXCEPT !.pc = "done", !.cancelled = TRUE]
  <2>1. r.pc = "done" /\ r.host = worker[w].host
    BY <1>0 DEF Worker
  <2>2. worker' = [worker EXCEPT ![w] = r] /\ worker[w].pc = "closing" /\ UNCHANGED slots
    BY <1>8 DEF Finish, Step
  <2> HIDE DEF r
  <2> QED BY <1>1, <2>1, <2>2 DEF Slotted
<1> QED BY <1>2, <1>3, <1>4, <1>5, <1>6, <1>7, <1>8 DEF Run

LEMMA CapacityStep ==
  ASSUME IInv, [Next]_vars
  PROVE  CapacityHeld'
<1>0. CapacityHeld /\ TypeOK /\ Bound
  BY DEF IInv
<1>1. ASSUME UNCHANGED slots,
             \A v \in Jobs : worker'[v].pc = worker[v].pc /\ worker'[v].host = worker[v].host
      PROVE  CapacityHeld'
  BY <1>0, <1>1, CapacitySame
<1>2. ASSUME NEW S \in SUBSET Jobs, HaltAll(S), UNCHANGED slots PROVE CapacityHeld'
  <2>1. ASSUME NEW v \in Jobs
        PROVE  worker'[v].pc = worker[v].pc /\ worker'[v].host = worker[v].host
    BY <1>0, <1>2 DEF HaltAll, Halted, TypeOK, Worker
  <2> QED BY <1>1, <1>2, <2>1
<1>3. ASSUME NEW p \in Procs, NewDurable(p) \/ Sealed(p) \/ Close(p) \/ Notify(p)
      PROVE  CapacityHeld'
  BY <1>1, <1>3 DEF NewDurable, Sealed, Close, Notify
<1>4. ASSUME NEW p \in Procs, EndLifetime(p)
      PROVE  CapacityHeld'
  <2>1. ASSUME NEW v \in Jobs
        PROVE  worker'[v].pc = worker[v].pc /\ worker'[v].host = worker[v].host
    BY <1>0, <1>4 DEF EndLifetime, TypeOK, Worker
  <2> QED BY <1>1, <1>4, <2>1 DEF EndLifetime
<1>5. ASSUME NEW p \in Procs, Seal(p) \/ CancelAll(p)
      PROVE  CapacityHeld'
  <2>1. PICK S \in SUBSET Jobs : HaltAll(S) /\ UNCHANGED slots
    BY <1>5 DEF Seal, CancelAll, Hosted
  <2> QED BY <1>2, <2>1
<1>6. ASSUME NEW p \in Procs, Crash(p) PROVE CapacityHeld'
  BY <1>0, <1>6, CapacityCrash
<1>7. ASSUME NEW p \in Procs, NEW w \in Jobs, Start(p, w)
      PROVE  CapacityHeld'
  <2> DEFINE r == [NoWorker EXCEPT !.pc = "queued", !.host = p, !.status = "queued"]
             q == [worker[w] EXCEPT !.pc = "gone"]
  <2>1. r.pc = "queued" /\ q.pc = "gone" /\ worker[w].pc = "new"
    BY <1>0, <1>7 DEF NoWorker, TypeOK, Worker, Start
  <2>2. /\ UNCHANGED slots /\ \A v \in Jobs \ {w} : worker'[v] = worker[v]
        /\ worker'[w] = r \/ worker'[w] = q
    BY <1>0, <1>7 DEF Start, TypeOK
  <2> HIDE DEF r, q
  <2>3. \A o \in Procs : Taken(o)' = Taken(o)
    BY <2>1, <2>2 DEF Taken, Hosted, Slotted
  <2> QED BY <1>0, <2>2, <2>3 DEF CapacityHeld, Taken
<1>8. ASSUME NEW w \in Jobs, Run(w) PROVE CapacityHeld'
  BY <1>0, <1>8, CapacityRun
<1>9. ASSUME NEW w \in Jobs, Age(w) PROVE CapacityHeld'
  BY <1>1, <1>9 DEF Age
<1>10. ASSUME NEW w \in Jobs, Receive(w) \/ Send(w) PROVE CapacityHeld'
  <2>1. ASSUME NEW v \in Jobs
        PROVE  worker'[v].pc = worker[v].pc /\ worker'[v].host = worker[v].host
    BY <1>0, <1>10 DEF Receive, Send, Step, TypeOK, Worker
  <2> QED BY <1>1, <1>10, <2>1 DEF Receive, Send
<1>11. ASSUME NEW w \in Jobs, StopContext(w) PROVE CapacityHeld'
  BY <1>2, <1>11 DEF StopContext, Capacity
<1>12. CASE UNCHANGED vars
  BY <1>1, <1>12 DEF vars
<1> QED BY <1>3, <1>4, <1>5, <1>6, <1>7, <1>8, <1>9, <1>10, <1>11, <1>12 DEF Next

-----------------------------------------------------------------------------
(* The theorems                                                            *)

LEMMA InvariantInit == Init => IInv
<1> SUFFICES ASSUME Init PROVE IInv
  OBVIOUS
<1>1. Owned
  BY WorkersConstants DEF Init, Owned
<1>2. \A w \in Jobs : worker[w].pc = "new" /\ worker[w].host = "none" /\ worker[w].status = "none"
  BY DEF Init, NoWorker
<1>3. Bound
  BY <1>2 DEF Init, Bound, Hosts, Phase, Told, Live, Early, Slotted
<1>4. \A p \in Procs : Taken(p) = {}
  BY <1>2 DEF Taken, Hosted, Slotted
<1>5. CapacityHeld
  BY <1>4, FS_EmptySet DEF Init, CapacityHeld, Taken
<1> QED BY <1>1, <1>3, <1>5, TypeInit DEF IInv

\* The invariant, of the manager, its goroutines, its slots and the file of
\* receipts: every transaction and every section under Manager.mu keeps it.
THEOREM WorkersInvariant == Spec => []IInv
<1>1. IInv /\ [Next]_vars => IInv'
  BY TypeStep, OwnedStep, BoundStep, CapacityStep DEF IInv
<1> QED BY <1>1, InvariantInit, PTL DEF Spec

\* manager.go, run: capacity is held until the runner returns, so slots counts the
\* workers between acquisition and return; results.go, NewDurable: no running
\* worker is ever taken for interrupted, and one process hosts them all.
THEOREM OneHost == Spec => []HostedOnce
<1>1. IInv => HostedOnce
  <2> SUFFICES ASSUME IInv PROVE OwnerAlone
    BY DEF IInv, HostedOnce
  <2>1. \A w \in Jobs : receipt[w].status = "interrupted" => worker[w].pc \notin Live
    BY DEF IInv, Bound, Phase, Live, Early
  <2>2. ASSUME NEW p \in Procs, Running(p) # {} PROVE lease = p
    BY <2>2 DEF IInv, Bound, Hosts, Running, Hosted
  <2> QED BY <2>1, <2>2 DEF OwnerAlone
<1> QED BY <1>1, WorkersInvariant, PTL

\* StopContext, CancelAll and Seal: whatever the runner of a stopped worker
\* returns, and whenever, its receipt never says completed or failed.
THEOREM StopsHold == Spec => []StopHolds
<1>1. IInv => StopHolds
  BY DEF IInv, TypeOK, Bound, Told, StopHolds
<1> QED BY <1>1, WorkersInvariant, PTL

\* The types of the receipts on disk, the slots and the workers in memory.
THEOREM WorkerTypes == Spec => []TypeOK
BY WorkersInvariant, PTL DEF IInv

\* What one step of the manager does to the file is a transaction the file allows.
LEMMA ReceiptStep ==
  ASSUME IInv, [Next]_vars
  PROVE  [File!Next]_receipt
<1>0. TypeOK /\ Bound /\ receipt \in File!Records
  BY DEF IInv, TypeOK
<1>1. ASSUME NEW p \in Procs, NewDurable(p) PROVE [File!Next]_receipt
  BY <1>1 DEF NewDurable, Failing, File!Next
<1>2. ASSUME NEW p \in Procs, Sealed(p) PROVE [File!Next]_receipt
  BY <1>2 DEF Sealed, File!Next
<1>3. ASSUME NEW p \in Procs, Notify(p) PROVE [File!Next]_receipt
  BY <1>3 DEF Notify, File!Next
<1>4. ASSUME NEW p \in Procs, NEW w \in Jobs, Start(p, w) PROVE [File!Next]_receipt
  BY <1>4 DEF Start, Failing, File!Next
<1>5. ASSUME NEW w \in Jobs, Persist(w) PROVE [File!Next]_receipt
  <2>1. /\ worker[w].status \in Reports /\ receipt[w].status = "queued"
        /\ File!PersistFinished(w, worker[w].status) \/ UNCHANGED receipt
    BY <1>0, <1>5 DEF Persist, Step, Failing, Bound, Phase
  <2>2. ASSUME NEW s \in Reports, receipt[w].status = "queued", File!PersistFinished(w, s)
        PROVE  File!EndsOnce(w, s)
    BY <1>0, <2>2 DEF File!PersistFinished, File!Finished, File!EndsOnce, File!Records, File!Receipt
  <2>3. Reports = File!Ended \ {"interrupted"}
    BY DEF Reports, File!Ended
  <2> QED BY <2>1, <2>2, <2>3 DEF File!Next
<1>6. ASSUME NEW p \in Procs, EndLifetime(p) \/ Seal(p) \/ Close(p) \/ Crash(p) \/ CancelAll(p)
      PROVE  UNCHANGED receipt
  BY <1>6 DEF EndLifetime, Seal, Close, Crash, CancelAll
<1>7. ASSUME NEW w \in Jobs,
             \/ Acquire(w) \/ Enter(w) \/ Begin(w) \/ \E failed \in BOOLEAN : Return(w, failed)
             \/ Decide(w) \/ Finish(w) \/ Age(w) \/ Receive(w) \/ StopContext(w) \/ Send(w)
      PROVE  UNCHANGED receipt
  BY <1>7 DEF Acquire, Enter, Begin, Return, Decide, Finish, Age, Receive, StopContext, Send
<1>8. CASE UNCHANGED vars
  BY <1>8 DEF vars
<1> QED BY <1>1, <1>2, <1>3, <1>4, <1>5, <1>6, <1>7, <1>8 DEF Next, Run

\* results.go: the manager implements its file's promise.  A receipt ends once, an
\* outcome stays, and no end of a worker takes back a revocation made meanwhile,
\* through crashes, takeovers and transactions that fail on either side of a rename.
THEOREM ReceiptsKept == Spec => KeepsReceipts
<1>1. Init => File!Blank
  BY DEF Init
<1> QED BY <1>1, ReceiptStep, WorkersInvariant, PTL DEF Spec, KeepsReceipts, File!Spec

-----------------------------------------------------------------------------
(* The results on their way to the user                                    *)

\* Summaries: what becomes of the receipts of one conversation's workers.  Of what
\* SummariesConstants says this much is needed: ids of summaries are numbers.
Numbered == Sums \subseteq Nat \ {0}

\* The constants of the component are as it assumes.
LEMMA NumberedHolds == Numbered
<1>1. Sums = 1 .. Cardinality(Sums) /\ Cardinality(Sums) \in Nat
  BY SummariesConstants, FS_CardinalityType
<1> QED BY <1>1 DEF Numbered

SummaryRecord == [status : {"absent"} \cup Open \cup Over,
                  text : {"none", "raw", "report"}, results : SUBSET Jobs]
CarrierRecord == [pc : {"none", "look", "intend", "submit", "wait", "read", "each",
                        "lease"} \cup Holding,
                  id : Sums \cup {0}, results : SUBSET Jobs, todo : SUBSET Sums,
                  stale : BOOLEAN, cancelled : BOOLEAN]
LaneRecord == [pc : {"idle", "load", "first", "first save", "first ack", "begin", "ready",
                     "save", "ack", "text", "store"},
               id : Sums \cup {0}, todo : SUBSET Jobs, added : BOOLEAN,
               cancelled : BOOLEAN, merged : SUBSET Sums]
Session == [disk : [Jobs -> {0, 1}], mem : [Jobs -> {0, 1}]]
Requests == [Sums -> {"none", "queued", "injected", "running", "merged", "empty", "text", "error"}]
Handoffs == [Sums -> {"not", "noted", "lost", "twice", "silenced", "late"}]

Places ==
  /\ receipt \in File!Records
  /\ session \in Session
  /\ summary \in [Sums -> SummaryRecord]
  /\ service \in [loaded : BOOLEAN, closed : BOOLEAN]
  /\ carrier \in [Carriers -> CarrierRecord]
  /\ lane \in LaneRecord
  /\ request \in Requests
  /\ told \in Handoffs

\* Only a conversation that is loaded has a dispatcher, a request or a turn.
Loaded ==
  \/ service.loaded
  \/ /\ \A c \in Carriers : c # "replay" => carrier[c].pc = "none"
     /\ \A s \in Sums : request[s] \notin {"queued", "injected"}
     /\ lane.pc \in {"idle", "load"}

\* What the session and the turn that ingests results know of each other: memory
\* is never behind the disk, what is to be saved is in memory, what is to be
\* acknowledged is on disk.
OnceIn ==
  /\ service.loaded => \A w \in Jobs : session.disk[w] = 1 => session.mem[w] = 1
  /\ lane.pc \in {"first save", "save"} => \A w \in lane.todo : session.mem[w] = 1
  /\ lane.pc \in {"first ack", "ack"} => \A w \in lane.todo : session.disk[w] = 1
  /\ \A w \in Jobs : receipt[w].acked => session.disk[w] = 1

SessionInv == Places /\ Loaded /\ OnceIn

\* The oldest summary is one.
LEMMA MinIs ==
  ASSUME NEW S, S \subseteq Nat, S # {}
  PROVE  Min(S) \in S
<1> DEFINE R == OpToRel(<, Nat)
<1>1. IsWellFoundedOn(R, Nat)
  BY NatLessThanWellFounded
<1>2. \A x, y \in Nat : x < y => <<x, y>> \in R
  BY DEF OpToRel
<1> HIDE DEF R
<1>3. PICK x \in S : \A y \in S : ~ (<<y, x>> \in R)
  BY <1>1, WFMin
<1>4. ASSUME NEW y \in S PROVE x =< y
  <2>1. x \in Nat /\ y \in Nat
    OBVIOUS
  <2>2. ~ (y < x)
    BY <1>2, <1>3, <2>1
  <2> QED BY <2>1, <2>2
<1> QED BY <1>4 DEF Min

\* NextSummary is an open summary, or zero, which is none.
LEMMA SummaryIds ==
  ASSUME Numbered
  PROVE  /\ NextSummary \in Sums \cup {0}
         /\ NextSummary # 0 => summary[NextSummary].status \in Open
         /\ Fresh # {} => Min(Fresh) \in Fresh
<1>1. OpenSums \subseteq Sums /\ Fresh \subseteq Sums /\ Sums \subseteq Nat
  BY DEF OpenSums, Fresh, Numbered
<1>2. OpenSums # {} => Min(OpenSums) \in OpenSums
  BY <1>1, MinIs
<1>3. Fresh # {} => Min(Fresh) \in Fresh
  BY <1>1, MinIs
<1> QED BY <1>1, <1>2, <1>3 DEF NextSummary, OpenSums

-----------------------------------------------------------------------------
(* A write of summaries.json                                               *)

\* What is over stays over, and what was recorded stays recorded.
Advances ==
  \A s \in Sums :
    /\ summary[s].status \in Over => summary'[s].status \in Over
    /\ summary[s].status # "absent" => summary'[s].status # "absent"

\* A summary that is written keeps its type, and the others stay.
LEMMA WriteKeeps ==
  ASSUME summary \in [Sums -> SummaryRecord], NEW s \in Sums, NEW r \in SummaryRecord,
         r.status # "absent", Write(s, r)
  PROVE  /\ summary' \in [Sums -> SummaryRecord] /\ Advances
         /\ summary'[s].status # "absent"
         /\ r.status \in Over => summary'[s].status \in Over
<1>1. \/ summary[s].status \in Over /\ summary' = summary
      \/ summary[s].status \notin Over /\ summary' = [summary EXCEPT ![s] = r]
  BY DEF Write
<1>2. "absent" \notin Over
  BY DEF Over
<1> QED BY <1>1, <1>2 DEF Advances

\* The same for a new status only.
LEMMA SettleKeeps ==
  ASSUME summary \in [Sums -> SummaryRecord], NEW s \in Sums,
         NEW status \in Open \cup Over, Settle(s, status)
  PROVE  /\ summary' \in [Sums -> SummaryRecord] /\ Advances
         /\ status \in Over => summary'[s].status \in Over
<1> DEFINE r == [summary[s] EXCEPT !.status = status]
<1>1. summary[s] \in SummaryRecord
  OBVIOUS
<1>2. r \in SummaryRecord /\ r.status = status
  BY <1>1 DEF SummaryRecord
<1>3. status # "absent"
  BY DEF Open, Over
<1>4. Write(s, r)
  BY DEF Settle
<1> HIDE DEF r
<1> QED BY <1>2, <1>3, <1>4, WriteKeeps

\* The same for summaries nobody writes.
LEMMA SameKeeps ==
  ASSUME summary \in [Sums -> SummaryRecord], UNCHANGED summary
  PROVE  summary' \in [Sums -> SummaryRecord] /\ Advances
BY DEF Advances

-----------------------------------------------------------------------------
(* A carrier's record                                                      *)

\* A carrier at its next step is a carrier.
LEMMA CarrierMoves ==
  ASSUME NEW r \in CarrierRecord
  PROVE  /\ \A pc \in {"none", "look", "intend", "submit", "wait", "read", "each", "lease"}
                        \cup Holding :
              [r EXCEPT !.pc = pc] \in CarrierRecord /\ [r EXCEPT !.pc = pc].pc = pc
              /\ [r EXCEPT !.pc = pc].id = r.id
         /\ Away \in CarrierRecord /\ Away.pc = "none"
         /\ [Away EXCEPT !.pc = "look"] \in CarrierRecord
         /\ [Away EXCEPT !.pc = "look"].pc = "look"
         /\ [Away EXCEPT !.pc = "read"] \in CarrierRecord
         /\ [Away EXCEPT !.pc = "read"].pc = "read"
BY DEF CarrierRecord, Away

\* Leave: a carrier puts down what it carried.
LEMMA LeaveIs ==
  ASSUME carrier \in [Carriers -> CarrierRecord], NEW c \in Carriers,
         Leave(c)
  PROVE  \E r \in CarrierRecord : /\ carrier' = [carrier EXCEPT ![c] = r]
                                  /\ r.pc \in {"none", "each"}
                                  /\ c # "replay" => r.pc = "none"
<1>1. carrier[c] \in CarrierRecord
  OBVIOUS
<1>2. CASE c = "replay"
  <2>1. carrier' = [carrier EXCEPT ![c] = [carrier[c] EXCEPT !.pc = "each"]]
    BY <1>2 DEF Leave, Goto, Go
  <2>2. [carrier[c] EXCEPT !.pc = "each"] \in CarrierRecord /\ [carrier[c] EXCEPT !.pc = "each"].pc = "each"
    BY <1>1, CarrierMoves
  <2> QED BY <1>2, <2>1, <2>2
<1>3. CASE c # "replay"
  <2>1. carrier' = [carrier EXCEPT ![c] = Away]
    BY <1>3 DEF Leave, Go
  <2> QED BY <1>1, <2>1, CarrierMoves
<1> QED BY <1>2, <1>3

\* Goto: it moves on with what it carries.
LEMMA GotoIs ==
  ASSUME carrier \in [Carriers -> CarrierRecord], NEW c \in Carriers,
         NEW pc \in {"lease", "wait"} \cup Holding, Goto(c, pc)
  PROVE  \E r \in CarrierRecord : /\ carrier' = [carrier EXCEPT ![c] = r]
                                  /\ r.pc = pc /\ r.id = carrier[c].id
<1>1. carrier[c] \in CarrierRecord
  OBVIOUS
<1>2. carrier' = [carrier EXCEPT ![c] = [carrier[c] EXCEPT !.pc = pc]]
  BY DEF Goto, Go
<1> QED BY <1>1, <1>2, CarrierMoves

-----------------------------------------------------------------------------
(* The handoff of a summary                                                *)

Near == {"recover", "valid", "sink"}

Handing ==
  /\ \A c, k \in Carriers :
       c # k /\ carrier[c].pc \in Holding /\ carrier[k].pc \in Holding
         => carrier[c].id # carrier[k].id
  /\ \A c \in Carriers :
       /\ carrier[c].pc \in {"submit", "wait", "lease"} \cup Holding => carrier[c].id \in Sums
       /\ carrier[c].pc \in Holding \ {"reread"} => summary[carrier[c].id].status # "absent"
       /\ carrier[c].pc \in Near => told[carrier[c].id] \notin {"noted", "silenced"}
  /\ \A s \in Sums :
       /\ told[s] = "noted" => \/ summary[s].status \in Over
                               \/ \E c \in Carriers : carrier[c].pc = "settle" /\ carrier[c].id = s
       /\ told[s] = "silenced" => summary[s].status \in Over
       /\ told[s] \notin {"twice", "late"}

WayInv == SessionInv /\ Handing

\* What a step of carrier c, which leaves it as r, may do.
Moved(c, r) ==
  /\ r \in CarrierRecord /\ carrier' = [carrier EXCEPT ![c] = r]
  /\ UNCHANGED <<receipt, session, service, lane>>
  /\ summary' \in [Sums -> SummaryRecord] /\ Advances
  /\ request' \in Requests /\ told' \in Handoffs
  /\ c # "replay" /\ r.pc # "none" => carrier[c].pc # "none" \/ service.loaded
  /\ \A s \in Sums : request'[s] \in {"queued", "injected"} =>
       request[s] \in {"queued", "injected"} \/ (c # "replay" /\ carrier[c].pc # "none")
  /\ r.pc \in {"submit", "wait", "lease"} \cup Holding => r.id \in Sums
  /\ r.pc \in Holding => \A k \in Carriers :
       k # c /\ carrier[k].pc \in Holding => carrier[k].id # r.id
  /\ r.pc \in Holding \ {"reread"} => summary'[r.id].status # "absent"
  /\ r.pc \in Near => told[r.id] \notin {"noted", "silenced"}
  /\ \A s \in Sums : \/ told'[s] \in {told[s], "lost"}
                     \/ r.pc = "settle" /\ s = r.id /\ told'[s] = "noted"
  /\ carrier[c].pc = "settle" => \/ told'[carrier[c].id] # "noted"
                                 \/ summary'[carrier[c].id].status \in Over

\* A carrier that moves leaves the others where they are.
LEMMA MovedKeeps ==
  ASSUME WayInv, NEW c \in Carriers, NEW r, Moved(c, r)
  PROVE  WayInv'
<1> USE DEF WayInv, SessionInv
<1>p. Places'
  BY DEF Places, Moved
<1>1. carrier'[c] = r /\ \A k \in Carriers : k # c => carrier'[k] = carrier[k]
  BY DEF Moved, Places
<1>2. Loaded'
  BY <1>1 DEF Moved, Loaded
<1>3. OnceIn'
  BY DEF Moved, OnceIn
<1>4. ASSUME NEW k \in Carriers, NEW l \in Carriers, k # l,
             carrier'[k].pc \in Holding, carrier'[l].pc \in Holding
      PROVE  carrier'[k].id # carrier'[l].id
  BY <1>1, <1>4 DEF Moved, Handing
<1>5. ASSUME NEW k \in Carriers
      PROVE  /\ carrier'[k].pc \in {"submit", "wait", "lease"} \cup Holding => carrier'[k].id \in Sums
             /\ carrier'[k].pc \in Holding \ {"reread"} => summary'[carrier'[k].id].status # "absent"
             /\ carrier'[k].pc \in Near => told'[carrier'[k].id] \notin {"noted", "silenced"}
  <2>1. CASE k = c
    <3>1. r.pc \in Near => r.id \in Sums /\ r.pc # "settle"
      BY DEF Moved, Near, Holding
    <3> QED BY <1>1, <2>1, <3>1 DEF Moved
  <2>2. CASE k # c
    <3>1. carrier[k].pc \in Holding => carrier[k].id \in Sums
      BY DEF Handing
    <3>2. carrier[k].pc \in Holding /\ r.pc = "settle" => carrier[k].id # r.id
      BY <2>2 DEF Moved, Holding
    <3>3. carrier[k].pc \in Near => carrier[k].pc \in Holding
      BY DEF Near, Holding
    <3>4. carrier[k].pc \in Near => told'[carrier[k].id] \notin {"noted", "silenced"}
      BY <3>1, <3>2, <3>3 DEF Moved, Handing
    <3>5. carrier[k].pc \in Holding \ {"reread"} => summary'[carrier[k].id].status # "absent"
      BY <3>1 DEF Moved, Handing, Advances
    <3> QED BY <1>1, <2>2, <3>4, <3>5 DEF Handing
  <2> QED BY <2>1, <2>2
<1>6. ASSUME NEW s \in Sums
      PROVE  /\ told'[s] = "noted" => \/ summary'[s].status \in Over
                                      \/ \E k \in Carriers : carrier'[k].pc = "settle" /\ carrier'[k].id = s
             /\ told'[s] = "silenced" => summary'[s].status \in Over
             /\ told'[s] \notin {"twice", "late"}
  <2>1. told'[s] \in {told[s], "lost"} \/ (r.pc = "settle" /\ s = r.id /\ told'[s] = "noted")
    BY DEF Moved
  <2>2. summary[s].status \in Over => summary'[s].status \in Over
    BY DEF Moved, Advances
  <2>3. ASSUME told[s] = "noted", told'[s] = "noted", summary'[s].status \notin Over
        PROVE  \E k \in Carriers : carrier'[k].pc = "settle" /\ carrier'[k].id = s
    <3>1. PICK k \in Carriers : carrier[k].pc = "settle" /\ carrier[k].id = s
      BY <2>2, <2>3 DEF Handing
    <3>2. k # c
      BY <2>3, <3>1 DEF Moved
    <3> QED BY <1>1, <3>1, <3>2
  <2> QED BY <1>1, <2>1, <2>2, <2>3 DEF Handing
<1> QED BY <1>p, <1>2, <1>3, <1>4, <1>5, <1>6 DEF Handing

-----------------------------------------------------------------------------
(* The carriers                                                            *)

\* What a carrier's step may do to the requests, and to the notes of the handoffs.
Asked(c) ==
  /\ request' \in Requests
  /\ \A s \in Sums : request'[s] \in {"queued", "injected"} =>
       request[s] \in {"queued", "injected"} \/ (c # "replay" /\ carrier[c].pc # "none")

Noted(c) ==
  /\ told' \in Handoffs /\ \A s \in Sums : told'[s] \in {told[s], "lost"}
  /\ carrier[c].pc = "settle" => \/ told'[carrier[c].id] # "noted"
                                 \/ summary'[carrier[c].id].status \in Over

Silent == UNCHANGED <<receipt, session, service, lane>>

\* Who was asked for what stays, with the carriers.
LEMMA SameAsked ==
  ASSUME Places, UNCHANGED <<request, told>>, NEW c \in Carriers
  PROVE  Asked(c) /\ (carrier[c].pc # "settle" => Noted(c))
<1>1. request' = request /\ told' = told
  OBVIOUS
<1>2. request \in Requests /\ told \in Handoffs
  BY DEF Places
<1>3. \A s \in Sums : request'[s] = request[s] /\ told'[s] = told[s]
  BY <1>1
<1> QED BY <1>1, <1>2, <1>3 DEF Asked, Noted

\* A step that hands nothing over and takes no lease is one of Moved.
LEMMA QuietMove ==
  ASSUME WayInv, NEW c \in Carriers, NEW r \in CarrierRecord,
         carrier' = [carrier EXCEPT ![c] = r],
         Silent, Asked(c), Noted(c),
         summary' \in [Sums -> SummaryRecord], Advances,
         c # "replay" /\ r.pc # "none" => carrier[c].pc # "none" \/ service.loaded,
         r.pc \in {"submit", "wait", "lease"} => r.id \in Sums,
         r.pc \in Holding =>
           /\ r.id = carrier[c].id /\ carrier[c].pc \in Holding
           /\ r.pc \in Holding \ {"reread"} => summary'[r.id].status # "absent"
           /\ r.pc \in Near => told[r.id] \notin {"noted", "silenced"}
  PROVE  Moved(c, r)
<1>1. Places /\ Handing
  BY DEF WayInv, SessionInv
<1>2. r.pc \in Holding => r.id \in Sums
  BY <1>1 DEF Handing
<1>3. r.pc \in Holding => \A k \in Carriers :
        k # c /\ carrier[k].pc \in Holding => carrier[k].id # r.id
  BY <1>1 DEF Handing
<1>6. /\ r.pc \in {"submit", "wait", "lease"} \cup Holding => r.id \in Sums
      /\ r.pc \in Holding \ {"reread"} => summary'[r.id].status # "absent"
      /\ r.pc \in Near => told[r.id] \notin {"noted", "silenced"}
  BY <1>2 DEF Near, Holding
<1> QED BY <1>3, <1>6 DEF Moved, Silent, Asked, Noted

\* Leave keeps that.
LEMMA LeaveMoves ==
  ASSUME WayInv, NEW c \in Carriers, Leave(c),
         Silent, Asked(c), Noted(c),
         summary' \in [Sums -> SummaryRecord], Advances
  PROVE  \E r : Moved(c, r)
<1>1. PICK r \in CarrierRecord : /\ carrier' = [carrier EXCEPT ![c] = r]
                                 /\ r.pc \in {"none", "each"}
                                 /\ c # "replay" => r.pc = "none"
  BY LeaveIs DEF WayInv, SessionInv, Places
<1>2. r.pc \notin {"submit", "wait", "lease"} /\ r.pc \notin Holding
  BY <1>1 DEF Holding
<1>3. Moved(c, r)
  BY <1>1, <1>2, QuietMove
<1> QED BY <1>3

\* Where a carrier stands, and whose summary it carries.
LEMMA HereIs ==
  ASSUME WayInv, NEW c \in Carriers
  PROVE  /\ Places /\ carrier[c] \in CarrierRecord /\ summary \in [Sums -> SummaryRecord]
         /\ carrier[c].pc \in {"submit", "wait", "lease"} \cup Holding => carrier[c].id \in Sums
         /\ request \in Requests /\ told \in Handoffs
BY DEF WayInv, SessionInv, Places, Handing

\* A dispatcher looks for a recorded summary, else for pending results.
LEMMA LookMoves ==
  ASSUME WayInv, Numbered, NEW c \in Carriers, Look(c)
  PROVE  \E r : Moved(c, r)
<1>1. /\ UNCHANGED <<receipt, session, service, lane, request, told, summary>>
      /\ carrier[c].pc = "look"
  BY DEF Look, Quiet, At
<1>2. /\ summary' \in [Sums -> SummaryRecord] /\ Advances
      /\ Silent /\ Asked(c) /\ Noted(c)
  BY <1>1, HereIs, SameKeeps, SameAsked DEF Silent
<1>3. CASE Leave(c)
  BY <1>1, <1>2, <1>3, LeaveMoves
<1>4. CASE /\ NextSummary # 0
           /\ Go(c, [carrier[c] EXCEPT !.pc = "lease", !.id = NextSummary])
  <2> DEFINE r == [carrier[c] EXCEPT !.pc = "lease", !.id = NextSummary]
  <2>1. NextSummary \in Sums
    BY <1>4, SummaryIds
  <2>2. r \in CarrierRecord /\ r.pc = "lease" /\ r.id \in Sums
    BY <2>1, HereIs DEF CarrierRecord
  <2>3. carrier' = [carrier EXCEPT ![c] = r]
    BY <1>4 DEF Go
  <2> HIDE DEF r
  <2>4. r.pc \notin Holding
    BY <2>2 DEF Holding
  <2>5. Moved(c, r)
    BY <1>1, <1>2, <2>2, <2>3, <2>4, QuietMove
  <2> QED BY <2>5
<1>5. CASE Go(c, [carrier[c] EXCEPT !.pc = "intend",
                    !.results = {w \in Jobs : File!Pending(w)}])
  <2> DEFINE r == [carrier[c] EXCEPT !.pc = "intend", !.results = {w \in Jobs : File!Pending(w)}]
  <2>2. r \in CarrierRecord /\ r.pc = "intend"
    BY HereIs DEF CarrierRecord
  <2>3. carrier' = [carrier EXCEPT ![c] = r]
    BY <1>5 DEF Go
  <2> HIDE DEF r
  <2>4. r.pc \notin Holding
    BY <2>2 DEF Holding
  <2>5. Moved(c, r)
    BY <1>1, <1>2, <2>2, <2>3, <2>4, QuietMove
  <2> QED BY <2>5
<1> QED BY <1>3, <1>4, <1>5 DEF Look

\* It records the intent.
LEMMA IntendMoves ==
  ASSUME WayInv, Numbered, NEW c \in Carriers, Intend(c)
  PROVE  \E r : Moved(c, r)
<1> DEFINE s == Min(Fresh)
           i == [NoSummary EXCEPT !.status = "generating", !.results = carrier[c].results]
<1>1. /\ UNCHANGED <<receipt, session, service, lane, request, told>>
      /\ carrier[c].pc = "intend"
  BY DEF Intend, Quiet, At
<1>2. s \in Sums
  <2>1. Fresh # {} /\ Fresh \subseteq Sums
    BY DEF Intend, Fresh
  <2> QED BY <2>1, SummaryIds
<1>3. i \in SummaryRecord /\ i.status # "absent"
  BY HereIs DEF SummaryRecord, CarrierRecord, NoSummary, Open
<1>4. Write(s, i) \/ UNCHANGED summary
  BY DEF Intend, Failing
<1>5. \/ Leave(c)
      \/ carrier' = [carrier EXCEPT ![c] = [carrier[c] EXCEPT !.pc = "submit", !.id = s, !.results = {}]]
  BY DEF Intend, Go
<1> HIDE DEF s, i
<1>6. /\ summary' \in [Sums -> SummaryRecord] /\ Advances
      /\ Silent /\ Asked(c) /\ Noted(c)
  BY <1>1, <1>2, <1>3, <1>4, HereIs, WriteKeeps, SameKeeps, SameAsked DEF Silent
<1>7. CASE Leave(c)
  BY <1>1, <1>6, <1>7, LeaveMoves
<1>8. CASE carrier' = [carrier EXCEPT ![c] = [carrier[c] EXCEPT !.pc = "submit", !.id = s, !.results = {}]]
  <2> DEFINE r == [carrier[c] EXCEPT !.pc = "submit", !.id = s, !.results = {}]
  <2>2. r \in CarrierRecord /\ r.pc = "submit" /\ r.id \in Sums
    BY <1>2, HereIs DEF CarrierRecord
  <2>3. carrier' = [carrier EXCEPT ![c] = r]
    BY <1>8
  <2> HIDE DEF r
  <2>4. r.pc \notin Holding
    BY <2>2 DEF Holding
  <2>5. Moved(c, r)
    BY <1>1, <1>6, <2>2, <2>3, <2>4, QuietMove
  <2> QED BY <2>5
<1> QED BY <1>5, <1>7, <1>8

\* It submits the request for a summary.
LEMMA SubmitMoves ==
  ASSUME WayInv, NEW c \in Carriers, c # "replay", Submit(c)
  PROVE  \E r : Moved(c, r)
<1>1. /\ UNCHANGED <<receipt, session, service, lane, told, summary>>
      /\ carrier[c].pc = "submit"
      /\ \/ Leave(c) /\ UNCHANGED request
         \/ /\ Goto(c, "wait")
            /\ request' = [request EXCEPT ![carrier[c].id] =
                             IF lane.pc = "idle" THEN "queued" ELSE "injected"]
  BY DEF Submit, Quiet, At
<1>2. /\ summary' \in [Sums -> SummaryRecord] /\ Advances
      /\ Silent /\ Noted(c)
  BY <1>1, HereIs, SameKeeps DEF Silent, Noted
<1>3. Asked(c)
  BY <1>1, HereIs DEF Asked, Requests
<1>4. CASE Leave(c)
  BY <1>2, <1>3, <1>4, LeaveMoves
<1>5. CASE Goto(c, "wait")
  <2>1. PICK r \in CarrierRecord : /\ carrier' = [carrier EXCEPT ![c] = r]
                                   /\ r.pc = "wait" /\ r.id = carrier[c].id
    BY <1>5, HereIs, GotoIs DEF Places
  <2>2. r.id \in Sums /\ r.pc \notin Holding
    BY <1>1, <2>1, HereIs DEF Holding
  <2>3. Moved(c, r)
    BY <1>1, <1>2, <1>3, <2>1, <2>2, QuietMove
  <2> QED BY <2>3
<1> QED BY <1>1, <1>4, <1>5

\* It waits for the turn that took the request.
LEMMA WaitMoves ==
  ASSUME WayInv, Numbered, NEW c \in Carriers, c # "replay", Wait(c)
  PROVE  \E r : Moved(c, r)
<1>1. /\ UNCHANGED <<receipt, session, service, lane, told>>
      /\ carrier[c].pc = "wait" /\ carrier[c].id \in Sums
      /\ request' = [request EXCEPT ![carrier[c].id] = "none"]
      /\ Settle(carrier[c].id, "accepted") \/ UNCHANGED summary
      /\ \/ Leave(c)
         \/ /\ NextSummary # 0
            /\ carrier' = [carrier EXCEPT ![c] =
                 [carrier[c] EXCEPT !.pc = "lease", !.id = NextSummary]]
  BY HereIs DEF Wait, Quiet, At, Failing, Go
<1>2. "accepted" \in Open \cup Over
  BY DEF Over
<1>3. /\ summary' \in [Sums -> SummaryRecord] /\ Advances
      /\ Silent /\ Noted(c) /\ Asked(c)
  <2>1. summary' \in [Sums -> SummaryRecord] /\ Advances
    BY <1>1, <1>2, HereIs, SettleKeeps, SameKeeps
  <2>2. Asked(c)
    BY <1>1, HereIs DEF Asked, Requests
  <2> QED BY <1>1, <2>1, <2>2, HereIs DEF Silent, Noted
<1>4. CASE Leave(c)
  BY <1>3, <1>4, LeaveMoves
<1>5. CASE /\ NextSummary # 0
           /\ carrier' = [carrier EXCEPT ![c] =
                [carrier[c] EXCEPT !.pc = "lease", !.id = NextSummary]]
  <2> DEFINE r == [carrier[c] EXCEPT !.pc = "lease", !.id = NextSummary]
  <2>1. NextSummary \in Sums
    BY <1>5, SummaryIds
  <2>2. r \in CarrierRecord /\ r.pc = "lease" /\ r.id \in Sums
    BY <2>1, HereIs DEF CarrierRecord
  <2>3. carrier' = [carrier EXCEPT ![c] = r]
    BY <1>5
  <2> HIDE DEF r
  <2>4. r.pc \notin Holding
    BY <2>2 DEF Holding
  <2>5. Moved(c, r)
    BY <1>1, <1>3, <2>2, <2>3, <2>4, QuietMove
  <2> QED BY <2>5
<1> QED BY <1>1, <1>4, <1>5

\* The replay, and the beginning of a dispatcher.
LEMMA StartMoves ==
  ASSUME WayInv, NEW c \in Carriers,
         \/ c # "replay" /\ Dispatch(c)
         \/ c = "replay" /\ (\/ Replay \/ Inventory \/ Replayed
                             \/ \E s \in Sums : Each(s))
  PROVE  (\E r : Moved(c, r)) \/ UNCHANGED <<receipt, session, service, lane, request, told, summary, carrier>>
<1>1. /\ UNCHANGED <<receipt, session, service, lane, request, told, summary>>
      /\ \/ carrier' = carrier
         \/ /\ c # "replay" /\ service.loaded
            /\ carrier' = [carrier EXCEPT ![c] = [Away EXCEPT !.pc = "look"]]
         \/ /\ c = "replay"
            /\ \/ carrier' = [carrier EXCEPT ![c] = [Away EXCEPT !.pc = "read"]]
               \/ carrier' = [carrier EXCEPT ![c] = [carrier[c] EXCEPT !.pc = "each", !.todo = OpenSums]]
               \/ carrier' = [carrier EXCEPT ![c] = Away]
               \/ \E s \in Sums : carrier' = [carrier EXCEPT ![c] =
                     [carrier[c] EXCEPT !.pc = "lease", !.id = s, !.todo = @ \ {s}]]
      /\ carrier' # carrier => carrier[c].pc # "settle"
  BY DEF Dispatch, Replay, Inventory, Replayed, Each,
         Quiet, At, Go, disk
<1>2. CASE carrier' = carrier
  BY <1>1, <1>2
<1>3. ASSUME carrier' # carrier PROVE \E r : Moved(c, r)
  <2>1. PICK r \in CarrierRecord :
          /\ carrier' = [carrier EXCEPT ![c] = r]
          /\ r.pc \in {"look", "read", "each", "none", "lease"}
          /\ r.pc = "lease" => r.id \in Sums
          /\ c # "replay" => service.loaded
    <3>1. OpenSums \in SUBSET Sums /\ carrier[c] \in CarrierRecord
      BY HereIs DEF OpenSums
    <3>2. /\ [carrier[c] EXCEPT !.pc = "each", !.todo = OpenSums] \in CarrierRecord
          /\ [carrier[c] EXCEPT !.pc = "each", !.todo = OpenSums].pc = "each"
      BY <3>1 DEF CarrierRecord
    <3>3. ASSUME NEW s \in Sums
          PROVE  /\ [carrier[c] EXCEPT !.pc = "lease", !.id = s, !.todo = @ \ {s}] \in CarrierRecord
                 /\ [carrier[c] EXCEPT !.pc = "lease", !.id = s, !.todo = @ \ {s}].pc = "lease"
                 /\ [carrier[c] EXCEPT !.pc = "lease", !.id = s, !.todo = @ \ {s}].id = s
      BY <3>1 DEF CarrierRecord
    <3>4. CASE \E s \in Sums : carrier' = [carrier EXCEPT ![c] =
                     [carrier[c] EXCEPT !.pc = "lease", !.id = s, !.todo = @ \ {s}]]
      <4>1. PICK s \in Sums : carrier' = [carrier EXCEPT ![c] =
                     [carrier[c] EXCEPT !.pc = "lease", !.id = s, !.todo = @ \ {s}]]
        BY <3>4
      <4>2. carrier[c] = carrier[c] /\ (c # "replay" => service.loaded)
        BY <1>1, <1>3
      <4> DEFINE q == [carrier[c] EXCEPT !.pc = "lease", !.id = s, !.todo = @ \ {s}]
      <4>3. q \in CarrierRecord /\ q.pc = "lease" /\ q.id = s
        BY <3>3
      <4>4. carrier' = [carrier EXCEPT ![c] = q]
        BY <4>1
      <4> HIDE DEF q
      <4> QED BY <4>2, <4>3, <4>4
    <3> QED BY <1>1, <1>3, <3>1, <3>2, <3>4, CarrierMoves
  <2>2. r.pc \notin Holding /\ r.pc \notin {"submit", "wait"}
    BY <2>1 DEF Holding
  <2>3. /\ summary' \in [Sums -> SummaryRecord] /\ Advances
        /\ Silent /\ Asked(c) /\ Noted(c)
    BY <1>1, <1>3, HereIs, SameKeeps, SameAsked DEF Silent
  <2>4. Moved(c, r)
    BY <2>1, <2>2, <2>3, QuietMove
  <2> QED BY <2>4
<1> QED BY <1>2, <1>3

\* The note of a handoff is lost, or stays.
LEMMA LostIs ==
  ASSUME told \in Handoffs, NEW s \in Sums, told' = Lost(s, told)
  PROVE  /\ told' \in Handoffs /\ \A t \in Sums : told'[t] \in {told[t], "lost"}
         /\ told'[s] # "noted"
BY DEF Lost, Handoffs

\* The context of a carrier ends.
LEMMA AbortMoves ==
  ASSUME WayInv, NEW c \in Carriers, Abort(c)
  PROVE  \E r : Moved(c, r)
<1>1. /\ UNCHANGED <<receipt, session, service, lane, request, summary>>
      /\ carrier' = [carrier EXCEPT ![c] = Away]
      /\ told' = IF carrier[c].pc = "settle" THEN Lost(carrier[c].id, told) ELSE told
  BY DEF Abort, Quiet, Go
<1>2. Noted(c)
  <2>1. CASE carrier[c].pc = "settle"
    <3>1. carrier[c].id \in Sums
      BY <2>1, HereIs DEF Holding
    <3> QED BY <1>1, <2>1, <3>1, HereIs, LostIs DEF Noted
  <2>2. CASE carrier[c].pc # "settle"
    BY <1>1, <2>2, HereIs DEF Noted
  <2> QED BY <2>1, <2>2
<1>3. Asked(c)
  BY <1>1, HereIs DEF Asked
<1>4. summary' \in [Sums -> SummaryRecord] /\ Advances /\ Silent
  BY <1>1, HereIs, SameKeeps DEF Silent
<1>5. Away \in CarrierRecord /\ Away.pc = "none"
  BY HereIs, CarrierMoves
<1>6. Away.pc \notin Holding
  BY <1>5 DEF Holding
<1>7. Moved(c, Away)
  BY <1>1, <1>2, <1>3, <1>4, <1>5, <1>6, QuietMove
<1> QED BY <1>7

\* summaryDeliveryLease: no other carrier holds the lease of that summary.
LEMMA LeaseMoves ==
  ASSUME WayInv, NEW c \in Carriers, Lease(c)
  PROVE  \E r : Moved(c, r)
<1>1. /\ UNCHANGED <<receipt, session, service, lane, request, told, summary>>
      /\ carrier[c].pc = "lease"
      /\ \/ /\ \A k \in Carriers : carrier[k].pc \in Holding => carrier[k].id # carrier[c].id
            /\ Goto(c, "reread")
         \/ Leave(c)
  BY DEF Lease, Quiet, At
<1>2. /\ summary' \in [Sums -> SummaryRecord] /\ Advances
      /\ Silent /\ Asked(c) /\ Noted(c)
  BY <1>1, HereIs, SameKeeps, SameAsked DEF Silent
<1>3. CASE Leave(c)
  BY <1>2, <1>3, LeaveMoves
<1>4. CASE /\ \A k \in Carriers : carrier[k].pc \in Holding => carrier[k].id # carrier[c].id
           /\ Goto(c, "reread")
  <2>0. "reread" \in Holding
    BY DEF Holding
  <2>1. PICK r \in CarrierRecord : /\ carrier' = [carrier EXCEPT ![c] = r]
                                   /\ r.pc = "reread" /\ r.id = carrier[c].id
    BY <1>4, <2>0, HereIs, GotoIs DEF Places
  <2>2. r.id \in Sums
    BY <1>1, <2>1, HereIs
  <2>3. r.pc \notin Near /\ r.pc # "settle"
    BY <2>1 DEF Near
  <2>4. Moved(c, r)
    BY <1>1, <1>2, <1>4, <2>1, <2>2, <2>3 DEF Moved, Silent, Asked, Noted
  <2> QED BY <2>4
<1> QED BY <1>1, <1>3, <1>4

\* Only a record that is open is taken on, and of one that is the note is not kept
\* and nothing was revoked.
LEMMA RereadMoves ==
  ASSUME WayInv, NEW c \in Carriers, Reread(c)
  PROVE  \E r : Moved(c, r)
<1> DEFINE s == carrier[c].id
           pc == IF summary[s].status = "generating" THEN "recover" ELSE "valid"
           rs == IF summary[s].status = "generating" THEN summary[s].results ELSE {}
<1>1. /\ UNCHANGED <<receipt, session, service, lane, request, told, summary>>
      /\ carrier[c].pc = "reread"
      /\ \/ /\ summary[s].status \in Open
            /\ carrier' = [carrier EXCEPT ![c] = [carrier[c] EXCEPT !.pc = pc, !.results = rs]]
         \/ Leave(c)
  BY DEF Reread, Quiet, At, Admitted, Go
<1>2. /\ summary' \in [Sums -> SummaryRecord] /\ Advances
      /\ Silent /\ Asked(c) /\ Noted(c)
  BY <1>1, HereIs, SameKeeps, SameAsked DEF Silent
<1>3. CASE Leave(c)
  BY <1>2, <1>3, LeaveMoves
<1>4. CASE /\ summary[s].status \in Open
           /\ carrier' = [carrier EXCEPT ![c] = [carrier[c] EXCEPT !.pc = pc, !.results = rs]]
  <2> DEFINE r == [carrier[c] EXCEPT !.pc = pc, !.results = rs]
  <2>0. "reread" \in Holding
    BY DEF Holding
  <2>1. s \in Sums
    BY <1>1, <2>0, HereIs
  <2>2. pc \in Near /\ pc \in Holding /\ rs \in SUBSET Jobs
    <3>1. summary[s] \in SummaryRecord
      BY <2>1, HereIs
    <3> QED BY <3>1 DEF Near, Holding, SummaryRecord
  <2> HIDE DEF pc, rs
  <2>3. r \in CarrierRecord /\ r.pc \in Near /\ r.pc \in Holding /\ r.id = s
    BY <2>2, HereIs DEF CarrierRecord
  <2>4. carrier' = [carrier EXCEPT ![c] = r]
    BY <1>4
  <2> HIDE DEF r
  <2>5. summary[s].status # "absent" /\ summary[s].status \notin Over
    BY <1>4 DEF Open, Over
  <2>6. told[s] \notin {"noted", "silenced"}
    <3>1. \A k \in Carriers : ~(carrier[k].pc = "settle" /\ carrier[k].id = s)
      BY <1>1, <2>0 DEF WayInv, Handing, Holding
    <3> QED BY <2>1, <2>5, <3>1 DEF WayInv, Handing
  <2>7. summary'[s].status # "absent"
    BY <1>1, <2>5
  <2>8. r.pc \notin {"submit", "wait", "lease", "settle", "reread"}
    BY <2>3 DEF Near
  <2>9. Moved(c, r)
    BY <1>1, <1>2, <2>0, <2>1, <2>3, <2>4, <2>6, <2>7, <2>8, QuietMove
  <2> QED BY <2>9
<1> QED BY <1>1, <1>3, <1>4

\* The report of the run, or the raw results, become the text.
LEMMA RecoverMoves ==
  ASSUME WayInv, NEW c \in Carriers, Recover(c)
  PROVE  \E r : Moved(c, r)
<1> DEFINE s == carrier[c].id
           text == IF s \in report THEN "report" ELSE "raw"
           w == [status |-> "pending", text |-> text, results |-> carrier[c].results]
<1>1. /\ UNCHANGED <<receipt, session, service, lane, request, told>>
      /\ carrier[c].pc = "recover"
      /\ \/ /\ Write(s, w)
            /\ carrier' = [carrier EXCEPT ![c] = [carrier[c] EXCEPT !.pc = "valid", !.results = {}]]
         \/ (UNCHANGED summary \/ Write(s, w)) /\ Leave(c)
  BY DEF Recover, Quiet, At, Go, Failing
<1>2. w \in SummaryRecord /\ w.status # "absent"
  BY HereIs DEF SummaryRecord, CarrierRecord, Open
<1> HIDE DEF w
<1>3. s \in Sums /\ carrier[c].pc \in Near /\ carrier[c].pc \in Holding
  BY <1>1, HereIs DEF Near, Holding
<1>4. /\ summary' \in [Sums -> SummaryRecord] /\ Advances
      /\ Silent /\ Asked(c) /\ Noted(c)
  BY <1>1, <1>2, <1>3, HereIs, WriteKeeps, SameKeeps, SameAsked DEF Silent
<1>5. CASE Leave(c)
  BY <1>4, <1>5, LeaveMoves
<1>6. CASE carrier' = [carrier EXCEPT ![c] = [carrier[c] EXCEPT !.pc = "valid", !.results = {}]]
  <2> DEFINE r == [carrier[c] EXCEPT !.pc = "valid", !.results = {}]
  <2>1. "valid" \in Holding /\ "valid" \in Near
    BY DEF Holding, Near
  <2>2. r \in CarrierRecord /\ r.pc = "valid" /\ r.id = s
    BY <2>1, HereIs DEF CarrierRecord
  <2>3. carrier' = [carrier EXCEPT ![c] = r]
    BY <1>6
  <2> HIDE DEF r
  <2>4. told[s] \notin {"noted", "silenced"}
    BY <1>3 DEF WayInv, Handing
  <2>5. summary'[s].status # "absent"
    BY <1>1, <1>3, <1>4 DEF WayInv, Handing, Advances
  <2>6. Moved(c, r)
    BY <1>1, <1>3, <1>4, <2>1, <2>2, <2>3, <2>4, <2>5, QuietMove
  <2> QED BY <2>6
<1> QED BY <1>1, <1>5, <1>6

\* A carrier looks at the service once more before it hands over.
LEMMA ValidMoves ==
  ASSUME WayInv, NEW c \in Carriers, Valid(c)
  PROVE  \E r : Moved(c, r)
<1>1. /\ UNCHANGED <<receipt, session, service, lane, request, told, summary>>
      /\ carrier[c].pc = "valid"
      /\ Leave(c) \/ Goto(c, "sink")
  BY DEF Valid, Quiet, At
<1>2. /\ summary' \in [Sums -> SummaryRecord] /\ Advances
      /\ Silent /\ Asked(c) /\ Noted(c)
  BY <1>1, HereIs, SameKeeps, SameAsked DEF Silent
<1>3. CASE Leave(c)
  BY <1>2, <1>3, LeaveMoves
<1>4. CASE Goto(c, "sink")
  <2>0. /\ "sink" \in Holding /\ carrier[c].pc \in Holding
        /\ carrier[c].pc \in Holding \ {"reread"} /\ carrier[c].pc \in Near
    BY <1>1 DEF Holding, Near
  <2>1. PICK r \in CarrierRecord : /\ carrier' = [carrier EXCEPT ![c] = r]
                                   /\ r.pc = "sink" /\ r.id = carrier[c].id
    BY <1>4, <2>0, HereIs, GotoIs DEF Places
  <2>2. /\ told[r.id] \notin {"noted", "silenced"} /\ summary[r.id].status # "absent"
    BY <2>0, <2>1 DEF WayInv, Handing
  <2>3. Moved(c, r)
    BY <1>1, <1>2, <2>0, <2>1, <2>2, QuietMove
  <2> QED BY <2>3
<1> QED BY <1>1, <1>3, <1>4

\* The sink takes a summary that was not noted before, and not revoked.
LEMMA SinkMoves ==
  ASSUME WayInv, NEW c \in Carriers, Sink(c)
  PROVE  \E r : Moved(c, r)
<1> DEFINE s == carrier[c].id
<1>1. /\ UNCHANGED <<receipt, session, service, lane, request, summary>>
      /\ carrier[c].pc = "sink"
      /\ \/ told' = Hand(s) /\ Goto(c, "settle")
         \/ told' = told /\ Goto(c, "unsettle")
         \/ told' = Lost(s, Hand(s)) /\ Goto(c, "unsettle")
  BY DEF Sink, Quiet, At
<1>2. /\ carrier[c].pc \in Holding \ {"reread"} /\ carrier[c].pc \in Holding
      /\ carrier[c].pc \in Near /\ {"settle", "unsettle"} \subseteq Holding \ {"reread"}
  BY <1>1 DEF Holding, Near
<1>3. s \in Sums /\ told[s] \notin {"noted", "silenced", "twice", "late"} /\ summary[s].status # "absent"
  BY <1>2, HereIs DEF WayInv, Handing
<1>4. told[s] \in {"not", "lost"} /\ told \in Handoffs
  BY <1>3, HereIs DEF Handoffs
<1>5. Hand(s) = [told EXCEPT ![s] = "noted"]
  BY <1>4 DEF Hand
<1>6. Lost(s, Hand(s)) = [told EXCEPT ![s] = "lost"]
  BY <1>3, <1>4, <1>5 DEF Lost, Handoffs
<1>7. PICK pc \in {"settle", "unsettle"} :
        /\ Goto(c, pc)
        /\ told' \in Handoffs
        /\ \A t \in Sums : told'[t] \in {told[t], "lost"} \/ (pc = "settle" /\ t = s /\ told'[t] = "noted")
  <2>1. CASE told' = Hand(s) /\ Goto(c, "settle")
    <3>1. told' \in Handoffs /\ \A t \in Sums : told'[t] = IF t = s THEN "noted" ELSE told[t]
      BY <1>3, <1>4, <1>5, <2>1 DEF Handoffs
    <3> QED BY <2>1, <3>1
  <2>2. CASE told' = told /\ Goto(c, "unsettle")
    BY <1>4, <2>2
  <2>3. CASE told' = Lost(s, Hand(s)) /\ Goto(c, "unsettle")
    <3>1. told' \in Handoffs /\ \A t \in Sums : told'[t] = IF t = s THEN "lost" ELSE told[t]
      BY <1>3, <1>4, <1>6, <2>3 DEF Handoffs
    <3> QED BY <2>3, <3>1
  <2> QED BY <1>1, <2>1, <2>2, <2>3
<1>8. PICK r \in CarrierRecord : /\ carrier' = [carrier EXCEPT ![c] = r]
                                 /\ r.pc = pc /\ r.id = s
  BY <1>2, <1>7, HereIs, GotoIs DEF Places
<1>9. /\ summary' \in [Sums -> SummaryRecord] /\ Advances /\ Silent /\ Asked(c)
  BY <1>1, HereIs, SameKeeps DEF Silent, Asked
<1>10. \A k \in Carriers : k # c /\ carrier[k].pc \in Holding => carrier[k].id # s
  BY <1>2 DEF WayInv, Handing
<1>11. r.pc \notin Near /\ carrier[c].pc # "settle" /\ carrier[c].pc # "none"
  BY <1>1, <1>7, <1>8 DEF Near
<1>12. summary'[s].status # "absent"
  BY <1>1, <1>3
<1>13. Moved(c, r)
  BY <1>3, <1>7, <1>8, <1>9, <1>10, <1>11, <1>12 DEF Moved, Silent, Asked
<1> QED BY <1>13

\* The outcome of a handoff is recorded, or that fails.
LEMMA SettledMoves ==
  ASSUME WayInv, NEW c \in Carriers, Settled(c)
  PROVE  \E r : Moved(c, r)
<1> DEFINE s == carrier[c].id
<1>1. /\ UNCHANGED <<receipt, session, service, lane, request>>
      /\ Leave(c)
      /\ \/ /\ carrier[c].pc = "settle"
            /\ \/ Settle(s, "accepted") /\ told' = told
               \/ summary' = summary /\ told' = Lost(s, told)
         \/ /\ carrier[c].pc = "unsettle" /\ told' = told
            /\ Settle(s, "pending") \/ summary' = summary
  BY DEF Settled, Quiet, At
<1>2. s \in Sums
  BY <1>1, HereIs DEF Holding
<1>3. /\ {"accepted", "pending"} \subseteq Open \cup Over
      /\ "accepted" \in Over
  BY DEF Open, Over
<1>4. /\ summary' \in [Sums -> SummaryRecord] /\ Advances
      /\ Settle(s, "accepted") => summary'[s].status \in Over
  BY <1>1, <1>2, <1>3, HereIs, SettleKeeps, SameKeeps
<1>5. Noted(c)
  <2>1. told' \in Handoffs /\ \A t \in Sums : told'[t] \in {told[t], "lost"}
    BY <1>1, <1>2, HereIs, LostIs
  <2>2. carrier[c].pc = "settle" => told'[s] # "noted" \/ summary'[s].status \in Over
    BY <1>1, <1>2, <1>4, HereIs, LostIs
  <2> QED BY <2>1, <2>2 DEF Noted
<1>6. Silent /\ Asked(c)
  BY <1>1, HereIs DEF Silent, Asked
<1> QED BY <1>1, <1>4, <1>5, <1>6, LeaveMoves

\* Every step of a carrier keeps the invariant.
LEMMA CarryInv ==
  ASSUME WayInv, Numbered, NEW c \in Carriers,
         Carry(c) \/ (c = "replay" /\ Replay)
  PROVE  WayInv' \/ UNCHANGED <<receipt, session, service, lane, request, told, summary, carrier>>
<1> SUFFICES (\E r : Moved(c, r)) \/ UNCHANGED <<receipt, session, service, lane, request, told, summary, carrier>>
  BY MovedKeeps
<1> QED
  BY AbortMoves, LeaseMoves, RereadMoves, RecoverMoves, ValidMoves, SinkMoves, SettledMoves,
     StartMoves, LookMoves, IntendMoves, SubmitMoves, WaitMoves DEF Carry

-----------------------------------------------------------------------------
(* The receipts, and the turn that ingests them                            *)

\* The transactions of the file that acknowledge nothing.
LEMMA ReceiptKeeps ==
  ASSUME receipt \in File!Records,
         \/ File!Interrupt \/ File!RevokeNotifications
         \/ \E w \in Jobs : \/ File!PersistQueued(w)
                            \/ \E status \in {"completed", "stopped"} : File!EndsOnce(w, status)
  PROVE  receipt' \in File!Records /\ \A v \in Jobs : receipt'[v].acked => receipt[v].acked
<1> USE DEF File!Records, File!Receipt, File!Ended
<1>1. CASE File!Interrupt
  <2>1. ASSUME NEW r \in File!Receipt
        PROVE  [r EXCEPT !.status = "interrupted"] \in File!Receipt
               /\ [r EXCEPT !.status = "interrupted"].acked = r.acked
    OBVIOUS
  <2> QED BY <1>1, <2>1 DEF File!Interrupt
<1>2. CASE File!RevokeNotifications
  <2>1. ASSUME NEW r \in File!Receipt
        PROVE  [r EXCEPT !.revoked = TRUE] \in File!Receipt /\ [r EXCEPT !.revoked = TRUE].acked = r.acked
    OBVIOUS
  <2> QED BY <1>2, <2>1 DEF File!RevokeNotifications
<1>3. ASSUME NEW w \in Jobs, File!PersistQueued(w)
      PROVE  receipt' \in File!Records /\ \A v \in Jobs : receipt'[v].acked => receipt[v].acked
  BY <1>3 DEF File!PersistQueued
<1>4. ASSUME NEW w \in Jobs, NEW status \in {"completed", "stopped"},
             File!EndsOnce(w, status)
      PROVE  receipt' \in File!Records /\ \A v \in Jobs : receipt'[v].acked => receipt[v].acked
  <2> DEFINE q == [receipt[w] EXCEPT !.status = status,
                                     !.revoked = receipt[w].revoked \/ status = "stopped"]
  <2>1. receipt' = [receipt EXCEPT ![w] = q]
    BY <1>4 DEF File!EndsOnce
  <2>2. q \in File!Receipt /\ q.acked = receipt[w].acked
    OBVIOUS
  <2> HIDE DEF q
  <2> QED BY <2>1, <2>2
<1> QED BY <1>1, <1>2, <1>3, <1>4

\* An acknowledged receipt is a receipt still.
LEMMA AckKeeps ==
  ASSUME receipt \in File!Records, NEW w \in Jobs, File!Acknowledge(w)
  PROVE  /\ receipt' \in File!Records
         /\ \A v \in Jobs : receipt'[v].acked => receipt[v].acked \/ v = w
BY DEF File!Records, File!Receipt, File!Acknowledge

\* Resolve ends a turn: it queues no request that was not on its way.
LEMMA ResolveIs ==
  ASSUME Places, NEW result \in {"empty", "text", "error"}, Resolve(result)
  PROVE  /\ lane' = Idle /\ Idle \in LaneRecord /\ Idle.pc = "idle"
         /\ request' \in Requests
         /\ \A s \in Sums : request'[s] \in {"queued", "injected"} => request[s] \in {"queued", "injected"}
<1>1. request \in Requests
  BY DEF Places
<1>2. lane' = Idle /\ Idle \in LaneRecord /\ Idle.pc = "idle"
  BY DEF Resolve, Idle, LaneRecord
<1>3. ASSUME NEW s \in Sums
      PROVE  /\ request'[s] \in {"empty", "text", "error", "merged"}
                  \/ request'[s] = request[s] \/ (request[s] = "injected" /\ request'[s] = "queued")
  <2>1. request'[s] =  CASE s = lane.id -> result
                        [] s \in lane.merged -> IF result = "error" THEN "error" ELSE "merged"
                        [] request[s] = "injected" -> "queued"
                        [] OTHER -> request[s]
    BY DEF Resolve
  <2> QED BY <2>1
<1>4. request' = [s \in Sums |-> request'[s]]
  BY DEF Resolve
<1> QED BY <1>1, <1>2, <1>3, <1>4 DEF Requests

\* Who holds which summary is not changed by what leaves the carriers where they are.
LEMMA HandingKept ==
  ASSUME WayInv, \A c \in Carriers : carrier'[c].pc = carrier[c].pc /\ carrier'[c].id = carrier[c].id,
         UNCHANGED told, Advances
  PROVE  Handing'
<1>1. told' = told /\ Handing
  BY DEF WayInv
<1>2. \A c \in Carriers : carrier'[c].pc \in Holding => carrier'[c].id \in Sums
  BY <1>1 DEF Handing
<1>3. ASSUME NEW s \in Sums
      PROVE  /\ told'[s] = "noted" => \/ summary'[s].status \in Over
                                      \/ \E k \in Carriers : carrier'[k].pc = "settle" /\ carrier'[k].id = s
             /\ told'[s] = "silenced" => summary'[s].status \in Over
             /\ told'[s] \notin {"twice", "late"}
  BY <1>1 DEF Handing, Advances
<1>4. ASSUME NEW c \in Carriers
      PROVE  /\ carrier'[c].pc \in {"submit", "wait", "lease"} \cup Holding => carrier'[c].id \in Sums
             /\ carrier'[c].pc \in Holding \ {"reread"} => summary'[carrier'[c].id].status # "absent"
             /\ carrier'[c].pc \in Near => told'[carrier'[c].id] \notin {"noted", "silenced"}
  BY <1>1, <1>2 DEF Handing, Advances
<1>5. \A c, k \in Carriers :
        c # k /\ carrier'[c].pc \in Holding /\ carrier'[k].pc \in Holding
          => carrier'[c].id # carrier'[k].id
  BY <1>1 DEF Handing
<1> QED BY <1>3, <1>4, <1>5 DEF Handing

\* A step of the lane.
LEMMA LaneMoves ==
  ASSUME WayInv, lane' \in LaneRecord, UNCHANGED <<carrier, told>>,
         summary' \in [Sums -> SummaryRecord], Advances,
         receipt' \in File!Records, session' \in Session, request' \in Requests,
         service' \in [loaded : BOOLEAN, closed : BOOLEAN],
         \/ service'.loaded
         \/ /\ service' = service /\ lane'.pc \in {"idle", "load"}
            /\ \A s \in Sums : request'[s] \in {"queued", "injected"} => request[s] \in {"queued", "injected"},
         OnceIn'
  PROVE  WayInv'
<1>1. carrier' = carrier /\ told' = told
  OBVIOUS
<1>2. Handing'
  BY <1>1, HandingKept
<1>3. Places'
  BY <1>1 DEF WayInv, SessionInv, Places
<1>4. Loaded'
  BY <1>1 DEF WayInv, SessionInv, Loaded
<1> QED BY <1>2, <1>3, <1>4 DEF WayInv, SessionInv

-----------------------------------------------------------------------------
(* The lane                                                                *)

\* The lane works on user input or on a summary.
LEMMA LaneIs ==
  ASSUME WayInv
  PROVE  /\ Places /\ lane \in LaneRecord /\ request \in Requests /\ session \in Session
         /\ receipt \in File!Records /\ summary \in [Sums -> SummaryRecord]
         /\ service \in [loaded : BOOLEAN, closed : BOOLEAN]
         /\ lane.pc \notin {"idle", "load"} => service.loaded
         /\ \A s \in Sums : request[s] \in {"queued", "injected"} => service.loaded
         /\ OnceIn
BY DEF WayInv, SessionInv, Places, Loaded

\* A step of the turn that reads or writes neither session nor receipts.
LEMMA StillMoves ==
  ASSUME WayInv, lane' \in LaneRecord, UNCHANGED <<carrier, told, receipt, session, service>>,
         summary' \in [Sums -> SummaryRecord], Advances, request' \in Requests,
         lane'.pc \notin {"first save", "save", "first ack", "ack"},
         \/ service.loaded
         \/ /\ lane'.pc \in {"idle", "load"}
            /\ \A s \in Sums : request'[s] \in {"queued", "injected"} => request[s] \in {"queued", "injected"}
  PROVE  WayInv'
<1>1. /\ receipt' \in File!Records /\ session' \in Session
      /\ service' \in [loaded : BOOLEAN, closed : BOOLEAN]
      /\ service' = service /\ (service.loaded => service'.loaded)
  BY LaneIs
<1>2. OnceIn'
  BY LaneIs DEF OnceIn
<1> QED BY <1>1, <1>2, LaneMoves

\* The end of a turn.
LEMMA ResolveMoves ==
  ASSUME WayInv, UNCHANGED <<carrier, told, receipt, session, service>>,
         summary' \in [Sums -> SummaryRecord], Advances,
         NEW result \in {"empty", "text", "error"}, Resolve(result)
  PROVE  WayInv'
<1>1. /\ lane' = Idle /\ lane' \in LaneRecord /\ lane'.pc = "idle"
      /\ request' \in Requests
      /\ \A s \in Sums : request'[s] \in {"queued", "injected"} => request[s] \in {"queued", "injected"}
  BY LaneIs, ResolveIs
<1> QED BY <1>1, StillMoves

\* The lane starts on user input.
LEMMA StartUserInv == ASSUME WayInv, StartUser PROVE WayInv'
<1> DEFINE pc == IF service.loaded THEN "begin" ELSE "load"
<1>1. /\ UNCHANGED <<carrier, told, receipt, session, service, summary, request>>
      /\ lane' = [Idle EXCEPT !.pc = pc]
  BY DEF StartUser, Stay
<1>2. pc \in {"begin", "load"} /\ (service.loaded \/ pc = "load")
  OBVIOUS
<1> HIDE DEF pc
<1>3. lane' \in LaneRecord /\ lane'.pc = pc
  BY <1>1, <1>2 DEF LaneRecord, Idle
<1>4. summary' \in [Sums -> SummaryRecord] /\ Advances /\ request' \in Requests /\ request' = request
  BY <1>1, LaneIs, SameKeeps
<1> QED BY <1>1, <1>2, <1>3, <1>4, StillMoves

\* The lane starts on a summary.
LEMMA StartSummaryInv ==
  ASSUME WayInv, NEW s \in Sums, StartSummary(s) PROVE WayInv'
<1>1. /\ UNCHANGED <<carrier, told, receipt, session, service, summary>>
      /\ request[s] = "queued" /\ request' = [request EXCEPT ![s] = "running"]
      /\ lane' = [Idle EXCEPT !.pc = "first", !.id = s]
  BY DEF StartSummary, Stay
<1>2. lane' \in LaneRecord /\ lane'.pc = "first"
  BY <1>1 DEF LaneRecord, Idle
<1>3. summary' \in [Sums -> SummaryRecord] /\ Advances
  BY <1>1, LaneIs, SameKeeps
<1>4. request' \in Requests
  BY <1>1, LaneIs DEF Requests
<1>5. service.loaded
  BY <1>1, LaneIs
<1> QED BY <1>1, <1>2, <1>3, <1>4, <1>5, StillMoves

\* Ingested, Drain, EndTurn, Complete and Intended.
LEMMA TurnInv ==
  ASSUME WayInv,
         \/ Ingested \/ EndTurn \/ Complete \/ Intended
         \/ \E s \in Sums : Drain(s)
  PROVE  WayInv'
<1>1. /\ UNCHANGED <<carrier, told, receipt, session, service, summary>>
      /\ lane.pc \notin {"idle", "load"}
      /\ \/ \E result \in {"empty", "text", "error"} : Resolve(result)
         \/ UNCHANGED request /\ \E pc \in {"ready", "begin"} : lane' = [lane EXCEPT !.pc = pc, !.added = FALSE]
         \/ UNCHANGED request /\ \E pc \in {"text", "store"} : lane' = [lane EXCEPT !.pc = pc]
         \/ UNCHANGED request /\ lane.pc = "ready" /\ \E s \in Sums : lane' = [lane EXCEPT !.merged = @ \cup {s}]
  <2>1. CASE Ingested
    BY <2>1 DEF Ingested, Stay, Turn
  <2>2. CASE EndTurn
    BY <2>2 DEF EndTurn, Stay, Turn
  <2>3. CASE Complete
    BY <2>3 DEF Complete, Turn, TurnTo
  <2>4. CASE Intended
    BY <2>4 DEF Intended, Stay, Turn, TurnTo
  <2>5. CASE \E s \in Sums : Drain(s)
    BY <2>5 DEF Drain, Stay, Turn
  <2> QED BY <2>1, <2>2, <2>3, <2>4, <2>5
<1>2. /\ summary' \in [Sums -> SummaryRecord] /\ Advances /\ service.loaded
  BY <1>1, LaneIs, SameKeeps
<1>3. CASE \E result \in {"empty", "text", "error"} : Resolve(result)
  BY <1>1, <1>2, <1>3, ResolveMoves
<1>4. ASSUME UNCHANGED request, lane' \in LaneRecord,
             lane'.pc \notin {"first save", "save", "first ack", "ack"}
      PROVE  WayInv'
  BY <1>1, <1>2, <1>4, LaneIs, StillMoves
<1>5. ASSUME NEW pc \in {"ready", "begin"}, lane' = [lane EXCEPT !.pc = pc, !.added = FALSE]
      PROVE  lane' \in LaneRecord /\ lane'.pc \notin {"first save", "save", "first ack", "ack"}
  BY <1>5, LaneIs DEF LaneRecord
<1>6. ASSUME NEW pc \in {"text", "store"}, lane' = [lane EXCEPT !.pc = pc]
      PROVE  lane' \in LaneRecord /\ lane'.pc \notin {"first save", "save", "first ack", "ack"}
  BY <1>6, LaneIs DEF LaneRecord
<1>7. ASSUME NEW s \in Sums, lane' = [lane EXCEPT !.merged = @ \cup {s}], lane.pc = "ready"
      PROVE  lane' \in LaneRecord /\ lane'.pc \notin {"first save", "save", "first ack", "ack"}
  BY <1>7, LaneIs DEF LaneRecord
<1> QED BY <1>1, <1>3, <1>4, <1>5, <1>6, <1>7

\* The turn stores its report as the text of the summary.
LEMMA StoreInv == ASSUME WayInv, Store PROVE WayInv'
<1> DEFINE s == lane.id
           r == [summary[s] EXCEPT !.status = "pending", !.text = "report"]
<1>1. /\ UNCHANGED <<carrier, told, receipt, session, service>>
      /\ Write(s, r) \/ UNCHANGED summary
      /\ \E result \in {"empty", "text", "error"} : Resolve(result)
  BY DEF Store, Failing
<1>2. summary' \in [Sums -> SummaryRecord] /\ Advances
  <2>1. CASE s \in Sums
    <3>1. summary[s] \in SummaryRecord
      BY <2>1, LaneIs
    <3>2. r \in SummaryRecord /\ r.status # "absent"
      BY <3>1 DEF SummaryRecord, Open
    <3> HIDE DEF r
    <3> QED BY <1>1, <2>1, <3>2, LaneIs, WriteKeeps, SameKeeps
  <2>2. CASE s \notin Sums
    <3> HIDE DEF r
    <3>1. summary' = summary
      BY <1>1, <2>2, LaneIs DEF Write
    <3> QED BY <3>1, LaneIs, SameKeeps
  <2> QED BY <2>1, <2>2
<1> QED BY <1>1, <1>2, ResolveMoves

\* A step that writes the session to disk, or reads it from there, or adds to it.
LEMMA SessionMoves ==
  ASSUME WayInv, lane' \in LaneRecord, UNCHANGED <<carrier, told, summary>>,
         receipt' \in File!Records, session' \in Session,
         service' \in [loaded : BOOLEAN, closed : BOOLEAN], service'.loaded,
         request' \in Requests, OnceIn'
  PROVE  WayInv'
<1>1. summary' \in [Sums -> SummaryRecord] /\ Advances
  BY LaneIs, SameKeeps
<1> QED BY <1>1, LaneMoves

\* The service loads the session.
LEMMA LoadInv == ASSUME WayInv, Load PROVE WayInv'
<1>1. /\ UNCHANGED <<carrier, told, summary, request>>
      /\ File!Interrupt
      /\ session' = [session EXCEPT !.mem = session.disk]
      /\ service' = [service EXCEPT !.loaded = TRUE]
      /\ lane' = [lane EXCEPT !.pc = "begin"]
  BY DEF Load, TurnTo
<1>2. receipt' \in File!Records /\ \A v \in Jobs : receipt'[v].acked => receipt[v].acked
  BY <1>1, LaneIs, ReceiptKeeps
<1>3. lane' \in LaneRecord /\ lane'.pc = "begin"
  BY <1>1, LaneIs DEF LaneRecord
<1>4. session' \in Session /\ session'.mem = session.disk /\ session'.disk = session.disk
  BY <1>1, LaneIs DEF Session
<1>5. service' \in [loaded : BOOLEAN, closed : BOOLEAN] /\ service'.loaded
  BY <1>1, LaneIs
<1>6. request' \in Requests
  BY <1>1, LaneIs
<1>7. OnceIn'
  BY <1>2, <1>3, <1>4, LaneIs DEF OnceIn
<1> QED BY <1>1, <1>2, <1>3, <1>4, <1>5, <1>6, <1>7, SessionMoves

\* Begin and Save: what is in memory is on disk now.
LEMMA SaveInv == ASSUME WayInv, BeginTurn \/ Save PROVE WayInv'
<1>1. /\ UNCHANGED <<carrier, told, summary, request, receipt, service>>
      /\ lane.pc \in {"begin", "first save", "save"}
      /\ session' = [session EXCEPT !.disk = session.mem]
      /\ \E pc \in {"ready", "ack", "first ack"} :
           /\ lane' = [lane EXCEPT !.pc = pc]
           /\ pc # "ready" => lane.pc \in {"first save", "save"}
  BY DEF BeginTurn, Save, Stay, Turn, TurnTo
<1>2. PICK pc \in {"ready", "ack", "first ack"} :
           /\ lane' = [lane EXCEPT !.pc = pc]
           /\ pc # "ready" => lane.pc \in {"first save", "save"}
  BY <1>1
<1>3. lane' \in LaneRecord /\ lane'.pc = pc /\ lane'.todo = lane.todo
  BY <1>2, LaneIs DEF LaneRecord
<1>4. session' \in Session /\ session'.mem = session.mem /\ session'.disk = session.mem
  BY <1>1, LaneIs DEF Session
<1>5. service.loaded /\ service' \in [loaded : BOOLEAN, closed : BOOLEAN] /\ service'.loaded
  BY <1>1, LaneIs
<1>6. request' \in Requests /\ receipt' \in File!Records /\ receipt' = receipt
  BY <1>1, LaneIs
<1>7. OnceIn'
  BY <1>2, <1>3, <1>4, <1>5, <1>6, LaneIs DEF OnceIn
<1> QED BY <1>1, <1>3, <1>4, <1>5, <1>6, <1>7, SessionMoves

\* ingestWorkerResults adds what the session does not have: nothing is there twice.
LEMMA IngestInv == ASSUME WayInv, Ingest PROVE WayInv'
<1>0. 0 + 1 = 1
  OBVIOUS
<1> DEFINE R == {w \in Jobs : File!Pending(w)}
           m == [w \in Jobs |-> IF w \in Added(R) THEN session.mem[w] + 1 ELSE session.mem[w]]
<1>1. /\ UNCHANGED <<carrier, told, summary, request, receipt, service>>
      /\ lane.pc \in {"first", "ready"}
      /\ session' = [session EXCEPT !.mem = m]
      /\ \E pc \in {"first save", "save"}, added \in BOOLEAN :
           lane' = [lane EXCEPT !.pc = pc, !.todo = R, !.added = added]
  BY DEF Ingest, Stay
<1>2. PICK pc \in {"first save", "save"}, added \in BOOLEAN :
           lane' = [lane EXCEPT !.pc = pc, !.todo = R, !.added = added]
  BY <1>1
<1>3. lane' \in LaneRecord /\ lane'.pc = pc /\ lane'.todo = R /\ R \subseteq Jobs
  BY <1>2, LaneIs DEF LaneRecord
<1>4. session.mem \in [Jobs -> {0, 1}] /\ session \in Session
  BY LaneIs DEF Session
<1>5. /\ m \in [Jobs -> {0, 1}]
      /\ \A w \in Jobs : session.mem[w] = 1 => m[w] = 1
      /\ \A w \in R : m[w] = 1
  <2>1. ASSUME NEW w \in Jobs
        PROVE  /\ m[w] \in {0, 1} /\ (session.mem[w] = 1 => m[w] = 1) /\ (w \in R => m[w] = 1)
    <3>1. session.mem[w] \in {0, 1}
      BY <1>4
    <3>2. w \in Added(R) <=> w \in R /\ session.mem[w] = 0
      BY DEF Added
    <3>3. m[w] = IF w \in Added(R) THEN session.mem[w] + 1 ELSE session.mem[w]
      OBVIOUS
    <3> HIDE DEF m, R
    <3>4. session.mem[w] = 0 => session.mem[w] + 1 = 1
      BY <1>0
    <3>5. CASE session.mem[w] = 0 /\ w \in R
      <4>1. m[w] = 1
        BY <3>2, <3>3, <3>4, <3>5
      <4> QED BY <4>1
    <3>6. CASE ~ (session.mem[w] = 0 /\ w \in R)
      <4>1. m[w] = session.mem[w]
        BY <3>2, <3>3, <3>6
      <4> QED BY <3>1, <3>6, <4>1
    <3> QED BY <3>5, <3>6
  <2>2. m = [w \in Jobs |-> m[w]]
    OBVIOUS
  <2> HIDE DEF m
  <2> QED BY <1>3, <2>1, <2>2
<1> HIDE DEF m, R
<1>6. session' \in Session /\ session'.mem = m /\ session'.disk = session.disk
  BY <1>1, <1>4, <1>5 DEF Session
<1>7. service.loaded /\ service' \in [loaded : BOOLEAN, closed : BOOLEAN] /\ service'.loaded
      /\ service' = service
  BY <1>1, LaneIs
<1>8. request' \in Requests /\ receipt' \in File!Records /\ receipt' = receipt
  BY <1>1, LaneIs
<1>9. OnceIn'
  BY <1>2, <1>3, <1>5, <1>6, <1>7, <1>8, LaneIs DEF OnceIn
<1> QED BY <1>1, <1>3, <1>6, <1>7, <1>8, <1>9, SessionMoves

\* Only a result that is in the saved session is acknowledged.
LEMMA AcknowledgeInv == ASSUME WayInv, NEW w \in Jobs, Acknowledge(w) PROVE WayInv'
<1>1. /\ UNCHANGED <<carrier, told, summary, request, session, service>>
      /\ lane.pc \in {"first ack", "ack"} /\ w \in lane.todo
      /\ File!Acknowledge(w)
      /\ lane' = [lane EXCEPT !.todo = @ \ {w}]
  BY DEF Acknowledge, Stay
<1>2. /\ receipt' \in File!Records
      /\ \A v \in Jobs : receipt'[v].acked => receipt[v].acked \/ v = w
  BY <1>1, LaneIs, AckKeeps
<1>3. lane' \in LaneRecord /\ lane'.pc = lane.pc /\ lane'.todo \subseteq lane.todo
  BY <1>1, LaneIs DEF LaneRecord
<1>4. session' \in Session /\ session' = session /\ request' \in Requests
  BY <1>1, LaneIs
<1>5. service.loaded /\ service' \in [loaded : BOOLEAN, closed : BOOLEAN] /\ service'.loaded
  BY <1>1, LaneIs
<1>6. session.disk[w] = 1
  BY <1>1, LaneIs DEF OnceIn
<1>7. OnceIn'
  BY <1>1, <1>2, <1>3, <1>4, <1>6, LaneIs DEF OnceIn
<1> QED BY <1>1, <1>2, <1>3, <1>4, <1>5, <1>7, SessionMoves

\* A worker is started, or ends.
LEMMA JobInv == ASSUME WayInv, NEW w \in Jobs, StartJob(w) \/ EndJob(w) PROVE WayInv'
<1>1. /\ UNCHANGED <<carrier, told, summary, request, session, service, lane>>
      /\ service.loaded \/ lane.pc = "ready"
      /\ \/ File!PersistQueued(w)
         \/ \E status \in {"completed", "stopped"} : File!EndsOnce(w, status)
  BY DEF StartJob, EndJob, Stay, Turn
<1>2. receipt' \in File!Records /\ \A v \in Jobs : receipt'[v].acked => receipt[v].acked
  BY <1>1, LaneIs, ReceiptKeeps
<1>3. /\ lane' \in LaneRecord /\ lane' = lane /\ session' \in Session /\ session' = session
      /\ request' \in Requests
      /\ service' \in [loaded : BOOLEAN, closed : BOOLEAN] /\ service'.loaded /\ service' = service
  BY <1>1, LaneIs
<1>4. OnceIn'
  BY <1>2, <1>3, LaneIs DEF OnceIn
<1> QED BY <1>1, <1>2, <1>3, <1>4, SessionMoves

\* A turn that fails, with its save done or not.
LEMMA TurnFailsInv == ASSUME WayInv, TurnFails PROVE WayInv'
<1>1. /\ UNCHANGED <<carrier, told, summary, receipt, service>>
      /\ Resolve("error")
      /\ \/ UNCHANGED session
         \/ lane.pc \in {"begin", "first save", "save"} /\ session' = [session EXCEPT !.disk = session.mem]
  BY DEF TurnFails, Stay
<1>2. summary' \in [Sums -> SummaryRecord] /\ Advances
  BY <1>1, LaneIs, SameKeeps
<1>3. CASE UNCHANGED session
  BY <1>1, <1>2, <1>3, ResolveMoves
<1>4. CASE lane.pc \in {"begin", "first save", "save"} /\ session' = [session EXCEPT !.disk = session.mem]
  <2>1. lane' = Idle /\ lane' \in LaneRecord /\ lane'.pc = "idle" /\ request' \in Requests
    BY <1>1, LaneIs, ResolveIs
  <2>2. session' \in Session /\ session'.mem = session.mem /\ session'.disk = session.mem
    BY <1>4, LaneIs DEF Session
  <2>3. service.loaded /\ service' \in [loaded : BOOLEAN, closed : BOOLEAN] /\ service'.loaded
    BY <1>1, <1>4, LaneIs
  <2>4. receipt' \in File!Records /\ receipt' = receipt
    BY <1>1, LaneIs
  <2>5. OnceIn'
    BY <2>1, <2>2, <2>3, <2>4, LaneIs DEF OnceIn
  <2> QED BY <1>1, <2>1, <2>2, <2>3, <2>4, <2>5, SessionMoves
<1> QED BY <1>1, <1>3, <1>4

\* Every step of the lane keeps the invariant.
LEMMA LaneStepInv == ASSUME WayInv, LaneStep PROVE WayInv'
BY LoadInv, SaveInv, IngestInv, AcknowledgeInv, TurnFailsInv, TurnInv, StoreInv,
           StartSummaryInv DEF LaneStep

-----------------------------------------------------------------------------
(* CancelConversation, Close and the end of the process                    *)

\* Nothing that the invariant is about changes.
LEMMA SameWay ==
  ASSUME WayInv, UNCHANGED <<receipt, session, service, lane, request, told, summary, carrier>>
  PROVE  WayInv'
<1>1. /\ receipt' = receipt /\ session' = session /\ service' = service /\ lane' = lane
      /\ request' = request /\ told' = told /\ summary' = summary /\ carrier' = carrier
  OBVIOUS
<1>2. Places' /\ Loaded' /\ OnceIn'
  BY <1>1 DEF WayInv, SessionInv, Places, Loaded, OnceIn
<1>3. Advances
  BY <1>1 DEF Advances
<1>4. Handing'
  BY <1>1, <1>3, HandingKept
<1> QED BY <1>2, <1>4 DEF WayInv, SessionInv

\* Contexts end: every carrier, and the turn, stay where they are.
LEMMA CutInv ==
  ASSUME WayInv, NEW C, Cut(C), UNCHANGED <<receipt, session, summary, request, told>>,
         service' \in [loaded : BOOLEAN, closed : BOOLEAN], service'.loaded = service.loaded
  PROVE  WayInv'
<1>1. \A c \in Carriers :
        /\ carrier'[c] \in CarrierRecord
        /\ carrier'[c].pc = carrier[c].pc /\ carrier'[c].id = carrier[c].id
  <2>1. ASSUME NEW c \in Carriers
        PROVE  /\ carrier'[c] \in CarrierRecord
               /\ carrier'[c].pc = carrier[c].pc /\ carrier'[c].id = carrier[c].id
    <3> DEFINE x == carrier[c].stale \/ (c # "replay" /\ carrier[c].pc # "none")
               y == carrier[c].cancelled \/ (c \in C /\ carrier[c].pc # "none")
    <3>1. carrier'[c] = [carrier[c] EXCEPT !.stale = x, !.cancelled = y]
      BY DEF Cut
    <3>2. carrier[c] \in CarrierRecord
      BY HereIs
    <3>3. x \in BOOLEAN /\ y \in BOOLEAN
      BY <3>2 DEF CarrierRecord
    <3> HIDE DEF x, y
    <3> QED BY <3>1, <3>2, <3>3 DEF CarrierRecord
  <2> QED BY <2>1
<1>2. carrier' \in [Carriers -> CarrierRecord]
  <2>1. carrier' = [c \in Carriers |-> carrier'[c]]
    BY DEF Cut
  <2> QED BY <1>1, <2>1
<1>3. lane' \in LaneRecord /\ lane'.pc = lane.pc /\ lane'.todo = lane.todo
  <2> DEFINE z == lane.cancelled \/ \E c \in C : carrier[c].pc = "wait" /\ carrier[c].id = lane.id
  <2>1. lane' = [lane EXCEPT !.cancelled = z]
    BY DEF Cut
  <2>2. z \in BOOLEAN
    BY LaneIs DEF LaneRecord
  <2> HIDE DEF z
  <2> QED BY <2>1, <2>2, LaneIs DEF LaneRecord
<1>4. /\ receipt' = receipt /\ session' = session /\ request' = request /\ told' = told /\ summary' = summary
  OBVIOUS
<1>5. Places'
  BY <1>2, <1>3, <1>4 DEF WayInv, SessionInv, Places
<1>6. Loaded'
  BY <1>1, <1>3, <1>4 DEF WayInv, SessionInv, Loaded
<1>7. OnceIn'
  BY <1>3, <1>4 DEF WayInv, SessionInv, OnceIn
<1>8. Advances
  BY <1>4 DEF Advances
<1>9. Handing'
  BY <1>1, <1>4, <1>8, HandingKept
<1> QED BY <1>5, <1>6, <1>7, <1>9 DEF WayInv, SessionInv

\* A conversation is cancelled, or the service closes.
LEMMA StopInv == ASSUME WayInv, Cancel \/ Stop PROVE WayInv'
<1>1. /\ UNCHANGED <<receipt, session, summary, request, told>>
      /\ \E C : Cut(C)
      /\ service' = service \/ service' = [service EXCEPT !.closed = TRUE]
  BY DEF Cancel, Stop, disk
<1>2. service' \in [loaded : BOOLEAN, closed : BOOLEAN] /\ service'.loaded = service.loaded
  BY <1>1, LaneIs
<1> QED BY <1>1, <1>2, CutInv

\* The canceller revokes the results nobody has acknowledged.
LEMMA RevokeResultsInv == ASSUME WayInv, RevokeResults PROVE WayInv'
<1>1. /\ UNCHANGED <<session, summary, service, carrier, lane, request, told>>
      /\ File!RevokeNotifications \/ UNCHANGED receipt
  BY DEF RevokeResults
<1>2. receipt' \in File!Records /\ \A v \in Jobs : receipt'[v].acked => receipt[v].acked
  BY <1>1, LaneIs, ReceiptKeeps
<1>3. /\ lane' \in LaneRecord /\ lane' = lane /\ session' \in Session /\ session' = session
      /\ request' \in Requests /\ request' = request
      /\ service' \in [loaded : BOOLEAN, closed : BOOLEAN] /\ service' = service
      /\ summary' \in [Sums -> SummaryRecord] /\ Advances
  BY <1>1, LaneIs, SameKeeps
<1>4. OnceIn'
  BY <1>2, <1>3, LaneIs DEF OnceIn
<1>5. service'.loaded \/ lane'.pc \in {"idle", "load"}
  BY <1>3, LaneIs
<1> QED BY <1>1, <1>2, <1>3, <1>4, <1>5, LaneMoves

\* What a revocation silences is over, and no carrier is near handing it over.
LEMMA RevokeStoredInv == ASSUME WayInv, RevokeStored PROVE WayInv'
<1> DEFINE inFlight == {carrier[c].id : c \in {k \in Carriers :
                          carrier[k].pc \in {"recover", "valid", "sink"}}}
<1>1. /\ UNCHANGED <<receipt, session, service, carrier, lane, request>>
      /\ \/ /\ RevokeSummaries
            /\ told' = [s \in Sums |-> IF s \in OpenSums \ inFlight /\ told[s] = "not"
                                       THEN "silenced" ELSE told[s]]
         \/ UNCHANGED <<summary, told>>
  BY DEF RevokeStored
<1>2. CASE UNCHANGED <<summary, told>>
  BY <1>1, <1>2, SameWay
<1>3. CASE /\ RevokeSummaries
           /\ told' = [s \in Sums |-> IF s \in OpenSums \ inFlight /\ told[s] = "not"
                                      THEN "silenced" ELSE told[s]]
  <2>1. /\ receipt' = receipt /\ session' = session /\ service' = service /\ carrier' = carrier
        /\ lane' = lane /\ request' = request
    BY <1>1
  <2>2. ASSUME NEW s \in Sums
        PROVE  /\ summary'[s] \in SummaryRecord
               /\ summary[s].status \in Open => summary'[s].status \in Over
               /\ summary[s].status \notin Open => summary'[s] = summary[s]
               /\ summary'[s].status = "absent" => summary[s].status = "absent"
    <3>1. summary[s] \in SummaryRecord
      BY LaneIs
    <3>2. summary'[s] = IF summary[s].status \in Open
                        THEN [summary[s] EXCEPT !.status = "revoked"] ELSE summary[s]
      BY <1>3 DEF RevokeSummaries
    <3>3. [summary[s] EXCEPT !.status = "revoked"] \in SummaryRecord
          /\ [summary[s] EXCEPT !.status = "revoked"].status = "revoked"
      BY <3>1 DEF SummaryRecord, Over
    <3> QED BY <3>1, <3>2, <3>3 DEF Over
  <2>3. summary' \in [Sums -> SummaryRecord]
    <3>1. summary' = [s \in Sums |-> summary'[s]]
      BY <1>3 DEF RevokeSummaries
    <3> QED BY <2>2, <3>1
  <2>4. Advances
    <3>1. Open \cap Over = {}
      BY DEF Open, Over
    <3> QED BY <2>2, <3>1 DEF Advances
  <2>5. ASSUME NEW s \in Sums
        PROVE  \/ told'[s] = told[s]
               \/ told'[s] = "silenced" /\ s \notin inFlight /\ summary'[s].status \in Over
    BY <1>3, <2>2 DEF OpenSums
  <2>6. told' \in Handoffs
    <3>1. told \in Handoffs
      BY HereIs, LaneIs DEF Places
    <3>2. told' = [s \in Sums |-> told'[s]]
      BY <1>3
    <3> QED BY <2>5, <3>1, <3>2 DEF Handoffs
  <2>7. Places'
    BY <2>1, <2>3, <2>6 DEF WayInv, SessionInv, Places
  <2>8. Loaded' /\ OnceIn'
    BY <2>1 DEF WayInv, SessionInv, Loaded, OnceIn
  <2>9. ASSUME NEW c \in Carriers
        PROVE  /\ carrier[c].pc \in {"submit", "wait", "lease"} \cup Holding => carrier[c].id \in Sums
               /\ carrier[c].pc \in Holding \ {"reread"} => summary'[carrier[c].id].status # "absent"
               /\ carrier[c].pc \in Near => told'[carrier[c].id] \notin {"noted", "silenced"}
    <3>1. carrier[c].pc \in {"submit", "wait", "lease"} \cup Holding => carrier[c].id \in Sums
      BY DEF WayInv, Handing
    <3>2. carrier[c].pc \in Holding \ {"reread"} => summary'[carrier[c].id].status # "absent"
      BY <2>2, <3>1 DEF WayInv, Handing
    <3>3. carrier[c].pc \in Near => carrier[c].id \in inFlight /\ carrier[c].id \in Sums
      BY <3>1 DEF Near, Holding
    <3>4. carrier[c].pc \in Near => told'[carrier[c].id] \notin {"noted", "silenced"}
      BY <2>5, <3>3 DEF WayInv, Handing
    <3> QED BY <3>1, <3>2, <3>4
  <2>10. ASSUME NEW s \in Sums
         PROVE  /\ told'[s] = "noted" => \/ summary'[s].status \in Over
                                         \/ \E k \in Carriers : carrier[k].pc = "settle" /\ carrier[k].id = s
                /\ told'[s] = "silenced" => summary'[s].status \in Over
                /\ told'[s] \notin {"twice", "late"}
    BY <2>4, <2>5 DEF WayInv, Handing, Advances
  <2>11. Handing'
    BY <2>1, <2>9, <2>10 DEF WayInv, Handing
  <2> QED BY <2>7, <2>8, <2>11 DEF WayInv, SessionInv
<1> QED BY <1>1, <1>2, <1>3

\* The run on the lane is cancelled.
LEMMA CancelLaneInv == ASSUME WayInv, CancelLane PROVE WayInv'
<1> DEFINE x == lane.pc # "idle"
<1>1. /\ UNCHANGED <<session, summary, service, carrier, told>>
      /\ lane' = [lane EXCEPT !.cancelled = x]
      /\ request' = [s \in Sums |-> IF request[s] \in {"queued", "injected"} /\ s \notin lane.merged
                                    THEN "error" ELSE request[s]]
      /\ File!RevokeNotifications \/ UNCHANGED receipt
  BY DEF CancelLane
<1>2. receipt' \in File!Records /\ \A v \in Jobs : receipt'[v].acked => receipt[v].acked
  BY <1>1, LaneIs, ReceiptKeeps
<1>3. x \in BOOLEAN
  OBVIOUS
<1> HIDE DEF x
<1>4. lane' \in LaneRecord /\ lane'.pc = lane.pc /\ lane'.todo = lane.todo
  BY <1>1, <1>3, LaneIs DEF LaneRecord
<1>5. /\ request' \in Requests
      /\ \A s \in Sums : request'[s] \in {"queued", "injected"} => request[s] \in {"queued", "injected"}
  BY <1>1, LaneIs DEF Requests
<1>6. /\ session' \in Session /\ session' = session
      /\ service' \in [loaded : BOOLEAN, closed : BOOLEAN] /\ service' = service
      /\ summary' \in [Sums -> SummaryRecord] /\ Advances
  BY <1>1, LaneIs, SameKeeps
<1>7. OnceIn'
  BY <1>2, <1>4, <1>6, LaneIs DEF OnceIn
<1>8. service'.loaded \/ lane'.pc \in {"idle", "load"}
  BY <1>4, <1>6, LaneIs
<1> QED BY <1>1, <1>2, <1>4, <1>5, <1>6, <1>7, <1>8, LaneMoves

\* The process is gone: what it held in memory is, too.
LEMMA ExitInv ==
  ASSUME WayInv, Exit, told' \in Handoffs,
         \A s \in Sums : /\ told'[s] \in {told[s], "lost"}
                         /\ told'[s] = "noted" => summary[s].status \in Over
  PROVE  WayInv'
<1>1. /\ receipt' = receipt /\ summary' = summary
      /\ session' = [session EXCEPT !.mem = [w \in Jobs |-> 0]]
      /\ service' = [loaded |-> FALSE, closed |-> FALSE]
      /\ carrier' = [c \in Carriers |-> Away]
      /\ lane' = Idle
      /\ request' = [s \in Sums |-> "none"]
  BY DEF Exit
<1>2. Away \in CarrierRecord /\ Away.pc = "none"
  BY DEF CarrierRecord, Away
<1>3. lane' \in LaneRecord /\ lane'.pc = "idle"
  BY <1>1 DEF LaneRecord, Idle
<1>4. session' \in Session /\ session'.disk = session.disk
  BY <1>1, LaneIs DEF Session
<1>5. Places'
  <2>1. request' \in Requests
    BY <1>1 DEF Requests
  <2>2. carrier' \in [Carriers -> CarrierRecord]
    BY <1>1, <1>2
  <2>3. service' \in [loaded : BOOLEAN, closed : BOOLEAN]
    BY <1>1
  <2> QED BY <1>1, <1>3, <1>4, <2>1, <2>2, <2>3, LaneIs DEF Places
<1>6. \A c \in Carriers : carrier'[c].pc = "none"
  BY <1>1, <1>2
<1>7. Loaded'
  BY <1>1, <1>3, <1>6 DEF Loaded
<1>8. ~ service'.loaded
  BY <1>1
<1>9. OnceIn'
  BY <1>1, <1>3, <1>4, <1>8, LaneIs DEF OnceIn
<1>10. Handing'
  <2>1. \A c \in Carriers : carrier'[c].pc \notin
          {"submit", "wait", "lease", "settle"} \cup Holding \cup Near
    BY <1>6 DEF Holding, Near
  <2>2. \A s \in Sums : told'[s] = "silenced" => summary'[s].status \in Over
    BY <1>1 DEF WayInv, Handing
  <2>3. \A s \in Sums : told'[s] \notin {"twice", "late"}
    BY DEF WayInv, Handing
  <2> QED BY <1>1, <2>1, <2>2, <2>3 DEF Handing
<1> QED BY <1>5, <1>7, <1>9, <1>10 DEF WayInv, SessionInv

\* Close has waited for everybody; another process starts.
LEMMA JoinInv == ASSUME WayInv, Join PROVE WayInv'
<1>1. /\ Exit /\ told' = told
      /\ \A c \in Carriers : carrier[c].pc = "none"
  BY DEF Join
<1>2. \A s \in Sums : told[s] = "noted" => summary[s].status \in Over
  BY <1>1 DEF WayInv, Handing
<1>3. told' \in Handoffs
  BY <1>1 DEF WayInv, SessionInv, Places
<1> QED BY <1>1, <1>2, <1>3, ExitInv

\* The process dies; what is on disk stays.
LEMMA CrashInv == ASSUME WayInv, ResultsCrash PROVE WayInv'
<1>1. /\ Exit
      /\ told' = [s \in Sums |-> IF told[s] = "noted" /\ summary[s].status \in Open
                                 THEN "lost" ELSE told[s]]
  BY DEF ResultsCrash
<1>2. told \in Handoffs
  BY DEF WayInv, SessionInv, Places
<1>3. told' \in Handoffs
  BY <1>1, <1>2 DEF Handoffs
<1>4. ASSUME NEW s \in Sums
      PROVE  /\ told'[s] \in {told[s], "lost"}
             /\ told'[s] = "noted" => summary[s].status \in Over
  <2>1. told'[s] = IF told[s] = "noted" /\ summary[s].status \in Open
                   THEN "lost" ELSE told[s]
    BY <1>1
  <2>2. summary[s].status \in {"absent"} \cup Open \cup Over
    BY LaneIs DEF SummaryRecord
  <2>3. told[s] = "noted" => summary[s].status # "absent"
    <3>1. "absent" \notin Over
      BY DEF Over
    <3>2. \A c \in Carriers : carrier[c].pc = "settle" => summary[carrier[c].id].status # "absent"
      BY DEF WayInv, Handing, Holding
    <3> QED BY <3>1, <3>2 DEF WayInv, Handing
  <2> QED BY <2>1, <2>2, <2>3
<1> QED BY <1>1, <1>3, <1>4, ExitInv

-----------------------------------------------------------------------------
(* The invariant holds, and what follows from it                           *)

\* Nothing is under way at first.
LEMMA WayInit == ResultsInit => WayInv
<1> SUFFICES ASSUME ResultsInit PROVE WayInv
  OBVIOUS
<1>1. /\ receipt = [w \in Jobs |-> File!NoReceipt]
      /\ session = [disk |-> [w \in Jobs |-> 0], mem |-> [w \in Jobs |-> 0]]
      /\ summary = [s \in Sums |-> NoSummary]
      /\ service = [loaded |-> FALSE, closed |-> FALSE]
      /\ carrier = [c \in Carriers |-> Away]
      /\ lane = Idle
      /\ request = [s \in Sums |-> "none"]
      /\ told = [s \in Sums |-> "not"]
  BY DEF ResultsInit, File!Blank
<1>2. Away \in CarrierRecord /\ Away.pc = "none"
  BY DEF CarrierRecord, Away
<1>3. lane \in LaneRecord /\ lane.pc = "idle"
  BY <1>1 DEF LaneRecord, Idle
<1>4. receipt \in File!Records /\ \A w \in Jobs : ~ receipt[w].acked
  BY <1>1 DEF File!Records, File!Receipt, File!NoReceipt
<1>5. session \in Session
  BY <1>1 DEF Session
<1>6. NoSummary \in SummaryRecord
  BY DEF SummaryRecord, NoSummary
<1>7. Places
  <2>1. request \in Requests /\ told \in Handoffs
    BY <1>1 DEF Requests, Handoffs
  <2>2. summary \in [Sums -> SummaryRecord] /\ carrier \in [Carriers -> CarrierRecord]
    BY <1>1, <1>2, <1>6
  <2>3. service \in [loaded : BOOLEAN, closed : BOOLEAN]
    BY <1>1
  <2> QED BY <1>3, <1>4, <1>5, <2>1, <2>2, <2>3 DEF Places
<1>8. \A c \in Carriers : carrier[c].pc = "none"
  BY <1>1, <1>2
<1>9. Loaded
  BY <1>1, <1>3, <1>8 DEF Loaded
<1>10. ~ service.loaded
  BY <1>1
<1>11. OnceIn
  BY <1>3, <1>4, <1>10 DEF OnceIn
<1>12. Handing
  <2>1. \A c \in Carriers : carrier[c].pc \notin
          {"submit", "wait", "lease", "settle"} \cup Holding \cup Near
    BY <1>8 DEF Holding, Near
  <2>2. \A s \in Sums : told[s] = "not"
    BY <1>1
  <2> QED BY <2>1, <2>2 DEF Handing
<1> QED BY <1>7, <1>9, <1>11, <1>12 DEF WayInv, SessionInv

\* Every step keeps the invariant.
LEMMA WayStep == ASSUME Numbered, WayInv, [ResultsNext]_resultsVars PROVE WayInv'
<1>1. ASSUME Tick \/ UNCHANGED resultsVars PROVE WayInv'
  <2>1. UNCHANGED <<receipt, session, service, lane, request, told, summary, carrier>>
    BY <1>1 DEF Tick, resultsVars, disk
  <2> QED BY <2>1, SameWay
<1>2. ASSUME Replay PROVE WayInv'
  <2>1. "replay" \in Carriers
    BY DEF Carriers
  <2> QED BY <1>2, <2>1, CarryInv, SameWay
<1>3. ASSUME NEW c \in Carriers, Carry(c) PROVE WayInv'
  BY <1>3, CarryInv, SameWay
<1>4. ASSUME NEW w \in Jobs, StartJob(w) \/ EndJob(w) PROVE WayInv'
  BY <1>4, JobInv
<1> QED BY <1>1, <1>2, <1>3, <1>4, StartUserInv, LaneStepInv, StopInv, RevokeResultsInv,
           RevokeStoredInv, CancelLaneInv, JoinInv, CrashInv DEF ResultsNext

\* The inductive invariant of the way of the results, for any number of jobs,
\* summaries, dispatchers, crashes and cancellations.
THEOREM WayInvariant == ResultsSpec => []WayInv
<1>1. WayInv /\ [ResultsNext]_resultsVars => WayInv'
  BY WayStep, NumberedHolds
<1> QED BY <1>1, WayInit, PTL DEF ResultsSpec

\* docs/REQUEST_FLOW.md:98, ingestWorkerResults: a result that was acknowledged is
\* in the saved session, and none is there twice, whatever saves failed, whatever
\* acknowledgements were lost and wherever the process crashed.
THEOREM ResultsInSessionOnce == ResultsSpec => []InSessionOnce
<1>1. WayInv => InSessionOnce
  <2> SUFFICES ASSUME WayInv PROVE InSessionOnce
    OBVIOUS
  <2>1. \A w \in Jobs : session.disk[w] \in {0, 1}
    BY LaneIs DEF Session
  <2> QED BY <2>1, LaneIs DEF InSessionOnce, OnceIn
<1> QED BY <1>1, WayInvariant, PTL

\* service_workers.go:153 and docs/REQUEST_FLOW.md:102: of any number of dispatchers,
\* the replay and later processes one hands a summary over, again only when the note
\* of it was lost, and none hands over what a cancellation revoked.
THEOREM SummariesHandedRight == ResultsSpec => []HandedRight
<1>1. WayInv => HandedRight
  BY DEF WayInv, Handing, HandedRight, HandedOnce, Silenced
<1> QED BY <1>1, WayInvariant, PTL

=============================================================================
