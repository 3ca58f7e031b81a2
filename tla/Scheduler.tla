----------------------------- MODULE Scheduler -----------------------------
(***************************************************************************)
(* internal/scheduler: conversations are lanes, each served by at most one *)
(* worker goroutine at a time; foreground and background turns draw on     *)
(* separate pools of slots.  Every section of the Go code under s.mu is    *)
(* one action; a worker's steps outside the lock (waiting for a slot, the  *)
(* run itself, finishing the handle) are actions of their own, so that     *)
(* submissions, cancellations and Seal fall between any two of them.       *)
(*                                                                         *)
(* A job is identified by its number in the order of acceptance.  A        *)
(* rejected Submit changes nothing and is no action.                       *)
(***************************************************************************)
EXTENDS Naturals, Sequences, FiniteSets

CONSTANTS
  Convs, Sources,        \* conversations and authenticated sources
  Requests,              \* what callers submit, see Request
  MaxJobs,               \* bound: accepted submissions
  MaxWorkers,            \* bound: worker goroutines alive at once
  Capacity,              \* New's queueCapacity
  Slots,                 \* New's userSlots and systemSlots
  None

Jobs    == 1 .. MaxJobs
Workers == 1 .. MaxWorkers
Pools   == {"foreground", "background"}

Request == [conv : Convs, source : Sources, background : BOOLEAN,
            busy : {"append", "inject", "interrupt"}, approval : BOOLEAN]

ASSUME SchedulerConstants ==
  /\ Requests \subseteq Request
  /\ MaxJobs \in Nat /\ MaxWorkers \in Nat
  /\ Capacity \in Nat \ {0}
  /\ Slots \in [Pools -> Nat \ {0}]
  /\ None \notin Jobs /\ None \notin Sources /\ None \notin Convs
  /\ None \notin Request

VARIABLES
  lanes,     \* s.lanes: an absent lane is EmptyLane
  worker,    \* the goroutines running s.work
  used,      \* slots taken in each pool
  closed,    \* s.closed
  joined,    \* close(s.done): Close has seen every worker end
  count,     \* submissions accepted so far
  req,       \* the request of each job
  ended,     \* jobs whose context is cancelled
  result,    \* Handle.result: "none" before Submit, "waiting" until finish
  merged,    \* jobs finished with Result.Merged
  served     \* history: the turns each job was handed to (its own, or by drain)

vars == <<lanes, worker, used, closed, joined, count, req, ended, result,
          merged, served>>

Results == {"none", "waiting", "ok", "error", "pause", "cancelled"}
Places  == {"idle", "loop", "slot", "begin", "run", "release", "settle"}

Lane == [live : BOOLEAN, source : Sources \cup {None}, queue : Seq(Jobs),
         inbox : Seq(Jobs), active : Jobs \cup {None}, running : BOOLEAN,
         paused : BOOLEAN]

Worker == [pc : Places, conv : Convs \cup {None}, job : Jobs \cup {None},
           slot : BOOLEAN, consumed : SUBSET Jobs,
           outcome : {"none", "ok", "error", "pause", "cancelled"}]

TypeOK ==
  /\ lanes \in [Convs -> Lane]
  /\ worker \in [Workers -> Worker]
  /\ used \in [Pools -> Nat]
  /\ closed \in BOOLEAN /\ joined \in BOOLEAN
  /\ count \in 0 .. MaxJobs
  /\ req \in [Jobs -> Requests \cup {None}]
  /\ ended \subseteq Jobs /\ merged \subseteq Jobs
  /\ result \in [Jobs -> Results]
  /\ served \in [Jobs -> Seq(Jobs)]

EmptyLane == [live |-> FALSE, source |-> None, queue |-> <<>>, inbox |-> <<>>,
              active |-> None, running |-> FALSE, paused |-> FALSE]

Idle == [pc |-> "idle", conv |-> None, job |-> None, slot |-> FALSE,
         consumed |-> {}, outcome |-> "none"]

Init ==
  /\ lanes = [c \in Convs |-> EmptyLane]
  /\ worker = [w \in Workers |-> Idle]
  /\ used = [p \in Pools |-> 0]
  /\ closed = FALSE /\ joined = FALSE
  /\ count = 0
  /\ req = [j \in Jobs |-> None]
  /\ ended = {} /\ merged = {}
  /\ result = [j \in Jobs |-> "none"]
  /\ served = [j \in Jobs |-> <<>>]

Elements(q) == {q[k] : k \in DOMAIN q}
PoolOf(j) == IF req[j].background THEN "background" ELSE "foreground"

-----------------------------------------------------------------------------
(* Submit                                                                  *)

\* len(l.queue)+len(l.inbox), what the capacity bounds.
Waiting(l) == Len(l.queue) + Len(l.inbox)

\* The checks of Submit that can refuse a well-formed request: s.closed and the
\* identity of an existing lane.
Admitting == ~closed

SameSource(l, r) == l.source = r.source

\* Where an accepted job j with request r goes in its lane.
Enqueue(l, j, r) ==
  IF r.approval \/ (r.busy = "interrupt" /\ l.active # None)
  THEN [l EXCEPT !.queue = <<j>> \o @]
  ELSE IF r.busy = "inject" /\ l.active # None
       THEN [l EXCEPT !.inbox = Append(@, j)]
       ELSE [l EXCEPT !.queue = Append(@, j)]

\* A worker is started unless one runs or the lane is paused; only an approval
\* wakes a paused lane.  An injection returns before this test, but then the
\* lane has an active job and so a worker.
\* (Seeded fault: a running worker is not noticed.)
Starts_Again(l, r) == ~l.paused \/ r.approval

Starts(l, r) == ~l.running /\ (~l.paused \/ r.approval)

\* Any idle worker stands for the new goroutine: they have no identity.
NewWorker(w) == worker[w].pc = "idle" /\ \A v \in Workers : v < w => worker[v].pc # "idle"

Submit(r) ==
  LET j   == count + 1
      old == lanes[r.conv]
      l   == IF old.live THEN old ELSE [EmptyLane EXCEPT !.live = TRUE, !.source = r.source]
      preempts == r.busy = "interrupt" /\ ~r.approval /\ l.active # None
  IN  /\ Admitting
      /\ count < MaxJobs
      /\ SameSource(l, r)
      /\ Waiting(l) < Capacity
      /\ count' = j
      /\ req' = [req EXCEPT ![j] = r]
      /\ result' = [result EXCEPT ![j] = "waiting"]
      /\ ended' = IF preempts THEN ended \cup {l.active} ELSE ended
      /\ IF Starts(l, r)
         THEN \E w \in Workers :
                /\ NewWorker(w)
                /\ worker' = [worker EXCEPT ![w] = [Idle EXCEPT !.pc = "loop", !.conv = r.conv]]
                /\ lanes' = [lanes EXCEPT ![r.conv] = [Enqueue(l, j, r) EXCEPT !.running = TRUE]]
         ELSE /\ lanes' = [lanes EXCEPT ![r.conv] = Enqueue(l, j, r)]
              /\ UNCHANGED worker
      /\ UNCHANGED <<used, closed, joined, merged, served>>

-----------------------------------------------------------------------------
(* The worker loop                                                         *)

\* The head of the queue may be taken: a paused lane yields only approvals.
\* (Seeded fault: the pause is forgotten.)
Ready_Paused(l) == l.queue # <<>>

Ready(l) == l.queue # <<>> /\ (l.paused => req[Head(l.queue)].approval)

\* (Seeded fault: the worker of a paused lane waits for the approval.)
Exit_Lingers(w) ==
  LET c == worker[w].conv IN
  /\ worker[w].pc = "loop"
  /\ ~Ready(lanes[c])
  /\ ~lanes[c].paused
  /\ lanes' = [lanes EXCEPT ![c] = EmptyLane]
  /\ worker' = [worker EXCEPT ![w] = Idle]
  /\ UNCHANGED <<used, closed, joined, count, req, ended, result, merged, served>>

Exit(w) ==
  LET c == worker[w].conv IN
  /\ worker[w].pc = "loop"
  /\ ~Ready(lanes[c])
  /\ lanes' = [lanes EXCEPT ![c] = IF @.paused THEN [@ EXCEPT !.running = FALSE]
                                               ELSE EmptyLane]
  /\ worker' = [worker EXCEPT ![w] = Idle]
  /\ UNCHANGED <<used, closed, joined, count, req, ended, result, merged, served>>

Take(w) ==
  LET c == worker[w].conv
      j == Head(lanes[c].queue) IN
  /\ worker[w].pc = "loop"
  /\ Ready(lanes[c])
  /\ lanes' = [lanes EXCEPT ![c].queue = Tail(@), ![c].active = j]
  /\ worker' = [worker EXCEPT ![w].pc = "slot", ![w].job = j]
  /\ UNCHANGED <<used, closed, joined, count, req, ended, result, merged, served>>

\* select { case pool <- struct{}{}: ... case <-j.ctx.Done(): }
Acquire(w) ==
  LET p == PoolOf(worker[w].job) IN
  /\ worker[w].pc = "slot"
  /\ used[p] < Slots[p]
  /\ used' = [used EXCEPT ![p] = @ + 1]
  /\ worker' = [worker EXCEPT ![w].pc = "begin", ![w].slot = TRUE]
  /\ UNCHANGED <<lanes, closed, joined, count, req, ended, result, merged, served>>

GiveUp(w) ==
  /\ worker[w].pc = "slot"
  /\ worker[w].job \in ended
  /\ worker' = [worker EXCEPT ![w].pc = "begin"]
  /\ UNCHANGED <<lanes, used, closed, joined, count, req, ended, result, merged, served>>

\* if err := j.ctx.Err(); err != nil { ... } else { s.invoke(...) }
Begin(w) ==
  LET j == worker[w].job IN
  /\ worker[w].pc = "begin"
  /\ IF j \in ended
     THEN /\ worker' = [worker EXCEPT ![w].pc = "release", ![w].outcome = "cancelled"]
          /\ UNCHANGED served
     ELSE /\ worker' = [worker EXCEPT ![w].pc = "run"]
          /\ served' = [served EXCEPT ![j] = Append(@, j)]
  /\ UNCHANGED <<lanes, used, closed, joined, count, req, ended, result, merged>>

\* drain, called by the runner at its safe points.
Alive(q) == Elements(q) \ ended

\* (Seeded fault: the inbox is read and kept.)
Emptied_Kept(l) == l
Emptied(l) == [l EXCEPT !.inbox = <<>>]

Drain(w) ==
  LET c == worker[w].conv
      q == lanes[c].inbox IN
  /\ worker[w].pc = "run"
  /\ q # <<>>
  /\ lanes' = [lanes EXCEPT ![c] = Emptied(@)]
  /\ worker' = [worker EXCEPT ![w].consumed = @ \cup Alive(q)]
  /\ result' = [j \in Jobs |-> IF j \in Elements(q) \cap ended THEN "cancelled"
                                                               ELSE result[j]]
  /\ served' = [j \in Jobs |-> IF j \in Alive(q)
                               THEN Append(served[j], worker[w].job) ELSE served[j]]
  /\ UNCHANGED <<used, closed, joined, count, req, ended, merged>>

\* The runner returns (a panic is an error); a cancelled one may still succeed.
Return(w, outcome) ==
  /\ worker[w].pc = "run"
  /\ outcome = "cancelled" => worker[w].job \in ended
  /\ worker' = [worker EXCEPT ![w].pc = "release", ![w].outcome = outcome]
  /\ UNCHANGED <<lanes, used, closed, joined, count, req, ended, result, merged, served>>

\* The slot, if one was taken, goes back to its pool, and the turn's own handle
\* is finished.  Handle.once is left out: by Placed finish is never called on a
\* finished handle.
SlotBack(w) == worker[w].slot

Release(w) ==
  LET j == worker[w].job
      p == PoolOf(j) IN
  /\ worker[w].pc = "release"
  /\ used' = IF SlotBack(w) THEN [used EXCEPT ![p] = @ - 1] ELSE used
  /\ result' = [result EXCEPT ![j] = worker[w].outcome]
  /\ ended' = ended \cup {j}
  /\ worker' = [worker EXCEPT ![w].pc = "settle", ![w].slot = FALSE]
  /\ UNCHANGED <<lanes, closed, joined, count, req, merged, served>>

\* Consumed messages share the result; unconsumed injections become turns.
\* (Seeded fault: they are dropped.)
Requeued_Dropped(l) == [l EXCEPT !.inbox = <<>>, !.active = None]

Requeued(l) == [l EXCEPT !.queue = @ \o l.inbox, !.inbox = <<>>, !.active = None]

Pause(l, j, outcome) ==
  [l EXCEPT !.paused = \/ outcome = "pause"
                       \/ @ /\ ~(req[j].approval /\ outcome = "ok")]

Settle(w) ==
  LET c     == worker[w].conv
      turn  == worker[w].outcome
      items == worker[w].consumed IN
  /\ worker[w].pc = "settle"
  /\ result' = [j \in Jobs |-> IF j \in items
                               THEN IF j \in ended THEN "cancelled" ELSE turn
                               ELSE result[j]]
  /\ merged' = merged \cup items
  /\ ended' = ended \cup items
  /\ lanes' = [lanes EXCEPT ![c] = Pause(Requeued(@), worker[w].job, turn)]
  /\ worker' = [worker EXCEPT ![w] = [Idle EXCEPT !.pc = "loop", !.conv = c]]
  /\ UNCHANGED <<used, closed, joined, count, req, served>>

-----------------------------------------------------------------------------
(* Cancellation and shutdown                                               *)

\* Handle.Cancel, or the end of the submitter's context.
Cancel(j) ==
  /\ result[j] = "waiting"
  /\ j \notin ended
  /\ ended' = ended \cup {j}
  /\ UNCHANGED <<lanes, worker, used, closed, joined, count, req, result, merged, served>>

\* The body CancelConversation and Seal share, on a set of lanes: cancel the
\* active turns, finish and forget what waits.
Clear(C) ==
  LET waits  == UNION {Elements(lanes[c].queue) \cup Elements(lanes[c].inbox) : c \in C}
      active == {lanes[c].active : c \in C} \ {None} IN
  /\ ended' = ended \cup waits \cup active
  /\ result' = [j \in Jobs |-> IF j \in waits THEN "cancelled" ELSE result[j]]
  /\ lanes' = [c \in Convs |-> IF c \in C
                               THEN [lanes[c] EXCEPT !.queue = <<>>, !.inbox = <<>>]
                               ELSE lanes[c]]

CancelConversation(c) ==
  /\ lanes[c].live
  /\ Clear({c})
  /\ UNCHANGED <<worker, used, closed, joined, count, req, merged, served>>

Seal ==
  /\ ~closed
  /\ closed' = TRUE
  /\ Clear({c \in Convs : lanes[c].live})
  /\ UNCHANGED <<worker, used, joined, count, req, merged, served>>

\* Close: s.wg.Wait(); close(s.done).
Join ==
  /\ closed
  /\ ~joined
  /\ \A w \in Workers : worker[w].pc = "idle"
  /\ joined' = TRUE
  /\ UNCHANGED <<lanes, worker, used, closed, count, req, ended, result, merged, served>>

-----------------------------------------------------------------------------
\* What a worker does by itself.
Step(w) ==
  \/ Exit(w) \/ Take(w) \/ Acquire(w) \/ GiveUp(w) \/ Begin(w)
  \/ \E outcome \in {"ok", "error", "pause", "cancelled"} : Return(w, outcome)
  \/ Release(w) \/ Settle(w)

Next ==
  \/ \E r \in Requests : Submit(r)
  \/ \E w \in Workers : Step(w)
  \/ \E w \in Workers : Drain(w)
  \/ \E j \in Jobs : Cancel(j)
  \/ \E c \in Convs : CancelConversation(c)
  \/ Seal
  \/ Join

Spec == Init /\ [][Next]_vars

\* A goroutine that can run does run, and runs of the agent end: the engine
\* bounds its steps, its model calls have timeouts and it observes its context.
Fairness == /\ \A w \in Workers : WF_vars(Step(w))
            /\ WF_vars(Join)

FairSpec == Spec /\ Fairness

-----------------------------------------------------------------------------
(* Safety                                                                  *)

\* docs/ARCHITECTURE.md:100: a conversation is one sequential lane.  Whatever
\* races with the worker's exit or the deletion of its lane, no second worker
\* serves the conversation, and lane.active is that worker's turn; and appended
\* requests wait in the order they were accepted, whatever interrupts, approvals
\* and requeued injections come between them.
Busy(w) == worker[w].pc \in Places \ {"idle", "loop"}

Plain(j) == req[j].busy = "append" /\ ~req[j].approval

OneWorker ==
  \A w \in Workers : worker[w].pc # "idle" =>
    /\ \A v \in Workers : v # w => worker[v].conv # worker[w].conv
    /\ lanes[worker[w].conv].running
    /\ Busy(w) => lanes[worker[w].conv].active = worker[w].job

InOrder ==
  \A c \in Convs : \A k, m \in DOMAIN lanes[c].queue :
    (k < m /\ Plain(lanes[c].queue[k]) /\ Plain(lanes[c].queue[m]))
      => lanes[c].queue[k] < lanes[c].queue[m]

SerialLane == OneWorker /\ InOrder

\* scheduler_test.go:244 "AcceptedHandlesAllResolve", its safety half: a job
\* whose handle is open is in exactly one place -- one position of a queue or
\* an inbox, or in the hands of one worker -- and nothing else is anywhere.
\* Positions end at Capacity: the bound on a lane counts injections, and the
\* worker's move of unconsumed ones to the queue cannot exceed it
\* (docs/GO_REWRITE_STATUS.md:19).
QueuedAt(j) ==
  {s \in Convs \X (1 .. Capacity) :
      s[2] \in DOMAIN lanes[s[1]].queue /\ lanes[s[1]].queue[s[2]] = j}
InjectedAt(j) ==
  {s \in Convs \X (1 .. Capacity) :
      s[2] \in DOMAIN lanes[s[1]].inbox /\ lanes[s[1]].inbox[s[2]] = j}
HeldBy(j) ==
  {w \in Workers : \/ worker[w].job = j /\ worker[w].pc # "settle"
                   \/ j \in worker[w].consumed}

Placed ==
  \A j \in Jobs :
    Cardinality(QueuedAt(j)) + Cardinality(InjectedAt(j)) + Cardinality(HeldBy(j))
      = IF result[j] = "waiting" THEN 1 ELSE 0

\* Each pool's count is the number of workers that hold a slot of it, within
\* the pool's size: no path through the loop leaks or returns a slot twice.
PoolsExact ==
  \A p \in Pools :
    /\ used[p] = Cardinality({w \in Workers : worker[w].slot /\ PoolOf(worker[w].job) = p})
    /\ used[p] <= Slots[p]

\* A message reaches a runner at most once, as a turn or merged into one; a
\* success is reported only for a message that did, by a turn that succeeded,
\* and it is marked Merged exactly when that turn was another's (scheduler.go:59:
\* merged requests "must not trigger a duplicate delivery").
ServedOnce ==
  \A j \in Jobs :
    /\ Len(served[j]) <= 1
    /\ result[j] = "ok" => /\ Len(served[j]) = 1
                           /\ result[served[j][1]] = "ok"
                           /\ (j \in merged) <=> (served[j][1] # j)

\* Neither a message nor a slot is lost or doubled on any path.
NothingLost == Placed /\ ServedOnce /\ PoolsExact

(* Steps *)

\* docs/ARCHITECTURE.md:87: while a conversation is paused for an approval no
\* ordinary request starts in it, and only a turn's end changes the pause: it
\* is lifted by nothing but a successful approval.
PauseHolds ==
  [][ \A c \in Convs : lanes[c].paused =>
        /\ \A j \in Jobs : lanes[c].active # j /\ lanes'[c].active = j => req[j].approval
        /\ ~lanes'[c].paused =>
              \E w \in Workers : /\ worker[w].conv = c
                                 /\ worker[w].pc = "settle" /\ worker[w].outcome = "ok"
                                 /\ req[worker[w].job].approval
    ]_vars

(* Liveness *)

\* scheduler_test.go:244: every accepted handle resolves, unless its lane
\* is left paused.
AcceptedResolves ==
  \A j \in Jobs :
    []<>(\/ result[j] # "waiting"
         \/ lanes[req[j].conv].paused)

\* Close joins: after Seal every worker ends and every handle is finished,
\* paused lanes included (scheduler.go:279).
CloseJoins == closed ~> (joined /\ \A j \in Jobs : result[j] # "waiting")

=============================================================================
