------------------------------ MODULE Gateway ------------------------------
(***************************************************************************)
(* internal/gateway and its host internal/gatewayapp: the life of inbound  *)
(* requests from Publish to their recorded reply, over the ledger, across  *)
(* crashes, timed-out and orderly closes, restarts with Replay and the     *)
(* reconcile command.                                                      *)
(*                                                                         *)
(* publish holds g.mu for all of its journal transactions and its Submit,  *)
(* so one publication (pub) is under way at a time; its steps are still    *)
(* separate actions, because waiting goroutines, turns, the sender, Close  *)
(* and crashes fall between them.  The scheduler and the hub appear by     *)
(* what the gateway sees of them; Scheduler.tla and Delivery.tla are their *)
(* detailed modules.                                                       *)
(***************************************************************************)
EXTENDS Ledger

CONSTANTS
  Body,       \* the payload of an event
  Setups,     \* cap(g.slots), and whether journal transactions may fail,
              \* before or after the write
  MaxOpens    \* bound: journal epochs

ASSUME GatewayConstants ==
  /\ Notices = {} /\ None \notin Requests
  /\ Body \in Payloads
  /\ Setups \subseteq [slots : Nat \ {0}, faulty : BOOLEAN]
  /\ MaxOpens \in Nat

VARIABLES
  process,   \* "down", "starting" (New), "failed" (New failed), "up", "operator"
  allowed,   \* requests whose sender this configuration admits
  replay,    \* what Replay has listed and not handled: replies and requests
  gw,        \* Gateway: closed, g.ctx cancelled, slots taken; scheduler sealed
  seen,      \* g.seen
  pub,       \* the publication that holds g.mu
  waiter,    \* the goroutine waiting for each request's handle
  job,       \* each request's turn in the scheduler
  hub,       \* Hub: sealed, cancelled, done, what is queued and being sent
  setup,     \* one of Setups, for good
  ran        \* history: how often a runner was given each request

mem  == <<replay, gw, seen, pub, waiter, job, hub>>
vars == <<epoch, inbox, outbox, begun, process, allowed, replay, gw, seen, pub,
          waiter, job, hub, setup, ran>>

Slots  == setup.slots
faulty == setup.faulty

JobStates == {"none", "queued", "doomed", "running", "absorbed", "ok", "error", "merged"}
Ended     == {"none", "ok", "error", "merged"}

TypeOK ==
  /\ LedgerTypeOK
  /\ process \in {"down", "starting", "failed", "up", "operator"}
  /\ allowed \subseteq Requests
  /\ replay \in [replies : SUBSET Requests, requests : SUBSET Requests]
  /\ gw \in [closed : BOOLEAN, cancelled : BOOLEAN, sealed : BOOLEAN, slots : 0 .. Slots]
  /\ seen \subseteq Requests
  /\ pub \in [pc : {"idle", "put", "lookup", "claim", "submit", "refuse"},
              req : Requests \cup {None}]
  /\ waiter \in [Requests -> {"none", "wait", "fault", "merge", "complete", "post"}]
  /\ job \in [Requests -> JobStates]
  /\ hub \in [sealed : BOOLEAN, cancelled : BOOLEAN, done : BOOLEAN,
              queue : SUBSET Requests, sending : Requests \cup {None}]
  /\ setup \in Setups
  /\ ran \in [Requests -> Nat]

FreshGateway == [closed |-> FALSE, cancelled |-> FALSE, sealed |-> FALSE, slots |-> 0]
FreshHub     == [sealed |-> FALSE, cancelled |-> FALSE, done |-> FALSE,
                 queue |-> {}, sending |-> None]
NoPub        == [pc |-> "idle", req |-> None]
NoReplay     == [replies |-> {}, requests |-> {}]

Init ==
  /\ LedgerInit
  /\ process = "down"
  /\ allowed = {}
  /\ replay = NoReplay
  /\ gw = FreshGateway
  /\ seen = {}
  /\ pub = NoPub
  /\ waiter = [r \in Requests |-> "none"]
  /\ job = [r \in Requests |-> "none"]
  /\ hub = FreshHub
  /\ setup \in Setups
  /\ ran = [r \in Requests |-> 0]

\* The memory of the process is gone.
Forget ==
  /\ process' = "down"
  /\ replay' = NoReplay /\ gw' = FreshGateway /\ seen' = {} /\ pub' = NoPub
  /\ waiter' = [r \in Requests |-> "none"]
  /\ job' = [r \in Requests |-> "none"]
  /\ hub' = FreshHub

-----------------------------------------------------------------------------
(* publish                                                                 *)

\* publish up to the slot.  Refused events (sender, closed, overload) and events
\* in g.seen return and change nothing.
Receive(r) ==
  /\ process = "up"
  /\ pub.pc = "idle"
  /\ r \in allowed
  /\ ~gw.closed
  /\ r \notin seen
  /\ gw.slots < Slots
  /\ gw' = [gw EXCEPT !.slots = @ + 1]
  /\ pub' = [pc |-> "put", req |-> r]
  /\ UNCHANGED <<epoch, inbox, outbox, begun, process, allowed, replay, seen, waiter,
                 job, hub, ran>>

\* Replay publishes what was pending, once its replies are posted; it waits for
\* a slot instead of being refused.
Requeue(r) ==
  /\ process = "starting"
  /\ pub.pc = "idle"
  /\ replay.replies = {} /\ r \in replay.requests
  /\ r \in allowed
  /\ gw.slots < Slots
  /\ gw' = [gw EXCEPT !.slots = @ + 1]
  /\ pub' = [pc |-> "put", req |-> r]
  /\ replay' = [replay EXCEPT !.requests = @ \ {r}]
  /\ UNCHANGED <<epoch, inbox, outbox, begun, process, allowed, seen, waiter, job, hub, ran>>

\* publish returns without a turn: the slot is given back, and an error ends New.

Return(ok) ==
  /\ gw' = [gw EXCEPT !.slots = @ - 1]
  /\ pub' = NoPub
  /\ process' = IF process = "starting" /\ ~ok THEN "failed" ELSE process

Put ==
  LET r == pub.req IN
  /\ pub.pc = "put"
  /\ \/ /\ PutInbox(r, Body)
        /\ pub' = [pub EXCEPT !.pc = IF inbox[r].state = "absent" THEN "claim" ELSE "lookup"]
        /\ UNCHANGED <<process, gw>>
     \/ /\ faulty
        /\ PutInbox(r, Body) \/ UNCHANGED ledger
        /\ Return(FALSE)
  /\ UNCHANGED <<allowed, replay, seen, waiter, job, hub, ran>>

\* A known id is run only if it is still pending.
Lookup ==
  LET r == pub.req IN
  /\ pub.pc = "lookup"
  /\ \/ /\ inbox[r].state = "pending"
        /\ pub' = [pub EXCEPT !.pc = "claim"]
        /\ UNCHANGED <<process, gw>>
     \/ inbox[r].state # "pending" /\ Return(TRUE)
     \/ faulty /\ Return(FALSE)
  /\ UNCHANGED <<epoch, inbox, outbox, begun, allowed, replay, seen, waiter, job, hub, ran>>

\* (Seeded fault: the request is submitted without a claim.)
Claim_Skipped ==
  /\ pub.pc = "claim"
  /\ pub' = [pub EXCEPT !.pc = "submit"]
  /\ UNCHANGED <<epoch, inbox, outbox, begun, process, allowed, replay, gw, seen, waiter,
                 job, hub, ran>>

Claim ==
  LET r == pub.req IN
  /\ pub.pc = "claim"
  /\ \/ /\ MoveInbox(r, "pending", "running")
        /\ pub' = [pub EXCEPT !.pc = "submit"]
        /\ UNCHANGED <<process, gw>>
     \/ /\ faulty
        /\ MoveInbox(r, "pending", "running") \/ UNCHANGED ledger
        /\ Return(FALSE)
  /\ UNCHANGED <<allowed, replay, seen, waiter, job, hub, ran>>

\* Submit accepts: the id is remembered and a goroutine waits for the handle.
Accept ==
  LET r == pub.req IN
  /\ pub.pc = "submit"
  /\ ~gw.sealed
  /\ job' = [job EXCEPT ![r] = "queued"]
  /\ seen' = seen \cup {r}
  /\ waiter' = [waiter EXCEPT ![r] = "wait"]
  /\ pub' = NoPub
  /\ UNCHANGED <<epoch, inbox, outbox, begun, process, allowed, replay, gw, hub, ran>>

\* Submit refuses (a full lane, another identity's conversation).
Reject ==
  /\ pub.pc = "submit"
  /\ pub' = [pub EXCEPT !.pc = "refuse"]
  /\ UNCHANGED <<epoch, inbox, outbox, begun, process, allowed, replay, gw, seen, waiter,
                 job, hub, ran>>

\* ... and the claim is taken back; that error is ignored.
\* (Seeded fault: it is not taken back.)
Refuse_Kept ==
  /\ pub.pc = "refuse"
  /\ Return(FALSE)
  /\ UNCHANGED <<epoch, inbox, outbox, begun, allowed, replay, seen, waiter, job, hub, ran>>

Refuse ==
  LET r == pub.req IN
  /\ pub.pc = "refuse"
  /\ \/ MoveInbox(r, "running", "pending")
     \/ faulty /\ UNCHANGED ledger
  /\ Return(FALSE)
  /\ UNCHANGED <<allowed, replay, seen, waiter, job, hub, ran>>

-----------------------------------------------------------------------------
(* Turns in the scheduler                                                  *)

RunTurn(r) ==
  /\ job[r] = "queued"
  /\ job' = [job EXCEPT ![r] = "running"]
  /\ ran' = [ran EXCEPT ![r] = @ + 1]
  /\ UNCHANGED <<epoch, inbox, outbox, begun, process, allowed, replay, gw, seen, pub,
                 waiter, hub>>

\* drain: an injected request joins the running turn of another.
Absorb(r) ==
  /\ job[r] = "queued"
  /\ \E host \in Requests : job[host] = "running"
  /\ job' = [job EXCEPT ![r] = "absorbed"]
  /\ ran' = [ran EXCEPT ![r] = @ + 1]
  /\ UNCHANGED <<epoch, inbox, outbox, begun, process, allowed, replay, gw, seen, pub,
                 waiter, hub>>

\* The end of a turn is also the end of what it absorbed.
\* (Seeded fault: it is not.)
EndTurn_Alone(r, outcome) ==
  /\ job[r] = "running"
  /\ job' = [job EXCEPT ![r] = outcome]
  /\ UNCHANGED <<epoch, inbox, outbox, begun, process, allowed, replay, gw, seen, pub,
                 waiter, hub, ran>>

EndTurn(r, outcome) ==
  /\ job[r] = "running"
  /\ job' = [s \in Requests |->
               CASE s = r               -> outcome
                 [] job[s] = "absorbed" -> IF outcome = "ok" THEN "merged" ELSE "error"
                 [] OTHER               -> job[s]]
  /\ UNCHANGED <<epoch, inbox, outbox, begun, process, allowed, replay, gw, seen, pub,
                 waiter, hub, ran>>

\* A job cancelled before it began never reaches the runner.
\* (Seeded fault: a job Seal has cancelled is never finished.)
DropTurn_Queued(r) ==
  /\ job[r] = "queued"
  /\ job' = [job EXCEPT ![r] = "error"]
  /\ UNCHANGED <<epoch, inbox, outbox, begun, process, allowed, replay, gw, seen, pub,
                 waiter, hub, ran>>

DropTurn(r) ==
  /\ job[r] \in {"queued", "doomed"}
  /\ job' = [job EXCEPT ![r] = "error"]
  /\ UNCHANGED <<epoch, inbox, outbox, begun, process, allowed, replay, gw, seen, pub,
                 waiter, hub, ran>>

-----------------------------------------------------------------------------
(* The waiting goroutine                                                   *)

\* handle.Wait(g.ctx)
Observe(r) ==
  /\ waiter[r] = "wait"
  /\ \/ job[r] = "ok"     /\ waiter' = [waiter EXCEPT ![r] = "complete"]
     \/ job[r] = "merged" /\ waiter' = [waiter EXCEPT ![r] = "merge"]
     \/ job[r] = "error"  /\ waiter' = [waiter EXCEPT ![r] = "fault"]
     \/ gw.cancelled      /\ waiter' = [waiter EXCEPT ![r] = "fault"]
  /\ UNCHANGED <<epoch, inbox, outbox, begun, process, allowed, replay, gw, seen, pub,
                 job, hub, ran>>

\* defer g.wg.Done(), <-g.slots
Leave(r) ==
  /\ waiter' = [waiter EXCEPT ![r] = "none"]
  /\ gw' = [gw EXCEPT !.slots = @ - 1]

Fault(r) ==
  /\ waiter[r] = "fault"
  /\ MoveInbox(r, "running", "needs_reconcile") \/ (faulty /\ UNCHANGED ledger)
  /\ Leave(r)
  /\ UNCHANGED <<process, allowed, replay, seen, pub, job, hub, ran>>

Merge(r) ==
  /\ waiter[r] = "merge"
  /\ MoveInbox(r, "running", "merged") \/ (faulty /\ UNCHANGED ledger)
  /\ Leave(r)
  /\ UNCHANGED <<process, allowed, replay, seen, pub, job, hub, ran>>

\* Journal.Complete under g.ctx; an error ends the goroutine, whether or not the
\* result was written.
CompleteReply(r) ==
  /\ waiter[r] = "complete"
  /\ \/ /\ \E p \in Payloads : Complete(r, p)
        /\ waiter' = [waiter EXCEPT ![r] = "post"]
        /\ UNCHANGED gw
     \/ faulty /\ (\E p \in Payloads : Complete(r, p)) /\ Leave(r)
     \/ (faulty \/ gw.cancelled) /\ UNCHANGED ledger /\ Leave(r)
  /\ UNCHANGED <<process, allowed, replay, seen, pub, job, hub, ran>>

\* Hub.Post: refused when sealed, and may be given up when a context has ended.
Post(r) ==
  /\ waiter[r] = "post"
  /\ \/ ~hub.sealed /\ hub' = [hub EXCEPT !.queue = @ \cup {r}]
     \/ (hub.sealed \/ gw.cancelled) /\ UNCHANGED hub
  /\ Leave(r)
  /\ UNCHANGED <<epoch, inbox, outbox, begun, process, allowed, replay, seen, pub, job, ran>>

-----------------------------------------------------------------------------
(* The hub's worker, see Delivery.tla                                      *)

Send(r) ==
  /\ hub.sending = None
  /\ r \in hub.queue
  /\ \/ /\ MoveOutbox(r, "pending", "sending")
        /\ hub' = [hub EXCEPT !.queue = @ \ {r}, !.sending = r]
     \/ /\ faulty \/ hub.cancelled
        /\ UNCHANGED ledger \/ (faulty /\ MoveOutbox(r, "pending", "sending"))
        /\ hub' = [hub EXCEPT !.queue = @ \ {r}]
  /\ UNCHANGED <<process, allowed, replay, gw, seen, pub, waiter, job, ran>>

Sent(outcome) ==
  /\ hub.sending # None
  /\ MoveOutbox(hub.sending, "sending", outcome) \/ (faulty /\ UNCHANGED ledger)
  /\ hub' = [hub EXCEPT !.sending = None]
  /\ UNCHANGED <<process, allowed, replay, gw, seen, pub, waiter, job, ran>>

-----------------------------------------------------------------------------
(* Close                                                                   *)

Closing == process \in {"up", "failed"}
Joined  == /\ gw.sealed
           /\ \A r \in Requests : job[r] \in Ended
           /\ \A r \in Requests : waiter[r] = "none"

\* Gateway.Close: closed under g.mu ...
CloseIntake ==
  /\ Closing
  /\ pub.pc = "idle"
  /\ ~gw.closed
  /\ gw' = [gw EXCEPT !.closed = TRUE]
  /\ UNCHANGED <<epoch, inbox, outbox, begun, process, allowed, replay, seen, pub, waiter,
                 job, hub, ran>>

\* ... Scheduler.Seal ...
SealScheduler ==
  /\ gw.closed /\ ~gw.sealed
  /\ gw' = [gw EXCEPT !.sealed = TRUE]
  /\ job' = [r \in Requests |-> IF job[r] = "queued" THEN "doomed" ELSE job[r]]
  /\ UNCHANGED <<epoch, inbox, outbox, begun, process, allowed, replay, seen, pub, waiter,
                 hub, ran>>

\* ... and the hub once turns and waiting goroutines have joined.

CloseHub ==
  /\ Joined
  /\ ~hub.sealed
  /\ hub' = [hub EXCEPT !.sealed = TRUE]
  /\ UNCHANGED <<epoch, inbox, outbox, begun, process, allowed, replay, gw, seen, pub,
                 waiter, job, ran>>

\* The caller's context ends: g.cancel ...
TimeOut ==
  /\ gw.sealed /\ ~gw.cancelled
  /\ gw' = [gw EXCEPT !.cancelled = TRUE]
  /\ UNCHANGED <<epoch, inbox, outbox, begun, process, allowed, replay, seen, pub, waiter,
                 job, hub, ran>>

\* ... and Hub.Close under the ended context.
AbortHub ==
  /\ gw.cancelled /\ ~hub.cancelled
  /\ hub' = [hub EXCEPT !.sealed = TRUE, !.cancelled = TRUE]
  /\ UNCHANGED <<epoch, inbox, outbox, begun, process, allowed, replay, gw, seen, pub,
                 waiter, job, ran>>

\* Hub.Close: idle, hence cancelled; the worker has left, the queue is reclaimed.
StopHub ==
  /\ hub.sealed /\ ~hub.done
  /\ hub.sending = None
  /\ hub.cancelled \/ hub.queue = {}
  /\ hub' = [hub EXCEPT !.cancelled = TRUE, !.done = TRUE, !.queue = {}]
  /\ UNCHANGED <<epoch, inbox, outbox, begun, process, allowed, replay, gw, seen, pub,
                 waiter, job, ran>>

\* Server.Close releases the journal when everything has joined.
Exit ==
  /\ Joined /\ hub.done
  /\ Forget
  /\ UNCHANGED <<epoch, inbox, outbox, begun, allowed, ran>>

Crash ==
  /\ process # "down"
  /\ Forget
  /\ UNCHANGED <<epoch, inbox, outbox, begun, allowed, ran>>

-----------------------------------------------------------------------------
(* Start and reconcile                                                     *)

\* gatewayapp.New: journal.Open, then Replay's lists; the configuration may have
\* changed since the last run.
Start(admitted) ==
  /\ process = "down"
  /\ epoch < MaxOpens
  /\ Reopen
  /\ process' = "starting"
  /\ allowed' = admitted
  /\ replay' = [replies  |-> {r \in Requests : outbox'[r].state = "pending"},
                requests |-> {r \in Requests : inbox'[r].state = "pending"}]
  /\ UNCHANGED <<gw, seen, pub, waiter, job, hub, ran>>

Resend(r) ==
  /\ process = "starting"
  /\ r \in replay.replies
  /\ replay' = [replay EXCEPT !.replies = @ \ {r}]
  /\ hub' = [hub EXCEPT !.queue = @ \cup {r}]
  /\ UNCHANGED <<epoch, inbox, outbox, begun, process, allowed, gw, seen, pub, waiter, job, ran>>

\* New fails on a listed request whose sender is no longer admitted, or because
\* its setup deadline ends while it waits; what it started is closed.
Abort ==
  /\ process = "starting"
  /\ pub.pc = "idle"
  /\ process' = "failed"
  /\ replay' = NoReplay
  /\ UNCHANGED <<epoch, inbox, outbox, begun, allowed, gw, seen, pub, waiter, job, hub, ran>>

Open ==
  /\ process = "starting"
  /\ replay = NoReplay /\ pub.pc = "idle"
  /\ process' = "up"
  /\ UNCHANGED <<epoch, inbox, outbox, begun, allowed, replay, gw, seen, pub, waiter, job, hub, ran>>

\* cmd/gopherharness-gateway --reconcile: one decision, with the gateway stopped.
Reconcile ==
  /\ process = "down"
  /\ epoch < MaxOpens
  /\ Reopen
  /\ process' = "operator"
  /\ UNCHANGED <<allowed, replay, gw, seen, pub, waiter, job, hub, ran>>

Decide(r, decision) ==
  /\ process = "operator"
  /\ \/ \E p \in Payloads : ResolveInbox(r, decision, p)
     \/ ResolveOutbox(r, decision)
  /\ process' = "down"
  /\ UNCHANGED <<allowed, replay, gw, seen, pub, waiter, job, hub, ran>>

-----------------------------------------------------------------------------
Publishing == Put \/ Lookup \/ Claim \/ Accept \/ Reject \/ Refuse
Turning(r) == RunTurn(r) \/ Absorb(r) \/ DropTurn(r)
              \/ \E outcome \in {"ok", "error"} : EndTurn(r, outcome)
Waiting(r) == Observe(r) \/ Fault(r) \/ Merge(r) \/ CompleteReply(r) \/ Post(r)
Sending    == \/ \E r \in Requests : Send(r)
              \/ \E outcome \in Outcomes : Sent(outcome)
Stopping   == \/ process = "failed" /\ CloseIntake
              \/ SealScheduler \/ CloseHub \/ AbortHub \/ StopHub \/ Exit
Starting   == Open \/ \E r \in Requests : Requeue(r) \/ Resend(r)

Working ==
  \/ \E r \in Requests : Receive(r) \/ Turning(r) \/ Waiting(r)
  \/ Publishing \/ Sending
  \/ CloseIntake \/ TimeOut \/ Stopping
  \/ \E admitted \in SUBSET Requests : Start(admitted)
  \/ Starting \/ Abort
  \/ Reconcile \/ \E r \in Requests, decision \in Decisions : Decide(r, decision)
  \/ Crash

\* The capacity is fixed, and a journal that works keeps working.
Next == Working /\ UNCHANGED setup

Spec == Init /\ [][Next]_vars

\* Goroutines that can run do run, turns and sends end (each under a timeout of
\* its own); nothing obliges a caller, a deadline, a crash or an operator.
Fairness ==
  /\ WF_vars(Publishing /\ UNCHANGED setup)
  /\ \A r \in Requests : /\ WF_vars(Turning(r) /\ UNCHANGED setup)
                         /\ WF_vars(Waiting(r) /\ UNCHANGED setup)
  /\ WF_vars(Sending /\ UNCHANGED setup)
  /\ WF_vars(Stopping /\ UNCHANGED setup)
  /\ WF_vars(Starting /\ UNCHANGED setup)

FairSpec == Spec /\ Fairness

-----------------------------------------------------------------------------
(* Properties                                                              *)

\* g.slots bounds the requests between admission and the end of their waiting
\* goroutine, on every error path of publish; so a slot lost would never come
\* back, and one returned twice would block its giver.
SlotsAccounted ==
  gw.slots = Cardinality({r \in Requests : waiter[r] # "none"})
             + (IF pub.pc = "idle" THEN 0 ELSE 1)

\* gateway.go:67 dedup in memory agrees with the ledger: an id in g.seen, which
\* publish will acknowledge without looking further, is never left waiting for
\* somebody to start it.
SeenIsTaken == \A r \in seen : inbox[r].state \notin {"absent", "pending"}

\* While the process serves and its journal works, work in flight has somebody
\* to finish it: a running request its publication or its waiting goroutine, an
\* owed reply the hub, Replay's list or its waiting goroutine, a reply being
\* sent the hub's worker.
Attended ==
  /\ SeenIsTaken
  /\ process \in {"starting", "up"} /\ ~gw.closed /\ ~faulty =>
    \A r \in Requests :
      /\ inbox[r].state = "running" =>
           \/ waiter[r] # "none" /\ r \in seen
           \/ pub.pc \in {"submit", "refuse"} /\ pub.req = r
      /\ outbox[r].state = "pending" =>
           r \in hub.queue \cup replay.replies \/ waiter[r] = "post"
      /\ outbox[r].state = "sending" => hub.sending = r

\* docs/FEISHU.md:68 (the order of shutdown): when a close that no deadline cut
\* short has finished, nothing is left for the next start to doubt or resend.
OrderlyClose ==
  process = "up" /\ hub.done /\ Joined /\ ~gw.cancelled /\ ~faulty =>
    \A r \in Requests : /\ inbox[r].state # "running"
                        /\ outbox[r].state \notin {"pending", "sending"}

\* Slots, entries and the order of the close agree at every step.
Accounted == SlotsAccounted /\ Attended /\ OrderlyClose

\* Everything together keeps the promise of Promise.tla.
Doubted == {r \in Requests : \/ inbox[r].state \in {"needs_reconcile", "abandoned"}
                             \/ inbox[r].decisions # <<>>}

Kept == INSTANCE Promise WITH
  Answers  <- Payloads,
  NoAnswer <- None,
  doubted  <- Doubted,
  answer   <- [r \in Requests |-> outbox[r].payload],
  owed     <- {r \in Requests : outbox[r].state = "pending"},
  sends    <- [r \in Requests |-> begun[r]]

KeepsPromise == Kept!Spec

(* Liveness *)

\* An accepted request is carried through to a settled entry and, if it has a
\* reply, a settled reply, unless the gateway is closed or dies first or the
\* journal fails.
AcceptedIsSettled ==
  \A r \in Requests :
    r \in seen ~> \/ gw.closed \/ process = "down" \/ faulty
                  \/ /\ inbox[r].state \in {"completed", "merged", "needs_reconcile"}
                     /\ outbox[r].state \notin {"pending", "sending"}

\* docs/FEISHU.md:68, server.go:133: a close ends and frees the journal, with or
\* without a deadline, and a failed start closes what it had opened.
CloseEnds == (gw.closed \/ process = "failed") ~> process = "down"

=============================================================================
