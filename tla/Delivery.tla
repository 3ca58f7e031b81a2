------------------------------ MODULE Delivery ------------------------------
(***************************************************************************)
(* internal/delivery: computed results are recorded in the ledger's outbox *)
(* and sent by one worker per outlet.  Posters (PostDurable, Replay) and   *)
(* workers interleave at every journal transaction, at every section under *)
(* h.mu and at every channel operation; the process may crash anywhere and *)
(* is started again over the same ledger; between two runs an operator may *)
(* settle what is unknown.                                                 *)
(*                                                                         *)
(* remote[i] is what the platform holds: the number of copies of i that    *)
(* reached the chat.  An idempotent outlet (Feishu's uuid) keeps one.      *)
(***************************************************************************)
EXTENDS Ledger, FiniteSetsExt

CONSTANTS
  Outlets, Route,     \* registered channels, and the channel of each id
  Posters, Starter,   \* goroutines that post; Starter is New's, running Replay
  Capacity, Retries,  \* delivery.New's capacity and retries
  Idempotent,         \* IdempotentOutlet.Idempotent()
  Faulty,             \* journal transactions may fail
  MaxOpens            \* bound: journal epochs

ASSUME DeliveryConstants ==
  /\ Route \in [Ids -> Outlets]
  /\ Starter \in Posters
  /\ Capacity \in Nat \ {0} /\ Retries \in Nat /\ MaxOpens \in Nat
  /\ Idempotent \in BOOLEAN /\ Faulty \in BOOLEAN

VARIABLES
  process,   \* "down", "up" (the gateway) or "operator" (the reconcile command)
  hub,       \* Hub: sealed, h.ctx cancelled, pending, and how far Close got
  backlog,   \* what Replay has listed and not posted yet
  queue,     \* endpoint.queue
  poster,    \* the goroutines inside PostDurable or Post
  sender,    \* the goroutines inside work
  remote,    \* copies on the platform
  doubted    \* history: the ids tried again, since their claim, after a try
             \* that left the outcome open

memory == <<hub, backlog, queue, poster, sender>>
hubVars == <<epoch, inbox, outbox, begun, process, hub, backlog, queue, poster,
             sender, remote, doubted>>

Message == [id : Ids, data : Payloads]
NoMessage == [id |-> None, data |-> None]

HubTypeOK ==
  /\ LedgerTypeOK
  /\ process \in {"down", "up", "operator"}
  /\ hub \in [sealed : BOOLEAN, cancelled : BOOLEAN, pending : Nat, done : BOOLEAN]
  /\ backlog \subseteq Ids
  /\ queue \in [Outlets -> Seq(Message)]
  /\ poster \in [Posters -> [pc : {"idle", "read", "admit", "select"},
                             msg : Message \cup {NoMessage}]]
  /\ sender \in [Outlets -> [pc : {"idle", "claim", "send", "backoff", "record",
                                   "finish", "exited"},
                             msg : Message \cup {NoMessage},
                             attempt : 0 .. Retries,
                             outcome : Outcomes \cup {"none"}]]
  /\ remote \in [Ids -> Nat]
  /\ doubted \subseteq Ids

NewHub  == [sealed |-> FALSE, cancelled |-> FALSE, pending |-> 0, done |-> FALSE]
Resting == [pc |-> "idle", msg |-> NoMessage]
Waiting == [pc |-> "idle", msg |-> NoMessage, attempt |-> 0, outcome |-> "none"]

NewMemory ==
  /\ hub' = NewHub
  /\ queue' = [e \in Outlets |-> <<>>]
  /\ poster' = [t \in Posters |-> Resting]
  /\ sender' = [e \in Outlets |-> Waiting]

HubInit ==
  /\ LedgerInit
  /\ process = "down"
  /\ hub = NewHub /\ backlog = {}
  /\ queue = [e \in Outlets |-> <<>>]
  /\ poster = [t \in Posters |-> Resting]
  /\ sender = [e \in Outlets |-> Waiting]
  /\ remote = [i \in Ids |-> 0]
  /\ doubted = {}

\* The number of messages in the endpoints' queues.
Queued == MapThenSumSet(LAMBDA e : Len(queue[e]), Outlets)

-----------------------------------------------------------------------------
(* Posting                                                                 *)

\* PostDurable: Journal.Put, which keeps the first message of an id.  An error
\* may come after the write (durable.Replace: the directory sync); then the
\* poster gives up although the message is recorded.
Store(t, m, ok) ==
  /\ process = "up"
  /\ t # Starter
  /\ poster[t].pc = "idle"
  /\ ok \/ Faulty
  /\ PutOutbox(m.id, m.data)
  /\ poster' = IF ok
               THEN [poster EXCEPT ![t] =
                       [pc |-> IF outbox[m.id].state = "absent" THEN "admit" ELSE "read",
                        msg |-> m]]
               ELSE poster
  /\ UNCHANGED <<process, hub, backlog, queue, sender, remote, doubted>>

\* ... and, when the id was known, Journal.Get.
Repeats(m) == outbox[m.id].payload = m.data

Reread(t) ==
  LET m == poster[t].msg IN
  /\ poster[t].pc = "read"
  /\ poster' = [poster EXCEPT ![t] = IF Repeats(m) /\ outbox[m.id].state = "pending"
                                     THEN [@ EXCEPT !.pc = "admit"] ELSE Resting]
  /\ UNCHANGED <<epoch, inbox, outbox, begun, process, hub, backlog, queue, sender, remote, doubted>>

\* Replay: the next listed result is posted as it was recorded.
Replay(i) ==
  /\ process = "up"
  /\ i \in backlog
  /\ poster[Starter].pc = "idle"
  /\ backlog' = backlog \ {i}
  /\ poster' = [poster EXCEPT ![Starter] = [pc  |-> "admit",
                                            msg |-> [id |-> i, data |-> outbox[i].payload]]]
  /\ UNCHANGED <<epoch, inbox, outbox, begun, process, hub, queue, sender, remote, doubted>>

\* Post, under h.mu.
HubAdmit(t) ==
  /\ poster[t].pc = "admit"
  /\ IF hub.sealed
     THEN /\ poster' = [poster EXCEPT ![t] = Resting]
          /\ UNCHANGED hub
     ELSE /\ poster' = [poster EXCEPT ![t].pc = "select"]
          /\ hub' = [hub EXCEPT !.pending = @ + 1]
  /\ UNCHANGED <<epoch, inbox, outbox, begun, process, backlog, queue, sender, remote, doubted>>

\* Post, its select: e.queue <- msg ...
Enqueue(t) ==
  LET e == Route[poster[t].msg.id] IN
  /\ poster[t].pc = "select"
  /\ Len(queue[e]) < Capacity
  /\ queue' = [queue EXCEPT ![e] = Append(@, poster[t].msg)]
  /\ poster' = [poster EXCEPT ![t] = Resting]
  /\ UNCHANGED <<epoch, inbox, outbox, begun, process, hub, backlog, sender, remote, doubted>>

\* ... or <-h.ctx.Done(), or the poster's own context ends.  A failing Replay
\* ends New, which closes what it had started.
Withdraw(t) ==
  /\ poster[t].pc = "select"
  /\ poster' = [poster EXCEPT ![t] = Resting]
  /\ hub' = [hub EXCEPT !.pending = @ - 1, !.sealed = @ \/ t = Starter]
  /\ backlog' = IF t = Starter THEN {} ELSE backlog
  /\ UNCHANGED <<epoch, inbox, outbox, begun, process, queue, sender, remote, doubted>>

Released_Deaf(t) == FALSE
Released(t) == hub.cancelled /\ Withdraw(t)

-----------------------------------------------------------------------------
(* Sending                                                                 *)

\* work: the select is unfair between a cancelled context and a message.
Receive(e) ==
  /\ process = "up"
  /\ sender[e].pc = "idle"
  /\ queue[e] # <<>>
  /\ queue' = [queue EXCEPT ![e] = Tail(@)]
  /\ sender' = [sender EXCEPT ![e] = [Waiting EXCEPT !.pc = "claim", !.msg = Head(queue[e])]]
  /\ UNCHANGED <<epoch, inbox, outbox, begun, process, hub, backlog, poster, remote, doubted>>

HubLeave(e) ==
  /\ sender[e].pc = "idle"
  /\ hub.cancelled
  /\ sender' = [sender EXCEPT ![e].pc = "exited"]
  /\ UNCHANGED <<epoch, inbox, outbox, begun, process, hub, backlog, queue, poster, remote, doubted>>

\* send: Journal.Move pending -> sending; without it nothing is sent.
Claim(e) ==
  LET i == sender[e].msg.id IN
  /\ sender[e].pc = "claim"
  /\ MoveOutbox(i, "pending", "sending")
  /\ \/ sender' = [sender EXCEPT ![e].pc = "send"]
     \/ Faulty /\ sender' = [sender EXCEPT ![e].pc = "finish"]
  /\ doubted' = doubted \ {i}
  /\ UNCHANGED <<process, hub, backlog, queue, poster, remote>>

\* The entry is not pending, h.ctx is cancelled, or the file cannot be written.
Unclaimed(e) ==
  /\ sender[e].pc = "claim"
  /\ Faulty \/ hub.cancelled \/ outbox[sender[e].msg.id].state # "pending"
  /\ sender' = [sender EXCEPT ![e].pc = "finish"]
  /\ UNCHANGED <<epoch, inbox, outbox, begun, process, hub, backlog, queue, poster, remote, doubted>>

\* The answers of Outlet.Send: a receipt; an error that leaves the outcome open
\* (a lost reply, a missing receipt, a timeout); RejectedError; TerminalError;
\* a panic.
Answers == {"receipt", "lost", "rejected", "terminal", "panic"}

\* What send makes of the answer to its n-th attempt (from 0).

Verdict_Optimist(answer, n) ==
  CASE answer = "receipt"  -> "delivered"
    [] answer \in {"terminal", "panic", "lost"} -> "dropped"
    [] OTHER -> IF hub.cancelled \/ n = Retries THEN "unknown" ELSE "retry"

Verdict(answer, n) ==
  CASE answer = "receipt"                 -> "delivered"
    [] answer = "panic"                   -> "unknown"
    [] answer = "lost" /\ ~Idempotent     -> "unknown"
    [] answer = "terminal"                -> "dropped"
    [] OTHER -> IF hub.cancelled \/ n = Retries THEN "unknown" ELSE "retry"

\* What may have happened on the platform for each answer.
Arrived(answer) == CASE answer = "receipt"               -> {TRUE}
                     [] answer \in {"lost", "panic"}     -> BOOLEAN
                     [] OTHER                            -> {FALSE}

Attempt(e, answer) ==
  LET i == sender[e].msg.id
      verdict == Verdict(answer, sender[e].attempt) IN
  /\ sender[e].pc = "send"
  /\ \E arrived \in Arrived(answer) :
       remote' = IF arrived /\ ~(Idempotent /\ remote[i] = 1)
                 THEN [remote EXCEPT ![i] = @ + 1] ELSE remote
  /\ sender' = [sender EXCEPT ![e] = IF verdict = "retry"
                                     THEN [@ EXCEPT !.pc = "backoff"]
                                     ELSE [@ EXCEPT !.pc = "record", !.outcome = verdict]]
  /\ doubted' = IF answer = "lost" /\ verdict = "retry" THEN doubted \cup {i} ELSE doubted
  /\ UNCHANGED <<epoch, inbox, outbox, begun, process, hub, backlog, queue, poster>>

\* The timer fires.
Retry(e) ==
  /\ sender[e].pc = "backoff"
  /\ sender' = [sender EXCEPT ![e].pc = "send", ![e].attempt = @ + 1]
  /\ UNCHANGED <<epoch, inbox, outbox, begun, process, hub, backlog, queue, poster, remote, doubted>>

\* h.ctx ends first: the deferred record is still written.
Interrupt(e) ==
  /\ sender[e].pc = "backoff"
  /\ hub.cancelled
  /\ sender' = [sender EXCEPT ![e].pc = "record", ![e].outcome = "unknown"]
  /\ UNCHANGED <<epoch, inbox, outbox, begun, process, hub, backlog, queue, poster, remote, doubted>>

\* The deferred Journal.Move sending -> outcome, under a context of its own; it
\* may fail before or after the write, and is not tried again.
Record(e, written) ==
  /\ sender[e].pc = "record"
  /\ IF written
     THEN MoveOutbox(sender[e].msg.id, "sending", sender[e].outcome)
     ELSE Faulty /\ UNCHANGED ledger
  /\ sender' = [sender EXCEPT ![e].pc = "finish"]
  /\ UNCHANGED <<process, hub, backlog, queue, poster, remote, doubted>>

\* h.finish
Finish(e) ==
  /\ sender[e].pc = "finish"
  /\ hub' = [hub EXCEPT !.pending = @ - 1]
  /\ sender' = [sender EXCEPT ![e] = Waiting]
  /\ UNCHANGED <<epoch, inbox, outbox, begun, process, backlog, queue, poster, remote, doubted>>

-----------------------------------------------------------------------------
(* Close, crash, restart                                                   *)

\* Close is called once New has returned.
Seal ==
  /\ process = "up"
  /\ ~hub.sealed
  /\ backlog = {} /\ poster[Starter].pc = "idle"
  /\ hub' = [hub EXCEPT !.sealed = TRUE]
  /\ UNCHANGED <<epoch, inbox, outbox, begun, process, backlog, queue, poster, sender, remote, doubted>>

\* WaitIdle returns because nothing is pending, or (hasty) because the context
\* of some Close ended; h.cancel().
CancelWorkers(hasty) ==
  /\ process = "up"
  /\ hub.sealed /\ ~hub.cancelled
  /\ hasty \/ hub.pending = 0
  /\ hub' = [hub EXCEPT !.cancelled = TRUE]
  /\ UNCHANGED <<epoch, inbox, outbox, begun, process, backlog, queue, poster, sender, remote, doubted>>

\* posts.Wait, wg.Wait, then the cancelled queues are emptied and accounted for.
Reclaim ==
  /\ process = "up"
  /\ hub.cancelled /\ ~hub.done
  /\ \A t \in Posters : poster[t].pc # "select"
  /\ \A e \in Outlets : sender[e].pc = "exited"
  /\ hub' = [hub EXCEPT !.done = TRUE,
                        !.pending = @ - Queued]
  /\ queue' = [e \in Outlets |-> <<>>]
  /\ UNCHANGED <<epoch, inbox, outbox, begun, process, backlog, poster, sender, remote, doubted>>

\* The end of the process: after Close, the journal is released; or it dies.
Exit ==
  /\ process = "up"
  /\ hub.done
  /\ process' = "down"
  /\ NewMemory /\ backlog' = {}
  /\ UNCHANGED <<epoch, inbox, outbox, begun, remote, doubted>>

HubCrash ==
  /\ process \in {"up", "operator"}
  /\ process' = "down"
  /\ NewMemory /\ backlog' = {}
  /\ UNCHANGED <<epoch, inbox, outbox, begun, remote, doubted>>

\* journal.Open, then Replay's list of the pending results.
Start ==
  /\ process = "down"
  /\ epoch < MaxOpens
  /\ Reopen
  /\ process' = "up"
  /\ backlog' = {i \in Ids : outbox'[i].state = "pending"}
  /\ UNCHANGED <<hub, queue, poster, sender, remote, doubted>>

\* cmd/gopherharness-gateway --reconcile opens the same journal and decides.
Reconcile ==
  /\ process = "down"
  /\ epoch < MaxOpens
  /\ Reopen
  /\ process' = "operator"
  /\ UNCHANGED <<hub, backlog, queue, poster, sender, remote, doubted>>

\* The operator has looked at the platform (Resolution.Evidence is required).
Honest(i, decision) == /\ decision = "delivered"          => remote[i] > 0
                       /\ decision = "confirmed_not_sent" => remote[i] = 0

Decide(i, decision) ==
  /\ process = "operator"
  /\ Honest(i, decision)
  /\ ResolveOutbox(i, decision)
  /\ process' = "down"
  /\ UNCHANGED <<hub, backlog, queue, poster, sender, remote, doubted>>

-----------------------------------------------------------------------------
Posting(t) == \/ Reread(t) \/ HubAdmit(t) \/ Enqueue(t) \/ Released(t)

Working(e) ==
  \/ Receive(e) \/ HubLeave(e) \/ Claim(e) \/ Unclaimed(e)
  \/ \E answer \in Answers : Attempt(e, answer)
  \/ Retry(e) \/ Interrupt(e)
  \/ \E written \in BOOLEAN : Record(e, written)
  \/ Finish(e)

HubNext ==
  \/ \E t \in Posters : \/ \E m \in Message, ok \in BOOLEAN : m.id \in Notices /\ Store(t, m, ok)
                        \/ Posting(t) \/ Withdraw(t)
  \/ \E i \in Ids : Replay(i)
  \/ \E e \in Outlets : Working(e)
  \/ Seal \/ \E hasty \in BOOLEAN : CancelWorkers(hasty)
  \/ Reclaim \/ Exit \/ HubCrash \/ Start \/ Reconcile
  \/ \E i \in Ids, decision \in Decisions : Decide(i, decision)

HubSpec == HubInit /\ [][HubNext]_hubVars

\* A goroutine that can run does run; Outlet.Send answers within h.timeout, and
\* a transaction on the journal ends.  Nothing makes a context end, a process
\* die or an operator act.
Fairness ==
  /\ \A t \in Posters : WF_hubVars(Posting(t))
  /\ \A e \in Outlets : WF_hubVars(Working(e))
  /\ WF_hubVars(\E i \in Ids : Replay(i))
  /\ WF_hubVars(CancelWorkers(FALSE))
  /\ WF_hubVars(Reclaim)

FairSpec == HubSpec /\ Fairness

-----------------------------------------------------------------------------
(* Properties                                                              *)

\* hub.go:30 "Only these errors or an explicitly idempotent outlet may be
\* retried": the chat never sees a result twice, over retries, repeated posts,
\* crashes, replays and honest reconciliations.
ShownOnce == \A i \in Ids : remote[i] <= 1

\* hub.go:30 "a generic network error has an unknown external outcome": so a
\* result is called dropped, which no reconciliation looks at again, only if the
\* platform does not have it.  It does not hold of an outlet that deduplicates.
DroppedIsTrue == \A i \in Ids : outbox[i].state = "dropped" => remote[i] = 0

\* hub.go:168-217: what the ledger says of the platform is true, with
\* deduplication or without: a delivered result is there, a result still owed is
\* not, and a dropped one is not either, but for the one case in which the code
\* forgets a doubt of its own: a deduplicating outlet was asked again after a try
\* that left the outcome open, and a later try failed for good.
LedgerIsTrue ==
  /\ \A i \in Ids :
       /\ outbox[i].state = "delivered" => remote[i] > 0
       /\ outbox[i].state \in {"absent", "pending"} => remote[i] = 0
       /\ outbox[i].state = "dropped" => remote[i] = 0 \/ (Idempotent /\ i \in doubted)
  /\ ShownOnce

(* Liveness *)

\* hub.go:244: Close ends, whatever is queued, blocked or backing off when it
\* is called.
CloseEnds == hub.sealed ~> (hub.done \/ process # "up")

=============================================================================
