# A TLA+ model of gopherharness

This directory specifies the part of the repository that must stay correct
when processes crash, callers time out, files fail and goroutines interleave:

* the road of a request: journal, scheduler, delivery hub and gateway;
* the turn: its loop, its tool batches with their approvals, the context it is
  given and the model calls it pays for;
* what outlives a turn: sessions, the memory outbox, background workers and the
  summaries of their results;
* the evolver that proposes patches to the program, and the pointer that
  activates one.

Paths below are relative to `src/internal` unless they start otherwise.

## The system

A platform event enters through the Feishu adapter and becomes a
`gateway.Event`.  `Gateway.publish` records it in the journal's inbox, claims it
(pending -> running) and submits it to the scheduler, which serves each
conversation in a lane of its own.  A goroutine per request waits for the
turn's result, records completion and the reply in one journal transaction and
posts the reply to the delivery hub, whose worker claims it (pending ->
sending), calls the outlet and records what came of it.  On the next start
`journal.Open` turns interrupted work into questions for an operator
(running -> needs_reconcile, sending -> unknown) and `Gateway.Replay` takes up
what is still pending.  The reconcile command records the operator's answers.

A turn (`Agent.Ask`) loops: it ingests results of background workers, builds a
prompt, asks the model, and runs the batch of tools the model wants or accepts
its answer.  The prompt is assembled within a token budget from fixed material,
a working state and whole groups of history, which a model loop (the curator)
may choose.  A batch is taken in groups; a risky call needs a record in the
approval store, which is created, decided, claimed and finished in four separate
transactions around the dispatch.  With asynchronous approvals (`AsyncApproval`)
the batch is frozen in a continuation file, pauses at a call that needs a decision,
and is resumed through `ResumeApproval`, in this process or after a restart.
Without them a turn can still end in a pause: a tool panicked, a receipt could not
be stored, or an approval had changed when it was claimed.

Every physical model call, whoever makes it (turns, workers, the curator), goes
through `Budgeted.run`: it reserves its worst case in a file that processes
share, marks itself as leaving, calls, and settles from the usage reported.  A
lease per attempt tells recovery and operators whether the call is still alive.
`Resilient` retries and falls back around it, one reservation per try.

An answer is committed in an order of writes (memory job, session, report) whose
every gap a crash can hit.  The memory outbox then derives facts from completed
turns, by writers of several processes.  A session is owned by one process at a
time; the file's fence refuses whoever lost it.  Background workers run beside
the turns of their session and leave receipts; a turn ingests them, or, when
none runs, a dispatcher has them summarised and hands the summary to the
channel's outbox.

### Inventory

| Part | State | Operations | What is hard | What makes it correct |
| --- | --- | --- | --- | --- |
| `journal` | epoch, entries (inbox, outbox), owner lease, `closed` | Open, Put, Move, Complete, Resolve, List, Get, Close | crash between any two transactions, a successor process, mutations in flight during Close, writes that fail after the rename | result recorded with its request; a send repeated only on an operator's word; outcomes final; only the owner writes |
| `durable` | files and locks | transaction, Lease, Replace | atomic rename, sync errors | a transaction happens wholly or not at all |
| `scheduler` | lanes (queue, inbox, active, running, paused), two pools of slots, handles | Submit, worker loop, drain, Cancel, CancelConversation, Seal, Close | submissions racing with the worker's exit, priorities, cancellation while waiting for a slot | serial lanes, no handle lost or finished twice, bounds, order, pause, termination of Close |
| `delivery` | endpoints' queues, pending/idle, sealed, context | Post, PostDurable, worker, retries, Close | lost answers, duplicated posts, blocked posters, closing with a deadline | shown once, truthful record, termination |
| `gateway`, `gatewayapp` | g.mu, seen, slots, contexts, waiting goroutines | Publish, Replay, Close, Start, Reconcile | every error path of publish, redelivered events, order of shutdown, restart | at most one run, at most one answer, licensed sends, slots, orderly close |
| `permission`, `runtime/tool_approval.go` | approval records | create, decide, claim, finish | several processes on one file, expiry, withdrawal, repeated reports | one claim per identity, for the approved action only, outcomes final |
| `runtime`: batches and continuation | continuation file, session messages, approval records, memory of the process | executeToolBatch, authorizeTool, executeTool, ResumeApproval, recoverBufferedResults, New | a crash, cancellation or failed write between any two of claim, dispatch, receipt, journal, session, advance; files edited while frozen | single dispatch, results once and in order, honest results, resumable, ends |
| `runtime`: the turn | task state, loop guard, ledger, session file | Ask, executeToolBatch without approvals, closeInterruptedExchanges, ResetSession, New | refusals, invalid output, overflows and failing tools in any order; edits after a check; cancellation, a pause or a panic within a batch | tool budget, readiness, closed exchanges, termination |
| `store`, `runtime`: sessions | session file with revision and epoch, owner lease, report | New, Ask's commit, Close, New again | the read before the claim, crash between any two writes, a stale owner | answers are never lost or overwritten; a stale owner writes nothing |
| `memory/outbox.go`, `memory/backend.go` | jobs, fact file, writers, flush lease | Prepare, Flush, Retry, Merge, Close | merges recorded in one file and jobs in another, crashes, failing extractions, several writers | only completed turns, once each, one fact per attribute, every job worked off |
| `worker` | manager, slots, goroutines, receipts, hourly admissions, owner lease | Spawn, run, Send, Stop, Seal, Close, NewDurable | stop, seal and crash against a returning runner; a successor's recovery | capacity exact, stop final, receipts end once, Close returns |
| `runtime`: worker results and summaries | session messages, acknowledgements, summary file, intents, notification state | ingestion, dispatch, run, handoff, replay, CancelConversation, Close | two dispatchers and a replay, revocation between any two steps, writes by contexts that ended | in the session once, handed over once, never after revocation |
| `provider/budget.go` | attempts (reserved, sending, unknown, settled, released) in a shared file, a lease per attempt | reserve, sending, unsent, settlement, OpenBudget/Recover, Reconcile | calls of several processes, a crash or failed write around the call, bills by another model or beyond the window | a call that left is never free; bills within the limit; live calls left alone; charged once |
| `provider/policy.go` | the try of a request | call, Stream, ChatStream | errors joined from the call and its bookkeeping, fragments already given out | one voice per request, nothing answered is asked again |
| `contextbuilder` | groups of history, working state, scores, archives | BuildChecked, the curator's loop, its store | several files written one after another, fallbacks at any point, a plan accepted halfway | prompts that fit and hold what is protected; references that are backed |
| `maintenance` | evolution record, worktrees, patch files, `active.json` | Run, measuring, Activate, Rollback, ResolveActiveRoot | failed writes around counted verifiers, spoiled worktrees, files git ignores, a pointer that moves under a launcher | recorded evidence was measured; what is launched is what was validated |
| `workspace`, `mcpbridge`, `tools`, `sandbox`, `app`, `config`, `tui`, `evaluation`, `tracing`, `redact` | | | | not modelled, see below |

PROJECT.json lists every component, the ones left out with the reason, and the
hazards with the properties that watch them.

## Modules

| Module | Models | Uses |
| --- | --- | --- |
| `Ledger` | `journal.go`: entries and the transactions on them. One action per closure run by `mutate`; unprimed conjuncts are its checks | |
| `Journal` | ownership: lease, epochs, admitted mutations, Close, crash, over the most general client | extends `Ledger` |
| `Scheduler` | `scheduler.go`: every section under `s.mu` and every step of a worker outside it | |
| `Delivery` | `hub.go`, `durable.go`: posters, workers, Close, over the ledger, with the platform's copies (`remote`) | extends `Ledger` |
| `Promise` | abstract: one request is run at most once, answered at most once, and its answer sent only under a licence | |
| `Gateway` | `gateway.go`, `reconcile.go`, `server.go`: composition over the ledger; implements `Promise` | extends `Ledger` |
| `Approvals` | `permission/store.go`: one action per transaction, open to any callers | |
| `Batch` | `tool_batch.go`, `tool_approval.go`, `approval_continuation.go`, `recovery.go` and the parts of `engine.go` and `agent.go` they use | instantiates `Approvals` as `Store` |
| `Turn` | `engine.go`, `loop_guard.go`, the readiness gate of `governance`, batches without asynchronous approvals | |
| `Outbox` | `memory/outbox.go` and the fact file of `memory/backend.go` | |
| `Sessions` | `store.go`, opening and closing of `agent.go`, the commit of `engine.go` | instantiates `Outbox` |
| `Receipts` | abstract: a worker's receipt ends once and nothing is taken back; also the transactions of `worker/results.go` | |
| `ReceiptFile` | the file of receipts as its writers see it, whose transactions may fail | instantiates `Receipts` as `File` |
| `Workers` | `worker/manager.go`; implements `Receipts` | extends `ReceiptFile` |
| `Summaries` | `worker_results.go`, `service_workers.go`, `worker_summary_store.go`, `service_summary_recovery.go`, `service.go` over the promise of `Receipts` | extends `ReceiptFile` |
| `Budget` | `provider/budget.go`: one action per file transaction and for the call itself | |
| `Resilient` | `provider/policy.go`: requests with retries, fallbacks and streams over the account | extends `Budget` |
| `Curator` | `builder.go`, `curator.go`, `curator_loop.go`, `curator_store.go` | |
| `Evolver` | `evolve.go`, `activation.go` | |
| `JournalProofs`, `ApprovalsProofs`, `ResilientProofs`, `WorkersProofs`, `SchedulerProofs`, `TurnProofs`, `BatchProofs`, `GatewayProofs` | theorems about the modules they are named for | those modules and `TLAPS`; also `Delivery` (`JournalProofs`), `Evolver` (`ResilientProofs`), `Summaries` (`WorkersProofs`), `Sessions` (`SchedulerProofs`) and `Curator` (`TurnProofs`) |
| `MC*` | constants of the runs | |

How state corresponds to the code: `Ledger.inbox` and `outbox` are the entries
of `journal.State` by kind (the reply to request `r` has id `r`, a result
without request has an id in `Notices`); `begun` is a history variable.
`Scheduler.lanes` is `s.lanes` with an absent lane as `EmptyLane`, `worker[w]`
a goroutine of `work` with its place in the loop, `ended` the cancelled
contexts, `result` the handles.  `Delivery.hub` holds `sealed`, `h.ctx` and
`pending`; `doubted` is history: what was tried again after a try in doubt; `poster` and `sender` are the goroutines inside Post and work.
`Gateway.pub` is the publication that holds `g.mu`; `waiter` and `job` are the
goroutine and the turn of each request; `setup` is the configuration of an
instance (slots, whether journal writes may fail), which never changes, so that
one run covers several.  `Approvals.rec` is the approval file; `claims`,
`granted` and `consent` are history.  In `Batch`, `cont` is the continuation
file, `disk` the tool results in the saved session, `file` the version of the
target file, and `ag` the process: where it is in the batch, its copy `c` of the
continuation, the results `mem` in `a.Session.Messages`, and whether its context
is cancelled; `ask` is the approval policy (wait for the control plane, or decide at
once), while `AsyncApproval` is on throughout; `count.parted` and `count.cut` are
history.  One process acts at a time: `a.mu`, the turn lease and the
session's fence serialise the turns of a session.

`Turn.ledger` is `a.Session.Messages`, reduced to what `ValidateClosure` can tell
of it, `saved` the same on disk; `task` and `guard` are `TaskState` and
`loopGuard`; `frozen` says that the session has an active continuation; `dirty` (an
edit that a tool reported has not been verified), `hidden` (nor a change that no
tool reported) and `cut` are history.  In `Sessions`, `disk` is the session
file (revision, epoch, messages by turn), `owner` its owner lease, `agent[p]` the
`Agent` of a process with the place it has reached in New, Ask or Close;
`Outbox.job` is `WriteState.Jobs`, `facts` the fact file as the order in which
turns were merged into it (`Merged`, `Active` and `Held` derive its content),
`writer` the goroutine of each process's `Writer`, `flusher` its `.worker` lease.
`Workers.worker[w]` is a `Worker` with the place of `run(w)`, `manager` and `slots`
the `Manager` of each process; `stopped` is history.  `Summaries.carrier` are the
goroutines in `dispatchWorkerSummary` and the replay, `lane` the turn the
conversation's lane runs, `request` the scheduler's answer for each summary,
`note` the notification state under `Service.mu`, `summary` the summary file;
`told` is history.

`Budget.attempts` is the account's file, `caller[i]` the goroutine in
`Budgeted.run` that holds attempt `i` and its lease, `process` what `Recover`
still has to visit; `sent` is history: what the provider bills, and whether that
is within the price, window and output of the call.  `Resilient.req` is the frame
of `Resilient.call`: its try, its attempt, what its caller heard.
`Curator.hist` is the history a build is given as groups with their sizes (a text
provider's ends in the request, a native one's does not, `curator.go:98`), `files` the curator's
directory, `call` the build under way, `standing` history.  `Evolver.disk` is
`evolution.json`, `ev` the evolver with its record in memory, `tree`, `patch` and
`valid` the contents of worktrees and patch files as git tells them, `ignored` the
worktrees with files that git ignores, `ptr` is `active.json`, `op`
and `look` an operator under the lock and a launcher; `ran` and `launched` are
history.

Operators whose names end in an underscore and a word (`Interrupted_Resend`,
`Starts_Again`, ...) are seeded faults.  No specification uses them: each is a
plausible wrong version of the operator it precedes, and is put in its place to
show that a property notices.

### Abstractions

* Events and messages are members of `Payloads`; texts, traces, timestamps and
  routes are left out. `Delivery` keeps the message with the queue entry so as
  to show that what is sent is what was recorded.
* A durable transaction is one action. Where `Faulty` holds (and in `Journal`,
  where any admitted call may fail) it may fail without a write, or report an
  error after the write, as `durable.Replace` does when only the directory sync
  fails.  Modules with a budget of troubles (`Batch`, `Turn`, `Sessions`,
  `Evolver`) let any write fail, as often as the bound allows.
* In `Gateway`, the scheduler and the hub appear by what the gateway can see of
  them (turn states; a set of queued replies and one send), since `Scheduler`
  and `Delivery` model them in full.  In `Summaries` the manager of workers
  appears by the promise of `Receipts`, which `Workers` is shown to keep.
* The hub's backoff, the send timeout and the delays between tries are steps
  that happen; their length is left out.
* In `Batch` a digest is the version of the target file for calls that freeze
  content, and one fixed value for the others: arguments and definition of a
  call in the frozen batch do not change (a changed definition is a refusal at
  dispatch).  `stale` says that a session write reported an error after it took
  effect: the process's revision then never matches again, and only a restart
  continues the session.  The task state, the loop guard and the step limit are
  in `Turn`, which in turn leaves the continuation to `Batch`.
* In `Turn` a tool may change files without saying so: an edit that fails after its
  rename, or a shell command.  Only an edit that succeeds, or whose result a
  cancellation hides, names its paths.  A batch frozen in a session is resumed in
  `Batch`; `Turn` refuses turns of that session until it is reset.
* In `Turn` a message is what closure checking tells of it, and a prompt is
  built when the ledger is closed; what the model says is any of the answers the
  code distinguishes.
* In `Sessions` a turn is one exchange; facts are about one attribute of one
  subject, and what each turn teaches is a constant (`Learned`).
* In `Budget`, token prices and counts are small numbers and `Million` is the
  unit they are rounded by; a complete answer is taken to name the model that
  billed; int64 overflow is left out.  What the operator confirms is taken for
  the bill.  In `Resilient` an error is the set of causes joined in it.
* In `Curator` a group is its size and its place, token counts are additive, and
  what the model proposes is any action with any of its arguments.
* In `Evolver` a worktree is compared as the code compares it: by `git diff HEAD` and,
  once validated, `git ls-files --others --exclude-standard` (`evolve.go:464-489`).
  What those see is the base, a patch or spoiled; what they do not is in `ignored`.
  A verifier answers anything; git and the commands are external.
* A rejected call that changes nothing is no action.

## Runs

| Run | Instance | What it shows |
| --- | --- | --- |
| `journal` | 1 request, 1 notice, 2 payloads, 2 owners, 2 calls in flight each, 1 decision per entry | the ledger's invariants and ownership under the most general client |
| `scheduler` | 3 submissions of five kinds, 2 conversations, 3 workers, 1 slot per pool, capacity 2, fair | a lane is serial, holds its pause and loses, repeats or finishes twice nothing; accepted work resolves; Close joins |
| `delivery` | 1 notice, 2 posters and Replay, queue of 1, 1 retry, failing journal, 3 openings, an outlet that deduplicates as the Feishu adapter does, fair | at most one copy on the platform; a record that tells the truth (but for divergence 2); Close ends |
| `gateway` | 2 requests, 1 or 2 slots, working or failing journal, 3 openings, fair | the promise of `Promise`; slots, attendance and orderly close (`Accounted`); settlement; termination |
| `batch` | a write, 2 grouped reads, a plain and a shell call, waiting for decisions or not, 2 crashes, or two troubles that differ, and an edit, fair | single dispatch, consent, results once, in order and honest, an end |
| `turn` | 2 turns, 3 attempts, 3 steps, batches of 1 or 2 calls (reads, an edit after a verification, a shell command), soft and strict readiness, 2 events, fair | the tool budget, strict readiness for what tools report, closed exchanges, an end |
| `sessions` | 2 turns, 2 processes, 2 events, facts that contradict, fair | answers stay, only completed turns are remembered, once and with one fact; accepted turns are worked off |
| `workers` | 2 processes, 2 workers, 1 slot, 1 admission an hour, failing writes, fair | capacity, stops, the promise of `Receipts`, termination of Close |
| `summaries` | 1 result, 2 dispatchers and a replay, 1 crash, 1 cancellation, failing writes | in the session once and before its acknowledgement; handed over once and never after revocation |
| `budget` | 2 processes, 2 requests with a fallback each, 3 attempts, 2 priced models and one without a price, failing writes | no call is free, the bills stay within the limit, attempts are guarded, a request speaks with one voice |
| `curator` | text and native builds over histories of up to 3 groups, 3 curator steps, failing files | prompts that fit, hold what is protected and carry the accepted state; archives behind references |
| `evolver` | 2 candidates, 2 train and 2 held-out cases, 8 verifier runs, 1 earlier run, 3 versions of the pointer, 1 trouble | recorded evidence was measured; what is launched was validated, as far as git tells |

Why these bounds: the hazards need two actors on one entry and a third event
between their steps (two owners or openings plus the operator's; two posters of
one id; a lane with an active turn, an injection and a queued turn).  Three
openings allow start, crash, reconciliation and a start that takes up the
decision.  One request and one notice suffice in `journal` because no
transaction but Open touches two entries.  The three submissions of `scheduler`
are any of `Mixed`: every busy policy, an approval, a background turn and a
second conversation, so that a lane with a pause and two waiting requests, and
two lanes on one slot, both happen.  A batch needs one call of every kind, in an
order in which each can follow a crash or pause of another; `Troubles` are two
crashes (recovery itself is interrupted) or two different troubles (but a panic and a
cancellation, each of which ends the turn), and the edit makes an approval stale.  The
reads follow a call with an approval, whose resumption can run a stopped group again.  `turn` has two turns because what a cut turn leaves is
met by the next one, and a batch whose edit only a later batch can check.
`sessions` needs a process that reads before the other one closes, and two
turns whose facts would supersede each other in either order.  The limit of
`budget` admits two of three attempts, so the third is admitted only by what the
others give back, and the fallback is too dear beside a held attempt; the dearest
rate is that of cache writes, so that a reservation at any other rate would be too
small.  `curator` scales the code's margins (messages protected at the head,
favoured at the tail) down to groups of one or two messages; two long requests at
the head exceed the budget, so that a refusal happens.  `evolver` has verifier
runs for the baseline, two candidates in training and the held-out cases of the
winner (2 + 2 * 2 + 2), and a proposal that edits the tests.

CHECK_DEADLOCK is off where the system may stop: all bounded openings, turns or
attempts are used up, everything is closed, or the one batch is done.

### Fairness

Weak fairness of a goroutine's next step: the Go scheduler runs a runnable
goroutine; turns, tools, model calls and sends end because each runs under a
timeout and observes its context.  Nothing makes a caller submit, a context end,
a process die or an operator decide.

* `workers`: a runner returns once its context was cancelled, which Close does;
  a runner that is not cancelled may run for ever.
* `turn`: the whole of one turn is one thread, so that fairness of its steps is
  one condition.
* `sessions`: the goroutines of the writers, and the time until a failed job is
  due.  `AcceptedRemembered` holds while some process serves the scope.
* `batch` asks whether a batch whose approvals are answered ends: there a control
  plane refuses an approval it can answer again and again (strong fairness of
  that one command, because other commands, refused or useless, may come
  between).  A disturbed batch (a crash, a failed write, a cancellation) need not
  end by itself.

### Known divergences

Where the code does less than its documents or comments say, the properties of the
runs are stated around the gap, as narrowly as it allows.  Divergences 2, 4, 5, 6, 13
and 14 also have the property that the document or comment asks for stated in the
module, as the definition named there: no run checks it, and TLC refutes it when it
is added to the INVARIANTS (the last, to the PROPERTIES) of the component's cfg.

1. An approval that was accepted can wait for ever (`scheduler/scheduler.go:183`).
   It can be submitted before the turn whose action it is about has returned; an
   interrupt accepted after it goes to the head of the queue; the turn returns its
   pause, and the worker, finding a head that is no approval, leaves the paused
   lane.  A further approval, a cancellation or Seal gets it moving.
   `docs/REQUEST_FLOW.md:74-77` has the decision resume the conversation.
   `AcceptedResolves` therefore excludes a lane that is paused.
2. On an outlet that deduplicates (the only one in the program,
   `feishu/adapter.go:351`), a lost answer is retried; if the retry fails terminally
   the entry is recorded as dropped although the first try may be on the platform
   (`delivery/hub.go:205-217`), while `hub.go:30` has such an outcome unknown:
   `DroppedIsTrue`.  `LedgerIsTrue` excepts a dropped entry in `doubted`.
3. The continuation is saved as active before the first call.  A crash before the
   first approval record exists leaves a session that refuses every ordinary turn
   and that nothing can resume, since resuming takes the id of an approval
   (`runtime/approval_continuation.go:82`).  `BatchEnds` excepts crashes.
4. Results can enter the session twice.  When the journal of a result cannot be
   written, the result stays in the process's memory; a resumption in the same
   process saves it and then replays the call's receipt.  And when a read of a group
   panics after others of the group had their results, these are in memory only, and
   a resumption in that process (it takes an approval answered before) runs the group
   again and saves two results of one call, without any failed write
   (`runtime/tool_batch.go:106`, against `approval_continuation.go:272`):
   `HeardOnce`.  `LedgerIsHonest` promises the order unless `count.parted`.
5. A turn cancelled between two groups of a batch leaves calls without results
   (`runtime/tool_batch.go:153`), although the comment at `provider/chat.go:34`
   says that a cancelled batch must be closed with explicit results:
   `CancelledIsClosed`.  A pause and a failed write leave them too.  Only the next
   opening of the session repairs it.  `ClosedUnlessCut` lets such a batch lack the
   results of the group at hand and of later ones.
6. A turn cancelled while a tool finishes overwrites the result with "cancelled"
   although the receipt says that the action completed (`runtime/tool_batch.go:77`);
   `docs/REQUEST_FLOW.md:87` has the receipt's result returned: `ReceiptShown`.
   `LedgerIsHonest` admits "cancelled" only for a call that was being run when a
   turn was cancelled.
7. A take-back that fails after a refused Submit leaves the entry running until
   the next start; and a start fails while a pending request's sender is no
   longer allowed (`gatewayapp/server.go:88`).
8. CancelConversation of a conversation that is not loaded does not reach its
   worker receipts (`runtime/service_workers.go:196`), while
   `docs/REQUEST_FLOW.md:102` has cancellation revoke what was not handed over.
   Two runs of one summary may store two texts under one id; the text handed over
   is the one stored first.
9. A report whose write fails after the rename makes Ask return an error for a turn
   that session, report and memory hold as completed.
10. Facts of the same authority supersede each other in the order of the merges: a
    turn whose extraction is retried may supersede a later one;
    `docs/GO_REWRITE_STATUS.md:25` speaks of the order of commits.
11. A working state that the curator cleared is shown once more, because the prompt
    under construction keeps the state it began with.
12. An error while a candidate's files are measured (git, a cancellation) is recorded
    as a rejected candidate, although `maintenance/evolve.go:425` keeps
    cancellation apart from failure; an error after the status "validating" was
    written leaves it on disk; and a rollback is refused when the last entry of the
    pointer's history has become invalid, although an older one is not.
13. The readiness gate knows only what tools report.  An edit that fails after its
    rename (`workspace/files.go:275`) and a shell command name no path, so an earlier
    verification stands (`runtime/tool_batch.go:173`) and the strict mode lets the
    answer out, while `README.md:191` has it keep back unverified changes of the
    workspace: `UnverifiedIsHeld`.  `VerifiedAnswer` is about reported edits.
14. A validated worktree to which a file was added that git ignores is launched
    (`maintenance/evolve.go:464`), while `maintenance/activation.go:186` and
    `docs/MAINTENANCE.md:46` have any later change prevent it: `LaunchedUnchanged`.
    `LaunchedTested` and the measurements behind `EvidenceHolds` are as git tells.

## Proofs

Every safety property of every run is also a theorem, and rests on the
assumption its component makes about the constants and on nothing else.  Where a
component is built on another, or sits beside it, its proof stands in the other's
module, which extends both; what both would call `Init`, `Next` or `Crash` bears the
component's name there (`HubInit` of `Delivery`, `ENext` of `Evolver`).  `Contract`,
`Numbered` and `Taught` are the parts of such an assumption that a proof uses.

`JournalProofs` proves for every set of ids, payloads and owners, and every
number of calls and restarts, the type invariant, the four properties of the
`journal` run, and that settled entries and stored payloads are final
(`SettledStaysFinal`, not a property of the run).  They rest on
`LedgerConstants` and `JournalBounds` only.

The inductive invariant `IInv` adds to the type invariant: at most one object
holds the lease, an object opening or open holds it, an open object's epoch is
the file's (so the epoch test can fail no admitted write of the present owner),
only an open object has admitted calls; requests and replies agree
(`ResultRecorded`, which is inductive beside the types); and the count of
begun deliveries, made exact from `begun <= licences + 1`: none for an absent
reply, as many as licences for a pending one, one more in every other state
(`SendsCounted`).  The bound alone would not survive the step to sending.  One
lemma per transaction shows that it preserves each part, `ApplyInv` collects
them, `StepInv` adds the owner protocol, and the temporal theorems follow with
PTL.

It proves of the delivery hub, for any number of posters, endpoints, retries and
openings, a journal that works or fails, and an outlet with deduplication or without,
that the chat never sees a result twice (`NeverShownTwice`) and `LedgerIsTrue`
(`LedgerStaysTrue`).  Neither says what happens between a worker's claim and its
record.  `HubInv` adds that the entry is `sending` all that time and
the worker knows what the platform holds of it (`Sure`), that no two workers have
one result in flight (`Alone`), and that nobody sends for a process that is down.

`ApprovalsProofs` proves five properties of the approval store for every
set of identities, actions and receipts, from no assumption.  The bound on
claims is not inductive: nothing in it forbids a claimed record from becoming
approved again.  `Coherent` ties the count of claims, the last decision and the
claimed action to the status; each transaction is shown to keep it for its
identity, to keep an outcome once it is final (`Kept`), and to leave the other
identities alone.  `Batch` uses these very actions, so what is proved of the
store holds in it; the store has no run of its own.

`ResilientProofs` proves of the account `NeverFree` and `AttemptsGuarded` for any number of
processes and attempts, any prices and any bills, from `BudgetConstants`.
`Coherent` says what record, caller and history of one attempt have to do with
one another; it is inductive because whoever changes a record holds its lease,
and `OneAttempt` reduces every step to the one attempt it is about.
`WorstCovers` is the arithmetic behind the reservation: whatever the split of a
window's tokens into classes, the cost rounded up is reserved; with it
`BillsCovered` says that only a provider that leaves the price, window or output
of a call can bill more than was held.  `SpendStaysBounded` adds the attempts up.
The sums are folds over sets, recursive functions of which the provers know
nothing; that such a function exists, and that a sum of smaller numbers is smaller,
is shown by a least counterexample: the subsets of a finite set are well founded
(`Minimal`, from the library), and a set has no least subset at which the claim
fails (`FoldExists`, `TogetherTotal`).  With that `SpendBounded` follows from what is
consumed staying within the limit and each bill within what its attempt was charged.

It then proves for any number of requests, clients and retries that
requests only use the account as its specification allows
(`RequestsUseTheAccount`: `RSpec => Spec`, so that what is proved of the account
holds of the composed system that the `budget` run checks), and `OneVoice`.
`OneVoice` is not inductive: that a try which goes on has been heard by nobody
rests on when a fragment can be heard (`Inside`: only while the request's own
attempt is calling), on no two requests being inside one attempt (`Apart`), which
rests on the account (a new attempt is nobody's), and on a recorded answer
staying recorded through recovery and reconciliation (`RecordsStay`).
`FailedFacts` isolates the loop of `Resilient.call`: it goes on only for a cause
that may be retried.

Its last part is the evolver, for any contract that is valid, any number of
candidates and cases, and failed writes and crashes anywhere (`EvidenceStands`,
`OnlyTestedLaunched`).  Neither is inductive: what a finished run recorded says
nothing of the run under way.  `EvoInv` follows one: the executions of the
evaluation under way are the cases in `results`, once each, on one content, or the
tree is spoiled now and will be found so (`Underway`); a candidate accepted in
training passed all the baseline passed and more (`Trained`, `Excels`); the choice
stands on disk before a held-out case is run (`Chosen`, `InOrder`); a run is counted
on disk before it happens (`Metered`); and a record that says ready is the last one
(`Proven`), which is why a digest checked by an operator or a launcher stays that of
a tested candidate (`Pointed`, `Given`).

`SchedulerProofs` proves the safety properties of the `scheduler` run for any
number of conversations, requests and workers and any pools and capacity, from
`SchedulerConstants`.  `SerialLane` is not inductive: `IInv` adds what a worker
and its lane say of each other (`Agree`: the worker's job is the lane's active
turn, a worker in `loop` has none), that a running lane has a worker and no two
workers share one (`Lanes`, `Alone`), that a lane not in the map is empty, and
that every waiting request was accepted and none in an inbox is a plain one,
without which an injection left over could overtake one (`Ordered`).
`PoolsExact` is kept by counting: a step adds or removes one worker from the
holders of one pool.  `NothingLost` needs two more parts.  `PInv` states places
as positions (`Stands`): an open job has exactly one, a finished one has none, an
idle worker holds nothing, and what waits in queue and inbox together is within
`Capacity`, so that leftover injections fit when they move to the queue.
`SInv` says that a job is served only once it has left its lane, and that what
was handed to a turn is held by the worker of that turn.

Of the session that outlives the turns it proves `LedgerGrows` and `AcceptedOnce`,
for any number of processes and turns, anything a turn may teach, and failed writes,
crashes and closes anywhere.  `SessionInv` rests on the fence: an agent whose
revision is the file's has everything the file has (`Abreast`), so that a claim or a save may
replace the file although it was read before the lease was taken.  A turn under way
has a number of its own (`Owned`) and, before its report, its answer on disk and its
job (`OnItsWay`); a report backs the answer for good (`Backed`), and writers derive facts only
from reported turns (`Licensed`).  The facts are a recursive function of the merged
turns; `ListExists` and `FlatExists` show that it is one, by induction on the
numbers as a fact about a set (`Upwards`), and `SoundList` is what each application
of a candidate keeps: one fact that is recalled, resting on something a user asked,
and nothing superseded by what is weaker (`Confirmed` and `FactsJoined` are the two
branches of `applyFacts`).

`WorkersProofs` proves the three safety properties of the `workers` run, for any
number of processes, slots and admissions and for writes that fail on either
side, from `WorkersConstants` (finitely many workers ever started, and two
sentinel values that are no processes).  `IInv` ties the owner lease to the
manager that is open (`Owned`), the place of a goroutine to its record and
receipt (`Phase`: until the report is written the receipt is `queued`), and says
what being told to stop has done so far (`Told`), which is why the outcome of a
runner that ignores the stop cannot win.  `ReceiptsKept` is the refinement
`Spec => File!Spec` that the run checks: `ReceiptStep` maps every action to a
transaction of `Receipts` or to a stutter.

It proves `InSessionOnce` and `HandedRight` of the service that brings the results
to the user, for any number of jobs, summaries, dispatchers, crashes and
cancellations, from `SummariesConstants`.  In `WayInv`,
memory is never behind the saved session while a conversation is loaded, and what
the lane is about to acknowledge is on disk (`OnceIn`), and only a loaded
conversation has dispatchers and requests (`Loaded`): that is what makes a crash
between save and acknowledgement harmless.  `Handing` says that no two carriers hold
one summary, that a carrier close to its sink holds one that is neither noted nor
silenced, and that a noted one is over or about to be settled by who noted it.

`TurnProofs` proves the three safety properties of the `turn` run for every
batch, mode and budget of steps and attempts, from `TurnConstants`.  The bound on
steps is not inductive: `Budgeted` says at every call of a batch that the steps
left cover the calls from there on that are not blocked.  `Answering` says
which calls of the ledger are still without a result (those the batch has not
reached), unless a batch was left by a cancellation, a pause or a failed write;
`Checked` that the task knows of every reported edit no verification followed.

Of the prompt the model is asked with it proves `PromptSound` and `ArchivesBacked`,
for every history, budget, cost and curator, for text builds and native ones.  `ContextInv` adds that a build
keeps what is protected and shows a state that may stand (`Building`), that between
the two writes of a plan the file's state is the plan's (`Standing`), and that the
references in a build's hands are as well backed as those on disk (`RefsBacked`).

`BatchProofs` proves all of the safety of the `batch` run, for every list of
calls, any group limit and any number of crashes, failed writes, cancellations,
edits and resumptions (the bounds of `Within` are never used), from
`BatchConstants`.  It rests on the invariant that `ApprovalsProofs` proves of the
store (`Proved`).  Three invariants are built on each other:

* `IInv`, for `SingleDispatch` and `OnlyApprovedRuns`: a call that has run cannot
  run again whatever of memory, continuation and store survives (`Spent`).  A
  call without receipts cannot, because the continuation on file is past it or
  marks it as executing before it starts (`Past`); a risky one because its claim
  is spent.  `Midway` lists what the process holds between two steps.
* `HInv`, for what the results say: every result in the session, in memory or
  buffered in the continuation is true (`Truth`) and stays true.  The hard case
  is `denied`: it stays true only because a refused, overdue or orphaned claim,
  or one frozen with content that is gone, can never run again (`Shut`).
  `Complete` adds that each call the batch has advanced over has a result, so
  that a restart can tell which calls were interrupted.
* `XInv`, for the order: as long as no write of the continuation has failed and no
  group was stopped after some of its results, the session is the digest frozen in the continuation, with or without the
  buffered results behind it (`Journalled`), and memory is one of the two,
  depending on the step (`Remembered`).  A continuation whose write failed after
  it took effect breaks this alignment, and `LedgerIsHonest` promises the order
  only without it.

`GatewayProofs` proves the safety of the `gateway` run for any number of
requests, slots and restarts, and for a journal that works or fails on either
side of the write, from `LedgerConstants` and `GatewayConstants` (`MaxOpens` is
never used).  The ledger's transactions are first stated entry by entry
(`PutEntry` to `ResolveEntries`), so that the rest of the proof sees only states
and decisions.  None of the three parts of `Accounted` is inductive; `IInv` adds

* `Answered`: a reply exists only for a completed request, has been begun once it
  is past `pending`, and a request not yet claimed was never run;
* `Turns`: a turn that has not begun is the first of its request, holds its claim
  and has a waiting goroutine; it is no longer `queued` once the scheduler is
  sealed, so that a wait cut short by a deadline cannot doubt a request that is
  run afterwards;
* `Published`: between `Claim` and `Submit` the publication owns a claim nobody
  has seen;
* `Shutdown`: the order intake, scheduler, hub, and that a hub sealed without a
  deadline was sealed after everything had joined, so that no reply comes late;
* `Tended`: `Attended` carried through a close until its deadline, which is what
  makes `OrderlyClose` follow;
* `Forgotten`: a process that is down holds nothing.

`PromiseKept` is the refinement of `Promise`.  `PromiseRun` to `PromiseAllow` say
what each step of the promise is in terms of entries; `PromiseStep` then goes
through the actions: opening the file casts doubt on all that was running, the
fault of a turn on its request, `Complete` and `recover_result` answer,
`MoveOutbox` to `sending` sends, `confirmed_not_sent` allows, and every other
action is a stutter.  It uses the invariant twice where a crash matters: a queued
turn has never run, and an entry past `pending` was begun before an operator may
allow it again.

The conditions on the constants that these proofs added are facts of the code: a
batch is a list of calls of known kinds (`BatchConstants`), a program starts
finitely many workers and makes finitely many calls, a host's name is not an absent
one (`WorkersConstants`, `BudgetConstants`), no request is the hub's "nothing is
being sent" (`GatewayConstants`), there are finitely many summaries
(`SummariesConstants`), and what a turn teaches is a list (`SessionsConstants`).
Some definitions were written anew so that they could be reasoned about, with the
same meaning: `Outcome` in `Workers` was a CASE whose arms overlap, which TLC
read in order and the logic does not;
the messages a turn has consumed are a set (`Scheduler`), since only membership
is ever used; the calls a restart finds unanswered (`Batch`) are listed in
order without a filter on sequences; and in `Evolver` the passed cases are counted
as a set, and `Tested` speaks of the executions by their places in the history.

Only model-checked: liveness, since fairness and ENABLED are beyond the proof system
(`AcceptedResolves` and `CloseJoins` of the scheduler, `CloseEnds` of the hub and of
the gateway, `AcceptedIsSettled`, `BatchEnds`, `TurnEnds`, `CloseReturns`,
`AcceptedRemembered`).

## Not modelled

* `workspace`: reads and writes of single files under path locks.  The
  precondition of an approved write is in `Batch`; the file system is external.
* `mcpbridge`: transport and session life cycle belong to the MCP SDK; to the
  runtime a remote tool is a call without receipts.
* `tools`, `sandbox`: process and file I/O behind the tool interface.
* `governance` and `protocol` beyond the readiness decision: pure functions on
  text; likewise BM25 ranking, message shrinking and the skill index of
  `contextbuilder`.
* The HTTP memory backend, and dream consolidation, whose state is in the
  external service.
* The HTTP and event-stream layer of `provider`: a call is answered, cut short or
  refused.  The call ledger (`meter.go`) counts what it loses and nothing depends
  on it.
* The life cycle of the Feishu socket, decryption and media; the gateway
  command's flags.
* `app`, `config`, `tui`, `evaluation`, `tracing`, `redact`: configuration,
  terminal interface, test harness and pure data.
* `durable.ReplaceWithin` and path checks.

## Open ends

Every safety property is proved, so what is left concerns the model: the terminal
and command front ends, and the file and tool layer, would need an external process
or file system as a component; the refusal at `gatewayapp/server.go:88` (divergence
7) is a hazard without a property, because what ends it, a change of the allow list,
is configuration.
