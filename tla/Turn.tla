-------------------------------- MODULE Turn --------------------------------
(***************************************************************************)
(* The loop of one turn (internal/runtime/engine.go) with its guard, its   *)
(* readiness gate and its tool batches, on an agent with a native provider *)
(* and without asynchronous approvals.  A batch such an agent freezes, as  *)
(* its approval has changed, is resumed in Batch.  The report, checkpoint  *)
(* and memory job a turn leaves are in Sessions.                           *)
(*                                                                         *)
(* The ledger is reduced to what ValidateClosure can tell: `open`, the     *)
(* calls of the newest exchange that have no result yet, and `torn`, that  *)
(* another message followed an exchange with results missing.  Calls are   *)
(* named by their position in the batch.                                   *)
(***************************************************************************)
EXTENDS Naturals, Sequences, FiniteSets

CONSTANTS
  Batches,      \* what the model may ask for: sequences of "look", "edit", "check"
                \* (a verification command) and "shell" (any other)
  Modes,        \* the readiness modes an agent may have
  MaxAttempts, MaxSteps,
  Turns,        \* bound: how often Ask is called
  Events        \* bound: late messages, failing writes, cancellations, resets
                \* and restarts together

ASSUME TurnConstants ==
  /\ \A b \in Batches : b \in Seq({"look", "edit", "check", "shell"}) /\ b # <<>>
  /\ Modes \subseteq {"off", "warn", "soft", "strict"}
  /\ {MaxAttempts, MaxSteps} \subseteq Nat \ {0}
  /\ {Turns, Events} \subseteq Nat

VARIABLES
  pc,         \* where the turn is; "idle" between turns
  mode,       \* a.FinalReadiness
  ledger,     \* a.Session.Messages
  saved,      \* the same in the session file
  stale,      \* the fence is not the file's: no save succeeds any more
  task,       \* the TaskState of the turn, and its retries and overflows
  guard,      \* its loopGuard
  batch,      \* the tool batch under way
  cancelled,  \* the turn's context
  outcome,    \* what Ask returned last
  frozen,     \* this session has an active continuation
  dirty,      \* history: no verification passed since a reported edit of this turn
  hidden,     \* history: nor since a change that no tool reported
  cut,        \* history: a batch of this ledger was left before its end
  left        \* what the bounds leave

session == <<ledger, saved, stale, frozen>>
edits   == <<dirty, hidden>>
vars    == <<pc, mode, session, task, guard, batch, cancelled, outcome, edits, cut, left>>

Empty     == [open |-> {}, torn |-> FALSE]
Closed(l) == l = Empty
Say(l)    == IF l.open = {} THEN l ELSE [open |-> {}, torn |-> TRUE]
\* closeInterruptedExchanges
Repair(l) == Empty

NewTask  == [attempts |-> 0, steps |-> 0, changed |-> FALSE, verified |-> FALSE,
             reminded |-> FALSE, retries |-> 0, overflows |-> 0]
NewGuard == [failed |-> {}, final |-> FALSE, calls |-> 0]
NoBatch  == [calls |-> <<>>, blocked |-> {}, next |-> 1]

Init ==
  /\ pc = "idle" /\ mode \in Modes
  /\ ledger = Empty /\ saved = Empty /\ stale = FALSE /\ frozen = FALSE
  /\ task = NewTask /\ guard = NewGuard /\ batch = NoBatch
  /\ cancelled = FALSE /\ outcome = "none"
  /\ dirty = FALSE /\ hidden = FALSE /\ cut = FALSE
  /\ left = [turns |-> Turns, events |-> Events]

Spend(what) == left[what] > 0 /\ left' = [left EXCEPT ![what] = @ - 1]

\* saveSession of the ledger l.  It fails on a stale fence, before the rename,
\* or after it, which leaves the fence behind the file.
Save(l, ok) ==
  \/ ok /\ ~stale /\ saved' = l /\ UNCHANGED <<stale, left>>
  \/ ~ok /\ stale /\ UNCHANGED <<saved, stale, left>>
  \/ /\ ~ok /\ ~stale /\ Spend("events")
     /\ \/ UNCHANGED <<saved, stale>>
        \/ saved' = l /\ stale' = TRUE

\* The same with a checkpoint and the task after it, any of which may fail.
Persist(l, ok) ==
  Save(l, ok) \/ (~ok /\ ~stale /\ saved' = l /\ UNCHANGED stale /\ Spend("events"))

\* A write of another file.
Write(ok) == IF ok THEN UNCHANGED left ELSE Spend("events")

Goto(next)   == pc' = next /\ UNCHANGED outcome
Return(what) == pc' = "idle" /\ outcome' = what
\* Where a step that may fail goes.
Then(ok, next) == IF ok THEN Goto(next) ELSE Return("error")

-----------------------------------------------------------------------------
\* Ask: the request joins the ledger, unless the session is frozen; then the
\* turn's first save and its task_state.json.
Ask ==
  /\ pc = "idle" /\ ~frozen /\ Spend("turns")
  /\ ledger' = Say(ledger)
  /\ task' = NewTask /\ guard' = NewGuard /\ batch' = NoBatch
  /\ cancelled' = FALSE /\ dirty' = FALSE /\ hidden' = FALSE
  /\ pc' = "begin" /\ outcome' = "none"
  /\ UNCHANGED <<mode, saved, stale, frozen, cut>>

Begin ==
  /\ pc = "begin"
  /\ \E ok \in BOOLEAN : Save(ledger, ok) /\ Then(ok, "ingest")
  /\ UNCHANGED <<mode, ledger, frozen, task, guard, batch, cancelled, edits, cut>>

\* drainInbox and ingestWorkerResults: what has arrived joins the ledger, which
\* is saved.  Reading the receipts fails on a cancelled context.
Collect(next) ==
  /\ \/ UNCHANGED <<session, left>> /\ Then(~cancelled, next)
     \/ /\ Spend("events")
        /\ ledger' = Say(ledger)
        /\ saved' = (IF stale THEN saved ELSE ledger')
        /\ UNCHANGED <<stale, frozen>>
        /\ Then(~stale /\ ~cancelled, next)
  /\ UNCHANGED <<mode, task, guard, batch, cancelled, edits, cut>>

Ingest == pc = "ingest" /\ Collect("prepare")

\* prepareTurnContext refuses a ledger with an exchange that is not closed.
Prepare ==
  /\ pc = "prepare"
  /\ Then(Closed(ledger), "loop")
  /\ UNCHANGED <<mode, session, task, guard, batch, cancelled, edits, cut, left>>

\* The head of turnLoop.
FinalOnly == guard.final \/ task.steps >= MaxSteps
Spent     == FinalOnly /\ guard.calls >= 2

Exhausted ==
  /\ pc = "loop"
  /\ task.attempts >= MaxAttempts \/ (~cancelled /\ Spent)
  /\ \E ok \in BOOLEAN : Write(ok) /\ Return(IF ok THEN "stopped" ELSE "error")
  /\ UNCHANGED <<mode, session, task, guard, batch, cancelled, edits, cut>>

Abandon ==
  /\ pc = "loop" /\ cancelled /\ task.attempts < MaxAttempts
  /\ Return("error")
  /\ UNCHANGED <<mode, session, task, guard, batch, cancelled, edits, cut, left>>

\* Seeded fault: only an answer that is used counts as an attempt.
Counted_Never(t) == t

Counted(t) == [t EXCEPT !.attempts = @ + 1]

Attempt ==
  /\ pc = "loop" /\ ~cancelled /\ task.attempts < MaxAttempts /\ ~Spent
  /\ task' = Counted(task)
  /\ guard' = [guard EXCEPT !.final = FinalOnly,
                            !.calls = IF FinalOnly THEN @ + 1 ELSE @]
  /\ \E ok \in BOOLEAN : Write(ok) /\ Then(ok, "collect")
  /\ UNCHANGED <<mode, session, batch, cancelled, edits, cut>>

Arrive == pc = "collect" /\ Collect("measure")

\* advance: the request is measured, and its exchanges validated once more.
Measure ==
  /\ pc = "measure"
  /\ \E fits \in BOOLEAN : Then(fits /\ Closed(ledger), "model")
  /\ UNCHANGED <<mode, session, task, guard, batch, cancelled, edits, cut, left>>

-----------------------------------------------------------------------------
\* What the provider may answer.  An overflow is tried again while something
\* can be shrunk, at most twice in a turn.
Overflow ==
  /\ pc = "model" /\ ~cancelled /\ task.overflows < 2
  /\ task' = [task EXCEPT !.overflows = @ + 1]
  /\ UNCHANGED <<pc, mode, session, guard, batch, cancelled, outcome, edits, cut, left>>

ModelFails ==
  /\ pc = "model"
  /\ IF guard.final /\ ~cancelled
     THEN \E ok \in BOOLEAN : Write(ok) /\ Return(IF ok THEN "stopped" ELSE "error")
     ELSE Return("error") /\ UNCHANGED left
  /\ UNCHANGED <<mode, session, task, guard, batch, cancelled, edits, cut>>

ModelBabbles ==
  /\ pc = "model"
  /\ task' = [task EXCEPT !.retries = @ + 1]
  /\ ledger' = Say(ledger)
  /\ \E ok \in BOOLEAN : Save(ledger', ok) /\ Then(ok /\ task'.retries < 3, "loop")
  /\ UNCHANGED <<mode, frozen, guard, batch, cancelled, edits, cut>>

\* governance.Evaluate: whether the runtime holds the final answer back.
Held(running) ==
  LET hard == task.changed /\ ~task.verified IN
  \/ mode = "soft" /\ (hard \/ running) /\ ~task.reminded
  \/ mode = "strict" /\ hard

ModelAnswers ==
  /\ pc = "model"
  /\ \E running, ok \in BOOLEAN :
       IF Held(running)
       THEN /\ task' = [task EXCEPT !.reminded = TRUE]
            /\ ledger' = Say(ledger)
            /\ Save(ledger', ok) /\ Then(ok, "loop")
       ELSE /\ ledger' = Say(ledger)
            /\ IF cancelled  \* the memory job is refused first
               THEN UNCHANGED <<saved, stale, left>> /\ Return("error")
               ELSE Persist(ledger', ok) /\ Return(IF ok THEN "answer" ELSE "error")
            /\ UNCHANGED task
  /\ UNCHANGED <<mode, frozen, guard, batch, cancelled, edits, cut>>

\* Seeded fault: the budget is read once for the whole batch.
Blocked_Once(calls) == {i \in DOMAIN calls : guard.final \/ task.steps >= MaxSteps}

\* The calls of a batch that may not run: the step budget would be passed, or
\* only a final answer is wanted.
Blocked(calls) ==
  {i \in DOMAIN calls : guard.final \/ task.steps + i > MaxSteps}

ModelCalls ==
  /\ pc = "model"
  /\ \E calls \in Batches, ok \in BOOLEAN :
       /\ batch' = [calls |-> calls, blocked |-> Blocked(calls), next |-> 1]
       /\ ledger' = [Say(ledger) EXCEPT !.open = DOMAIN calls]
       /\ Save(ledger', ok)
       /\ Then(ok, "batch")
       /\ cut' = (cut \/ ~ok)
  /\ UNCHANGED <<mode, frozen, task, guard, cancelled, edits>>

\* Call IDs that the session has seen already.
ModelRepeats ==
  /\ pc = "model" /\ Return("error")
  /\ UNCHANGED <<mode, session, task, guard, batch, cancelled, edits, cut, left>>

-----------------------------------------------------------------------------
\* The group at the head of the batch: up to four reads, or one other call.
Group ==
  LET from   == batch.next
      Reads(n) == \A i \in from .. n : batch.calls[i] = "look"
      last   == {n \in from .. Len(batch.calls) : n < from + 4 /\ Reads(n)}
  IN  IF last = {} THEN {from} ELSE UNION {from .. n : n \in last}

\* Calls that get an answer without being run.
Skipped(i) == i \in batch.blocked \/ guard.final

\* What a call may come to.  Only an edit that succeeds tells which paths it
\* changed, a cancellation not hiding them; a handler that fails, or a shell
\* command, may have changed files as well.  "unique" stands for an error no
\* other call repeats.
Results(i) ==
  IF Skipped(i)
  THEN {[error |-> "step_limit", wrote |-> FALSE, told |-> FALSE, counts |-> FALSE]}
  ELSE {r \in [error : {"none", "refused", "unique"} \cup (IF cancelled THEN {"cancelled"} ELSE {}),
               wrote : BOOLEAN, told : BOOLEAN, counts : {TRUE}] :
          /\ r.wrote => batch.calls[i] \in {"edit", "shell"}
          /\ r.told  => r.wrote /\ batch.calls[i] = "edit" /\ r.error \in {"none", "cancelled"}
          /\ batch.calls[i] = "edit" /\ r.error = "none" => r.told}

\* loopGuard.observe: two failures of a kind with the same error.
Observed(group, result) ==
  LET Key(i)  == <<batch.calls[i], result[i].error>>
      failing == {i \in group : result[i].error \notin {"none", "unique"}}
  IN  [guard EXCEPT
         !.failed = @ \cup {Key(i) : i \in failing},
         !.final  = \/ @
                    \/ \E i \in failing : Key(i) \in guard.failed
                    \/ \E i, j \in failing : i # j /\ Key(i) = Key(j)]

\* Seeded fault: a later edit keeps an earlier verification.
Accepted_Verified(group, result) ==
  LET checks == \E i \in group : batch.calls[i] = "check" IN
  [task EXCEPT
     !.steps    = @ + Cardinality({i \in group : result[i].counts}),
     !.changed  = @ \/ \E i \in group : result[i].told,
     !.verified = IF checks THEN \A i \in group : result[i].error = "none" ELSE @]

\* acceptToolResult: the task hears of the paths a result names.  Only a group of
\* one call writes or verifies.
Accepted(group, result) ==
  LET writes == \E i \in group : result[i].told
      checks == \E i \in group : batch.calls[i] = "check"
      passes == \A i \in group : result[i].error = "none"
  IN  [task EXCEPT
         !.steps    = @ + Cardinality({i \in group : result[i].counts}),
         !.changed  = @ \/ writes,
         !.verified = IF checks THEN passes ELSE @ /\ ~writes]

\* Seeded fault: a call that was blocked gets no result.
Answered_Run(group, result) == {i \in group : result[i].counts}

\* The calls of a group whose results join the ledger: blocked calls are
\* answered too.
Answered(group, result) == group

\* A verification passed in this group.
Passed(group, result) ==
  \E i \in group : batch.calls[i] = "check" /\ result[i].error = "none"

\* The results of a group are saved together; a checkpoint and the task follow.
Dispatch ==
  /\ pc = "batch" /\ batch.next <= Len(batch.calls) /\ ~cancelled
  /\ pc' = "run"
  /\ UNCHANGED <<mode, session, task, guard, batch, cancelled, outcome, edits, cut, left>>

Finish ==
  /\ pc = "run"
  /\ \E result \in [Group -> UNION {Results(i) : i \in Group}], ok \in BOOLEAN :
       /\ \A i \in Group : result[i] \in Results(i)
       /\ guard'  = Observed(Group, result)
       /\ task'   = Accepted(Group, result)
       /\ ledger' = [ledger EXCEPT !.open = @ \ Answered(Group, result)]
       /\ batch'  = [batch EXCEPT !.next = @ + Cardinality(Group)]
       /\ dirty'  = \/ \E i \in Group : result[i].told
                    \/ dirty /\ ~Passed(Group, result)
       /\ hidden' = \/ \E i \in Group : result[i].wrote /\ ~result[i].told
                    \/ hidden /\ ~Passed(Group, result)
       /\ Persist(ledger', ok)
       /\ Then(ok, "batch")
       /\ cut' = (cut \/ (~ok /\ batch'.next <= Len(batch.calls)))
  /\ UNCHANGED <<mode, frozen, cancelled>>

\* Why a call may pause the turn: a tool that panics or a receipt that is not
\* stored leaves its effect unknown, which a cancellation hides; a claim finds
\* the approval of an effectful call changed.
Pauses(i) ==
  {why \in {"unknown", "pending"} :
     /\ ~Skipped(i)
     /\ why = "unknown" => ~cancelled
     /\ why = "pending" => batch.calls[i] # "look"}

\* saveContinuation and the task, either of which may fail, before or after its
\* rename.
Freeze ==
  IF stale THEN Return("error") /\ UNCHANGED <<frozen, left>>
  ELSE \/ frozen' = TRUE /\ Return("paused") /\ UNCHANGED left
       \/ frozen' \in BOOLEAN /\ Return("error") /\ Spend("events")

\* The turn ends at a call that pauses it.  The results of its group before it
\* have joined the ledger in memory; nothing of the group is saved.
Pause ==
  /\ pc = "run"
  /\ \E p \in Group : \E why \in Pauses(p) :
       LET before == {i \in Group : i < p} IN
       \E result \in [before -> UNION {Results(i) : i \in before}] :
         /\ \A i \in before : result[i] \in Results(i)
         /\ guard'  = Observed(before, result)
         /\ task'   = Accepted(before, result)
         /\ ledger' = [ledger EXCEPT !.open = @ \ Answered(before, result)]
         /\ IF why = "pending" THEN Freeze ELSE Return("paused") /\ UNCHANGED <<frozen, left>>
  /\ cut' = TRUE
  /\ UNCHANGED <<mode, saved, stale, batch, cancelled, edits>>

BatchDone ==
  /\ pc = "batch" /\ ~cancelled /\ batch.next > Len(batch.calls)
  /\ Goto("loop")
  /\ UNCHANGED <<mode, session, task, guard, batch, cancelled, edits, cut, left>>

\* The context is checked before a group and after it: what is left of the
\* batch is never called.
BatchCut ==
  /\ pc = "batch" /\ cancelled
  /\ cut' = (cut \/ batch.next <= Len(batch.calls))
  /\ Return("error")
  /\ UNCHANGED <<mode, session, task, guard, batch, cancelled, edits, left>>

-----------------------------------------------------------------------------
Cancel ==
  /\ pc # "idle" /\ ~cancelled /\ Spend("events")
  /\ cancelled' = TRUE
  /\ UNCHANGED <<pc, mode, session, task, guard, batch, outcome, edits, cut>>

\* Reset: a new session, saved before it replaces the old one.
Reset ==
  /\ pc = "idle" /\ Spend("events")
  /\ ledger' = Empty /\ saved' = Empty /\ stale' = FALSE /\ frozen' = FALSE /\ cut' = FALSE
  /\ UNCHANGED <<pc, mode, task, guard, batch, cancelled, outcome, edits>>

\* The process ends anywhere; New loads the session and closes its exchanges,
\* unless it is frozen.
Reopen ==
  /\ Spend("events")
  /\ pc' = "idle" /\ outcome' = "none"
  /\ ledger' = IF frozen THEN saved ELSE Repair(saved)
  /\ saved' = ledger' /\ stale' = FALSE /\ cut' = (cut /\ frozen)
  /\ task' = NewTask /\ guard' = NewGuard /\ batch' = NoBatch
  /\ cancelled' = FALSE /\ dirty' = FALSE /\ hidden' = FALSE
  /\ UNCHANGED <<mode, frozen>>

Model == Overflow \/ ModelFails \/ ModelBabbles \/ ModelAnswers \/ ModelCalls \/ ModelRepeats
Run   == \/ Begin \/ Ingest \/ Prepare \/ Exhausted \/ Abandon \/ Attempt \/ Arrive
         \/ Measure \/ Model \/ Dispatch \/ Finish \/ Pause \/ BatchDone \/ BatchCut
Next  == Run \/ Ask \/ Cancel \/ Reset \/ Reopen

-----------------------------------------------------------------------------
TypeOK ==
  /\ pc \in {"idle", "begin", "ingest", "prepare", "loop", "collect", "measure",
             "model", "batch", "run"}
  /\ pc \in {"batch", "run"} => ledger.open \subseteq DOMAIN batch.calls
  /\ outcome \in {"none", "answer", "stopped", "paused", "error"}
  /\ guard.calls \in 0 .. 2 /\ task.attempts \in 0 .. MaxAttempts

\* The tools a turn runs stay within MaxSteps, whatever batches the model asks
\* for: the calls of a batch that would pass it are answered, not run
\* (engine.go:262, tool_batch.go:68).
StepsBounded == task.steps <= MaxSteps

\* Under the strict readiness mode no answer leaves a turn in which an edit that
\* a tool reported has not been followed by a verification that passed
\* (governance/readiness.go:56, acceptToolResult).
VerifiedAnswer == mode = "strict" /\ outcome = "answer" => ~dirty

\* What README.md says of that mode: a change of the workspace that was not
\* verified keeps the answer back, whether or not a tool reported it.  It does
\* not hold of a tool that fails after its rename (files.go:272).
UnverifiedIsHeld == mode = "strict" /\ outcome = "answer" => ~dirty /\ ~hidden

\* Between turns every call in the ledger has its result, on an agent none of
\* whose batches was left by a cancellation, a failed write or a pause since it
\* opened the session: blocked, refused and failing calls are answered as well.
\* A batch that was left lacks results only from the group on at which it was left.
ClosedUnlessCut ==
  pc = "idle" => /\ ~cut => Closed(ledger)
                 /\ \A i \in ledger.open : i >= batch.next

\* What the comment of ValidateConversation asks for: the batch of a cancelled
\* turn is closed with results.  It does not hold in the agent that was
\* cancelled; only New repairs the ledger (agent.go:253).
CancelledIsClosed == pc = "idle" /\ cancelled => Closed(ledger)

\* A turn ends whatever the model answers: invalid output, refused answers,
\* overflows and tools that always fail are all bounded by the attempts.
TurnEnds == (pc # "idle") ~> (pc = "idle")

Spec == Init /\ [][Next]_vars

\* The goroutine of a turn runs; the provider and the tools return, as their
\* timeouts make them.
FairSpec == Spec /\ WF_vars(Run)
=============================================================================
