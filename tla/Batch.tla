-------------------------------- MODULE Batch --------------------------------
\* One tool batch of an agent with asynchronous approvals, from the model's
\* answer to the last result in the session: executeToolBatch
\* (runtime/tool_batch.go), authorizeTool (tool_approval.go), executeTool
\* (engine.go), the frozen continuation, ResumeApproval and its recovery
\* (approval_continuation.go) and what New does on a restart (agent.go,
\* recovery.go).
\*
\* a.mu and the turn lease serialise the turns of a session, so one process
\* acts at a time; it may die at any step, its context may be cancelled, writes
\* may fail before or after they take effect, the file may be edited by others,
\* and approvals expire.  Task, guard counters, traces, redaction and reports
\* are left out, and with them the step limit; tool definitions change only
\* while a call is dispatched.  AsyncApproval is on: with it off no continuation
\* is written, which is the batch of Turn.
EXTENDS Naturals, Sequences, FiniteSets

CONSTANTS Kind,       \* the calls in order: "read", "plain", "write", "shell"
          GroupLimit, \* reads joined in one group (4 in the code)
          Asks,       \* the values of ask, see there
          Faults,     \* writes that may fail: "continuation", "session", "receipt"
          Troubles,   \* bound: how many crashes, failed writes, cancelled turns, panicking
                      \* reads and edits of the file meet in one behaviour, see Within
          None

VARIABLES rec, late, claims, granted, consent,  \* the approval store
          cont,      \* the continuation file
          disk,      \* tool results of this batch in the saved session
          ag,        \* the process: program counter and memory
          file,      \* version of the target file's content
          effects,   \* history: how often each call's effect began
          ask,       \* the approval policy, fixed when the agent is made: TRUE is
                     \* permission.Ask, which waits for the control plane; FALSE
                     \* a policy or an approver that decides at once
          count      \* counters for the bounds: crashes, edits, faults, cancels,
                     \* panics, batches; and history:
                     \* parted: the continuation does not tell what the process
                     \* holds, a write of it failed or a group was stopped after
                     \* some of its results;
                     \* cut: the calls that were being run when a turn was cancelled

store == <<rec, late, claims, granted, consent>>
vars  == <<store, cont, disk, ag, file, effects, ask, count>>

N     == Len(Kind)
Calls == 1..N
Risky == {c \in Calls : Kind[c] \in {"write", "shell"}}

ASSUME BatchConstants ==
  /\ Kind \in Seq({"read", "plain", "write", "shell"})
  /\ GroupLimit \in Nat \ {0}
  /\ Asks \subseteq BOOLEAN

Digests == Nat              \* versions of the target file
Store   == INSTANCE Approvals WITH Receipts <- {"ok", "failed", "refused"}

\* approvalAction: only write_file and patch_file freeze the content.
Digest(c) == IF Kind[c] = "write" THEN file ELSE 0

Entry(c, out) == [call |-> c, out |-> out]

Inactive == [active |-> FALSE, next |-> 0, executing |-> FALSE, pending |-> 0,
             digest |-> <<>>, buffered |-> <<>>]
Asleep == [pc |-> "down", mem |-> <<>>, c |-> Inactive, got |-> <<>>, token |-> 0,
           stale |-> FALSE, cancelled |-> FALSE, want |-> [id |-> 0, allow |-> FALSE]]

Init == /\ Store!Init
        /\ cont = Inactive /\ disk = <<>>
        /\ ag = [Asleep EXCEPT !.pc = "idle"]
        /\ file = 0
        /\ effects = [c \in Calls |-> 0]
        /\ ask \in Asks
        /\ count = [crashes |-> 0, edits |-> 0, faults |-> 0, cancels |-> 0, panics |-> 0,
                    batches |-> 0, parted |-> FALSE, cut |-> {}]

Busy == ag.pc \notin {"down", "idle"}
At   == ag.c.next + 1       \* the call at hand

\* The turn ends: memory keeps the session's messages, nothing else.
Stopped == [ag EXCEPT !.pc = "idle", !.c = Inactive, !.got = <<>>, !.token = 0,
                      !.cancelled = FALSE]
Stop == ag' = Stopped

\* The troubles so far are among those of one member of Troubles.
Within(c) == \E t \in Troubles :
  /\ c.crashes <= t.crashes /\ c.faults <= t.faults
  /\ c.cancels <= t.cancels /\ c.panics <= t.panics /\ c.edits <= t.edits

\* A write fails.
Fault(w) == /\ w \in Faults
            /\ count' = [count EXCEPT !.faults = @ + 1, !.parted = @ \/ w = "continuation"]
            /\ Within(count')

\* saveContinuation stamps the saved session into the file.  A write that
\* fails may have taken effect.
Save(c, next) ==
  LET stamped == [c EXCEPT !.digest = disk] IN
  \/ /\ cont' = stamped
     /\ ag' = [ag EXCEPT !.c = stamped, !.pc = next]
     /\ UNCHANGED count
  \/ /\ Fault("continuation")
     /\ cont' \in {cont, stamped}
     /\ Stop

\* The same under the turn's own context.
SaveUnlessCancelled(c, next) == \/ ~ag.cancelled /\ Save(c, next)
                                \/ ag.cancelled /\ Stop /\ UNCHANGED <<cont, count>>

\* saveSession of the messages mem.  After a write that took effect and failed
\* the process's revision and fence no longer match the file.
SaveSession(mem, onward) ==
  \/ disk' = mem /\ ag' = onward /\ UNCHANGED count
  \/ /\ Fault("session") /\ disk' \in {disk, mem}
     /\ ag' = [Stopped EXCEPT !.mem = mem, !.stale = (disk' # disk)]

-----------------------------------------------------------------------------
\* executeToolBatch

\* The model asked for the batch; freeze it before the first call.
Ask ==
  /\ ag.pc = "idle" /\ count.batches = 0 /\ ~cont.active
  /\ LET frozen == [Inactive EXCEPT !.active = TRUE, !.digest = disk] IN
     \/ /\ cont' = frozen
        /\ ag' = [ag EXCEPT !.c = frozen, !.pc = "loop"]
        /\ count' = [count EXCEPT !.batches = 1]
     \/ /\ "continuation" \in Faults
        /\ cont' \in {cont, frozen} /\ Stop
        /\ count' = [count EXCEPT !.batches = 1, !.faults = @ + 1, !.parted = TRUE]
        /\ Within(count')
  /\ UNCHANGED <<store, disk, file, effects>>

\* The reads that run together, from the call at hand.
Group == {c \in At..N : c < At + GroupLimit /\ \A d \in At..c : Kind[d] = "read"}

\* An interrupted call without a receipt is not repeated: pendingError.
\* (Seeded fault: it is run again.)
Repeatable_Always(c) == TRUE
Repeatable(c) == c.executing => Kind[c.next + 1] # "plain"

Loop ==
  /\ ag.pc = "loop" /\ ag.c.next < N
  /\ IF ag.cancelled \/ ~Repeatable(ag.c)
     THEN Stop /\ UNCHANGED <<cont, count>>
     ELSE Save([ag.c EXCEPT !.executing = TRUE], "run")
  /\ UNCHANGED <<store, disk, file, effects>>

\* clearContinuation after the last call.  (Seeded fault: never cleared.)
Cleared_Never == cont
Cleared == Inactive

Clear ==
  /\ ag.pc = "loop" /\ ag.c.next = N
  /\ \/ ag.cancelled /\ UNCHANGED <<cont, count>>
     \/ ~ag.cancelled /\ cont' = Cleared /\ UNCHANGED count
     \/ ~ag.cancelled /\ Fault("continuation") /\ cont' \in {cont, Cleared}
  /\ Stop
  /\ UNCHANGED <<store, disk, file, effects>>

Got(outs) == ag' = [ag EXCEPT !.pc = "got", !.got = outs]

\* Bounded read group: no receipts, no effects.  Each read has a result of its
\* own; a panic leaves the outcome of that read unknown.
Read ==
  /\ ag.pc = "run" /\ Kind[At] = "read"
  /\ \E outs \in [1..Cardinality(Group) -> {"ok", "effect_unknown"}] :
       /\ Got(outs)
       /\ \/ (\A i \in DOMAIN outs : outs[i] = "ok") /\ UNCHANGED count
          \/ /\ \E i \in DOMAIN outs : outs[i] # "ok"
             /\ count' = [count EXCEPT !.panics = @ + 1]
             /\ Within(count')
  /\ UNCHANGED <<store, cont, disk, file, effects>>

\* A tool that is neither a read nor risky (notes, plans, workers, todos); a
\* panic leaves its outcome unknown.
Plain ==
  /\ ag.pc = "run" /\ Kind[At] = "plain"
  /\ effects' = [effects EXCEPT ![At] = @ + 1]
  /\ \E out \in {"ok", "failed", "effect_unknown"} : Got(<<out>>)
  /\ UNCHANGED <<store, cont, disk, file, count>>

-----------------------------------------------------------------------------
\* authorizeTool and executeTool for a risky call

\* What an earlier attempt left behind decides before anything else: replay a
\* receipt, hold an unknown outcome, repeat a refusal.  (Seeded fault: a claim
\* without receipt is refused like a denial.)
Prior_Denied(r) ==
  CASE r.status \in {"claimed", "unknown", "denied", "expired"} -> "denied"
    [] r.status = "completed"                                   -> r.receipt
    [] OTHER                                                    -> "none"

Prior(r) ==
  CASE r.status \in {"claimed", "unknown"} -> "pending"
    [] r.status = "completed"              -> r.receipt
    [] r.status \in {"denied", "expired"}  -> "denied"
    [] OTHER                               -> "none"

\* Find, then freeze the action and Create.
Freeze ==
  /\ ag.pc = "run" /\ At \in Risky
  /\ \/ /\ ag.cancelled
        /\ Got(<<"denied">>) /\ UNCHANGED store
     \/ /\ ~ag.cancelled /\ Prior(rec[At]) # "none"
        /\ Got(<<Prior(rec[At])>>) /\ UNCHANGED store
     \/ /\ ~ag.cancelled /\ Prior(rec[At]) = "none"
        /\ IF Store!Changed(At, Digest(At))
           THEN Got(<<"denied">>) /\ UNCHANGED store
           ELSE /\ Store!Create(At, Digest(At))
                /\ ag' = [ag EXCEPT !.pc = "authorize"]
  /\ UNCHANGED <<cont, disk, file, effects, count>>

\* Ask: wait for the control plane.  Otherwise policy and approver decide now.
Authorize ==
  /\ ag.pc = "authorize"
  /\ \/ /\ ask /\ rec[At].status = "pending"
        /\ Got(<<"pending">>) /\ UNCHANGED store
     \/ /\ ask /\ rec[At].status = "approved"
        /\ ag' = [ag EXCEPT !.pc = "claim"] /\ UNCHANGED store
     \/ /\ ~ask /\ ~ag.cancelled
        /\ \E allow \in BOOLEAN :
             /\ Store!Decide(At, allow)
             /\ IF rec'[At].status = "approved"
                THEN ag' = [ag EXCEPT !.pc = "claim"]
                ELSE Got(<<"denied">>)
     \/ /\ ~ask /\ ag.cancelled
        /\ Got(<<"denied">>) /\ UNCHANGED store
  /\ UNCHANGED <<cont, disk, file, effects, count>>

\* Recompute the action and claim it.  A changed action pauses the batch; an
\* overdue approval is a refusal.
Claim ==
  /\ ag.pc = "claim"
  /\ \/ /\ ag.cancelled
        /\ Got(<<"denied">>) /\ UNCHANGED store
     \/ /\ ~ag.cancelled /\ Store!Changed(At, Digest(At))
        /\ Got(<<"pending">>) /\ UNCHANGED store
     \/ /\ ~ag.cancelled /\ Store!Claim(At, Digest(At))
        /\ IF rec'[At].status = "claimed"
           THEN ag' = [ag EXCEPT !.pc = "dispatch", !.token = rec'[At].token]
           ELSE Got(<<"denied">>)
  /\ UNCHANGED <<cont, disk, file, effects, count>>

\* The last check before the handler refuses, the catalog changed, or the
\* handler runs and returns, with success or an error.
Dispatch ==
  /\ ag.pc = "dispatch"
  /\ \/ /\ Got(<<"denied">>) /\ UNCHANGED <<file, effects>>
     \/ /\ ag' = [ag EXCEPT !.pc = "finish", !.got = <<"refused">>]
        /\ UNCHANGED <<file, effects>>
     \/ /\ \E out \in {"ok", "failed"} : ag' = [ag EXCEPT !.pc = "finish", !.got = <<out>>]
        /\ effects' = [effects EXCEPT ![At] = @ + 1]
        /\ file' = IF Kind[At] = "write" THEN file + 1 ELSE file
  /\ UNCHANGED <<store, cont, disk, count>>

\* The receipt.  Only a success and a refusal before the handler are known
\* outcomes; a receipt that cannot be written is unknown.
Outcome == IF ag.got[1] \in {"ok", "refused"} THEN "completed" ELSE "unknown"

Finish ==
  /\ ag.pc = "finish"
  /\ \/ /\ Store!Finish(At, ag.token, Outcome, ag.got[1])
        /\ Got(IF Outcome = "unknown" THEN <<"effect_unknown">> ELSE ag.got)
        /\ UNCHANGED count
     \/ /\ Fault("receipt")
        /\ Store!Finish(At, ag.token, Outcome, ag.got[1]) \/ UNCHANGED store
        /\ Got(<<"receipt_unknown">>)
  /\ UNCHANGED <<cont, disk, file, effects>>

-----------------------------------------------------------------------------
\* executeToolBatch, after a group has returned

\* A result that came back after the cancellation is overwritten by it,
\* whatever it was; only a pause is kept.
Overwritten == {[i \in 1..Len(ag.got) |-> IF i \in S THEN "cancelled" ELSE ag.got[i]] :
                S \in IF ag.cancelled /\ ag.got # <<"pending">>
                      THEN (SUBSET (1..Len(ag.got))) \ {{}} ELSE {{}}}

\* Results that stop the batch and are never shown to the model, and how many
\* results come before the first of them (a set of one number).
Unsettled == {"effect_unknown", "receipt_unknown"}
Ahead(outs) == {k \in 0..Len(outs) : /\ \A i \in 1..k : outs[i] \notin Unsettled
                                     /\ k = Len(outs) \/ outs[k + 1] \in Unsettled}

\* The messages of the process after the first k results.
Heeded(outs, k) == ag.mem \o [i \in 1..k |-> Entry(ag.c.next + i, outs[i])]

\* A pause is saved.  An unsettled result ends the turn where it stands: what
\* came before it is in the messages of the process, and nowhere else.
Accept ==
  /\ ag.pc = "got"
  /\ \E outs \in Overwritten : \E k \in Ahead(outs) :
       \/ /\ outs = <<"pending">>
          /\ Save([ag.c EXCEPT !.pending = At, !.executing = FALSE], "paused")
       \/ /\ outs # <<"pending">> /\ k < Len(outs)
          /\ ag' = [Stopped EXCEPT !.mem = Heeded(outs, k)]
          /\ count' = [count EXCEPT !.parted = @ \/ k > 0]
          /\ UNCHANGED cont
       \/ /\ outs # <<"pending">> /\ k = Len(outs)
          /\ ag' = [ag EXCEPT !.pc = "journal", !.got = outs, !.mem = Heeded(outs, k)]
          /\ UNCHANGED <<cont, count>>
  /\ UNCHANGED <<store, disk, file, effects>>

\* The pause is saved; the turn ends with a PendingApprovalError.
Pause == /\ ag.pc = "paused" /\ Stop
         /\ UNCHANGED <<store, cont, disk, file, effects, count>>

\* Results go to the continuation first, then to the session, then the batch
\* advances.
Returned == SubSeq(ag.mem, Len(ag.mem) - Len(ag.got) + 1, Len(ag.mem))

Journal ==
  /\ ag.pc = "journal"
  /\ Save([ag.c EXCEPT !.buffered = Returned], "ledger")
  /\ UNCHANGED <<store, disk, file, effects>>

Ledger ==
  /\ ag.pc = "ledger"
  /\ SaveSession(ag.mem, [ag EXCEPT !.pc = "advance"])
  /\ UNCHANGED <<store, cont, file, effects>>

Advance ==
  /\ ag.pc = "advance"
  /\ Save([ag.c EXCEPT !.next = @ + Len(ag.got), !.executing = FALSE, !.buffered = <<>>],
          "loop")
  /\ UNCHANGED <<store, disk, file, effects>>

-----------------------------------------------------------------------------
\* ResumeApproval(id, allow), the trusted control plane

\* recoverBufferedResults: the exact old session, or the session plus exactly
\* the journalled suffix.
Recovered == IF disk = cont.digest THEN disk \o cont.buffered ELSE disk

Recoverable == disk \in {cont.digest, cont.digest \o cont.buffered}

Resume(id, allow) ==
  /\ ag.pc = "idle" /\ cont.active /\ ~ag.stale /\ Recoverable
  /\ ag' = [ag EXCEPT !.c = cont, !.want = [id |-> id, allow |-> allow],
                      !.mem = IF cont.buffered = <<>> THEN @ ELSE Recovered,
                      !.pc = IF cont.buffered = <<>> THEN "decide" ELSE "restore"]
  /\ UNCHANGED <<store, cont, disk, file, effects, count>>

Restore ==
  /\ ag.pc = "restore"
  /\ SaveSession(ag.mem, [ag EXCEPT !.pc = "restored"])
  /\ UNCHANGED <<store, cont, file, effects>>

Restored ==
  /\ ag.pc = "restored"
  /\ SaveUnlessCancelled([ag.c EXCEPT !.next = @ + Len(ag.c.buffered),
                                      !.executing = FALSE, !.buffered = <<>>],
                         "decide")
  /\ UNCHANGED <<store, disk, file, effects>>

\* Which approvals the frozen batch can be resumed with.
Answers(c, id) ==
  /\ rec[id].status # "absent"
  /\ id <= c.next + 1
  /\ c.pending \in {0, id}
  /\ id <= c.next => rec[id].status \in {"completed", "denied", "expired"}

\* Decide, then refuse an approval whose file changed since it was frozen.
Decide ==
  /\ ag.pc = "decide"
  /\ LET id == ag.want.id IN
     IF ag.cancelled \/ ~Answers(ag.c, id) \/ rec[id].status \in {"claimed", "unknown"}
     THEN Stop /\ UNCHANGED store
     ELSE /\ IF rec[id].status \in {"pending", "approved"}
             THEN Store!Decide(id, ag.want.allow) ELSE UNCHANGED store
          /\ IF /\ ag.want.allow /\ Kind[id] = "write" /\ ag.c.next < N
                /\ rec'[id].status = "approved" /\ rec'[id].digest # file
             THEN Stop
             ELSE ag' = [ag EXCEPT !.pc = "resave", !.c.pending = id]
  /\ UNCHANGED <<cont, disk, file, effects, count>>

Resave ==
  /\ ag.pc = "resave"
  /\ SaveUnlessCancelled(ag.c, "reenter")
  /\ UNCHANGED <<store, disk, file, effects>>

\* runWithContinuation saves the session it has in memory and goes on.
Reenter ==
  /\ ag.pc = "reenter"
  /\ SaveSession(ag.mem, [ag EXCEPT !.pc = "loop"])
  /\ UNCHANGED <<store, cont, file, effects>>

-----------------------------------------------------------------------------
\* The environment

Crash ==
  /\ ag.pc # "down"
  /\ ag' = Asleep
  /\ count' = [count EXCEPT !.crashes = @ + 1]
  /\ Within(count')
  /\ UNCHANGED <<store, cont, disk, file, effects>>

\* closeInterruptedExchanges: without a continuation, calls that have no result
\* get one that says so; a repeated result is a corrupt session.
Heard   == {disk[i].call : i \in DOMAIN disk}
Missing == {c \in Calls : count.batches > 0 /\ c \notin Heard}
Nth(S, i) == CHOOSE c \in S : Cardinality({d \in S : d <= c}) = i
Unanswered == [i \in 1..Cardinality(Missing) |-> Entry(Nth(Missing, i), "interrupted")]

Restart ==
  /\ ag.pc = "down"
  /\ cont.active \/ Cardinality(Heard) = Len(disk)
  /\ LET mem == IF cont.active THEN disk ELSE disk \o Unanswered IN
     \/ /\ disk' = mem /\ UNCHANGED count
        /\ ag' = [Asleep EXCEPT !.pc = "idle", !.mem = mem]
     \/ Fault("session") /\ disk' \in {disk, mem} /\ UNCHANGED ag
  /\ UNCHANGED <<store, cont, file, effects>>

\* A call has begun and its result is still to be looked at.
InHand == ag.pc \in {"run", "authorize", "claim", "dispatch", "finish", "got"}

Cancel ==
  /\ Busy /\ ~ag.cancelled
  /\ ag' = [ag EXCEPT !.cancelled = TRUE]
  /\ count' = [count EXCEPT !.cancels = @ + 1,
                            !.cut = IF InHand THEN @ \cup {At} ELSE @]
  /\ Within(count')
  /\ UNCHANGED <<store, cont, disk, file, effects>>

Edit ==
  /\ file' = file + 1
  /\ count' = [count EXCEPT !.edits = @ + 1]
  /\ Within(count')
  /\ UNCHANGED <<store, cont, disk, ag, effects>>

Expire ==
  /\ \E c \in Risky : rec[c].status \in {"pending", "approved"} /\ Store!Tick(c)
  /\ UNCHANGED <<cont, disk, ag, file, effects, count>>

Work == \/ Loop \/ Clear \/ Read \/ Plain \/ Freeze \/ Authorize \/ Claim \/ Dispatch
        \/ Finish \/ Accept \/ Pause \/ Journal \/ Ledger \/ Advance
        \/ Restore \/ Restored \/ Decide \/ Resave \/ Reenter

Next == /\ \/ Ask \/ Work
           \/ \E id \in Risky, allow \in BOOLEAN : Resume(id, allow)
           \/ Crash \/ Restart \/ Cancel \/ Edit \/ Expire
        /\ UNCHANGED ask

Spec == Init /\ [][Next]_vars

\* The control plane can resume the paused batch with this approval.
Answerable(id) == LET c == [cont EXCEPT !.next = @ + Len(cont.buffered)] IN
                  /\ Recoverable /\ Answers(c, id)
                  /\ rec[id].status \notin {"claimed", "unknown"}

\* The process keeps running its turn; a control plane that refuses whatever is
\* still open comes back for as long as there is something it can answer, whatever
\* else is tried in between (hence strong fairness).
Fairness ==
  /\ WF_vars(Work /\ UNCHANGED ask)
  /\ SF_vars(\E id \in Risky : Answerable(id) /\ Resume(id, FALSE) /\ UNCHANGED ask)

FairSpec == Spec /\ Fairness

-----------------------------------------------------------------------------

Outs == {"ok", "failed", "refused", "denied", "cancelled", "interrupted"}
Results == Seq([call : Calls, out : Outs])
Frozen == [active : BOOLEAN, next : 0..N, executing : BOOLEAN, pending : 0..N,
           digest : Results, buffered : Results]

TypeOK == /\ Store!TypeOK
          /\ cont \in Frozen /\ ag.c \in Frozen
          /\ disk \in Results /\ ag.mem \in Results
          /\ file \in Nat /\ effects \in [Calls -> Nat]

\* An effect begins at most once per call, across every crash, resumption,
\* repeated decision and failed write (tool_approval.go: "A claim without a
\* receipt is never eligible for automatic replay"; tool_batch.go: an
\* interrupted non-read call is not run again).
SingleDispatch == \A c \in Calls : effects[c] <= 1

\* What the control plane refused or withdrew never runs, and what runs was
\* approved for the content it was frozen with (authorizeTool).
OnlyApprovedRuns == \A c \in Risky :
  effects[c] > 0 => claims[c] = 1 /\ consent[c] = "approved" /\ granted[c] = rec[c].digest

\* approval_continuation.go:272 "Recovery accepts the exact old ledger or the
\* exact journalled suffix": the session hears of each call at most once and in
\* call order, however often the batch is interrupted, as long as its
\* continuation could be written.
InOrder == \A i, j \in DOMAIN disk : i < j => disk[i].call < disk[j].call
HeardOnce == count.faults = 0 => InOrder

\* ... which the code gives unless a read of a group panicked after others of the
\* group had their results.
ResultsOnce == ~count.parted => InOrder

\* And it is honest about what happened: it never says that a call succeeded that
\* did not run, nor that one was refused that ran; only a call that was being run
\* when a turn was cancelled is called cancelled; and where the receipt of a call
\* is complete it has that result, or the cancellation that hit this call
\* (authorizeTool's prior states and late refusals, tool_batch.go:77).
Honest == \A i \in DOMAIN disk :
  LET c == disk[i].call  out == disk[i].out IN Kind[c] # "read" =>
    /\ out = "ok" => effects[c] = 1
    /\ out \in {"denied", "refused"} => effects[c] = 0
    /\ out = "cancelled" => c \in count.cut
    /\ c \in Risky /\ rec[c].status = "completed" => out \in {rec[c].receipt, "cancelled"}

\* docs/REQUEST_FLOW.md:87: a call whose receipt is complete has that result in
\* the session.
ReceiptShown == \A i \in DOMAIN disk :
  LET c == disk[i].call IN
  c \in Risky /\ rec[c].status = "completed" => disk[i].out = rec[c].receipt

\* The ledger of the session is in order and tells the truth.
LedgerIsHonest == ResultsOnce /\ Honest

\* Held on purpose: an outcome nobody knows, for the operator to reconcile; the
\* last is a read that panicked.
Held == \/ \E c \in Risky : rec[c].status \in {"claimed", "unknown"}
        \/ cont.next < N /\ ~Repeatable(cont)
        \/ /\ ag.pc = "idle" /\ cont.active /\ cont.executing
           /\ cont.next < N /\ Kind[cont.next + 1] = "read"

\* A batch whose approvals are answered ends, or an unknown outcome holds it,
\* unless the process died, a write failed or a turn was cancelled.
Disturbed == count.crashes + count.faults + count.cancels > 0
BatchEnds == (count.batches = 1) ~> (~cont.active \/ Held \/ Disturbed)
=============================================================================
