------------------------------ MODULE Sessions ------------------------------
(***************************************************************************)
(* One session that several processes may open one after another: New,     *)
(* Ask and Close (internal/runtime/agent.go), the end of a turn            *)
(* (engine.go), the session file with its fence and its claims             *)
(* (internal/store/store.go), and the memory outbox that the turn feeds.   *)
(*                                                                         *)
(* A replacement of a file is one action.  A process may die between any   *)
(* two; a write may fail before the file is replaced or after it.  The     *)
(* fence is the revision: every replacement has one of its own.  The loop  *)
(* of a turn, and the repair of its exchanges, are in Turn.                *)
(***************************************************************************)
EXTENDS Naturals, Sequences

CONSTANTS Procs, MaxAttempts, Learned,
          Asks,    \* bound: how often Ask is called
          Events   \* bound: failing writes, crashes, closes and retries together

VARIABLES
  disk,      \* the session file
  owner,     \* who holds the worker-owner lease of the session, or "free"
  agent,     \* per process: its Agent
  answered,  \* history: the turns whose answer Ask returned
  asked,     \* how many turns have begun
  left,      \* what the bound leaves
  job, facts, report, writer, flusher

Turns == 1 .. Asks

\* The evidence of a turn (engine.go:220), of which a candidate cites some.
Evidence == {"request", "answer"}

ASSUME SessionsConstants ==
  /\ {Asks, Events, MaxAttempts} \subseteq Nat
  /\ DOMAIN Learned = Turns
  /\ \A t \in Turns :
       /\ Learned[t] \in Seq({Learned[t][i] : i \in DOMAIN Learned[t]})
       /\ \A i \in DOMAIN Learned[t] : Learned[t][i].cites \in SUBSET Evidence \ {{}}

Outbox == INSTANCE Outbox

outbox == <<job, facts, writer, flusher>>
sessionVars == <<disk, owner, agent, answered, asked, left, outbox, report>>

NoAgent == [pc |-> "down", turn |-> 0, rev |-> 0, epoch |-> 0, messages |-> {}]

\* The turn lease of a session is taken by its owner alone and left out.
\* A session without turns, saved by a process that has ended.
SessionInit ==
  /\ disk = [rev |-> 1, epoch |-> 1, messages |-> {}]
  /\ owner = "free"
  /\ agent = [p \in Procs |-> NoAgent]
  /\ answered = {}
  /\ asked = 0
  /\ left = Events
  /\ Outbox!Blank

Pay == left > 0 /\ left' = left - 1
\* A write that succeeds is free, one that fails is an event.
Writes(ok) == IF ok THEN UNCHANGED left ELSE Pay

At(p, pc) == agent[p].pc = pc
Go(p, pc) == agent' = [agent EXCEPT ![p].pc = pc]

\* Seeded fault: only the epoch is compared, as the owner's generation.
Fenced_Epoch(a) == a.epoch = disk.epoch

\* checkSessionFence
Fenced(a) == a.rev = disk.rev /\ a.epoch = disk.epoch

\* A transaction of the session file by p that makes it `next` when the fence
\* holds.  Only a success moves the revision in memory.
Replace(p, next, ok, pc, otherwise) ==
  /\ ok => Fenced(agent[p])
  /\ IF ok
     THEN /\ disk' = next
          /\ agent' = [agent EXCEPT ![p].rev = next.rev, ![p].epoch = next.epoch, ![p].pc = pc]
     ELSE /\ Go(p, otherwise)
          /\ disk' \in IF Fenced(agent[p]) THEN {disk, next} ELSE {disk}
  /\ IF ok \/ ~Fenced(agent[p]) THEN UNCHANGED left ELSE Pay

\* Save of the messages in memory, and Claim.
Saved(p) == [rev |-> disk.rev + 1, epoch |-> agent[p].epoch, messages |-> agent[p].messages]
Save(p, ok, pc, otherwise) == Replace(p, Saved(p), ok, pc, otherwise)

-----------------------------------------------------------------------------
\* New with Resume: the session is read, then the owner lease is taken, then
\* the session is claimed; the writer starts and the session is saved.
Load(p) ==
  /\ At(p, "down")
  /\ agent' = [agent EXCEPT ![p] = [NoAgent EXCEPT !.pc = "loaded", !.rev = disk.rev,
                                      !.epoch = disk.epoch, !.messages = disk.messages]]
  /\ UNCHANGED <<disk, owner, answered, asked, left, outbox, report>>

Own(p) ==
  /\ At(p, "loaded")
  /\ IF owner = "free" THEN owner' = p /\ Go(p, "owner")
     ELSE UNCHANGED owner /\ agent' = [agent EXCEPT ![p] = NoAgent]
  /\ UNCHANGED <<disk, answered, asked, left, outbox, report>>

Claimed(p) == [rev |-> disk.rev + 1, epoch |-> disk.epoch + 1, messages |-> agent[p].messages]
Claim(p) ==
  /\ At(p, "owner")
  /\ \E ok \in BOOLEAN : Replace(p, Claimed(p), ok, "claimed", "closing")
  /\ UNCHANGED <<owner, answered, asked, outbox, report>>

Opened(p) ==
  /\ At(p, "claimed")
  /\ Outbox!Start(p)
  /\ \E ok \in BOOLEAN : Save(p, ok, "idle", "stopping")
  /\ UNCHANGED <<owner, answered, asked, job, facts, flusher, report>>

\* Close: the workers' lease is given back, then the writer is stopped and
\* joined.
Close(p) ==
  /\ At(p, "idle") /\ Pay /\ Go(p, "stopping")
  /\ UNCHANGED <<disk, owner, answered, asked, outbox, report>>

LetGo(p) ==
  /\ At(p, "stopping") /\ Go(p, "closing")
  /\ Outbox!Stop(p)
  /\ owner' = "free"
  /\ UNCHANGED <<disk, answered, asked, left, job, facts, flusher, report>>

Closed(p) ==
  /\ At(p, "closing") /\ writer[p].pc = "off"
  /\ owner' = IF owner = p THEN "free" ELSE owner
  /\ agent' = [agent EXCEPT ![p] = NoAgent]
  /\ UNCHANGED <<disk, answered, asked, left, outbox, report>>

Crash(p) ==
  /\ ~At(p, "down") /\ Pay
  /\ agent' = [agent EXCEPT ![p] = NoAgent]
  /\ owner' = IF owner = p THEN "free" ELSE owner
  /\ Outbox!Die(p)
  /\ UNCHANGED <<disk, answered, asked, job, facts, report>>

-----------------------------------------------------------------------------
\* Ask: a turn has a run of its own.

Ask(p) ==
  /\ At(p, "idle") /\ asked < Asks /\ asked' = asked + 1
  /\ agent' = [agent EXCEPT ![p].pc = "begin", ![p].turn = asked',
                            ![p].messages = @ \cup {<<asked', "request">>}]
  /\ UNCHANGED <<disk, owner, answered, left, outbox, report>>

BeginTurn(p) ==
  /\ At(p, "begin")
  /\ \E ok \in BOOLEAN : Save(p, ok, "loop", "idle")
  /\ UNCHANGED <<owner, answered, asked, outbox, report>>

\* The turn fails before its answer, or at a step of the answer: finishError
\* and the deferred report, whose own failure is ignored.
Fail(p) ==
  /\ agent[p].pc \in {"loop", "failing"}
  /\ Go(p, "idle")
  /\ \E ok \in BOOLEAN :
       /\ report' \in Outbox!Transact(ok, [report EXCEPT ![agent[p].turn] = "failed"], report)
       /\ Writes(ok)
  /\ UNCHANGED <<disk, owner, answered, asked, outbox>>

\* The final answer: the intent of the memory job first, then the checkpoint
\* and the session, then the task and the report, then the notification.
Answer(p) ==
  /\ At(p, "loop")
  /\ \E ok \in BOOLEAN :
       /\ Outbox!Prepare(agent[p].turn, ok) /\ Writes(ok)
       /\ agent' = [agent EXCEPT ![p].pc = IF ok THEN "commit" ELSE "failing",
                                 ![p].messages = @ \cup {<<agent[p].turn, "answer">>}]
  /\ UNCHANGED <<disk, owner, answered, asked, facts, writer, flusher, report>>

\* Seeded fault: the report is written although the session was not.
Commit_Anyway(p) ==
  /\ At(p, "commit")
  /\ \E ok \in BOOLEAN : Save(p, ok, "report", "report")
  /\ UNCHANGED <<owner, answered, asked, outbox, report>>

Commit(p) ==
  /\ At(p, "commit")
  /\ \E ok \in BOOLEAN : Save(p, ok, "report", "failing")
  /\ UNCHANGED <<owner, answered, asked, outbox, report>>

Report(p) ==
  /\ At(p, "report")
  /\ \E ok \in BOOLEAN :
       /\ report' \in Outbox!Transact(ok, [report EXCEPT ![agent[p].turn] = "completed"], report)
       /\ Writes(ok)
       /\ answered' = IF ok THEN answered \cup {agent[p].turn} ELSE answered
  /\ Go(p, "idle")
  /\ UNCHANGED <<disk, owner, asked, outbox>>

\* The checkpoint before the session, or the task before the report, fails.
Stumble(p) ==
  /\ agent[p].pc \in {"commit", "report"} /\ Pay /\ Go(p, "failing")
  /\ UNCHANGED <<disk, owner, answered, asked, outbox, report>>

-----------------------------------------------------------------------------
Open(p) == Load(p) \/ Own(p) \/ Claim(p) \/ Opened(p) \/ LetGo(p) \/ Closed(p)
Turn(p) == BeginTurn(p) \/ Fail(p) \/ Answer(p) \/ Commit(p) \/ Report(p) \/ Stumble(p)

\* A step of a writer, and of its clock.
Write(p) ==
  /\ \/ Outbox!Flush(p) /\ UNCHANGED left
     \/ Outbox!Scan(p) /\ UNCHANGED left
     \/ Outbox!Extract(p) /\ UNCHANGED left
     \/ Outbox!Return(p) /\ UNCHANGED left
     \/ Outbox!Exit(p) /\ UNCHANGED left
     \/ \E ok \in BOOLEAN : (Outbox!Merge(p, ok) \/ Outbox!Record(p, ok)) /\ Writes(ok)
  /\ UNCHANGED <<disk, owner, agent, answered, asked>>

Tick ==
  /\ \E t \in Turns : Outbox!Tick(t)
  /\ UNCHANGED <<disk, owner, agent, answered, asked, left>>

Retry ==
  /\ \E t \in Turns : Outbox!Retry(t) /\ Pay
  /\ UNCHANGED <<disk, owner, agent, answered, asked>>

SessionNext ==
  \/ \E p \in Procs : \/ Open(p) \/ Turn(p) \/ Write(p) \/ Close(p) \/ Crash(p)
                      \/ Ask(p)
  \/ Tick \/ Retry

SessionSpec == SessionInit /\ [][SessionNext]_sessionVars

\* The writer's goroutine and its ticker run, time passes.  Nobody has to ask,
\* to open the session or to keep a process up.
SessionFairSpec ==
  /\ SessionSpec
  /\ \A p \in Procs : WF_sessionVars(Write(p))
  /\ WF_sessionVars(Tick)

-----------------------------------------------------------------------------
SessionTypeOK ==
  /\ facts \in Seq(Turns)
  /\ owner \in Procs \cup {"free"} /\ flusher \in Procs \cup {"free"}
  /\ answered \subseteq Turns /\ left \in 0 .. Events

\* What Ask has returned survives every failure and every other owner: the
\* answer is in the session file, the run is reported as completed, and the
\* memory job is on disk (engine.go:219 to 235).
AnswersDurable ==
  \A t \in answered : /\ <<t, "answer">> \in disk.messages
                      /\ report[t] = "completed"
                      /\ job[t].state # "none"

\* Facts come only from turns whose answer is in the session and whose run
\* completed, and once from each: "a crash on either side of that boundary
\* neither loses accepted work nor remembers a failed run" (outbox.go:21).
RemembersAccepted ==
  /\ \A i, j \in DOMAIN facts : facts[i] = facts[j] => i = j
  /\ \A i \in DOMAIN facts : /\ report[facts[i]] = "completed"
                            /\ <<facts[i], "answer">> \in disk.messages

\* Of one attribute the memory holds one fact that is recalled, it rests on
\* something a user asked, in a run that completed, and what it superseded was
\* no stronger: in whatever order, and after whatever failures, the turns are
\* merged (backend.go:225 "applyFacts re-evaluates authority/conflicts here").
FactsSound ==
  LET list == Outbox!Held IN
  /\ \A i, j \in Outbox!Active(list) : i = j
  /\ \A i \in DOMAIN list :
       /\ \A s \in list[i].sources : report[s[1]] = "completed"
       /\ i \in Outbox!Active(list) => Outbox!Authority(list[i].sources) > 0
       /\ \A k \in list[i].supersedes :
            /\ list[k].status = "superseded"
            /\ Outbox!Authority(list[k].sources) <= Outbox!Authority(list[i].sources)

\* What was accepted and what is remembered agree, in every file.
AcceptedOnce == AnswersDurable /\ RemembersAccepted /\ FactsSound

\* No owner's save takes back what another has saved: stale agents fail their
\* fence (store.go:89).
LedgerGrows == [][disk.messages \subseteq disk'.messages]_disk

\* While the scope is served, the job of an answered turn comes to an end: its
\* facts are stored, or its attempts are exhausted.
Serving == \E p \in Procs : writer[p].pc # "off" /\ ~writer[p].closed
Settled(t) == job[t].state \in {"done", "failed"}
AcceptedRemembered ==
  \A t \in Turns : <>[]Serving => (t \in answered ~> Settled(t))
=============================================================================
