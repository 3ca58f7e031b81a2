------------------------------- MODULE Outbox -------------------------------
(***************************************************************************)
(* internal/memory/outbox.go and the built-in backend of backend.go: the   *)
(* jobs that derive facts from the turns of one scope, and the writers of  *)
(* the processes that serve it.                                            *)
(*                                                                         *)
(* A transaction of the outbox or of the fact file is one action, and so   *)
(* is the remote call between them.  The candidates a turn gives are a     *)
(* constant, all about one attribute of one subject; their validation is   *)
(* left out, as is the HTTP backend.  An extractor is configured.          *)
(***************************************************************************)
EXTENDS Naturals, SequencesExt

CONSTANTS
  Turns,        \* numbered from 1
  Procs,
  MaxAttempts,  \* WriterOptions.MaxAttempts
  Learned       \* per turn: its candidates, [value, cites], which may cite the
                \* turn's evidence: its "request" and its "answer"

VARIABLES
  job,     \* WriteState.Jobs
  facts,   \* the fact file, as the turns merged into it, in order:
           \* FactState.Sessions is their set, FactState.Facts is Held
  report,  \* report.json of each turn: "none", "failed" or "completed"
  writer,  \* per process: the goroutine of its Writer
  flusher  \* who holds the .worker lease of the outbox, or "free"

NoJob    == [state |-> "none", attempts |-> 0, due |-> TRUE]
NoWriter == [pc |-> "off", closed |-> FALSE, todo |-> {}, turn |-> 0, ok |-> TRUE]

Blank ==
  /\ job = [t \in Turns |-> NoJob]
  /\ facts = <<>>
  /\ report = [t \in Turns |-> "none"]
  /\ writer = [p \in Procs |-> NoWriter]
  /\ flusher = "free"

\* A transaction that fails leaves its file as it was, or replaced.
Transact(ok, new, old) == IF ok THEN {new} ELSE {new, old}

-----------------------------------------------------------------------------
\* Prepare, on the way to an answer: the first intent of a turn stays.
Prepare(t, ok) ==
  LET intent == IF job[t].state = "none"
                THEN [job EXCEPT ![t].state = "pending"] ELSE job
  IN  job' \in Transact(ok, intent, job)

\* Retry reopens a job that is not done.
Retry(t) ==
  /\ job[t].state = "failed"
  /\ job' = [job EXCEPT ![t] = [state |-> "pending", attempts |-> 0, due |-> TRUE]]
  /\ UNCHANGED <<facts, report, writer, flusher>>

\* NextAttempt passes.
Tick(t) ==
  /\ job[t].state = "pending" /\ ~job[t].due
  /\ job' = [job EXCEPT ![t].due = TRUE]
  /\ UNCHANGED <<facts, report, writer, flusher>>

-----------------------------------------------------------------------------
\* NewWriter and Close; Close returns when the writer is off.
Start(p) == writer' = [writer EXCEPT ![p] = [NoWriter EXCEPT !.pc = "idle"]]
Stop(p)  == writer' = [writer EXCEPT ![p].closed = TRUE]

\* The process dies, and its lease with it.
Die(p) ==
  /\ writer' = [writer EXCEPT ![p] = NoWriter]
  /\ flusher' = IF flusher = p THEN "free" ELSE flusher

\* run: the loop ends once the writer is closed.
Exit(p) ==
  /\ writer[p].pc = "idle" /\ writer[p].closed
  /\ writer' = [writer EXCEPT ![p] = NoWriter]
  /\ UNCHANGED <<job, facts, report, flusher>>

\* flush: the lease, then the jobs as they are now.
Flush(p) ==
  /\ writer[p].pc = "idle" /\ ~writer[p].closed
  /\ flusher = "free" /\ flusher' = p
  /\ writer' = [writer EXCEPT
       ![p].pc = "scan",
       ![p].todo = {t \in Turns : job[t].state = "pending" /\ job[t].due}]
  /\ UNCHANGED <<job, facts, report>>

\* flush returns, at its end, on a shutdown or on an error of the outbox.
Return(p) ==
  /\ writer[p].pc # "idle" /\ writer[p].pc # "off"
  /\ \/ writer[p].closed
     \/ writer[p].pc = "scan" /\ writer[p].todo = {}
  /\ writer' = [writer EXCEPT ![p] = [NoWriter EXCEPT !.pc = "idle", !.closed = writer[p].closed]]
  /\ flusher' = "free"
  /\ UNCHANGED <<job, facts, report>>

\* committed: only a report that says "completed" licenses the extraction.
Committed(t) == report[t] = "completed"

Scan(p) ==
  /\ writer[p].pc = "scan" /\ ~writer[p].closed
  /\ \E t \in writer[p].todo :
       writer' = [writer EXCEPT ![p].todo = @ \ {t},
                                ![p].turn = IF Committed(t) THEN t ELSE @,
                                ![p].pc = IF Committed(t) THEN "store" ELSE @]
  /\ UNCHANGED <<job, facts, report, flusher>>

\* Store: nothing to do for a turn that is in the fact file; else the model
\* extracts the candidates, which may fail.
Extract(p) ==
  /\ writer[p].pc = "store" /\ ~writer[p].closed
  /\ IF writer[p].turn \in Range(facts)
     THEN writer' = [writer EXCEPT ![p].pc = "record", ![p].ok = TRUE]
     ELSE \E ok \in BOOLEAN :
            writer' = [writer EXCEPT ![p].pc = IF ok THEN "merge" ELSE "record",
                                     ![p].ok = ok]
  /\ UNCHANGED <<job, facts, report, flusher>>

\* ModelExtractor: what the model finds in a turn's request and answer.
Candidates(t) ==
  [i \in DOMAIN Learned[t] |->
     [value   |-> Learned[t][i].value,
      sources |-> {<<t, e>> : e \in Learned[t][i].cites}]]

\* A request is "conversation" evidence, an answer is a model's.
Authority(sources) == IF \E s \in sources : s[2] = "request" THEN 1 ELSE 0
Active(list) == {i \in DOMAIN list : list[i].status = "active"}

\* applyFacts: a candidate confirms the active fact, supersedes it, or waits.
Applied(list, c) ==
  LET same == {i \in Active(list) : list[i].value = c.value}
      wins == /\ Authority(c.sources) > 0
              /\ \A i \in Active(list) : Authority(c.sources) >= Authority(list[i].sources)
      old  == IF wins THEN Active(list) ELSE {}
      fact == [value |-> c.value, sources |-> c.sources, supersedes |-> old,
               status |-> IF wins THEN "active" ELSE "pending"]
  IN  IF same # {}
      THEN [i \in DOMAIN list |->
              IF i \in same THEN [list[i] EXCEPT !.sources = @ \cup c.sources] ELSE list[i]]
      ELSE Append([i \in DOMAIN list |->
                     IF i \in old THEN [list[i] EXCEPT !.status = "superseded"] ELSE list[i]], fact)

\* The facts of the file, after all candidates of the turns merged so far.
Held ==
  LET found == FlattenSeq([i \in DOMAIN facts |-> Candidates(facts[i])])
      list[i \in 0 .. Len(found)] ==
        IF i = 0 THEN <<>> ELSE Applied(list[i - 1], found[i])
  IN  list[Len(found)]

\* The candidates and the turn's key go into the fact file together.
Merged(f, t) == IF t \in Range(f) THEN f ELSE Append(f, t)

Merge(p, ok) ==
  /\ writer[p].pc = "merge"
  /\ facts' \in Transact(ok, Merged(facts, writer[p].turn), facts)
  /\ writer' = [writer EXCEPT ![p].pc = "record", ![p].ok = ok]
  /\ UNCHANGED <<job, report, flusher>>

\* Seeded fault: an attempt that failed is not counted.
Recorded_Free(j, ok) ==
  IF j.state = "done" THEN j
  ELSE IF ok THEN [j EXCEPT !.state = "done", !.attempts = @ + 1]
  ELSE [j EXCEPT !.due = FALSE]

\* recordResult: done, or another attempt later, or exhausted.
Recorded(j, ok) ==
  CASE j.state = "done" -> j
    [] j.state # "done" /\ ok -> [j EXCEPT !.state = "done", !.attempts = @ + 1]
    [] OTHER -> [state    |-> IF j.attempts + 1 >= MaxAttempts THEN "failed" ELSE j.state,
                 attempts |-> j.attempts + 1,
                 due      |-> FALSE]

Record(p, ok) ==
  LET t == writer[p].turn IN
  /\ writer[p].pc = "record" /\ ~writer[p].closed
  /\ job' \in Transact(ok, [job EXCEPT ![t] = Recorded(@, writer[p].ok)], job)
  /\ IF ok
     THEN writer' = [writer EXCEPT ![p].pc = "scan", ![p].turn = 0] /\ UNCHANGED flusher
     ELSE writer' = [writer EXCEPT ![p] = [NoWriter EXCEPT !.pc = "idle"]] /\ flusher' = "free"
  /\ UNCHANGED <<facts, report>>
=============================================================================
