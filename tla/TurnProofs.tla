----------------------------- MODULE TurnProofs -----------------------------
(***************************************************************************)
(* What Turn's checks show on a small instance, proved for every batch the *)
(* model may ask for, every mode and every budget of steps and attempts.   *)
(* Then the context that is prepared for the model, Curator: that what is  *)
(* left out of a prompt is still on disk, for every history.               *)
(***************************************************************************)
EXTENDS Turn, Curator, FiniteSetTheorems, SequenceTheorems, TLAPS

Kinds  == {"look", "edit", "check", "shell"}
Errors == {"step_limit", "none", "refused", "unique", "cancelled"}
Pcs    == {"idle", "begin", "ingest", "prepare", "loop", "collect", "measure",
           "model", "batch", "run"}

Ledgers == [open : SUBSET (Nat \ {0}), torn : BOOLEAN]
Tasks   == [attempts : Nat, steps : Nat, changed : BOOLEAN, verified : BOOLEAN,
            reminded : BOOLEAN, retries : Nat, overflows : Nat]
Guards  == [failed : SUBSET (Kinds \X Errors), final : BOOLEAN, calls : Nat]
Bundles == [calls : Seq(Kinds), blocked : SUBSET Nat, next : Nat \ {0}]

InBatch == {"batch", "run"}

Types == TypeOK /\ ledger \in Ledgers /\ saved \in Ledgers /\ task \in Tasks
                /\ guard \in Guards /\ batch \in Bundles

\* The steps left cover every call of the batch that is not blocked, with those
\* before it.
Budgeted ==
  /\ task.steps <= MaxSteps
  /\ pc \in InBatch => \A i \in DOMAIN batch.calls \ batch.blocked :
       i >= batch.next => task.steps + (i - batch.next) < MaxSteps

\* What the model has asked for and got no answer to is what the batch will call.
Answering ==
  ~cut => /\ ~ledger.torn
          /\ IF pc \in InBatch THEN \A i \in ledger.open : i >= batch.next ELSE ledger.open = {}

\* The task knows of the reported edits that were not checked.
Checked ==
  /\ dirty => task.changed /\ ~task.verified
  /\ pc # "idle" => outcome = "none"
  /\ VerifiedAnswer

Turning == pc = "run" => batch.next <= Len(batch.calls)

\* A frozen batch is one that was left.
Freezing == frozen => cut

IInv == Types /\ Budgeted /\ Answering /\ Checked /\ Turning /\ Freezing

-----------------------------------------------------------------------------
LEMMA Constants ==
  /\ MaxAttempts \in Nat /\ MaxSteps \in Nat
  /\ \A b \in Batches : b \in Seq(Kinds) /\ b # <<>>
BY TurnConstants DEF Kinds

LEMMA SayLedger ==
  ASSUME NEW l \in Ledgers
  PROVE  Say(l) \in Ledgers /\ Say(l).open = {} /\ (l.open = {} => Say(l) = l)
<1>1. CASE l.open = {}
  BY <1>1 DEF Say
<1>2. CASE l.open # {}
  BY <1>2 DEF Say, Ledgers
<1> QED BY <1>1, <1>2

LEMMA NewTypes ==
  /\ Empty \in Ledgers /\ Empty.open = {} /\ ~Empty.torn
  /\ NewTask \in Tasks /\ NewTask.steps = 0 /\ NewTask.attempts = 0
  /\ NewGuard \in Guards /\ NewGuard.calls = 0
  /\ NoBatch \in Bundles /\ NoBatch.calls = <<>>
<1>1. <<>> \in Seq(Kinds)
  BY EmptySeq
<1> QED BY <1>1 DEF Empty, Ledgers, NewTask, Tasks, NewGuard, Guards, NoBatch, Bundles

\* What a write may leave in the session file.
LEMMA SavedTypes ==
  ASSUME NEW l \in Ledgers, saved \in Ledgers, NEW ok, Save(l, ok) \/ Persist(l, ok)
  PROVE  saved' \in Ledgers
BY DEF Save, Persist

\* The group at the head of a batch is what follows up to some call: one call, or
\* reads only.
LEMMA GroupInterval ==
  ASSUME batch \in Bundles, batch.next <= Len(batch.calls)
  PROVE  \E m \in Nat : /\ m >= batch.next /\ m <= Len(batch.calls) /\ Group = batch.next .. m
                        /\ m = batch.next \/ \A i \in Group : batch.calls[i] = "look"
<1> SUFFICES ASSUME NEW f, f = batch.next, NEW c, c = batch.calls, NEW n, n = Len(c)
             PROVE  \E m \in Nat : /\ m >= f /\ m <= n /\ Group = f .. m
                                   /\ m = f \/ \A i \in Group : c[i] = "look"
  OBVIOUS
<1>0. f \in Nat /\ n \in Nat /\ f <= n
  BY LenProperties DEF Bundles
<1> DEFINE R(k) == \A i \in f .. k : c[i] = "look"
           last == {k \in f .. n : k < f + 4 /\ R(k)}
<1>1. Group = IF last = {} THEN {f} ELSE UNION {f .. k : k \in last}
  BY DEF Group
<1>2. CASE last = {}
  <2>1. Group = f .. f
    BY <1>0, <1>1, <1>2
  <2> QED BY <1>0, <2>1
<1>3. CASE last # {}
  <2>1. PICK m \in last : \A k \in last : k <= m
    <3>1. \A k \in last : k \in {f, f + 1, f + 2, f + 3}
      BY <1>0
    <3> HIDE DEF last
    <3> QED BY <1>0, <1>3, <3>1
  <2>2. m \in Nat /\ m >= f /\ m <= n /\ R(m)
    BY <1>0
  <2>3. last \subseteq Nat
    BY <1>0
  <2> HIDE DEF last
  <2>4. Group = f .. m
    <3>1. \A x : x \in Group <=> \E k \in last : x \in f .. k
      BY <1>1, <1>3
    <3>2. \A k \in last : f .. k \subseteq f .. m
      BY <1>0, <2>1, <2>2, <2>3
    <3> QED BY <2>1, <3>1, <3>2
  <2> QED BY <2>2, <2>4
<1> QED BY <1>2, <1>3

\* A step of the loop that is in no batch.
LEMMA Outside ==
  ASSUME IInv, pc \notin InBatch, pc' \in Pcs \ InBatch, UNCHANGED <<mode, batch, dirty, frozen, cut>>,
         ledger' = ledger \/ ledger' = Say(ledger), saved' \in Ledgers,
         task' \in Tasks, task'.attempts <= MaxAttempts, task'.steps = task.steps,
         task'.changed = task.changed, task'.verified = task.verified,
         guard' \in Guards, guard'.calls <= 2,
         outcome' \in {"none", "answer", "stopped", "error"},
         pc' # "idle" => outcome' = "none", VerifiedAnswer'
  PROVE  IInv'
<1>0. ledger \in Ledgers
  BY DEF IInv, Types
<1>1. ledger' \in Ledgers /\ (ledger.open = {} => ledger' = ledger)
  BY <1>0, SayLedger
<1>2. guard'.calls \in 0 .. 2 /\ task'.attempts \in 0 .. MaxAttempts
  BY Constants DEF Guards, Tasks
<1>3. Types'
  BY <1>1, <1>2 DEF IInv, Types, TypeOK, Pcs, InBatch
<1>4. Budgeted' /\ Turning'
  BY DEF IInv, Budgeted, Turning, InBatch
<1>5. Answering'
  BY <1>1 DEF IInv, Answering
<1>6. Checked' /\ Freezing'
  BY DEF IInv, Checked, Freezing
<1> QED BY <1>3, <1>4, <1>5, <1>6 DEF IInv

LEMMA OutsideSteps ==
  ASSUME IInv, \/ Begin \/ Ingest \/ Prepare \/ Exhausted \/ Abandon \/ Arrive \/ Measure
               \/ ModelFails \/ ModelRepeats
  PROVE  IInv'
<1>0. /\ pc \notin InBatch /\ pc # "idle" /\ UNCHANGED <<mode, batch, dirty, frozen, cut, task, guard>>
      /\ ledger' = ledger \/ ledger' = Say(ledger)
  BY DEF Begin, Ingest, Prepare, Exhausted, Abandon, Arrive, Measure, ModelFails, ModelRepeats,
         Collect, InBatch, session, edits
<1>1. /\ task \in Tasks /\ task.attempts <= MaxAttempts /\ guard \in Guards /\ guard.calls <= 2
      /\ ledger \in Ledgers /\ saved \in Ledgers /\ outcome = "none" /\ Say(ledger) \in Ledgers
  <2>1. /\ task \in Tasks /\ task.attempts \in 0 .. MaxAttempts /\ guard \in Guards /\ guard.calls \in 0 .. 2
        /\ ledger \in Ledgers /\ saved \in Ledgers
    BY DEF IInv, Types, TypeOK
  <2>2. outcome = "none"
    BY <1>0 DEF IInv, Checked
  <2> QED BY <2>1, <2>2, SayLedger, Constants
<1>2. saved' \in Ledgers
  <2>1. CASE Begin
    BY <1>1, <2>1, SavedTypes DEF Begin
  <2>2. CASE Ingest \/ Arrive
    BY <1>1, <2>2 DEF Ingest, Arrive, Collect, session
  <2>3. CASE ~Begin /\ ~Ingest /\ ~Arrive
    BY <1>1, <2>3 DEF Prepare, Exhausted, Abandon, Measure, ModelFails, ModelRepeats, session
  <2> QED BY <2>1, <2>2, <2>3
<1>3. \/ pc' = "idle" /\ outcome' \in {"stopped", "error"}
      \/ pc' \in Pcs \ (InBatch \cup {"idle"}) /\ outcome' = "none"
  BY <1>1 DEF Begin, Ingest, Prepare, Exhausted, Abandon, Arrive, Measure, ModelFails, ModelRepeats,
              Collect, Then, Goto, Return, Pcs, InBatch
<1>4. pc' \in Pcs \ InBatch /\ VerifiedAnswer'
  BY <1>3 DEF Pcs, InBatch, VerifiedAnswer
<1> QED BY <1>0, <1>1, <1>2, <1>3, <1>4, Outside

LEMMA AttemptStep ==
  ASSUME IInv, Attempt
  PROVE  IInv'
<1> SUFFICES ASSUME NEW t, t = [task EXCEPT !.attempts = @ + 1],
                    NEW g, g = [guard EXCEPT !.final = FinalOnly, !.calls = IF FinalOnly THEN @ + 1 ELSE @]
             PROVE  IInv'
  OBVIOUS
<1>0. /\ pc = "loop" /\ UNCHANGED <<mode, batch, dirty, frozen, cut, ledger, saved>>
      /\ task' = t /\ guard' = g
  BY DEF Attempt, session, edits, Counted
<1>1. /\ task \in Tasks /\ task.attempts < MaxAttempts /\ guard \in Guards /\ guard.calls \in 0 .. 2
      /\ saved \in Ledgers /\ outcome = "none" /\ (FinalOnly => ~(guard.calls >= 2))
  BY <1>0 DEF IInv, Types, TypeOK, Checked, Attempt, Spent
<1>2. /\ t \in Tasks /\ t.attempts <= MaxAttempts /\ t.steps = task.steps
      /\ t.changed = task.changed /\ t.verified = task.verified
  <2>1. /\ t.attempts = task.attempts + 1 /\ t.steps = task.steps
        /\ t.changed = task.changed /\ t.verified = task.verified
    BY <1>1 DEF Tasks
  <2>2. task.attempts \in Nat /\ task.attempts + 1 \in Nat
    BY <1>1 DEF Tasks
  <2>3. t \in Tasks
    BY <1>1, <2>2 DEF Tasks
  <2> QED BY <1>1, <2>1, <2>2, <2>3, Constants
<1>3. g \in Guards /\ g.calls <= 2
  <2> SUFFICES ASSUME NEW b, b = FinalOnly, b \in BOOLEAN, NEW k, k = (IF b THEN guard.calls + 1 ELSE guard.calls)
               PROVE  g \in Guards /\ g.calls <= 2
    BY DEF FinalOnly, Guards
  <2>1. k \in Nat /\ k <= 2
    BY <1>1
  <2>2. g = [guard EXCEPT !.final = b, !.calls = k]
    OBVIOUS
  <2> QED BY <1>1, <2>1, <2>2 DEF Guards
<1>4. \/ pc' = "idle" /\ outcome' = "error"
      \/ pc' = "collect" /\ outcome' = "none"
  BY <1>1 DEF Attempt, Then, Goto, Return
<1>5. pc' \in Pcs \ InBatch /\ VerifiedAnswer' /\ pc \notin InBatch
  BY <1>0, <1>4 DEF Pcs, InBatch, VerifiedAnswer
<1> QED BY <1>0, <1>1, <1>2, <1>3, <1>4, <1>5, Outside

\* What the model answers when it asks for no tools.
LEMMA AnswerSteps ==
  ASSUME IInv, Overflow \/ ModelBabbles \/ ModelAnswers
  PROVE  IInv'
<1>0. /\ pc = "model" /\ UNCHANGED <<mode, batch, dirty, frozen, cut, guard>>
      /\ ledger' = ledger \/ ledger' = Say(ledger)
  BY DEF Overflow, ModelBabbles, ModelAnswers, session, edits
<1>1. /\ task \in Tasks /\ task.attempts \in 0 .. MaxAttempts /\ guard \in Guards /\ guard.calls \in 0 .. 2
      /\ ledger \in Ledgers /\ saved \in Ledgers /\ outcome = "none"
  BY <1>0 DEF IInv, Types, TypeOK, Checked
<1>2. Say(ledger) \in Ledgers /\ guard.calls <= 2
  BY <1>1, SayLedger
<1>3. /\ task' \in Tasks /\ task'.attempts = task.attempts /\ task'.steps = task.steps
      /\ task'.changed = task.changed /\ task'.verified = task.verified
  <2>1. CASE task' = task
    BY <1>1, <2>1
  <2>2. CASE task' = [task EXCEPT !.overflows = @ + 1]
    BY <1>1, <2>2 DEF Tasks
  <2>3. CASE task' = [task EXCEPT !.retries = @ + 1]
    BY <1>1, <2>3 DEF Tasks
  <2>4. CASE task' = [task EXCEPT !.reminded = TRUE]
    BY <1>1, <2>4 DEF Tasks
  <2> QED BY <2>1, <2>2, <2>3, <2>4 DEF Overflow, ModelBabbles, ModelAnswers
<1>4. saved' \in Ledgers
  <2>1. CASE Overflow
    BY <1>1, <2>1 DEF Overflow, session
  <2>2. CASE ModelBabbles
    BY <1>1, <1>2, <2>2, SavedTypes DEF ModelBabbles
  <2>3. CASE ModelAnswers
    BY <1>1, <1>2, <2>3, SavedTypes DEF ModelAnswers
  <2> QED BY <2>1, <2>2, <2>3
<1>5. /\ \/ pc' = "idle" /\ outcome' \in {"answer", "error"}
         \/ pc' \in {"loop", "model"} /\ outcome' = "none"
      /\ outcome' = "answer" => \E running \in BOOLEAN : ~Held(running)
  <2>1. CASE Overflow \/ ModelBabbles
    BY <1>0, <1>1, <2>1 DEF Overflow, ModelBabbles, Then, Goto, Return
  <2>2. CASE ModelAnswers
    BY <1>1, <2>2 DEF ModelAnswers, Then, Goto, Return
  <2> QED BY <2>1, <2>2
<1>6. VerifiedAnswer'
  BY <1>0, <1>5 DEF VerifiedAnswer, Held, IInv, Checked
<1>7. pc' \in Pcs \ InBatch /\ pc \notin InBatch /\ task'.attempts <= MaxAttempts
  BY <1>0, <1>1, <1>3, <1>5, Constants DEF Pcs, InBatch
<1> QED BY <1>0, <1>1, <1>2, <1>3, <1>4, <1>5, <1>6, <1>7, Outside

LEMMA CallsStep ==
  ASSUME IInv, ModelCalls
  PROVE  IInv'
<1>0. PICK calls \in Batches, ok \in BOOLEAN :
        /\ batch' = [calls |-> calls, blocked |-> Blocked(calls), next |-> 1]
        /\ ledger' = [Say(ledger) EXCEPT !.open = DOMAIN calls]
        /\ Save(ledger', ok)
        /\ Then(ok, "batch")
        /\ cut' = (cut \/ ~ok)
  BY DEF ModelCalls
<1>1. /\ pc = "model" /\ UNCHANGED <<mode, task, guard, cancelled, dirty, frozen>>
      /\ ledger \in Ledgers /\ saved \in Ledgers /\ outcome = "none"
      /\ task \in Tasks /\ task.attempts \in 0 .. MaxAttempts /\ guard \in Guards /\ guard.calls \in 0 .. 2
      /\ task.steps \in Nat /\ task.steps <= MaxSteps
  BY DEF ModelCalls, IInv, Types, TypeOK, Checked, Budgeted, Tasks, edits
<1>2. calls \in Seq(Kinds) /\ DOMAIN calls \subseteq Nat \ {0} /\ MaxSteps \in Nat
  BY Constants, LenProperties
<1>3. /\ batch' \in Bundles /\ batch'.calls = calls /\ batch'.blocked = Blocked(calls) /\ batch'.next = 1
  <2>1. Blocked(calls) \subseteq Nat
    BY <1>2 DEF Blocked
  <2> QED BY <1>0, <1>2, <2>1 DEF Bundles
<1>4. /\ ledger' \in Ledgers /\ ledger'.open = DOMAIN calls
      /\ ~cut => ~ledger'.torn
  <2>1. Say(ledger) \in Ledgers /\ (~cut => ~Say(ledger).torn)
    BY <1>1, SayLedger DEF IInv, Answering, InBatch
  <2> QED BY <1>0, <1>2, <2>1 DEF Ledgers
<1>5. saved' \in Ledgers
  BY <1>0, <1>1, <1>4, SavedTypes
<1>6. IF ok THEN pc' = "batch" /\ outcome' = "none" ELSE pc' = "idle" /\ outcome' = "error"
  BY <1>0, <1>1 DEF Then, Goto, Return
<1>7. Types'
  BY <1>1, <1>3, <1>4, <1>5, <1>6 DEF Types, TypeOK
<1>8. Budgeted' /\ Turning'
  <2>1. ASSUME NEW i \in DOMAIN calls \ Blocked(calls) PROVE task.steps + (i - 1) < MaxSteps
    <3>1. i \in Nat /\ ~(task.steps + i > MaxSteps)
      BY <1>2 DEF Blocked
    <3> QED BY <1>1, <1>2, <3>1
  <2> QED BY <1>1, <1>3, <1>6, <2>1 DEF Budgeted, Turning
<1>9. Answering'
  <2>1. \A i \in DOMAIN calls : i >= 1
    BY <1>2, LenProperties
  <2> QED BY <1>0, <1>3, <1>4, <1>6, <2>1 DEF Answering, InBatch
<1>10. Checked' /\ Freezing'
  BY <1>0, <1>1, <1>6 DEF IInv, Checked, VerifiedAnswer, Freezing
<1> QED BY <1>7, <1>8, <1>9, <1>10 DEF IInv

\* The steps of a batch that call no tool.
LEMMA BatchSteps ==
  ASSUME IInv, Dispatch \/ BatchDone \/ BatchCut
  PROVE  IInv'
<1>0. /\ pc = "batch" /\ UNCHANGED <<mode, ledger, saved, task, guard, batch, dirty, frozen>>
  BY DEF Dispatch, BatchDone, BatchCut, session, edits
<1>1. /\ \/ pc' = "run" /\ outcome' = "none" /\ batch.next <= Len(batch.calls) /\ cut' = cut
         \/ pc' = "loop" /\ outcome' = "none" /\ batch.next > Len(batch.calls) /\ cut' = cut
         \/ pc' = "idle" /\ outcome' = "error" /\ cut' = (cut \/ batch.next <= Len(batch.calls))
  BY <1>0 DEF Dispatch, BatchDone, BatchCut, Goto, Return, IInv, Checked
<1>2. Types'
  BY <1>0, <1>1 DEF IInv, Types, TypeOK
<1>3. Budgeted' /\ Turning' /\ Checked' /\ Freezing'
  BY <1>0, <1>1 DEF IInv, Budgeted, Turning, InBatch, Checked, VerifiedAnswer, Freezing
<1>4. Answering'
  <2>1. ASSUME ~cut, ~(batch.next <= Len(batch.calls)) PROVE ledger.open = {}
    <3>1. ledger.open \subseteq DOMAIN batch.calls /\ \A i \in ledger.open : i >= batch.next
      BY <1>0, <2>1 DEF IInv, Types, TypeOK, Answering, InBatch
    <3>2. DOMAIN batch.calls = 1 .. Len(batch.calls) /\ Len(batch.calls) \in Nat /\ batch.next \in Nat
      BY LenProperties DEF IInv, Types, Bundles
    <3> QED BY <2>1, <3>1, <3>2
  <2>2. ~cut => ~ledger.torn /\ \A i \in ledger.open : i >= batch.next
    BY <1>0 DEF IInv, Answering, InBatch
  <2>3. Len(batch.calls) \in Nat /\ batch.next \in Nat
    BY LenProperties DEF IInv, Types, Bundles
  <2>4. batch.next > Len(batch.calls) => ~(batch.next <= Len(batch.calls))
    BY <2>3
  <2>5. CASE pc' = "run"
    BY <1>0, <1>1, <2>2, <2>5 DEF Answering, InBatch
  <2>6. CASE pc' # "run"
    <3>1. /\ pc' \notin InBatch
          /\ ~cut' => ~cut /\ ~(batch.next <= Len(batch.calls))
      <4>1. CASE pc' = "loop"
        BY <1>1, <2>4, <4>1 DEF InBatch
      <4>2. CASE pc' = "idle"
        BY <1>1, <4>2 DEF InBatch
      <4> QED BY <1>1, <2>6, <4>1, <4>2
    <3> QED BY <1>0, <2>1, <2>2, <3>1 DEF Answering
  <2> QED BY <2>5, <2>6
<1> QED BY <1>2, <1>3, <1>4 DEF IInv

\* Ask, Reset, New on the session file, and a cancellation from outside.
LEMMA OtherSteps ==
  ASSUME IInv, Ask \/ Cancel \/ Reset \/ Reopen \/ UNCHANGED vars
  PROVE  IInv'
<1>0. Types /\ ledger \in Ledgers /\ saved \in Ledgers /\ Say(ledger) \in Ledgers /\ Say(ledger).open = {}
  BY SayLedger DEF IInv, Types
<1>1. CASE Ask
  <2>1. /\ pc = "idle" /\ ledger' = Say(ledger) /\ task' = NewTask /\ guard' = NewGuard /\ batch' = NoBatch
        /\ ~dirty' /\ pc' = "begin" /\ outcome' = "none" /\ UNCHANGED <<saved, frozen, cut>>
    BY <1>1 DEF Ask
  <2>2. Types'
    BY <1>0, <2>1, NewTypes, Constants DEF Types, TypeOK
  <2>3. Budgeted' /\ Turning' /\ Checked' /\ Freezing'
    BY <2>1, NewTypes, Constants DEF IInv, Budgeted, InBatch, Turning, Checked, VerifiedAnswer, Freezing
  <2>4. Answering'
    BY <1>0, <2>1, SayLedger DEF IInv, Answering, InBatch
  <2> QED BY <2>2, <2>3, <2>4 DEF IInv
<1>2. CASE Cancel \/ UNCHANGED vars
  <2>1. UNCHANGED <<pc, mode, ledger, saved, task, guard, batch, outcome, dirty, frozen, cut>>
    BY <1>2 DEF Cancel, vars, session, edits
  <2> QED BY <2>1 DEF IInv, Types, TypeOK, Budgeted, Answering, Checked, VerifiedAnswer, Turning, Freezing,
                      InBatch
<1>3. CASE Reset
  <2>1. /\ pc = "idle" /\ ledger' = Empty /\ saved' = Empty /\ ~frozen'
        /\ UNCHANGED <<pc, mode, task, guard, batch, outcome, dirty>>
    BY <1>3 DEF Reset, edits
  <2> QED BY <2>1, NewTypes
        DEF IInv, Types, TypeOK, Budgeted, Answering, Checked, VerifiedAnswer, Turning, InBatch, Freezing
<1>4. CASE Reopen
  <2>1. /\ pc' = "idle" /\ saved' = ledger' /\ task' = NewTask /\ guard' = NewGuard
        /\ batch' = NoBatch /\ ~dirty' /\ outcome' = "none" /\ frozen' = frozen
        /\ cut /\ frozen => cut'
        /\ ~cut' => ~cut \/ ~frozen
        /\ ledger' = IF frozen THEN saved ELSE Empty
    BY <1>4 DEF Reopen, Repair
  <2>2. Types'
    BY <1>0, <2>1, NewTypes, Constants DEF Types, TypeOK, InBatch
  <2>3. Budgeted' /\ Turning' /\ Checked'
    BY <2>1, NewTypes, Constants DEF Budgeted, InBatch, Turning, Checked, VerifiedAnswer
  <2>4. Freezing'
    BY <2>1 DEF IInv, Freezing
  <2>5. Answering'
    BY <2>1, NewTypes DEF IInv, Answering, InBatch, Freezing
  <2> QED BY <2>2, <2>3, <2>4, <2>5 DEF IInv
<1> QED BY <1>1, <1>2, <1>3, <1>4

\* What the task and the guard make of the results of a group, or of those before
\* the call that paused it.
LEMMA Taken ==
  ASSUME IInv, pc = "run", NEW H \in SUBSET Group, NEW res \in [H -> UNION {Results(i) : i \in H}],
         \A i \in H : res[i] \in Results(i), NEW t, t = Accepted(H, res), NEW g, g = Observed(H, res)
  PROVE  LET S == {i \in H : res[i].counts} IN
         /\ t \in Tasks /\ t.attempts = task.attempts /\ t.steps = task.steps + Cardinality(S)
         /\ t.steps <= MaxSteps /\ Cardinality(S) \in Nat /\ Cardinality(S) <= Cardinality(Group)
         /\ (\E i \in H : res[i].told) \/ (dirty /\ ~Passed(H, res)) => t.changed /\ ~t.verified
         /\ g \in Guards /\ g.calls = guard.calls
<1> SUFFICES ASSUME NEW G, G = Group, NEW f, f = batch.next, NEW c, c = batch.calls
             PROVE  LET S == {i \in H : res[i].counts} IN
                    /\ t \in Tasks /\ t.attempts = task.attempts /\ t.steps = task.steps + Cardinality(S)
                    /\ t.steps <= MaxSteps /\ Cardinality(S) \in Nat /\ Cardinality(S) <= Cardinality(Group)
                    /\ (\E i \in H : res[i].told) \/ (dirty /\ ~Passed(H, res)) => t.changed /\ ~t.verified
                    /\ g \in Guards /\ g.calls = guard.calls
  OBVIOUS
<1>1. /\ batch \in Bundles /\ guard \in Guards /\ task \in Tasks /\ f <= Len(c) /\ H \subseteq G
  BY DEF IInv, Types, Turning
<1>2. /\ f \in Nat /\ f >= 1 /\ c \in Seq(Kinds) /\ Len(c) \in Nat /\ DOMAIN c = 1 .. Len(c)
      /\ MaxSteps \in Nat /\ task.steps \in Nat /\ task.steps <= MaxSteps
      /\ \A i \in DOMAIN c \ batch.blocked : i >= f => task.steps + (i - f) < MaxSteps
  <2>1. f \in Nat /\ f >= 1 /\ c \in Seq(Kinds)
    BY <1>1 DEF Bundles
  <2>2. Len(c) \in Nat /\ DOMAIN c = 1 .. Len(c)
    BY <2>1, LenProperties
  <2>3. /\ task.steps \in Nat /\ task.steps <= MaxSteps
        /\ \A i \in DOMAIN c \ batch.blocked : i >= f => task.steps + (i - f) < MaxSteps
    BY <1>1 DEF IInv, Budgeted, InBatch, Tasks
  <2> QED BY <2>1, <2>2, <2>3, Constants
<1>3. PICK m \in Nat : /\ m >= f /\ m <= Len(c) /\ G = f .. m
                       /\ m = f \/ \A i \in G : c[i] = "look"
  BY <1>1, GroupInterval
<1>4. G \subseteq DOMAIN c /\ \A i \in G : c[i] \in Kinds
  <2>1. G \subseteq DOMAIN c
    BY <1>2, <1>3
  <2> QED BY <1>2, <2>1, ElementOfSeq
<1>5. ASSUME NEW i \in H
      PROVE  /\ res[i].error \in Errors /\ res[i].told \in BOOLEAN /\ res[i].counts \in BOOLEAN
             /\ res[i].counts => i \notin batch.blocked
             /\ res[i].told => c[i] = "edit"
  <2>1. res[i] \in Results(i)
    OBVIOUS
  <2>2. CASE Skipped(i)
    <3>1. res[i] = [error |-> "step_limit", wrote |-> FALSE, told |-> FALSE, counts |-> FALSE]
      BY <2>1, <2>2 DEF Results
    <3> QED BY <3>1 DEF Errors
  <2>3. CASE ~Skipped(i)
    <3> SUFFICES ASSUME NEW E, E = {"none", "refused", "unique"} \cup (IF cancelled THEN {"cancelled"} ELSE {})
                 PROVE  /\ res[i].error \in Errors /\ res[i].told \in BOOLEAN
                        /\ res[i].counts \in BOOLEAN
                        /\ res[i].counts => i \notin batch.blocked
                        /\ res[i].told => c[i] = "edit"
      OBVIOUS
    <3>1. /\ res[i] \in [error : E, wrote : BOOLEAN, told : BOOLEAN, counts : {TRUE}]
          /\ res[i].told => c[i] = "edit"
      BY <2>1, <2>3 DEF Results
    <3>2. E \subseteq Errors
      BY DEF Errors
    <3> QED BY <2>3, <3>1, <3>2 DEF Skipped
  <2> QED BY <2>2, <2>3
<1> DEFINE S == {i \in H : res[i].counts}
           Soiled == (\E i \in H : res[i].told) \/ (dirty /\ ~Passed(H, res))
<1>6. /\ IsFiniteSet(G) /\ Cardinality(G) = m - f + 1 /\ IsFiniteSet(S)
      /\ Cardinality(S) \in Nat /\ Cardinality(S) <= m - f + 1
  <2>1. IsFiniteSet(G) /\ Cardinality(G) = m - f + 1
    BY <1>2, <1>3, FS_Interval
  <2>2. S \subseteq G
    BY <1>3
  <2>3. IsFiniteSet(S) /\ Cardinality(S) <= Cardinality(G)
    BY <2>1, <2>2, FS_Subset
  <2> QED BY <2>1, <2>3, FS_CardinalityType
<1>7. Cardinality(S) + task.steps <= MaxSteps
  <2> SUFFICES ASSUME NEW s, s = task.steps, NEW d, d = MaxSteps - s PROVE Cardinality(S) + s <= MaxSteps
    OBVIOUS
  <2>0. s \in Nat /\ d \in Nat
    BY <1>2
  <2>1. S \subseteq f .. f + d - 1
    <3> SUFFICES ASSUME NEW i \in S PROVE i \in f .. f + d - 1
      OBVIOUS
    <3>1. i \in Nat /\ i >= f /\ s + (i - f) < MaxSteps
      BY <1>2, <1>3, <1>4, <1>5
    <3>2. \A x, y, z, a, b \in Nat : b = z - a /\ x >= y /\ a + (x - y) < z => x \in y .. y + b - 1
      OBVIOUS
    <3> QED BY <1>2, <2>0, <3>1, <3>2
  <2>2. IsFiniteSet(f .. f + d - 1) /\ Cardinality(f .. f + d - 1) = d
    <3>1. f + d - 1 \in Int /\ f \in Int
      BY <1>2, <2>0
    <3>2. /\ IsFiniteSet(f .. f + d - 1)
          /\ Cardinality(f .. f + d - 1) = IF f > f + d - 1 THEN 0 ELSE (f + d - 1) - f + 1
      BY <3>1, FS_Interval
    <3> QED BY <1>2, <2>0, <3>2
  <2> HIDE DEF S
  <2>3. Cardinality(S) <= d
    <3>1. S \in SUBSET (f .. f + d - 1)
      BY <2>1
    <3>2. Cardinality(S) <= Cardinality(f .. f + d - 1)
      BY <2>2, <3>1, FS_Subset
    <3> QED BY <2>2, <3>2
  <2> QED BY <1>2, <1>6, <2>0, <2>3
<1>8. /\ t \in Tasks /\ t.steps = task.steps + Cardinality(S) /\ t.attempts = task.attempts
      /\ Soiled => t.changed /\ ~t.verified
  <2> SUFFICES ASSUME NEW w, w = (\E i \in H : res[i].told), NEW k, k = (\E i \in H : c[i] = "check"),
                      NEW p, p = (\A i \in H : res[i].error = "none"), NEW n, n = Cardinality(S),
                      w \in BOOLEAN, k \in BOOLEAN, p \in BOOLEAN
               PROVE  /\ t \in Tasks /\ t.steps = task.steps + Cardinality(S)
                      /\ t.attempts = task.attempts
                      /\ Soiled => t.changed /\ ~t.verified
    OBVIOUS
  <2>1. t = [task EXCEPT !.steps = @ + n, !.changed = @ \/ w, !.verified = IF k THEN p ELSE @ /\ ~w]
    BY DEF Accepted
  <2>2. n \in Nat /\ task.steps + n \in Nat
    BY <1>2, <1>6
  <2>3. /\ t.steps = task.steps + n /\ t.attempts = task.attempts
        /\ t.changed = (task.changed \/ w)
        /\ t.verified = (IF k THEN p ELSE task.verified /\ ~w)
    BY <1>1, <2>1 DEF Tasks
  <2>4. task.changed \in BOOLEAN /\ task.verified \in BOOLEAN
    BY <1>1 DEF Tasks
  <2>5. (task.changed \/ w) \in BOOLEAN /\ (IF k THEN p ELSE task.verified /\ ~w) \in BOOLEAN
    BY <2>4
  <2>6. t \in Tasks
    <3> SUFFICES ASSUME NEW x, x = (task.changed \/ w), NEW y, y = (IF k THEN p ELSE task.verified /\ ~w),
                        NEW z, z = task.steps + n
                 PROVE  t \in Tasks
      OBVIOUS
    <3>1. t = [task EXCEPT !.steps = z, !.changed = x, !.verified = y]
      BY <2>1
    <3>2. x \in BOOLEAN /\ y \in BOOLEAN /\ z \in Nat
      BY <2>2, <2>5
    <3> QED BY <1>1, <3>1, <3>2 DEF Tasks
  <2>7. k => ~w /\ \E i \in H : H = {i} /\ c[i] = "check"
    <3> SUFFICES ASSUME k PROVE ~w /\ \E i \in H : H = {i} /\ c[i] = "check"
      OBVIOUS
    <3>1. PICK i \in H : c[i] = "check"
      OBVIOUS
    <3>2. m = f
      BY <1>3, <3>1
    <3>3. H = {i}
      BY <1>2, <1>3, <3>2
    <3> QED BY <1>5, <3>1, <3>3
  <2>8. Soiled => t.changed /\ ~t.verified
    <3>1. dirty => task.changed /\ ~task.verified
      BY DEF IInv, Checked
    <3>2. Soiled => w \/ (dirty /\ ~\E i \in H : c[i] = "check" /\ res[i].error = "none")
      BY DEF Passed
    <3>3. CASE k
      <4>1. PICK i \in H : H = {i} /\ c[i] = "check"
        BY <2>7, <3>3
      <4>2. Soiled => dirty /\ ~p
        BY <2>7, <3>2, <3>3, <4>1
      <4> QED BY <2>3, <3>1, <3>3, <4>2
    <3>4. CASE ~k
      BY <2>3, <3>1, <3>2, <3>4
    <3> QED BY <3>3, <3>4
  <2> QED BY <2>3, <2>6, <2>8
<1>9. g \in Guards /\ g.calls = guard.calls
  <2> DEFINE Key(i)  == <<c[i], res[i].error>>
             failing == {i \in H : res[i].error \notin {"none", "unique"}}
  <2> SUFFICES ASSUME NEW F, F = guard.failed \cup {Key(i) : i \in failing},
                      NEW b, b = (\/ guard.final
                                  \/ \E i \in failing : Key(i) \in guard.failed
                                  \/ \E i, j \in failing : i # j /\ Key(i) = Key(j)),
                      b \in BOOLEAN
               PROVE  g \in Guards /\ g.calls = guard.calls
    BY <1>1 DEF Guards
  <2>1. g = [guard EXCEPT !.failed = F, !.final = b]
    BY DEF Observed
  <2>2. F \subseteq Kinds \X Errors
    BY <1>1, <1>4, <1>5 DEF Guards
  <2> QED BY <1>1, <2>1, <2>2 DEF Guards
<1> HIDE DEF S
<1>10. t.steps <= MaxSteps
  BY <1>2, <1>6, <1>7, <1>8
<1> QED BY <1>6, <1>8, <1>9, <1>10 DEF S

\* A group of calls returns: its results join the ledger, the task and the guard.
LEMMA FinishStep ==
  ASSUME IInv, Finish
  PROVE  IInv'
<1> SUFFICES ASSUME NEW G, G = Group, NEW f, f = batch.next, NEW c, c = batch.calls PROVE IInv'
  OBVIOUS
<1>0. PICK res \in [G -> UNION {Results(i) : i \in G}], ok \in BOOLEAN :
        /\ \A i \in G : res[i] \in Results(i)
        /\ guard'  = Observed(G, res)
        /\ task'   = Accepted(G, res)
        /\ ledger' = [ledger EXCEPT !.open = @ \ G]
        /\ batch'  = [batch EXCEPT !.next = @ + Cardinality(G)]
        /\ dirty'  = (\/ \E i \in G : res[i].told
                      \/ dirty /\ ~Passed(G, res))
        /\ Persist(ledger', ok)
        /\ Then(ok, "batch")
        /\ cut' = (cut \/ (~ok /\ batch'.next <= Len(c)))
  BY DEF Finish, Answered
<1>1. /\ pc = "run" /\ UNCHANGED <<mode, cancelled, frozen>>
      /\ ledger \in Ledgers /\ saved \in Ledgers /\ batch \in Bundles /\ guard \in Guards /\ task \in Tasks
      /\ task.attempts \in 0 .. MaxAttempts /\ guard.calls \in 0 .. 2 /\ outcome = "none"
      /\ f <= Len(c) /\ ledger.open \subseteq DOMAIN c
  BY DEF Finish, IInv, Types, TypeOK, Checked, Turning
<1>2. /\ f \in Nat /\ f >= 1 /\ c \in Seq(Kinds) /\ Len(c) \in Nat /\ DOMAIN c = 1 .. Len(c)
      /\ MaxSteps \in Nat /\ task.steps \in Nat
      /\ \A i \in DOMAIN c \ batch.blocked : i >= f => task.steps + (i - f) < MaxSteps
  <2>1. f \in Nat /\ f >= 1 /\ c \in Seq(Kinds)
    BY <1>1 DEF Bundles
  <2>2. Len(c) \in Nat /\ DOMAIN c = 1 .. Len(c)
    BY <2>1, LenProperties
  <2>3. /\ task.steps \in Nat
        /\ \A i \in DOMAIN c \ batch.blocked : i >= f => task.steps + (i - f) < MaxSteps
    BY <1>1 DEF IInv, Budgeted, InBatch, Tasks
  <2> QED BY <2>1, <2>2, <2>3, Constants
<1>3. PICK m \in Nat : m >= f /\ m <= Len(c) /\ G = f .. m
  BY <1>1, GroupInterval
<1>4. Cardinality(G) = m - f + 1
  <2>1. f \in Int /\ m \in Int /\ ~(f > m)
    BY <1>2, <1>3
  <2>2. Cardinality(f .. m) = IF f > m THEN 0 ELSE m - f + 1
    BY <2>1, FS_Interval
  <2> QED BY <1>3, <2>1, <2>2
<1>5. PICK n \in Nat :
        /\ n <= Cardinality(G) /\ task' \in Tasks /\ task'.attempts = task.attempts
        /\ task'.steps = task.steps + n /\ task'.steps <= MaxSteps
        /\ dirty' => task'.changed /\ ~task'.verified
        /\ guard' \in Guards /\ guard'.calls = guard.calls
  <2> DEFINE S == {i \in G : res[i].counts}
  <2>1. G \in SUBSET Group /\ pc = "run"
    BY <1>1
  <2>2. /\ task' \in Tasks /\ task'.attempts = task.attempts /\ task'.steps = task.steps + Cardinality(S)
        /\ task'.steps <= MaxSteps /\ Cardinality(S) \in Nat /\ Cardinality(S) <= Cardinality(Group)
        /\ (\E i \in G : res[i].told) \/ (dirty /\ ~Passed(G, res)) => task'.changed /\ ~task'.verified
        /\ guard' \in Guards /\ guard'.calls = guard.calls
    BY <1>0, <2>1, Taken
  <2> HIDE DEF S
  <2> QED BY <1>0, <2>2
<1>6. /\ batch' \in Bundles /\ batch'.calls = c /\ batch'.blocked = batch.blocked /\ batch'.next = m + 1
  <2>1. f + Cardinality(G) = m + 1 /\ m + 1 \in Nat \ {0}
    BY <1>2, <1>3, <1>4
  <2>2. batch' = [batch EXCEPT !.next = m + 1]
    BY <1>0, <2>1
  <2> QED BY <1>1, <2>1, <2>2 DEF Bundles
<1>7. ledger' \in Ledgers /\ ledger'.open = ledger.open \ G /\ ledger'.torn = ledger.torn
  BY <1>0, <1>1 DEF Ledgers
<1>8. saved' \in Ledgers
  BY <1>0, <1>1, <1>7, SavedTypes
<1>9. IF ok THEN pc' = "batch" /\ outcome' = "none" ELSE pc' = "idle" /\ outcome' = "error"
  BY <1>0, <1>1 DEF Then, Goto, Return
<1>10. Types'
  BY <1>1, <1>5, <1>6, <1>7, <1>8, <1>9 DEF Types, TypeOK
<1>11. Budgeted'
  <2>1. ASSUME NEW i \in DOMAIN c \ batch.blocked, i >= m + 1
        PROVE  task'.steps + (i - (m + 1)) < MaxSteps
    <3>1. i \in Nat /\ i >= f /\ task.steps + (i - f) < MaxSteps
      BY <1>2, <1>3, <2>1
    <3> QED BY <1>2, <1>3, <1>4, <1>5, <2>1, <3>1
  <2> QED BY <1>5, <1>6, <2>1 DEF Budgeted
<1>12. Answering'
  <2>1. ~cut => ~ledger.torn /\ \A i \in ledger.open : i >= f
    BY <1>1 DEF IInv, Answering, InBatch
  <2>2. ~cut => \A i \in ledger'.open : i \in 1 .. Len(c) /\ i >= m + 1
    BY <1>1, <1>2, <1>3, <1>7, <2>1
  <2>3. CASE ok
    BY <1>0, <1>6, <1>7, <1>9, <2>1, <2>2, <2>3 DEF Answering, InBatch
  <2>4. CASE ~ok
    <3>1. ~cut' => ~cut /\ ~(m + 1 <= Len(c))
      BY <1>0, <1>6, <2>4
    <3>2. ~cut' => ledger'.open = {}
      BY <1>2, <2>2, <3>1
    <3> QED BY <1>7, <1>9, <2>1, <2>4, <3>1, <3>2 DEF Answering, InBatch
  <2> QED BY <2>3, <2>4
<1>13. Checked' /\ Turning' /\ Freezing'
  BY <1>0, <1>1, <1>5, <1>9 DEF IInv, Checked, VerifiedAnswer, Turning, Freezing
<1> QED BY <1>10, <1>11, <1>12, <1>13 DEF IInv

\* A call pauses the turn: the results before it are in the task, and its batch is
\* left.
LEMMA PauseStep ==
  ASSUME IInv, Pause
  PROVE  IInv'
<1>0. PICK H \in SUBSET Group : \E res \in [H -> UNION {Results(i) : i \in H}] :
        /\ \A i \in H : res[i] \in Results(i)
        /\ guard'  = Observed(H, res)
        /\ task'   = Accepted(H, res)
        /\ ledger' = [ledger EXCEPT !.open = @ \ H]
        /\ pc' = "idle" /\ outcome' \in {"paused", "error"}
        /\ ~Passed(H, res)
  <2>1. PICK p \in Group :
          LET before == {i \in Group : i < p} IN
          \E res \in [before -> UNION {Results(i) : i \in before}] :
            /\ \A i \in before : res[i] \in Results(i)
            /\ guard'  = Observed(before, res)
            /\ task'   = Accepted(before, res)
            /\ ledger' = [ledger EXCEPT !.open = @ \ before]
            /\ pc' = "idle" /\ outcome' \in {"paused", "error"}
    BY DEF Pause, Answered, Freeze, Return
  <2>2. ASSUME NEW i \in Group, i < p PROVE batch.calls[i] = "look"
    <3>1. batch \in Bundles /\ batch.next <= Len(batch.calls)
      BY DEF IInv, Types, Turning, Pause
    <3>2. PICK m \in Nat : /\ Group = batch.next .. m
                           /\ m = batch.next \/ \A k \in Group : batch.calls[k] = "look"
      BY <3>1, GroupInterval
    <3>3. ~(m = batch.next)
      BY <2>2, <3>1, <3>2 DEF Bundles
    <3> QED BY <3>2, <3>3
  <2> DEFINE before == {i \in Group : i < p}
  <2>3. PICK res \in [before -> UNION {Results(i) : i \in before}] :
          /\ \A i \in before : res[i] \in Results(i)
          /\ guard'  = Observed(before, res)
          /\ task'   = Accepted(before, res)
          /\ ledger' = [ledger EXCEPT !.open = @ \ before]
          /\ pc' = "idle" /\ outcome' \in {"paused", "error"}
    BY <2>1
  <2>4. before \in SUBSET Group /\ ~Passed(before, res)
    BY <2>2 DEF Passed
  <2> HIDE DEF before
  <2> QED BY <2>3, <2>4
<1>1. PICK res \in [H -> UNION {Results(i) : i \in H}] :
        /\ \A i \in H : res[i] \in Results(i)
        /\ guard'  = Observed(H, res)
        /\ task'   = Accepted(H, res)
        /\ ledger' = [ledger EXCEPT !.open = @ \ H]
        /\ pc' = "idle" /\ outcome' \in {"paused", "error"}
        /\ ~Passed(H, res)
  BY <1>0
<1>2. /\ pc = "run" /\ cut' /\ UNCHANGED <<mode, saved, batch, dirty>>
      /\ ledger \in Ledgers /\ saved \in Ledgers /\ batch \in Bundles
      /\ task.attempts \in 0 .. MaxAttempts /\ guard.calls \in 0 .. 2
  BY DEF Pause, edits, IInv, Types, TypeOK
<1>3. /\ task' \in Tasks /\ task'.attempts = task.attempts /\ task'.steps <= MaxSteps
      /\ dirty => task'.changed /\ ~task'.verified
      /\ guard' \in Guards /\ guard'.calls = guard.calls
  BY <1>1, <1>2, Taken
<1>4. ledger' \in Ledgers
  BY <1>1, <1>2 DEF Ledgers
<1>5. Types'
  BY <1>1, <1>2, <1>3, <1>4 DEF Types, TypeOK
<1> QED BY <1>1, <1>2, <1>3, <1>5
      DEF IInv, Budgeted, Answering, InBatch, Checked, VerifiedAnswer, Turning, Freezing

-----------------------------------------------------------------------------
\* The engine's state agrees with its ledger, its batch and its budgets at every
\* step of every turn.
THEOREM TurnInvariant == Spec => []IInv
<1>1. Init => IInv
  BY NewTypes, Constants DEF Init, IInv, Types, TypeOK, Budgeted, Answering, Checked, VerifiedAnswer,
                             Turning, InBatch, Freezing
<1>2. IInv /\ [Next]_vars => IInv'
  BY OutsideSteps, AttemptStep, AnswerSteps, CallsStep, BatchSteps, FinishStep, PauseStep, OtherSteps
     DEF Next, Run, Model
<1> QED BY <1>1, <1>2, PTL DEF Spec

\* engine.go and tool_batch.go: the tools a turn runs stay within MaxSteps, for
\* every batch the model asks for.
THEOREM StepsStayBounded == Spec => []StepsBounded
BY TurnInvariant, PTL DEF IInv, Budgeted, StepsBounded

\* readiness.go and acceptToolResult: under the strict mode no answer leaves a turn
\* with an edit that a tool reported and no passing verification followed.
THEOREM AnswersVerified == Spec => []VerifiedAnswer
BY TurnInvariant, PTL DEF IInv, Checked

\* Whatever leaves a batch, the calls before the group at hand have their results.
Ran == \A i \in ledger.open : i >= batch.next

\* A step either asks for a new batch, ends a group of it, or leaves no call open
\* that was not.
LEMMA RanStep ==
  ASSUME IInv, Ran, [Next]_vars
  PROVE  Ran'
<1>0. /\ ledger \in Ledgers /\ saved \in Ledgers /\ batch \in Bundles
      /\ Say(ledger).open = {} /\ Empty.open = {}
  BY SayLedger, NewTypes DEF IInv, Types
<1>1. CASE ModelCalls
  <2>1. PICK calls \in Batches : ledger'.open = DOMAIN calls /\ batch'.next = 1
    BY <1>0, <1>1 DEF ModelCalls, Ledgers, Say
  <2>2. DOMAIN calls = 1 .. Len(calls) /\ Len(calls) \in Nat
    BY Constants, LenProperties
  <2> QED BY <2>1, <2>2 DEF Ran
<1>2. CASE Finish
  <2>1. /\ ledger' = [ledger EXCEPT !.open = @ \ Group]
        /\ batch' = [batch EXCEPT !.next = @ + Cardinality(Group)]
    BY <1>2 DEF Finish, Answered
  <2>2. batch.next <= Len(batch.calls)
    BY <1>2 DEF IInv, Turning, Finish
  <2>3. PICK m \in Nat : m >= batch.next /\ Group = batch.next .. m
    BY <1>0, <2>2, GroupInterval
  <2>4. batch.next \in Nat /\ Cardinality(Group) = m - batch.next + 1
    <3>1. batch.next \in Int /\ m \in Int /\ ~(batch.next > m)
      BY <1>0, <2>3 DEF Bundles
    <3>2. Cardinality(batch.next .. m) = IF batch.next > m THEN 0 ELSE m - batch.next + 1
      BY <3>1, FS_Interval
    <3> QED BY <1>0, <2>3, <3>1, <3>2 DEF Bundles
  <2>5. batch'.next = m + 1
    BY <1>0, <2>1, <2>4 DEF Bundles
  <2>6. ledger'.open = ledger.open \ Group /\ ledger.open \subseteq Nat
    BY <1>0, <2>1 DEF Ledgers
  <2> QED BY <2>3, <2>4, <2>5, <2>6 DEF Ran
<1>3. CASE Pause
  <2>1. batch' = batch /\ \E H \in SUBSET Group : ledger' = [ledger EXCEPT !.open = @ \ H]
    BY <1>3 DEF Pause, Answered
  <2> QED BY <1>0, <2>1 DEF Ran, Ledgers
<1>4. CASE Ask \/ Reset \/ Reopen
  <2>1. CASE Ask
    BY <1>0, <2>1 DEF Ask, Ran
  <2>2. CASE Reset
    BY <1>0, <2>2 DEF Reset, Ran
  <2>3. CASE Reopen
    <3>1. batch'.next = 1 /\ (ledger' = saved \/ ledger' = Empty)
      BY <2>3 DEF Reopen, Repair, NoBatch
    <3> QED BY <1>0, <3>1 DEF Ran, Ledgers
  <2> QED BY <1>4, <2>1, <2>2, <2>3
<1>5. CASE ~(ModelCalls \/ Finish \/ Pause \/ Ask \/ Reset \/ Reopen)
  <2>1. batch' = batch /\ (ledger' = ledger \/ ledger' = Say(ledger))
    BY <1>5 DEF Next, Run, Model, vars, session, edits, Begin, Ingest, Prepare, Exhausted, Abandon, Attempt,
                Arrive, Measure, Overflow, ModelFails, ModelBabbles, ModelAnswers, ModelRepeats, Dispatch,
                BatchDone, BatchCut, Cancel, Collect
  <2> QED BY <1>0, <2>1 DEF Ran
<1> QED BY <1>1, <1>2, <1>3, <1>4, <1>5

\* Between turns every call of the ledger has its result, unless a cancellation,
\* a failed write or a pause cut a batch short; and then those have it that come
\* before the group at which the batch was left.
THEOREM LedgerClosed == Spec => []ClosedUnlessCut
<1>1. IInv /\ Ran => ClosedUnlessCut
  <2> SUFFICES ASSUME IInv, pc = "idle", ~cut PROVE ledger = Empty
    BY DEF ClosedUnlessCut, Closed, Ran
  <2>1. ledger \in Ledgers /\ ledger.open = {} /\ ledger.torn = FALSE
    BY DEF IInv, Types, Answering, InBatch, Ledgers
  <2> QED BY <2>1 DEF Ledgers, Empty
<1>2. Init => Ran
  BY NewTypes DEF Init, Ran
<1>3. IInv /\ Ran /\ [Next]_vars => Ran'
  BY RanStep
<1> QED BY <1>1, <1>2, <1>3, TurnInvariant, PTL DEF Spec

-----------------------------------------------------------------------------
(* The context of the turn                                                 *)

\* The records of a build and of the curator's files have their fields.
Fielded ==
  /\ DOMAIN call = {"shown", "state", "rule", "score", "ref", "steps", "ids", "keep", "blind"}
  /\ DOMAIN files = {"state", "relevance", "archives"}

\* Once a build has its fixed material, what is protected is in what it keeps, and
\* the working state it shows is one that may stand.
Building ==
  build \notin {"idle", "load"} =>
    /\ Protected \subseteq call.keep
    /\ ~call.blind => call.shown \in standing

\* The file's state may stand; between the two writes of a plan it is the plan's.
Standing ==
  /\ files.state \in standing
  /\ build = "accept" => files.state = call.state

\* While the curator is at work every group has its reference, or none.
Curating == {"curate", "rescore", "accept"}
Referred == build \in Curating => DOMAIN call.ref = Groups

\* A build that is under way has returned nothing.
Pending == build # "idle" => result = NoResult

Sound == BudgetOwned /\ StateCarried

\* The references of the scores in a file, and of a build's groups.
FiledBacked(f) == \A e \in f.relevance : e.ref # {} => e.ref \in f.archives /\ e.print \in e.ref
RefsBacked(f, c, h) == \A i \in DOMAIN c.ref : c.ref[i] # {} =>
                         c.ref[i] \in f.archives /\ <<i, h[i]>> \in c.ref[i]

ContextInv ==
  /\ Fielded /\ Building /\ Referred /\ Standing /\ Pending /\ Sound
  /\ FiledBacked(files) /\ RefsBacked(files, call, hist)

\* What is protected, and what fits, is a matter of the session alone.
LEMMA HistOnly ==
  ASSUME UNCHANGED hist
  PROVE  /\ Protected' = Protected /\ Groups' = Groups
         /\ \A s, G : Fits(s, G)' = Fits(s, G)
<1>1. hist' = hist
  OBVIOUS
<1>2. Protected' = Protected /\ Groups' = Groups
  <2>1. Groups' = Groups
    BY <1>1 DEF Groups
  <2>2. \A i : Offset(i)' = Offset(i)
    BY <1>1, ZenonT(40) DEF Offset, Msgs, Groups, MapThenSumSet,
        MapThenFoldSet
  <2> QED BY <1>1, <2>1, <2>2 DEF Protected
<1>3. \A s, G : Fits(s, G)' = Fits(s, G)
  BY <1>1, ZenonT(60) DEF Fits, Cost, MapThenSumSet, MapThenFoldSet
<1> QED BY <1>2, <1>3

\* What an action of a build leaves to show, when it returns nothing.
LEMMA BuildMoves ==
  ASSUME ContextInv, UNCHANGED <<hist, result>>, build # "idle", build' # "idle",
         DOMAIN call' = DOMAIN call, DOMAIN files' = DOMAIN files,
         build' \notin {"idle", "load"} =>
           /\ Protected \subseteq call'.keep
           /\ ~call'.blind => call'.shown \in standing',
         files'.state \in standing', build' = "accept" => files'.state = call'.state,
         build' \in Curating => DOMAIN call'.ref = Groups,
         FiledBacked(files'), RefsBacked(files', call', hist)
  PROVE  ContextInv'
<1>1. hist' = hist /\ result' = result
  OBVIOUS
<1>2. Fielded' /\ Standing'
  BY DEF ContextInv, Fielded, Standing
<1>3. Building' /\ Referred'
  BY <1>1, HistOnly DEF Building, Referred
<1>4. result' = NoResult
  BY <1>1 DEF ContextInv, Pending
<1>5. Pending'
  BY <1>4 DEF Pending, NoResult
<1>6. Sound'
  BY <1>4 DEF Sound, BudgetOwned, StateCarried, NoResult
<1>7. FiledBacked(files)' /\ RefsBacked(files, call, hist)'
  BY <1>1 DEF FiledBacked, RefsBacked
<1> QED BY <1>2, <1>3, <1>5, <1>6, <1>7 DEF ContextInv

\* fallbackSelection, and every other selection, has what is protected.
LEMMA Selected == \A G : Protected \subseteq Selection(G)
BY DEF Selection

\* The rules decide on the selection.
LEMMA FallBackMoves ==
  ASSUME ContextInv, build \notin {"idle", "load"}, UNCHANGED <<hist, files, result, standing>>,
         FallBack(call)
  PROVE  ContextInv'
<1>1. call' = [call EXCEPT !.keep = Fallback] /\ build' = "fit"
  BY DEF FallBack
<1>2. Protected \subseteq Fallback
  BY Selected DEF Fallback
<1> DEFINE k == Fallback
<1> HIDE DEF k
<1>3. /\ DOMAIN call' = DOMAIN call /\ call'.keep = k /\ call'.shown = call.shown
      /\ call'.blind = call.blind /\ call'.ref = call.ref
  BY <1>1 DEF ContextInv, Fielded, k
<1>4. files' = files /\ standing' = standing
  OBVIOUS
<1>5. RefsBacked(files', call', hist)
  BY <1>3, <1>4 DEF ContextInv, RefsBacked
<1> QED BY <1>1, <1>2, <1>3, <1>4, <1>5, BuildMoves DEF ContextInv, Building, Standing, Curating, k

\* The next request, whatever the session was.
LEMMA AskInv == ASSUME ContextInv, NextTurn PROVE ContextInv'
<1>1. /\ build' = "load" /\ call' = NoCall /\ result' = NoResult
      /\ UNCHANGED <<files, standing>>
  BY DEF NextTurn
<1>2. Fielded'
  BY <1>1 DEF ContextInv, Fielded, NoCall
<1>3. Building' /\ Referred' /\ Standing'
  BY <1>1 DEF ContextInv, Building, Referred, Standing, Curating
<1>4. Pending'
  BY <1>1 DEF Pending, NoResult
<1>5. Sound'
  BY <1>1 DEF Sound, BudgetOwned, StateCarried, NoResult
<1>6. FiledBacked(files)'
  BY <1>1 DEF ContextInv, FiledBacked
<1>7. RefsBacked(files, call, hist)'
  <2>1. call'.ref = <<>>
    BY <1>1 DEF NoCall
  <2>2. DOMAIN call'.ref = {}
    BY <2>1
  <2> QED BY <2>2 DEF RefsBacked
<1> QED BY <1>2, <1>3, <1>4, <1>5, <1>6, <1>7 DEF ContextInv

\* Phase A: what it shows is what the file says, or it is blind.
LEMMA LoadContextInv == ASSUME ContextInv, Load PROVE ContextInv'
<1>1. /\ build = "load" /\ UNCHANGED <<hist, files, result, standing>>
      /\ build' \in {"fit", "choose"}
      /\ \E readable \in BOOLEAN :
           call' = [call EXCEPT !.shown = Loaded(readable), !.blind = ~readable,
                                !.rule = [i \in Groups |-> RuleScore(i)],
                                !.keep = Groups]
  BY DEF Load
<1>2. PICK readable \in BOOLEAN :
           call' = [call EXCEPT !.shown = Loaded(readable), !.blind = ~readable,
                                !.rule = [i \in Groups |-> RuleScore(i)],
                                !.keep = Groups]
  BY <1>1
<1> DEFINE shown == Loaded(readable)
           rule == [i \in Groups |-> RuleScore(i)]
           k == Groups
<1> HIDE DEF shown, rule, k
<1>3. /\ DOMAIN call' = DOMAIN call /\ call'.keep = k /\ call'.shown = shown
      /\ call'.blind = ~readable /\ call'.ref = call.ref
  BY <1>2 DEF ContextInv, Fielded, shown, rule, k
<1>4. files' = files /\ standing' = standing
  BY <1>1
<1>5. Protected \subseteq k
  BY DEF Protected, k
<1>6. readable => shown = files.state
  BY DEF shown, Loaded
<1>7. RefsBacked(files', call', hist)
  BY <1>3, <1>4 DEF ContextInv, RefsBacked
<1> QED BY <1>1, <1>3, <1>4, <1>5, <1>6, <1>7, BuildMoves DEF ContextInv, Standing, Curating

\* Rules, Select and Drop.
LEMMA ChooseInv == ASSUME ContextInv, Rules \/ Select \/ Drop PROVE ContextInv'
<1>1. ASSUME Rules PROVE ContextInv'
  BY <1>1, FallBackMoves DEF Rules
<1>2. ASSUME Select PROVE ContextInv'
  <2>1. /\ build = "choose" /\ build' = "fit" /\ UNCHANGED <<hist, files, result, standing>>
        /\ \E rule : call' = [call EXCEPT !.rule = rule]
    BY <1>2 DEF Select
  <2>2. PICK rule : call' = [call EXCEPT !.rule = rule]
    BY <2>1
  <2>3. /\ DOMAIN call' = DOMAIN call /\ call'.keep = call.keep /\ call'.shown = call.shown
        /\ call'.blind = call.blind /\ call'.ref = call.ref
    BY <2>2 DEF ContextInv, Fielded
  <2>4. files' = files /\ standing' = standing
    BY <2>1
  <2>5. RefsBacked(files', call', hist)
    BY <2>3, <2>4 DEF ContextInv, RefsBacked
  <2> QED BY <2>1, <2>3, <2>4, <2>5, BuildMoves DEF ContextInv, Standing, Building, Curating
<1>3. ASSUME Drop PROVE ContextInv'
  <2>1. PICK i \in Expendable : call' = [call EXCEPT !.keep = @ \ {i}]
    BY <1>3 DEF Drop
  <2>2. /\ build = "fit" /\ build' = build /\ UNCHANGED <<hist, files, result, standing>>
    BY <1>3 DEF Drop
  <2>3. i \notin Protected
    BY <2>1 DEF Expendable
  <2>4. /\ DOMAIN call' = DOMAIN call /\ call'.keep = call.keep \ {i} /\ call'.shown = call.shown
        /\ call'.blind = call.blind /\ call'.ref = call.ref
    BY <2>1 DEF ContextInv, Fielded
  <2>5. files' = files /\ standing' = standing
    BY <2>2
  <2>6. RefsBacked(files', call', hist)
    BY <2>4, <2>5 DEF ContextInv, RefsBacked
  <2>7. Protected \subseteq call'.keep
    BY <2>2, <2>3, <2>4 DEF ContextInv, Building
  <2> QED BY <2>2, <2>4, <2>5, <2>6, <2>7, BuildMoves DEF ContextInv, Standing, Building, Curating
<1> QED BY <1>1, <1>2, <1>3

\* A build ends, with a result that is sound for the session as it is.
LEMMA EndMoves ==
  ASSUME ContextInv, build' = "idle", call' = NoCall, UNCHANGED <<hist, files, standing>>,
         Sound'
  PROVE  ContextInv'
<1>1. Fielded' /\ Building' /\ Referred' /\ Standing' /\ Pending'
  BY DEF ContextInv, Fielded, Building, Referred, Curating, Standing, Pending, NoCall
<1>2. FiledBacked(files)'
  BY DEF ContextInv, FiledBacked
<1>3. RefsBacked(files, call, hist)'
  <2>1. call'.ref = <<>>
    BY DEF NoCall
  <2>2. DOMAIN call'.ref = {}
    BY <2>1
  <2> QED BY <2>2 DEF RefsBacked
<1> QED BY <1>1, <1>2, <1>3 DEF ContextInv

\* Deliver, Refuse and Cancel return what the build has; Crash returns nothing.
LEMMA ReturnInv ==
  ASSUME ContextInv, Deliver \/ Refuse \/ CancelBuild \/ Crash
  PROVE  ContextInv'
<1>1. build' = "idle" /\ call' = NoCall /\ UNCHANGED <<hist, files, standing>>
  BY DEF Deliver, Refuse, CancelBuild, Crash, ReturnBuild
<1>2. hist' = hist /\ standing' = standing
  BY <1>1
<1>3. ASSUME Deliver PROVE Sound'
  <2>1. /\ build = "fit" /\ Fits(call.shown, call.keep)
        /\ result' = [kind |-> "prompt", keep |-> call.keep, state |-> call.shown, blind |-> call.blind]
    BY <1>3 DEF Deliver, ReturnBuild
  <2>2. /\ Protected \subseteq call.keep
        /\ ~call.blind => call.shown \in standing
    BY <2>1 DEF ContextInv, Building
  <2>3. /\ result'.kind = "prompt" /\ result'.keep = call.keep /\ result'.state = call.shown
        /\ result'.blind = call.blind
    BY <2>1
  <2>4. PICK s, G : s = call.shown /\ G = call.keep
    OBVIOUS
  <2>5. Fits(s, G)'
    BY <1>2, <2>1, <2>4, HistOnly
  <2>6. Fits(result.state, result.keep)'
    BY <2>3, <2>4, <2>5, Zenon DEF Fits, Cost
  <2> QED BY <1>2, <2>2, <2>3, <2>6, HistOnly DEF Sound, BudgetOwned, StateCarried
<1>4. ASSUME Refuse PROVE Sound'
  <2>1. /\ build = "fit" /\ ~Fits(call.shown, call.keep) /\ Expendable = {}
        /\ result' = [kind |-> "over budget", keep |-> call.keep, state |-> call.shown, blind |-> call.blind]
    BY <1>4 DEF Refuse, ReturnBuild
  <2>2. Protected \subseteq call.keep
    BY <2>1 DEF ContextInv, Building
  <2>3. call.keep = Protected
    BY <2>1, <2>2 DEF Expendable
  <2>4. result'.kind = "over budget" /\ result'.state = call.shown
    BY <2>1
  <2>5. PICK s, G : s = call.shown /\ G = Protected
    OBVIOUS
  <2>6. ~Fits(s, G)'
    BY <1>2, <2>1, <2>3, <2>5, HistOnly
  <2>7. Protected' = G
    BY <1>2, <2>5, HistOnly
  <2>8. ~Fits(result.state, Protected)'
    BY <2>4, <2>5, <2>6, <2>7, Zenon DEF Fits, Cost
  <2> QED BY <2>4, <2>8 DEF Sound, BudgetOwned, StateCarried
<1>5. ASSUME CancelBuild \/ Crash PROVE Sound'
  <2>1. result'.kind \in {"cancelled", "none"}
    BY <1>5 DEF CancelBuild, Crash, ReturnBuild, NoResult
  <2> QED BY <2>1 DEF Sound, BudgetOwned, StateCarried
<1> QED BY <1>1, <1>3, <1>4, <1>5, EndMoves

-----------------------------------------------------------------------------
(* The curator                                                             *)

\* loadScores: a reference that is read back is the group's own.
LEMMA OpenInv == ASSUME ContextInv, Open PROVE ContextInv'
<1>1. build = "choose" /\ UNCHANGED <<hist, files, result, standing>>
  BY DEF Open
<1>2. ASSUME FallBack(call) PROVE ContextInv'
  BY <1>1, <1>2, FallBackMoves
<1>3. ASSUME build' = "curate",
             call' = [call EXCEPT !.state = files.state,
                                  !.score = [i \in Groups |-> LoadedScore(i)],
                                  !.ref = [i \in Groups |-> LoadedRef(i)]]
      PROVE  ContextInv'
  <2> DEFINE score == [i \in Groups |-> LoadedScore(i)]
             ref == [i \in Groups |-> LoadedRef(i)]
  <2>1. ASSUME NEW i \in Groups, ref[i] # {}
        PROVE  ref[i] \in files.archives /\ <<i, hist[i]>> \in ref[i]
    <3>1. /\ Found(i) # {}
          /\ ref[i] = (CHOOSE e \in Found(i) : TRUE).ref
      BY <2>1 DEF LoadedRef, None
    <3>2. PICK e \in Found(i) : ref[i] = e.ref
      BY <3>1
    <3>3. e \in files.relevance /\ e.print = <<i, hist[i]>>
      BY <3>2 DEF Found, Mark
    <3> HIDE DEF ref
    <3> QED BY <2>1, <3>2, <3>3 DEF ContextInv, FiledBacked
  <2>2. DOMAIN ref = Groups
    OBVIOUS
  <2> HIDE DEF ref, score
  <2>3. /\ DOMAIN call' = DOMAIN call /\ call'.keep = call.keep /\ call'.shown = call.shown
        /\ call'.blind = call.blind /\ call'.ref = ref
    BY <1>3 DEF ContextInv, Fielded, score, ref
  <2>4. files' = files /\ standing' = standing
    BY <1>1
  <2>5. RefsBacked(files', call', hist)
    BY <2>1, <2>2, <2>3, <2>4 DEF RefsBacked
  <2> QED BY <1>1, <1>3, <2>3, <2>4, <2>5, BuildMoves DEF ContextInv, Standing, Building
<1> QED BY <1>2, <1>3 DEF Open

\* A step of the curator's loop that touches neither its files nor a reference.
LEMMA CurateMoves ==
  ASSUME ContextInv, build = "curate", build' = "curate",
         UNCHANGED <<hist, files, result, standing>>,
         DOMAIN call' = DOMAIN call, call'.keep = call.keep, call'.shown = call.shown,
         call'.blind = call.blind, call'.ref = call.ref
  PROVE  ContextInv'
<1>1. files' = files /\ standing' = standing
  OBVIOUS
<1>2. RefsBacked(files', call', hist)
  BY <1>1 DEF ContextInv, RefsBacked
<1> QED BY <1>1, <1>2, BuildMoves DEF ContextInv, Standing, Building, Referred, Curating

\* The builder at its next step, field by field.
LEMMA SteppedIs ==
  ASSUME Fielded
  PROVE  /\ DOMAIN Stepped = DOMAIN call
         /\ Stepped.keep = call.keep /\ Stepped.shown = call.shown
         /\ Stepped.blind = call.blind /\ Stepped.ref = call.ref
         /\ Stepped.state = call.state
BY DEF Fielded, Stepped

\* Look, Score and Note.
LEMMA LooksInv == ASSUME ContextInv, Look \/ Score \/ Note PROVE ContextInv'
<1>0. Fielded
  BY DEF ContextInv
<1>1. /\ build = "curate" /\ build' = "curate" /\ UNCHANGED <<hist, files, result, standing>>
      /\ \/ call' = Stepped
         \/ \E score : call' = [Stepped EXCEPT !.score = score]
         \/ \E w : call' = [Stepped EXCEPT !.state = w]
  BY DEF Look, Score, Note, Answers, Goes
<1>2. /\ DOMAIN call' = DOMAIN call /\ call'.keep = call.keep /\ call'.shown = call.shown
      /\ call'.blind = call.blind /\ call'.ref = call.ref
  <2>1. ASSUME NEW score, call' = [Stepped EXCEPT !.score = score]
        PROVE  /\ DOMAIN call' = DOMAIN call /\ call'.keep = call.keep /\ call'.shown = call.shown
               /\ call'.blind = call.blind /\ call'.ref = call.ref
    BY <1>0, <2>1, SteppedIs DEF Fielded
  <2>2. ASSUME NEW w, call' = [Stepped EXCEPT !.state = w]
        PROVE  /\ DOMAIN call' = DOMAIN call /\ call'.keep = call.keep /\ call'.shown = call.shown
               /\ call'.blind = call.blind /\ call'.ref = call.ref
    BY <1>0, <2>2, SteppedIs DEF Fielded
  <2> QED BY <1>0, <1>1, <2>1, <2>2, SteppedIs
<1> QED BY <1>1, <1>2, CurateMoves

\* archive: a group gets a reference once the archive that has it is on disk.
LEMMA ArchiveInv == ASSUME ContextInv, Archive PROVE ContextInv'
<1>0. Fielded
  BY DEF ContextInv
<1>1. PICK G \in SUBSET (Groups \ Protected) \ {{}}, ok \in BOOLEAN :
        /\ Written(ok, [files EXCEPT !.archives = @ \cup {Content(G)}])
        /\ IF ok
           THEN /\ call' = [Stepped EXCEPT
                     !.score = [i \in Groups |-> IF i \in G /\ @[i] > 45 THEN 45 ELSE @[i]],
                     !.ref   = [i \in Groups |-> IF i \in G THEN Content(G) ELSE @[i]]]
                /\ build' = "rescore"
           ELSE call' = Stepped /\ build' = "curate"
  BY DEF Archive, Answers, Archived
<1>2. build = "curate" /\ UNCHANGED <<hist, result, standing>>
  BY DEF Archive, Answers
<1> DEFINE new == [files EXCEPT !.archives = @ \cup {Content(G)}]
<1>3. files' \in {files, new} /\ (ok => files' = new)
  BY <1>1 DEF Written
<1>4. /\ DOMAIN new = DOMAIN files /\ new.state = files.state /\ new.relevance = files.relevance
      /\ new.archives = files.archives \cup {Content(G)}
  BY <1>0 DEF Fielded
<1> HIDE DEF new
<1>5. /\ DOMAIN files' = DOMAIN files /\ files'.state = files.state
      /\ files'.relevance = files.relevance /\ files.archives \subseteq files'.archives
      /\ ok => Content(G) \in files'.archives
  BY <1>3, <1>4
<1>6. FiledBacked(files')
  BY <1>5 DEF ContextInv, FiledBacked
<1>7. standing' = standing
  BY <1>2
<1>8. CASE ok
  <2> DEFINE score == [i \in Groups |-> IF i \in G /\ Stepped.score[i] > 45
                                        THEN 45 ELSE Stepped.score[i]]
             ref == [i \in Groups |-> IF i \in G THEN Content(G) ELSE Stepped.ref[i]]
  <2>1. call' = [Stepped EXCEPT !.score = score, !.ref = ref]
    BY <1>1, <1>8
  <2>2. ASSUME NEW i \in Groups, ref[i] # {}
        PROVE  ref[i] \in files'.archives /\ <<i, hist[i]>> \in ref[i]
    <3>1. CASE i \in G
      <4>1. ref[i] = Content(G)
        BY <3>1
      <4>2. <<i, hist[i]>> \in Content(G)
        BY <3>1 DEF Content, Mark
      <4> QED BY <1>5, <1>8, <4>1, <4>2
    <3>2. CASE i \notin G
      <4>1. ref[i] = call.ref[i] /\ i \in DOMAIN call.ref
        BY <1>0, <1>2, <2>2, <3>2, SteppedIs DEF ContextInv, Referred, Curating
      <4> QED BY <1>5, <2>2, <4>1 DEF ContextInv, RefsBacked
    <3> QED BY <3>1, <3>2
  <2>3. DOMAIN ref = Groups
    OBVIOUS
  <2> HIDE DEF score, ref
  <2>4. /\ DOMAIN call' = DOMAIN call /\ call'.keep = call.keep /\ call'.shown = call.shown
        /\ call'.blind = call.blind /\ call'.ref = ref
    BY <1>0, <2>1, SteppedIs DEF Fielded
  <2>5. RefsBacked(files', call', hist)
    BY <2>2, <2>3, <2>4 DEF RefsBacked
  <2>6. build' = "rescore"
    BY <1>1, <1>8
  <2>7. /\ Protected \subseteq call'.keep
        /\ ~call'.blind => call'.shown \in standing'
        /\ files'.state \in standing'
    BY <1>2, <1>5, <1>7, <2>4 DEF ContextInv, Building, Standing
  <2>8. DOMAIN call'.ref = Groups
    BY <2>3, <2>4
  <2> QED BY <1>2, <1>5, <1>6, <2>4, <2>5, <2>6, <2>7, <2>8, BuildMoves
<1>9. CASE ~ok
  <2>1. call' = Stepped /\ build' = "curate"
    BY <1>1, <1>9
  <2>2. /\ DOMAIN call' = DOMAIN call /\ call'.keep = call.keep /\ call'.shown = call.shown
        /\ call'.blind = call.blind /\ call'.ref = call.ref
    BY <1>0, <2>1, SteppedIs
  <2>3. RefsBacked(files', call', hist)
    BY <1>5, <2>2 DEF ContextInv, RefsBacked
  <2> QED BY <1>2, <1>5, <1>6, <1>7, <2>1, <2>2, <2>3, BuildMoves
         DEF ContextInv, Standing, Building, Referred, Curating
<1> QED BY <1>8, <1>9

\* What relevance.json gets is what the build knows of its groups.
LEMMA RelevanceBacked ==
  ASSUME ContextInv, build \in Curating, DOMAIN files' = DOMAIN files, files'.archives = files.archives,
         files'.relevance \in {files.relevance, Relevance}
  PROVE  FiledBacked(files')
<1>1. ASSUME NEW e \in Relevance, e.ref # {}
      PROVE  e.ref \in files.archives /\ e.print \in e.ref
  <2>1. PICK i \in Groups :
          e = [print |-> Mark(i), score |-> call.score[i], ref |-> call.ref[i]]
    BY DEF Relevance
  <2>2. e.print = <<i, hist[i]>> /\ e.ref = call.ref[i]
    BY <2>1 DEF Mark
  <2>3. i \in DOMAIN call.ref
    BY DEF ContextInv, Referred
  <2> QED BY <1>1, <2>2, <2>3 DEF ContextInv, RefsBacked
<1> QED BY <1>1 DEF ContextInv, FiledBacked

\* After an archive the scores are saved, or that fails.
LEMMA SaveArchivedInv == ASSUME ContextInv, SaveArchived PROVE ContextInv'
<1>0. Fielded
  BY DEF ContextInv
<1>1. /\ build = "rescore" /\ build' = "curate" /\ UNCHANGED <<hist, call, result, standing>>
      /\ \E ok \in BOOLEAN : Written(ok, [files EXCEPT !.relevance = Relevance])
  BY DEF SaveArchived
<1> DEFINE r == Relevance
           new == [files EXCEPT !.relevance = r]
<1>2. files' \in {files, new}
  BY <1>1 DEF Written
<1> HIDE DEF r
<1>3. /\ DOMAIN new = DOMAIN files /\ new.state = files.state /\ new.relevance = r
      /\ new.archives = files.archives
  BY <1>0 DEF Fielded
<1> HIDE DEF new
<1>4. /\ DOMAIN files' = DOMAIN files /\ files'.state = files.state
      /\ files'.archives = files.archives /\ files'.relevance \in {files.relevance, r}
  BY <1>2, <1>3
<1>5. FiledBacked(files')
  BY <1>1, <1>4, RelevanceBacked DEF r, Curating
<1>6. call' = call /\ standing' = standing
  BY <1>1
<1>7. RefsBacked(files', call', hist)
  BY <1>4, <1>6 DEF ContextInv, RefsBacked
<1> QED BY <1>1, <1>4, <1>5, <1>6, <1>7, BuildMoves DEF ContextInv, Standing, Building, Referred, Curating

\* finish: the plan's working state is written; the plan is accepted only then.
LEMMA FinishInv == ASSUME ContextInv, FinishPlan PROVE ContextInv'
<1>0. Fielded
  BY DEF ContextInv
<1>1. PICK G \in SUBSET Groups, ok \in BOOLEAN :
        /\ Written(ok, [files EXCEPT !.state = call.state])
        /\ standing' = standing \cup {files'.state}
        /\ call' = [Stepped EXCEPT !.ids = G]
        /\ build' = IF ok THEN "accept" ELSE "curate"
  BY DEF FinishPlan, Answers
<1>2. build = "curate" /\ UNCHANGED <<hist, result>>
  BY DEF FinishPlan, Answers
<1> DEFINE new == [files EXCEPT !.state = call.state]
<1>3. files' \in {files, new} /\ (ok => files' = new)
  BY <1>1 DEF Written
<1>4. /\ DOMAIN new = DOMAIN files /\ new.state = call.state /\ new.relevance = files.relevance
      /\ new.archives = files.archives
  BY <1>0 DEF Fielded
<1> HIDE DEF new
<1>5. /\ DOMAIN files' = DOMAIN files /\ files'.archives = files.archives
      /\ files'.relevance = files.relevance /\ (ok => files'.state = call.state)
  BY <1>3, <1>4
<1>6. /\ DOMAIN call' = DOMAIN call /\ call'.keep = call.keep /\ call'.shown = call.shown
      /\ call'.blind = call.blind /\ call'.ref = call.ref /\ call'.state = call.state
  BY <1>0, <1>1, SteppedIs DEF Fielded
<1>7. FiledBacked(files') /\ RefsBacked(files', call', hist)
  BY <1>5, <1>6 DEF ContextInv, FiledBacked, RefsBacked
<1>8. files'.state \in standing' /\ standing \subseteq standing'
  BY <1>1
<1>9. /\ Protected \subseteq call'.keep
      /\ ~call'.blind => call'.shown \in standing'
      /\ DOMAIN call'.ref = Groups
  BY <1>2, <1>6, <1>8 DEF ContextInv, Building, Referred, Curating
<1>10. build' \in {"accept", "curate"} /\ (build' = "accept" => files'.state = call'.state)
  BY <1>1, <1>5, <1>6
<1> QED BY <1>2, <1>5, <1>6, <1>7, <1>8, <1>9, <1>10, BuildMoves

\* The plan is accepted: its selection, with what is protected, and its state.
LEMMA AcceptInv == ASSUME ContextInv, Accept PROVE ContextInv'
<1>0. Fielded
  BY DEF ContextInv
<1>1. PICK ok \in BOOLEAN :
        /\ Written(ok, [files EXCEPT !.relevance = Relevance])
        /\ IF ok
           THEN /\ call' = [call EXCEPT !.keep = Selection(call.ids), !.shown = Text,
                                        !.rule = call.score]
                /\ standing' = {call.state, Text}
                /\ build' = "fit"
           ELSE call' = call /\ build' = "curate" /\ UNCHANGED standing
  BY DEF Accept
<1>2. build = "accept" /\ UNCHANGED <<hist, result>>
  BY DEF Accept
<1> DEFINE r == Relevance
           new == [files EXCEPT !.relevance = r]
<1>3. files' \in {files, new}
  BY <1>1 DEF Written
<1> HIDE DEF r
<1>4. /\ DOMAIN new = DOMAIN files /\ new.state = files.state /\ new.relevance = r
      /\ new.archives = files.archives
  BY <1>0 DEF Fielded
<1> HIDE DEF new
<1>5. /\ DOMAIN files' = DOMAIN files /\ files'.state = files.state
      /\ files'.archives = files.archives /\ files'.relevance \in {files.relevance, r}
  BY <1>3, <1>4
<1>6. FiledBacked(files')
  BY <1>2, <1>5, RelevanceBacked DEF r, Curating
<1>7. files.state = call.state /\ files.state \in standing
  BY <1>2 DEF ContextInv, Standing
<1>8. CASE ok
  <2> DEFINE text == Text
             keep == Selection(call.ids)
  <2>1. call' = [call EXCEPT !.keep = keep, !.shown = text, !.rule = call.score]
    BY <1>1, <1>8
  <2>2. Protected \subseteq keep
    BY Selected
  <2>3. standing' = {call.state, text} /\ build' = "fit"
    BY <1>1, <1>8
  <2> HIDE DEF text, keep
  <2>4. /\ DOMAIN call' = DOMAIN call /\ call'.keep = keep /\ call'.shown = text
        /\ call'.ref = call.ref
    BY <1>0, <2>1 DEF Fielded
  <2>5. RefsBacked(files', call', hist)
    BY <1>5, <2>4 DEF ContextInv, RefsBacked
  <2>6. files'.state \in standing' /\ call'.shown \in standing' /\ build' \notin Curating
    BY <1>5, <1>7, <2>3, <2>4 DEF Curating
  <2> QED BY <1>2, <1>5, <1>6, <2>2, <2>3, <2>4, <2>5, <2>6, BuildMoves
<1>9. CASE ~ok
  <2>1. call' = call /\ build' = "curate" /\ standing' = standing
    BY <1>1, <1>9
  <2>2. RefsBacked(files', call', hist)
    BY <1>5, <2>1 DEF ContextInv, RefsBacked
  <2> QED BY <1>2, <1>5, <1>6, <1>7, <2>1, <2>2, BuildMoves
          DEF ContextInv, Building, Referred, Curating
<1> QED BY <1>8, <1>9

\* At first nothing is archived or shown.
LEMMA ContextInitInv == ContextInit => ContextInv
<1> SUFFICES ASSUME ContextInit PROVE ContextInv
  OBVIOUS
<1>1. /\ files = [state |-> NoState, relevance |-> {}, archives |-> {}]
      /\ build = "idle" /\ call = NoCall /\ result = NoResult
      /\ standing = {NoState}
  BY DEF ContextInit
<1>2. Fielded /\ Building /\ Referred /\ Standing /\ Pending
  BY <1>1 DEF Fielded, Building, Referred, Curating, Standing, Pending, NoCall
<1>3. Sound
  BY <1>1 DEF Sound, BudgetOwned, StateCarried, NoResult
<1>4. FiledBacked(files)
  BY <1>1 DEF FiledBacked
<1>5. RefsBacked(files, call, hist)
  <2>1. call.ref = <<>>
    BY <1>1 DEF NoCall
  <2>2. DOMAIN call.ref = {}
    BY <2>1
  <2> QED BY <2>2 DEF RefsBacked
<1> QED BY <1>2, <1>3, <1>4, <1>5 DEF ContextInv

\* A step of nobody keeps the invariant.
LEMMA ContextSame == ASSUME ContextInv, UNCHANGED contextVars PROVE ContextInv'
<1>1. /\ hist' = hist /\ files' = files /\ build' = build /\ call' = call /\ result' = result
      /\ standing' = standing
  BY DEF contextVars
<1>2. Fielded' /\ Building' /\ Referred' /\ Standing' /\ Pending'
  BY <1>1, HistOnly DEF ContextInv, Fielded, Building, Referred, Standing, Pending
<1>3. Sound'
  <2>1. PICK s, G : s = result.state /\ G = result.keep
    OBVIOUS
  <2>2. PICK P : P = Protected
    OBVIOUS
  <2>3. /\ Fits(result.state, result.keep) => Fits(result.state, result.keep)'
        /\ Fits(result.state, Protected)' => Fits(result.state, Protected)
    <3>1. result'.state = s /\ result'.keep = G /\ Protected' = P
      BY <1>1, <2>1, <2>2, HistOnly
    <3>2. Fits(s, G)' = Fits(s, G) /\ Fits(s, P)' = Fits(s, P)
      BY <1>1, HistOnly
    <3>3. Fits(result.state, result.keep) => Fits(s, G)
      BY <2>1
    <3>4. Fits(s, G)' => Fits(result.state, result.keep)'
      BY <3>1, Zenon DEF Fits, Cost
    <3>5. Fits(result.state, Protected)' => Fits(s, P)'
      BY <3>1, Zenon DEF Fits, Cost
    <3>6. Fits(s, P) => Fits(result.state, Protected)
      BY <2>1, <2>2
    <3> QED BY <3>2, <3>3, <3>4, <3>5, <3>6
  <2>4. Protected' = Protected
    BY <1>1, HistOnly
  <2> QED BY <1>1, <2>3, <2>4 DEF ContextInv, Sound, BudgetOwned, StateCarried
<1>4. FiledBacked(files)' /\ RefsBacked(files, call, hist)'
  BY <1>1 DEF ContextInv, FiledBacked, RefsBacked
<1> QED BY <1>2, <1>3, <1>4 DEF ContextInv

\* The inductive invariant of a session's builds, for every session, budget and
\* margin, whatever the model proposes and whatever fails.
THEOREM ContextInvariant == ContextSpec => []ContextInv
<1>1. ContextInv /\ [ContextNext]_contextVars => ContextInv'
  <2> SUFFICES ASSUME ContextInv, [ContextNext]_contextVars PROVE ContextInv'
    OBVIOUS
  <2>1. ASSUME GiveUp PROVE ContextInv'
    BY <2>1, FallBackMoves DEF GiveUp
  <2> QED BY <2>1, ContextSame, AskInv, LoadContextInv, ChooseInv, ReturnInv, OpenInv, LooksInv, ArchiveInv,
             SaveArchivedInv, FinishInv, AcceptInv DEF ContextNext
<1> QED BY <1>1, ContextInitInv, PTL DEF ContextSpec

\* curator.go, "the assembler, not the model, owns protection and final budget", and
\* docs/CONTEXT_BUDGET.md:63: a prompt fits and has every protected group, a request
\* is refused only when these alone do not fit, and the working state it shows is
\* the last accepted plan's or one written since.
THEOREM PromptsSound == ContextSpec => []PromptSound
<1>1. ContextInv => PromptSound
  BY DEF ContextInv, Sound, PromptSound
<1> QED BY <1>1, ContextInvariant, PTL

\* docs/CONTEXT_BUDGET.md:63, curator_loop.go: no reference is given out, on disk or
\* to the curator, to an archive that is not on disk with the whole group.
THEOREM ArchivesStayBacked == ContextSpec => []ArchivesBacked
<1>1. ContextInv => ArchivesBacked
  BY DEF ContextInv, FiledBacked, RefsBacked, ArchivesBacked, Mark, None
<1> QED BY <1>1, ContextInvariant, PTL

=============================================================================
