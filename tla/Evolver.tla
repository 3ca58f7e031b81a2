------------------------------- MODULE Evolver -------------------------------
\* Maintenance by candidates (internal/maintenance): one run of the evolver over a
\* fixed contract (evolve.go), and the local pointer to a validated candidate that
\* operators switch and launchers resolve (activation.go).
\*
\* Every run has its own directory, so what other runs left is Earlier: runs that
\* ended with a validated candidate.  A worktree is its content as git diff tells
\* it and a patch file its bytes: the base revision, a patch, or spoiled, which a
\* verifier or anybody else may have made it at any time and nobody undoes.  Files
\* that git ignores come on top of that, in worktrees.  Verifiers may answer differently
\* each time.  Record writes may fail, with or without effect, and each process
\* may die between two steps.
EXTENDS Naturals, Sequences, FiniteSets, SequencesExt

CONSTANTS
  This, Earlier,        \* the run, and the runs that ended well before it
  Patches,              \* what the generator may propose
  TrainCases, HoldoutCases, \* how many cases each split has
  MaxCandidates, MaxVerifierRuns, \* the contract's limits
  Touches,              \* what each patch changes, of Areas
  MaxVersion,           \* bound: changes of the pointer
  MaxTroubles           \* bound: failed writes, crashes, spoiled files

\* Files under AllowedPaths, under ProtectedPaths, of the tests, or anything else,
\* links and submodules included.
Areas == {"target", "protected", "tests", "other"}

\* validateContract: the baseline and one candidate can be measured to the end.
ValidContract ==
  /\ {TrainCases, HoldoutCases} \subseteq Nat \ {0}
  /\ MaxCandidates \in 1 .. 20
  /\ MaxVerifierRuns \in 2 * TrainCases + HoldoutCases .. 10000

ASSUME EvolverConstants ==
  /\ This \notin Earlier
  /\ ValidContract
  /\ Touches \in [Patches -> SUBSET Areas]
  /\ {MaxVersion, MaxTroubles} \subseteq Nat
  /\ {"base", "spoiled", "none"} \cap (Patches \cup Earlier) = {}

VARIABLES
  disk,      \* the run's evolution.json, or NoRecord
  ev,        \* the evolver: pc, its record, the evaluation under way
  tree,      \* the worktree of the baseline, then of the candidate in training
  patch, valid, \* the candidates' patch files; each run's validated worktree
  ignored,   \* the worktrees, "tree" or a run's, that hold files git ignores
  ptr,       \* active.json
  op, look,  \* the holder of the operation lock; the launch under way
  ran,       \* history: verifiers executed, on what content, with what outcome
  launched,  \* history: the last root a launcher was given
  troubles

evolverVars == <<disk, ev, tree, patch, valid, ignored, ptr, op, look, ran, launched, troubles>>
evolver == <<disk, ev, tree, patch, ignored, ran>>
pointer == <<ptr, op, look, launched>>

Runs == Earlier \cup {This}

NoRecord == [status |-> "none", baseline |-> <<>>, cands |-> <<>>, selected |-> 0,
             validation |-> <<>>, runs |-> 0]
NoOp == [kind |-> "none"]

EInit ==
  /\ disk = NoRecord
  /\ ev = [pc |-> "idle", rec |-> NoRecord, stage |-> "baseline", results |-> <<>>, best |-> 0,
           proposed |-> "none"]
  /\ tree = "none" /\ patch = <<>>
  /\ valid = [r \in Runs |-> IF r = This THEN "none" ELSE r]
  /\ ignored = {}
  /\ ptr = [version |-> 0, active |-> "none", history |-> <<>>]
  /\ op = NoOp /\ look = "none" /\ launched = "none"
  /\ ran = <<>> /\ troubles = 0

Trouble == troubles < MaxTroubles /\ troubles' = troubles + 1

\* durable.Replace: the file has the new content, or an error is returned and it
\* has either.
Wrote(ok, file, new) ==
  IF ok THEN file' = new /\ UNCHANGED troubles ELSE Trouble /\ file' \in {file, new}

-----------------------------------------------------------------------------
(* The evolver                                                             *)

At(pc) == ev.pc = pc
Cands  == ev.rec.cands
Count  == Len(Cands)

PassCount(results) == Cardinality({i \in DOMAIN results : results[i]})

Improves(baseline, candidate) ==
  /\ Len(baseline) = Len(candidate)
  /\ PassCount(candidate) > PassCount(baseline)
  /\ \A i \in DOMAIN baseline : baseline[i] => candidate[i]

\* Run's record with the results of the evaluation under way.
WithResults(rec, results, status) ==
  CASE ev.stage = "baseline" -> [rec EXCEPT !.baseline = results]
    [] ev.stage = "train"    -> [rec EXCEPT !.cands[Count].train = results,
                                            !.cands[Count].status = status]
    [] OTHER                 -> [rec EXCEPT !.validation = results]

\* Every return goes through the deferred save; an error ends a running run as
\* failed and leaves any other status.
Ends(rec)  == ev' = [ev EXCEPT !.pc = "finish", !.rec = rec]
Fails(rec) == Ends(IF rec.status = "running" THEN [rec EXCEPT !.status = "failed"] ELSE rec)

\* saveRun in the middle of the run: then goes on at pc, or fails.
Saves(rec, pc) ==
  \E ok \in BOOLEAN :
    /\ Wrote(ok, disk, rec)
    /\ IF ok THEN ev' = [ev EXCEPT !.pc = pc, !.rec = rec] ELSE Fails(rec)

Cases == IF ev.stage = "holdout" THEN HoldoutCases ELSE TrainCases
Tree  == IF ev.stage = "holdout" THEN valid[This] ELSE tree

Evaluates(stage) == [ev EXCEPT !.stage = stage, !.results = <<>>]

\* The first save: no deferred one when it fails.
Start ==
  /\ At("idle")
  /\ \E ok \in BOOLEAN :
       LET rec == [NoRecord EXCEPT !.status = "running"] IN
       /\ Wrote(ok, disk, rec)
       /\ ev' = [ev EXCEPT !.pc = IF ok THEN "meter" ELSE "over", !.rec = rec]
  /\ tree' = "base" /\ ignored' = ignored \ {"tree"}
  /\ UNCHANGED <<patch, valid, ran, pointer>>

\* evaluate ends early: the results so far are kept and nothing is concluded.
Inconclusive(rec, results) ==
  LET ended == WithResults(rec, results, "inconclusive") IN
  Fails(IF ev.stage = "holdout" THEN [ended EXCEPT !.status = "validation_inconclusive"] ELSE ended)

\* evaluate: a verifier is counted on disk before it is executed.
\* (Seeded fault: it is counted in memory only.)
Meter_InMemory ==
  /\ At("meter") /\ Len(ev.results) < Cases /\ ev.rec.runs < MaxVerifierRuns
  /\ ev' = [ev EXCEPT !.pc = "verify", !.rec.runs = @ + 1]
  /\ UNCHANGED <<disk, tree, patch, valid, ignored, ran, pointer, troubles>>
Meter ==
  /\ At("meter") /\ Len(ev.results) < Cases /\ ev.rec.runs < MaxVerifierRuns
  /\ LET rec == [ev.rec EXCEPT !.runs = @ + 1] IN
     \E ok \in BOOLEAN :
       /\ Wrote(ok, disk, rec)
       /\ IF ok THEN ev' = [ev EXCEPT !.pc = "verify", !.rec = rec]
          ELSE Inconclusive(rec, ev.results)
  /\ UNCHANGED <<tree, patch, valid, ignored, ran, pointer>>

Executed(ok) ==
  ran' = Append(ran, [stage |-> ev.stage, cand |-> Count, case |-> Len(ev.results) + 1,
                      on |-> Tree, ok |-> ok])

Verify ==
  /\ At("verify")
  /\ \E ok \in BOOLEAN :
       /\ Executed(ok)
       /\ ev' = [ev EXCEPT !.pc = "meter", !.results = Append(@, ok)]
  /\ UNCHANGED <<disk, tree, patch, valid, ignored, pointer, troubles>>

\* No verifier runs left, the time is over, or a verifier could not be run to its
\* end.
Stopped ==
  /\ At("meter") /\ Len(ev.results) < Cases
  /\ IF ev.rec.runs >= MaxVerifierRuns THEN UNCHANGED troubles ELSE Trouble
  /\ Inconclusive(ev.rec, ev.results)
  /\ UNCHANGED <<disk, tree, patch, valid, ignored, ran, pointer>>

Broken ==
  /\ At("verify")
  /\ Trouble /\ Executed(FALSE) /\ Inconclusive(ev.rec, Append(ev.results, FALSE))
  /\ UNCHANGED <<disk, tree, patch, valid, ignored, pointer>>

Evaluated == At("meter") /\ Len(ev.results) = Cases

BaselineDone ==
  /\ Evaluated /\ ev.stage = "baseline"
  /\ LET rec == WithResults(ev.rec, ev.results, "") IN
     IF tree = "base" THEN ev' = [ev EXCEPT !.pc = "propose", !.rec = rec] ELSE Fails(rec)
  /\ UNCHANGED <<disk, tree, patch, valid, ignored, ran, pointer, troubles>>

\* capturePatch and allowedChanges: something is changed, and only what may be.
Allowed(p) == p \in Patches /\ Touches[p] = {"target"}

\* A generator that fails, or whose changes are not allowed.
Unfit ==
  /\ At("propose") /\ Count < MaxCandidates
  /\ \E status \in {"generation_failed", "rejected"} :
       /\ status = "rejected" => \E p \in Patches : ~Allowed(p)
       /\ Saves([ev.rec EXCEPT !.cands = Append(@, [status |-> status, digest |-> "none",
                                                    train |-> <<>>])], "propose")
  /\ patch' = Append(patch, "none")
  /\ UNCHANGED <<tree, valid, ignored, ran, pointer>>

\* A proposal is captured as a patch file.
Propose ==
  /\ At("propose") /\ Count < MaxCandidates
  /\ \E p \in Patches, ok \in BOOLEAN :
       /\ Allowed(p)
       /\ Wrote(ok, patch, Append(patch, p))
       /\ IF ok THEN ev' = [ev EXCEPT !.pc = "train", !.proposed = p] ELSE Fails(ev.rec)
  /\ UNCHANGED <<disk, tree, valid, ignored, ran, pointer>>

\* The patch file is applied to a clean worktree for the train cases.
Train ==
  /\ At("train")
  /\ LET rec == [ev.rec EXCEPT !.cands = Append(@, [status |-> "training",
                    digest |-> ev.proposed, train |-> <<>>])] IN
     \E ok \in BOOLEAN :
       /\ Wrote(ok, disk, rec)
       /\ IF ok THEN ev' = [Evaluates("train") EXCEPT !.pc = "meter", !.rec = rec] ELSE Fails(rec)
  /\ tree' = patch[Len(patch)] /\ ignored' = ignored \ {"tree"}
  /\ UNCHANGED <<patch, valid, ran, pointer>>

\* The content measured after the verifiers is the content proposed: git diff, and
\* in a validated worktree the untracked files that are not ignored.
\* (Seeded fault: it is not measured again.)
Intact_Assumed(content, digest) == TRUE
Intact(content, digest) == content = digest

TrainDone ==
  /\ Evaluated /\ ev.stage = "train"
  /\ LET good == Intact(tree, Cands[Count].digest) /\ Improves(ev.rec.baseline, ev.results)
         rec  == WithResults(ev.rec, ev.results, IF good THEN "train_accepted" ELSE "rejected")
         best == IF good /\ (ev.best = 0 \/ PassCount(ev.results) > PassCount(Cands[ev.best].train))
                 THEN Count ELSE ev.best
     IN  \E ok \in BOOLEAN :
           /\ Wrote(ok, disk, rec)
           /\ IF ok THEN ev' = [ev EXCEPT !.pc = "propose", !.rec = rec, !.best = best]
              ELSE Fails(rec)
  /\ UNCHANGED <<tree, patch, valid, ignored, ran, pointer>>

\* The best in training is fixed, on disk, before the holdout is looked at.
Select ==
  /\ At("propose")
  /\ IF ev.best = 0
     THEN Ends([ev.rec EXCEPT !.status = "rejected"]) /\ UNCHANGED <<disk, troubles>>
     ELSE Saves([ev.rec EXCEPT !.selected = ev.best, !.status = "validating"], "apply")
  /\ UNCHANGED <<tree, patch, valid, ignored, ran, pointer>>

Apply ==
  /\ At("apply")
  /\ ev' = [Evaluates("holdout") EXCEPT !.pc = "meter"]
  /\ valid' = [valid EXCEPT ![This] = patch[ev.best]] /\ ignored' = ignored \ {This}
  /\ UNCHANGED <<disk, tree, patch, ran, pointer, troubles>>

HoldoutDone ==
  /\ Evaluated /\ ev.stage = "holdout"
  /\ LET good == /\ Intact(valid[This], Cands[ev.best].digest)
                 /\ PassCount(ev.results) = HoldoutCases
     IN  Ends([WithResults(ev.rec, ev.results, "") EXCEPT
                 !.status = IF good THEN "candidate_ready" ELSE "rejected"])
  /\ UNCHANGED <<disk, tree, patch, valid, ignored, ran, pointer, troubles>>

\* What the verifiers left cannot be measured: the candidate is taken as changed.
Unmeasured ==
  /\ Evaluated /\ Trouble
  /\ LET rec == WithResults(ev.rec, ev.results, "rejected") IN
     CASE ev.stage = "baseline" -> Fails(rec) /\ UNCHANGED disk
       [] ev.stage = "train"    -> disk' = rec /\ ev' = [ev EXCEPT !.pc = "propose", !.rec = rec]
       [] OTHER -> Ends([rec EXCEPT !.status = "rejected"]) /\ UNCHANGED disk
  /\ UNCHANGED <<tree, patch, valid, ignored, ran, pointer>>

\* git, or the run's context, fails between two steps; a spoiled patch may not apply.
Stumble ==
  /\ \/ ev.pc \in {"propose", "train", "apply"} /\ Trouble
     \/ At("train") /\ patch[Len(patch)] = "spoiled" /\ UNCHANGED troubles
     \/ At("apply") /\ patch[ev.best] = "spoiled" /\ UNCHANGED troubles
  /\ Fails(ev.rec)
  /\ UNCHANGED <<disk, tree, patch, valid, ignored, ran, pointer>>

Finish ==
  /\ At("finish")
  /\ \E ok \in BOOLEAN : Wrote(ok, disk, ev.rec)
  /\ ev' = [ev EXCEPT !.pc = "over"]
  /\ UNCHANGED <<tree, patch, valid, ignored, ran, pointer>>

EvolverCrash ==
  /\ ev.pc \notin {"idle", "over"} /\ Trouble
  /\ ev' = [ev EXCEPT !.pc = "over"]
  /\ UNCHANGED <<disk, tree, patch, valid, ignored, ran, pointer>>

-----------------------------------------------------------------------------
(* Activation                                                              *)

Digest(r)  == IF r = This THEN disk.cands[disk.selected].digest ELSE r
Artifact(r) == IF r = This THEN patch[disk.selected] ELSE r

\* validateReady: the record's evidence, the worktree and the patch file.
Ready(r) ==
  /\ r = This =>
       /\ disk.status = "candidate_ready" /\ disk.selected # 0
       /\ Len(disk.validation) = HoldoutCases
       /\ PassCount(disk.validation) = HoldoutCases
       /\ disk.cands[disk.selected].status = "train_accepted"
       /\ Improves(disk.baseline, disk.cands[disk.selected].train)
       /\ Allowed(Digest(r))
  /\ Intact(valid[r], Digest(r)) /\ Intact(Artifact(r), Digest(r))

\* The operation lock covers validation and update.  An operator confirms what he
\* last saw, which may be any version there has been.
Activate ==
  /\ op = NoOp
  /\ \E r \in Runs, expected \in 0 .. ptr.version :
       /\ Ready(r)
       /\ op' = [kind |-> "activate", run |-> r, expected |-> expected]
  /\ UNCHANGED <<evolver, valid, ptr, look, launched, troubles>>

\* Another version is refused at once; what preceded the first run is no run.
Previous == IF ptr.history = <<>> THEN "none" ELSE ptr.history[Len(ptr.history)]
Rollback ==
  /\ op = NoOp /\ ptr.active # "none"
  /\ Previous # "none" => Ready(Previous)
  /\ op' = [kind |-> "rollback", run |-> Previous, expected |-> ptr.version]
  /\ UNCHANGED <<evolver, valid, ptr, look, launched, troubles>>

Activated ==
  [version |-> ptr.version + 1, active |-> op.run,
   history |-> IF ptr.active = "none" THEN ptr.history ELSE Append(ptr.history, ptr.active)]
RolledBack ==
  [version |-> ptr.version + 1, active |-> op.run,
   history |-> IF ptr.history = <<>> THEN <<>> ELSE Front(ptr.history)]

Switch ==
  /\ op # NoOp
  /\ IF op.expected = ptr.version /\ ~(op.kind = "activate" /\ op.run = ptr.active)
     THEN ptr.version < MaxVersion /\ \E ok \in BOOLEAN :
            Wrote(ok, ptr, IF op.kind = "activate" THEN Activated ELSE RolledBack)
     ELSE UNCHANGED <<ptr, troubles>>
  /\ op' = NoOp
  /\ UNCHANGED <<evolver, valid, look, launched>>

\* The operator's process dies; the lock goes with it.
LetGo == op # NoOp /\ op' = NoOp /\ UNCHANGED <<evolver, valid, ptr, look, launched, troubles>>

\* ResolveActiveRoot takes no lock: it reads the pointer, then validates.
Resolve ==
  /\ look = "none"
  /\ IF ptr.active = "none" THEN launched' = "base" /\ UNCHANGED look
     ELSE look' = ptr.active /\ launched' = "none"
  /\ UNCHANGED <<evolver, valid, ptr, op, troubles>>

Launch ==
  /\ look # "none"
  /\ launched' = IF Ready(look) THEN valid[look] ELSE "none"
  /\ look' = "none"
  /\ UNCHANGED <<evolver, valid, ptr, op, troubles>>

\* Somebody, a verifier for one, changes files.
Spoil ==
  /\ Trouble
  /\ \/ tree' = "spoiled" /\ ev.stage # "holdout" /\ UNCHANGED <<patch, valid, ignored>>
     \/ /\ \E i \in DOMAIN patch : patch' = [patch EXCEPT ![i] = "spoiled"]
        /\ UNCHANGED <<tree, valid, ignored>>
     \/ /\ \E r \in Runs : valid[r] # "none" /\ valid' = [valid EXCEPT ![r] = "spoiled"]
        /\ UNCHANGED <<tree, patch, ignored>>
     \/ /\ \E w \in {"tree"} \cup {r \in Runs : valid[r] # "none"} :
             (w = "tree" => tree # "none" /\ ev.stage # "holdout") /\ ignored' = ignored \cup {w}
        /\ UNCHANGED <<tree, patch, valid>>
  /\ UNCHANGED <<disk, ev, ran, pointer>>

ENext ==
  \/ Start \/ Meter \/ Verify \/ Stopped \/ Broken \/ BaselineDone \/ Unfit \/ Propose
  \/ Train \/ TrainDone \/ Select \/ Apply \/ HoldoutDone \/ Unmeasured \/ Stumble \/ Finish \/ EvolverCrash
  \/ Activate \/ Rollback \/ Switch \/ LetGo \/ Resolve \/ Launch \/ Spoil

ESpec == EInit /\ [][ENext]_evolverVars

-----------------------------------------------------------------------------
EvolverTypeOK ==
  /\ disk.selected \in 0 .. Len(disk.cands) /\ Len(disk.cands) <= MaxCandidates
  /\ ptr.version \in 0 .. MaxVersion /\ ptr.active \in Runs \cup {"none"}
  /\ valid \in [Runs -> Runs \cup Patches \cup {"none", "spoiled"}]
  /\ troubles \in 0 .. MaxTroubles

\* The verifiers executed at a stage, for a candidate where each has its own.
Executions(stage, cand) ==
  {i \in DOMAIN ran : ran[i].stage = stage /\ (stage = "train" => ran[i].cand = cand)}
Passed(these) == {ran[i].case : i \in {j \in these : ran[j].ok}}

\* Each of the cases was executed, once, on this content, as far as git tells.
Measured(these, content, cases) ==
  /\ {ran[i].case : i \in these} = 1 .. cases
  /\ \A i, j \in these : ran[i].case = ran[j].case => i = j
  /\ \A i \in these : ran[i].on = content

\* The verifiers really executed show that candidate c of this run, with this
\* content, does strictly better than the base revision in training, with no case
\* it passed lost, passes every held-out case, and stays off what decides that.
Tested(c, content) ==
  LET before == Executions("baseline", 0)
      train  == Executions("train", c)
      last   == Executions("holdout", c) IN
  /\ Measured(before, "base", TrainCases)
  /\ Measured(train, content, TrainCases)
  /\ Measured(last, content, HoldoutCases)
  /\ Passed(before) \subseteq Passed(train) /\ Passed(before) # Passed(train)
  /\ Passed(last) = 1 .. HoldoutCases
  /\ Allowed(content)

\* evolve.go, "a failure does not select the next candidate": over failed writes,
\* crashes and changed files, a record that says candidate_ready is backed by what
\* was executed; every verifier executed is counted on disk, within the contract;
\* and when a held-out case was executed, the choice was on disk and training over.
EvidenceHolds ==
  /\ disk.status = "candidate_ready" =>
       Tested(disk.selected, disk.cands[disk.selected].digest)
  /\ Len(ran) <= disk.runs /\ disk.runs <= MaxVerifierRuns
  /\ \A i, j \in DOMAIN ran : ran[i].stage = "holdout" =>
       disk.selected # 0 /\ (j > i => ran[j].stage = "holdout" /\ ran[j].case > ran[i].case)

\* activation.go: a launcher is given the checkout itself, or a worktree that, as
\* far as git diff and git ls-files tell, is a candidate whose verifiers passed,
\* whatever was changed and whenever.
LaunchedTested ==
  launched \in Earlier \cup {"none", "base"} \/ Tested(disk.selected, launched)

\* activation.go:186, "immutable candidate contents": nothing was added to the
\* worktree a launcher is given.  It does not hold of files that git ignores.
LaunchedUnchanged ==
  [][look # "none" /\ look' = "none" /\ launched' # "none" => look \notin ignored]_evolverVars
=============================================================================
