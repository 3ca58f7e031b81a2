------------------------------- MODULE Curator -------------------------------
\* The context of a turn (internal/contextbuilder): BuildChecked assembles the
\* prompt from fixed material, the working state and whole groups of history;
\* when the history is long, the curator's model loop selects the groups,
\* archives some, scores them and rewrites the working state (curator_loop.go),
\* keeping its own files between turns (curator_store.go).
\*
\* A group is a user message with all that followed it, known by its place in the
\* history of the build and its size.  The session gives one build at a time; a build is
\* synchronous, its process may die between two writes, and reads and writes of
\* the curator's files may fail.  Token counts are taken as additive.
EXTENDS Naturals, Sequences, FiniteSets, FiniteSetsExt

CONSTANTS
  Sizes,          \* what a finished group may be: [msgs, tokens]
  Fresh,          \* the size of the group of a turn that has just begun
  Earlier,        \* turns the session had before the curator was configured
  MaxTurns,       \* bound: turns of the session
  HeadMsgs, RecentMsgs, \* messages protected at the head, and favoured at the tail
  RankedMsgs, TailMsgs, \* messages the fallback keeps by score, and from the tail
  Fixed, Budget,  \* tokens: prefix, memory, skills and request; the input budget
  Weight,         \* [working states -> tokens]
  NoState,        \* the working state with nothing in it
  Proposals,      \* scores the model proposes, in hundredths
  CuratorSteps,   \* the curator's steps (12)
  Faulty          \* files may fail

States == DOMAIN Weight
Size   == Sizes \cup {Fresh}

ASSUME CuratorConstants ==
  /\ Sizes \subseteq [msgs : Nat \ {0}, tokens : Nat] /\ Fresh \in [msgs : {1}, tokens : Nat]
  /\ Fresh \notin Sizes
  /\ Weight \in [States -> Nat] /\ NoState \in States /\ Weight[NoState] = 0
  /\ Proposals \subseteq 0 .. 100
  /\ {Earlier, MaxTurns, HeadMsgs, RecentMsgs, RankedMsgs, TailMsgs, Fixed, Budget, CuratorSteps} \subseteq Nat
  /\ Faulty \in BOOLEAN

VARIABLES
  hist,      \* the groups of the history a build is given, each its size
  files,     \* the curator's files: state, relevance, archives
  build, call, \* the build under way, see NoCall
  result,    \* what the last build returned
  standing   \* history: the working states that may stand since a plan was accepted

contextVars == <<hist, files, build, call, result, standing>>

Groups == DOMAIN hist
None   == {}

\* The scores and archive references of the groups, of BuildChecked (rule) and of
\* the curator (score, ref); the curator's working state and the one shown.
NoCall == [shown |-> NoState, state |-> NoState, rule |-> <<>>, score |-> <<>>, ref |-> <<>>,
           steps |-> 0, ids |-> {}, keep |-> {}, blind |-> FALSE]

NoResult == [kind |-> "none", keep |-> {}, state |-> NoState, blind |-> FALSE]

ContextInit ==
  /\ hist \in [1 .. Earlier -> Sizes]
  /\ files = [state |-> NoState, relevance |-> {}, archives |-> {}]
  /\ build = "idle" /\ call = NoCall /\ result = NoResult
  /\ standing = {NoState}

-----------------------------------------------------------------------------
(* Groups and their cost                                                   *)

Msgs(G) == MapThenSumSet(LAMBDA i : hist[i].msgs, G)
Offset(i) == Msgs({j \in Groups : j < i})

\* makeGroups: the head, expanded to whole turns, and the latest turn.
Protected == {i \in Groups : Offset(i) < HeadMsgs \/ i = Len(hist)}

IsRecent(i) == Offset(i) + hist[i].msgs + RecentMsgs > Msgs(Groups)

Larger(a, b) == IF a < b THEN b ELSE a

RuleScore(i) == IF Offset(i) < HeadMsgs THEN 80 ELSE IF IsRecent(i) THEN 75 ELSE 50

\* protectedSelection.
Selection(G) == G \cup Protected

Cost(state, G) == Fixed + Weight[state] + MapThenSumSet(LAMBDA i : hist[i].tokens, G)

Fits(state, G) == Cost(state, G) <= Budget

\* The fast path: history under six tenths of what fixed material leaves.
HistoryBudget(state) == IF Cost(state, {}) < Budget THEN Budget - Cost(state, {}) ELSE 0
IsShort(state) ==
  MapThenSumSet(LAMBDA i : hist[i].tokens, Groups) < (HistoryBudget(state) * 6) \div 10

\* fallbackSelection: the highest scores that cover Ranked messages, later groups
\* first among equals, and the last groups that cover Tail messages.
Above(i) == {j \in Groups : \/ call.rule[j] > call.rule[i]
                            \/ call.rule[j] = call.rule[i] /\ j > i}
Fallback == Selection({i \in Groups : \/ Msgs(Above(i)) < RankedMsgs
                                      \/ Msgs({j \in Groups : j > i}) < TailMsgs})

-----------------------------------------------------------------------------
(* BuildChecked                                                            *)

\* What the session may hold of the turns before: the last turn of which a build
\* has seen the request only has its final size, one of which it has seen nothing
\* is there or is not.
Finished ==
  IF hist # <<>> /\ hist[Len(hist)] = Fresh
  THEN {[hist EXCEPT ![Len(hist)] = size] : size \in Sizes}
  ELSE {hist} \cup {Append(hist, size) : size \in Sizes}

\* The next request.  A text provider is given it as the last group of the history;
\* for a native one it is apart, and its copy at the end of the history is taken off.
NextTurn ==
  /\ build = "idle"
  /\ \E past \in Finished : hist' \in {past, Append(past, Fresh)}
  /\ Len(hist') <= MaxTurns
  /\ build' = "load" /\ call' = NoCall /\ result' = NoResult
  /\ UNCHANGED <<files, standing>>

\* Phase A: the working state is fixed material on every path.  A state that
\* cannot be read is left out.  (Seeded fault: only the curator reads it.)
Loaded_Late(readable) == NoState
Loaded(readable) == IF readable THEN files.state ELSE NoState

Load ==
  /\ build = "load"
  /\ \E readable \in {TRUE} \cup {~Faulty} :
       LET shown == Loaded(readable) IN
       /\ call' = [call EXCEPT !.shown = shown, !.blind = ~readable,
                               !.rule = [i \in Groups |-> RuleScore(i)],
                               !.keep = Groups]
       /\ build' = IF IsShort(shown) /\ Fits(shown, Groups) THEN "fit" ELSE "choose"
  /\ UNCHANGED <<hist, files, result, standing>>

\* The rules decide: no curator and no selector, or one that failed.
FallBack(c) == call' = [c EXCEPT !.keep = Fallback] /\ build' = "fit"

Rules ==
  /\ build = "choose"
  /\ FallBack(call)
  /\ UNCHANGED <<hist, files, result, standing>>

\* A HistorySelector's valid scores change the order in which groups go; the
\* assembler keeps the scores of protected groups.
Select ==
  /\ build = "choose"
  /\ \E S \in SUBSET Groups, s \in Proposals :
       call' = [call EXCEPT !.rule =
                 [i \in Groups |-> IF i \in S \ Protected THEN s ELSE @[i]]]
  /\ build' = "fit"
  /\ UNCHANGED <<hist, files, result, standing>>

\* Groups go, lowest score and then oldest first, until the request fits.
Expendable == call.keep \ Protected

Drop ==
  /\ build = "fit" /\ ~Fits(call.shown, call.keep)
  /\ \E i \in Expendable :
       /\ \A j \in Expendable : \/ call.rule[i] < call.rule[j]
                                \/ call.rule[i] = call.rule[j] /\ i <= j
       /\ call' = [call EXCEPT !.keep = @ \ {i}]
  /\ UNCHANGED <<hist, files, build, result, standing>>

ReturnBuild(kind) ==
  /\ result' = [kind |-> kind, keep |-> call.keep, state |-> call.shown, blind |-> call.blind]
  /\ build' = "idle" /\ call' = NoCall

Deliver ==
  /\ build = "fit" /\ Fits(call.shown, call.keep)
  /\ ReturnBuild("prompt")
  /\ UNCHANGED <<hist, files, standing>>

\* ErrBudget: fixed material and protected history are never cut.
Refuse ==
  /\ build = "fit" /\ ~Fits(call.shown, call.keep) /\ Expendable = {}
  /\ ReturnBuild("over budget")
  /\ UNCHANGED <<hist, files, standing>>

-----------------------------------------------------------------------------
(* The curator's files                                                     *)

\* A group's fingerprint is its content, taken to differ from group to group.
Mark(i) == <<i, hist[i]>>

\* The archive of groups, and its reference: the file's name is the content's hash.
Content(G) == {Mark(i) : i \in G}

\* loadScores, on the current history: recent and protected groups are not lower
\* than the rules make them.
Found(i) == {e \in files.relevance : e.print = Mark(i)}
LoadedScore(i) ==
  IF Found(i) = {} THEN RuleScore(i)
  ELSE LET e == CHOOSE e \in Found(i) : TRUE
           recent == IF IsRecent(i) THEN Larger(e.score, 75) ELSE e.score
       IN  IF i \in Protected THEN Larger(recent, 80) ELSE recent
LoadedRef(i) == IF Found(i) = {} THEN None ELSE (CHOOSE e \in Found(i) : TRUE).ref

Relevance == {[print |-> Mark(i), score |-> call.score[i], ref |-> call.ref[i]] : i \in Groups}

\* A write that fails may have taken effect.
Written(ok, new) == IF ok THEN files' = new ELSE Faulty /\ files' \in {files, new}

-----------------------------------------------------------------------------
(* The curator's loop                                                      *)

\* openCuratorStore, readState and loadScores; any failure is a fallback.
Open ==
  /\ build = "choose"
  /\ \/ /\ call' = [call EXCEPT !.state = files.state,
                                !.score = [i \in Groups |-> LoadedScore(i)],
                                !.ref = [i \in Groups |-> LoadedRef(i)]]
        /\ build' = "curate"
     \/ Faulty /\ FallBack(call)
  /\ UNCHANGED <<hist, files, result, standing>>

\* An answer of the model, which is to do act; its other steps go on in pc "curate".
Answers(act) == /\ build = "curate" /\ call.steps < CuratorSteps
                /\ act
                /\ UNCHANGED <<hist, result>>
Stepped == [call EXCEPT !.steps = @ + 1]
Goes(c) == call' = c /\ build' = "curate" /\ UNCHANGED <<files, standing>>

\* stateText: an empty working state leaves the one shown before.
Text == IF call.state = NoState THEN call.shown ELSE call.state

\* read, search, budget, retrieve, memory, and every action that is refused.
Look == Answers(Goes(Stepped))

Score == Answers(
  \E i \in Groups, s \in Proposals :
    Goes([Stepped EXCEPT !.score[i] = IF i \in Protected THEN Larger(s, 80) ELSE s]))

Note == Answers(\E w \in States : Goes([Stepped EXCEPT !.state = w]))

\* archive: the file first, then the lower scores in memory, then the scores' file.
\* (Seeded fault: a failed write is not noticed.)
Archived_Anyway(ok) == TRUE
Archived(ok) == ok

Archive == Answers(
  \E G \in SUBSET (Groups \ Protected) \ {{}}, ok \in BOOLEAN :
    /\ Written(ok, [files EXCEPT !.archives = @ \cup {Content(G)}])
    /\ IF Archived(ok)
       THEN /\ call' = [Stepped EXCEPT
                 !.score = [i \in Groups |-> IF i \in G /\ @[i] > 45 THEN 45 ELSE @[i]],
                 !.ref   = [i \in Groups |-> IF i \in G THEN Content(G) ELSE @[i]]]
            /\ build' = "rescore"
       ELSE call' = Stepped /\ build' = "curate"
    /\ UNCHANGED standing)

SaveArchived ==
  /\ build = "rescore"
  /\ \E ok \in BOOLEAN : Written(ok, [files EXCEPT !.relevance = Relevance])
  /\ build' = "curate"
  /\ UNCHANGED <<hist, call, result, standing>>

\* finish: a selection that does not fit is an observation; one that does is
\* accepted when the state and then the scores are on disk.
Acceptable(G) == Fits(Text, Selection(G))

FinishPlan == Answers(
  \E G \in SUBSET Groups, ok \in BOOLEAN :
    /\ Acceptable(G)
    /\ Written(ok, [files EXCEPT !.state = call.state])
    /\ standing' = standing \cup {files'.state}
    /\ call' = [Stepped EXCEPT !.ids = G]
    /\ build' = IF ok THEN "accept" ELSE "curate")

Accept ==
  /\ build = "accept"
  /\ \E ok \in BOOLEAN :
       /\ Written(ok, [files EXCEPT !.relevance = Relevance])
       /\ IF ok
          THEN /\ call' = [call EXCEPT !.keep = Selection(call.ids), !.shown = Text,
                                       !.rule = call.score]
               /\ standing' = {call.state, Text}
               /\ build' = "fit"
          ELSE call' = call /\ build' = "curate" /\ UNCHANGED standing
  /\ UNCHANGED <<hist, result>>

\* The steps are used up, the model call failed, or the curator's time is over.
GiveUp ==
  /\ build = "curate"
  /\ FallBack(call)
  /\ UNCHANGED <<hist, files, result, standing>>

\* The turn's own context ends.
CancelBuild ==
  /\ build \in {"load", "choose", "curate", "fit"}
  /\ ReturnBuild("cancelled")
  /\ UNCHANGED <<hist, files, standing>>

Crash ==
  /\ build # "idle"
  /\ build' = "idle" /\ call' = NoCall /\ result' = NoResult
  /\ UNCHANGED <<hist, files, standing>>

ContextNext ==
  \/ NextTurn \/ Load \/ Rules \/ Select \/ Drop \/ Deliver \/ Refuse
  \/ Open \/ Look \/ Score \/ Note \/ Archive \/ SaveArchived \/ FinishPlan \/ Accept \/ GiveUp
  \/ CancelBuild \/ Crash

ContextSpec == ContextInit /\ [][ContextNext]_contextVars

-----------------------------------------------------------------------------
ContextTypeOK ==
  /\ hist \in Seq(Size)
  /\ files.state \in States
  /\ build \in {"idle", "load", "choose", "curate", "rescore", "accept", "fit"}
  /\ call.steps \in 0 .. CuratorSteps /\ call.keep \subseteq Groups
  /\ result.kind \in {"none", "prompt", "over budget", "cancelled"}

\* curator.go, "the assembler, not the model, owns protection and final budget":
\* whatever the model proposed and whatever failed, a prompt fits and has every
\* protected group, and a request is refused only if these alone do not fit.
BudgetOwned ==
  /\ result.kind = "prompt" => Protected \subseteq result.keep /\ Fits(result.state, result.keep)
  /\ result.kind = "over budget" => ~Fits(result.state, Protected)

\* docs/CONTEXT_BUDGET.md:63, the working state is used again on the next fast or
\* slow path: a prompt shows the state of the last accepted plan or one written
\* since, unless the file could not be read.
StateCarried == result.kind = "prompt" /\ ~result.blind => result.state \in standing

PromptSound == BudgetOwned /\ StateCarried

\* docs/CONTEXT_BUDGET.md:63, a reference is given out only when the archive is
\* durable: over failed writes, crashes and fallbacks, an archive reference on
\* disk, or in the curator's hands, names an archive that has the whole group.
ArchivesBacked ==
  /\ \A e \in files.relevance : e.ref # None => e.ref \in files.archives /\ e.print \in e.ref
  /\ \A i \in DOMAIN call.ref : call.ref[i] # None =>
       call.ref[i] \in files.archives /\ Mark(i) \in call.ref[i]
=============================================================================
