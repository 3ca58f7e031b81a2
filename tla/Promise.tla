------------------------------ MODULE Promise ------------------------------
(***************************************************************************)
(* What the gateway promises about one inbound request, whatever crashes,  *)
(* restarts, redeliveries and reconciliations happen (docs/FEISHU.md:50,   *)
(* docs/REQUEST_FLOW.md:137):                                              *)
(*   - the agent is run for it at most once, and never after its outcome   *)
(*     came into doubt;                                                    *)
(*   - it gets at most one answer, which is never changed, and only if it  *)
(*     was run or its outcome was in doubt and an operator recovered it;   *)
(*   - sending the answer is begun once, and once more for each time an    *)
(*     operator allowed it.                                                *)
(***************************************************************************)
EXTENDS Naturals

CONSTANTS Requests, Answers, NoAnswer

VARIABLES
  ran,      \* how often the agent was run for each request
  doubted,  \* requests whose outcome is, or was, unknown
  answer,   \* the answer of each request
  owed,     \* requests whose answer may be sent
  sends     \* how often sending was begun

vars == <<ran, doubted, answer, owed, sends>>

Init ==
  /\ ran = [r \in Requests |-> 0]
  /\ doubted = {} /\ owed = {}
  /\ answer = [r \in Requests |-> NoAnswer]
  /\ sends = [r \in Requests |-> 0]

Run(r) ==
  /\ ran[r] = 0 /\ r \notin doubted
  /\ answer[r] = NoAnswer
  /\ ran' = [ran EXCEPT ![r] = 1]
  /\ UNCHANGED <<doubted, answer, owed, sends>>

\* A crash may cast doubt on many requests at once.
Doubt(R) ==
  /\ \A r \in R : answer[r] = NoAnswer
  /\ doubted' = doubted \cup R
  /\ UNCHANGED <<ran, answer, owed, sends>>

Answer(r, a) ==
  /\ ran[r] > 0 \/ r \in doubted
  /\ answer[r] = NoAnswer
  /\ answer' = [answer EXCEPT ![r] = a]
  /\ owed' = owed \cup {r}
  /\ UNCHANGED <<ran, doubted, sends>>

Send(r) ==
  /\ r \in owed
  /\ owed' = owed \ {r}
  /\ sends' = [sends EXCEPT ![r] = @ + 1]
  /\ UNCHANGED <<ran, doubted, answer>>

Allow(r) ==
  /\ sends[r] > 0
  /\ owed' = owed \cup {r}
  /\ UNCHANGED <<ran, doubted, answer, sends>>

Next ==
  \/ \E r \in Requests : Run(r) \/ Send(r) \/ Allow(r)
  \/ \E R \in SUBSET Requests : Doubt(R)
  \/ \E r \in Requests, a \in Answers : Answer(r, a)

Spec == Init /\ [][Next]_vars

=============================================================================
