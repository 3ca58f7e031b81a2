------------------------------- MODULE Ledger -------------------------------
(***************************************************************************)
(* The durable file behind internal/journal: one entry per inbound request *)
(* (kind "inbox") and one per outbound result (kind "outbox"), and the     *)
(* transactions Journal.mutate runs on them under the file lock.           *)
(*                                                                         *)
(* A transaction is an action: its conjuncts over unprimed variables are   *)
(* the checks of the Go closure (when one fails the closure returns an     *)
(* error and durable.File writes nothing), its primed conjuncts are the    *)
(* state durable.Replace installs by an atomic rename.  Who may run a      *)
(* transaction, and when, is the business of the modules that extend this  *)
(* one (Journal: any client; Gateway: the real callers).                   *)
(*                                                                         *)
(* Payloads stand for the JSON of events and messages, including their     *)
(* routes; Entry.Epoch and Entry.UpdatedAt are written and never read by   *)
(* the code and are left out.                                              *)
(***************************************************************************)
EXTENDS Naturals, Sequences, FiniteSets

CONSTANTS
  Requests,   \* stable ids of inbound events; the reply of r has the id r
  Notices,    \* ids of results posted without a request ("worker:<RunID>")
  Payloads,   \* events and messages
  None        \* no payload

ASSUME LedgerConstants == /\ Requests \cap Notices = {}
                          /\ None \notin Payloads

VARIABLES
  epoch,      \* State.Epoch: number of times the journal was opened
  inbox,      \* State.Entries of kind "inbox"
  outbox,     \* State.Entries of kind "outbox"
  begun       \* history: how often delivery of an id was begun

ledger == <<epoch, inbox, outbox, begun>>

Ids == Requests \cup Notices

InboxStates  == {"absent", "pending", "running", "completed", "merged",
                 "needs_reconcile", "abandoned"}
OutboxStates == {"absent", "pending", "sending", "delivered", "dropped",
                 "unknown", "abandoned"}
Outcomes     == {"delivered", "dropped", "unknown"}
Decisions    == {"abandon", "delivered", "confirmed_not_sent", "recover_result"}

InboxEntry  == [state: InboxStates, payload: Payloads \cup {None},
                result: Payloads \cup {None}, decisions: Seq(Decisions)]
OutboxEntry == [state: OutboxStates, payload: Payloads \cup {None},
                receipt: BOOLEAN, decisions: Seq(Decisions)]

LedgerTypeOK ==
  /\ epoch \in Nat
  /\ inbox \in [Requests -> InboxEntry]
  /\ outbox \in [Ids -> OutboxEntry]
  /\ begun \in [Ids -> Nat]

LedgerInit ==
  /\ epoch = 0
  /\ inbox = [r \in Requests |-> [state |-> "absent", payload |-> None,
                                  result |-> None, decisions |-> <<>>]]
  /\ outbox = [i \in Ids |-> [state |-> "absent", payload |-> None,
                              receipt |-> FALSE, decisions |-> <<>>]]
  /\ begun = [i \in Ids |-> 0]

-----------------------------------------------------------------------------
\* Entry{... State: "pending", Payload: data}: what Put, Complete and
\* recover_result store for a result that has to be delivered.
Owed(p) == [state |-> "pending", payload |-> p, receipt |-> FALSE,
            decisions |-> <<>>]

\* Open: work a dead owner left in flight becomes a question for the operator,
\* and is never run or sent again by itself.

\* (Seeded fault: a send in flight is simply sent again.)
Interrupted_Resend(s) == CASE s = "running" -> "needs_reconcile"
                           [] s = "sending" -> "pending"
                           [] OTHER         -> s

Interrupted(s) == CASE s = "running" -> "needs_reconcile"
                    [] s = "sending" -> "unknown"
                    [] OTHER         -> s

\* Open, the whole transaction: a new epoch.
Reopen ==
  /\ epoch' = epoch + 1
  /\ inbox' = [r \in Requests |-> [inbox[r] EXCEPT !.state = Interrupted(@)]]
  /\ outbox' = [i \in Ids |-> [outbox[i] EXCEPT !.state = Interrupted(@)]]
  /\ UNCHANGED begun

\* Put("inbox", r, p): only the first payload of an id is kept.
PutInbox(r, p) ==
  /\ inbox' = IF inbox[r].state = "absent"
              THEN [inbox EXCEPT ![r].state = "pending", ![r].payload = p]
              ELSE inbox
  /\ UNCHANGED <<epoch, outbox, begun>>

\* Put("outbox", n, p).
PutOutbox(n, p) ==
  /\ outbox' = IF outbox[n].state = "absent"
               THEN [outbox EXCEPT ![n] = Owed(p)]
               ELSE outbox
  /\ UNCHANGED <<epoch, inbox, begun>>

\* Move("inbox", r, from, to): conditional on the current state.
MoveInbox(r, from, to) ==
  /\ inbox[r].state = from
  /\ inbox' = [inbox EXCEPT ![r].state = to, ![r].result = None]
  /\ UNCHANGED <<epoch, outbox, begun>>

\* Move("outbox", i, from, to); only a delivered result carries a receipt.
\* (Seeded fault: unconditional.)
MoveOutbox_Unchecked(i, from, to) ==
  /\ outbox[i].state # "absent"
  /\ outbox' = [outbox EXCEPT ![i].state = to,
                              ![i].receipt = (to = "delivered")]
  /\ begun' = IF to = "sending" THEN [begun EXCEPT ![i] = @ + 1] ELSE begun
  /\ UNCHANGED <<epoch, inbox>>

MoveOutbox(i, from, to) ==
  /\ outbox[i].state = from
  /\ outbox' = [outbox EXCEPT ![i].state = to,
                              ![i].receipt = (to = "delivered")]
  /\ begun' = IF to = "sending" THEN [begun EXCEPT ![i] = @ + 1] ELSE begun
  /\ UNCHANGED <<epoch, inbox>>

\* Complete(r, p): settle the request and owe its result, in one transaction.
\* (Seeded fault: the reply is left to a second transaction.)
Complete_InboxOnly(r, p) ==
  /\ inbox[r].state = "running"
  /\ inbox' = [inbox EXCEPT ![r].state = "completed", ![r].result = p]
  /\ UNCHANGED <<epoch, outbox, begun>>

Complete(r, p) ==
  /\ inbox[r].state = "running"
  /\ inbox' = [inbox EXCEPT ![r].state = "completed", ![r].result = p]
  /\ outbox' = [outbox EXCEPT ![r] = Owed(p)]
  /\ UNCHANGED <<epoch, begun>>

\* Resolve, decisions on an inbound request whose outcome is unknown.
ResolveInbox(r, decision, p) ==
  /\ inbox[r].state = "needs_reconcile"
  /\ \/ /\ decision = "abandon"
        /\ inbox' = [inbox EXCEPT ![r].state = "abandoned",
                                  ![r].decisions = Append(@, decision)]
        /\ UNCHANGED outbox
     \/ /\ decision = "recover_result"
        /\ outbox[r].state = "absent"
        /\ inbox' = [inbox EXCEPT ![r].state = "completed", ![r].result = p,
                                  ![r].decisions = Append(@, decision)]
        /\ outbox' = [outbox EXCEPT ![r] = Owed(p)]
  /\ UNCHANGED <<epoch, begun>>

\* Resolve, decisions on an outbound result whose delivery is unknown.
DecidedState(decision) == CASE decision = "abandon"            -> "abandoned"
                            [] decision = "delivered"          -> "delivered"
                            [] decision = "confirmed_not_sent" -> "pending"

ResolveOutbox(i, decision) ==
  /\ outbox[i].state = "unknown"
  /\ decision \in {"abandon", "delivered", "confirmed_not_sent"}
  /\ outbox' = [outbox EXCEPT ![i].state = DecidedState(decision),
                              ![i].receipt = @ \/ decision = "delivered",
                              ![i].decisions = Append(@, decision)]
  /\ UNCHANGED <<epoch, inbox, begun>>

=============================================================================
