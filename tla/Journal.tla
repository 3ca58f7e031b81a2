------------------------------ MODULE Journal ------------------------------
(***************************************************************************)
(* Ownership of the ledger (internal/journal: Open, mutate, Close).  An    *)
(* owner is one *Journal object of one process.  Open takes the exclusive  *)
(* owner lease and starts a new epoch; a mutation is admitted under        *)
(* ownerMu.RLock while the object is not closed and is written later,      *)
(* under the file lock, if the epoch is still the owner's; Close waits for *)
(* admitted mutations, retires the object and frees the lease; a crash     *)
(* drops the object's mutations and the operating system frees its lease.  *)
(*                                                                         *)
(* The client is the most general one: it may ask for any mutation the     *)
(* callers in gateway, delivery and gatewayapp ask for, at any time, with  *)
(* several in flight.  Go code outside the journal that would order them   *)
(* better (Gateway.publish, Hub.send) is modelled in Gateway.tla.          *)
(***************************************************************************)
EXTENDS Ledger

CONSTANTS
  Owners,        \* journal objects over the life of the file, each opened once
  MaxCalls,      \* bound: mutations in flight at one owner
  MaxDecisions   \* bound: operator decisions recorded on one entry

ASSUME JournalBounds == /\ MaxCalls \in Nat \ {0}
                        /\ MaxDecisions \in Nat \ {0}

VARIABLES
  owner,   \* per object: its status, its epoch and its admitted mutations
  lease    \* the objects holding the owner lock (journal.json.owner)

vars == <<epoch, inbox, outbox, begun, owner, lease>>

Call == [op : {"put_inbox", "complete", "recover_result"},
         id : Requests, data : Payloads]
        \cup [op : {"put_outbox"}, id : Notices, data : Payloads]
        \cup [op : {"claim", "refuse", "fault", "merge", "abandon_request"},
              id : Requests]
        \cup [op : {"send", "abandon_reply", "confirm_delivered",
                    "confirm_not_sent"} \cup Outcomes,
              id : Ids]

Statuses == {"new", "opening", "open", "closed", "dead"}

TypeOK ==
  /\ LedgerTypeOK
  /\ owner \in [Owners -> [status : Statuses, epoch : Nat, calls : SUBSET Call]]
  /\ lease \subseteq Owners

Init ==
  /\ LedgerInit
  /\ owner = [o \in Owners |-> [status |-> "new", epoch |-> 0, calls |-> {}]]
  /\ lease = {}

-----------------------------------------------------------------------------
\* Open: durable.Lease, an exclusive file lock ...
Acquire(o) ==
  /\ owner[o].status = "new"
  /\ lease = {}
  /\ lease' = {o}
  /\ owner' = [owner EXCEPT ![o].status = "opening"]
  /\ UNCHANGED ledger

\* ... then the epoch transaction.  Its error (ok = FALSE) releases the lease;
\* the rename may already have been installed when the directory sync fails.
Load(o, ok) ==
  /\ owner[o].status = "opening"
  /\ Reopen
  /\ owner' = [owner EXCEPT ![o].status = IF ok THEN "open" ELSE "dead",
                            ![o].epoch = epoch + 1]
  /\ lease' = IF ok THEN lease ELSE lease \ {o}

\* mutate up to File.Update: ownerMu.RLock taken and j.closed found false.
Admit(o, c) ==
  /\ owner[o].status = "open"
  /\ Cardinality(owner[o].calls) < MaxCalls
  /\ owner' = [owner EXCEPT ![o].calls = @ \cup {c}]
  /\ UNCHANGED <<epoch, inbox, outbox, begun, lease>>

\* The closures passed to mutate, as their callers in gateway, delivery and
\* the reconcile command pass them.
Apply(c) ==
  \/ c.op = "put_inbox"  /\ PutInbox(c.id, c.data)
  \/ c.op = "put_outbox" /\ PutOutbox(c.id, c.data)
  \/ c.op = "claim"      /\ MoveInbox(c.id, "pending", "running")
  \/ c.op = "refuse"     /\ MoveInbox(c.id, "running", "pending")
  \/ c.op = "fault"      /\ MoveInbox(c.id, "running", "needs_reconcile")
  \/ c.op = "merge"      /\ MoveInbox(c.id, "running", "merged")
  \/ c.op = "complete"   /\ Complete(c.id, c.data)
  \/ c.op = "send"       /\ MoveOutbox(c.id, "pending", "sending")
  \/ c.op \in Outcomes   /\ MoveOutbox(c.id, "sending", c.op)
  \/ c.op = "recover_result"  /\ ResolveInbox(c.id, "recover_result", c.data)
  \/ c.op = "abandon_request" /\ ResolveInbox(c.id, "abandon", None)
  \/ /\ c.op \in {"abandon_reply", "confirm_delivered", "confirm_not_sent"}
     /\ Len(outbox[c.id].decisions) < MaxDecisions
     /\ ResolveOutbox(c.id, CASE c.op = "abandon_reply"     -> "abandon"
                              [] c.op = "confirm_delivered" -> "delivered"
                              [] c.op = "confirm_not_sent"  -> "confirmed_not_sent")

\* s.Epoch != j.epoch -> ErrFence.
Current(o) == owner[o].epoch = epoch

Leave(o, c) == owner' = [owner EXCEPT ![o].calls = @ \ {c}]

Commit(o, c) ==
  /\ c \in owner[o].calls
  /\ Current(o)
  /\ Apply(c)
  /\ Leave(o, c)
  /\ UNCHANGED lease

\* The closure refuses, the context ends while waiting for the file lock, or
\* the file cannot be written: the mutation returns an error and changes nothing.
Fail(o, c) ==
  /\ c \in owner[o].calls
  /\ Leave(o, c)
  /\ UNCHANGED <<epoch, inbox, outbox, begun, lease>>

\* Close: ownerMu.Lock waits for every admitted mutation.
\* (Seeded fault: the lock is not waited for.)
Drained_NoWait(o) == TRUE

Drained(o) == owner[o].calls = {}

Close(o) ==
  /\ owner[o].status = "open"
  /\ Drained(o)
  /\ owner' = [owner EXCEPT ![o].status = "closed"]
  /\ lease' = lease \ {o}
  /\ UNCHANGED ledger

\* Process death: the admitted mutations vanish with it.
Crash(o) ==
  /\ owner[o].status \in {"opening", "open"}
  /\ owner' = [owner EXCEPT ![o].status = "dead", ![o].calls = {}]
  /\ lease' = lease \ {o}
  /\ UNCHANGED ledger

Next ==
  \E o \in Owners :
    \/ Acquire(o)
    \/ \E ok \in BOOLEAN : Load(o, ok)
    \/ \E c \in Call : Admit(o, c)
    \/ \E c \in owner[o].calls : Commit(o, c)
    \/ \E c \in owner[o].calls : Fail(o, c)
    \/ Close(o)
    \/ Crash(o)

Spec == Init /\ [][Next]_vars

-----------------------------------------------------------------------------
(* Properties                                                              *)

\* journal.go:200 "Complete atomically publishes the result to Outbox and
\* settles Inbox": in every durable state a request is completed exactly when
\* its reply is recorded, and the two hold the same message, whatever is
\* retried, resolved or interrupted.
ResultRecorded ==
  \A r \in Requests :
    /\ (inbox[r].state = "completed") <=> (outbox[r].state # "absent")
    /\ outbox[r].state # "absent" => outbox[r].payload = inbox[r].result

\* journal.go:41-43 "A delivery retry requires an explicit confirmed_not_sent
\* decision": delivery of a result is begun at most once more than operators
\* confirmed that nothing was sent, over all restarts.
Confirmations(d) == Cardinality({k \in DOMAIN d : d[k] = "confirmed_not_sent"})
Licences(i) == Confirmations(outbox[i].decisions)

SendsLicensed == \A i \in Ids : begun[i] <= Licences(i) + 1

\* An outcome is final: what the ledger calls settled is never reopened, and a
\* stored payload is never replaced (Put keeps the first, Complete and
\* recover_result find no earlier reply to overwrite).
SettledIsFinal ==
  [][ /\ \A r \in Requests :
           /\ inbox[r].state \in {"completed", "merged", "abandoned"}
                => inbox'[r].state = inbox[r].state
           /\ inbox[r].state # "absent" => inbox'[r].payload = inbox[r].payload
      /\ \A i \in Ids :
           /\ outbox[i].state \in {"delivered", "dropped", "abandoned"}
                => outbox'[i].state = outbox[i].state
           /\ outbox[i].state # "absent" => outbox'[i].payload = outbox[i].payload
    ]_vars

\* journal.go:236 "Finish an admitted mutation before releasing ownership": an
\* entry changes only while some owner holds the lease and is not closed, and
\* either it is that owner's epoch or the owner is opening the file.
WritesAreOwned ==
  [][ (inbox' # inbox \/ outbox' # outbox) =>
        \E o \in Owners :
          /\ lease = {o}
          /\ \/ owner[o].status = "opening" /\ epoch' = epoch + 1
             \/ owner[o].status = "open" /\ owner[o].epoch = epoch
    ]_vars

\* The doubt about an outcome ends only by a recorded operator decision: an
\* entry leaves needs_reconcile or unknown together with a new Resolution.
DoubtNeedsDecision ==
  [][ /\ \A r \in Requests :
           (inbox[r].state = "needs_reconcile" /\ inbox'[r].state # "needs_reconcile")
             => Len(inbox'[r].decisions) = Len(inbox[r].decisions) + 1
      /\ \A i \in Ids :
           (outbox[i].state = "unknown" /\ outbox'[i].state # "unknown")
             => Len(outbox'[i].decisions) = Len(outbox[i].decisions) + 1
    ]_vars

=============================================================================
