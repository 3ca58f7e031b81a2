------------------------------ MODULE Approvals ------------------------------
\* The durable approval store (internal/permission/store.go): one record per
\* call identity (principal, session, turn, call), changed only by whole-file
\* transactions.  Every operation is one action, available to any number of
\* callers in any order: hosts, control planes and processes share the file.
\*
\* An action digest stands for arguments, tool definition and preconditions.
\* The principal is fixed: a foreign one is refused before anything is read.
EXTENDS Naturals

CONSTANTS Calls,    \* call identities (approvalID)
          Digests,  \* what actionDigest can return
          Receipts, \* what a tool can report
          None

VARIABLES rec,      \* the file: identity |-> ApprovalRecord
          late,     \* identity |-> ExpiresAt has passed
          claims,   \* history: claims granted
          granted,  \* history: the action the last claim was granted for
          consent   \* history: the last decision taken by the principal

storeVars == <<rec, late, claims, granted, consent>>

Statuses == {"absent", "pending", "approved", "denied", "expired", "claimed",
             "completed", "failed", "unknown"}
\* Finish refuses any other outcome.
Outcomes == {"completed", "failed", "unknown"}

Record == [status : Statuses, digest : Digests \cup {None}, token : Nat,
           receipt : Receipts \cup {None}]
NoRecord == [status |-> "absent", digest |-> None, token |-> 0, receipt |-> None]

Init == /\ rec = [c \in Calls |-> NoRecord]
        /\ late = [c \in Calls |-> FALSE]
        /\ claims = [c \in Calls |-> 0]
        /\ granted = [c \in Calls |-> None]
        /\ consent = [c \in Calls |-> "none"]

\* ExpiresAt of a live record passes.
Tick(c) == /\ rec[c].status # "absent" /\ ~late[c]
           /\ late' = [late EXCEPT ![c] = TRUE]
           /\ UNCHANGED <<rec, claims, granted, consent>>

\* Create: idempotent for the same action; another action under the same
\* identity is refused (ErrApprovalChanged).
Changed(c, d) == rec[c].status # "absent" /\ rec[c].digest # d

Create(c, d) ==
  /\ ~Changed(c, d)
  /\ rec' = IF rec[c].status # "absent" THEN rec
            ELSE [rec EXCEPT ![c] = [NoRecord EXCEPT !.status = "pending", !.digest = d]]
  /\ UNCHANGED <<late, claims, granted, consent>>

Wanted(allow) == IF allow THEN "approved" ELSE "denied"

\* Decide: an overdue pending record expires; an approval may be withdrawn
\* until it is claimed; every other status refuses (ErrApprovalState).
Decidable(r, allow) == \/ r.status \in {"pending", Wanted(allow)}
                       \/ r.status = "approved" /\ ~allow

Decide(c, allow) ==
  IF rec[c].status = "pending" /\ late[c]
  THEN /\ rec' = [rec EXCEPT ![c].status = "expired"]
       /\ UNCHANGED <<late, claims, granted, consent>>
  ELSE /\ Decidable(rec[c], allow)
       /\ rec' = [rec EXCEPT ![c].status = Wanted(allow)]
       /\ consent' = [consent EXCEPT ![c] = Wanted(allow)]
       /\ UNCHANGED <<late, claims, granted>>

\* Claim: one way, only from approved, only for the approved action.
\* (Seeded fault: the digest is not compared.)
Claimable_Unchecked(c, d) == rec[c].status = "approved"
Claimable(c, d) == rec[c].digest = d /\ rec[c].status = "approved"

Claim(c, d) ==
  /\ Claimable(c, d)
  /\ IF late[c]
     THEN /\ rec' = [rec EXCEPT ![c].status = "expired"]
          /\ UNCHANGED <<claims, granted>>
     ELSE /\ claims' = [claims EXCEPT ![c] = @ + 1]
          /\ granted' = [granted EXCEPT ![c] = d]
          /\ rec' = [rec EXCEPT ![c].status = "claimed", ![c].token = claims[c] + 1]
  /\ UNCHANGED <<late, consent>>

\* Finish: only with the token of the claim; repeating the same report changes
\* nothing.
Finishable(c, token, outcome, receipt) ==
  /\ token # 0 /\ rec[c].token = token
  /\ \/ rec[c].status = "claimed"
     \/ rec[c].status = outcome /\ rec[c].receipt = receipt

Finish(c, token, outcome, receipt) ==
  /\ Finishable(c, token, outcome, receipt)
  /\ rec' = [rec EXCEPT ![c].status = outcome, ![c].receipt = receipt]
  /\ UNCHANGED <<late, claims, granted, consent>>

Next == \E c \in Calls :
  \/ Tick(c)
  \/ \E d \in Digests : Create(c, d) \/ Claim(c, d)
  \/ \E allow \in BOOLEAN : Decide(c, allow)
  \/ \E outcome \in Outcomes, receipt \in Receipts, token \in 0..claims[c] :
       Finish(c, token, outcome, receipt)

Spec == Init /\ [][Next]_storeVars

-----------------------------------------------------------------------------

TypeOK == /\ rec \in [Calls -> Record]
          /\ late \in [Calls -> BOOLEAN]
          /\ claims \in [Calls -> Nat]
          /\ granted \in [Calls -> Digests \cup {None}]
          /\ consent \in [Calls -> {"none", "approved", "denied"}]

\* One identity is claimed at most once in its life, whatever is decided,
\* repeated or refreshed around it: "NEVER automatically made approved again"
\* (Claim).
ClaimedOnce == \A c \in Calls : claims[c] <= 1

\* Whatever is claimed was last decided by an approval, and a withdrawn or
\* refused action was never claimed (Decide, Claim).
ClaimNeedsConsent == \A c \in Calls :
  /\ claims[c] > 0 => consent[c] = "approved"
  /\ rec[c].status \in {"claimed"} \cup Outcomes => claims[c] = 1

\* A decided outcome never changes, an approval never outlives the action it
\* was given for: the digest of a record is fixed when it is created.
OutcomeIsFinal == [][\A c \in Calls :
  /\ rec[c].status \in {"denied", "expired"} \cup Outcomes
       => rec'[c].status = rec[c].status /\ rec'[c].receipt = rec[c].receipt
  /\ rec[c].status # "absent" => rec'[c].digest = rec[c].digest]_storeVars

\* What is claimed is the very action that was frozen and approved: arguments,
\* definition and preconditions (Claim recomputes the digest).
ClaimIsExact == \A c \in Calls : claims[c] > 0 => granted[c] = rec[c].digest
=============================================================================
