--------------------------- MODULE ApprovalsProofs ---------------------------
\* What the approval store guarantees for every set of identities, actions and
\* receipts, and however many callers work on the file in whatever order.
EXTENDS Approvals, TLAPS

\* The statuses a record has once it was claimed.
Claimed == {"claimed"} \cup Outcomes

\* The inductive invariant says of one identity what status, token, decision
\* and history have to do with one another: the number of claims is readable
\* from the status, so a second claim would need a way back to "approved".
Coherent(c) ==
  /\ rec[c].status \in Claimed => claims[c] = 1
  /\ rec[c].status \notin Claimed => claims[c] = 0
  /\ rec[c].status \in Claimed \cup {"approved"} => consent[c] = "approved"
  /\ rec[c].status \in Claimed => granted[c] = rec[c].digest

IInv == TypeOK /\ \A c \in Calls : Coherent(c)

\* A step of one identity: what it may do to its record.
Steps(c) == \/ Tick(c)
            \/ \E d \in Digests : Create(c, d) \/ Claim(c, d)
            \/ \E allow \in BOOLEAN : Decide(c, allow)
            \/ \E outcome \in Outcomes, receipt \in Receipts, token \in Nat :
                 Finish(c, token, outcome, receipt)

\* Final for one identity.
Kept(c) ==
  /\ rec[c].status \in {"denied", "expired"} \cup Outcomes
       => rec'[c].status = rec[c].status /\ rec'[c].receipt = rec[c].receipt
  /\ rec[c].status # "absent" => rec'[c].digest = rec[c].digest

\* An untouched identity stays coherent, and its outcome stays.
Untouched(c) == /\ rec'[c] = rec[c] /\ claims'[c] = claims[c]
                /\ granted'[c] = granted[c] /\ consent'[c] = consent[c]

-----------------------------------------------------------------------------

\* Initially no record exists and nothing was claimed (OpenApprovals on an
\* absent file).
LEMMA InitInv == Init => IInv
  BY DEF Init, IInv, TypeOK, Coherent, NoRecord, Record, Statuses, Claimed, Outcomes

\* Every step is a step of one identity.
LEMMA NextSteps == IInv /\ Next => \E c \in Calls : Steps(c)
<1> SUFFICES ASSUME IInv, NEW c \in Calls,
                    \/ Tick(c)
                    \/ \E d \in Digests : Create(c, d) \/ Claim(c, d)
                    \/ \E allow \in BOOLEAN : Decide(c, allow)
                    \/ \E outcome \in Outcomes, receipt \in Receipts,
                          token \in 0..claims[c] : Finish(c, token, outcome, receipt)
             PROVE  Steps(c)
  BY DEF Next
<1>1. \A token \in 0..claims[c] : token \in Nat
  BY DEF IInv, TypeOK
<1> QED BY <1>1 DEF Steps

\* The expiry of a record changes nothing but the clock (ExpiresAt).
LEMMA TickInv ==
  ASSUME IInv, NEW c \in Calls, Tick(c)
  PROVE  TypeOK' /\ Coherent(c)' /\ Kept(c) /\ \A o \in Calls \ {c} : Untouched(o)
<1>1. rec' = rec /\ claims' = claims /\ granted' = granted /\ consent' = consent
  BY DEF Tick
<1>2. TypeOK'
  BY <1>1 DEF Tick, IInv, TypeOK
<1> QED BY <1>1, <1>2 DEF IInv, Coherent, Kept, Untouched

\* Create keeps an existing record and makes a pending one (ApprovalStore.Create).
LEMMA CreateInv ==
  ASSUME IInv, NEW c \in Calls, NEW d \in Digests, Create(c, d)
  PROVE  TypeOK' /\ Coherent(c)' /\ Kept(c) /\ \A o \in Calls \ {c} : Untouched(o)
<1>1. late' = late /\ claims' = claims /\ granted' = granted /\ consent' = consent
  BY DEF Create
<1>2. CASE rec[c].status # "absent"
  <2>1. rec' = rec
    BY <1>2 DEF Create
  <2> QED BY <1>1, <2>1 DEF IInv, TypeOK, Coherent, Kept, Untouched
<1>3. CASE rec[c].status = "absent"
  <2> DEFINE e == [NoRecord EXCEPT !.status = "pending", !.digest = d]
  <2>1. /\ e \in Record
        /\ e.status = "pending"
    BY DEF NoRecord, Record, Statuses
  <2>2. rec' = [rec EXCEPT ![c] = e]
    BY <1>3 DEF Create
  <2> HIDE DEF e
  <2>3. rec'[c] = e /\ \A o \in Calls \ {c} : rec'[o] = rec[o]
    BY <2>2 DEF IInv, TypeOK
  <2>4. TypeOK'
    BY <1>1, <2>1, <2>2 DEF IInv, TypeOK
  <2>5. Coherent(c)'
    BY <1>1, <1>3, <2>1, <2>3 DEF IInv, Coherent, Claimed, Outcomes
  <2>6. Kept(c)
    BY <1>3 DEF Kept, Outcomes
  <2> QED BY <1>1, <2>3, <2>4, <2>5, <2>6 DEF Untouched
<1> QED BY <1>2, <1>3

\* Decide moves only pending and approved records, and only an approval makes
\* one claimable (ApprovalStore.Decide).
LEMMA DecideInv ==
  ASSUME IInv, NEW c \in Calls, NEW allow \in BOOLEAN, Decide(c, allow)
  PROVE  TypeOK' /\ Coherent(c)' /\ Kept(c) /\ \A o \in Calls \ {c} : Untouched(o)
<1>1. late' = late /\ claims' = claims /\ granted' = granted
  BY DEF Decide
<1>2. rec[c] \in Record
  BY DEF IInv, TypeOK
<1>3. CASE rec[c].status = "pending" /\ late[c]
  <2> DEFINE e == [rec[c] EXCEPT !.status = "expired"]
  <2>1. /\ e \in Record
        /\ e.status = "expired" /\ e.digest = rec[c].digest
    BY <1>2 DEF Record, Statuses
  <2>2. rec' = [rec EXCEPT ![c] = e] /\ consent' = consent
    BY <1>3 DEF Decide
  <2> HIDE DEF e
  <2>3. rec'[c] = e /\ \A o \in Calls \ {c} : rec'[o] = rec[o]
    BY <2>2 DEF IInv, TypeOK
  <2>4. TypeOK'
    BY <1>1, <2>1, <2>2 DEF IInv, TypeOK
  <2>5. Coherent(c)'
    BY <1>1, <1>3, <2>1, <2>2, <2>3 DEF IInv, Coherent, Claimed, Outcomes
  <2>6. Kept(c)
    BY <1>3, <2>1, <2>3 DEF Kept, Outcomes
  <2> QED BY <1>1, <2>2, <2>3, <2>4, <2>5, <2>6 DEF Untouched
<1>4. CASE ~(rec[c].status = "pending" /\ late[c])
  <2> DEFINE w == Wanted(allow)
             e == [rec[c] EXCEPT !.status = w]
  <2>1. w \in {"approved", "denied"}
    BY DEF Wanted
  <2>2. /\ e \in Record
        /\ e.status = w /\ e.digest = rec[c].digest /\ e.receipt = rec[c].receipt
    BY <1>2, <2>1 DEF Record, Statuses
  <2>3. /\ rec' = [rec EXCEPT ![c] = e]
        /\ consent' = [consent EXCEPT ![c] = w]
    BY <1>4 DEF Decide
  <2>4. rec[c].status \in {"pending", "approved", w}
    BY <1>4 DEF Decide, Decidable
  <2> HIDE DEF e, w
  <2>5. /\ rec'[c] = e /\ \A o \in Calls \ {c} : rec'[o] = rec[o]
        /\ consent'[c] = w /\ \A o \in Calls \ {c} : consent'[o] = consent[o]
    BY <2>3 DEF IInv, TypeOK
  <2>6. TypeOK'
    BY <1>1, <2>1, <2>2, <2>3 DEF IInv, TypeOK
  <2>7. Coherent(c)'
    BY <1>1, <2>1, <2>2, <2>4, <2>5 DEF IInv, Coherent, Claimed, Outcomes
  <2>8. Kept(c)
    BY <2>1, <2>2, <2>4, <2>5 DEF Kept, Outcomes
  <2> QED BY <1>1, <2>5, <2>6, <2>7, <2>8 DEF Untouched
<1> QED BY <1>3, <1>4

\* Claim takes an approved record, which no record is again afterwards
\* (ApprovalStore.Claim).
LEMMA ClaimInv ==
  ASSUME IInv, NEW c \in Calls, NEW d \in Digests, Claim(c, d)
  PROVE  TypeOK' /\ Coherent(c)' /\ Kept(c) /\ \A o \in Calls \ {c} : Untouched(o)
<1>1. /\ rec[c].status = "approved" /\ rec[c].digest = d
      /\ late' = late /\ consent' = consent
  BY DEF Claim, Claimable
<1>2. rec[c] \in Record /\ claims[c] = 0 /\ consent[c] = "approved"
  BY <1>1 DEF IInv, TypeOK, Coherent, Claimed, Outcomes
<1>3. CASE late[c]
  <2> DEFINE e == [rec[c] EXCEPT !.status = "expired"]
  <2>1. /\ e \in Record
        /\ e.status = "expired" /\ e.digest = rec[c].digest
    BY <1>2 DEF Record, Statuses
  <2>2. rec' = [rec EXCEPT ![c] = e] /\ claims' = claims /\ granted' = granted
    BY <1>3 DEF Claim
  <2> HIDE DEF e
  <2>3. rec'[c] = e /\ \A o \in Calls \ {c} : rec'[o] = rec[o]
    BY <2>2 DEF IInv, TypeOK
  <2>4. TypeOK'
    BY <1>1, <2>1, <2>2 DEF IInv, TypeOK
  <2>5. Coherent(c)' /\ Kept(c)
    BY <1>1, <1>2, <2>1, <2>2, <2>3 DEF Coherent, Kept, Claimed, Outcomes
  <2> QED BY <1>1, <2>2, <2>3, <2>4, <2>5 DEF Untouched
<1>4. CASE ~late[c]
  <2> DEFINE e == [rec[c] EXCEPT !.status = "claimed", !.token = 1]
  <2>1. /\ e \in Record
        /\ e.status = "claimed" /\ e.digest = d
    BY <1>1, <1>2 DEF Record, Statuses
  <2>2. /\ rec' = [rec EXCEPT ![c] = e]
        /\ claims' = [claims EXCEPT ![c] = 1] /\ granted' = [granted EXCEPT ![c] = d]
    <3>1. claims[c] + 1 = 1
      BY <1>2
    <3>2. /\ rec' = [rec EXCEPT ![c].status = "claimed", ![c].token = claims[c] + 1]
          /\ claims' = [claims EXCEPT ![c] = claims[c] + 1]
          /\ granted' = [granted EXCEPT ![c] = d]
      BY <1>4 DEF Claim
    <3>3. rec' = [rec EXCEPT ![c] = [rec[c] EXCEPT !.status = "claimed", !.token = 1]]
      BY <3>1, <3>2, <1>2 DEF IInv, TypeOK, Record
    <3> QED BY <3>1, <3>2, <3>3
  <2> HIDE DEF e
  <2>3. /\ rec'[c] = e /\ claims'[c] = 1 /\ granted'[c] = d
        /\ \A o \in Calls \ {c} : /\ rec'[o] = rec[o] /\ claims'[o] = claims[o]
                                  /\ granted'[o] = granted[o]
    BY <2>2 DEF IInv, TypeOK
  <2>4. TypeOK'
    BY <1>1, <2>1, <2>2 DEF IInv, TypeOK
  <2>5. Coherent(c)' /\ Kept(c)
    BY <1>1, <1>2, <2>1, <2>3 DEF Coherent, Kept, Claimed, Outcomes
  <2> QED BY <1>1, <2>3, <2>4, <2>5 DEF Untouched
<1> QED BY <1>3, <1>4

\* Finish records one outcome of a claimed action; the same report may be
\* repeated (ApprovalStore.Finish).
LEMMA FinishInv ==
  ASSUME IInv, NEW c \in Calls, NEW outcome \in Outcomes, NEW receipt \in Receipts,
         NEW token \in Nat, Finish(c, token, outcome, receipt)
  PROVE  TypeOK' /\ Coherent(c)' /\ Kept(c) /\ \A o \in Calls \ {c} : Untouched(o)
<1> DEFINE e == [rec[c] EXCEPT !.status = outcome, !.receipt = receipt]
<1>1. late' = late /\ claims' = claims /\ granted' = granted /\ consent' = consent
  BY DEF Finish
<1>2. /\ rec[c] \in Record
      /\ \/ rec[c].status = "claimed"
         \/ rec[c].status = outcome /\ rec[c].receipt = receipt
  BY DEF IInv, TypeOK, Finish, Finishable
<1>3. /\ e \in Record
      /\ e.status = outcome /\ e.receipt = receipt /\ e.digest = rec[c].digest
  BY <1>2 DEF Record, Statuses, Outcomes
<1>4. rec' = [rec EXCEPT ![c] = e]
  BY DEF Finish
<1> HIDE DEF e
<1>5. rec'[c] = e /\ \A o \in Calls \ {c} : rec'[o] = rec[o]
  BY <1>4 DEF IInv, TypeOK
<1>6. TypeOK'
  BY <1>1, <1>3, <1>4 DEF IInv, TypeOK
<1>7. Coherent(c)'
  BY <1>1, <1>2, <1>3, <1>5 DEF IInv, Coherent, Claimed, Outcomes
<1>8. Kept(c)
  BY <1>2, <1>3, <1>5 DEF Kept, Outcomes
<1> QED BY <1>1, <1>5, <1>6, <1>7, <1>8 DEF Untouched

\* Every step preserves the invariant and keeps every outcome.
LEMMA StepInv == IInv /\ [Next]_storeVars => IInv' /\ \A c \in Calls : Kept(c)
<1> SUFFICES ASSUME IInv, [Next]_storeVars
             PROVE  IInv' /\ \A c \in Calls : Kept(c)
  OBVIOUS
<1>1. CASE Next
  <2>1. PICK c \in Calls : Steps(c)
    BY <1>1, NextSteps
  <2>2. TypeOK' /\ Coherent(c)' /\ Kept(c) /\ \A o \in Calls \ {c} : Untouched(o)
    <3>1. CASE Tick(c)
      BY <3>1, TickInv
    <3>2. ASSUME NEW d \in Digests, Create(c, d) \/ Claim(c, d)
          PROVE  TypeOK' /\ Coherent(c)' /\ Kept(c) /\ \A o \in Calls \ {c} : Untouched(o)
      BY <3>2, CreateInv, ClaimInv
    <3>3. ASSUME NEW allow \in BOOLEAN, Decide(c, allow)
          PROVE  TypeOK' /\ Coherent(c)' /\ Kept(c) /\ \A o \in Calls \ {c} : Untouched(o)
      BY <3>3, DecideInv
    <3>4. ASSUME NEW outcome \in Outcomes, NEW receipt \in Receipts, NEW token \in Nat,
                 Finish(c, token, outcome, receipt)
          PROVE  TypeOK' /\ Coherent(c)' /\ Kept(c) /\ \A o \in Calls \ {c} : Untouched(o)
      BY <3>4, FinishInv
    <3> QED BY <2>1, <3>1, <3>2, <3>3, <3>4 DEF Steps
  <2>3. \A o \in Calls \ {c} : Coherent(o)' /\ Kept(o)
    BY <2>2 DEF IInv, Coherent, Kept, Untouched
  <2> QED BY <2>2, <2>3 DEF IInv
<1>2. CASE UNCHANGED storeVars
  BY <1>2 DEF storeVars, IInv, TypeOK, Coherent, Kept
<1> QED BY <1>1, <1>2

\* The invariant holds in every reachable state of the file.
THEOREM Invariant == Spec => []IInv
<1>1. IInv /\ [Next]_storeVars => IInv'
  BY StepInv
<1> QED BY InitInv, <1>1, PTL DEF Spec

-----------------------------------------------------------------------------

\* The records on file have their types (ApprovalState).
THEOREM Types == Spec => []TypeOK
<1>1. IInv => TypeOK
  BY DEF IInv
<1> QED BY Invariant, <1>1, PTL

\* The number of claims of an identity can be read off its status.
LEMMA ClaimCount ==
  ASSUME IInv, NEW c \in Calls
  PROVE  /\ claims[c] \in {0, 1}
         /\ claims[c] = 1 <=> rec[c].status \in Claimed
  BY DEF IInv, Coherent

\* No identity is ever claimed twice (ApprovalStore.Claim: "NEVER automatically
\* made approved again").
THEOREM OneClaim == Spec => []ClaimedOnce
<1>1. ASSUME IInv PROVE ClaimedOnce
  <2>1. \A c \in Calls : claims[c] \in {0, 1}
    BY <1>1, ClaimCount
  <2>2. \A n \in {0, 1} : n <= 1
    OBVIOUS
  <2> QED BY <2>1, <2>2 DEF ClaimedOnce
<1> QED BY Invariant, <1>1, PTL

\* Only what was approved last, and not withdrawn, is claimed (Decide, Claim).
THEOREM Consent == Spec => []ClaimNeedsConsent
<1>1. ASSUME IInv PROVE ClaimNeedsConsent
  <2>1. \A c \in Calls : /\ claims[c] \in {0, 1}
                         /\ claims[c] = 1 <=> rec[c].status \in Claimed
    BY <1>1, ClaimCount
  <2>2. \A n \in {0, 1} : n > 0 => n = 1
    OBVIOUS
  <2>3. \A c \in Calls : rec[c].status \in Claimed => consent[c] = "approved"
    BY <1>1 DEF IInv, Coherent
  <2> QED BY <2>1, <2>2, <2>3 DEF ClaimNeedsConsent, Claimed
<1> QED BY Invariant, <1>1, PTL

\* A claim is granted for exactly the frozen action (Claim's digest).
THEOREM ExactClaim == Spec => []ClaimIsExact
<1>1. IInv => ClaimIsExact
  BY DEF IInv, Coherent, ClaimIsExact
<1> QED BY Invariant, <1>1, PTL

\* A decided outcome and a frozen action never change (Decide, Finish, Create).
THEOREM FinalOutcome == Spec => OutcomeIsFinal
<1>1. IInv /\ [Next]_storeVars => [\A c \in Calls : Kept(c)]_storeVars
  BY StepInv
<1>2. Spec => [][\A c \in Calls : Kept(c)]_storeVars
  BY Invariant, <1>1, PTL DEF Spec
<1> QED BY <1>2 DEF OutcomeIsFinal, Kept
=============================================================================
