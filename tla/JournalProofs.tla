---------------------------- MODULE JournalProofs ----------------------------
(***************************************************************************)
(* Machine-checked proofs about Journal, for every set of requests,        *)
(* notices, payloads and owners, and every bound.                          *)
(*                                                                         *)
(* The inductive invariant IInv adds to the checked invariants what makes  *)
(* them inductive: SendsCounted says exactly how often each result was     *)
(* begun in each of its states, Ownership says who holds the lease.        *)
(*                                                                         *)
(* Then the delivery hub over the same ledger, Delivery: what the ledger   *)
(* says of a platform that does not recognise duplicates is true.          *)
(***************************************************************************)
EXTENDS Journal, Delivery, FiniteSetTheorems, SequenceTheorems, TLAPS

SendsCounted ==
  \A i \in Ids :
    begun[i] = CASE outbox[i].state = "absent"  -> 0
                 [] outbox[i].state = "pending" -> Licences(i)
                 [] OTHER                       -> Licences(i) + 1

Ownership ==
  /\ \A o \in Owners : o \in lease <=> owner[o].status \in {"opening", "open"}
  /\ \A o, q \in lease : o = q
  /\ \A o \in Owners :
       /\ owner[o].status = "open" => owner[o].epoch = epoch
       /\ owner[o].calls # {} => owner[o].status = "open"

LedgerInv == LedgerTypeOK /\ ResultRecorded /\ SendsCounted

IInv == TypeOK /\ ResultRecorded /\ SendsCounted /\ Ownership

-----------------------------------------------------------------------------
(* Counting confirmations                                                  *)

\* Confirmations is a natural number, zero of the empty record of decisions
\* (Journal.Resolve only ever appends to Entry.Resolutions).
LEMMA ConfirmationsNat ==
  /\ \A d \in Seq(Decisions) : Confirmations(d) \in Nat
  /\ Confirmations(<<>>) = 0
<1>1. ASSUME NEW d \in Seq(Decisions) PROVE Confirmations(d) \in Nat
  <2>1. IsFiniteSet(DOMAIN d)
    BY FS_Interval
  <2>2. IsFiniteSet({k \in DOMAIN d : d[k] = "confirmed_not_sent"})
    BY <2>1, FS_Subset
  <2> QED
    BY <2>2, FS_CardinalityType DEF Confirmations
<1>2. Confirmations(<<>>) = 0
  <2>1. {k \in DOMAIN <<>> : <<>>[k] = "confirmed_not_sent"} = {}
    OBVIOUS
  <2> QED
    BY <2>1, FS_EmptySet DEF Confirmations
<1> QED
  BY <1>1, <1>2

\* Recording one more decision adds one confirmation exactly when it is
\* confirmed_not_sent.
LEMMA ConfirmationsAppend ==
  ASSUME NEW d \in Seq(Decisions), NEW x \in Decisions
  PROVE  Confirmations(Append(d, x)) =
           IF x = "confirmed_not_sent" THEN Confirmations(d) + 1
                                       ELSE Confirmations(d)
<1> DEFINE S == {k \in DOMAIN d : d[k] = "confirmed_not_sent"}
           e == Append(d, x)
           T == {k \in DOMAIN e : e[k] = "confirmed_not_sent"}
<1>1. /\ DOMAIN e = 1 .. Len(d) + 1
      /\ DOMAIN d = 1 .. Len(d)
      /\ Len(d) \in Nat
      /\ e[Len(d) + 1] = x
      /\ \A k \in 1 .. Len(d) : e[k] = d[k]
  OBVIOUS
<1>2. IsFiniteSet(S)
  <2>1. IsFiniteSet(DOMAIN d)
    BY <1>1, FS_Interval
  <2> QED
    BY <2>1, FS_Subset
<1>3. CASE x = "confirmed_not_sent"
  <2>1. T = S \cup {Len(d) + 1}
    BY <1>1, <1>3
  <2>2. Len(d) + 1 \notin S
    BY <1>1
  <2> HIDE DEF S, T
  <2>3. Cardinality(T) = Cardinality(S) + 1
    BY <1>2, <2>1, <2>2, FS_AddElement
  <2> QED
    BY <2>3, <1>3 DEF Confirmations, S, T
<1>4. CASE x # "confirmed_not_sent"
  <2>1. T = S
    BY <1>1, <1>4
  <2> QED
    BY <2>1, <1>4 DEF Confirmations
<1> QED
  BY <1>3, <1>4

-----------------------------------------------------------------------------
(* Every transaction of the ledger preserves the ledger part of IInv       *)

\* What is owed is a well-typed entry (Entry{State: "pending", Payload: data}).
LEMMA OwedType ==
  ASSUME NEW p \in Payloads
  PROVE  Owed(p) \in OutboxEntry
<1>1. <<>> \in Seq(Decisions)
  OBVIOUS
<1> QED
  BY <1>1 DEF Owed, OutboxEntry, OutboxStates

\* Put of an inbound event.
LEMMA PutInboxInv ==
  ASSUME LedgerInv, NEW r \in Requests, NEW p \in Payloads, PutInbox(r, p)
  PROVE  LedgerInv'
<1> USE DEF LedgerInv, PutInbox
<1>1. LedgerTypeOK'
  BY DEF LedgerTypeOK, InboxEntry, InboxStates
<1>2. ResultRecorded'
  BY DEF ResultRecorded, LedgerTypeOK, InboxEntry, InboxStates
<1>3. SendsCounted'
  BY DEF SendsCounted, Licences
<1> QED
  BY <1>1, <1>2, <1>3

\* Put of a result that answers no request.
LEMMA PutOutboxInv ==
  ASSUME LedgerInv, NEW n \in Notices, NEW p \in Payloads, PutOutbox(n, p)
  PROVE  LedgerInv'
<1> USE DEF LedgerInv, PutOutbox, Ids
<1>1. LedgerTypeOK'
  BY DEF LedgerTypeOK, OutboxEntry, OutboxStates, Owed
<1>2. ResultRecorded'
  BY LedgerConstants DEF ResultRecorded, LedgerTypeOK
<1>3. SendsCounted'
  BY ConfirmationsNat DEF SendsCounted, Licences, LedgerTypeOK, Owed
<1> QED
  BY <1>1, <1>2, <1>3

\* Move of an inbound request between states that owe no result.
LEMMA MoveInboxInv ==
  ASSUME LedgerInv, NEW r \in Requests, NEW from, NEW to \in InboxStates,
         from # "completed", to # "completed", MoveInbox(r, from, to)
  PROVE  LedgerInv'
<1> USE DEF LedgerInv, MoveInbox
<1>1. LedgerTypeOK'
  BY DEF LedgerTypeOK, InboxEntry
<1>2. ResultRecorded'
  BY DEF ResultRecorded, LedgerTypeOK, InboxEntry
<1>3. SendsCounted'
  BY DEF SendsCounted, Licences
<1> QED
  BY <1>1, <1>2, <1>3

\* Move of a result: begin a delivery, or record its outcome.
LEMMA MoveOutboxInv ==
  ASSUME LedgerInv, NEW i \in Ids, NEW from, NEW to,
         \/ from = "pending" /\ to = "sending"
         \/ from = "sending" /\ to \in Outcomes,
         MoveOutbox(i, from, to)
  PROVE  LedgerInv'
<1> USE DEF LedgerInv, MoveOutbox, Outcomes
<1> DEFINE e == [outbox[i] EXCEPT !.state = to, !.receipt = (to = "delivered")]
<1>1. /\ outbox[i] \in OutboxEntry
      /\ outbox' = [outbox EXCEPT ![i] = e]
  BY DEF LedgerTypeOK
<1>2. /\ e \in OutboxEntry
      /\ e.state = to
      /\ e.payload = outbox[i].payload
      /\ e.decisions = outbox[i].decisions
  BY <1>1 DEF OutboxEntry, OutboxStates
<1> HIDE DEF e
<1>3. LedgerTypeOK'
  <2>1. begun' \in [Ids -> Nat]
    BY DEF LedgerTypeOK
  <2>2. outbox' \in [Ids -> OutboxEntry]
    BY <1>1, <1>2 DEF LedgerTypeOK
  <2> QED
    BY <2>1, <2>2 DEF LedgerTypeOK
<1>4. ResultRecorded'
  BY <1>1, <1>2 DEF ResultRecorded, LedgerTypeOK, Ids
<1>5. SendsCounted'
  BY <1>1, <1>2 DEF SendsCounted, Licences, LedgerTypeOK
<1> QED
  BY <1>3, <1>4, <1>5

\* Complete: the reply it records finds no earlier one.
LEMMA CompleteInv ==
  ASSUME LedgerInv, NEW r \in Requests, NEW p \in Payloads, Complete(r, p)
  PROVE  LedgerInv'
<1> USE DEF LedgerInv, Complete, Ids
<1>1. LedgerTypeOK'
  <2>1. outbox' \in [Ids -> OutboxEntry]
    BY OwedType DEF LedgerTypeOK
  <2>2. inbox' \in [Requests -> InboxEntry]
    BY DEF LedgerTypeOK, InboxEntry, InboxStates
  <2> QED
    BY <2>1, <2>2 DEF LedgerTypeOK
<1>2. ResultRecorded'
  BY DEF ResultRecorded, LedgerTypeOK, InboxEntry, OutboxEntry, Owed
<1>3. outbox[r].state = "absent"
  BY DEF ResultRecorded
<1>4. SendsCounted'
  BY <1>3, ConfirmationsNat DEF SendsCounted, Licences, LedgerTypeOK, Owed
<1> QED
  BY <1>1, <1>2, <1>4

\* Resolve of an inbound request.
LEMMA ResolveInboxInv ==
  ASSUME LedgerInv, NEW r \in Requests, NEW decision \in Decisions, NEW p,
         decision = "recover_result" => p \in Payloads,
         ResolveInbox(r, decision, p)
  PROVE  LedgerInv'
<1>1. Append(inbox[r].decisions, decision) \in Seq(Decisions)
  BY DEF LedgerInv, LedgerTypeOK, InboxEntry
<1> DEFINE state == IF decision = "abandon" THEN "abandoned" ELSE "completed"
           result == IF decision = "abandon" THEN inbox[r].result ELSE p
           e == [inbox[r] EXCEPT !.state = state, !.result = result,
                                 !.decisions = Append(@, decision)]
<1>2. /\ inbox[r] \in InboxEntry
      /\ inbox[r].state = "needs_reconcile"
      /\ inbox' = [inbox EXCEPT ![r] = e]
      /\ UNCHANGED <<epoch, begun>>
  BY DEF LedgerInv, LedgerTypeOK, ResolveInbox, InboxEntry
<1>3. /\ e \in InboxEntry
      /\ e.state = state
      /\ e.result = result
  BY <1>1, <1>2 DEF ResolveInbox, InboxEntry, InboxStates
<1> HIDE DEF e
<1>4. CASE decision = "abandon"
  <2>1. UNCHANGED outbox
    BY <1>4 DEF ResolveInbox
  <2>2. LedgerTypeOK'
    BY <1>2, <1>3, <2>1 DEF LedgerInv, LedgerTypeOK
  <2>3. ResultRecorded'
    BY <1>2, <1>3, <1>4, <2>1 DEF LedgerInv, ResultRecorded, LedgerTypeOK
  <2>4. SendsCounted'
    BY <1>2, <2>1 DEF LedgerInv, SendsCounted, Licences
  <2> QED
    BY <2>2, <2>3, <2>4 DEF LedgerInv
<1>5. CASE decision = "recover_result"
  <2>1. /\ outbox[r].state = "absent"
        /\ outbox' = [outbox EXCEPT ![r] = Owed(p)]
        /\ r \in Ids
    BY <1>5 DEF ResolveInbox, Ids
  <2>2. LedgerTypeOK'
    BY <1>2, <1>3, <1>5, <2>1, OwedType DEF LedgerInv, LedgerTypeOK
  <2>3. ResultRecorded'
    BY <1>2, <1>3, <1>5, <2>1 DEF LedgerInv, ResultRecorded, LedgerTypeOK, Ids, Owed
  <2>4. SendsCounted'
    BY <1>2, <2>1, ConfirmationsNat
       DEF LedgerInv, SendsCounted, Licences, LedgerTypeOK, Owed
  <2> QED
    BY <2>2, <2>3, <2>4 DEF LedgerInv
<1> QED
  BY <1>4, <1>5 DEF ResolveInbox

\* Resolve of a delivery: only confirmed_not_sent makes it pending again, and
\* it is counted.
LEMMA ResolveOutboxInv ==
  ASSUME LedgerInv, NEW i \in Ids, NEW decision, ResolveOutbox(i, decision)
  PROVE  LedgerInv'
<1> DEFINE d == outbox[i].decisions
<1>1. /\ d \in Seq(Decisions)
      /\ decision \in Decisions
      /\ Append(d, decision) \in Seq(Decisions)
      /\ Confirmations(d) \in Nat
  BY ConfirmationsNat
     DEF LedgerInv, LedgerTypeOK, OutboxEntry, ResolveOutbox, Decisions
<1> DEFINE e == [outbox[i] EXCEPT !.state = DecidedState(decision),
                                  !.receipt = @ \/ decision = "delivered",
                                  !.decisions = Append(@, decision)]
<1>2. /\ outbox[i] \in OutboxEntry
      /\ outbox[i].state = "unknown"
      /\ outbox' = [outbox EXCEPT ![i] = e]
      /\ UNCHANGED <<epoch, inbox, begun>>
      /\ DecidedState(decision) \in {"abandoned", "delivered", "pending"}
      /\ DecidedState(decision) = "pending" <=> decision = "confirmed_not_sent"
  BY DEF LedgerInv, LedgerTypeOK, ResolveOutbox, OutboxEntry, DecidedState
<1>3. /\ e \in OutboxEntry
      /\ e.state = DecidedState(decision)
      /\ e.payload = outbox[i].payload
      /\ e.decisions = Append(d, decision)
  BY <1>1, <1>2 DEF OutboxEntry, OutboxStates
<1> HIDE DEF e
<1>5. LedgerTypeOK'
  BY <1>2, <1>3 DEF LedgerInv, LedgerTypeOK
<1>6. ResultRecorded'
  BY <1>2, <1>3 DEF LedgerInv, ResultRecorded, LedgerTypeOK, Ids
<1>4. SendsCounted'
  <2> SUFFICES ASSUME NEW k \in Ids
               PROVE  begun'[k] = CASE outbox'[k].state = "absent"  -> 0
                                    [] outbox'[k].state = "pending" -> Licences(k)'
                                    [] OTHER                        -> Licences(k)' + 1
    BY DEF SendsCounted
  <2>1. CASE k # i
    BY <1>2, <2>1 DEF LedgerInv, LedgerTypeOK, SendsCounted, Licences
  <2>2. CASE k = i
    <3>1. /\ begun'[i] = Confirmations(d) + 1
          /\ outbox'[i].state = DecidedState(decision)
          /\ outbox'[i].decisions = Append(d, decision)
      BY <1>2, <1>3 DEF LedgerInv, LedgerTypeOK, SendsCounted, Licences
    <3>2. Licences(i)' = IF decision = "confirmed_not_sent"
                         THEN Confirmations(d) + 1 ELSE Confirmations(d)
      BY <1>1, <3>1, ConfirmationsAppend DEF Licences
    <3> QED
      BY <1>1, <1>2, <2>2, <3>1, <3>2
  <2> QED
    BY <2>1, <2>2
<1> QED
  BY <1>4, <1>5, <1>6 DEF LedgerInv

\* Opening: running and sending become questions, nothing becomes pending.
LEMMA ReopenInv ==
  ASSUME LedgerInv, Reopen
  PROVE  LedgerInv'
<1> USE DEF LedgerInv, Reopen, Interrupted
<1>1. LedgerTypeOK'
  <2>1. \A r \in Requests :
           [inbox[r] EXCEPT !.state = Interrupted(@)] \in InboxEntry
    BY DEF LedgerTypeOK, InboxEntry, InboxStates
  <2>2. \A i \in Ids :
           [outbox[i] EXCEPT !.state = Interrupted(@)] \in OutboxEntry
    BY DEF LedgerTypeOK, OutboxEntry, OutboxStates
  <2> QED
    BY <2>1, <2>2 DEF LedgerTypeOK
<1>2. ResultRecorded'
  BY DEF ResultRecorded, LedgerTypeOK, InboxEntry, OutboxEntry, Ids
<1>3. SendsCounted'
  BY DEF SendsCounted, Licences, LedgerTypeOK, OutboxEntry
<1> QED
  BY <1>1, <1>2, <1>3

\* Every mutation a client may ask for is one of these transactions.
LEMMA ApplyInv ==
  ASSUME LedgerInv, NEW c \in Call, Apply(c)
  PROVE  LedgerInv'
<1> USE DEF Call, Apply, InboxStates, Outcomes, Decisions
<1>1. CASE c.op = "put_inbox" /\ PutInbox(c.id, c.data)
  BY <1>1, PutInboxInv
<1>2. CASE c.op = "put_outbox" /\ PutOutbox(c.id, c.data)
  BY <1>2, PutOutboxInv
<1>3. CASE c.op = "claim" /\ MoveInbox(c.id, "pending", "running")
  BY <1>3, MoveInboxInv
<1>4. CASE c.op = "refuse" /\ MoveInbox(c.id, "running", "pending")
  BY <1>4, MoveInboxInv
<1>5. CASE c.op = "fault" /\ MoveInbox(c.id, "running", "needs_reconcile")
  BY <1>5, MoveInboxInv
<1>6. CASE c.op = "merge" /\ MoveInbox(c.id, "running", "merged")
  BY <1>6, MoveInboxInv
<1>7. CASE c.op = "complete" /\ Complete(c.id, c.data)
  BY <1>7, CompleteInv
<1>8. CASE c.op = "send" /\ MoveOutbox(c.id, "pending", "sending")
  BY <1>8, MoveOutboxInv
<1>9. CASE c.op \in Outcomes /\ MoveOutbox(c.id, "sending", c.op)
  BY <1>9, MoveOutboxInv
<1>10. CASE c.op = "recover_result" /\ ResolveInbox(c.id, "recover_result", c.data)
  BY <1>10, ResolveInboxInv
<1>11. CASE c.op = "abandon_request" /\ ResolveInbox(c.id, "abandon", None)
  BY <1>11, ResolveInboxInv
<1>12. CASE /\ c.op \in {"abandon_reply", "confirm_delivered", "confirm_not_sent"}
            /\ \E decision : ResolveOutbox(c.id, decision)
  BY <1>12, ResolveOutboxInv
<1> QED
  BY <1>1, <1>2, <1>3, <1>4, <1>5, <1>6, <1>7, <1>8, <1>9, <1>10, <1>11, <1>12

-----------------------------------------------------------------------------
(* The protocol of the owners                                              *)

LEMMA InitInv == Init => IInv
<1> SUFFICES ASSUME Init PROVE IInv
  OBVIOUS
<1> USE DEF Init, LedgerInit
<1>0. <<>> \in Seq(Decisions)
  OBVIOUS
<1>1. TypeOK
  BY <1>0 DEF TypeOK, LedgerTypeOK, InboxEntry, OutboxEntry, InboxStates,
              OutboxStates, Statuses
<1>2. ResultRecorded
  BY DEF ResultRecorded, Ids
<1>3. SendsCounted
  BY DEF SendsCounted
<1>4. Ownership
  BY DEF Ownership
<1> QED
  BY <1>1, <1>2, <1>3, <1>4 DEF IInv

LEMMA StepInv == IInv /\ [Next]_vars => IInv'
<1> SUFFICES ASSUME IInv, [Next]_vars PROVE IInv'
  OBVIOUS
<1>0. LedgerInv
  BY DEF IInv, TypeOK, LedgerInv
<1> USE DEF IInv
<1>1. ASSUME NEW o \in Owners, Acquire(o) PROVE IInv'
  <2>1. LedgerInv'
    BY <1>0, <1>1 DEF Acquire, ledger, LedgerInv, LedgerTypeOK, ResultRecorded,
                      SendsCounted, Licences
  <2>2. TypeOK' /\ Ownership'
    BY <1>1, <2>1 DEF Acquire, ledger, TypeOK, LedgerInv, Statuses, Ownership
  <2> QED
    BY <2>1, <2>2 DEF LedgerInv
<1>2. ASSUME NEW o \in Owners, NEW ok \in BOOLEAN, Load(o, ok) PROVE IInv'
  <2>1. LedgerInv'
    BY <1>0, <1>2, ReopenInv DEF Load
  <2>2. /\ epoch' = epoch + 1
        /\ epoch \in Nat
        /\ lease = {o}
    BY <1>2 DEF Load, Reopen, TypeOK, LedgerTypeOK, Ownership
  <2>3. TypeOK'
    <3> DEFINE status == IF ok THEN "open" ELSE "dead"
               e == [owner[o] EXCEPT !.status = status, !.epoch = epoch + 1]
    <3>1. owner[o] \in [status : Statuses, epoch : Nat, calls : SUBSET Call]
      BY DEF TypeOK
    <3> status \in Statuses
      BY DEF Statuses
    <3> HIDE DEF status
    <3>2. e \in [status : Statuses, epoch : Nat, calls : SUBSET Call]
      <4> DEFINE a == [owner[o] EXCEPT !.status = status]
                 n == epoch + 1
      <4>1. a \in [status : Statuses, epoch : Nat, calls : SUBSET Call]
        BY <3>1
      <4>2. n \in Nat
        BY <2>2
      <4>3. e = [a EXCEPT !.epoch = n]
        OBVIOUS
      <4> HIDE DEF a, n, e
      <4> QED
        BY <4>1, <4>2, <4>3
    <3>3. owner' = [owner EXCEPT ![o] = e]
      BY <1>2 DEF Load, TypeOK, status
    <3>4. lease' \subseteq Owners
      BY <1>2 DEF Load, TypeOK
    <3> QED
      BY <2>1, <3>2, <3>3, <3>4 DEF TypeOK, LedgerInv
  <2>4. Ownership'
    BY <1>2, <2>2 DEF Load, TypeOK, Ownership, Statuses
  <2> QED
    BY <2>1, <2>3, <2>4 DEF LedgerInv
<1>3. ASSUME NEW o \in Owners, NEW c \in Call, Admit(o, c) PROVE IInv'
  <2>1. LedgerInv'
    BY <1>0, <1>3 DEF Admit, LedgerInv, LedgerTypeOK, ResultRecorded,
                      SendsCounted, Licences
  <2>2. TypeOK' /\ Ownership'
    BY <1>3, <2>1 DEF Admit, TypeOK, LedgerInv, Statuses, Ownership
  <2> QED
    BY <2>1, <2>2 DEF LedgerInv
<1>4. ASSUME NEW o \in Owners, NEW c \in owner[o].calls, Commit(o, c) PROVE IInv'
  <2>1. LedgerInv'
    BY <1>0, <1>4, ApplyInv DEF Commit, TypeOK
  <2>2. UNCHANGED epoch
    BY <1>4 DEF Commit, Apply, PutInbox, PutOutbox, MoveInbox, MoveOutbox,
                Complete, ResolveInbox, ResolveOutbox
  <2>3. TypeOK' /\ Ownership'
    BY <1>4, <2>1, <2>2 DEF Commit, Leave, TypeOK, LedgerInv, Statuses, Ownership
  <2> QED
    BY <2>1, <2>3 DEF LedgerInv
<1>5. ASSUME NEW o \in Owners, NEW c \in owner[o].calls, Fail(o, c) PROVE IInv'
  <2>1. LedgerInv'
    BY <1>0, <1>5 DEF Fail, LedgerInv, LedgerTypeOK, ResultRecorded,
                      SendsCounted, Licences
  <2>2. TypeOK' /\ Ownership'
    BY <1>5, <2>1 DEF Fail, Leave, TypeOK, LedgerInv, Statuses, Ownership
  <2> QED
    BY <2>1, <2>2 DEF LedgerInv
<1>6. ASSUME NEW o \in Owners, Close(o) PROVE IInv'
  <2>1. LedgerInv'
    BY <1>0, <1>6 DEF Close, ledger, LedgerInv, LedgerTypeOK, ResultRecorded,
                      SendsCounted, Licences
  <2>2. TypeOK' /\ Ownership'
    BY <1>6, <2>1 DEF Close, Drained, ledger, TypeOK, LedgerInv, Statuses, Ownership
  <2> QED
    BY <2>1, <2>2 DEF LedgerInv
<1>7. ASSUME NEW o \in Owners, Crash(o) PROVE IInv'
  <2>1. LedgerInv'
    BY <1>0, <1>7 DEF Crash, ledger, LedgerInv, LedgerTypeOK, ResultRecorded,
                      SendsCounted, Licences
  <2>2. TypeOK' /\ Ownership'
    BY <1>7, <2>1 DEF Crash, ledger, TypeOK, LedgerInv, Statuses, Ownership
  <2> QED
    BY <2>1, <2>2 DEF LedgerInv
<1>8. CASE UNCHANGED vars
  BY <1>8 DEF vars, TypeOK, LedgerTypeOK, ResultRecorded, SendsCounted,
              Licences, Ownership
<1> QED
  BY <1>1, <1>2, <1>3, <1>4, <1>5, <1>6, <1>7, <1>8 DEF Next

\* Every reachable state of the journal satisfies the inductive invariant.
THEOREM Invariance == Spec => []IInv
<1> QED
  BY InitInv, StepInv, PTL DEF Spec

\* The ledger and its owners keep their types (journal.State, journal.Journal).
THEOREM TypeCorrect == Spec => []TypeOK
<1>1. IInv => TypeOK
  BY DEF IInv
<1> QED
  BY <1>1, Invariance, PTL

\* A completed request and its recorded reply always agree (Journal.Complete,
\* recover_result), across every crash, restart and operator decision.
THEOREM ResultAlwaysRecorded == Spec => []ResultRecorded
<1>1. IInv => ResultRecorded
  BY DEF IInv
<1> QED
  BY <1>1, Invariance, PTL

\* No delivery is begun again without a recorded confirmed_not_sent decision
\* (Journal.Resolve, the comment at journal.go:41).
THEOREM SendsAlwaysLicensed == Spec => []SendsLicensed
<1>1. ASSUME IInv PROVE SendsLicensed
  <2> SUFFICES ASSUME NEW i \in Ids PROVE begun[i] <= Licences(i) + 1
    BY DEF SendsLicensed
  <2>1. Licences(i) \in Nat
    BY <1>1, ConfirmationsNat DEF IInv, TypeOK, LedgerTypeOK, OutboxEntry, Licences
  <2> QED
    BY <1>1, <2>1 DEF IInv, SendsCounted
<1> QED
  BY <1>1, Invariance, PTL

-----------------------------------------------------------------------------
(* Steps: what no step may do                                              *)

\* A step of the protocol leaves the entries alone, runs one admitted
\* transaction of the open owner, or opens the file.
LEMMA StepShape ==
  ASSUME IInv, [Next]_vars
  PROVE  \/ UNCHANGED <<inbox, outbox>>
         \/ Reopen /\ \E o \in Owners : owner[o].status = "opening"
         \/ \E o \in Owners : \E c \in Call :
              Apply(c) /\ owner[o].status = "open" /\ owner[o].epoch = epoch
<1> USE DEF IInv
<1>1. ASSUME NEW o \in Owners,
             \/ Acquire(o) \/ Close(o) \/ Crash(o)
             \/ \E c \in Call : Admit(o, c)
             \/ \E c \in owner[o].calls : Fail(o, c)
      PROVE  UNCHANGED <<inbox, outbox>>
  BY <1>1 DEF Acquire, Close, Crash, Admit, Fail, ledger
<1>2. ASSUME NEW o \in Owners, NEW ok \in BOOLEAN, Load(o, ok)
      PROVE  Reopen /\ owner[o].status = "opening"
  BY <1>2 DEF Load
<1>3. ASSUME NEW o \in Owners, NEW c \in owner[o].calls, Commit(o, c)
      PROVE  /\ c \in Call /\ Apply(c)
             /\ owner[o].status = "open" /\ owner[o].epoch = epoch
  BY <1>3 DEF Commit, Current, TypeOK, Ownership
<1>4. CASE UNCHANGED vars
  BY <1>4 DEF vars
<1> QED
  BY <1>1, <1>2, <1>3, <1>4 DEF Next

\* Entries change only in the hands of the one owner that holds the lease
\* (Journal.Close waits for admitted mutations before it releases it).
THEOREM WritesAlwaysOwned == Spec => WritesAreOwned
<1> DEFINE P == (inbox' # inbox \/ outbox' # outbox) =>
                  \E o \in Owners :
                    /\ lease = {o}
                    /\ \/ owner[o].status = "opening" /\ epoch' = epoch + 1
                       \/ owner[o].status = "open" /\ owner[o].epoch = epoch
<1>1. ASSUME IInv, [Next]_vars PROVE P
  <2>1. \A o \in Owners : owner[o].status \in {"opening", "open"} => lease = {o}
    BY <1>1 DEF IInv, Ownership, TypeOK
  <2> QED
    BY <1>1, <2>1, StepShape DEF Reopen
<1>2. IInv /\ [Next]_vars => [P]_vars
  BY <1>1
<1> QED
  BY <1>2, Invariance, PTL DEF Spec, WritesAreOwned

\* Settled outcomes and stored payloads survive every later step: a late
\* Move, a second Complete, a reopening, an operator decision.
THEOREM SettledStaysFinal == Spec => SettledIsFinal
<1> DEFINE P ==
      /\ \A r \in Requests :
           /\ inbox[r].state \in {"completed", "merged", "abandoned"}
                => inbox'[r].state = inbox[r].state
           /\ inbox[r].state # "absent" => inbox'[r].payload = inbox[r].payload
      /\ \A i \in Ids :
           /\ outbox[i].state \in {"delivered", "dropped", "abandoned"}
                => outbox'[i].state = outbox[i].state
           /\ outbox[i].state # "absent" => outbox'[i].payload = outbox[i].payload
<1>1. ASSUME IInv, [Next]_vars PROVE P
  <2> USE <1>1 DEF IInv, TypeOK, LedgerTypeOK, InboxEntry, OutboxEntry
  <2>1. CASE UNCHANGED <<inbox, outbox>>
    BY <2>1
  <2>2. CASE Reopen
    BY <2>2 DEF Reopen, Interrupted
  <2>3. ASSUME NEW c \in Call, Apply(c) PROVE P
    <3> USE <2>3 DEF Call, Apply, Outcomes
    <3>1. CASE c.op = "put_inbox" /\ PutInbox(c.id, c.data)
      BY <3>1 DEF PutInbox
    <3>2. CASE c.op = "put_outbox" /\ PutOutbox(c.id, c.data)
      BY <3>2 DEF PutOutbox
    <3>3. CASE \E from \in {"pending", "running"} : \E to : MoveInbox(c.id, from, to)
      BY <3>3 DEF MoveInbox
    <3>4. CASE \E from \in {"pending", "sending"} : \E to : MoveOutbox(c.id, from, to)
      BY <3>4 DEF MoveOutbox
    <3>5. CASE c.op = "complete" /\ Complete(c.id, c.data)
      BY <3>5 DEF Complete, ResultRecorded
    <3>6. ASSUME NEW r \in Requests, NEW decision, NEW p, ResolveInbox(r, decision, p)
          PROVE  P
      <4>1. /\ inbox[r].state = "needs_reconcile"
            /\ \A q \in Requests : q # r => inbox'[q] = inbox[q]
            /\ inbox'[r].payload = inbox[r].payload
        BY <3>6 DEF ResolveInbox
      <4>2. \A i \in Ids : outbox[i].state # "absent" => outbox'[i] = outbox[i]
        BY <3>6 DEF ResolveInbox
      <4> QED
        BY <4>1, <4>2
    <3>7. CASE \E decision : ResolveOutbox(c.id, decision)
      BY <3>7 DEF ResolveOutbox
    <3> QED
      BY <3>1, <3>2, <3>3, <3>4, <3>5, <3>6, <3>7
  <2> QED
    BY <2>1, <2>2, <2>3, StepShape
<1>2. IInv /\ [Next]_vars => [P]_vars
  BY <1>1
<1> QED
  BY <1>2, Invariance, PTL DEF Spec, SettledIsFinal

\* needs_reconcile and unknown end only with a recorded operator decision
\* (Journal.Resolve): no Move of a late worker or sender can end them.
THEOREM DoubtAlwaysDecided == Spec => DoubtNeedsDecision
<1> DEFINE P ==
      /\ \A r \in Requests :
           (inbox[r].state = "needs_reconcile" /\ inbox'[r].state # "needs_reconcile")
             => Len(inbox'[r].decisions) = Len(inbox[r].decisions) + 1
      /\ \A i \in Ids :
           (outbox[i].state = "unknown" /\ outbox'[i].state # "unknown")
             => Len(outbox'[i].decisions) = Len(outbox[i].decisions) + 1
<1>1. ASSUME IInv, [Next]_vars PROVE P
  <2> USE <1>1 DEF IInv, TypeOK, LedgerTypeOK, InboxEntry, OutboxEntry
  <2>1. CASE UNCHANGED <<inbox, outbox>>
    BY <2>1
  <2>2. CASE Reopen
    BY <2>2 DEF Reopen, Interrupted
  <2>3. ASSUME NEW c \in Call, Apply(c) PROVE P
    <3> USE <2>3 DEF Call, Apply, Outcomes
    <3>1. CASE c.op = "put_inbox" /\ PutInbox(c.id, c.data)
      BY <3>1 DEF PutInbox
    <3>2. CASE c.op = "put_outbox" /\ PutOutbox(c.id, c.data)
      BY <3>2 DEF PutOutbox
    <3>3. CASE \E from \in {"pending", "running"} : \E to : MoveInbox(c.id, from, to)
      BY <3>3 DEF MoveInbox
    <3>4. CASE \E from \in {"pending", "sending"} : \E to : MoveOutbox(c.id, from, to)
      BY <3>4 DEF MoveOutbox
    <3>5. CASE c.op = "complete" /\ Complete(c.id, c.data)
      BY <3>5 DEF Complete, ResultRecorded
    <3>6. ASSUME NEW r \in Requests, NEW decision \in Decisions, NEW p,
                 ResolveInbox(r, decision, p)
          PROVE  P
      <4>1. /\ inbox[r].decisions \in Seq(Decisions)
            /\ \A q \in Requests : q # r => inbox'[q] = inbox[q]
            /\ inbox'[r].decisions = Append(inbox[r].decisions, decision)
        BY <3>6 DEF ResolveInbox
      <4>2. \A i \in Ids : outbox[i].state = "unknown" => outbox'[i] = outbox[i]
        BY <3>6 DEF ResolveInbox
      <4>3. Len(inbox'[r].decisions) = Len(inbox[r].decisions) + 1
        BY <4>1
      <4> QED
        BY <4>1, <4>2, <4>3
    <3>7. ASSUME NEW i \in Ids, NEW decision \in Decisions, ResolveOutbox(i, decision)
          PROVE  P
      <4>1. /\ outbox[i].decisions \in Seq(Decisions)
            /\ \A k \in Ids : k # i => outbox'[k] = outbox[k]
            /\ outbox'[i].decisions = Append(outbox[i].decisions, decision)
            /\ inbox' = inbox
        BY <3>7 DEF ResolveOutbox
      <4>2. Len(outbox'[i].decisions) = Len(outbox[i].decisions) + 1
        BY <4>1
      <4> QED
        BY <4>1, <4>2
    <3> QED
      BY <3>1, <3>2, <3>3, <3>4, <3>5, <3>6, <3>7 DEF Decisions
  <2> QED
    BY <2>1, <2>2, <2>3, StepShape
<1>2. IInv /\ [Next]_vars => [P]_vars
  BY <1>1
<1> QED
  BY <1>2, Invariance, PTL DEF Spec, DoubtNeedsDecision

-----------------------------------------------------------------------------
(* The hub over the same ledger                                            *)

\* What a goroutine of the hub carries: a message of a known id (Replay's are read
\* back from the outbox).
Carried == [id : Ids, data : Payloads \cup {None}]
Hands   == Carried \cup {NoMessage}
PosterRecord == [pc : {"idle", "read", "admit", "select"}, msg : Hands]
SenderRecord == [pc : {"idle", "claim", "send", "backoff", "record", "finish", "exited"},
                 msg : Hands, attempt : Nat, outcome : Outcomes \cup {"none"}]

Shapes ==
  /\ outbox \in [Ids -> OutboxEntry]
  /\ queue \in [Outlets -> Seq(Carried)]
  /\ poster \in [Posters -> PosterRecord]
  /\ sender \in [Outlets -> SenderRecord]
  /\ remote \in [Ids -> Nat]
  /\ \A t \in Posters : poster[t].pc # "idle" => poster[t].msg \in Carried
  /\ \A e \in Outlets : sender[e].pc \notin {"idle", "exited"} => sender[e].msg \in Carried

\* The one doubt the record forgets: a deduplicating outlet asked again.
Excused(i) == Idempotent /\ i \in doubted

InFlight(s) == s.pc \in {"send", "backoff", "record"}

\* A worker between its claim and its record: the entry says sending, and the
\* worker knows what the platform holds of it.
Sure(s) ==
  InFlight(s) =>
    /\ outbox[s.msg.id].state = "sending"
    /\ s.pc # "record" => remote[s.msg.id] = 0 \/ Excused(s.msg.id)
    /\ s.pc = "record" => s.outcome \in Outcomes
    /\ s.pc = "record" /\ s.outcome = "delivered" => remote[s.msg.id] > 0
    /\ s.pc = "record" /\ s.outcome = "dropped"   => remote[s.msg.id] = 0 \/ Excused(s.msg.id)

\* No two workers have the same result in flight.
Alone(e, f) == InFlight(sender[e]) /\ InFlight(sender[f]) /\ e # f
                 => sender[e].msg.id # sender[f].msg.id

\* The ledger's claim about one result.
Truthful(i) ==
  /\ remote[i] <= 1
  /\ outbox[i].state = "delivered" => remote[i] > 0
  /\ outbox[i].state \in {"absent", "pending"} => remote[i] = 0
  /\ outbox[i].state = "dropped" => remote[i] = 0 \/ Excused(i)

HubInv ==
  /\ Shapes
  /\ \A e \in Outlets : Sure(sender[e])
  /\ \A e, f \in Outlets : Alone(e, f)
  /\ \A i \in Ids : Truthful(i)
  /\ process # "up" => \A e \in Outlets : sender[e].pc \in {"idle", "exited"}

\* At first nothing is recorded and nobody carries a message.
LEMMA HubInitInv == HubInit => HubInv
<1> SUFFICES ASSUME HubInit PROVE HubInv
  OBVIOUS
<1>1. NoMessage \in Hands
  BY DEF Hands
<1>2. /\ outbox = [i \in Ids |-> [state |-> "absent", payload |-> None,
                          receipt |-> FALSE, decisions |-> <<>>]]
      /\ queue = [e \in Outlets |-> <<>>]
      /\ poster = [t \in Posters |-> [pc |-> "idle", msg |-> NoMessage]]
      /\ sender = [e \in Outlets |-> [pc |-> "idle", msg |-> NoMessage,
                                      attempt |-> 0, outcome |-> "none"]]
      /\ remote = [i \in Ids |-> 0]
  BY DEF HubInit, LedgerInit, Resting, Waiting
<1>3. Shapes
  BY <1>1, <1>2 DEF Shapes, OutboxEntry, OutboxStates, PosterRecord, SenderRecord
<1> QED BY <1>2, <1>3 DEF HubInv, Sure, Alone, Truthful, InFlight, Excused

\* Posters, queues and the hub's own flags: nothing the ledger or a worker says
\* changes.
LEMMA PostersInv ==
  ASSUME HubInv, UNCHANGED <<outbox, sender, remote, doubted>>,
         queue' \in [Outlets -> Seq(Carried)],
         poster' \in [Posters -> PosterRecord],
         \A t \in Posters : poster'[t].pc # "idle" => poster'[t].msg \in Carried,
         process' = process \/ (\A e \in Outlets : sender[e].pc \in {"idle", "exited"})
  PROVE  HubInv'
<1>1. Shapes'
  BY DEF HubInv, Shapes
<1> QED BY <1>1 DEF HubInv, Sure, Alone, Truthful, InFlight, Excused

\* One goroutine of the posting side moves on with a message it carries.
LEMMA PosterMoves ==
  ASSUME Shapes, NEW t \in Posters,
         NEW pc \in {"idle", "read", "admit", "select"}, NEW m \in Hands,
         pc # "idle" => m \in Carried,
         poster' = [poster EXCEPT ![t] = [pc |-> pc, msg |-> m]]
  PROVE  /\ poster' \in [Posters -> PosterRecord]
         /\ \A u \in Posters : poster'[u].pc # "idle" => poster'[u].msg \in Carried
<1>1. [pc |-> pc, msg |-> m] \in PosterRecord
  BY DEF PosterRecord
<1> DEFINE r == [pc |-> pc, msg |-> m]
<1>2. r.pc = pc /\ r.msg = m
  OBVIOUS
<1> HIDE DEF r
<1> QED BY <1>1, <1>2 DEF Shapes

\* A poster at rest holds no message.
LEMMA RestingIs ==
  Resting = [pc |-> "idle", msg |-> NoMessage] /\ NoMessage \in Hands
  BY DEF Resting, Hands

\* Post of an id that was recorded before goes on only with the same message.
LEMMA RereadInv == ASSUME HubInv, NEW t \in Posters, Reread(t) PROVE HubInv'
<1>1. /\ UNCHANGED <<outbox, sender, remote, doubted, process, queue>>
      /\ poster[t].pc = "read"
      /\ \/ poster' = [poster EXCEPT ![t] = [poster[t] EXCEPT !.pc = "admit"]]
         \/ poster' = [poster EXCEPT ![t] = Resting]
  BY DEF Reread
<1>2. Shapes /\ poster[t] \in PosterRecord /\ poster[t].msg \in Carried /\ poster[t].msg \in Hands
  BY <1>1 DEF HubInv, Shapes, Hands
<1>3. [poster[t] EXCEPT !.pc = "admit"] = [pc |-> "admit", msg |-> poster[t].msg]
  BY <1>2 DEF PosterRecord
<1>4. /\ poster' \in [Posters -> PosterRecord]
      /\ \A u \in Posters : poster'[u].pc # "idle" => poster'[u].msg \in Carried
  BY <1>1, <1>2, <1>3, RestingIs, PosterMoves
<1>5. queue' \in [Outlets -> Seq(Carried)]
  BY <1>1, <1>2 DEF Shapes
<1> QED BY <1>1, <1>4, <1>5, PostersInv

\* Replay posts a result as the outbox has it.
LEMMA ReplayInv == ASSUME HubInv, NEW i \in Ids, Replay(i) PROVE HubInv'
<1> DEFINE m == [id |-> i, data |-> outbox[i].payload]
<1>1. /\ UNCHANGED <<outbox, sender, remote, doubted, process, queue>>
      /\ poster' = [poster EXCEPT ![Starter] = [pc |-> "admit", msg |-> m]]
  BY DEF Replay
<1>2. Shapes /\ outbox[i] \in OutboxEntry
  BY DEF HubInv, Shapes
<1>3. m \in Carried /\ m \in Hands
  BY <1>2 DEF Carried, Hands, OutboxEntry
<1> HIDE DEF m
<1>4. /\ poster' \in [Posters -> PosterRecord]
      /\ \A u \in Posters : poster'[u].pc # "idle" => poster'[u].msg \in Carried
  <2>1. CASE Starter \in Posters
    BY <1>1, <1>2, <1>3, <2>1, PosterMoves
  <2>2. CASE Starter \notin Posters
    BY <1>1, <1>2, <2>2 DEF Shapes
  <2> QED BY <2>1, <2>2
<1>5. queue' \in [Outlets -> Seq(Carried)]
  BY <1>1, <1>2 DEF Shapes
<1> QED BY <1>1, <1>4, <1>5, PostersInv

\* Post admits a message, or the hub is closed.
LEMMA AdmitInv == ASSUME HubInv, NEW t \in Posters, HubAdmit(t) PROVE HubInv'
<1>1. /\ UNCHANGED <<outbox, sender, remote, doubted, process, queue>>
      /\ poster[t].pc = "admit"
      /\ \/ poster' = [poster EXCEPT ![t].pc = "select"]
         \/ poster' = [poster EXCEPT ![t] = Resting]
  BY DEF HubAdmit
<1>2. Shapes /\ poster[t] \in PosterRecord /\ poster[t].msg \in Carried /\ poster[t].msg \in Hands
  BY <1>1 DEF HubInv, Shapes, Hands
<1>3. [poster EXCEPT ![t].pc = "select"] = [poster EXCEPT ![t] = [pc |-> "select", msg |-> poster[t].msg]]
  <2>1. [poster[t] EXCEPT !.pc = "select"] = [pc |-> "select", msg |-> poster[t].msg]
    BY <1>2 DEF PosterRecord
  <2> QED BY <2>1
<1>4. /\ poster' \in [Posters -> PosterRecord]
      /\ \A u \in Posters : poster'[u].pc # "idle" => poster'[u].msg \in Carried
  BY <1>1, <1>2, <1>3, RestingIs, PosterMoves
<1>5. queue' \in [Outlets -> Seq(Carried)]
  BY <1>1, <1>2 DEF Shapes
<1> QED BY <1>1, <1>4, <1>5, PostersInv

\* A message joins the queue of its outlet.
LEMMA EnqueueInv == ASSUME HubInv, NEW t \in Posters, Enqueue(t) PROVE HubInv'
<1> DEFINE e == Route[poster[t].msg.id]
<1>1. /\ UNCHANGED <<outbox, sender, remote, doubted, process>>
      /\ poster[t].pc = "select"
      /\ poster' = [poster EXCEPT ![t] = Resting]
      /\ queue' = [queue EXCEPT ![e] = Append(queue[e], poster[t].msg)]
  BY DEF Enqueue
<1>2. Shapes /\ poster[t].msg \in Carried
  BY <1>1 DEF HubInv, Shapes
<1> HIDE DEF e
<1>4. /\ poster' \in [Posters -> PosterRecord]
      /\ \A u \in Posters : poster'[u].pc # "idle" => poster'[u].msg \in Carried
  BY <1>1, <1>2, RestingIs, PosterMoves
<1>5. queue' \in [Outlets -> Seq(Carried)]
  <2>1. queue \in [Outlets -> Seq(Carried)]
    BY <1>2 DEF Shapes
  <2>2. CASE e \in Outlets
    <3>1. Append(queue[e], poster[t].msg) \in Seq(Carried)
      BY <1>2, <2>1, <2>2, AppendProperties
    <3> QED BY <1>1, <2>1, <3>1
  <2>3. CASE e \notin Outlets
    BY <1>1, <2>1, <2>3
  <2> QED BY <2>2, <2>3
<1> QED BY <1>1, <1>4, <1>5, PostersInv

\* A poster whose context ends leaves its message in the outbox.
LEMMA WithdrawInv == ASSUME HubInv, NEW t \in Posters, Withdraw(t) PROVE HubInv'
<1>1. /\ UNCHANGED <<outbox, sender, remote, doubted, process, queue>>
      /\ poster' = [poster EXCEPT ![t] = Resting]
  BY DEF Withdraw
<1>2. Shapes
  BY DEF HubInv
<1>4. /\ poster' \in [Posters -> PosterRecord]
      /\ \A u \in Posters : poster'[u].pc # "idle" => poster'[u].msg \in Carried
  BY <1>1, <1>2, RestingIs, PosterMoves
<1>5. queue' \in [Outlets -> Seq(Carried)]
  BY <1>1, <1>2 DEF Shapes
<1> QED BY <1>1, <1>4, <1>5, PostersInv

\* PostDurable's Put owes a result the ledger did not know.
LEMMA StoreInv ==
  ASSUME HubInv, NEW t \in Posters, NEW m \in Message, NEW ok \in BOOLEAN,
         m.id \in Notices, Store(t, m, ok)
  PROVE  HubInv'
<1> DEFINE i == m.id
           pc == IF outbox[i].state = "absent" THEN "admit" ELSE "read"
<1>1. /\ UNCHANGED <<sender, remote, doubted, process, queue>>
      /\ outbox' = IF outbox[i].state = "absent"
                   THEN [outbox EXCEPT ![i] = Owed(m.data)] ELSE outbox
      /\ \/ poster' = [poster EXCEPT ![t] = [pc |-> pc, msg |-> m]]
         \/ poster' = poster
  BY DEF Store, PutOutbox
<1>2. Shapes /\ i \in Ids /\ m \in Carried /\ m \in Hands /\ m.data \in Payloads
  BY DEF HubInv, Message, Carried, Hands
<1>3. /\ Owed(m.data) \in OutboxEntry /\ Owed(m.data).state = "pending"
  BY <1>2 DEF Owed, OutboxEntry, OutboxStates
<1>4. pc \in {"admit", "read"}
  OBVIOUS
<1> HIDE DEF pc, i
<1>5. /\ poster' \in [Posters -> PosterRecord]
      /\ \A u \in Posters : poster'[u].pc # "idle" => poster'[u].msg \in Carried
  <2>1. CASE poster' = poster
    BY <1>2, <2>1 DEF Shapes
  <2>2. CASE poster' = [poster EXCEPT ![t] = [pc |-> pc, msg |-> m]]
    BY <1>2, <1>4, <2>2, PosterMoves
  <2> QED BY <1>1, <2>1, <2>2
<1>6. /\ outbox' \in [Ids -> OutboxEntry]
      /\ \A j \in Ids : \/ outbox'[j].state = outbox[j].state
                        \/ outbox[j].state = "absent" /\ outbox'[j].state = "pending"
  BY <1>1, <1>2, <1>3 DEF Shapes
<1>7. Shapes'
  BY <1>1, <1>2, <1>5, <1>6 DEF Shapes
<1>8. \A e \in Outlets : InFlight(sender[e]) => sender[e].msg.id \in Ids
  BY <1>2 DEF InFlight, Shapes, Carried
<1>9. \A e \in Outlets : Sure(sender[e])'
  BY <1>1, <1>6, <1>8 DEF HubInv, Sure, InFlight, Excused
<1>10. \A j \in Ids : Truthful(j)'
  BY <1>1, <1>6 DEF HubInv, Truthful, Excused
<1> QED BY <1>1, <1>7, <1>9, <1>10 DEF HubInv, Alone, InFlight

\* One worker moves on from s to k and touches at most the entry and the platform's
\* copies of the message it carries.
LEMMA WorkerMoves ==
  ASSUME HubInv, NEW e \in Outlets, NEW k \in SenderRecord,
         sender' = [sender EXCEPT ![e] = k],
         k.pc \notin {"idle", "exited"} => k.msg \in Carried,
         InFlight(k) => InFlight(sender[e]) /\ k.msg = sender[e].msg,
         UNCHANGED <<outbox, remote, doubted, poster>>,
         queue' \in [Outlets -> Seq(Carried)],
         Sure(k),
         process' = process /\ (process = "up" \/ k.pc \in {"idle", "exited"})
  PROVE  HubInv'
<1>1. /\ sender'[e] = k /\ \A f \in Outlets \ {e} : sender'[f] = sender[f]
      /\ sender' \in [Outlets -> SenderRecord]
  BY DEF HubInv, Shapes
<1>2. Shapes'
  BY <1>1 DEF HubInv, Shapes
<1>3. \A f \in Outlets : Sure(sender[f])'
  BY <1>1 DEF HubInv, Sure, InFlight, Excused
<1>4. \A f, g \in Outlets : Alone(f, g)'
  BY <1>1 DEF HubInv, Alone
<1>5. \A i \in Ids : Truthful(i)'
  BY DEF HubInv, Truthful, Excused
<1>6. process' # "up" => \A f \in Outlets : sender'[f].pc \in {"idle", "exited"}
  BY <1>1 DEF HubInv
<1> QED BY <1>2, <1>3, <1>4, <1>5, <1>6 DEF HubInv

\* What a worker is, by its type.
LEMMA WorkerIs ==
  ASSUME HubInv, NEW e \in Outlets
  PROVE  /\ sender[e] \in SenderRecord
         /\ sender[e].pc \notin {"idle", "exited"} =>
              /\ sender[e].msg \in Carried /\ sender[e].msg.id \in Ids
              /\ process = "up"
         /\ Sure(sender[e])
         /\ queue \in [Outlets -> Seq(Carried)]
  BY DEF HubInv, Shapes, Carried

\* A worker's next record, field by field.
LEMMA WorkerAt ==
  ASSUME NEW s \in SenderRecord, NEW pc \in {"idle", "claim", "send", "backoff", "record",
                                             "finish", "exited"}
  PROVE  /\ [s EXCEPT !.pc = pc] \in SenderRecord
         /\ [s EXCEPT !.pc = pc].pc = pc /\ [s EXCEPT !.pc = pc].msg = s.msg
         /\ [s EXCEPT !.pc = pc].outcome = s.outcome
  BY DEF SenderRecord

\* A sender that waits is idle.
LEMMA WaitingIs == Waiting \in SenderRecord /\ Waiting.pc = "idle"
  BY DEF Waiting, SenderRecord, Hands

\* A sender takes the head of its queue.
LEMMA ReceiveInv == ASSUME HubInv, NEW e \in Outlets, Receive(e) PROVE HubInv'
<1> DEFINE k == [Waiting EXCEPT !.pc = "claim", !.msg = Head(queue[e])]
<1>1. /\ UNCHANGED <<outbox, remote, doubted, process, poster>>
      /\ process = "up" /\ queue[e] # <<>>
      /\ queue' = [queue EXCEPT ![e] = Tail(queue[e])]
      /\ sender' = [sender EXCEPT ![e] = k]
  BY DEF Receive
<1>3. queue[e] \in Seq(Carried)
  BY WorkerIs
<1>4. Head(queue[e]) \in Carried /\ Tail(queue[e]) \in Seq(Carried)
  BY <1>1, <1>3, HeadTailProperties
<1>5. k \in SenderRecord /\ k.pc = "claim" /\ k.msg \in Carried
  BY <1>4, WaitingIs DEF SenderRecord, Hands
<1> HIDE DEF k
<1>6. queue' \in [Outlets -> Seq(Carried)]
  BY <1>1, <1>4, WorkerIs
<1>7. ~InFlight(k)
  BY <1>5 DEF InFlight
<1> QED BY <1>1, <1>5, <1>6, <1>7, WorkerMoves DEF Sure

\* A sender that lets its message go, or exits, and changes no entry.
LEMMA QuietMoves ==
  ASSUME HubInv, NEW e \in Outlets,
         NEW pc \in {"idle", "claim", "send", "backoff", "record", "finish", "exited"},
         sender' = [sender EXCEPT ![e].pc = pc],
         pc \in {"finish", "exited"},
         pc = "finish" => sender[e].pc \notin {"idle", "exited"},
         UNCHANGED <<outbox, remote, doubted, poster, queue, process>>
  PROVE  HubInv'
<1> DEFINE k == [sender[e] EXCEPT !.pc = pc]
<1>1. sender[e] \in SenderRecord /\ (pc = "finish" => sender[e].msg \in Carried /\ process = "up")
  BY WorkerIs
<1>2. k \in SenderRecord /\ k.pc = pc /\ k.msg = sender[e].msg
  BY <1>1, WorkerAt
<1>3. sender' = [sender EXCEPT ![e] = k]
  OBVIOUS
<1> HIDE DEF k
<1>4. ~InFlight(k)
  BY <1>2 DEF InFlight
<1>5. queue' \in [Outlets -> Seq(Carried)]
  BY WorkerIs
<1> QED BY <1>1, <1>2, <1>3, <1>4, <1>5, WorkerMoves DEF Sure

\* A worker of the hub returns.
LEMMA LeaveInv == ASSUME HubInv, NEW e \in Outlets, HubLeave(e) PROVE HubInv'
  BY QuietMoves DEF HubLeave

\* A message that is not claimed is not sent.
LEMMA UnclaimedInv == ASSUME HubInv, NEW e \in Outlets, Unclaimed(e) PROVE HubInv'
  BY QuietMoves DEF Unclaimed

\* The backoff is over and the message is sent once more.
LEMMA RetryInv == ASSUME HubInv, NEW e \in Outlets, Retry(e) PROVE HubInv'
<1> DEFINE k == [sender[e] EXCEPT !.pc = "send", !.attempt = sender[e].attempt + 1]
<1>1. /\ UNCHANGED <<outbox, remote, doubted, process, poster, queue>>
      /\ sender[e].pc = "backoff"
      /\ sender' = [sender EXCEPT ![e].pc = "send", ![e].attempt = @ + 1]
  BY DEF Retry
<1>2. /\ sender[e] \in SenderRecord /\ sender[e].msg \in Carried /\ process = "up"
      /\ Sure(sender[e]) /\ sender \in [Outlets -> SenderRecord]
  BY <1>1, WorkerIs DEF HubInv, Shapes
<1>3. sender' = [sender EXCEPT ![e] = k]
  <2>1. [[sender EXCEPT ![e].pc = "send"] EXCEPT ![e].attempt = @ + 1] = [sender EXCEPT ![e] = k]
    BY <1>2
  <2> QED BY <1>1, <2>1
<1>4. k \in SenderRecord /\ k.pc = "send" /\ k.msg = sender[e].msg
  <2> DEFINE n == sender[e].attempt + 1
  <2>1. n \in Nat
    BY <1>2 DEF SenderRecord
  <2> HIDE DEF n
  <2>2. [sender[e] EXCEPT !.pc = "send", !.attempt = n] \in SenderRecord
    BY <1>2, <2>1 DEF SenderRecord
  <2> QED BY <1>2, <2>2 DEF n, SenderRecord
<1> HIDE DEF k
<1>5. Sure(k) /\ InFlight(sender[e])
  BY <1>1, <1>2, <1>4 DEF Sure, InFlight, Excused
<1>6. queue' \in [Outlets -> Seq(Carried)]
  BY <1>1, WorkerIs
<1> QED BY <1>1, <1>2, <1>3, <1>4, <1>5, <1>6, WorkerMoves

\* h.ctx ends during the backoff: the record says unknown.
LEMMA InterruptInv == ASSUME HubInv, NEW e \in Outlets, Interrupt(e) PROVE HubInv'
<1> DEFINE k == [sender[e] EXCEPT !.pc = "record", !.outcome = "unknown"]
<1>1. /\ UNCHANGED <<outbox, remote, doubted, process, poster, queue>>
      /\ sender[e].pc = "backoff"
      /\ sender' = [sender EXCEPT ![e].pc = "record", ![e].outcome = "unknown"]
  BY DEF Interrupt
<1>2. /\ sender[e] \in SenderRecord /\ sender[e].msg \in Carried /\ process = "up"
      /\ Sure(sender[e])
  BY <1>1, WorkerIs
<1>3. sender' = [sender EXCEPT ![e] = k]
  BY <1>1, <1>2 DEF SenderRecord
<1>4. k \in SenderRecord /\ k.pc = "record" /\ k.msg = sender[e].msg /\ k.outcome = "unknown"
  BY <1>2 DEF SenderRecord, Outcomes
<1> HIDE DEF k
<1>5. Sure(k) /\ InFlight(sender[e])
  BY <1>1, <1>2, <1>4 DEF Sure, InFlight, Excused, Outcomes
<1>6. queue' \in [Outlets -> Seq(Carried)]
  BY <1>1, WorkerIs
<1> QED BY <1>1, <1>2, <1>3, <1>4, <1>5, <1>6, WorkerMoves

\* h.finish
LEMMA FinishInv == ASSUME HubInv, NEW e \in Outlets, Finish(e) PROVE HubInv'
<1>1. /\ UNCHANGED <<outbox, remote, doubted, process, poster, queue>>
      /\ sender[e].pc = "finish"
      /\ sender' = [sender EXCEPT ![e] = Waiting]
  BY DEF Finish
<1>3. queue' \in [Outlets -> Seq(Carried)] /\ process = "up"
  BY <1>1, WorkerIs
<1>4. ~InFlight(Waiting)
  BY WaitingIs DEF InFlight
<1> QED BY <1>1, WaitingIs, <1>3, <1>4, WorkerMoves DEF Sure

\* A worker that claims, sends or records: it is the only one with its message in
\* flight, so no other worker's knowledge is disturbed.
LEMMA EntryMoves ==
  ASSUME HubInv, NEW e \in Outlets, NEW k \in SenderRecord, NEW i \in Ids,
         i = sender[e].msg.id, sender[e].msg \in Carried, k.msg = sender[e].msg,
         InFlight(sender[e]) \/ outbox[i].state # "sending",
         sender' = [sender EXCEPT ![e] = k],
         NEW o \in OutboxEntry, outbox' = [outbox EXCEPT ![i] = o],
         NEW n \in Nat, remote' = [remote EXCEPT ![i] = n],
         \A j \in Ids \ {i} : j \in doubted' <=> j \in doubted,
         process = "up", UNCHANGED <<process, queue, poster>>,
         \A s : s = k => Sure(s)', Truthful(i)'
  PROVE  HubInv'
<1>1. /\ sender'[e] = k /\ \A f \in Outlets \ {e} : sender'[f] = sender[f]
      /\ sender' \in [Outlets -> SenderRecord]
      /\ outbox'[i] = o /\ \A j \in Ids \ {i} : outbox'[j] = outbox[j]
      /\ outbox' \in [Ids -> OutboxEntry]
      /\ remote'[i] = n /\ \A j \in Ids \ {i} : remote'[j] = remote[j]
      /\ remote' \in [Ids -> Nat]
  BY DEF HubInv, Shapes
<1>2. Shapes'
  BY <1>1 DEF HubInv, Shapes
<1>3. \A f \in Outlets \ {e} : InFlight(sender[f]) => sender[f].msg.id \in Ids \ {i}
  <2> SUFFICES ASSUME NEW f \in Outlets \ {e}, InFlight(sender[f])
               PROVE  sender[f].msg.id \in Ids /\ sender[f].msg.id # i
    OBVIOUS
  <2>1. sender[f].pc \notin {"idle", "exited"}
    BY DEF InFlight
  <2>2. sender[f].msg.id \in Ids /\ outbox[sender[f].msg.id].state = "sending"
    BY <2>1, WorkerIs DEF Sure
  <2>3. InFlight(sender[e]) => sender[f].msg.id # i
    BY DEF HubInv, Alone
  <2> QED BY <2>2, <2>3
<1>4. \A f \in Outlets : Sure(sender[f])'
  <2>1. Sure(sender[e])'
    BY <1>1 DEF Sure, InFlight, Excused
  <2>2. ASSUME NEW f \in Outlets \ {e} PROVE Sure(sender[f])'
    <3>1. Sure(sender[f])
      BY WorkerIs
    <3> QED BY <1>1, <1>3, <3>1 DEF Sure, InFlight, Excused
  <2> QED BY <2>1, <2>2
<1>5. \A f, g \in Outlets : Alone(f, g)'
  <2> SUFFICES ASSUME NEW f \in Outlets, NEW g \in Outlets PROVE Alone(f, g)'
    OBVIOUS
  <2>1. CASE f # e /\ g # e
    BY <1>1, <2>1 DEF HubInv, Alone
  <2>2. CASE f = e \/ g = e
    BY <1>1, <1>3, <2>2 DEF Alone
  <2> QED BY <2>1, <2>2
<1>6. \A j \in Ids : Truthful(j)'
  BY <1>1 DEF HubInv, Truthful, Excused
<1> QED BY <1>2, <1>4, <1>5, <1>6 DEF HubInv

\* Journal.Move on one outbox entry.
LEMMA EntryMoved ==
  ASSUME HubInv, NEW i \in Ids, NEW to \in OutboxStates, NEW receipt \in BOOLEAN,
         outbox' = [outbox EXCEPT ![i].state = to, ![i].receipt = receipt]
  PROVE  \E o \in OutboxEntry : o.state = to /\ outbox' = [outbox EXCEPT ![i] = o]
<1> DEFINE o == [outbox[i] EXCEPT !.state = to, !.receipt = receipt]
<1>1. outbox \in [Ids -> OutboxEntry] /\ outbox[i] \in OutboxEntry
  BY DEF HubInv, Shapes
<1>2. o \in OutboxEntry /\ o.state = to
  BY <1>1 DEF OutboxEntry
<1>3. outbox' = [outbox EXCEPT ![i] = o]
  BY <1>1
<1> QED BY <1>2, <1>3

\* send: only a pending entry is claimed.
LEMMA ClaimInv == ASSUME HubInv, NEW e \in Outlets, Claim(e) PROVE HubInv'
<1>0. sender[e].msg.id \in Ids
  BY WorkerIs DEF Claim
<1>i. PICK i \in Ids : i = sender[e].msg.id
  BY <1>0
<1>1. /\ sender[e].pc = "claim" /\ outbox[i].state = "pending"
      /\ outbox' = [outbox EXCEPT ![i].state = "sending", ![i].receipt = FALSE]
      /\ \/ sender' = [sender EXCEPT ![e].pc = "send"]
         \/ sender' = [sender EXCEPT ![e].pc = "finish"]
      /\ doubted' = doubted \ {i}
      /\ UNCHANGED <<process, queue, poster, remote>>
  BY <1>i DEF Claim, MoveOutbox
<1>2. /\ sender[e] \in SenderRecord /\ sender[e].msg \in Carried
      /\ process = "up" /\ remote \in [Ids -> Nat]
  BY <1>1, WorkerIs DEF HubInv, Shapes
<1>3. PICK pc \in {"send", "finish"} : sender' = [sender EXCEPT ![e].pc = pc]
  BY <1>1
<1> DEFINE k == [sender[e] EXCEPT !.pc = pc]
<1>4. k \in SenderRecord /\ k.pc = pc /\ k.msg = sender[e].msg
  <2>1. pc \in {"idle", "claim", "send", "backoff", "record", "finish", "exited"}
    OBVIOUS
  <2> QED BY <1>2, <2>1, WorkerAt
<1>5. sender' = [sender EXCEPT ![e] = k]
  BY <1>3
<1> HIDE DEF k
<1>6. PICK o \in OutboxEntry : o.state = "sending" /\ outbox' = [outbox EXCEPT ![i] = o]
  BY <1>1, <1>2, EntryMoved DEF OutboxStates
<1>7. outbox'[i].state = "sending" /\ remote'[i] = remote[i] /\ remote[i] \in Nat
      /\ remote' = [remote EXCEPT ![i] = remote[i]]
  BY <1>1, <1>2, <1>6 DEF HubInv, Shapes
<1>8. remote[i] <= 1 /\ remote[i] = 0
  BY <1>1, <1>2 DEF HubInv, Truthful, Excused
<1>9. Truthful(i)'
  BY <1>2, <1>7, <1>8 DEF Truthful
<1>11. \A j \in Ids \ {i} : j \in doubted' <=> j \in doubted
  BY <1>1
<1>10. \A s : s = k => Sure(s)'
  BY <1>i, <1>3, <1>4, <1>7, <1>8 DEF Sure, InFlight, Excused
<1> QED BY ZenonT(30), <1>i, <1>1, <1>2, <1>4, <1>5, <1>6, <1>7, <1>9, <1>10, <1>11, EntryMoves

\* Outlet.Send answers: what the worker takes to be true of the platform is true.
LEMMA AttemptInv ==
  ASSUME HubInv, NEW e \in Outlets, NEW answer \in Answers, Attempt(e, answer)
  PROVE  HubInv'
<1>0. sender[e].msg.id \in Ids
  BY WorkerIs DEF Attempt
<1>i. PICK i \in Ids : i = sender[e].msg.id
  BY <1>0
<1> DEFINE verdict == Verdict(answer, sender[e].attempt)
           kb == [sender[e] EXCEPT !.pc = "backoff"]
           kr == [sender[e] EXCEPT !.pc = "record", !.outcome = verdict]
<1>1. /\ sender[e].pc = "send"
      /\ sender' = [sender EXCEPT ![e] = IF verdict = "retry" THEN kb ELSE kr]
      /\ doubted' = IF answer = "lost" /\ verdict = "retry" THEN doubted \cup {i} ELSE doubted
      /\ UNCHANGED <<outbox, process, queue, poster>>
  BY <1>i DEF Attempt
<1>2. /\ sender[e] \in SenderRecord /\ sender[e].msg \in Carried
      /\ process = "up" /\ remote \in [Ids -> Nat] /\ outbox[i] \in OutboxEntry
      /\ outbox = [outbox EXCEPT ![i] = outbox[i]]
      /\ Sure(sender[e])
  BY <1>1, WorkerIs DEF HubInv, Shapes
<1>3. PICK arrived \in Arrived(answer) :
        remote' = IF arrived /\ ~(Idempotent /\ remote[i] = 1)
                  THEN [remote EXCEPT ![i] = @ + 1] ELSE remote
  BY <1>i DEF Attempt
<1>4. /\ outbox[i].state = "sending" /\ remote[i] \in Nat /\ remote[i] <= 1
      /\ remote[i] = 0 \/ Excused(i)
  BY <1>i, <1>1, <1>2 DEF Sure, InFlight, Excused, HubInv, Truthful
<1>5. PICK n \in Nat : /\ remote' = [remote EXCEPT ![i] = n] /\ n <= 1
                       /\ n = IF arrived THEN 1 ELSE remote[i]
  <2>1. CASE arrived /\ ~(Idempotent /\ remote[i] = 1)
    <3>1. remote' = [remote EXCEPT ![i] = remote[i] + 1] /\ remote[i] + 1 \in Nat
      BY <1>3, <1>4, <2>1
    <3>2. remote[i] = 0
      BY <1>4, <2>1 DEF Excused
    <3>3. remote' = [remote EXCEPT ![i] = 1]
      BY <3>1, <3>2
    <3>4. 1 \in Nat /\ 1 <= 1 /\ 1 = IF arrived THEN 1 ELSE remote[i]
      BY <2>1
    <3> QED BY <3>3, <3>4, Zenon
  <2>2. CASE ~(arrived /\ ~(Idempotent /\ remote[i] = 1))
    <3>1. remote' = [remote EXCEPT ![i] = remote[i]]
      BY <1>2, <1>3, <2>2
    <3>2. remote[i] = IF arrived THEN 1 ELSE remote[i]
      BY <1>4, <2>2 DEF Excused
    <3> QED BY <1>4, <3>1, <3>2
  <2> QED BY <2>1, <2>2
<1>6. /\ verdict \in Outcomes \cup {"retry"}
      /\ verdict = "dropped" => arrived = FALSE
      /\ verdict = "retry" => arrived = FALSE \/ (Idempotent /\ answer = "lost")
      /\ verdict = "delivered" => arrived = TRUE
  <2>1. arrived \in Arrived(answer)
    OBVIOUS
  <2>2. CASE answer = "receipt"
    BY <2>1, <2>2 DEF Verdict, Arrived, Outcomes
  <2>3. CASE answer = "panic"
    BY <2>3 DEF Verdict, Outcomes
  <2>4. CASE answer = "lost"
    BY <2>4 DEF Verdict, Outcomes
  <2>5. CASE answer = "terminal"
    BY <2>1, <2>5 DEF Verdict, Arrived, Outcomes
  <2>6. CASE answer = "rejected"
    BY <2>1, <2>6 DEF Verdict, Arrived, Outcomes
  <2> QED BY <2>2, <2>3, <2>4, <2>5, <2>6 DEF Answers
<1> HIDE DEF verdict
<1>7. PICK k \in SenderRecord :
        /\ sender' = [sender EXCEPT ![e] = k] /\ k.msg = sender[e].msg
        /\ \/ k.pc = "backoff" /\ verdict = "retry"
           \/ k.pc = "record" /\ k.outcome = verdict /\ verdict \in Outcomes
  <2>1. CASE verdict = "retry"
    <3>1. kb \in SenderRecord /\ kb.pc = "backoff" /\ kb.msg = sender[e].msg
      BY <1>2, WorkerAt
    <3> QED BY <1>1, <2>1, <3>1
  <2>2. CASE verdict # "retry"
    <3>1. verdict \in Outcomes
      BY <1>6, <2>2
    <3>2. kr \in SenderRecord /\ kr.pc = "record" /\ kr.msg = sender[e].msg /\ kr.outcome = verdict
      BY <1>2, <3>1 DEF SenderRecord
    <3> HIDE DEF kr
    <3> QED BY <1>1, <2>2, <3>1, <3>2
  <2> QED BY <2>1, <2>2
<1>8. /\ outbox'[i].state = "sending" /\ remote'[i] = n
  BY <1>1, <1>2, <1>4, <1>5
<1>9. Truthful(i)'
  BY <1>5, <1>8 DEF Truthful
<1>10. verdict \in {"retry", "dropped"} => n = 0 \/ Excused(i)'
  BY <1>1, <1>4, <1>5, <1>6 DEF Excused
<1>11. verdict = "delivered" => n > 0
  BY <1>5, <1>6
<1>14. \A j \in Ids \ {i} : j \in doubted' <=> j \in doubted
  BY <1>1
<1>12. \A s : s = k => Sure(s)'
  BY <1>i, <1>7, <1>8, <1>10, <1>11 DEF Sure, InFlight, Excused, Outcomes
<1>13. InFlight(sender[e])
  BY <1>1 DEF InFlight
<1> QED BY <1>i, <1>1, <1>2, <1>5, <1>7, <1>9, <1>12, <1>13, <1>14, EntryMoves

\* The deferred Move writes down what the worker knows, or nothing.
LEMMA RecordInv ==
  ASSUME HubInv, NEW e \in Outlets, NEW written \in BOOLEAN, Record(e, written)
  PROVE  HubInv'
<1>0. sender[e].msg.id \in Ids
  BY WorkerIs DEF Record
<1>i. PICK i \in Ids : i = sender[e].msg.id
  BY <1>0
<1>1. /\ sender[e].pc = "record" /\ sender' = [sender EXCEPT ![e].pc = "finish"]
      /\ UNCHANGED <<process, queue, poster, remote, doubted>>
      /\ \/ UNCHANGED outbox
         \/ outbox' = [outbox EXCEPT ![i].state = sender[e].outcome,
                                     ![i].receipt = (sender[e].outcome = "delivered")]
  BY <1>i DEF Record, MoveOutbox, ledger
<1>2. CASE UNCHANGED outbox
  BY <1>1, <1>2, QuietMoves
<1>3. CASE outbox' = [outbox EXCEPT ![i].state = sender[e].outcome,
                                    ![i].receipt = (sender[e].outcome = "delivered")]
  <2>1. /\ sender[e] \in SenderRecord /\ sender[e].msg \in Carried
        /\ process = "up" /\ remote \in [Ids -> Nat] /\ remote[i] \in Nat
        /\ remote = [remote EXCEPT ![i] = remote[i]]
        /\ Sure(sender[e])
    BY <1>1, WorkerIs DEF HubInv, Shapes
  <2>2. /\ sender[e].outcome \in Outcomes /\ InFlight(sender[e])
        /\ sender[e].outcome = "delivered" => remote[i] > 0
        /\ sender[e].outcome = "dropped" => remote[i] = 0 \/ Excused(i)
    BY <1>i, <1>1, <2>1 DEF Sure, InFlight, Excused
  <2>3. sender[e].outcome \in OutboxStates
    BY <2>2 DEF Outcomes, OutboxStates
  <2>4. PICK to \in OutboxStates : to = sender[e].outcome
    BY <2>3
  <2>5. PICK o \in OutboxEntry : o.state = to /\ outbox' = [outbox EXCEPT ![i] = o]
    BY <1>3, <2>4, EntryMoved
  <2> DEFINE k == [sender[e] EXCEPT !.pc = "finish"]
  <2>6. k \in SenderRecord /\ k.pc = "finish" /\ k.msg = sender[e].msg
    BY <2>1, WorkerAt
  <2>7. sender' = [sender EXCEPT ![e] = k]
    BY <1>1
  <2> HIDE DEF k
  <2>8. outbox'[i].state = to /\ remote'[i] = remote[i] /\ remote[i] <= 1
    BY <1>1, <2>5 DEF HubInv, Shapes, Truthful
  <2>9. Truthful(i)'
    BY <1>1, <2>1, <2>2, <2>4, <2>8 DEF Truthful, Outcomes, Excused
  <2>10. \A s : s = k => Sure(s)'
    BY <2>6 DEF Sure, InFlight, Excused
  <2> QED BY <1>i, <1>1, <2>1, <2>2, <2>5, <2>6, <2>7, <2>9, <2>10, EntryMoves
<1> QED BY <1>1, <1>2, <1>3

\* Close's own steps touch the hub's flags and the queues.
LEMMA ClosingInv ==
  ASSUME HubInv, Seal \/ Reclaim \/ \E hasty \in BOOLEAN : CancelWorkers(hasty)
  PROVE  HubInv'
<1>1. /\ UNCHANGED <<outbox, sender, remote, doubted, process, poster>>
      /\ queue' = queue \/ queue' = [e \in Outlets |-> <<>>]
  BY DEF Seal, Reclaim, CancelWorkers
<1>2. queue' \in [Outlets -> Seq(Carried)]
  <2>1. queue \in [Outlets -> Seq(Carried)]
    BY DEF HubInv, Shapes
  <2>2. <<>> \in Seq(Carried)
    OBVIOUS
  <2>3. [e \in Outlets |-> <<>>] \in [Outlets -> Seq(Carried)]
    BY <2>2
  <2> QED BY <1>1, <2>1, <2>3
<1>3. /\ poster' \in [Posters -> PosterRecord]
      /\ \A u \in Posters : poster'[u].pc # "idle" => poster'[u].msg \in Carried
  BY <1>1 DEF HubInv, Shapes
<1> QED BY <1>1, <1>2, <1>3, PostersInv

\* The process ends: what the workers knew is gone, the ledger stays.
LEMMA DeathInv == ASSUME HubInv, Exit \/ HubCrash PROVE HubInv'
<1>1. /\ UNCHANGED <<outbox, remote, doubted>>
      /\ queue' = [e \in Outlets |-> <<>>]
      /\ poster' = [t \in Posters |-> Resting]
      /\ sender' = [e \in Outlets |-> Waiting]
  BY DEF Exit, HubCrash, NewMemory
<1>2. Resting \in PosterRecord /\ Resting.pc = "idle"
  BY RestingIs DEF PosterRecord
<1>3. Shapes'
  BY <1>1, <1>2, WaitingIs DEF HubInv, Shapes
<1> QED BY <1>1, <1>3, WaitingIs DEF HubInv, Sure, Alone, Truthful, InFlight, Excused

\* Open turns a send that was in flight into a question.
LEMMA OpenedInv == ASSUME HubInv, Start \/ Reconcile PROVE HubInv'
<1>1. /\ UNCHANGED <<remote, doubted, queue, poster, sender>> /\ process = "down"
      /\ outbox' = [i \in Ids |-> [outbox[i] EXCEPT !.state = Interrupted(@)]]
  BY DEF Start, Reconcile, Reopen
<1>2. ASSUME NEW i \in Ids
      PROVE  /\ outbox'[i] \in OutboxEntry
             /\ outbox'[i].state = outbox[i].state \/ outbox'[i].state = "unknown"
  <2>1. outbox[i] \in OutboxEntry
    BY DEF HubInv, Shapes
  <2>2. PICK s : s = Interrupted(outbox[i].state)
    OBVIOUS
  <2>3. s \in OutboxStates /\ s \in {outbox[i].state, "unknown"}
    <3>1. outbox[i].state \in OutboxStates
      BY <2>1 DEF OutboxEntry
    <3> QED BY <2>2, <3>1 DEF Interrupted, OutboxStates
  <2>4. outbox'[i] = [outbox[i] EXCEPT !.state = s]
    BY <1>1, <2>2
  <2> QED BY <2>1, <2>3, <2>4 DEF OutboxEntry
<1>3. outbox' \in [Ids -> OutboxEntry]
  BY <1>1, <1>2
<1>4. Shapes'
  BY <1>1, <1>3 DEF HubInv, Shapes
<1>5. \A i \in Ids : Truthful(i)'
  BY <1>1, <1>2 DEF HubInv, Truthful, Excused
<1>6. \A e \in Outlets : sender'[e].pc \in {"idle", "exited"}
  BY <1>1 DEF HubInv
<1> QED BY <1>4, <1>5, <1>6 DEF HubInv, Sure, Alone, InFlight

\* Resolve: the operator says what is on the platform (Resolution.Evidence).
LEMMA DecideInv ==
  ASSUME HubInv, NEW i \in Ids, NEW decision \in Decisions, Decide(i, decision)
  PROVE  HubInv'
<1>1. /\ UNCHANGED <<remote, doubted, queue, poster, sender>> /\ process = "operator" /\ process' = "down"
      /\ outbox[i].state = "unknown"
      /\ decision \in {"abandon", "delivered", "confirmed_not_sent"}
      /\ outbox' = [outbox EXCEPT ![i].state = DecidedState(decision),
                                  ![i].receipt = @ \/ decision = "delivered",
                                  ![i].decisions = Append(@, decision)]
      /\ decision = "delivered" => remote[i] > 0
      /\ decision = "confirmed_not_sent" => remote[i] = 0
  BY DEF Decide, ResolveOutbox, Honest
<1>2. PICK s : s = DecidedState(decision)
  OBVIOUS
<1>3. /\ s \in {"abandoned", "delivered", "pending"}
      /\ s = "delivered" => remote[i] > 0
      /\ s = "pending" => remote[i] = 0
  BY <1>1, <1>2 DEF DecidedState
<1>4. outbox[i] \in OutboxEntry /\ outbox \in [Ids -> OutboxEntry]
  BY DEF HubInv, Shapes
<1> DEFINE receipt == outbox[i].receipt \/ decision = "delivered"
           ds == Append(outbox[i].decisions, decision)
           o == [outbox[i] EXCEPT !.state = s, !.receipt = receipt, !.decisions = ds]
<1>5. outbox' = [outbox EXCEPT ![i] = o]
  BY <1>1, <1>2, <1>4
<1>6. receipt \in BOOLEAN
  OBVIOUS
<1>7. ds \in Seq(Decisions)
  BY <1>4, AppendProperties DEF OutboxEntry
<1> HIDE DEF receipt, ds
<1>8. o \in OutboxEntry /\ o.state = s
  BY <1>3, <1>4, <1>6, <1>7 DEF OutboxEntry, OutboxStates
<1> HIDE DEF o
<1>9. /\ outbox' \in [Ids -> OutboxEntry] /\ outbox'[i] = o
      /\ \A j \in Ids \ {i} : outbox'[j] = outbox[j]
  BY <1>4, <1>5, <1>8
<1>10. Shapes'
  BY <1>1, <1>9 DEF HubInv, Shapes
<1>11. \A j \in Ids : Truthful(j)'
  BY <1>1, <1>3, <1>8, <1>9 DEF HubInv, Truthful, Excused
<1>12. \A e \in Outlets : sender'[e].pc \in {"idle", "exited"}
  BY <1>1 DEF HubInv
<1> QED BY <1>10, <1>11, <1>12 DEF HubInv, Sure, Alone, InFlight

\* Every step of the hub keeps the invariant.
LEMMA HubStepInv == HubInv /\ [HubNext]_hubVars => HubInv'
<1> SUFFICES ASSUME HubInv, [HubNext]_hubVars PROVE HubInv'
  OBVIOUS
<1>1. ASSUME NEW t \in Posters, Posting(t) \/ Withdraw(t) PROVE HubInv'
  BY <1>1, RereadInv, AdmitInv, EnqueueInv, WithdrawInv DEF Posting, Released
<1>2. ASSUME NEW e \in Outlets, Working(e) PROVE HubInv'
  <2>1. CASE \E answer \in Answers : Attempt(e, answer)
    BY <2>1, AttemptInv
  <2>2. CASE \E written \in BOOLEAN : Record(e, written)
    BY <2>2, RecordInv
  <2>3. CASE Receive(e) \/ HubLeave(e) \/ Claim(e) \/ Unclaimed(e)
    BY <2>3, ReceiveInv, LeaveInv, ClaimInv, UnclaimedInv
  <2>4. CASE Retry(e) \/ Interrupt(e) \/ Finish(e)
    BY <2>4, RetryInv, InterruptInv, FinishInv
  <2> QED BY <1>2, <2>1, <2>2, <2>3, <2>4 DEF Working
<1>3. CASE UNCHANGED hubVars
  <2>1. UNCHANGED <<outbox, queue, poster, sender, remote, doubted, process>>
    BY <1>3 DEF hubVars
  <2> QED BY <2>1 DEF HubInv, Shapes, Sure, Alone, Truthful, InFlight, Excused
<1> QED BY <1>1, <1>2, <1>3, StoreInv, ReplayInv, ClosingInv, DeathInv, OpenedInv, DecideInv
        DEF HubNext

\* hub.go:168-217 and the record each worker defers: whatever is posted, replayed,
\* retried, cut short or settled by an honest operator, for any number of outlets,
\* posters and results, on an outlet that deduplicates or not, a delivered result is
\* on the platform once, one still owed is not, and a dropped one is not unless a
\* deduplicating outlet had been asked again after a try without an answer.
THEOREM LedgerStaysTrue == HubSpec => []LedgerIsTrue
<1>1. HubInv => LedgerIsTrue
  BY DEF HubInv, Truthful, Excused, LedgerIsTrue, ShownOnce
<1> QED BY HubInitInv, HubStepInv, <1>1, PTL DEF HubSpec

\* The chat never sees a result twice, with deduplication (Feishu's uuid) or without.
THEOREM NeverShownTwice == HubSpec => []ShownOnce
<1>1. HubInv => ShownOnce
  BY DEF HubInv, Truthful, Excused, ShownOnce
<1> QED BY HubInitInv, HubStepInv, <1>1, PTL DEF HubSpec

=============================================================================
