------------------------------ MODULE Receipts ------------------------------
(***************************************************************************)
(* internal/worker/results.go: the file of result receipts of one session. *)
(* It is what a worker promises to the outside: Spec below is the abstract *)
(* specification that the manager (Workers) implements and on which the    *)
(* notification service (Summaries) builds.  A transaction of the file is  *)
(* one action.  Left out: texts, times, redaction and the owner's name.    *)
(***************************************************************************)
EXTENDS FiniteSets

CONSTANT Jobs    \* bound: workers ever admitted

VARIABLE receipt \* resultState.Records

Ended   == {"completed", "failed", "stopped", "interrupted"}
Receipt == [status : {"absent", "queued"} \cup Ended, acked : BOOLEAN, revoked : BOOLEAN]
NoReceipt == [status |-> "absent", acked |-> FALSE, revoked |-> FALSE]

Records == [Jobs -> Receipt]
Blank   == receipt = [w \in Jobs |-> NoReceipt]

\* PendingResults
Pending(w) ==
  receipt[w].status \in Ended /\ ~receipt[w].acked /\ ~receipt[w].revoked

PersistQueued(w) ==
  receipt[w] = NoReceipt /\ receipt' = [receipt EXCEPT ![w].status = "queued"]

\* The record is read from the file: a revocation made meanwhile stays.
\* (Seeded fault: the record is written anew.)
Finished_Anew(r, status) ==
  [NoReceipt EXCEPT !.status = status, !.revoked = status = "stopped"]
Finished(r, status) ==
  [r EXCEPT !.status = status, !.revoked = @ \/ status = "stopped"]

PersistFinished(w, status) ==
  receipt[w].status # "absent" /\ receipt' = [receipt EXCEPT ![w] = Finished(@, status)]

Acknowledge(w) ==
  receipt[w].status \in Ended /\ receipt' = [receipt EXCEPT ![w].acked = TRUE]

RevokeNotifications ==
  receipt' = [w \in Jobs |->
    IF receipt[w].status = "absent" THEN receipt[w] ELSE [receipt[w] EXCEPT !.revoked = TRUE]]

\* NewDurable: what is still active has lost its owner.
Interrupt ==
  receipt' = [w \in Jobs |->
    IF receipt[w].status = "queued" THEN [receipt[w] EXCEPT !.status = "interrupted"]
    ELSE receipt[w]]

-----------------------------------------------------------------------------
(* What the file promises: a receipt ends once, its outcome stays as it is, *)
(* and an acknowledgement or a revocation is never taken back.              *)

EndsOnce(w, status) ==
  /\ receipt[w].status = "queued"
  /\ receipt' = [receipt EXCEPT ![w].status = status,
                                ![w].revoked = @ \/ status = "stopped"]

Next ==
  \/ \E w \in Jobs : PersistQueued(w) \/ Acknowledge(w)
                     \/ \E s \in Ended \ {"interrupted"} : EndsOnce(w, s)
  \/ RevokeNotifications
  \/ Interrupt

Spec == Blank /\ [][Next]_receipt
=============================================================================
