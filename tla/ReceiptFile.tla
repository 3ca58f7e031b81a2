---------------------------- MODULE ReceiptFile ----------------------------
(***************************************************************************)
(* The file of result receipts of one session, as those who write it see   *)
(* it: the manager of the workers and the turns of the conversation.       *)
(***************************************************************************)
CONSTANTS
  Jobs,
  Faulty    \* whether a transaction may fail, before or after the rename

VARIABLE
  receipt   \* the receipts on disk

File == INSTANCE Receipts

\* A transaction that fails leaves the file x as it was, or replaced.
Failing(x, transaction) == Faulty /\ (UNCHANGED x \/ transaction)
=============================================================================
