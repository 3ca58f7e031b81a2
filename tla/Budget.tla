------------------------------- MODULE Budget -------------------------------
(***************************************************************************)
(* internal/provider/budget.go: the persistent cost account that processes *)
(* share.  Every physical model call reserves its worst case, is marked    *)
(* before it leaves, and is settled from the usage the provider reports;   *)
(* what is uncertain stays held until an operator reconciles it.           *)
(*                                                                         *)
(* A file transaction is one action.  An id is drawn at random and used    *)
(* once.  A call holds the lease of its attempt from Reserve to its end    *)
(* (caller[i].pc # "none"); Recover and Reconcile hold it around a single  *)
(* transaction, which makes them one action guarded by the free lease.     *)
(* Left out: int64 overflow, and identities, reasons and times.            *)
(***************************************************************************)
EXTENDS Naturals, FiniteSets, FiniteSetsExt

CONSTANTS
  Procs,      \* processes that open the account
  Ids,        \* bound: attempt ids ever drawn
  Models,     \* models that may answer a call
  Known,      \* those with a configured price
  Price,      \* FixedPrice of each model, per Million tokens
  Million,
  Window,     \* context window of the clients
  Outputs,    \* their output limits
  Usages,     \* usage a provider may bill
  Confirmed,  \* costs an operator may confirm
  Limit,      \* LimitNanoUSD
  Faulty      \* whether Update may fail, before or after the rename

Tokens == [input : Nat, output : Nat, read : Nat, write : Nat]

ASSUME BudgetConstants ==
  /\ Known \subseteq Models
  /\ Price \in [Models -> Tokens]
  /\ Million \in Nat \ {0} /\ Window \in Nat /\ Limit \in Nat
  /\ Outputs \subseteq 1 .. (Window - 1)
  /\ Usages \subseteq Tokens
  /\ Confirmed \subseteq Nat
  /\ Faulty \in BOOLEAN
  /\ IsFiniteSet(Ids)

VARIABLES
  attempts,   \* BudgetState.Attempts
  process,    \* per process: OpenBudget's state, and what Recover still visits
  caller,     \* Budgeted.run of each attempt: its process and where it is
  sent        \* history: what the provider bills for each attempt, and whether
              \* that was within the call's own price, window and output

vars == <<attempts, process, caller, sent>>

States  == {"absent", "reserved", "sending", "unknown", "settled", "released"}
Attempt == [state : States, model : Models \cup {"none"}, output : Nat,
            reserved : Nat, cost : Nat, flagged : BOOLEAN]
NoAttempt == [state |-> "absent", model |-> "none", output |-> 0,
              reserved |-> 0, cost |-> 0, flagged |-> FALSE]

Down    == [state |-> "down", todo |-> {}]
Resting == [pc |-> "none", proc |-> "none", actual |-> "none"]
NotSent == [bill |-> 0, fits |-> TRUE]

TypeOK ==
  /\ attempts \in [Ids -> Attempt]
  /\ process \in [Procs -> [state : {"down", "opening", "up"}, todo : SUBSET Ids]]
  /\ caller \in [Ids -> [pc : {"none", "claim", "unsent", "send", "calling"},
                         proc : Procs \cup {"none"}, actual : Models \cup {"none"}]]
  /\ sent \in [Ids -> [bill : Nat, fits : BOOLEAN]]

Init ==
  /\ attempts = [i \in Ids |-> NoAttempt]
  /\ process = [p \in Procs |-> Down]
  /\ caller = [i \in Ids |-> Resting]
  /\ sent = [i \in Ids |-> NotSent]

-----------------------------------------------------------------------------
(* Money                                                                   *)

\* FixedPrice.cost: four classes of tokens, rounded up once.
Cost(p, u) ==
  (p.input * u.input + p.output * u.output + p.read * u.read + p.write * u.write
   + Million - 1) \div Million

\* The reservation of a call: the whole window at the dearest input rate.
\* (Seeded fault: at the rate of fresh input.)
Worst_Fresh(p) == p
Worst(p) == [p EXCEPT !.input = Max({p.input, p.read, p.write})]

Reservation(p, n) ==
  Cost(Worst(p), [input |-> Window - n, output |-> n, read |-> 0, write |-> 0])

Fits(u, n) == u.input + u.read + u.write <= Window - n /\ u.output <= n

\* budgetSnapshot
HeldStates == {"reserved", "sending", "unknown"}
Charge(a) == CASE a.state \in HeldStates -> a.reserved
               [] a.state = "settled"    -> a.cost
               [] OTHER                  -> 0
Together(amount) == MapThenSumSet(LAMBDA i : amount[i], Ids)
Consumed == Together([i \in Ids |-> Charge(attempts[i])])
Frozen   == \E i \in Ids : attempts[i].flagged

-----------------------------------------------------------------------------
(* One call: Budgeted.run                                                  *)

Leased(i) == caller[i].pc # "none"
Leave(i)  == caller' = [caller EXCEPT ![i] = Resting]
Write(i, a) == attempts' = [attempts EXCEPT ![i] = a]

\* reserve: refused when the account is frozen or the amount is not there.  When
\* the file was replaced and Update failed all the same, nobody claims the record.
Admits(amount) == ~Frozen /\ Consumed + amount <= Limit

Reserve(i, p, m, n) ==
  LET amount == Reservation(Price[m], n) IN
  /\ process[p].state = "up"
  /\ attempts[i].state = "absent"
  /\ Admits(amount)
  /\ Write(i, [NoAttempt EXCEPT !.state = "reserved", !.model = m, !.output = n,
                                !.reserved = amount])
  /\ \/ caller' = [caller EXCEPT ![i] = [Resting EXCEPT !.pc = "claim", !.proc = p]]
     \/ Faulty /\ UNCHANGED caller
  /\ UNCHANGED <<process, sent>>

\* sending; it also fails when the caller's context has ended.
Claim(i) ==
  LET claimed == [attempts[i] EXCEPT !.state = "sending"] IN
  /\ caller[i].pc = "claim"
  /\ \/ /\ attempts[i].state = "reserved"
        /\ Write(i, claimed)
        /\ caller' = [caller EXCEPT ![i].pc = "send"]
     \/ /\ UNCHANGED attempts \/ (Faulty /\ Write(i, claimed))
        /\ caller' = [caller EXCEPT ![i].pc = "unsent"]
  /\ UNCHANGED <<process, sent>>

\* The call leaves, and is answered and billed by a model and for a usage that
\* may not be those asked for; a complete answer is taken to name that model.
Send(i, q, u) ==
  /\ caller[i].pc = "send"
  /\ caller' = [caller EXCEPT ![i].pc = "calling", ![i].actual = q]
  /\ sent' = [sent EXCEPT ![i] =
                [bill |-> Cost(Price[q], u),
                 fits |-> q = attempts[i].model /\ Fits(u, attempts[i].output)]]
  /\ UNCHANGED <<attempts, process>>

\* The context ended before the call left.
Cancel(i) ==
  /\ caller[i].pc = "send"
  /\ caller' = [caller EXCEPT ![i].pc = "unsent"]
  /\ UNCHANGED <<attempts, process, sent>>

\* unsent, under a context of its own
Unsent(i) ==
  /\ caller[i].pc = "unsent"
  /\ \/ Write(i, [attempts[i] EXCEPT !.state = "released"])
     \/ Faulty /\ UNCHANGED attempts
  /\ Leave(i)
  /\ UNCHANGED <<process, sent>>

\* What the settlement makes of a report: complete and valid usage of a priced
\* model is charged; anything else stays held, and usage that cannot be priced
\* freezes the account.  An answer without a model (an early error) counts as
\* the model asked.
Settled(a, report, actual, bill) ==
  IF report = "complete" /\ actual \in Known
  THEN [a EXCEPT !.state = "settled", !.cost = bill]
  ELSE [a EXCEPT !.state = "unknown",
                 !.flagged = actual \notin Known \/ report = "invalid"]

Settle(i, report) ==
  /\ caller[i].pc = "calling"
  /\ \E actual \in {caller[i].actual} \cup
                   (IF report = "incomplete" THEN {attempts[i].model} ELSE {}) :
       \/ Write(i, Settled(attempts[i], report, actual, sent[i].bill))
       \/ Faulty /\ UNCHANGED attempts
  /\ Leave(i)
  /\ UNCHANGED <<process, sent>>

-----------------------------------------------------------------------------
(* Processes                                                               *)

\* OpenBudget: Recover lists what is not settled ...
Open(p) ==
  /\ process[p].state = "down"
  /\ process' = [process EXCEPT ![p] =
       [state |-> "opening",
        todo  |-> {i \in Ids : attempts[i].state \in {"reserved", "sending"}}]]
  /\ UNCHANGED <<attempts, caller, sent>>

\* ... and changes each under its lease: never sent is free, sent is uncertain.
\* (Seeded fault: whatever has no sender is free.)
Orphaned_Free(a) ==
  [a EXCEPT !.state = IF @ \in {"reserved", "sending"} THEN "released" ELSE @]

Orphaned(a) ==
  [a EXCEPT !.state = CASE @ = "reserved" -> "released"
                        [] @ = "sending"  -> "unknown"
                        [] OTHER          -> @]

\* The lease is probed for a millisecond.  (Seeded fault: not at all.)
Probed_Never(i) == TRUE
Probed(i) == ~Leased(i)

RecoverOne(p, i) ==
  /\ process[p].state = "opening"
  /\ i \in process[p].todo
  /\ \/ /\ Probed(i)
        /\ Write(i, Orphaned(attempts[i]))
        /\ process' = [process EXCEPT ![p].todo = @ \ {i}]
     \/ /\ UNCHANGED attempts       \* not obtained in time
        /\ process' = [process EXCEPT ![p].todo = @ \ {i}]
     \/ /\ Faulty                   \* OpenBudget fails
        /\ UNCHANGED attempts \/ (Probed(i) /\ Write(i, Orphaned(attempts[i])))
        /\ process' = [process EXCEPT ![p] = Down]
  /\ UNCHANGED <<caller, sent>>

Opened(p) ==
  /\ process[p].state = "opening" /\ process[p].todo = {}
  /\ process' = [process EXCEPT ![p].state = "up"]
  /\ UNCHANGED <<attempts, caller, sent>>

\* Reconcile: what the operator confirms is taken for the bill.  Repeating the
\* amount changes nothing, another amount is refused.
\* (Seeded fault: whatever is charged or not may be corrected.)
Reconcilable_Any(a) == a.state # "absent"
Reconcilable(a) == a.state \in {"unknown", "sending"}

Reconcile(i, cost) ==
  /\ \E p \in Procs : process[p].state = "up"
  /\ ~Leased(i)
  /\ Reconcilable(attempts[i])
  /\ Write(i, [attempts[i] EXCEPT !.state = "settled", !.cost = cost, !.flagged = FALSE])
  /\ sent' = [sent EXCEPT ![i] = [bill |-> cost, fits |-> FALSE]]
  /\ UNCHANGED <<process, caller>>

\* The process ends and with it its calls and their leases.
Crash(p) ==
  /\ process[p].state # "down"
  /\ process' = [process EXCEPT ![p] = Down]
  /\ caller' = [i \in Ids |-> IF caller[i].proc = p THEN Resting ELSE caller[i]]
  /\ UNCHANGED <<attempts, sent>>

-----------------------------------------------------------------------------
Calling(i) ==
  \/ \E p \in Procs, m \in Known, n \in Outputs : Reserve(i, p, m, n)
  \/ Claim(i) \/ Cancel(i) \/ Unsent(i)
  \/ \E q \in Models, u \in Usages : Send(i, q, u)
  \/ \E report \in {"complete", "incomplete", "invalid"} : Settle(i, report)

Next ==
  \/ \E i \in Ids : Calling(i) \/ \E cost \in Confirmed : Reconcile(i, cost)
  \/ \E p \in Procs : Open(p) \/ Opened(p) \/ Crash(p) \/ \E i \in Ids : RecoverOne(p, i)

Spec == Init /\ [][Next]_vars

-----------------------------------------------------------------------------
(* Properties                                                              *)

\* docs/COST_BUDGET.md, stages 3 and 4, and budget.go:221: a call that left is
\* never free.  It is held until it is settled, at what was billed or what the
\* operator confirmed, across lost answers, failed writes, crashes and recovery;
\* and only calls that are settled cost anything.
NeverFree ==
  \A i \in Ids :
    /\ sent[i] # NotSent => attempts[i].state \in {"sending", "unknown", "settled"}
    /\ attempts[i].state = "settled" => attempts[i].cost = sent[i].bill

\* docs/COST_BUDGET.md, stage 1 and the formula: calls of any number of processes
\* together bill no more than the limit, except for what single bills exceed
\* their reservations by; and a bill within the call's own price, window and
\* output exceeds nothing.
Bill == Together([i \in Ids |-> sent[i].bill])
Excess(i) == IF sent[i].fits \/ sent[i].bill <= attempts[i].reserved THEN 0
             ELSE sent[i].bill - attempts[i].reserved

SpendBounded == Bill <= Limit + Together([i \in Ids |-> Excess(i)])

\* docs/COST_BUDGET.md, "restart": a call under way is not taken for dead by
\* another process; only its own steps change its attempt.
SenderOwns ==
  [][\A i \in Ids : Leased(i) /\ caller'[i] = caller[i] => attempts'[i] = attempts[i]]_vars

\* A settled or released attempt stays as it is: nothing is charged twice or
\* refunded.
ClosedIsFinal ==
  [][\A i \in Ids : attempts[i].state \in {"settled", "released"}
                      => attempts'[i] = attempts[i]]_vars

\* Both: an attempt is changed by its sender alone, and by nobody once closed.
AttemptsGuarded == SenderOwns /\ ClosedIsFinal

=============================================================================
