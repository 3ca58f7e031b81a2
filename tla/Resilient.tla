------------------------------ MODULE Resilient ------------------------------
\* internal/provider/policy.go: Resilient tries its clients in turn, each several
\* times, for one request; every try is one Budgeted.run, one attempt of Budget.
\* Requests of several processes share the account.  The length of a backoff is
\* left out, and what a request asks for: Complete, Stream, Chat, ChatStream and
\* InspectImage go the same way, and only some of them stream.  A caller's context
\* may end at any time, so it is no variable: a step that it can fail may fail.
EXTENDS Budget, Sequences

CONSTANTS
  Requests,  \* bound: requests made
  Clients,   \* the models of the clients, the primary first
  Retries    \* tries a client has beyond its first

ASSUME ResilientConstants ==
  Clients \in Seq(Known) /\ Clients # <<>> /\ Retries \in Nat

VARIABLE req   \* the requests, see Request

allVars == <<attempts, process, caller, sent, req>>

Tries == Len(Clients) * (Retries + 1)

\* The client of a try, when so many were made before it.
Asked(done) == Clients[(done \div (Retries + 1)) + 1]

\* heard: attempts of which a fragment reached the caller.  answered: history,
\* the attempts that the model answered in full.
Request == [pc : {"try", "call", "quit", "done"}, proc : Procs,
            tries : 0 .. (Tries - 1), attempt : Ids \cup {"none"},
            heard : SUBSET Ids, answered : SUBSET Ids,
            out : {"none", "answer", "error"}]
\* A request that has not begun: its process does nothing for it until it is up.
NewRequest(p) == [pc |-> "try", proc |-> p, tries |-> 0, attempt |-> "none",
                  heard |-> {}, answered |-> {}, out |-> "none"]

RInit == Init /\ \E host \in [Requests -> Procs] : req = [r \in Requests |-> NewRequest(host[r])]

-----------------------------------------------------------------------------
(* Errors                                                                  *)

\* What a failed try returns: the causes joined in its error.  "transient" stands
\* for HTTP 408, 429 and 5xx, network errors, errors of the file system that
\* count as such, and answers cut short; "partial" for partialStream.
Retryable(causes) == "transient" \in causes /\ causes \cap {"budget", "partial"} = {}

\* Once a fragment was emitted, the error is wrapped so that it is not retried.
\* (Seeded fault: it is not.)
Shielded_Not(x, causes) == causes
Shielded(x, causes) == IF x.attempt \in x.heard THEN {"partial"} ELSE causes

\* The bookkeeping of an answered or failed call: ErrBudgetState when it could not
\* be written, ErrBudgetAccounting when it froze the account.
Booked(lost, frozen) == IF lost \/ frozen THEN {"budget"} ELSE {}

Returns(x, out) == [x EXCEPT !.pc = "done", !.out = out]

\* The loop after a try that failed.
Failed(x, causes) ==
  IF Retryable(causes) /\ x.tries + 1 < Tries
  THEN [x EXCEPT !.pc = "try", !.tries = @ + 1]
  ELSE Returns(x, "error")

Becomes(r, x) == req' = [req EXCEPT ![r] = x]

-----------------------------------------------------------------------------
(* One request: Resilient.call                                             *)

Running(r) == req[r].pc = "try" /\ process[req[r].proc].state = "up"

\* ctx.Err before a try, or while waiting for one.
Stop(r) ==
  /\ Running(r)
  /\ Becomes(r, Returns(req[r], "error"))
  /\ UNCHANGED vars

Attempting(r, i, n) ==
  /\ Running(r)
  /\ Reserve(i, req[r].proc, Asked(req[r].tries), n)
  /\ LET x == [req[r] EXCEPT !.attempt = i] IN
     IF Leased(i)' THEN Becomes(r, [x EXCEPT !.pc = "call"])
     ELSE \E cause \in {"transient", "permanent"} : Becomes(r, Failed(x, {cause}))

\* The try ends before anything is reserved: the budget refuses, the file or the
\* lease fails, or the client is not fit for the request.
Turned(r) ==
  /\ Running(r)
  /\ \/ /\ \E n \in Outputs : ~Admits(Reservation(Price[Asked(req[r].tries)], n))
        /\ Becomes(r, Failed(req[r], {"budget"}))
     \/ Faulty /\ Becomes(r, Failed(req[r], {"transient"}))
     \/ Becomes(r, Failed(req[r], {"permanent"}))
  /\ UNCHANGED vars

\* The steps of Budgeted.run for the request's attempt.
Claiming(r) ==
  /\ req[r].pc = "call" /\ Claim(req[r].attempt)
  /\ UNCHANGED req

\* The context ended: its error is not retried.
Cancelling(r) ==
  /\ req[r].pc = "call" /\ Cancel(req[r].attempt)
  /\ Becomes(r, [req[r] EXCEPT !.pc = "quit"])

Releasing(r) ==
  /\ req[r].pc \in {"call", "quit"} /\ Unsent(req[r].attempt)
  /\ \E cause \in {"permanent"} \cup (IF req[r].pc = "call" THEN {"transient"} ELSE {}) :
       Becomes(r, Failed(req[r], {cause}))

Sending(r, q, u) ==
  /\ req[r].pc = "call" /\ Send(req[r].attempt, q, u)
  /\ UNCHANGED req

\* A fragment of a stream, or the whole text of a client that does not stream.
Hear(r) ==
  LET i == req[r].attempt IN
  /\ req[r].pc = "call" /\ caller[i].pc = "calling" /\ i \notin req[r].heard
  /\ Becomes(r, [req[r] EXCEPT !.heard = @ \cup {i}])
  /\ UNCHANGED vars

Answering(r, report) ==
  LET i == req[r].attempt IN
  /\ req[r].pc = "call" /\ Settle(i, report)
  /\ \E lost \in IF attempts'[i] = attempts[i] THEN {TRUE} ELSE {FALSE, Faulty} :
       LET booked == Booked(lost, attempts'[i].flagged)
           whole  == [req[r] EXCEPT !.answered = @ \cup {i}] IN
       \/ Becomes(r, IF booked = {} THEN Returns(whole, "answer") ELSE Failed(whole, booked))
       \/ \E cause \in {"transient", "permanent"} :
            Becomes(r, Failed(req[r], Shielded(req[r], {cause} \cup booked)))

Dies(p) ==
  /\ Crash(p)
  /\ req' = [r \in Requests |->
       IF req[r].proc = p /\ req[r].pc # "done" /\ req[r] # NewRequest(p)
       THEN Returns(req[r], "none") ELSE req[r]]

-----------------------------------------------------------------------------
Requesting(r) ==
  \/ Stop(r) \/ Turned(r) \/ Claiming(r) \/ Cancelling(r) \/ Releasing(r) \/ Hear(r)
  \/ \E i \in Ids, n \in Outputs : Attempting(r, i, n)
  \/ \E q \in Models, u \in Usages : Sending(r, q, u)
  \/ \E report \in {"complete", "incomplete", "invalid"} : Answering(r, report)

Hosting(p) == (Open(p) \/ Opened(p) \/ \E i \in Ids : RecoverOne(p, i)) /\ UNCHANGED req

Operating == \E i \in Ids, cost \in Confirmed : Reconcile(i, cost) /\ UNCHANGED req

RNext ==
  \/ \E r \in Requests : Requesting(r)
  \/ \E p \in Procs : Hosting(p) \/ Dies(p)
  \/ Operating

RSpec == RInit /\ [][RNext]_allVars

-----------------------------------------------------------------------------
(* Properties                                                              *)

RTypeOK == TypeOK /\ req \in [Requests -> Request]

\* README.md:75, no transparent retry once fragments were given out: whatever a
\* caller heard, and whatever the model answered in full, is of the request's
\* last attempt, over retries, fallbacks, failed bookkeeping and refusals of the
\* budget; and an answer is returned only when its cost was recorded.
OneVoice ==
  \A r \in Requests : LET x == req[r] IN
    /\ x.heard \cup x.answered \subseteq {x.attempt}
    /\ x.out = "answer" =>
         /\ x.answered = {x.attempt}
         /\ attempts[x.attempt].state \in {"settled", "unknown"}
         /\ ~attempts[x.attempt].flagged

==============================================================================
