---------------------------- MODULE GatewayProofs ----------------------------
\* That the gateway keeps its promise of at most one run and one answer for a
\* request, and that its slots, entries and shutdown agree, for any number of
\* requests, slots and restarts and with a journal that works or fails.
EXTENDS Gateway, FiniteSetTheorems, TLAPS

-----------------------------------------------------------------------------
(* The inductive invariant                                                 *)

\* The entries of a request and of its reply, and how often it was run.
Answered == \A r \in Requests :
  /\ outbox[r].payload = None <=> outbox[r].state = "absent"
  /\ outbox[r].state # "absent" => inbox[r].state = "completed"
  /\ outbox[r].state \notin {"absent", "pending"} => begun[r] > 0
  /\ inbox[r].state \in {"absent", "pending"} => ran[r] = 0
  /\ inbox[r].state \in {"absent", "pending", "running"} => inbox[r].decisions = <<>>

\* Turns and waiting goroutines are those of requests the process remembers; a
\* turn that has not begun is the first of its request.
Turns == \A r \in Requests :
  /\ job[r] # "none" \/ waiter[r] # "none" => r \in seen
  /\ r \in seen => inbox[r].state \notin {"absent", "pending"}
  /\ job[r] = "queued" => /\ ran[r] = 0 /\ waiter[r] = "wait" /\ inbox[r].state = "running"
                          /\ ~gw.sealed
  /\ job[r] \in {"running", "absorbed", "ok", "merged"} => ran[r] > 0
  /\ waiter[r] = "complete" => ran[r] > 0
  /\ waiter[r] = "post" => inbox[r].state = "completed"

\* A publication holds a claim of its own between Claim and Submit.
Published ==
  /\ pub.pc # "idle" => pub.req \in Requests /\ process \in {"starting", "up"} /\ ~gw.closed
  /\ pub.pc \in {"submit", "refuse"} =>
       inbox[pub.req].state = "running" /\ ran[pub.req] = 0 /\ pub.req \notin seen

\* A close goes from the intake to the scheduler and the hub; a process that does
\* not run remembers nothing.
Shutdown ==
  /\ gw.cancelled => gw.sealed
  /\ gw.sealed => gw.closed
  /\ gw.closed => process \in {"up", "failed"}
  /\ hub.cancelled \/ hub.done => hub.sealed
  /\ hub.sealed => gw.sealed
  /\ hub.sealed /\ ~gw.cancelled => Joined
  /\ hub.cancelled /\ ~gw.cancelled => hub.done
  /\ hub.done => hub.queue = {} /\ hub.sending = None
  /\ process = "up" => replay = NoReplay

Forgotten ==
  process \in {"down", "operator"} =>
    /\ replay = NoReplay /\ gw = FreshGateway /\ seen = {} /\ pub = NoPub /\ hub = FreshHub
    /\ \A r \in Requests : waiter[r] = "none" /\ job[r] = "none"

Present == {r \in Requests : waiter[r] # "none"}

\* Unlike Attended this holds through a close, until its deadline ends.
Tended ==
  process \in {"starting", "up"} /\ ~gw.cancelled /\ ~faulty =>
    \A r \in Requests :
      /\ inbox[r].state = "running" =>
           waiter[r] # "none" \/ (pub.pc \in {"submit", "refuse"} /\ pub.req = r)
      /\ outbox[r].state = "pending" =>
           r \in hub.queue \cup replay.replies \/ waiter[r] = "post"
      /\ outbox[r].state = "sending" => hub.sending = r

IInv == TypeOK /\ Answered /\ Turns /\ Published /\ Shutdown /\ Forgotten
        /\ IsFiniteSet(Present) /\ SlotsAccounted /\ Tended

-----------------------------------------------------------------------------
(* The transactions of the ledger, entry by entry                          *)

LEMMA Constants ==
  /\ None \notin Payloads /\ None \notin Requests /\ Notices = {} /\ Ids = Requests
  /\ Body \in Payloads /\ MaxOpens \in Nat
  /\ \A s \in Setups : s.slots \in Nat /\ s.slots > 0 /\ s.faulty \in BOOLEAN
BY LedgerConstants, GatewayConstants DEF Ids

LEMMA EntryFields ==
  ASSUME LedgerTypeOK, NEW r \in Requests
  PROVE  /\ inbox[r] \in InboxEntry /\ inbox[r].state \in InboxStates
         /\ inbox[r].decisions \in Seq(Decisions)
         /\ outbox[r] \in OutboxEntry /\ outbox[r].state \in OutboxStates
         /\ outbox[r].payload \in Payloads \cup {None} /\ begun[r] \in Nat
BY Constants DEF LedgerTypeOK, InboxEntry, OutboxEntry

\* The entry of r is now in state s.
Inboxed(r, s) ==
  /\ inbox' \in [Requests -> InboxEntry]
  /\ inbox'[r].state = s /\ inbox'[r].decisions = inbox[r].decisions
  /\ \A o \in Requests \ {r} : inbox'[o] = inbox[o]

Outboxed(r, s) ==
  /\ outbox' \in [Requests -> OutboxEntry]
  /\ outbox'[r].state = s
  /\ \A o \in Requests \ {r} : outbox'[o] = outbox[o]

LEMMA PutEntry ==
  ASSUME LedgerTypeOK, NEW r \in Requests, PutInbox(r, Body)
  PROVE  /\ LedgerTypeOK' /\ UNCHANGED <<outbox, begun>>
         /\ IF inbox[r].state = "absent" THEN Inboxed(r, "pending") ELSE UNCHANGED inbox
<1> DEFINE e == [inbox[r] EXCEPT !.state = "pending", !.payload = Body]
<1>1. e \in InboxEntry /\ e.state = "pending" /\ e.decisions = inbox[r].decisions
  BY EntryFields, Constants DEF InboxEntry, InboxStates
<1>2. inbox[r].state = "absent" => inbox' = [inbox EXCEPT ![r] = e]
  BY DEF PutInbox, LedgerTypeOK
<1>3. inbox[r].state # "absent" => inbox' = inbox
  BY DEF PutInbox
<1>4. UNCHANGED <<epoch, outbox, begun>>
  BY DEF PutInbox
<1> HIDE DEF e
<1> QED BY <1>1, <1>2, <1>3, <1>4 DEF Inboxed, LedgerTypeOK

LEMMA MoveInboxEntry ==
  ASSUME LedgerTypeOK, NEW r \in Requests, NEW from, NEW to \in InboxStates, MoveInbox(r, from, to)
  PROVE  /\ LedgerTypeOK' /\ UNCHANGED <<outbox, begun>>
         /\ inbox[r].state = from /\ Inboxed(r, to)
<1> DEFINE e == [inbox[r] EXCEPT !.state = to, !.result = None]
<1>1. e \in InboxEntry /\ e.state = to /\ e.decisions = inbox[r].decisions
  BY EntryFields DEF InboxEntry
<1>2. inbox' = [inbox EXCEPT ![r] = e] /\ inbox[r].state = from
  BY DEF MoveInbox, LedgerTypeOK
<1>4. UNCHANGED <<epoch, outbox, begun>>
  BY DEF MoveInbox
<1> HIDE DEF e
<1> QED BY <1>1, <1>2, <1>4 DEF Inboxed, LedgerTypeOK

LEMMA MoveOutboxEntry ==
  ASSUME LedgerTypeOK, NEW r \in Requests, NEW from, NEW to \in OutboxStates, MoveOutbox(r, from, to)
  PROVE  /\ LedgerTypeOK' /\ UNCHANGED inbox /\ outbox[r].state = from /\ Outboxed(r, to)
         /\ outbox'[r].payload = outbox[r].payload
         /\ begun' = IF to = "sending" THEN [begun EXCEPT ![r] = @ + 1] ELSE begun
<1> DEFINE b == (to = "delivered")
           e == [outbox[r] EXCEPT !.state = to, !.receipt = b]
<1>1. e \in OutboxEntry /\ e.state = to /\ e.payload = outbox[r].payload
  <2>1. b \in BOOLEAN
    OBVIOUS
  <2> HIDE DEF b
  <2> QED BY <2>1, EntryFields DEF OutboxEntry
<1>2. outbox' = [outbox EXCEPT ![r] = e] /\ outbox[r].state = from
  BY DEF MoveOutbox, LedgerTypeOK
<1>3. /\ UNCHANGED <<epoch, inbox>>
      /\ begun' = IF to = "sending" THEN [begun EXCEPT ![r] = @ + 1] ELSE begun
  BY DEF MoveOutbox
<1> HIDE DEF e
<1> QED BY <1>1, <1>2, <1>3, Constants DEF Outboxed, LedgerTypeOK

LEMMA OwedEntry ==
  ASSUME NEW p \in Payloads
  PROVE  Owed(p) \in OutboxEntry /\ Owed(p).state = "pending" /\ Owed(p).payload = p
<1>1. <<>> \in Seq(Decisions)
  OBVIOUS
<1> QED BY <1>1 DEF Owed, OutboxEntry, OutboxStates

LEMMA CompleteEntry ==
  ASSUME LedgerTypeOK, NEW r \in Requests, NEW p \in Payloads, Complete(r, p)
  PROVE  /\ LedgerTypeOK' /\ UNCHANGED begun /\ inbox[r].state = "running"
         /\ Inboxed(r, "completed") /\ Outboxed(r, "pending") /\ outbox'[r].payload = p
         /\ outbox' = [outbox EXCEPT ![r] = Owed(p)]
<1> DEFINE e == [inbox[r] EXCEPT !.state = "completed", !.result = p]
<1>1. e \in InboxEntry /\ e.state = "completed" /\ e.decisions = inbox[r].decisions
  BY EntryFields DEF InboxEntry, InboxStates
<1>2. /\ inbox' = [inbox EXCEPT ![r] = e] /\ outbox' = [outbox EXCEPT ![r] = Owed(p)]
      /\ inbox[r].state = "running" /\ UNCHANGED <<epoch, begun>>
  BY DEF Complete, LedgerTypeOK
<1> HIDE DEF e
<1> QED BY <1>1, <1>2, OwedEntry, Constants DEF Inboxed, Outboxed, LedgerTypeOK

LEMMA ReopenEntries ==
  ASSUME LedgerTypeOK, Reopen
  PROVE  /\ LedgerTypeOK' /\ UNCHANGED begun
         /\ \A r \in Requests : /\ inbox'[r].state = Interrupted(inbox[r].state)
                                /\ inbox'[r].decisions = inbox[r].decisions
                                /\ outbox'[r].state = Interrupted(outbox[r].state)
                                /\ outbox'[r].payload = outbox[r].payload
<1>1. ASSUME NEW r \in Requests
      PROVE  /\ Interrupted(inbox[r].state) \in InboxStates
             /\ Interrupted(outbox[r].state) \in OutboxStates
  BY EntryFields DEF Interrupted, InboxStates, OutboxStates
<1>2. /\ \A i \in InboxEntry, s \in InboxStates :
           LET e == [i EXCEPT !.state = s] IN
           e \in InboxEntry /\ e.state = s /\ e.decisions = i.decisions
      /\ \A o \in OutboxEntry, s \in OutboxStates :
           LET e == [o EXCEPT !.state = s] IN
           e \in OutboxEntry /\ e.state = s /\ e.payload = o.payload
  BY DEF InboxEntry, OutboxEntry
<1>3. \A r \in Requests :
        /\ inbox'[r] = [inbox[r] EXCEPT !.state = Interrupted(inbox[r].state)]
        /\ outbox'[r] = [outbox[r] EXCEPT !.state = Interrupted(outbox[r].state)]
  BY Constants DEF Reopen
<1>4. DOMAIN inbox' = Requests /\ DOMAIN outbox' = Requests /\ epoch' = epoch + 1 /\ UNCHANGED begun
      /\ inbox' = [r \in Requests |-> inbox'[r]] /\ outbox' = [r \in Requests |-> outbox'[r]]
  BY Constants DEF Reopen
<1>5. ASSUME NEW r \in Requests
      PROVE  /\ inbox'[r] \in InboxEntry /\ outbox'[r] \in OutboxEntry
             /\ inbox'[r].state = Interrupted(inbox[r].state)
             /\ inbox'[r].decisions = inbox[r].decisions
             /\ outbox'[r].state = Interrupted(outbox[r].state)
             /\ outbox'[r].payload = outbox[r].payload
  <2> SUFFICES ASSUME NEW s \in InboxStates, s = Interrupted(inbox[r].state),
                      NEW t \in OutboxStates, t = Interrupted(outbox[r].state)
               PROVE  /\ inbox'[r] \in InboxEntry /\ outbox'[r] \in OutboxEntry
                      /\ inbox'[r].state = s /\ inbox'[r].decisions = inbox[r].decisions
                      /\ outbox'[r].state = t /\ outbox'[r].payload = outbox[r].payload
    BY <1>1
  <2>1. inbox[r] \in InboxEntry /\ outbox[r] \in OutboxEntry
    BY EntryFields
  <2>2. inbox'[r] = [inbox[r] EXCEPT !.state = s] /\ outbox'[r] = [outbox[r] EXCEPT !.state = t]
    BY <1>3
  <2> QED BY <1>2, <2>1, <2>2
<1> QED BY <1>4, <1>5, Constants DEF LedgerTypeOK

-----------------------------------------------------------------------------
(* Fields and counts                                                       *)

LEMMA IInvParts ==
  ASSUME IInv
  PROVE  /\ TypeOK /\ Answered /\ Turns /\ Published /\ Shutdown /\ Forgotten
         /\ IsFiniteSet(Present) /\ SlotsAccounted /\ Tended /\ LedgerTypeOK
BY DEF IInv, TypeOK

LEMMA Fields ==
  ASSUME TypeOK
  PROVE  /\ gw.closed \in BOOLEAN /\ gw.cancelled \in BOOLEAN /\ gw.sealed \in BOOLEAN
         /\ gw.slots \in 0..Slots /\ Slots \in Nat /\ faulty \in BOOLEAN
         /\ hub.sealed \in BOOLEAN /\ hub.cancelled \in BOOLEAN /\ hub.done \in BOOLEAN
         /\ hub.queue \subseteq Requests /\ hub.sending \in Requests \cup {None}
         /\ replay.replies \subseteq Requests /\ replay.requests \subseteq Requests
BY Constants DEF TypeOK, Slots, faulty

\* The memory of a process that has just begun, or has ended.
LEMMA FreshTypes ==
  ASSUME NEW n \in Nat
  PROVE  /\ FreshGateway \in [closed : BOOLEAN, cancelled : BOOLEAN, sealed : BOOLEAN, slots : 0..n]
         /\ FreshHub \in [sealed : BOOLEAN, cancelled : BOOLEAN, done : BOOLEAN,
                          queue : SUBSET Requests, sending : Requests \cup {None}]
         /\ NoReplay \in [replies : SUBSET Requests, requests : SUBSET Requests]
         /\ ~FreshGateway.closed /\ ~FreshGateway.cancelled /\ ~FreshGateway.sealed
         /\ FreshGateway.slots = 0
         /\ ~FreshHub.sealed /\ ~FreshHub.cancelled /\ ~FreshHub.done
         /\ FreshHub.queue = {} /\ FreshHub.sending = None
         /\ NoReplay.replies = {} /\ NoReplay.requests = {}
         /\ NoPub.pc = "idle" /\ NoPub.req = None
BY DEF FreshGateway, FreshHub, NoReplay, NoPub

\* Slots, in terms of waiting goroutines and the publication under way.
Publication == IF pub.pc = "idle" THEN 0 ELSE 1

LEMMA Slotted ==
  /\ SlotsAccounted <=> gw.slots = Cardinality(Present) + Publication
  /\ SlotsAccounted' <=> gw'.slots = Cardinality(Present)' + Publication'
BY DEF SlotsAccounted, Present, Publication

LEMMA PresentSame ==
  ASSUME \A r \in Requests : waiter'[r] = "none" <=> waiter[r] = "none"
  PROVE  Present' = Present
BY DEF Present

LEMMA PresentLeaves ==
  ASSUME TypeOK, IsFiniteSet(Present), NEW r \in Requests, waiter[r] # "none",
         waiter' = [waiter EXCEPT ![r] = "none"]
  PROVE  /\ IsFiniteSet(Present)' /\ Cardinality(Present)' = Cardinality(Present) - 1
         /\ Cardinality(Present) \in Nat /\ Cardinality(Present) > 0
<1>1. Present' = Present \ {r} /\ r \in Present
  BY DEF Present, TypeOK
<1>2. Cardinality(Present) \in Nat /\ Cardinality(Present) # 0
  BY <1>1, FS_CardinalityType, FS_EmptySet
<1> QED BY <1>1, <1>2, FS_RemoveElement

LEMMA PresentEnters ==
  ASSUME TypeOK, IsFiniteSet(Present), NEW r \in Requests, waiter[r] = "none",
         waiter' = [waiter EXCEPT ![r] = "wait"]
  PROVE  /\ IsFiniteSet(Present)' /\ Cardinality(Present)' = Cardinality(Present) + 1
         /\ Cardinality(Present) \in Nat
<1>1. Present' = Present \cup {r} /\ r \notin Present
  BY DEF Present, TypeOK
<1> QED BY <1>1, FS_CardinalityType, FS_AddElement

\* Without a change of the ledger or the history, what it says of them stays.
LEMMA AnsweredQuiet == ASSUME Answered, UNCHANGED <<inbox, outbox, begun, ran>> PROVE Answered'
BY DEF Answered

\* Publications and their end leave goroutines and the ledger alone.
LEMMA QuietTurns ==
  ASSUME Turns, UNCHANGED <<job, waiter, seen, inbox, ran>>, gw'.sealed = gw.sealed
  PROVE  Turns'
BY DEF Turns

-----------------------------------------------------------------------------
(* publish                                                                 *)

LEMMA IntakeInv ==
  ASSUME IInv, NEW r \in Requests, Receive(r) \/ Requeue(r), UNCHANGED setup
  PROVE  IInv'
<1>0. /\ process \in {"up", "starting"} /\ pub.pc = "idle" /\ gw.slots < Slots
      /\ gw' = [gw EXCEPT !.slots = @ + 1] /\ pub' = [pc |-> "put", req |-> r]
      /\ UNCHANGED <<epoch, inbox, outbox, begun, process, allowed, seen, waiter, job, hub, ran>>
  BY DEF Receive, Requeue
<1>1. ~gw.closed
  BY IInvParts DEF Receive, Requeue, Shutdown
<1>2. /\ gw' \in [closed : BOOLEAN, cancelled : BOOLEAN, sealed : BOOLEAN, slots : 0..Slots]
      /\ gw'.closed = gw.closed /\ gw'.cancelled = gw.cancelled /\ gw'.sealed = gw.sealed
      /\ gw'.slots = gw.slots + 1
  BY <1>0, IInvParts, Fields DEF TypeOK
<1>3. pub'.pc = "put" /\ pub'.req = r
  BY <1>0
<1>4. /\ replay' \in [replies : SUBSET Requests, requests : SUBSET Requests]
      /\ replay'.replies = replay.replies
      /\ process = "up" => replay' = replay
  BY IInvParts DEF Receive, Requeue, TypeOK
<1>5. TypeOK'
  BY <1>0, <1>2, <1>4, IInvParts DEF TypeOK, LedgerTypeOK, Slots
<1>6. Answered' /\ Turns'
  BY <1>0, <1>2, IInvParts, AnsweredQuiet, QuietTurns
<1>7. Published'
  BY <1>0, <1>1, <1>2, <1>3 DEF Published
<1>8. Shutdown'
  BY <1>0, <1>1, <1>2, <1>4, IInvParts DEF Shutdown
<1>9. Forgotten'
  BY <1>0 DEF Forgotten
<1>10. IsFiniteSet(Present)' /\ SlotsAccounted'
  <2>1. Present' = Present
    BY <1>0, PresentSame
  <2>2. Publication = 0 /\ Publication' = 1
    BY <1>0, <1>3 DEF Publication
  <2>3. gw.slots = Cardinality(Present) + Publication /\ Cardinality(Present) \in Nat
    BY Slotted, IInvParts, FS_CardinalityType
  <2>4. gw'.slots = Cardinality(Present)' + Publication'
    BY <1>2, <2>1, <2>2, <2>3
  <2> QED BY <2>1, <2>4, Slotted, IInvParts
<1>11. Tended'
  BY <1>0, <1>2, <1>4, IInvParts DEF Tended, faulty
<1> QED BY <1>5, <1>6, <1>7, <1>8, <1>9, <1>10, <1>11 DEF IInv

\* A transaction on the inbox that agrees with what the process remembers.
Agrees == /\ LedgerTypeOK' /\ Answered'
          /\ \A o \in Requests :
               /\ o \in seen => inbox'[o].state \notin {"absent", "pending"}
               /\ job[o] = "queued" => inbox'[o].state = "running"
               /\ waiter[o] = "post" => inbox'[o].state = "completed"

InboxKept == Agrees /\ (faulty \/ UNCHANGED outbox)

\* The publication's own claim, or that of the request after its next step.
Claimed(o) == pub.pc \in {"submit", "refuse"} /\ pub.req = o

LEMMA TurnsKept ==
  ASSUME Turns, InboxKept, UNCHANGED <<job, waiter, seen, ran>>, gw'.sealed = gw.sealed
  PROVE  Turns'
BY DEF Turns, InboxKept, Agrees

LEMMA IdleKept == ASSUME IInv, UNCHANGED <<epoch, inbox, outbox, begun, ran>> PROVE InboxKept
BY AnsweredQuiet, IInvParts DEF InboxKept, Agrees, LedgerTypeOK, Turns

LEMMA PutKept ==
  ASSUME IInv, NEW r \in Requests, PutInbox(r, Body), UNCHANGED ran
  PROVE  InboxKept
<1>1. LedgerTypeOK' /\ UNCHANGED <<outbox, begun>>
  BY PutEntry, IInvParts
<1>2. CASE inbox[r].state = "absent"
  <2>1. inbox'[r].state = "pending" /\ inbox'[r].decisions = inbox[r].decisions
        /\ \A o \in Requests \ {r} : inbox'[o] = inbox[o]
    BY <1>2, PutEntry, IInvParts DEF Inboxed
  <2>2. r \notin seen /\ job[r] # "queued" /\ outbox[r].state = "absent"
    BY <1>2, IInvParts DEF Turns, Answered
  <2>3. Answered'
    BY <1>1, <1>2, <2>1, <2>2, IInvParts DEF Answered
  <2> QED BY <1>1, <2>1, <2>2, <2>3, IInvParts DEF InboxKept, Agrees, Turns
<1>3. CASE inbox[r].state # "absent"
  <2>1. UNCHANGED inbox
    BY <1>3, PutEntry, IInvParts
  <2> QED BY <1>1, <2>1, AnsweredQuiet, IInvParts DEF InboxKept, Agrees, Turns
<1> QED BY <1>2, <1>3

LEMMA ClaimKept ==
  ASSUME IInv, NEW r \in Requests, MoveInbox(r, "pending", "running"), UNCHANGED ran
  PROVE  /\ InboxKept /\ r \notin seen /\ ran[r] = 0 /\ inbox'[r].state = "running"
         /\ \A o \in Requests \ {r} : inbox'[o] = inbox[o]
<1>1. /\ LedgerTypeOK' /\ UNCHANGED <<outbox, begun>> /\ inbox[r].state = "pending"
      /\ inbox'[r].state = "running" /\ inbox'[r].decisions = inbox[r].decisions
      /\ \A o \in Requests \ {r} : inbox'[o] = inbox[o]
  BY MoveInboxEntry, IInvParts DEF Inboxed, InboxStates
<1>2. r \notin seen /\ ran[r] = 0 /\ outbox[r].state = "absent"
  BY <1>1, IInvParts DEF Turns, Answered
<1>3. Answered'
  BY <1>1, <1>2, IInvParts DEF Answered
<1> QED BY <1>1, <1>2, <1>3, IInvParts DEF InboxKept, Agrees, Turns

LEMMA RefuseKept ==
  ASSUME IInv, pub.pc = "refuse", NEW r, r = pub.req, MoveInbox(r, "running", "pending"), UNCHANGED ran
  PROVE  InboxKept /\ inbox'[r].state = "pending" /\ \A o \in Requests \ {r} : inbox'[o] = inbox[o]
<1>0. r \in Requests /\ ran[r] = 0 /\ r \notin seen
  BY IInvParts DEF Published
<1>1. /\ LedgerTypeOK' /\ UNCHANGED <<outbox, begun>> /\ inbox[r].state = "running"
      /\ inbox'[r].state = "pending" /\ inbox'[r].decisions = inbox[r].decisions
      /\ \A o \in Requests \ {r} : inbox'[o] = inbox[o]
  BY <1>0, MoveInboxEntry, IInvParts DEF Inboxed, InboxStates
<1>2. outbox[r].state = "absent" /\ job[r] = "none"
  BY <1>0, <1>1, IInvParts DEF Turns, Answered, TypeOK, JobStates
<1>3. Answered'
  BY <1>0, <1>1, <1>2, IInvParts DEF Answered
<1> QED BY <1>0, <1>1, <1>2, <1>3, IInvParts DEF InboxKept, Agrees, Turns

\* publish goes on with its next step ...
LEMMA GoesOn ==
  ASSUME IInv, pub.pc # "idle", NEW pc \in {"lookup", "claim", "submit", "refuse"},
         pub' = [pub EXCEPT !.pc = pc], InboxKept,
         UNCHANGED <<process, gw, allowed, replay, seen, waiter, job, hub, ran, setup>>,
         pc \in {"submit", "refuse"} =>
           inbox'[pub.req].state = "running" /\ ran[pub.req] = 0 /\ pub.req \notin seen,
         \A o \in Requests : inbox'[o].state = "running" /\ waiter[o] = "none" /\ ~faulty =>
           \/ inbox[o].state = "running" /\ ~Claimed(o)
           \/ pc \in {"submit", "refuse"} /\ pub.req = o
  PROVE  IInv'
<1>1. pub'.pc = pc /\ pub'.req = pub.req /\ pub.req \in Requests
      /\ pub' \in [pc : {"idle", "put", "lookup", "claim", "submit", "refuse"},
                   req : Requests \cup {None}]
  BY IInvParts DEF TypeOK, Published
<1>2. TypeOK'
  BY <1>1, IInvParts DEF TypeOK, InboxKept, Agrees, Slots
<1>3. Answered' /\ Turns'
  BY IInvParts, TurnsKept DEF InboxKept, Agrees
<1>4. Published'
  BY <1>1, IInvParts DEF Published
<1>5. Shutdown' /\ Forgotten'
  BY <1>1, IInvParts DEF Shutdown, Forgotten, Joined, Published
<1>6. IsFiniteSet(Present)' /\ SlotsAccounted'
  BY <1>1, IInvParts DEF Present, SlotsAccounted
<1>7. Tended'
  BY <1>1, IInvParts DEF Tended, faulty, InboxKept, Agrees, Claimed
<1> QED BY <1>2, <1>3, <1>4, <1>5, <1>6, <1>7 DEF IInv

\* ... or returns without a turn.
LEMMA Returns ==
  ASSUME IInv, pub.pc # "idle", NEW ok \in BOOLEAN, Return(ok), InboxKept,
         UNCHANGED <<allowed, replay, seen, waiter, job, hub, ran, setup>>,
         \A o \in Requests : inbox'[o].state = "running" /\ waiter[o] = "none" /\ ~faulty =>
           inbox[o].state = "running" /\ ~Claimed(o)
  PROVE  IInv'
<1>0. gw.slots = Cardinality(Present) + 1 /\ Cardinality(Present) \in Nat
  BY Slotted, FS_CardinalityType, IInvParts DEF Publication
<1>1. /\ gw' \in [closed : BOOLEAN, cancelled : BOOLEAN, sealed : BOOLEAN, slots : 0..Slots]
      /\ gw'.closed = gw.closed /\ gw'.cancelled = gw.cancelled /\ gw'.sealed = gw.sealed
      /\ gw'.slots = gw.slots - 1
  BY <1>0, IInvParts, Fields DEF TypeOK, Return
<1>2. pub'.pc = "idle" /\ pub'.req = None /\ pub' = NoPub
  BY DEF Return, NoPub
<1>3. /\ process \in {"starting", "up"} /\ ~gw.closed
      /\ process' = process \/ (process = "starting" /\ process' = "failed")
  BY IInvParts DEF Return, Published
<1>4. TypeOK'
  BY <1>1, <1>2, <1>3, IInvParts DEF TypeOK, InboxKept, Agrees, Slots, NoPub
<1>5. Answered' /\ Turns'
  BY <1>1, IInvParts, TurnsKept DEF InboxKept, Agrees
<1>6. Published'
  BY <1>2 DEF Published
<1>7. Shutdown' /\ Forgotten'
  BY <1>1, <1>3, IInvParts DEF Shutdown, Forgotten, Joined
<1>8. IsFiniteSet(Present)' /\ SlotsAccounted'
  <2>1. Present' = Present /\ Publication' = 0
    BY <1>2, PresentSame DEF Publication
  <2>2. gw'.slots = Cardinality(Present)' + Publication'
    BY <1>0, <1>1, <2>1
  <2> QED BY <2>1, <2>2, Slotted, IInvParts
<1>9. Tended'
  BY <1>1, <1>2, <1>3, IInvParts DEF Tended, faulty, InboxKept, Agrees, Claimed
<1> QED BY <1>4, <1>5, <1>6, <1>7, <1>8, <1>9 DEF IInv

LEMMA PutInv == ASSUME IInv, Put, UNCHANGED setup PROVE IInv'
<1> DEFINE r == pub.req
<1>0. /\ pub.pc = "put" /\ r \in Requests
      /\ UNCHANGED <<allowed, replay, seen, waiter, job, hub, ran>>
  BY IInvParts DEF Put, Published
<1>1. CASE UNCHANGED ledger /\ Return(FALSE)
  BY <1>0, <1>1, IdleKept, Returns DEF ledger, Claimed
<1>2. CASE PutInbox(r, Body)
  <2>1. InboxKept /\ \A o \in Requests : inbox'[o].state = "running" => inbox[o].state = "running"
    BY <1>0, <1>2, PutKept, PutEntry, IInvParts DEF Inboxed
  <2>2. CASE Return(FALSE)
    BY <1>0, <2>1, <2>2, Returns DEF Claimed
  <2>3. CASE /\ pub' = [pub EXCEPT !.pc = IF inbox[r].state = "absent" THEN "claim" ELSE "lookup"]
             /\ UNCHANGED <<process, gw>>
    <3>1. PICK pc \in {"claim", "lookup"} : pub' = [pub EXCEPT !.pc = pc]
      BY <2>3
    <3> QED BY <1>0, <2>1, <2>3, <3>1, GoesOn DEF Claimed
  <2> QED BY <1>2, <2>2, <2>3 DEF Put
<1> QED BY <1>1, <1>2 DEF Put

LEMMA LookupInv == ASSUME IInv, Lookup, UNCHANGED setup PROVE IInv'
<1>0. /\ pub.pc = "lookup"
      /\ UNCHANGED <<epoch, inbox, outbox, begun, allowed, replay, seen, waiter, job, hub, ran>>
  BY DEF Lookup
<1>1. InboxKept
  BY <1>0, IdleKept
<1>2. CASE pub' = [pub EXCEPT !.pc = "claim"] /\ UNCHANGED <<process, gw>>
  BY <1>0, <1>1, <1>2, GoesOn DEF Claimed
<1>3. ASSUME NEW ok \in BOOLEAN, Return(ok) PROVE IInv'
  BY <1>0, <1>1, <1>3, Returns DEF Claimed
<1> QED BY <1>2, <1>3 DEF Lookup

LEMMA ClaimInv == ASSUME IInv, Claim, UNCHANGED setup PROVE IInv'
<1> DEFINE r == pub.req
<1>0. /\ pub.pc = "claim" /\ r \in Requests
      /\ UNCHANGED <<allowed, replay, seen, waiter, job, hub, ran>>
  BY IInvParts DEF Claim, Published
<1>1. CASE UNCHANGED ledger /\ Return(FALSE)
  BY <1>0, <1>1, IdleKept, Returns DEF ledger, Claimed
<1>2. CASE MoveInbox(r, "pending", "running")
  <2>1. /\ InboxKept /\ r \notin seen /\ ran[r] = 0 /\ inbox'[r].state = "running"
        /\ \A o \in Requests \ {r} : inbox'[o] = inbox[o]
    BY <1>0, <1>2, ClaimKept
  <2>2. CASE faulty /\ Return(FALSE)
    BY <1>0, <2>1, <2>2, Returns DEF Claimed
  <2>3. CASE pub' = [pub EXCEPT !.pc = "submit"] /\ UNCHANGED <<process, gw>>
    BY <1>0, <2>1, <2>3, GoesOn DEF Claimed
  <2> QED BY <1>2, <2>2, <2>3 DEF Claim
<1> QED BY <1>1, <1>2 DEF Claim

LEMMA RejectInv == ASSUME IInv, Reject, UNCHANGED setup PROVE IInv'
<1>0. /\ pub.pc = "submit" /\ pub' = [pub EXCEPT !.pc = "refuse"]
      /\ UNCHANGED <<epoch, inbox, outbox, begun, process, allowed, replay, gw, seen, waiter,
                     job, hub, ran>>
  BY DEF Reject
<1>1. InboxKept
  BY <1>0, IdleKept
<1> QED BY <1>0, <1>1, GoesOn, IInvParts DEF Published, Claimed

LEMMA RefuseInv == ASSUME IInv, Refuse, UNCHANGED setup PROVE IInv'
<1> DEFINE r == pub.req
<1>0. /\ pub.pc = "refuse" /\ r \in Requests /\ Return(FALSE)
      /\ UNCHANGED <<allowed, replay, seen, waiter, job, hub, ran>>
  BY IInvParts DEF Refuse, Published
<1>1. CASE faulty /\ UNCHANGED ledger
  BY <1>0, <1>1, IdleKept, Returns DEF ledger
<1>2. CASE MoveInbox(r, "running", "pending")
  <2>1. InboxKept /\ inbox'[r].state = "pending" /\ \A o \in Requests \ {r} : inbox'[o] = inbox[o]
    BY <1>0, <1>2, RefuseKept
  <2> QED BY <1>0, <2>1, Returns DEF Claimed
<1> QED BY <1>1, <1>2 DEF Refuse

LEMMA AcceptInv == ASSUME IInv, Accept, UNCHANGED setup PROVE IInv'
<1> DEFINE r == pub.req
<1>0. /\ pub.pc = "submit" /\ r \in Requests /\ ~gw.sealed /\ inbox[r].state = "running"
      /\ ran[r] = 0 /\ r \notin seen /\ waiter[r] = "none" /\ job[r] = "none" /\ ~gw.closed
      /\ process \in {"starting", "up"}
  BY IInvParts DEF Accept, Published, Turns, TypeOK
<1>1. /\ job' = [job EXCEPT ![r] = "queued"] /\ seen' = seen \cup {r}
      /\ waiter' = [waiter EXCEPT ![r] = "wait"] /\ pub' = NoPub
      /\ UNCHANGED <<epoch, inbox, outbox, begun, process, allowed, replay, gw, hub, ran>>
  BY DEF Accept
<1>2. pub'.pc = "idle" /\ pub'.req = None
  BY <1>1 DEF NoPub
<1> HIDE DEF r
<1>3. /\ job' \in [Requests -> JobStates] /\ job'[r] = "queued"
      /\ waiter' \in [Requests -> {"none", "wait", "fault", "merge", "complete", "post"}]
      /\ waiter'[r] = "wait"
      /\ \A o \in Requests \ {r} : job'[o] = job[o] /\ waiter'[o] = waiter[o]
  BY <1>0, <1>1, IInvParts DEF TypeOK, JobStates
<1>4. TypeOK'
  BY <1>0, <1>1, <1>3, IInvParts DEF TypeOK, LedgerTypeOK, Slots, NoPub
<1>5. Answered'
  BY <1>1, AnsweredQuiet, IInvParts
<1>6. Turns'
  BY <1>0, <1>1, <1>3, IInvParts DEF Turns
<1>7. Published'
  BY <1>2 DEF Published
<1>8. Shutdown' /\ Forgotten'
  BY <1>0, <1>1, IInvParts DEF Shutdown, Forgotten
<1>9. IsFiniteSet(Present)' /\ SlotsAccounted'
  <2>1. /\ IsFiniteSet(Present)' /\ Cardinality(Present)' = Cardinality(Present) + 1
        /\ Cardinality(Present) \in Nat
    BY <1>0, <1>1, PresentEnters, IInvParts
  <2>2. Publication = 1 /\ Publication' = 0
    BY <1>0, <1>2 DEF Publication
  <2>3. gw.slots = Cardinality(Present) + Publication
    BY Slotted, IInvParts
  <2>4. gw'.slots = Cardinality(Present)' + Publication'
    BY <1>1, <2>1, <2>2, <2>3
  <2> QED BY <2>1, <2>4, Slotted
<1>10. Tended'
  BY <1>0, <1>1, <1>2, <1>3, IInvParts DEF Tended, faulty, r
<1> QED BY <1>4, <1>5, <1>6, <1>7, <1>8, <1>9, <1>10 DEF IInv

-----------------------------------------------------------------------------
(* Turns and waiting goroutines                                            *)

\* What the scheduler may do to the turns it was given.
LEMMA JobsInv ==
  ASSUME IInv, job' \in [Requests -> JobStates], ran' \in [Requests -> Nat],
         \A r \in Requests :
           /\ job[r] \in Ended => job'[r] = job[r]
           /\ job'[r] = "queued" => job[r] = "queued" /\ ran'[r] = ran[r]
           /\ ran'[r] = ran[r] \/ (job[r] = "queued" /\ ran'[r] > ran[r])
           /\ job'[r] \in {"running", "absorbed", "ok", "merged"} => ran'[r] > 0,
         UNCHANGED <<epoch, inbox, outbox, begun, process, allowed, replay, gw, seen, pub, waiter,
                     hub, setup>>
  PROVE  IInv'
<1>1. TypeOK'
  BY IInvParts DEF TypeOK, LedgerTypeOK, Slots
<1>2. Answered' /\ Turns'
  BY IInvParts DEF Answered, Turns, TypeOK, Ended
<1>3. Published'
  BY IInvParts DEF Published, Turns, Ended
<1>4. Shutdown'
  BY IInvParts DEF Shutdown, Joined
<1>5. Forgotten'
  BY IInvParts DEF Forgotten, Ended
<1>6. IsFiniteSet(Present)' /\ SlotsAccounted' /\ Tended'
  BY IInvParts DEF Present, SlotsAccounted, Tended, faulty
<1> QED BY <1>1, <1>2, <1>3, <1>4, <1>5, <1>6 DEF IInv

LEMMA TurningInv ==
  ASSUME IInv, NEW r \in Requests, Turning(r), UNCHANGED setup
  PROVE  IInv'
<1>0. job \in [Requests -> JobStates] /\ ran \in [Requests -> Nat]
  BY IInvParts DEF TypeOK
<1>1. CASE RunTurn(r) \/ Absorb(r)
  BY <1>0, <1>1, IInvParts, JobsInv DEF RunTurn, Absorb, Turns, JobStates, Ended
<1>2. CASE DropTurn(r)
  BY <1>0, <1>2, IInvParts, JobsInv DEF DropTurn, Turns, JobStates, Ended
<1>3. ASSUME NEW outcome \in {"ok", "error"}, EndTurn(r, outcome) PROVE IInv'
  <2>1. /\ job[r] = "running" /\ DOMAIN job' = Requests
        /\ \A s \in Requests :
             job'[s] = IF s = r THEN outcome
                       ELSE IF job[s] = "absorbed" THEN IF outcome = "ok" THEN "merged" ELSE "error"
                       ELSE job[s]
        /\ UNCHANGED <<epoch, inbox, outbox, begun, process, allowed, replay, gw, seen, pub,
                       waiter, hub, ran>>
    BY <1>3 DEF EndTurn
  <2>2. job' \in [Requests -> JobStates]
    <3>1. \A s \in Requests : job'[s] \in JobStates
      BY <1>0, <2>1 DEF JobStates
    <3>2. job' = [s \in Requests |-> job'[s]]
      BY <1>3 DEF EndTurn
    <3> QED BY <3>1, <3>2
  <2> QED BY <1>0, <2>1, <2>2, IInvParts, JobsInv DEF Turns, Ended
<1> QED BY <1>1, <1>2, <1>3 DEF Turning

\* The handle is finished, or the deadline of the close has passed.
LEMMA ObserveInv == ASSUME IInv, NEW r \in Requests, Observe(r), UNCHANGED setup PROVE IInv'
<1>1. /\ waiter[r] = "wait"
      /\ UNCHANGED <<epoch, inbox, outbox, begun, process, allowed, replay, gw, seen, pub, job, hub, ran>>
  BY DEF Observe
<1>2. PICK w \in {"complete", "merge", "fault"} :
        /\ waiter' = [waiter EXCEPT ![r] = w]
        /\ w = "complete" => job[r] = "ok"
        /\ job[r] # "queued"
  BY IInvParts DEF Observe, Turns, Shutdown
<1>3. /\ waiter' \in [Requests -> {"none", "wait", "fault", "merge", "complete", "post"}]
      /\ waiter'[r] = w /\ \A o \in Requests \ {r} : waiter'[o] = waiter[o]
  BY <1>2, IInvParts DEF TypeOK
<1>4. TypeOK'
  BY <1>1, <1>3, IInvParts DEF TypeOK, LedgerTypeOK, Slots
<1>5. Answered' /\ Turns'
  BY <1>1, <1>2, <1>3, IInvParts DEF Answered, Turns
<1>6. Published' /\ Shutdown' /\ Forgotten'
  BY <1>1, <1>3, IInvParts DEF Published, Shutdown, Forgotten, Joined
<1>7. Present' = Present
  BY <1>1, <1>3, PresentSame
<1>8. IsFiniteSet(Present)' /\ SlotsAccounted'
  BY <1>1, <1>7, Slotted, IInvParts DEF Publication
<1>9. Tended'
  BY <1>1, <1>3, IInvParts DEF Tended, faulty
<1> QED BY <1>4, <1>5, <1>6, <1>8, <1>9 DEF IInv

\* A waiting goroutine ends and gives its slot back; its reply is with the hub, if
\* the process is to see to it.
LEMMA Leaves ==
  ASSUME IInv, NEW r \in Requests, waiter[r] \notin {"none", "wait"}, Leave(r), InboxKept,
         UNCHANGED <<process, allowed, replay, seen, pub, job, ran, setup>>,
         hub' = hub \/ (~hub.sealed /\ hub' = [hub EXCEPT !.queue = @ \cup {r}]),
         \A o \in Requests : Claimed(o) => inbox'[o] = inbox[o],
         \A o \in Requests : inbox'[o].state = "running" => inbox[o].state = "running",
         process \in {"starting", "up"} /\ ~gw.cancelled /\ ~faulty =>
           inbox'[r].state # "running" /\ (outbox[r].state = "pending" => r \in hub'.queue)
  PROVE  IInv'
<1>0. /\ waiter' = [waiter EXCEPT ![r] = "none"] /\ gw' = [gw EXCEPT !.slots = @ - 1]
      /\ IsFiniteSet(Present)' /\ Cardinality(Present)' = Cardinality(Present) - 1
      /\ Cardinality(Present) \in Nat /\ Cardinality(Present) > 0
  BY PresentLeaves, IInvParts DEF Leave
<1>1. /\ gw.slots = Cardinality(Present) + Publication /\ Publication \in {0, 1}
      /\ Publication' = Publication
  BY Slotted, IInvParts DEF Publication
<1>2. /\ gw' \in [closed : BOOLEAN, cancelled : BOOLEAN, sealed : BOOLEAN, slots : 0..Slots]
      /\ gw'.closed = gw.closed /\ gw'.cancelled = gw.cancelled /\ gw'.sealed = gw.sealed
      /\ gw'.slots = gw.slots - 1
  BY <1>0, <1>1, IInvParts, Fields DEF TypeOK
<1>3. /\ waiter' \in [Requests -> {"none", "wait", "fault", "merge", "complete", "post"}]
      /\ waiter'[r] = "none" /\ \A o \in Requests \ {r} : waiter'[o] = waiter[o]
  BY <1>0, IInvParts DEF TypeOK
<1>4. /\ hub' \in [sealed : BOOLEAN, cancelled : BOOLEAN, done : BOOLEAN,
                   queue : SUBSET Requests, sending : Requests \cup {None}]
      /\ hub'.sealed = hub.sealed /\ hub'.cancelled = hub.cancelled /\ hub'.done = hub.done
      /\ hub'.sending = hub.sending /\ hub.queue \subseteq hub'.queue
      /\ hub.sealed => hub'.queue = hub.queue
  BY IInvParts DEF TypeOK
<1>5. TypeOK'
  BY <1>2, <1>3, <1>4, IInvParts DEF TypeOK, InboxKept, Agrees, Slots
<1>6. Answered' /\ Turns'
  BY <1>2, <1>3, IInvParts DEF InboxKept, Agrees, Turns
<1>7. Published'
  BY <1>2, IInvParts DEF Published, Claimed
<1>8. Shutdown' /\ Forgotten'
  BY <1>2, <1>3, <1>4, IInvParts DEF Shutdown, Forgotten, Joined
<1>9. IsFiniteSet(Present)' /\ SlotsAccounted'
  <2>1. gw'.slots = Cardinality(Present)' + Publication'
    BY <1>0, <1>1, <1>2, Fields, IInvParts
  <2> QED BY <1>0, <2>1, Slotted
<1>10. Tended'
  BY <1>2, <1>3, <1>4, IInvParts DEF Tended, faulty, InboxKept, Agrees
<1> QED BY <1>5, <1>6, <1>7, <1>8, <1>9, <1>10 DEF IInv

LEMMA EndKept ==
  ASSUME IInv, NEW r \in Requests, waiter[r] \notin {"none", "wait"}, UNCHANGED ran,
         NEW to \in {"needs_reconcile", "merged"}, MoveInbox(r, "running", to)
  PROVE  /\ InboxKept /\ inbox[r].state = "running" /\ inbox'[r].state = to
         /\ outbox[r].state = "absent" /\ \A o \in Requests \ {r} : inbox'[o] = inbox[o]
         /\ ~Claimed(r)
<1>1. /\ LedgerTypeOK' /\ UNCHANGED <<outbox, begun>> /\ inbox[r].state = "running"
      /\ inbox'[r].state = to /\ inbox'[r].decisions = inbox[r].decisions
      /\ \A o \in Requests \ {r} : inbox'[o] = inbox[o]
  BY MoveInboxEntry, IInvParts DEF Inboxed, InboxStates
<1>2. outbox[r].state = "absent" /\ ~Claimed(r)
  BY <1>1, IInvParts DEF Answered, Turns, Published, Claimed
<1>3. Answered'
  BY <1>1, <1>2, IInvParts DEF Answered
<1> QED BY <1>1, <1>2, <1>3, IInvParts DEF InboxKept, Agrees, Turns

LEMMA CompleteKept ==
  ASSUME IInv, NEW r \in Requests, waiter[r] = "complete", UNCHANGED ran,
         NEW p \in Payloads, Complete(r, p)
  PROVE  /\ Agrees /\ inbox[r].state = "running" /\ inbox'[r].state = "completed"
         /\ outbox[r].state = "absent" /\ outbox'[r].state = "pending"
         /\ \A o \in Requests \ {r} : inbox'[o] = inbox[o] /\ outbox'[o] = outbox[o]
         /\ ~Claimed(r)
<1>1. /\ LedgerTypeOK' /\ UNCHANGED begun /\ inbox[r].state = "running"
      /\ inbox'[r].state = "completed" /\ outbox'[r].state = "pending" /\ outbox'[r].payload = p
      /\ \A o \in Requests \ {r} : inbox'[o] = inbox[o] /\ outbox'[o] = outbox[o]
  BY CompleteEntry, IInvParts DEF Inboxed, Outboxed
<1>2. outbox[r].state = "absent" /\ ~Claimed(r)
  BY <1>1, IInvParts DEF Answered, Turns, Published, Claimed
<1>3. Answered'
  BY <1>1, <1>2, IInvParts, Constants DEF Answered
<1> QED BY <1>1, <1>2, <1>3, IInvParts DEF Agrees, Turns

LEMMA FaultInv == ASSUME IInv, NEW r \in Requests, Fault(r) \/ Merge(r), UNCHANGED setup PROVE IInv'
<1>0. /\ waiter[r] \notin {"none", "wait"} /\ Leave(r)
      /\ UNCHANGED <<process, allowed, replay, seen, pub, job, hub, ran>>
  BY DEF Fault, Merge
<1>1. CASE faulty /\ UNCHANGED ledger
  BY <1>0, <1>1, IdleKept, Leaves DEF ledger
<1>2. ASSUME NEW to \in {"needs_reconcile", "merged"}, MoveInbox(r, "running", to) PROVE IInv'
  BY <1>0, <1>2, EndKept, Leaves
<1> QED BY <1>1, <1>2 DEF Fault, Merge

LEMMA PostInv == ASSUME IInv, NEW r \in Requests, Post(r), UNCHANGED setup PROVE IInv'
<1>0. /\ waiter[r] = "post" /\ Leave(r)
      /\ UNCHANGED <<epoch, inbox, outbox, begun, process, allowed, replay, seen, pub, job, ran>>
  BY DEF Post
<1>1. InboxKept /\ inbox[r].state = "completed"
  BY <1>0, IdleKept, IInvParts DEF Turns
<1>2. CASE ~hub.sealed /\ hub' = [hub EXCEPT !.queue = @ \cup {r}]
  <2>1. r \in hub'.queue
    BY <1>2, IInvParts DEF TypeOK
  <2> QED BY <1>0, <1>1, <1>2, <2>1, Leaves
<1>3. CASE (hub.sealed \/ gw.cancelled) /\ UNCHANGED hub
  <2>1. gw.cancelled
    BY <1>0, <1>3, IInvParts DEF Shutdown, Joined
  <2> QED BY <1>0, <1>1, <1>3, <2>1, Leaves
<1> QED BY <1>2, <1>3 DEF Post

LEMMA CompleteReplyInv ==
  ASSUME IInv, NEW r \in Requests, CompleteReply(r), UNCHANGED setup
  PROVE  IInv'
<1>0. /\ waiter[r] = "complete" /\ UNCHANGED <<process, allowed, replay, seen, pub, job, hub, ran>>
  BY DEF CompleteReply
<1>1. CASE (faulty \/ gw.cancelled) /\ UNCHANGED ledger /\ Leave(r)
  BY <1>0, <1>1, IdleKept, Leaves DEF ledger
<1>2. ASSUME NEW p \in Payloads, Complete(r, p), faulty, Leave(r) PROVE IInv'
  BY <1>0, <1>2, CompleteKept, Leaves DEF InboxKept
<1>3. ASSUME NEW p \in Payloads, Complete(r, p), waiter' = [waiter EXCEPT ![r] = "post"],
             UNCHANGED gw
      PROVE  IInv'
  <2>1. /\ Agrees /\ inbox[r].state = "running" /\ inbox'[r].state = "completed"
        /\ outbox[r].state = "absent" /\ outbox'[r].state = "pending"
        /\ \A o \in Requests \ {r} : inbox'[o] = inbox[o] /\ outbox'[o] = outbox[o]
        /\ ~Claimed(r)
    BY <1>0, <1>3, CompleteKept
  <2>2. /\ waiter' \in [Requests -> {"none", "wait", "fault", "merge", "complete", "post"}]
        /\ waiter'[r] = "post" /\ \A o \in Requests \ {r} : waiter'[o] = waiter[o]
    BY <1>3, IInvParts DEF TypeOK
  <2>3. TypeOK'
    BY <1>0, <1>3, <2>1, <2>2, IInvParts DEF TypeOK, Agrees, Slots
  <2>4. Answered' /\ Turns'
    BY <1>0, <1>3, <2>1, <2>2, IInvParts DEF Agrees, Turns
  <2>5. Published' /\ Shutdown' /\ Forgotten'
    BY <1>0, <1>3, <2>1, <2>2, IInvParts DEF Published, Claimed, Shutdown, Forgotten, Joined
  <2>6. Present' = Present
    BY <1>0, <2>2, PresentSame
  <2>7. IsFiniteSet(Present)' /\ SlotsAccounted'
    BY <1>0, <1>3, <2>6, Slotted, IInvParts DEF Publication
  <2>8. Tended'
    BY <1>0, <1>3, <2>1, <2>2, IInvParts DEF Tended, faulty
  <2> QED BY <2>3, <2>4, <2>5, <2>7, <2>8 DEF IInv
<1> QED BY <1>1, <1>2, <1>3 DEF CompleteReply

-----------------------------------------------------------------------------
(* The hub                                                                 *)

HubType == [sealed : BOOLEAN, cancelled : BOOLEAN, done : BOOLEAN,
            queue : SUBSET Requests, sending : Requests \cup {None}]

\* A hub is at work, or was told to stop, only in a process that runs.
LEMMA HubRuns ==
  ASSUME IInv, hub.queue # {} \/ hub.sending # None \/ hub.sealed \/ gw.sealed \/ gw.closed
  PROVE  process \notin {"down", "operator"}
BY IInvParts, FreshTypes DEF Forgotten

\* The hub's steps, and those that hand it a reply: it stops last, and what it was
\* given stays with it.
LEMMA HubInv ==
  ASSUME IInv, Agrees, hub' \in HubType,
         UNCHANGED <<inbox, process, allowed, gw, seen, pub, waiter, job, ran, setup>>,
         replay' \in [replies : SUBSET Requests, requests : SUBSET Requests],
         process \notin {"down", "operator"},
         hub'.cancelled \/ hub'.done => hub'.sealed,
         hub'.sealed => gw.sealed,
         hub'.sealed /\ ~gw.cancelled => Joined,
         hub'.cancelled /\ ~gw.cancelled => hub'.done,
         hub'.done => hub'.queue = {} /\ hub'.sending = None,
         process = "up" => replay' = replay,
         process \in {"starting", "up"} /\ ~gw.cancelled /\ ~faulty =>
           \A o \in Requests :
             /\ outbox'[o].state = "pending" =>
                  o \in hub'.queue \cup replay'.replies \/ waiter[o] = "post"
             /\ outbox'[o].state = "sending" => hub'.sending = o
  PROVE  IInv'
<1>1. TypeOK'
  BY IInvParts DEF TypeOK, Agrees, Slots, HubType
<1>2. Answered' /\ Turns'
  BY IInvParts DEF Agrees, Turns
<1>3. Published' /\ Forgotten'
  BY IInvParts DEF Published, Forgotten
<1>4. Shutdown'
  <2>1. Joined' <=> Joined
    BY DEF Joined
  <2> QED BY <2>1, IInvParts DEF Shutdown
<1>5. IsFiniteSet(Present)' /\ SlotsAccounted'
  BY IInvParts DEF Present, SlotsAccounted
<1>6. Tended'
  BY IInvParts DEF Tended, faulty
<1> QED BY <1>1, <1>2, <1>3, <1>4, <1>5, <1>6 DEF IInv

\* A reply begun, or settled after its send, keeps its entry in order.
LEMMA SendKept ==
  ASSUME IInv, NEW r \in Requests, UNCHANGED ran, NEW from \in OutboxStates, NEW to \in OutboxStates,
         MoveOutbox(r, from, to),
         \/ from = "pending" /\ to = "sending"
         \/ from = "sending" /\ to \in Outcomes
  PROVE  /\ Agrees /\ UNCHANGED inbox /\ outbox[r].state = from /\ outbox'[r].state = to
         /\ outbox'[r].payload = outbox[r].payload
         /\ \A o \in Requests \ {r} : outbox'[o] = outbox[o]
<1>1. /\ LedgerTypeOK' /\ UNCHANGED inbox /\ outbox[r].state = from /\ outbox'[r].state = to
      /\ outbox'[r].payload = outbox[r].payload
      /\ \A o \in Requests \ {r} : outbox'[o] = outbox[o]
      /\ begun' = IF to = "sending" THEN [begun EXCEPT ![r] = @ + 1] ELSE begun
  BY MoveOutboxEntry, IInvParts DEF Outboxed
<1>2. begun \in [Requests -> Nat]
  BY IInvParts, Constants DEF LedgerTypeOK
<1>3. begun'[r] > 0 /\ \A o \in Requests \ {r} : begun'[o] = begun[o]
  BY <1>1, <1>2, IInvParts DEF Answered, Outcomes
<1>4. Answered'
  BY <1>1, <1>3, IInvParts DEF Answered, Outcomes
<1> QED BY <1>1, <1>4, IInvParts DEF Agrees, Turns

LEMMA SendInv == ASSUME IInv, NEW r \in Requests, Send(r), UNCHANGED setup PROVE IInv'
<1>0. /\ hub.sending = None /\ r \in hub.queue
      /\ UNCHANGED <<process, allowed, replay, gw, seen, pub, waiter, job, ran>>
  BY DEF Send
<1>1. process \notin {"down", "operator"} /\ ~hub.done /\ (hub.cancelled => gw.cancelled)
  BY <1>0, HubRuns, IInvParts DEF Shutdown
<1>2. /\ hub \in HubType /\ replay \in [replies : SUBSET Requests, requests : SUBSET Requests]
      /\ r # None
  BY IInvParts, Constants DEF TypeOK, HubType
<1>3. ASSUME MoveOutbox(r, "pending", "sending"),
             hub' = [hub EXCEPT !.queue = @ \ {r}, !.sending = r] \/
             (faulty /\ hub' = [hub EXCEPT !.queue = @ \ {r}])
      PROVE  IInv'
  <2>1. /\ Agrees /\ UNCHANGED inbox /\ outbox'[r].state = "sending"
        /\ \A o \in Requests \ {r} : outbox'[o] = outbox[o]
    BY <1>0, <1>3, SendKept, IInvParts DEF OutboxStates
  <2>2. /\ hub' \in HubType /\ hub'.sealed = hub.sealed /\ hub'.cancelled = hub.cancelled
        /\ hub'.done = hub.done /\ hub'.queue = hub.queue \ {r}
        /\ hub'.sending = r \/ faulty
    BY <1>2, <1>3 DEF HubType
  <2>3. process \in {"starting", "up"} /\ ~gw.cancelled /\ ~faulty =>
          \A o \in Requests :
             /\ outbox'[o].state = "pending" =>
                  o \in hub'.queue \cup replay'.replies \/ waiter[o] = "post"
             /\ outbox'[o].state = "sending" => hub'.sending = o
    BY <1>0, <1>2, <2>1, <2>2, IInvParts, Constants DEF Tended
  <2> QED BY <1>0, <1>1, <1>2, <2>1, <2>2, <2>3, HubInv, IInvParts DEF Shutdown
<1>4. ASSUME UNCHANGED ledger, faulty \/ hub.cancelled, hub' = [hub EXCEPT !.queue = @ \ {r}]
      PROVE  IInv'
  <2>1. Agrees /\ UNCHANGED <<inbox, outbox>>
    BY <1>0, <1>4, IdleKept DEF ledger, InboxKept
  <2>2. /\ hub' \in HubType /\ hub'.sealed = hub.sealed /\ hub'.cancelled = hub.cancelled
        /\ hub'.done = hub.done /\ hub'.queue = hub.queue \ {r} /\ hub'.sending = hub.sending
    BY <1>2, <1>4 DEF HubType
  <2> QED BY <1>0, <1>1, <1>2, <1>4, <2>1, <2>2, HubInv, IInvParts DEF Shutdown
<1> QED BY <1>3, <1>4 DEF Send

LEMMA SentInv == ASSUME IInv, NEW outcome \in Outcomes, Sent(outcome), UNCHANGED setup PROVE IInv'
<1> DEFINE r == hub.sending
<1>0. /\ r # None /\ hub' = [hub EXCEPT !.sending = None]
      /\ UNCHANGED <<process, allowed, replay, gw, seen, pub, waiter, job, ran>>
  BY DEF Sent
<1>1. process \notin {"down", "operator"} /\ ~hub.done /\ (hub.cancelled => gw.cancelled)
  BY <1>0, HubRuns, IInvParts DEF Shutdown
<1>2. /\ hub \in HubType /\ replay \in [replies : SUBSET Requests, requests : SUBSET Requests]
      /\ r \in Requests
  BY <1>0, IInvParts DEF TypeOK, HubType
<1>3. /\ hub' \in HubType /\ hub'.sealed = hub.sealed /\ hub'.cancelled = hub.cancelled
      /\ hub'.done = hub.done /\ hub'.queue = hub.queue /\ hub'.sending = None
  BY <1>0, <1>2 DEF HubType
<1>4. CASE MoveOutbox(r, "sending", outcome)
  <2>1. /\ Agrees /\ UNCHANGED inbox /\ outbox'[r].state = outcome
        /\ \A o \in Requests \ {r} : outbox'[o] = outbox[o]
    BY <1>0, <1>2, <1>4, SendKept, IInvParts DEF OutboxStates, Outcomes
  <2>3. process \in {"starting", "up"} /\ ~gw.cancelled /\ ~faulty =>
          \A o \in Requests :
             /\ outbox'[o].state = "pending" =>
                  o \in hub'.queue \cup replay'.replies \/ waiter[o] = "post"
             /\ outbox'[o].state = "sending" => hub'.sending = o
    BY <1>0, <1>2, <1>3, <2>1, IInvParts DEF Tended, Outcomes
  <2> QED BY <1>0, <1>1, <1>2, <1>3, <2>1, <2>3, HubInv, IInvParts DEF Shutdown
<1>5. CASE faulty /\ UNCHANGED ledger
  <2>1. Agrees /\ UNCHANGED <<inbox, outbox>>
    BY <1>0, <1>5, IdleKept DEF ledger, InboxKept
  <2> QED BY <1>0, <1>1, <1>2, <1>3, <1>5, <2>1, HubInv, IInvParts DEF Shutdown
<1> QED BY <1>4, <1>5 DEF Sent

LEMMA StopInv ==
  ASSUME IInv, CloseHub \/ AbortHub \/ StopHub, UNCHANGED setup
  PROVE  IInv'
<1>0. UNCHANGED <<epoch, inbox, outbox, begun, process, allowed, replay, gw, seen, pub, waiter, job, ran>>
  BY DEF CloseHub, AbortHub, StopHub
<1>1. Agrees /\ hub \in HubType /\ replay \in [replies : SUBSET Requests, requests : SUBSET Requests]
  BY <1>0, IdleKept, IInvParts DEF InboxKept, TypeOK, HubType
<1>2. gw.sealed /\ process \notin {"down", "operator"}
  BY HubRuns, IInvParts DEF CloseHub, AbortHub, StopHub, Joined, Shutdown
<1>3. CASE CloseHub \/ AbortHub
  <2>1. PICK c \in BOOLEAN : /\ hub' = [hub EXCEPT !.sealed = TRUE, !.cancelled = c]
                             /\ IF c THEN gw.cancelled ELSE ~hub.cancelled /\ Joined
    <3>1. CASE AbortHub
      BY <3>1 DEF AbortHub
    <3>2. CASE CloseHub
      <4>1. ~hub.cancelled /\ hub.cancelled \in BOOLEAN
        BY <3>2, IInvParts, Fields DEF CloseHub, Shutdown
      <4>2. hub' = [hub EXCEPT !.sealed = TRUE, !.cancelled = FALSE]
        BY <1>1, <3>2, <4>1 DEF CloseHub, HubType
      <4> QED BY <3>2, <4>1, <4>2 DEF CloseHub
    <3> QED BY <1>3, <3>1, <3>2
  <2>2. /\ hub' \in HubType /\ hub'.sealed /\ hub'.cancelled = c /\ hub'.done = hub.done
        /\ hub'.queue = hub.queue /\ hub'.sending = hub.sending
    BY <1>1, <2>1 DEF HubType
  <2>3. hub'.sealed /\ ~gw.cancelled => Joined
    BY <2>1
  <2> QED BY <1>0, <1>1, <1>2, <2>1, <2>2, <2>3, HubInv, IInvParts DEF Shutdown, Tended
<1>4. CASE StopHub
  <2>1. /\ hub' \in HubType /\ hub'.sealed = hub.sealed /\ hub'.cancelled /\ hub'.done
        /\ hub'.queue = {} /\ hub'.sending = hub.sending
    BY <1>1, <1>4 DEF HubType, StopHub
  <2>2. hub.sealed /\ ~hub.done /\ hub.sending = None /\ (hub.cancelled \/ hub.queue = {})
    BY <1>4 DEF StopHub
  <2>3. gw.cancelled \/ hub.queue = {}
    BY <2>2, IInvParts DEF Shutdown
  <2> QED BY <1>0, <1>1, <1>2, <2>1, <2>2, <2>3, HubInv, IInvParts DEF Shutdown, Tended
<1> QED BY <1>3, <1>4

LEMMA ResendInv == ASSUME IInv, NEW r \in Requests, Resend(r), UNCHANGED setup PROVE IInv'
<1>0. /\ process = "starting" /\ hub' = [hub EXCEPT !.queue = @ \cup {r}]
      /\ replay' = [replay EXCEPT !.replies = @ \ {r}]
      /\ UNCHANGED <<epoch, inbox, outbox, begun, process, allowed, gw, seen, pub, waiter, job, ran>>
  BY DEF Resend
<1>1. Agrees /\ hub \in HubType /\ replay \in [replies : SUBSET Requests, requests : SUBSET Requests]
  BY <1>0, IdleKept, IInvParts DEF InboxKept, TypeOK, HubType
<1>2. /\ hub' \in HubType /\ hub'.sealed = hub.sealed /\ hub'.cancelled = hub.cancelled
      /\ hub'.done = hub.done /\ hub'.queue = hub.queue \cup {r} /\ hub'.sending = hub.sending
      /\ replay' \in [replies : SUBSET Requests, requests : SUBSET Requests]
      /\ replay'.replies = replay.replies \ {r}
  BY <1>0, <1>1 DEF HubType
<1>3. ~hub.sealed
  BY <1>0, IInvParts DEF Shutdown
<1> QED BY <1>0, <1>1, <1>2, <1>3, HubInv, IInvParts DEF Shutdown, Tended

-----------------------------------------------------------------------------
(* Close, start and reconcile                                              *)

LEMMA ResolveEntries ==
  ASSUME LedgerTypeOK, NEW r \in Requests, NEW decision \in Decisions,
         (\E p \in Payloads : ResolveInbox(r, decision, p)) \/ ResolveOutbox(r, decision)
  PROVE  /\ LedgerTypeOK' /\ UNCHANGED begun
         /\ \A o \in Requests \ {r} : inbox'[o] = inbox[o] /\ outbox'[o] = outbox[o]
         /\ \/ /\ inbox[r].state = "needs_reconcile" /\ UNCHANGED outbox
               /\ inbox'[r].state = "abandoned"
            \/ /\ inbox[r].state = "needs_reconcile" /\ inbox'[r].state = "completed"
               /\ inbox'[r].decisions # <<>>
               /\ outbox[r].state = "absent" /\ outbox'[r].state = "pending"
               /\ \E p \in Payloads : outbox'[r].payload = p /\ outbox' = [outbox EXCEPT ![r] = Owed(p)]
            \/ /\ UNCHANGED inbox /\ outbox[r].state = "unknown"
               /\ outbox'[r].state \in {"abandoned", "delivered", "pending"}
               /\ outbox'[r].payload = outbox[r].payload
<1>0. inbox[r] \in InboxEntry /\ outbox[r] \in OutboxEntry
  BY EntryFields
<1>1. \A q \in Seq(Decisions) : Append(q, decision) \in Seq(Decisions) /\ Append(q, decision) # <<>>
  OBVIOUS
<1>2. ASSUME NEW p \in Payloads, ResolveInbox(r, decision, p), decision = "abandon"
      PROVE  /\ LedgerTypeOK' /\ UNCHANGED <<outbox, begun>> /\ inbox[r].state = "needs_reconcile"
             /\ inbox'[r].state = "abandoned"
             /\ \A o \in Requests \ {r} : inbox'[o] = inbox[o]
  <2> DEFINE q == Append(inbox[r].decisions, decision)
             e == [inbox[r] EXCEPT !.state = "abandoned", !.decisions = q]
  <2>1. q \in Seq(Decisions)
    BY <1>1, EntryFields
  <2>2. /\ inbox' = [inbox EXCEPT ![r] = e] /\ inbox[r].state = "needs_reconcile"
        /\ UNCHANGED <<epoch, outbox, begun>>
    BY <1>2 DEF ResolveInbox, LedgerTypeOK
  <2> HIDE DEF q
  <2>3. e \in InboxEntry /\ e.state = "abandoned"
    BY <1>0, <2>1 DEF InboxEntry, InboxStates
  <2> HIDE DEF e
  <2> QED BY <2>2, <2>3 DEF LedgerTypeOK
<1>3. ASSUME NEW p \in Payloads, ResolveInbox(r, decision, p), decision = "recover_result"
      PROVE  /\ LedgerTypeOK' /\ UNCHANGED begun /\ inbox[r].state = "needs_reconcile"
             /\ inbox'[r].state = "completed" /\ inbox'[r].decisions # <<>>
             /\ outbox[r].state = "absent" /\ outbox'[r].state = "pending"
             /\ outbox'[r].payload = p /\ outbox' = [outbox EXCEPT ![r] = Owed(p)]
             /\ \A o \in Requests \ {r} : inbox'[o] = inbox[o] /\ outbox'[o] = outbox[o]
  <2> DEFINE q == Append(inbox[r].decisions, decision)
             e == [inbox[r] EXCEPT !.state = "completed", !.result = p, !.decisions = q]
  <2>1. q \in Seq(Decisions) /\ q # <<>>
    BY <1>1, EntryFields
  <2>2. /\ inbox' = [inbox EXCEPT ![r] = e] /\ inbox[r].state = "needs_reconcile"
        /\ outbox[r].state = "absent" /\ outbox' = [outbox EXCEPT ![r] = Owed(p)]
        /\ UNCHANGED <<epoch, begun>>
    BY <1>3 DEF ResolveInbox, LedgerTypeOK
  <2> HIDE DEF q
  <2>3. e \in InboxEntry /\ e.state = "completed" /\ e.decisions = q
    BY <1>0, <2>1 DEF InboxEntry, InboxStates
  <2> HIDE DEF e
  <2> QED BY <2>1, <2>2, <2>3, OwedEntry, Constants DEF LedgerTypeOK
<1>4. ASSUME ResolveOutbox(r, decision)
      PROVE  /\ LedgerTypeOK' /\ UNCHANGED <<inbox, begun>> /\ outbox[r].state = "unknown"
             /\ outbox'[r].state \in {"abandoned", "delivered", "pending"}
             /\ outbox'[r].payload = outbox[r].payload
             /\ \A o \in Requests \ {r} : outbox'[o] = outbox[o]
  <2> DEFINE q == Append(outbox[r].decisions, decision)
             s == DecidedState(decision)
             b == (outbox[r].receipt \/ decision = "delivered")
             e == [outbox[r] EXCEPT !.state = s, !.receipt = b, !.decisions = q]
  <2>1. q \in Seq(Decisions) /\ b \in BOOLEAN
    BY <1>0, <1>1 DEF OutboxEntry
  <2>2. s \in {"abandoned", "delivered", "pending"}
    BY <1>4 DEF ResolveOutbox, DecidedState
  <2>3. /\ outbox' = [outbox EXCEPT ![r] = e] /\ outbox[r].state = "unknown"
        /\ UNCHANGED <<epoch, inbox, begun>>
    BY <1>4, Constants DEF ResolveOutbox, LedgerTypeOK
  <2> HIDE DEF q, s, b
  <2>4. e \in OutboxEntry /\ e.state = s /\ e.payload = outbox[r].payload
    BY <1>0, <2>1, <2>2 DEF OutboxEntry, OutboxStates
  <2> HIDE DEF e
  <2> QED BY <2>2, <2>3, <2>4, Constants DEF LedgerTypeOK
<1>5. CASE \E p \in Payloads : ResolveInbox(r, decision, p)
  <2>1. PICK p \in Payloads : ResolveInbox(r, decision, p)
    BY <1>5
  <2>2. decision \in {"abandon", "recover_result"}
    BY <2>1 DEF ResolveInbox
  <2> QED BY <1>2, <1>3, <2>1, <2>2
<1> QED BY <1>4, <1>5

\* A process without memory: nothing is remembered, and no slot is taken.
LEMMA FreshInv ==
  ASSUME IInv, LedgerTypeOK', Answered', UNCHANGED <<ran, setup>>,
         process' \in {"down", "starting", "operator"}, allowed' \subseteq Requests,
         gw' = FreshGateway, seen' = {}, pub' = NoPub, hub' = FreshHub,
         waiter' = [r \in Requests |-> "none"], job' = [r \in Requests |-> "none"],
         replay' \in [replies : SUBSET Requests, requests : SUBSET Requests],
         process' # "starting" => replay' = NoReplay,
         process' = "starting" => \A o \in Requests :
           /\ inbox'[o].state # "running" /\ outbox'[o].state # "sending"
           /\ outbox'[o].state = "pending" => o \in replay'.replies
  PROVE  IInv'
<1>1. Slots \in Nat /\ setup \in Setups /\ ran \in [Requests -> Nat]
  BY IInvParts, Fields DEF TypeOK
<1>2. /\ gw' \in [closed : BOOLEAN, cancelled : BOOLEAN, sealed : BOOLEAN, slots : 0..Slots]
      /\ hub' \in HubType /\ ~gw'.closed /\ ~gw'.cancelled /\ ~gw'.sealed /\ gw'.slots = 0
      /\ ~hub'.sealed /\ ~hub'.cancelled /\ ~hub'.done
      /\ pub'.pc = "idle" /\ pub' \in [pc : {"idle", "put", "lookup", "claim", "submit", "refuse"},
                                       req : Requests \cup {None}]
  BY <1>1, FreshTypes DEF HubType, NoPub
<1>3. \A r \in Requests : waiter'[r] = "none" /\ job'[r] = "none"
  OBVIOUS
<1>4. TypeOK'
  BY <1>1, <1>2 DEF TypeOK, JobStates, Slots, HubType
<1>5. Turns' /\ Published'
  BY <1>2, <1>3 DEF Turns, Published
<1>6. Shutdown' /\ Forgotten'
  BY <1>2, <1>3 DEF Shutdown, Forgotten
<1>7. IsFiniteSet(Present)' /\ SlotsAccounted'
  <2>1. Present' = {} /\ Publication' = 0
    BY <1>2, <1>3 DEF Present, Publication
  <2> QED BY <1>2, <2>1, FS_EmptySet, Slotted
<1>8. Tended'
  BY <1>2 DEF Tended
<1> QED BY <1>4, <1>5, <1>6, <1>7, <1>8 DEF IInv

LEMMA ForgetInv == ASSUME IInv, Exit \/ Crash, UNCHANGED setup PROVE IInv'
<1>1. Forget /\ UNCHANGED <<epoch, inbox, outbox, begun, allowed, ran>>
  BY DEF Exit, Crash
<1>2. LedgerTypeOK' /\ Answered' /\ allowed' \subseteq Requests
  BY <1>1, IdleKept, IInvParts DEF InboxKept, Agrees, TypeOK
<1> QED BY <1>1, <1>2, FreshInv, FreshTypes DEF Forget

\* What a dead process left running or being sent is in doubt from now on.
LEMMA ReopenKept ==
  ASSUME IInv, Reopen, UNCHANGED ran
  PROVE  /\ LedgerTypeOK' /\ Answered'
         /\ \A r \in Requests : inbox'[r].state # "running" /\ outbox'[r].state # "sending"
<1>1. /\ LedgerTypeOK' /\ UNCHANGED begun
      /\ \A r \in Requests : /\ inbox'[r].state = Interrupted(inbox[r].state)
                             /\ inbox'[r].decisions = inbox[r].decisions
                             /\ outbox'[r].state = Interrupted(outbox[r].state)
                             /\ outbox'[r].payload = outbox[r].payload
  BY ReopenEntries, IInvParts
<1>2. \A s, t : t = Interrupted(s) =>
        /\ t \notin {"running", "sending"}
        /\ \/ t = s
           \/ s \in {"running", "sending"} /\ t \in {"needs_reconcile", "unknown"}
  BY DEF Interrupted
<1>3. \A r \in Requests : inbox'[r].state # "running" /\ outbox'[r].state # "sending"
  BY <1>1, <1>2
<1>4. Answered'
  <2> SUFFICES ASSUME NEW r \in Requests
               PROVE  /\ outbox'[r].payload = None <=> outbox'[r].state = "absent"
                      /\ outbox'[r].state # "absent" => inbox'[r].state = "completed"
                      /\ outbox'[r].state \notin {"absent", "pending"} => begun'[r] > 0
                      /\ inbox'[r].state \in {"absent", "pending"} => ran'[r] = 0
                      /\ inbox'[r].state \in {"absent", "pending", "running"} => inbox'[r].decisions = <<>>
    BY DEF Answered
  <2>1. /\ outbox[r].payload = None <=> outbox[r].state = "absent"
        /\ outbox[r].state # "absent" => inbox[r].state = "completed"
        /\ outbox[r].state \notin {"absent", "pending"} => begun[r] > 0
        /\ inbox[r].state \in {"absent", "pending"} => ran[r] = 0
        /\ inbox[r].state \in {"absent", "pending", "running"} => inbox[r].decisions = <<>>
    BY IInvParts DEF Answered
  <2>2. /\ \/ inbox'[r].state = inbox[r].state
           \/ /\ inbox[r].state \in {"running", "sending"}
              /\ inbox'[r].state \in {"needs_reconcile", "unknown"}
        /\ \/ outbox'[r].state = outbox[r].state
           \/ /\ outbox[r].state \in {"running", "sending"}
              /\ outbox'[r].state \in {"needs_reconcile", "unknown"}
    BY <1>1, <1>2
  <2>3. /\ inbox'[r].decisions = inbox[r].decisions /\ outbox'[r].payload = outbox[r].payload
        /\ begun'[r] = begun[r] /\ ran'[r] = ran[r]
    BY <1>1
  <2> QED BY <2>1, <2>2, <2>3
<1> QED BY <1>1, <1>3, <1>4

LEMMA StartInv ==
  ASSUME IInv, (\E admitted \in SUBSET Requests : Start(admitted)) \/ Reconcile, UNCHANGED setup
  PROVE  IInv'
<1>1. /\ process = "down" /\ Reopen /\ UNCHANGED <<gw, seen, pub, waiter, job, hub, ran>>
      /\ process' \in {"starting", "operator"}
  BY DEF Start, Reconcile
<1>2. /\ replay = NoReplay /\ gw = FreshGateway /\ seen = {} /\ pub = NoPub /\ hub = FreshHub
      /\ \A r \in Requests : waiter[r] = "none" /\ job[r] = "none"
  BY <1>1, IInvParts DEF Forgotten
<1>3. waiter = [r \in Requests |-> "none"] /\ job = [r \in Requests |-> "none"]
  <2>1. waiter = [r \in Requests |-> waiter[r]] /\ job = [r \in Requests |-> job[r]]
    BY IInvParts DEF TypeOK
  <2> QED BY <1>2, <2>1
<1>4. /\ LedgerTypeOK' /\ Answered'
      /\ \A r \in Requests : inbox'[r].state # "running" /\ outbox'[r].state # "sending"
  BY <1>1, ReopenKept
<1>5. CASE Reconcile
  <2>1. process' = "operator" /\ UNCHANGED <<allowed, replay>> /\ allowed \subseteq Requests
        /\ replay \in [replies : SUBSET Requests, requests : SUBSET Requests]
    BY <1>5, IInvParts DEF Reconcile, TypeOK
  <2> QED BY <1>1, <1>2, <1>3, <1>4, <2>1, FreshInv
<1>6. ASSUME NEW admitted \in SUBSET Requests, Start(admitted) PROVE IInv'
  <2>1. /\ process' = "starting" /\ allowed' \subseteq Requests
        /\ replay' = [replies  |-> {r \in Requests : outbox'[r].state = "pending"},
                      requests |-> {r \in Requests : inbox'[r].state = "pending"}]
    BY <1>6 DEF Start
  <2>2. /\ replay' \in [replies : SUBSET Requests, requests : SUBSET Requests]
        /\ \A o \in Requests : outbox'[o].state = "pending" => o \in replay'.replies
    BY <2>1
  <2> QED BY <1>1, <1>2, <1>3, <1>4, <2>1, <2>2, FreshInv
<1> QED BY <1>5, <1>6

LEMMA DecideKept ==
  ASSUME IInv, NEW r \in Requests, NEW decision \in Decisions, UNCHANGED ran,
         (\E p \in Payloads : ResolveInbox(r, decision, p)) \/ ResolveOutbox(r, decision)
  PROVE  LedgerTypeOK' /\ Answered'
<1>1. /\ LedgerTypeOK' /\ UNCHANGED begun
      /\ \A o \in Requests \ {r} : inbox'[o] = inbox[o] /\ outbox'[o] = outbox[o]
      /\ \/ /\ inbox[r].state = "needs_reconcile" /\ UNCHANGED outbox
            /\ inbox'[r].state = "abandoned"
         \/ /\ inbox[r].state = "needs_reconcile" /\ inbox'[r].state = "completed"
            /\ outbox[r].state = "absent" /\ outbox'[r].state = "pending"
            /\ \E p \in Payloads : outbox'[r].payload = p
         \/ /\ UNCHANGED inbox /\ outbox[r].state = "unknown"
            /\ outbox'[r].state \in {"abandoned", "delivered", "pending"}
            /\ outbox'[r].payload = outbox[r].payload
  BY ResolveEntries, IInvParts
<1> QED BY <1>1, IInvParts, Constants DEF Answered

LEMMA DecideInv ==
  ASSUME IInv, NEW r \in Requests, NEW decision \in Decisions, Decide(r, decision), UNCHANGED setup
  PROVE  IInv'
<1>1. /\ process = "operator" /\ process' = "down"
      /\ UNCHANGED <<allowed, replay, gw, seen, pub, waiter, job, hub, ran>>
  BY DEF Decide
<1>2. /\ replay = NoReplay /\ gw = FreshGateway /\ seen = {} /\ pub = NoPub /\ hub = FreshHub
      /\ \A o \in Requests : waiter[o] = "none" /\ job[o] = "none"
  BY <1>1, IInvParts DEF Forgotten
<1>3. waiter = [o \in Requests |-> "none"] /\ job = [o \in Requests |-> "none"]
  <2>1. waiter = [o \in Requests |-> waiter[o]] /\ job = [o \in Requests |-> job[o]]
    BY IInvParts DEF TypeOK
  <2> QED BY <1>2, <2>1
<1>4. LedgerTypeOK' /\ Answered'
  BY <1>1, DecideKept DEF Decide
<1>5. allowed \subseteq Requests /\ replay \in [replies : SUBSET Requests, requests : SUBSET Requests]
  BY IInvParts DEF TypeOK
<1> QED BY <1>1, <1>2, <1>3, <1>4, <1>5, FreshInv

LEMMA CloseInv ==
  ASSUME IInv, CloseIntake \/ SealScheduler \/ TimeOut, UNCHANGED setup
  PROVE  IInv'
<1>0. UNCHANGED <<epoch, inbox, outbox, begun, process, allowed, replay, seen, pub, waiter, hub, ran>>
  BY DEF CloseIntake, SealScheduler, TimeOut
<1>1. PICK c, s, t \in BOOLEAN :
        /\ gw' = [gw EXCEPT !.closed = c, !.sealed = s, !.cancelled = t]
        /\ \/ /\ process \in {"up", "failed"} /\ pub.pc = "idle"
              /\ c /\ s = gw.sealed /\ t = gw.cancelled /\ UNCHANGED job
           \/ /\ gw.closed /\ ~gw.sealed /\ c /\ s /\ t = gw.cancelled
              /\ job' = [r \in Requests |-> IF job[r] = "queued" THEN "doomed" ELSE job[r]]
           \/ /\ gw.sealed /\ c = gw.closed /\ s = gw.sealed /\ t /\ UNCHANGED job
  <2>1. gw \in [closed : BOOLEAN, cancelled : BOOLEAN, sealed : BOOLEAN, slots : 0..Slots]
    BY IInvParts DEF TypeOK
  <2>2. CASE CloseIntake
    <3>1. gw' = [gw EXCEPT !.closed = TRUE, !.sealed = gw.sealed, !.cancelled = gw.cancelled]
      BY <2>1, <2>2 DEF CloseIntake
    <3> QED BY <2>1, <2>2, <3>1 DEF CloseIntake, Closing
  <2>3. CASE SealScheduler
    <3>1. gw' = [gw EXCEPT !.closed = TRUE, !.sealed = TRUE, !.cancelled = gw.cancelled]
      BY <2>1, <2>3 DEF SealScheduler
    <3> QED BY <2>1, <2>3, <3>1 DEF SealScheduler
  <2>4. CASE TimeOut
    <3>1. gw' = [gw EXCEPT !.closed = gw.closed, !.sealed = gw.sealed, !.cancelled = TRUE]
      BY <2>1, <2>4 DEF TimeOut
    <3> QED BY <2>1, <2>4, <3>1 DEF TimeOut
  <2> QED BY <2>2, <2>3, <2>4
<1>2. /\ gw' \in [closed : BOOLEAN, cancelled : BOOLEAN, sealed : BOOLEAN, slots : 0..Slots]
      /\ gw'.closed = c /\ gw'.sealed = s /\ gw'.cancelled = t /\ gw'.slots = gw.slots
  BY <1>1, IInvParts DEF TypeOK
<1>3. /\ c /\ (t => s) /\ (gw.sealed => s) /\ (gw.cancelled => t) /\ pub.pc = "idle"
      /\ process \in {"up", "failed"}
  BY <1>1, IInvParts DEF Shutdown, Published
<1>4. /\ job' \in [Requests -> JobStates]
      /\ \A r \in Requests : /\ job'[r] = job[r] \/ (job[r] = "queued" /\ job'[r] = "doomed")
                             /\ job'[r] = "queued" => job[r] = "queued" /\ ~s
  <2>1. CASE UNCHANGED job
    BY <1>1, <2>1, IInvParts DEF TypeOK, Turns
  <2>2. CASE job' = [r \in Requests |-> IF job[r] = "queued" THEN "doomed" ELSE job[r]]
    BY <2>2, IInvParts DEF TypeOK, JobStates
  <2> QED BY <1>1, <2>1, <2>2
<1>5. TypeOK'
  BY <1>0, <1>2, <1>4, IInvParts DEF TypeOK, LedgerTypeOK, Slots
<1>6. Answered'
  BY <1>0, AnsweredQuiet, IInvParts
<1>7. Turns'
  BY <1>0, <1>2, <1>4, IInvParts DEF Turns
<1>8. Published' /\ Forgotten'
  BY <1>0, <1>3 DEF Published, Forgotten
<1>9. Shutdown'
  <2>1. hub.sealed /\ Joined => Joined'
    BY <1>0, <1>2, <1>3, <1>4 DEF Joined, Ended
  <2> QED BY <1>0, <1>2, <1>3, <2>1, IInvParts DEF Shutdown
<1>10. IsFiniteSet(Present)' /\ SlotsAccounted'
  BY <1>0, <1>2, IInvParts DEF Present, SlotsAccounted
<1>11. Tended'
  BY <1>0, <1>2, <1>3, IInvParts DEF Tended, faulty
<1> QED BY <1>5, <1>6, <1>7, <1>8, <1>9, <1>10, <1>11 DEF IInv

LEMMA OpenInv == ASSUME IInv, Open \/ Abort, UNCHANGED setup PROVE IInv'
<1>0. /\ process = "starting" /\ pub.pc = "idle"
      /\ \/ process' = "up" /\ replay = NoReplay
         \/ process' = "failed"
      /\ replay' = NoReplay
      /\ UNCHANGED <<epoch, inbox, outbox, begun, allowed, gw, seen, pub, waiter, job, hub, ran>>
  BY DEF Open, Abort
<1>1. TypeOK'
  BY <1>0, FreshTypes, IInvParts DEF TypeOK, LedgerTypeOK, Slots
<1>2. Answered' /\ Turns'
  BY <1>0, AnsweredQuiet, QuietTurns, IInvParts
<1>3. Published' /\ Forgotten'
  BY <1>0 DEF Published, Forgotten
<1>4. Shutdown'
  BY <1>0, IInvParts DEF Shutdown, Joined
<1>5. IsFiniteSet(Present)' /\ SlotsAccounted'
  BY <1>0, IInvParts DEF Present, SlotsAccounted
<1>6. Tended'
  BY <1>0, IInvParts DEF Tended, faulty
<1> QED BY <1>1, <1>2, <1>3, <1>4, <1>5, <1>6 DEF IInv

-----------------------------------------------------------------------------
(* The theorems                                                            *)

LEMMA InitInv == Init => IInv
<1> SUFFICES ASSUME Init PROVE IInv
  OBVIOUS
<1>0. /\ setup \in Setups /\ Slots \in Nat
  BY Constants DEF Init, Slots
<1>1. LedgerTypeOK /\ Answered
  <2>1. <<>> \in Seq(Decisions)
    OBVIOUS
  <2>2. LedgerTypeOK
    BY <2>1, Constants DEF Init, LedgerInit, LedgerTypeOK, InboxEntry, OutboxEntry, InboxStates, OutboxStates
  <2> QED BY <2>2, Constants DEF Init, LedgerInit, Answered
<1>2. /\ \A r \in Requests : waiter[r] = "none" /\ job[r] = "none"
      /\ seen = {} /\ process = "down" /\ gw = FreshGateway /\ hub = FreshHub /\ pub = NoPub
      /\ replay = NoReplay
  BY DEF Init
<1>3. TypeOK
  BY <1>0, <1>1, <1>2, FreshTypes DEF Init, TypeOK, JobStates, Slots, NoPub
<1>4. Turns /\ Published /\ Shutdown /\ Forgotten /\ Tended
  BY <1>2, FreshTypes DEF Turns, Published, Shutdown, Forgotten, Tended
<1>5. IsFiniteSet(Present) /\ SlotsAccounted
  <2>1. Present = {} /\ Publication = 0
    BY <1>2, FreshTypes DEF Present, Publication
  <2> QED BY <1>2, <2>1, FS_EmptySet, FreshTypes, Slotted
<1> QED BY <1>1, <1>3, <1>4, <1>5 DEF IInv

LEMMA QuietInv == ASSUME IInv, UNCHANGED vars PROVE IInv'
<1>1. TypeOK'
  BY IInvParts DEF vars, TypeOK, LedgerTypeOK, Slots
<1>2. Answered' /\ Turns' /\ Published'
  BY AnsweredQuiet, QuietTurns, IInvParts DEF vars, Published
<1>3. Shutdown' /\ Forgotten'
  BY IInvParts DEF vars, Shutdown, Forgotten, Joined
<1>4. IsFiniteSet(Present)' /\ SlotsAccounted' /\ Tended'
  BY IInvParts DEF vars, Present, SlotsAccounted, Tended, faulty
<1> QED BY <1>1, <1>2, <1>3, <1>4 DEF IInv

LEMMA StepInv == IInv /\ [Next]_vars => IInv'
<1> SUFFICES ASSUME IInv, [Next]_vars PROVE IInv'
  OBVIOUS
<1>1. CASE UNCHANGED vars
  BY <1>1, QuietInv
<1>2. CASE Next
  <2>0. Working /\ UNCHANGED setup
    BY <1>2 DEF Next
  <2>1. ASSUME NEW r \in Requests, Receive(r) \/ Turning(r) \/ Waiting(r) PROVE IInv'
    BY <2>0, <2>1, IntakeInv, TurningInv, ObserveInv, FaultInv, PostInv, CompleteReplyInv DEF Waiting
  <2>2. CASE Publishing
    BY <2>0, <2>2, PutInv, LookupInv, ClaimInv, AcceptInv, RejectInv, RefuseInv DEF Publishing
  <2>3. CASE Sending
    BY <2>0, <2>3, SendInv, SentInv DEF Sending
  <2>4. CASE CloseIntake \/ TimeOut \/ Stopping
    BY <2>0, <2>4, CloseInv, StopInv, ForgetInv DEF Stopping
  <2>5. CASE \/ \E admitted \in SUBSET Requests : Start(admitted)
             \/ Reconcile
    BY <2>0, <2>5, StartInv
  <2>6. CASE Starting \/ Abort
    BY <2>0, <2>6, OpenInv, IntakeInv, ResendInv DEF Starting
  <2>7. CASE (\E r \in Requests, decision \in Decisions : Decide(r, decision)) \/ Crash
    BY <2>0, <2>7, DecideInv, ForgetInv
  <2> QED BY <2>0, <2>1, <2>2, <2>3, <2>4, <2>5, <2>6, <2>7 DEF Working
<1> QED BY <1>1, <1>2 DEF Next

\* Whatever crashes, timed-out closes, restarts and decisions happen, the slots,
\* turns, waiting goroutines, entries and the hub stay as IInv says
\* (gateway.go, server.go, main.go of the reconcile command).
THEOREM GatewayInvariant == Spec => []IInv
BY InitInv, StepInv, PTL DEF Spec

\* Accounted: no slot is lost or given back twice, work in flight is attended while
\* the process serves and its journal works, and an orderly close leaves nothing.
LEMMA AccountedHolds == IInv => Accounted
<1> SUFFICES ASSUME IInv PROVE Attended /\ OrderlyClose
  BY IInvParts DEF Accounted
<1>1. Attended
  <2>1. SeenIsTaken
    BY IInvParts DEF SeenIsTaken, Turns, TypeOK
  <2>2. ~gw.closed => ~gw.cancelled
    BY IInvParts DEF Shutdown
  <2> QED BY <2>1, <2>2, IInvParts DEF Attended, Tended, Turns
<1>2. OrderlyClose
  <2> SUFFICES ASSUME process = "up", hub.done, Joined, ~gw.cancelled, ~faulty, NEW r \in Requests
               PROVE  inbox[r].state # "running" /\ outbox[r].state \notin {"pending", "sending"}
    BY DEF OrderlyClose
  <2>1. /\ waiter[r] = "none" /\ hub.queue = {} /\ hub.sending = None /\ replay.replies = {}
        /\ pub.pc = "idle" /\ r # None
    BY IInvParts, FreshTypes, Constants DEF Joined, Shutdown, Published
  <2> QED BY <2>1, IInvParts DEF Tended
<1> QED BY <1>1, <1>2

THEOREM SlotsAndEntries == Spec => []Accounted
BY GatewayInvariant, AccountedHolds, PTL

-----------------------------------------------------------------------------
(* The refinement: every step of the gateway keeps the promise             *)

Doubtful(r) == \/ inbox[r].state \in {"needs_reconcile", "abandoned"}
               \/ inbox[r].decisions # <<>>
Replies == [r \in Requests |-> outbox[r].payload]
Debts   == {r \in Requests : outbox[r].state = "pending"}
Sends   == [r \in Requests |-> begun[r]]

LEMMA DoubtedSame == ASSUME \A r \in Requests : Doubtful(r)' <=> Doubtful(r) PROVE Doubted' = Doubted
BY DEF Doubted, Doubtful

LEMMA RepliesSame ==
  ASSUME \A r \in Requests : outbox'[r].payload = outbox[r].payload
  PROVE  Replies' = Replies
BY DEF Replies

LEMMA DebtsSame ==
  ASSUME \A r \in Requests : outbox'[r].state = "pending" <=> outbox[r].state = "pending"
  PROVE  Debts' = Debts
BY DEF Debts

\* The steps of the promise, in terms of the entries.
LEMMA PromiseQuiet ==
  ASSUME UNCHANGED <<ran, begun>>, Doubted' = Doubted, Replies' = Replies, Debts' = Debts
  PROVE  UNCHANGED Kept!vars
BY DEF Kept!vars, Replies, Debts, Sends

LEMMA PromiseRun ==
  ASSUME NEW r \in Requests, ran[r] = 0, ran' = [ran EXCEPT ![r] = 1], ~Doubtful(r),
         outbox[r].payload = None, UNCHANGED <<inbox, outbox, begun>>
  PROVE  Kept!Next
<1>1. Doubted' = Doubted /\ r \notin Doubted
  BY DEF Doubted, Doubtful
<1>2. Kept!Run(r)
  BY <1>1 DEF Kept!Run
<1> QED BY <1>2 DEF Kept!Next

LEMMA PromiseDoubt ==
  ASSUME NEW R \in SUBSET Requests, \A r \in R : outbox[r].payload = None,
         \A r \in Requests : Doubtful(r)' <=> Doubtful(r) \/ r \in R,
         UNCHANGED <<ran, begun>>, Replies' = Replies, Debts' = Debts
  PROVE  Kept!Next
<1>1. Doubted' = Doubted \cup R
  BY DEF Doubted, Doubtful
<1>2. Kept!Doubt(R)
  BY <1>1 DEF Kept!Doubt, Replies, Debts
<1> QED BY <1>2 DEF Kept!Next

LEMMA PromiseAnswer ==
  ASSUME NEW r \in Requests, NEW p \in Payloads, ran[r] > 0 \/ Doubtful(r), outbox[r].payload = None,
         outbox'[r].payload = p, outbox'[r].state = "pending",
         \A o \in Requests \ {r} : outbox'[o] = outbox[o],
         UNCHANGED <<ran, begun>>, Doubted' = Doubted
  PROVE  Kept!Next
<1>1. Replies' = [Replies EXCEPT ![r] = p]
  BY DEF Replies
<1>2. Debts' = Debts \cup {r}
  BY DEF Debts
<1>3. ran[r] > 0 \/ r \in Doubted
  BY DEF Doubted, Doubtful
<1>4. Kept!Answer(r, p)
  BY <1>1, <1>2, <1>3 DEF Kept!Answer, Replies, Debts
<1> QED BY <1>4 DEF Kept!Next

LEMMA PromiseSend ==
  ASSUME NEW r \in Requests, outbox[r].state = "pending", outbox'[r].state = "sending",
         \A o \in Requests \ {r} : outbox'[o] = outbox[o],
         begun \in [Requests -> Nat], begun' = [begun EXCEPT ![r] = @ + 1],
         UNCHANGED <<ran, inbox>>, Replies' = Replies
  PROVE  Kept!Next
<1>1. Doubted' = Doubted
  BY DEF Doubted
<1>2. Debts' = Debts \ {r} /\ r \in Debts
  BY DEF Debts
<1>3. Sends' = [Sends EXCEPT ![r] = @ + 1]
  BY DEF Sends
<1>4. Kept!Send(r)
  BY <1>1, <1>2, <1>3 DEF Kept!Send, Replies, Debts, Sends
<1> QED BY <1>4 DEF Kept!Next

LEMMA PromiseAllow ==
  ASSUME NEW r \in Requests, begun[r] > 0, outbox'[r].state = "pending",
         \A o \in Requests \ {r} : outbox'[o] = outbox[o],
         UNCHANGED <<ran, begun, inbox>>, Replies' = Replies
  PROVE  Kept!Next
<1>1. Doubted' = Doubted
  BY DEF Doubted
<1>2. Debts' = Debts \cup {r}
  BY DEF Debts
<1>3. Kept!Allow(r)
  BY <1>1, <1>2 DEF Kept!Allow, Replies, Debts
<1> QED BY <1>3 DEF Kept!Next

\* A turn that is begun, or joins another, is the first of its request.
LEMMA RunKept ==
  ASSUME IInv, NEW r \in Requests, RunTurn(r) \/ Absorb(r)
  PROVE  Kept!Next
<1>1. /\ job[r] = "queued" /\ ran' = [ran EXCEPT ![r] = @ + 1]
      /\ UNCHANGED <<inbox, outbox, begun>>
  BY DEF RunTurn, Absorb
<1>2. ran[r] = 0 /\ inbox[r].state = "running"
  BY <1>1, IInvParts DEF Turns
<1>3. outbox[r].payload = None /\ ~Doubtful(r)
  BY <1>2, IInvParts DEF Answered, Doubtful
<1>4. ran' = [ran EXCEPT ![r] = 1]
  <2>1. ran[r] + 1 = 1
    BY <1>2
  <2> QED BY <1>1, <2>1
<1> QED BY <1>1, <1>2, <1>3, <1>4, PromiseRun

\* An inbox entry that moves without coming into doubt promises nothing new.
LEMMA MoveKept ==
  ASSUME IInv, NEW r \in Requests, NEW to \in InboxStates, UNCHANGED <<outbox, begun, ran>>,
         Inboxed(r, to), inbox[r].state \in {"absent", "pending", "running"}
  PROVE  IF to \in {"needs_reconcile", "abandoned"}
         THEN outbox[r].payload = None => Kept!Next
         ELSE UNCHANGED Kept!vars
<1>1. /\ inbox'[r].state = to /\ inbox'[r].decisions = inbox[r].decisions
      /\ \A o \in Requests \ {r} : inbox'[o] = inbox[o]
  BY DEF Inboxed
<1>2. Replies' = Replies /\ Debts' = Debts
  BY DEF Replies, Debts
<1>3. CASE to \in {"needs_reconcile", "abandoned"}
  <2>1. \A o \in Requests : Doubtful(o)' <=> Doubtful(o) \/ o \in {r}
    BY <1>1, <1>3 DEF Doubtful
  <2>2. {r} \in SUBSET Requests
    OBVIOUS
  <2> QED BY <1>2, <1>3, <2>1, <2>2, PromiseDoubt
<1>4. CASE to \notin {"needs_reconcile", "abandoned"}
  <2>1. \A o \in Requests : Doubtful(o)' <=> Doubtful(o)
    BY <1>1, <1>4 DEF Doubtful
  <2> QED BY <1>2, <1>4, <2>1, DoubtedSame, PromiseQuiet
<1> QED BY <1>3, <1>4

LEMMA NothingNew == ASSUME UNCHANGED <<inbox, outbox, begun, ran>> PROVE UNCHANGED Kept!vars
BY PromiseQuiet DEF Doubted, Replies, Debts

LEMMA PublishKept == ASSUME IInv, Publishing PROVE UNCHANGED Kept!vars
<1> DEFINE r == pub.req
<1>0. UNCHANGED ran
  BY DEF Publishing, Put, Lookup, Claim, Accept, Reject, Refuse
<1>1. CASE UNCHANGED ledger
  BY <1>0, <1>1, NothingNew DEF ledger
<1>2. CASE Put /\ PutInbox(r, Body)
  <2>1. r \in Requests
    BY <1>2, IInvParts DEF Put, Published
  <2>2. /\ UNCHANGED <<outbox, begun>>
        /\ IF inbox[r].state = "absent" THEN Inboxed(r, "pending") ELSE UNCHANGED inbox
    BY <1>2, <2>1, PutEntry, IInvParts
  <2> QED BY <1>0, <2>1, <2>2, MoveKept, NothingNew DEF InboxStates
<1>3. ASSUME pub.pc \in {"claim", "refuse"}, NEW from \in {"pending", "running"},
             NEW to \in {"pending", "running"}, MoveInbox(r, from, to)
      PROVE  UNCHANGED Kept!vars
  <2>1. r \in Requests
    BY <1>3, IInvParts DEF Published
  <2>2. UNCHANGED <<outbox, begun>> /\ inbox[r].state = from /\ Inboxed(r, to)
    BY <1>3, <2>1, MoveInboxEntry, IInvParts DEF InboxStates
  <2> QED BY <1>0, <2>1, <2>2, MoveKept DEF InboxStates
<1>4. CASE Lookup \/ Accept \/ Reject
  BY <1>4, NothingNew DEF Lookup, Accept, Reject
<1> QED BY <1>1, <1>2, <1>3, <1>4 DEF Publishing, Put, Claim, Refuse

LEMMA CompleteAnswers ==
  ASSUME IInv, NEW r \in Requests, NEW p \in Payloads, waiter[r] = "complete", Complete(r, p),
         UNCHANGED ran
  PROVE  Kept!Next
<1>1. /\ UNCHANGED begun /\ inbox[r].state = "running" /\ Inboxed(r, "completed")
      /\ Outboxed(r, "pending") /\ outbox'[r].payload = p
  BY CompleteEntry, IInvParts
<1>2. ran[r] > 0 /\ outbox[r].payload = None
  BY <1>1, IInvParts DEF Turns, Answered
<1>3. Doubted' = Doubted
  BY <1>1, DoubtedSame DEF Inboxed, Doubtful
<1> QED BY <1>1, <1>2, <1>3, PromiseAnswer DEF Outboxed

LEMMA WaitingKept == ASSUME IInv, NEW r \in Requests, Waiting(r) PROVE Kept!Next \/ UNCHANGED Kept!vars
<1>0. UNCHANGED ran
  BY DEF Waiting, Observe, Fault, Merge, CompleteReply, Post
<1>1. CASE UNCHANGED ledger
  BY <1>0, <1>1, NothingNew DEF ledger
<1>2. ASSUME NEW to \in {"needs_reconcile", "merged"}, MoveInbox(r, "running", to)
      PROVE  Kept!Next \/ UNCHANGED Kept!vars
  <2>1. UNCHANGED <<outbox, begun>> /\ inbox[r].state = "running" /\ Inboxed(r, to)
    BY <1>2, MoveInboxEntry, IInvParts DEF InboxStates
  <2>2. outbox[r].payload = None
    BY <2>1, IInvParts DEF Answered
  <2> QED BY <1>0, <2>1, <2>2, MoveKept DEF InboxStates
<1>3. ASSUME NEW p \in Payloads, waiter[r] = "complete", Complete(r, p) PROVE Kept!Next
  BY <1>0, <1>3, CompleteAnswers
<1>4. CASE Observe(r) \/ Post(r)
  BY <1>4, NothingNew DEF Observe, Post
<1> QED BY <1>1, <1>2, <1>3, <1>4 DEF Waiting, Fault, Merge, CompleteReply

LEMMA SendingKept == ASSUME IInv, Sending PROVE Kept!Next \/ UNCHANGED Kept!vars
<1>0. UNCHANGED ran
  BY DEF Sending, Send, Sent
<1>1. CASE UNCHANGED ledger
  BY <1>0, <1>1, NothingNew DEF ledger
<1>2. ASSUME NEW r \in Requests, MoveOutbox(r, "pending", "sending") PROVE Kept!Next
  <2>1. /\ UNCHANGED inbox /\ outbox[r].state = "pending" /\ Outboxed(r, "sending")
        /\ outbox'[r].payload = outbox[r].payload /\ begun' = [begun EXCEPT ![r] = @ + 1]
    BY <1>2, MoveOutboxEntry, IInvParts DEF OutboxStates
  <2>2. begun \in [Requests -> Nat]
    BY IInvParts, Constants DEF LedgerTypeOK
  <2>3. Replies' = Replies
    BY <2>1, RepliesSame DEF Outboxed
  <2> QED BY <1>0, <2>1, <2>2, <2>3, PromiseSend DEF Outboxed
<1>3. ASSUME NEW r \in Requests, NEW outcome \in Outcomes, MoveOutbox(r, "sending", outcome)
      PROVE  UNCHANGED Kept!vars
  <2>1. /\ UNCHANGED <<inbox, begun>> /\ outbox[r].state = "sending" /\ Outboxed(r, outcome)
        /\ outbox'[r].payload = outbox[r].payload
    BY <1>3, MoveOutboxEntry, IInvParts DEF OutboxStates, Outcomes
  <2>2. Doubted' = Doubted /\ Replies' = Replies /\ Debts' = Debts
    BY <2>1, RepliesSame, DebtsSame DEF Outboxed, Doubted, Outcomes
  <2> QED BY <1>0, <2>1, <2>2, PromiseQuiet
<1>4. hub.queue \subseteq Requests /\ (hub.sending # None => hub.sending \in Requests)
  BY IInvParts, Fields
<1> QED BY <1>1, <1>2, <1>3, <1>4 DEF Sending, Send, Sent

LEMMA ReopenDoubts == ASSUME IInv, Reopen, UNCHANGED ran PROVE Kept!Next
<1> DEFINE R == {r \in Requests : inbox[r].state = "running"}
<1>1. /\ UNCHANGED begun
      /\ \A r \in Requests : /\ inbox'[r].state = Interrupted(inbox[r].state)
                             /\ inbox'[r].decisions = inbox[r].decisions
                             /\ outbox'[r].state = Interrupted(outbox[r].state)
                             /\ outbox'[r].payload = outbox[r].payload
  BY ReopenEntries, IInvParts
<1>2. \A s, t : t = Interrupted(s) =>
        /\ t = "pending" <=> s = "pending"
        /\ t \in {"needs_reconcile", "abandoned"}
             <=> s \in {"needs_reconcile", "abandoned"} \/ s = "running"
  BY DEF Interrupted
<1>3. Replies' = Replies /\ Debts' = Debts
  BY <1>1, <1>2, RepliesSame, DebtsSame
<1>4. \A r \in Requests : Doubtful(r)' <=> Doubtful(r) \/ r \in R
  BY <1>1, <1>2 DEF Doubtful
<1>5. R \in SUBSET Requests /\ \A r \in R : outbox[r].payload = None
  BY IInvParts DEF Answered
<1> HIDE DEF R
<1> QED BY <1>1, <1>3, <1>4, <1>5, PromiseDoubt

LEMMA DecideAllows ==
  ASSUME IInv, NEW r \in Requests, NEW decision \in Decisions, Decide(r, decision)
  PROVE  Kept!Next \/ UNCHANGED Kept!vars
<1>0. UNCHANGED ran
  BY DEF Decide
<1>1. /\ UNCHANGED begun
      /\ \A o \in Requests \ {r} : inbox'[o] = inbox[o] /\ outbox'[o] = outbox[o]
      /\ \/ /\ inbox[r].state = "needs_reconcile" /\ UNCHANGED outbox
            /\ inbox'[r].state = "abandoned"
         \/ /\ inbox[r].state = "needs_reconcile" /\ inbox'[r].state = "completed"
            /\ inbox'[r].decisions # <<>>
            /\ outbox[r].state = "absent" /\ outbox'[r].state = "pending"
            /\ \E p \in Payloads : outbox'[r].payload = p
         \/ /\ UNCHANGED inbox /\ outbox[r].state = "unknown"
            /\ outbox'[r].state \in {"abandoned", "delivered", "pending"}
            /\ outbox'[r].payload = outbox[r].payload
  BY ResolveEntries, IInvParts DEF Decide
<1>2. CASE inbox[r].state = "needs_reconcile" /\ UNCHANGED outbox /\ inbox'[r].state = "abandoned"
  <2>1. Doubted' = Doubted /\ Replies' = Replies /\ Debts' = Debts
    BY <1>1, <1>2, DoubtedSame DEF Doubtful, Replies, Debts
  <2> QED BY <1>0, <1>1, <2>1, PromiseQuiet
<1>3. ASSUME NEW p \in Payloads, inbox[r].state = "needs_reconcile", inbox'[r].state = "completed",
             inbox'[r].decisions # <<>>, outbox[r].state = "absent", outbox'[r].state = "pending",
             outbox'[r].payload = p
      PROVE  Kept!Next
  <2>1. Doubted' = Doubted /\ Doubtful(r)
    BY <1>1, <1>3, DoubtedSame DEF Doubtful
  <2>2. outbox[r].payload = None
    BY <1>3, IInvParts DEF Answered
  <2> QED BY <1>0, <1>1, <1>3, <2>1, <2>2, PromiseAnswer
<1>4. CASE /\ UNCHANGED inbox /\ outbox[r].state = "unknown"
           /\ outbox'[r].state \in {"abandoned", "delivered", "pending"}
           /\ outbox'[r].payload = outbox[r].payload
  <2>1. begun[r] > 0 /\ Replies' = Replies /\ Doubted' = Doubted
    BY <1>1, <1>4, RepliesSame, IInvParts DEF Answered, Doubted
  <2>2. CASE outbox'[r].state = "pending"
    BY <1>0, <1>1, <1>4, <2>1, <2>2, PromiseAllow
  <2>3. CASE outbox'[r].state # "pending"
    <3>1. Debts' = Debts
      BY <1>1, <1>4, <2>3, DebtsSame
    <3> QED BY <1>0, <1>1, <2>1, <3>1, PromiseQuiet
  <2> QED BY <2>2, <2>3
<1> QED BY <1>1, <1>2, <1>3, <1>4

LEMMA PromiseStep == IInv /\ [Next]_vars => [Kept!Next]_(Kept!vars)
<1> SUFFICES ASSUME IInv, [Next]_vars PROVE Kept!Next \/ UNCHANGED Kept!vars
  OBVIOUS
<1>1. CASE UNCHANGED vars
  BY <1>1, NothingNew DEF vars
<1>2. CASE Next
  <2>0. Working
    BY <1>2 DEF Next
  <2>1. ASSUME NEW r \in Requests, Receive(r) \/ Requeue(r) \/ Resend(r)
        PROVE  UNCHANGED Kept!vars
    BY <2>1, NothingNew DEF Receive, Requeue, Resend
  <2>2. ASSUME NEW r \in Requests, Turning(r) PROVE Kept!Next \/ UNCHANGED Kept!vars
    <3>1. CASE RunTurn(r) \/ Absorb(r)
      BY <3>1, RunKept
    <3>2. CASE DropTurn(r) \/ \E outcome \in {"ok", "error"} : EndTurn(r, outcome)
      BY <3>2, NothingNew DEF DropTurn, EndTurn
    <3> QED BY <2>2, <3>1, <3>2 DEF Turning
  <2>3. CASE CloseIntake \/ TimeOut \/ SealScheduler \/ CloseHub \/ AbortHub \/ StopHub
             \/ Exit \/ Crash \/ Open \/ Abort
    BY <2>3, NothingNew DEF CloseIntake, TimeOut, SealScheduler, CloseHub, AbortHub, StopHub,
                            Exit, Crash, Open, Abort
  <2>4. CASE (\E admitted \in SUBSET Requests : Start(admitted)) \/ Reconcile
    <3>1. Reopen /\ UNCHANGED ran
      BY <2>4 DEF Start, Reconcile
    <3> QED BY <3>1, ReopenDoubts
  <2>5. CASE \E r \in Requests, decision \in Decisions : Decide(r, decision)
    BY <2>5, DecideAllows
  <2> QED BY <2>0, <2>1, <2>2, <2>3, <2>4, <2>5, PublishKept, WaitingKept, SendingKept
          DEF Working, Stopping, Starting
<1> QED BY <1>1, <1>2

LEMMA PromiseInit == Init => Kept!Init
BY Constants DEF Init, LedgerInit, Kept!Init, Doubted

\* Whatever crashes, redeliveries, restarts, timed-out closes and decisions happen, a
\* request is run at most once and never once in doubt, has at most one answer, and
\* every further sending of it was allowed by an operator (docs/FEISHU.md:50).
THEOREM PromiseKept == Spec => KeepsPromise
<1>1. Init /\ IInv => Kept!Init
  BY PromiseInit
<1> QED BY <1>1, InitInv, PromiseStep, GatewayInvariant, PTL DEF Spec, KeepsPromise, Kept!Spec
=============================================================================
