------------------------------ MODULE Summaries ------------------------------
(***************************************************************************)
(* internal/runtime: how the results of background workers reach the user  *)
(* of one conversation (worker_results.go, service_workers.go,             *)
(* worker_summary_store.go, service_summary_recovery.go, service.go).      *)
(*                                                                         *)
(* A turn ingests results into the session and acknowledges them; when no  *)
(* turn runs, a dispatcher records an intent, has the lane summarise, and  *)
(* hands the stored text to the channel's outbox.  A replay does that for  *)
(* a conversation that is not loaded.  The conversation has one Agent, the *)
(* receipts are those of Receipts, whose manager (Workers) is abstracted   *)
(* to what it promises there.                                              *)
(*                                                                         *)
(* A transaction of a file, or a section under Service.mu, is one action.  *)
(* A transaction under a context that has ended fails: the dispatcher ends *)
(* (Abort).  Left out: identities, sources, times, approvals; other        *)
(* conversations; what the model says.                                     *)
(***************************************************************************)
EXTENDS Naturals, FiniteSets, FiniteSetsExt, ReceiptFile

CONSTANTS
  Sums,         \* bound: summary ids, 1 .. n, in the order they are drawn
  Dispatchers,  \* bound: goroutines of dispatchWorkerSummary at a time
  Crashes,      \* bound: crashes of the process
  Cancels       \* bound: calls of CancelConversation

ASSUME SummariesConstants ==
  /\ IsFiniteSet(Sums) /\ Sums = 1 .. Cardinality(Sums) /\ "replay" \notin Dispatchers
  /\ {Crashes, Cancels} \subseteq Nat /\ Faulty \in BOOLEAN

VARIABLES
  session,   \* per job, its result messages in the session: on disk, in memory
  summary,   \* summaries.json
  report,    \* summaries whose run left a completed report
  service,   \* Service: phase, whether the Agent is loaded, workerClosed
  note,      \* workerNotification, and ids of the conversation on workerWake
  carrier,   \* the dispatchers and the replay
  lane,      \* the turn of the conversation that is running
  request,   \* the scheduler request of each summary
  canceller, \* CancelConversation or Close under way
  told,      \* history: per summary, whether its handoff is "noted", was "lost" to
             \* the notes, came "twice", or "late", after it was "silenced"
  bound      \* crashes and cancellations so far

resultsVars == <<receipt, session, summary, report, service, note, carrier, lane,
                 request, canceller, told, bound>>
disk == <<receipt, session, summary, report>>

Carriers == Dispatchers \cup {"replay"}
Open == {"generating", "pending"}
Over == {"accepted", "revoked"}
NoSummary == [status |-> "absent", text |-> "none", results |-> {}]
Away == [pc |-> "none", id |-> 0, results |-> {}, todo |-> {},
         stale |-> FALSE, cancelled |-> FALSE]
Idle == [pc |-> "idle", id |-> 0, todo |-> {}, added |-> FALSE, cancelled |-> FALSE,
         merged |-> {}]

ResultsInit ==
  /\ File!Blank
  /\ session = [disk |-> [w \in Jobs |-> 0], mem |-> [w \in Jobs |-> 0]]
  /\ summary = [s \in Sums |-> NoSummary]
  /\ report = {}
  /\ service = [loaded |-> FALSE, closed |-> FALSE]
  /\ note = [scheduled |-> FALSE, holder |-> "none", wakes |-> 0]
  /\ carrier = [c \in Carriers |-> Away]
  /\ lane = Idle
  /\ request = [s \in Sums |-> "none"]
  /\ canceller = [pc |-> "none", kind |-> "none"]
  /\ told = [s \in Sums |-> "not"]
  /\ bound = [crashes |-> 0, cancels |-> 0]

-----------------------------------------------------------------------------
(* summaries.json                                                          *)

\* nextSummary: the oldest that is still to be handed over, or 0.
OpenSums == {s \in Sums : summary[s].status \in Open}
NextSummary == IF OpenSums = {} THEN 0 ELSE Min(OpenSums)

\* saveSummary, settleSummary: what is over stays.  (Seeded fault: it does not.)
Write_Always(s, r) == summary' = [summary EXCEPT ![s] = r]
Write(s, r) ==
  summary' = IF summary[s].status \in Over THEN summary ELSE [summary EXCEPT ![s] = r]

Settle(s, status) == Write(s, [summary[s] EXCEPT !.status = status])

RevokeSummaries ==
  summary' = [s \in Sums |->
    IF summary[s].status \in Open THEN [summary[s] EXCEPT !.status = "revoked"] ELSE summary[s]]

-----------------------------------------------------------------------------
(* Waking: wakeWorker, the ticker and the notification loop                *)

Wake ==
  IF ~service.closed /\ service.loaded /\ ~note.scheduled
  THEN note' = [note EXCEPT !.scheduled = TRUE, !.wakes = @ + 1]
  ELSE UNCHANGED note

Due == OpenSums # {} \/ \E w \in Jobs : File!Pending(w)

\* The loop is one goroutine: it ticks when it is not replaying.
Tick ==
  /\ Due /\ carrier["replay"].pc = "none" /\ Wake
  /\ UNCHANGED <<disk, service, carrier, lane, request, canceller, told, bound>>

\* dispatchWorkerSummary begins.
Dispatch(d) ==
  /\ note.wakes > 0 /\ carrier[d].pc = "none"
  /\ IF service.closed \/ ~service.loaded
     THEN note' = [note EXCEPT !.wakes = @ - 1] /\ UNCHANGED carrier
     ELSE /\ note' = [note EXCEPT !.wakes = @ - 1, !.holder = d]
          /\ carrier' = [carrier EXCEPT ![d] = [Away EXCEPT !.pc = "look"]]
  /\ UNCHANGED <<disk, service, lane, request, canceller, told, bound>>

\* replayDetachedSummaries: a snapshot of what is loaded, then the inventory.
Replay ==
  /\ ~service.closed /\ ~service.loaded /\ carrier["replay"].pc = "none"
  /\ carrier' = [carrier EXCEPT !["replay"] = [Away EXCEPT !.pc = "read"]]
  /\ UNCHANGED <<disk, service, note, lane, request, canceller, told, bound>>

Inventory ==
  LET c == carrier["replay"] IN
  /\ c.pc = "read"
  /\ carrier' = [carrier EXCEPT !["replay"] = [c EXCEPT !.pc = "each", !.todo = OpenSums]]
  /\ UNCHANGED <<disk, service, note, lane, request, canceller, told, bound>>

-----------------------------------------------------------------------------
(* A carrier                                                               *)

At(c, pc) == carrier[c].pc = pc /\ ~carrier[c].cancelled
Go(c, r)  == carrier' = [carrier EXCEPT ![c] = r]
Goto(c, pc) == Go(c, [carrier[c] EXCEPT !.pc = pc])
Quiet == UNCHANGED <<receipt, session, report, service, lane, canceller, bound>>

\* The deferred end of a dispatcher; the replay goes on to its next summary.
Leave(c) ==
  IF c = "replay"
  THEN Goto(c, "each") /\ UNCHANGED note
  ELSE /\ Go(c, Away)
       /\ note' = IF carrier[c].stale THEN note
                  ELSE [note EXCEPT !.scheduled = FALSE, !.holder = "none"]

\* The handoff of a summary, and the loss of the note of it.
Hand(s) == [told EXCEPT ![s] = CASE @ \in {"not", "lost"} -> "noted"
                                 [] @ \in {"silenced", "late"} -> "late"
                                 [] OTHER -> "twice"]
Lost(s, t) == [t EXCEPT ![s] = IF @ = "noted" THEN "lost" ELSE @]

Holding == {"reread", "recover", "valid", "sink", "settle", "unsettle"}

\* The context ended.
Abort(c) ==
  /\ carrier[c].pc # "none" /\ carrier[c].cancelled
  /\ Go(c, Away)
  /\ note' = IF c = "replay" \/ carrier[c].stale THEN note
             ELSE [note EXCEPT !.scheduled = FALSE, !.holder = "none"]
  /\ told' = IF carrier[c].pc = "settle" THEN Lost(carrier[c].id, told) ELSE told
  /\ UNCHANGED <<summary, request>> /\ Quiet

\* What is recorded already is handed over; else the results that are pending.
Look(d) ==
  LET R == {w \in Jobs : File!Pending(w)} IN
  /\ At(d, "look")
  /\ \/ /\ NextSummary # 0
        /\ Go(d, [carrier[d] EXCEPT !.pc = "lease", !.id = NextSummary]) /\ UNCHANGED note
     \/ /\ NextSummary = 0 /\ R # {}
        /\ Go(d, [carrier[d] EXCEPT !.pc = "intend", !.results = R]) /\ UNCHANGED note
     \/ (NextSummary = 0 /\ R = {}) /\ Leave(d)
  /\ UNCHANGED <<summary, request, told>> /\ Quiet

\* The intent is recorded before the request is submitted.
Fresh == {s \in Sums : summary[s].status = "absent"}
Intend(d) ==
  LET s == Min(Fresh)
      intent == [NoSummary EXCEPT !.status = "generating", !.results = carrier[d].results]
  IN
  /\ At(d, "intend") /\ Fresh # {}
  /\ \/ /\ Write(s, intent)
        /\ Go(d, [carrier[d] EXCEPT !.pc = "submit", !.id = s, !.results = {}])
        /\ UNCHANGED note
     \/ Failing(summary, Write(s, intent)) /\ Leave(d)
  /\ UNCHANGED <<request, told>> /\ Quiet

\* Submit: injected into a running turn, or queued.
Submit(d) ==
  /\ At(d, "submit")
  /\ IF service.closed THEN Leave(d) /\ UNCHANGED request
     ELSE /\ Goto(d, "wait") /\ UNCHANGED note
          /\ request' = [request EXCEPT ![carrier[d].id] =
                           IF lane.pc = "idle" THEN "queued" ELSE "injected"]
  /\ UNCHANGED <<summary, told>> /\ Quiet

\* Wait: nothing to say, or said by the turn that took it, needs no message.
Wait(d) ==
  LET r == request[carrier[d].id] IN
  /\ At(d, "wait") /\ r \in {"merged", "empty", "text", "error"}
  /\ IF r \in {"merged", "empty"}
     THEN (Settle(carrier[d].id, "accepted") \/ Failing(summary, Settle(carrier[d].id, "accepted")))
          /\ Leave(d)
     ELSE /\ UNCHANGED summary
          /\ IF NextSummary = 0 THEN Leave(d)
             ELSE Go(d, [carrier[d] EXCEPT !.pc = "lease", !.id = NextSummary]) /\ UNCHANGED note
  /\ request' = [request EXCEPT ![carrier[d].id] = "none"]
  /\ UNCHANGED told /\ Quiet

\* The replay takes the summaries of its inventory in turn.
Each(s) ==
  /\ At("replay", "each") /\ s \in carrier["replay"].todo
  /\ Go("replay", [carrier["replay"] EXCEPT !.pc = "lease", !.id = s, !.todo = @ \ {s}])
  /\ UNCHANGED <<summary, request, told, note>> /\ Quiet

Replayed ==
  /\ At("replay", "each") /\ carrier["replay"].todo = {}
  /\ Go("replay", Away)
  /\ UNCHANGED <<summary, request, told, note>> /\ Quiet

\* summaryDeliveryLease
Lease(c) ==
  /\ At(c, "lease")
  /\ \/ /\ \A k \in Carriers : carrier[k].pc \in Holding => carrier[k].id # carrier[c].id
        /\ Goto(c, "reread") /\ UNCHANGED note
     \/ c = "replay" /\ Leave(c)              \* not obtained in time
  /\ UNCHANGED <<summary, request, told>> /\ Quiet

\* Only the record read under the lease admits a handoff.
Admitted(s) == summary[s].status \in Open

Reread(c) ==
  LET s == carrier[c].id  r == summary[s] IN
  /\ At(c, "reread")
  /\ IF ~Admitted(s) THEN Leave(c)
     ELSE /\ Go(c, [carrier[c] EXCEPT !.pc = IF r.status = "generating" THEN "recover" ELSE "valid",
                                      !.results = IF r.status = "generating" THEN r.results ELSE {}])
          /\ UNCHANGED note
  /\ UNCHANGED <<summary, request, told>> /\ Quiet

\* recoverSummary: the report of the run if there is one, else the raw results.
Recover(c) ==
  LET s == carrier[c].id
      text == IF s \in report THEN "report" ELSE "raw"
      r == [status |-> "pending", text |-> text, results |-> carrier[c].results]
  IN
  /\ At(c, "recover")
  /\ \/ /\ Write(s, r) /\ UNCHANGED note
        /\ Go(c, [carrier[c] EXCEPT !.pc = "valid", !.results = {}])
     \/ Failing(summary, Write(s, r)) /\ Leave(c)
  /\ UNCHANGED <<request, told>> /\ Quiet

\* The last look at the service before the handoff; the replay has none.
Valid(c) ==
  /\ At(c, "valid")
  /\ IF c # "replay" /\ (carrier[c].stale \/ service.closed) THEN Leave(c)
     ELSE Goto(c, "sink") /\ UNCHANGED note
  /\ UNCHANGED <<summary, request, told>> /\ Quiet

\* The sink, PostDurable of the hub: taken, or refused; an error may hide that
\* it was taken.
Sink(c) ==
  LET s == carrier[c].id IN
  /\ At(c, "sink")
  /\ \/ told' = Hand(s) /\ Goto(c, "settle")
     \/ told' = told /\ Goto(c, "unsettle")
     \/ Faulty /\ told' = Lost(s, Hand(s)) /\ Goto(c, "unsettle")
  /\ UNCHANGED <<summary, request, note>> /\ Quiet

Settled(c) ==
  LET s == carrier[c].id IN
  /\ \/ /\ At(c, "settle")
        /\ \/ Settle(s, "accepted") /\ UNCHANGED told
           \/ Faulty /\ UNCHANGED summary /\ told' = Lost(s, told)
     \/ /\ At(c, "unsettle")
        /\ IF c = "replay" THEN UNCHANGED summary
           ELSE Settle(s, "pending") \/ (Faulty /\ UNCHANGED summary)
        /\ UNCHANGED told
  /\ Leave(c)
  /\ UNCHANGED request /\ Quiet

Carry(c) ==
  \/ Abort(c) \/ Lease(c) \/ Reread(c) \/ Recover(c) \/ Valid(c) \/ Sink(c) \/ Settled(c)
  \/ c # "replay" /\ (Dispatch(c) \/ Look(c) \/ Intend(c) \/ Submit(c) \/ Wait(c))
  \/ c = "replay" /\ (Inventory \/ Replayed \/ \E s \in Sums : Each(s))

-----------------------------------------------------------------------------
(* The lane: one turn at a time, of the user (id 0) or of a summary        *)

Turn(pc) == lane.pc = pc
Stay == UNCHANGED <<summary, report, service, note, carrier, canceller, told, bound>>
TurnTo(pc) == lane' = [lane EXCEPT !.pc = pc]

\* The turn ends; requests it took share its result, those it left are queued.
Resolve(result) ==
  /\ lane' = Idle
  /\ request' = [s \in Sums |->
       CASE s = lane.id -> result
         [] s \in lane.merged -> IF result = "error" THEN "error" ELSE "merged"
         [] request[s] = "injected" -> "queued"
         [] OTHER -> request[s]]

StartUser ==
  /\ Turn("idle") /\ canceller.pc # "join" /\ ~(service.closed /\ canceller.pc = "none")
  /\ lane' = [Idle EXCEPT !.pc = IF service.loaded THEN "begin" ELSE "load"]
  /\ UNCHANGED <<receipt, session, request>> /\ Stay

\* Service.run makes the Agent: its manager interrupts what lost its owner.
Load ==
  /\ Turn("load")
  /\ File!Interrupt
  /\ session' = [session EXCEPT !.mem = session.disk]
  /\ service' = [service EXCEPT !.loaded = TRUE]
  /\ TurnTo("begin")
  /\ note' = IF service.closed \/ note.scheduled THEN note
             ELSE [note EXCEPT !.scheduled = TRUE, !.wakes = @ + 1]
  /\ UNCHANGED <<summary, report, carrier, request, canceller, told, bound>>

StartSummary(s) ==
  /\ Turn("idle") /\ request[s] = "queued"
  /\ lane' = [Idle EXCEPT !.pc = "first", !.id = s]
  /\ request' = [request EXCEPT ![s] = "running"]
  /\ UNCHANGED <<receipt, session>> /\ Stay

\* saveSession at the start of a run.
BeginTurn ==
  /\ Turn("begin")
  /\ session' = [session EXCEPT !.disk = session.mem] /\ TurnTo("ready")
  /\ UNCHANGED <<receipt, request>> /\ Stay

\* ingestWorkerResults: a result that is in the session already is not added.
\* (Seeded fault: it is.)
Added_Always(R) == R
Added(R) == {w \in R : session.mem[w] = 0}

Ingest ==
  LET R == {w \in Jobs : File!Pending(w)} IN
  /\ lane.pc \in {"first", "ready"} /\ R # {}
  /\ session' = [session EXCEPT !.mem =
                    [w \in Jobs |-> IF w \in Added(R) THEN @[w] + 1 ELSE @[w]]]
  /\ lane' = [lane EXCEPT !.pc = IF Turn("first") THEN "first save" ELSE "save",
                          !.todo = R, !.added = Added(R) # {}]
  /\ UNCHANGED <<receipt, request>> /\ Stay

\* The session is saved before anything is acknowledged.
Save ==
  /\ lane.pc \in {"first save", "save"}
  /\ session' = [session EXCEPT !.disk = session.mem]
  /\ TurnTo(IF Turn("save") THEN "ack" ELSE "first ack")
  /\ UNCHANGED <<receipt, request>> /\ Stay

Acknowledge(w) ==
  /\ lane.pc \in {"first ack", "ack"} /\ w \in lane.todo
  /\ File!Acknowledge(w)
  /\ lane' = [lane EXCEPT !.todo = @ \ {w}]
  /\ UNCHANGED <<session, request>> /\ Stay

Ingested ==
  /\ lane.todo = {}
  /\ \/ /\ Turn("ack") \/ (Turn("first ack") /\ lane.added)
        /\ lane' = [lane EXCEPT !.pc = IF Turn("ack") THEN "ready" ELSE "begin", !.added = FALSE]
        /\ UNCHANGED request
     \/ Turn("first ack") /\ ~lane.added /\ Resolve("empty")
     \/ Turn("first") /\ (\A w \in Jobs : ~File!Pending(w)) /\ Resolve("empty")
  /\ UNCHANGED <<receipt, session>> /\ Stay

\* drainInbox at a safe point.
Drain(s) ==
  /\ Turn("ready") /\ request[s] = "injected" /\ s \notin lane.merged
  /\ lane' = [lane EXCEPT !.merged = @ \cup {s}]
  /\ UNCHANGED <<receipt, session, request>> /\ Stay

\* A turn of the user starts workers; that of a summary has no tools.
StartJob(w) ==
  /\ Turn("ready") /\ lane.id = 0 /\ File!PersistQueued(w)
  /\ UNCHANGED <<session, lane, request>> /\ Stay

EndTurn ==
  /\ Turn("ready") /\ lane.id = 0 /\ Resolve("text")
  /\ UNCHANGED <<receipt, session>> /\ Stay

\* The summary is done: report.json, then the text goes to its intent, which is
\* read before it is written.
Complete ==
  /\ Turn("ready") /\ lane.id # 0
  /\ report' = report \cup {lane.id} /\ TurnTo("text")
  /\ UNCHANGED <<receipt, session, summary, service, note, carrier, request, canceller,
                 told, bound>>

Intended ==
  /\ Turn("text")
  /\ IF NextSummary = lane.id THEN TurnTo("store") /\ UNCHANGED request ELSE Resolve("error")
  /\ UNCHANGED <<receipt, session>> /\ Stay

Store ==
  LET s == lane.id
      r == [summary[s] EXCEPT !.status = "pending", !.text = "report"]
  IN
  /\ Turn("store")
  /\ \/ Write(s, r) /\ Resolve("text")
     \/ Failing(summary, Write(s, r)) /\ Resolve("error")
  /\ UNCHANGED <<receipt, session, report, service, note, carrier, canceller, told, bound>>

\* Any step may fail, or find the context ended; a save may fail late.
TurnFails ==
  /\ lane.pc # "idle" /\ (Faulty \/ lane.cancelled)
  /\ \/ UNCHANGED session
     \/ lane.pc \in {"begin", "first save", "save"} /\ session' = [session EXCEPT !.disk = session.mem]
  /\ Resolve("error")
  /\ UNCHANGED receipt /\ Stay

\* A worker ends: with a result, or stopped.
EndJob(w) ==
  /\ service.loaded
  /\ \E status \in {"completed", "stopped"} : File!EndsOnce(w, status)
  /\ UNCHANGED <<session, lane, request>> /\ Stay

LaneStep ==
  \/ Load \/ BeginTurn \/ Ingest \/ Save \/ Ingested \/ Complete \/ Intended \/ Store \/ EndTurn
  \/ TurnFails
  \/ \E s \in Sums : StartSummary(s) \/ Drain(s)
  \/ \E w \in Jobs : Acknowledge(w)

-----------------------------------------------------------------------------
(* CancelConversation, Close, and the end of the process                   *)

\* The contexts of C end, and with them those of the requests they submitted.
Cut(C) ==
  /\ carrier' = [c \in Carriers |->
       [carrier[c] EXCEPT !.stale = @ \/ (c # "replay" /\ carrier[c].pc # "none"),
                          !.cancelled = @ \/ (c \in C /\ carrier[c].pc # "none")]]
  /\ lane' = [lane EXCEPT !.cancelled = @ \/ \E c \in C : carrier[c].pc = "wait"
                                                         /\ carrier[c].id = lane.id]

Begun(kind) == [pc |-> IF service.loaded THEN "receipts" ELSE "lane", kind |-> kind]

\* cancelWorkerNotification; stopWorkerNotifications cancels them all.
Cancel ==
  /\ canceller.pc = "none" /\ ~service.closed /\ bound.cancels < Cancels
  /\ bound' = [bound EXCEPT !.cancels = @ + 1]
  /\ Cut({note.holder} \ {"none"})
  /\ note' = [note EXCEPT !.scheduled = FALSE, !.holder = "none"]
  /\ canceller' = Begun("cancel")
  /\ UNCHANGED <<disk, service, request, told>>

Stop ==
  /\ canceller.pc = "none" /\ ~service.closed /\ bound.crashes < Crashes
  /\ bound' = [bound EXCEPT !.crashes = @ + 1]
  /\ service' = [service EXCEPT !.closed = TRUE]
  /\ Cut(Carriers)
  /\ canceller' = Begun("close")
  /\ UNCHANGED <<disk, note, request, told>>

RevokeResults ==
  /\ canceller.pc = "receipts"
  /\ File!RevokeNotifications \/ (Faulty /\ UNCHANGED receipt)
  /\ canceller' = [canceller EXCEPT !.pc = "summaries"]
  /\ UNCHANGED <<session, summary, report, service, note, carrier, lane, request, told, bound>>

RevokeStored ==
  LET inFlight == {carrier[c].id : c \in {k \in Carriers :
                     carrier[k].pc \in {"recover", "valid", "sink"}}} IN
  /\ canceller.pc = "summaries"
  /\ \/ /\ RevokeSummaries
        /\ told' = [s \in Sums |->
             IF s \in OpenSums \ inFlight /\ told[s] = "not" THEN "silenced" ELSE told[s]]
     \/ Faulty /\ UNCHANGED <<summary, told>>
  /\ canceller' = [canceller EXCEPT !.pc = "lane"]
  /\ UNCHANGED <<receipt, session, report, service, note, carrier, lane, request, bound>>

\* Scheduler.CancelConversation or Seal; Close seals the workers as well.
CancelLane ==
  /\ canceller.pc = "lane"
  /\ lane' = [lane EXCEPT !.cancelled = lane.pc # "idle"]
  /\ request' = [s \in Sums |-> IF request[s] \in {"queued", "injected"} /\ s \notin lane.merged
                                THEN "error" ELSE request[s]]
  /\ \/ canceller.kind = "cancel" /\ UNCHANGED receipt
     \/ canceller.kind = "close" /\ service.loaded /\ File!RevokeNotifications
     \/ canceller.kind = "close" /\ (Faulty \/ ~service.loaded) /\ UNCHANGED receipt
  /\ canceller' = IF canceller.kind = "close" THEN [canceller EXCEPT !.pc = "join"]
                  ELSE [canceller EXCEPT !.pc = "none"]
  /\ UNCHANGED <<session, summary, report, service, note, carrier, told, bound>>

Exit ==
  /\ session' = [session EXCEPT !.mem = [w \in Jobs |-> 0]]
  /\ service' = [loaded |-> FALSE, closed |-> FALSE]
  /\ note' = [scheduled |-> FALSE, holder |-> "none", wakes |-> 0]
  /\ carrier' = [c \in Carriers |-> Away]
  /\ lane' = Idle
  /\ request' = [s \in Sums |-> "none"]
  /\ UNCHANGED <<receipt, summary, report>>

\* Close waits for the loop, the dispatchers and the lane; another process starts.
Join ==
  /\ canceller.pc = "join" /\ lane.pc = "idle" /\ \A c \in Carriers : carrier[c].pc = "none"
  /\ canceller' = [canceller EXCEPT !.pc = "none"]
  /\ Exit /\ UNCHANGED <<told, bound>>

ResultsCrash ==
  /\ bound.crashes < Crashes
  /\ bound' = [bound EXCEPT !.crashes = @ + 1]
  /\ told' = [s \in Sums |->
                 IF told[s] = "noted" /\ summary[s].status \in Open THEN "lost" ELSE told[s]]
  /\ canceller' = [pc |-> "none", kind |-> "none"]
  /\ Exit

-----------------------------------------------------------------------------
ResultsNext ==
  \/ Tick \/ Replay \/ \E c \in Carriers : Carry(c)
  \/ StartUser \/ LaneStep \/ \E w \in Jobs : StartJob(w) \/ EndJob(w)
  \/ Cancel \/ Stop \/ RevokeResults \/ RevokeStored \/ CancelLane \/ Join \/ ResultsCrash

ResultsSpec == ResultsInit /\ [][ResultsNext]_resultsVars

-----------------------------------------------------------------------------
(* Properties                                                              *)

ResultsTypeOK ==
  /\ receipt \in File!Records
  /\ session \in [{"disk", "mem"} -> [Jobs -> 0 .. 1]]
  /\ summary \in [Sums -> [status : {"absent"} \cup Open \cup Over,
                           text : {"none", "raw", "report"}, results : SUBSET Jobs]]

\* docs/REQUEST_FLOW.md:98, "save the session, then acknowledge": a result that is
\* acknowledged is in the saved session, and none is there twice, across failed
\* saves, lost acknowledgements and crashes.
InSessionOnce ==
  \A w \in Jobs :
    /\ receipt[w].acked => session.disk[w] = 1
    /\ session.disk[w] \in {0, 1}

\* service_workers.go:153: of any number of dispatchers, and the replay, one hands
\* a summary over; it is handed over again only when the note of it was lost.
HandedOnce == \A s \in Sums : told[s] # "twice"

\* docs/REQUEST_FLOW.md:102, cancelling revokes the notifications that were not
\* handed over: what a cancellation or Close of a loaded conversation revoked is
\* not handed over by any dispatcher, replay or later process, however their
\* writes met, unless its handoff had passed the last look before it.
Silenced == \A s \in Sums : told[s] # "late"

\* A summary is handed over at most once, and not after it was revoked.
HandedRight == HandedOnce /\ Silenced
=============================================================================
