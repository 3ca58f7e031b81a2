--------------------------- MODULE SchedulerProofs ---------------------------
\* That a conversation is a serial lane whatever is submitted, cancelled, paused
\* or sealed between two steps of its worker, for any number of conversations,
\* jobs, workers and slots.  Then what outlives the turns, Sessions: that the
\* session, the reports and the memory agree on the turns that were answered.
EXTENDS Scheduler, Sessions, FiniteSetTheorems, SequenceTheorems, TLAPS

-----------------------------------------------------------------------------
(* The inductive invariant                                                 *)

Accepted == 1 .. count

\* Among the plain requests of a queue, the order of acceptance.
Ordered(q) ==
  \A k, m \in DOMAIN q : k < m /\ Plain(q[k]) /\ Plain(q[m]) => q[k] < q[m]

\* What a lane holds was accepted, in order; only a turn has an inbox, and no
\* plain request gets into one.
LaneOK(l) ==
  /\ ~l.live => l = EmptyLane
  /\ l.active # None => l.running /\ l.active \in Accepted
  /\ l.inbox # <<>> => l.active # None
  /\ \A k \in DOMAIN l.queue : l.queue[k] \in Accepted
  /\ \A k \in DOMAIN l.inbox : l.inbox[k] \in Accepted /\ ~Plain(l.inbox[k])
  /\ Ordered(l.queue)

\* What a worker says of the lane it serves, and the lane of the worker.
Agree(r, l) ==
  /\ l.running
  /\ r.pc = "loop" => l.active = None
  /\ r.pc # "loop" => l.active = r.job /\ r.job \in Jobs
  /\ r.slot => r.pc \in {"begin", "run", "release"}

WorkerOK(r) ==
  IF r.pc = "idle" THEN r = Idle ELSE r.conv \in Convs /\ Agree(r, lanes[r.conv])

Serves(w, c) == worker[w].pc # "idle" /\ worker[w].conv = c

Lanes == \A c \in Convs : LaneOK(lanes[c]) /\ (lanes[c].running => \E w \in Workers : Serves(w, c))
Served == \A w \in Workers : WorkerOK(worker[w])
Alone  == \A w, v \in Workers : v # w /\ worker[w].pc # "idle" => worker[v].conv # worker[w].conv
Known  == \A j \in Accepted : req[j] \in Requests

IInv == TypeOK /\ Known /\ Lanes /\ Served /\ Alone /\ PoolsExact

-----------------------------------------------------------------------------
(* Types                                                                   *)

LEMMA Constants ==
  /\ None \notin Jobs /\ None \notin Sources /\ None \notin Convs /\ None \notin Request
  /\ MaxJobs \in Nat /\ MaxWorkers \in Nat /\ Requests \subseteq Request
  /\ \A p \in Pools : Slots[p] \in Nat /\ Slots[p] > 0
BY SchedulerConstants

LEMMA EmptyTypes == EmptyLane \in Lane /\ Idle \in Worker
<1>1. <<>> \in Seq(Jobs)
  BY EmptySeq
<1> QED BY <1>1 DEF EmptyLane, Lane, Idle, Worker, Places

LEMMA LaneFields ==
  ASSUME NEW l \in Lane
  PROVE  /\ l.queue \in Seq(Jobs) /\ l.inbox \in Seq(Jobs) /\ l.active \in Jobs \cup {None}
         /\ l.live \in BOOLEAN /\ l.running \in BOOLEAN /\ l.paused \in BOOLEAN
         /\ l.source \in Sources \cup {None}
BY DEF Lane

\* What each change of a lane does to its fields.
LEMMA LaneUpdates ==
  ASSUME NEW l \in Lane
  PROVE  /\ \A q \in Seq(Jobs) : [l EXCEPT !.queue = q] \in Lane
         /\ \A q \in Seq(Jobs) : [l EXCEPT !.inbox = q] \in Lane
         /\ [l EXCEPT !.running = TRUE] \in Lane /\ [l EXCEPT !.running = FALSE] \in Lane
         /\ \A q \in Seq(Jobs), a \in Jobs : [l EXCEPT !.queue = q, !.active = a] \in Lane
         /\ \A q, i \in Seq(Jobs) : [l EXCEPT !.queue = q, !.inbox = i] \in Lane
         /\ \A q, i \in Seq(Jobs) : [l EXCEPT !.queue = q, !.inbox = i, !.active = None] \in Lane
         /\ \A b \in BOOLEAN : [l EXCEPT !.paused = b] \in Lane
BY DEF Lane

LEMMA SequenceTypes ==
  ASSUME NEW q \in Seq(Jobs)
  PROVE  /\ <<>> \in Seq(Jobs)
         /\ \A j \in Jobs : Append(q, j) \in Seq(Jobs) /\ <<j>> \o q \in Seq(Jobs)
         /\ \A i \in Seq(Jobs) : q \o i \in Seq(Jobs)
         /\ q # <<>> => Head(q) \in Jobs /\ Tail(q) \in Seq(Jobs)
<1>1. \A j \in Jobs : <<j>> \in Seq(Jobs)
  OBVIOUS
<1> QED BY <1>1, EmptySeq, AppendProperties, ConcatProperties, HeadTailProperties

LEMMA EnqueueType ==
  ASSUME NEW l \in Lane, NEW j \in Jobs, NEW r \in Request
  PROVE  Enqueue(l, j, r) \in Lane
BY LaneFields, LaneUpdates, SequenceTypes DEF Enqueue

LEMMA RequeuedType ==
  ASSUME NEW l \in Lane
  PROVE  Requeued(l) \in Lane
BY LaneFields, LaneUpdates, SequenceTypes DEF Requeued

-----------------------------------------------------------------------------
(* A lane and its worker                                                   *)

\* One step of the worker w, which leaves it as r and its lane as l.
LEMMA WorkerMoves ==
  ASSUME TypeOK, Known, Lanes, Served, Alone, UNCHANGED <<count, req>>,
         NEW w \in Workers, worker[w].pc # "idle",
         NEW r \in Worker, worker' = [worker EXCEPT ![w] = r],
         NEW l \in Lane, lanes' = [lanes EXCEPT ![worker[w].conv] = l],
         LaneOK(l),
         IF r.pc = "idle" THEN r = Idle /\ ~l.running
         ELSE r.conv = worker[w].conv /\ Agree(r, l)
  PROVE  /\ (Known /\ Lanes /\ Served /\ Alone)'
         /\ worker' \in [Workers -> Worker] /\ lanes' \in [Convs -> Lane]
<1> DEFINE c == worker[w].conv
<1>0. c \in Convs /\ \A v \in Workers : WorkerOK(worker[v])
  BY DEF Served, WorkerOK
<1>1. /\ worker' \in [Workers -> Worker] /\ lanes' \in [Convs -> Lane]
      /\ worker'[w] = r /\ \A v \in Workers \ {w} : worker'[v] = worker[v]
      /\ lanes'[c] = l /\ \A d \in Convs \ {c} : lanes'[d] = lanes[d]
  BY <1>0 DEF TypeOK
<1> HIDE DEF c
<1>2. Known'
  BY DEF Known, Accepted
<1>3. ASSUME NEW k, LaneOK(k) PROVE LaneOK(k)'
  BY <1>3 DEF LaneOK, Accepted, Ordered, Plain
<1>4. Alone'
  <2> SUFFICES ASSUME NEW u \in Workers, NEW v \in Workers, v # u, worker'[u].pc # "idle"
               PROVE  worker'[v].conv # worker'[u].conv
    BY DEF Alone
  <2>1. worker[u].pc # "idle" /\ worker'[u].conv = worker[u].conv /\ worker[u].conv \in Convs
    BY <1>0, <1>1 DEF c, WorkerOK
  <2>2. worker'[v].conv \in {worker[v].conv, None}
    BY <1>0, <1>1 DEF Idle
  <2>3. None \notin Convs
    BY Constants
  <2> QED BY <2>1, <2>2, <2>3 DEF Alone
<1>5. Served'
  <2> SUFFICES ASSUME NEW v \in Workers PROVE WorkerOK(worker[v])'
    BY DEF Served
  <2>1. CASE v = w
    BY <1>0, <1>1, <2>1 DEF WorkerOK, Agree, c
  <2>2. CASE v # w
    <3>1. worker[v].conv # c
      BY <2>2 DEF Alone, c
    <3> QED BY <1>0, <1>1, <2>2, <3>1 DEF WorkerOK, Agree
  <2> QED BY <2>1, <2>2
<1>6. Lanes'
  <2> SUFFICES ASSUME NEW d \in Convs
               PROVE  /\ LaneOK(lanes[d])'
                      /\ lanes'[d].running => \E v \in Workers : Serves(v, d)'
    BY DEF Lanes
  <2>1. CASE d = c
    BY <1>0, <1>1, <1>3, <2>1 DEF c, Serves
  <2>2. CASE d # c
    <3>1. lanes'[d] = lanes[d] /\ LaneOK(lanes[d])
      BY <1>1, <2>2 DEF Lanes
    <3>2. ASSUME NEW v \in Workers, Serves(v, d) PROVE Serves(v, d)'
      BY <1>1, <2>2, <3>2 DEF Serves, c
    <3> QED BY <1>3, <3>1, <3>2 DEF Lanes
  <2> QED BY <2>1, <2>2
<1> QED BY <1>1, <1>2, <1>4, <1>5, <1>6

\* What a worker at work knows.
LEMMA AtWork ==
  ASSUME TypeOK, Lanes, Served, NEW w \in Workers, worker[w].pc # "idle"
  PROVE  /\ worker[w] \in Worker /\ worker[w].conv \in Convs
         /\ lanes[worker[w].conv] \in Lane /\ LaneOK(lanes[worker[w].conv])
         /\ Agree(worker[w], lanes[worker[w].conv])
BY DEF TypeOK, Lanes, Served, WorkerOK


\* Taking the head of a queue, and appending to it what is no plain request.
LEMMA OrderedTail ==
  ASSUME NEW q \in Seq(Jobs), q # <<>>, Ordered(q)
  PROVE  /\ Ordered(Tail(q)) /\ Head(q) = q[1] /\ 1 \in DOMAIN q
         /\ \A k \in DOMAIN Tail(q) : k + 1 \in DOMAIN q /\ Tail(q)[k] = q[k + 1]
<1>1. /\ Len(q) \in Nat /\ DOMAIN q = 1 .. Len(q) /\ Len(q) > 0 /\ Head(q) = q[1]
      /\ Len(Tail(q)) = Len(q) - 1 /\ DOMAIN Tail(q) = 1 .. Len(q) - 1
      /\ \A k \in 1 .. Len(q) - 1 : Tail(q)[k] = q[k + 1]
  BY HeadTailProperties, EmptySeq, LenProperties
<1> QED BY <1>1 DEF Ordered

\* s is q with b behind it.
Joined(q, b, s) ==
  /\ Len(q) \in Nat /\ Len(b) \in Nat /\ Len(s) = Len(q) + Len(b)
  /\ DOMAIN q = 1 .. Len(q) /\ DOMAIN b = 1 .. Len(b)
  /\ \A k \in DOMAIN q : k \in DOMAIN s /\ s[k] = q[k]
  /\ \A k \in DOMAIN b : Len(q) + k \in DOMAIN s /\ s[Len(q) + k] = b[k]
  /\ \A k \in DOMAIN s : /\ k \in Nat
                        /\ \/ k \in DOMAIN q /\ s[k] = q[k]
                           \/ k - Len(q) \in DOMAIN b /\ s[k] = b[k - Len(q)]

LEMMA ConcatPlaces ==
  ASSUME NEW q \in Seq(Jobs), NEW b \in Seq(Jobs)
  PROVE  Joined(q, b, q \o b)
<1>1. /\ Len(q) \in Nat /\ DOMAIN q = 1 .. Len(q) /\ Len(b) \in Nat /\ DOMAIN b = 1 .. Len(b)
      /\ DOMAIN (q \o b) = 1 .. Len(q) + Len(b) /\ Len(q \o b) = Len(q) + Len(b)
      /\ \A k \in 1 .. Len(q) + Len(b) : (q \o b)[k] = IF k <= Len(q) THEN q[k] ELSE b[k - Len(q)]
  BY ConcatProperties, LenProperties
<1>2. \A k \in DOMAIN q : k \in DOMAIN (q \o b) /\ (q \o b)[k] = q[k]
  BY <1>1
<1>3. ASSUME NEW k \in DOMAIN b
      PROVE  Len(q) + k \in DOMAIN (q \o b) /\ (q \o b)[Len(q) + k] = b[k]
  <2>1. /\ Len(q) + k \in 1 .. Len(q) + Len(b) /\ ~(Len(q) + k <= Len(q))
        /\ Len(q) + k - Len(q) = k
    BY <1>1
  <2> QED BY <1>1, <2>1
<1>4. \A k \in DOMAIN (q \o b) : /\ k \in Nat
                                 /\ \/ k \in DOMAIN q /\ (q \o b)[k] = q[k]
                                    \/ k - Len(q) \in DOMAIN b /\ (q \o b)[k] = b[k - Len(q)]
  BY <1>1
<1> QED BY <1>1, <1>2, <1>3, <1>4 DEF Joined

LEMMA OrderedConcat ==
  ASSUME NEW q \in Seq(Jobs), NEW i \in Seq(Jobs), Ordered(q), \A k \in DOMAIN i : ~Plain(i[k])
  PROVE  /\ Ordered(q \o i)
         /\ \A k \in DOMAIN (q \o i) : \/ k \in DOMAIN q /\ (q \o i)[k] = q[k]
                                       \/ k - Len(q) \in DOMAIN i /\ (q \o i)[k] = i[k - Len(q)]
<1>1. /\ Len(q) \in Nat /\ DOMAIN q = 1 .. Len(q) /\ Len(i) \in Nat /\ DOMAIN i = 1 .. Len(i)
      /\ DOMAIN (q \o i) = 1 .. Len(q) + Len(i)
      /\ \A k \in 1 .. Len(q) + Len(i) : (q \o i)[k] = IF k <= Len(q) THEN q[k] ELSE i[k - Len(q)]
  BY ConcatProperties, LenProperties
<1>2. \A k \in DOMAIN (q \o i) : \/ k \in DOMAIN q /\ (q \o i)[k] = q[k]
                                 \/ k - Len(q) \in DOMAIN i /\ (q \o i)[k] = i[k - Len(q)]
  BY <1>1
<1>3. ASSUME NEW k \in DOMAIN (q \o i), Plain((q \o i)[k])
      PROVE  k \in DOMAIN q /\ (q \o i)[k] = q[k]
  BY <1>2, <1>3
<1> QED BY <1>2, <1>3 DEF Ordered

\* A step of the goroutine that leaves its lane alone and keeps its turn.
LEMMA WorkerGoesOn ==
  ASSUME TypeOK, Known, Lanes, Served, Alone, UNCHANGED <<count, req, lanes>>,
         NEW w \in Workers, worker[w].pc \notin {"idle", "loop"},
         NEW r \in Worker, worker' = [worker EXCEPT ![w] = r],
         r.pc \notin {"idle", "loop"}, r.conv = worker[w].conv, r.job = worker[w].job,
         r.slot => r.pc \in {"begin", "run", "release"}
  PROVE  /\ (Known /\ Lanes /\ Served /\ Alone)'
         /\ worker' \in [Workers -> Worker] /\ lanes' \in [Convs -> Lane]
<1> DEFINE l == lanes[worker[w].conv]
<1>1. l \in Lane /\ LaneOK(l) /\ Agree(worker[w], l)
  BY AtWork
<1>2. lanes' = [lanes EXCEPT ![worker[w].conv] = l]
  BY DEF TypeOK
<1> HIDE DEF l
<1>3. Agree(r, l)
  BY <1>1 DEF Agree
<1> QED BY <1>1, <1>2, <1>3, WorkerMoves

\* A worker that moves is not idle, and no request is accepted meanwhile.
LEMMA Stirs ==
  ASSUME NEW w \in Workers, Step(w) \/ Drain(w)
  PROVE  worker[w].pc # "idle" /\ UNCHANGED <<count, req>>
<1>1. CASE Exit(w)
  BY <1>1 DEF Exit
<1>2. CASE Take(w)
  BY <1>2 DEF Take
<1>3. CASE Acquire(w) \/ GiveUp(w) \/ Begin(w)
  BY <1>3 DEF Acquire, GiveUp, Begin
<1>4. CASE \E outcome \in {"ok", "error", "pause", "cancelled"} : Return(w, outcome)
  BY <1>4 DEF Return
<1>5. CASE Release(w)
  BY <1>5 DEF Release
<1>6. CASE Settle(w)
  BY <1>6 DEF Settle
<1>7. CASE Drain(w)
  BY <1>7 DEF Drain
<1> QED BY <1>1, <1>2, <1>3, <1>4, <1>5, <1>6, <1>7 DEF Step

\* Requests change when one is accepted, and never otherwise.
LEMMA RequestsChange ==
  ASSUME [Next]_vars
  PROVE  UNCHANGED req \/ \E r \in Requests : Submit(r)
<1>1. CASE \E w \in Workers : Step(w) \/ Drain(w)
  BY <1>1, Stirs
<1>2. CASE \E j \in Jobs : Cancel(j)
  BY <1>2 DEF Cancel
<1>3. CASE \E c \in Convs : CancelConversation(c)
  BY <1>3 DEF CancelConversation
<1>4. CASE Seal \/ Join
  BY <1>4 DEF Seal, Join
<1>5. CASE UNCHANGED vars
  BY <1>5 DEF vars
<1> QED BY <1>1, <1>2, <1>3, <1>4, <1>5 DEF Next

LEMMA SubmitNumbers ==
  ASSUME NEW r \in Requests, Submit(r), TypeOK
  PROVE  /\ count \in Nat /\ count + 1 \in Jobs
         /\ count' = count + 1 /\ req' = [req EXCEPT ![count + 1] = r]
<1>1. count < MaxJobs /\ count' = count + 1 /\ req' = [req EXCEPT ![count + 1] = r]
  BY Zenon DEF Submit
<1>2. count \in Nat /\ MaxJobs \in Nat
  BY Constants DEF TypeOK
<1> QED BY <1>1, <1>2 DEF Jobs

LEMMA WorkerSteps ==
  ASSUME IInv, NEW w \in Workers, Step(w) \/ Drain(w)
  PROVE  /\ (Known /\ Lanes /\ Served /\ Alone)'
         /\ worker' \in [Workers -> Worker] /\ lanes' \in [Convs -> Lane]
<1> DEFINE c == worker[w].conv
           j == worker[w].job
<1>0. TypeOK /\ Known /\ Lanes /\ Served /\ Alone
  BY DEF IInv
<1>1. worker[w].pc # "idle" /\ UNCHANGED <<count, req>>
  BY Stirs
<1>2. /\ worker[w] \in Worker /\ c \in Convs /\ lanes[c] \in Lane /\ LaneOK(lanes[c])
      /\ Agree(worker[w], lanes[c]) /\ lanes[c].queue \in Seq(Jobs) /\ lanes[c].inbox \in Seq(Jobs)
  BY <1>0, <1>1, AtWork, LaneFields
<1>3. CASE Exit(w)
  <2> DEFINE r == Idle
             l == IF lanes[c].paused THEN [lanes[c] EXCEPT !.running = FALSE] ELSE EmptyLane
  <2>1. r \in Worker /\ r.pc = "idle" /\ worker' = [worker EXCEPT ![w] = r]
    BY <1>3, EmptyTypes DEF Exit, Idle
  <2>2. l \in Lane /\ lanes' = [lanes EXCEPT ![c] = l]
    BY <1>2, <1>3, LaneUpdates, EmptyTypes DEF Exit
  <2>3. ~l.running /\ LaneOK(l)
    <3>1. worker[w].pc = "loop" /\ lanes[c].active = None /\ lanes[c].live
      BY <1>2, <1>3 DEF Exit, Agree, LaneOK, EmptyLane
    <3>2. CASE lanes[c].paused
      <4>1. /\ l.live /\ l.active = None /\ l.inbox = lanes[c].inbox /\ l.queue = lanes[c].queue
            /\ ~l.running
        BY <1>2, <3>1, <3>2 DEF Lane
      <4> QED BY <1>2, <3>1, <4>1 DEF LaneOK
    <3>3. CASE ~lanes[c].paused
      BY <3>3 DEF LaneOK, EmptyLane, Ordered
    <3> QED BY <3>2, <3>3
  <2> HIDE DEF r, l
  <2> QED BY <1>0, <1>1, <2>1, <2>2, <2>3, WorkerMoves DEF r, c
<1>4. CASE Take(w)
  <2> DEFINE q == lanes[c].queue
             r == [worker[w] EXCEPT !.pc = "slot", !.job = Head(q)]
             l == [lanes[c] EXCEPT !.queue = Tail(q), !.active = Head(q)]
  <2>0. /\ worker[w].pc = "loop" /\ q # <<>> /\ Head(q) \in Jobs /\ Tail(q) \in Seq(Jobs)
        /\ Head(q) \in Accepted /\ Ordered(q)
    BY <1>2, <1>4, SequenceTypes, OrderedTail DEF Take, Ready, LaneOK
  <2>1. worker' = [worker EXCEPT ![w] = r] /\ lanes' = [lanes EXCEPT ![c] = l]
    BY <1>4 DEF Take
  <2>2. /\ r \in Worker /\ r.pc = "slot" /\ r.job = Head(q) /\ r.conv = c /\ r.slot = worker[w].slot
        /\ l \in Lane /\ l.active = Head(q) /\ l.queue = Tail(q) /\ l.inbox = lanes[c].inbox
        /\ l.running = lanes[c].running /\ l.live = lanes[c].live
    BY <1>2, <2>0 DEF Worker, Places, Lane
  <2>3. LaneOK(l)
    BY <1>2, <2>0, <2>2, OrderedTail, EmptyTypes DEF LaneOK, Agree, EmptyLane
  <2>4. Agree(r, l)
    BY <1>2, <2>0, <2>2 DEF Agree
  <2> HIDE DEF r, l
  <2> QED BY <1>0, <1>1, <2>1, <2>2, <2>3, <2>4, WorkerMoves DEF c
<1>5. ASSUME NEW r \in Worker, worker' = [worker EXCEPT ![w] = r], UNCHANGED lanes,
             worker[w].pc \notin {"idle", "loop"}, r.pc \notin {"idle", "loop"},
             r.conv = c, r.job = j, r.slot => r.pc \in {"begin", "run", "release"}
      PROVE  /\ (Known /\ Lanes /\ Served /\ Alone)'
             /\ worker' \in [Workers -> Worker] /\ lanes' \in [Convs -> Lane]
  BY <1>0, <1>1, <1>5, WorkerGoesOn
<1>6. CASE Acquire(w)
  <2> DEFINE r == [worker[w] EXCEPT !.pc = "begin", !.slot = TRUE]
  <2>1. r \in Worker /\ r.pc = "begin" /\ r.conv = c /\ r.job = j
    BY <1>2 DEF Worker, Places
  <2>2. worker' = [worker EXCEPT ![w] = r] /\ UNCHANGED lanes /\ worker[w].pc = "slot"
    BY <1>6 DEF Acquire
  <2> HIDE DEF r
  <2> QED BY <1>5, <2>1, <2>2
<1>7. CASE GiveUp(w)
  <2> DEFINE r == [worker[w] EXCEPT !.pc = "begin"]
  <2>1. r \in Worker /\ r.pc = "begin" /\ r.conv = c /\ r.job = j
    BY <1>2 DEF Worker, Places
  <2>2. worker' = [worker EXCEPT ![w] = r] /\ UNCHANGED lanes /\ worker[w].pc = "slot"
    BY <1>7 DEF GiveUp
  <2> HIDE DEF r
  <2> QED BY <1>5, <2>1, <2>2
<1>8. CASE Begin(w)
  <2> DEFINE r == [worker[w] EXCEPT !.pc = "release", !.outcome = "cancelled"]
             q == [worker[w] EXCEPT !.pc = "run"]
  <2>1. /\ r \in Worker /\ r.pc = "release" /\ r.conv = c /\ r.job = j
        /\ q \in Worker /\ q.pc = "run" /\ q.conv = c /\ q.job = j
    BY <1>2 DEF Worker, Places
  <2>2. /\ worker' = [worker EXCEPT ![w] = r] \/ worker' = [worker EXCEPT ![w] = q]
        /\ UNCHANGED lanes /\ worker[w].pc = "begin"
    BY <1>8 DEF Begin
  <2> HIDE DEF r, q
  <2> QED BY <1>5, <2>1, <2>2
<1>9. ASSUME NEW outcome \in {"ok", "error", "pause", "cancelled"}, Return(w, outcome)
      PROVE  /\ (Known /\ Lanes /\ Served /\ Alone)'
             /\ worker' \in [Workers -> Worker] /\ lanes' \in [Convs -> Lane]
  <2> DEFINE r == [worker[w] EXCEPT !.pc = "release", !.outcome = outcome]
  <2>1. r \in Worker /\ r.pc = "release" /\ r.conv = c /\ r.job = j
    BY <1>2 DEF Worker, Places
  <2>2. worker' = [worker EXCEPT ![w] = r] /\ UNCHANGED lanes /\ worker[w].pc = "run"
    BY <1>9 DEF Return
  <2> HIDE DEF r
  <2> QED BY <1>5, <2>1, <2>2
<1>10. CASE Release(w)
  <2> DEFINE r == [worker[w] EXCEPT !.pc = "settle", !.slot = FALSE]
  <2>1. r \in Worker /\ r.pc = "settle" /\ r.conv = c /\ r.job = j /\ ~r.slot
    BY <1>2 DEF Worker, Places
  <2>2. worker' = [worker EXCEPT ![w] = r] /\ UNCHANGED lanes /\ worker[w].pc = "release"
    BY <1>10 DEF Release
  <2> HIDE DEF r
  <2> QED BY <1>5, <2>1, <2>2
<1>11. CASE Settle(w)
  <2> DEFINE r == [Idle EXCEPT !.pc = "loop", !.conv = c]
             m == Requeued(lanes[c])
             l == Pause(m, j, worker[w].outcome)
             q == lanes[c].queue \o lanes[c].inbox
  <2>1. worker' = [worker EXCEPT ![w] = r] /\ lanes' = [lanes EXCEPT ![c] = l]
        /\ worker[w].pc = "settle"
    BY <1>11 DEF Settle
  <2>2. r \in Worker /\ r.pc = "loop" /\ r.conv = c /\ ~r.slot
    BY <1>2, EmptyTypes DEF Worker, Places, Idle
  <2>3. /\ m \in Lane /\ m.active = None /\ m.queue = q /\ m.inbox = <<>>
        /\ m.running = lanes[c].running /\ m.live = lanes[c].live
    BY <1>2, RequeuedType DEF Requeued, Lane
  <2>4. lanes[c].running /\ lanes[c].active # None /\ lanes[c].live
    BY <1>2, <2>1, Constants DEF Agree, LaneOK, EmptyLane
  <2> HIDE DEF m
  <2>5. /\ l \in Lane /\ l.active = None /\ l.queue = q /\ l.inbox = <<>>
        /\ l.running /\ l.live
    <3> DEFINE b == worker[w].outcome = "pause" \/ (m.paused /\ ~(req[j].approval /\ worker[w].outcome = "ok"))
    <3>1. l = [m EXCEPT !.paused = b] /\ b \in BOOLEAN
      BY DEF Pause
    <3> HIDE DEF b, q, l
    <3>2. l \in Lane
      BY <2>3, <3>1, LaneUpdates
    <3>3. /\ l.active = m.active /\ l.queue = m.queue /\ l.inbox = m.inbox
          /\ l.running = m.running /\ l.live = m.live
      BY <2>3, <3>1 DEF Lane
    <3> QED BY <2>3, <2>4, <3>2, <3>3
  <2> HIDE DEF r, l
  <2>6. LaneOK(l)
    <3>1. \A k \in DOMAIN q : q[k] \in Accepted
      BY <1>2, OrderedConcat DEF LaneOK
    <3>2. Ordered(q)
      BY <1>2, OrderedConcat DEF LaneOK
    <3> HIDE DEF q
    <3> QED BY <2>5, <3>1, <3>2 DEF LaneOK
  <2>7. Agree(r, l)
    BY <2>2, <2>5 DEF Agree
  <2> QED BY <1>0, <1>1, <2>1, <2>2, <2>5, <2>6, <2>7, WorkerMoves
<1>12. CASE Drain(w)
  <2> DEFINE q == lanes[c].inbox
             r == [worker[w] EXCEPT !.consumed = @ \cup Alive(q)]
             l == Emptied(lanes[c])
  <2>1. worker' = [worker EXCEPT ![w] = r] /\ lanes' = [lanes EXCEPT ![c] = l]
        /\ worker[w].pc = "run"
    BY <1>12 DEF Drain
  <2>2. r \in Worker /\ r.pc = "run" /\ r.conv = c /\ r.job = j /\ r.slot = worker[w].slot
    <3>1. Alive(q) \subseteq Jobs
      BY <1>2, ElementOfSeq, LenProperties DEF Alive, Elements
    <3> HIDE DEF q
    <3> QED BY <1>2, <2>1, <3>1 DEF Worker
  <2>3. /\ l \in Lane /\ l.active = lanes[c].active /\ l.queue = lanes[c].queue /\ l.inbox = <<>>
        /\ l.running = lanes[c].running /\ l.live = lanes[c].live
    <3>1. l = [lanes[c] EXCEPT !.inbox = <<>>]
      BY DEF Emptied
    <3> HIDE DEF l
    <3>2. l \in Lane
      BY <1>2, <3>1, LaneUpdates, EmptySeq, Zenon
    <3> QED BY <1>2, <3>1, <3>2 DEF Lane
  <2> HIDE DEF r, l
  <2>4. LaneOK(l)
    <3>1. lanes[c].live
      BY <1>2, <2>1 DEF Agree, LaneOK, EmptyLane
    <3> QED BY <1>2, <2>3, <3>1 DEF LaneOK
  <2>5. Agree(r, l)
    BY <1>2, <2>1, <2>2, <2>3 DEF Agree
  <2> QED BY <1>0, <1>1, <2>1, <2>2, <2>3, <2>4, <2>5, WorkerMoves
<1> QED BY <1>3, <1>4, <1>6, <1>7, <1>8, <1>9, <1>10, <1>11, <1>12 DEF Step

-----------------------------------------------------------------------------
(* Submissions                                                             *)

Sorted(q, P) == \A k, m \in DOMAIN q : k < m /\ q[k] \in P /\ q[m] \in P => q[k] < q[m]

\* Putting j in front of a queue, or behind it.
LEMMA SortedEnqueue ==
  ASSUME NEW q \in Seq(Jobs), NEW j \in Jobs, NEW P, Sorted(q, P)
  PROVE  /\ j \notin P => Sorted(<<j>> \o q, P)
         /\ (\A k \in DOMAIN q : q[k] < j) => Sorted(Append(q, j), P)
         /\ \A k \in DOMAIN (<<j>> \o q) :
              (<<j>> \o q)[k] = j \/ (k - 1 \in DOMAIN q /\ (<<j>> \o q)[k] = q[k - 1])
         /\ \A k \in DOMAIN Append(q, j) :
              Append(q, j)[k] = j \/ (k \in DOMAIN q /\ Append(q, j)[k] = q[k])
<1> DEFINE f == <<j>> \o q
           b == Append(q, j)
<1>1. /\ Len(q) \in Nat /\ DOMAIN q = 1 .. Len(q)
      /\ DOMAIN f = 1 .. Len(q) + 1
      /\ f[1] = j /\ \A k \in 2 .. Len(q) + 1 : f[k] = q[k - 1]
  <2>1. <<j>> \in Seq(Jobs) /\ Len(<<j>>) = 1 /\ <<j>>[1] = j
    OBVIOUS
  <2>2. /\ f \in Seq(Jobs) /\ Len(f) = 1 + Len(q)
        /\ \A k \in 1 .. 1 + Len(q) : f[k] = IF k <= 1 THEN <<j>>[k] ELSE q[k - 1]
    BY <2>1, ConcatProperties
  <2>3. Len(q) \in Nat /\ DOMAIN q = 1 .. Len(q) /\ DOMAIN f = 1 .. Len(f)
    BY <2>2, LenProperties
  <2> HIDE DEF f
  <2> QED BY <2>1, <2>2, <2>3
<1>2. /\ DOMAIN b = 1 .. Len(q) + 1
      /\ \A k \in 1 .. Len(q) : b[k] = q[k]
      /\ b[Len(q) + 1] = j
  BY AppendProperties, LenProperties
<1>3. \A k \in DOMAIN q : q[k] \in Jobs
  BY <1>1, ElementOfSeq
<1> HIDE DEF f, b
<1>4. ASSUME j \notin P PROVE Sorted(f, P)
  <2>1. \A k \in DOMAIN f : f[k] \in P => k - 1 \in DOMAIN q /\ f[k] = q[k - 1]
    BY <1>1, <1>4
  <2>2. \A k, m \in DOMAIN f : k < m => k - 1 < m - 1
    BY <1>1
  <2> QED BY <2>1, <2>2 DEF Sorted
<1>5. (\A k \in DOMAIN q : q[k] < j) => Sorted(b, P)
  BY <1>1, <1>2, <1>3 DEF Sorted, Jobs
<1>6. ASSUME NEW k \in DOMAIN f PROVE f[k] = j \/ (k - 1 \in DOMAIN q /\ f[k] = q[k - 1])
  <2>1. CASE k = 1
    BY <1>1, <2>1
  <2>2. CASE k # 1
    BY <1>1, <2>2
  <2> QED BY <2>1, <2>2
<1>7. ASSUME NEW k \in DOMAIN b PROVE b[k] = j \/ (k \in DOMAIN q /\ b[k] = q[k])
  <2>1. CASE k = Len(q) + 1
    BY <1>1, <1>2, <2>1
  <2>2. CASE k # Len(q) + 1
    BY <1>1, <1>2, <2>2
  <2> QED BY <2>1, <2>2
<1> QED BY <1>4, <1>5, <1>6, <1>7 DEF f, b

\* The lane after the acceptance of r as job j: one request more, behind the
\* others if it is a plain one.
LEMMA EnqueueOK ==
  ASSUME TypeOK, Known, NEW r \in Requests, NEW l \in Lane, l.live, LaneOK(l),
         NEW j \in Jobs, j = count + 1, count' = j, req' = [req EXCEPT ![j] = r],
         NEW e, e = Enqueue(l, j, r),
         NEW m \in Lane, m.live = e.live, m.active = e.active, m.queue = e.queue,
         m.inbox = e.inbox, e.running => m.running
  PROVE  LaneOK(m)'
<1>0. /\ count \in Nat /\ j \notin Accepted /\ Accepted \subseteq Jobs
      /\ Accepted' = Accepted \cup {j} /\ j \in Jobs
  BY Constants DEF TypeOK, Jobs, Accepted
<1>1. req'[j] = r /\ \A k \in Accepted : req'[k] = req[k]
  BY <1>0 DEF TypeOK
<1>2. l.queue \in Seq(Jobs) /\ l.inbox \in Seq(Jobs)
  BY LaneFields
<1>3. Plain(j)' <=> r.busy = "append" /\ ~r.approval
  BY <1>1 DEF Plain
<1>4. \A k \in Accepted : Plain(k)' <=> Plain(k)
  BY <1>1 DEF Plain
<1> DEFINE P == {k \in Accepted' : Plain(k)'}
<1>5. Sorted(l.queue, P)
  BY <1>0, <1>4 DEF LaneOK, Ordered, Sorted
<1>6. /\ \A k \in DOMAIN l.queue : l.queue[k] \in Accepted /\ l.queue[k] < j
      /\ \A k \in DOMAIN l.inbox : l.inbox[k] \in Accepted /\ ~Plain(l.inbox[k])
      /\ l.active # None => l.running /\ l.active \in Accepted
      /\ l.inbox # <<>> => l.active # None
  BY <1>0 DEF LaneOK, Accepted
<1>7. \A k \in DOMAIN l.inbox : l.inbox[k] \in Accepted' /\ ~Plain(l.inbox[k])'
  BY <1>0, <1>4, <1>6
<1>8. CASE r.approval \/ (r.busy = "interrupt" /\ l.active # None)
  <2>1. e = [l EXCEPT !.queue = <<j>> \o l.queue]
    BY <1>8 DEF Enqueue
  <2>2. /\ m.live /\ m.active = l.active /\ m.queue = <<j>> \o l.queue /\ m.inbox = l.inbox
        /\ l.running => m.running
    BY <2>1 DEF Lane
  <2>3. j \notin P
    BY <1>3, <1>8
  <2> HIDE DEF P
  <2>4. /\ Sorted(<<j>> \o l.queue, P)
        /\ \A k \in DOMAIN (<<j>> \o l.queue) : (<<j>> \o l.queue)[k] \in Accepted'
    BY <1>0, <1>2, <1>5, <1>6, <2>3, SortedEnqueue
  <2>5. Ordered(m.queue)'
    BY <2>2, <2>4 DEF Ordered, Sorted, P
  <2> QED BY <1>0, <1>6, <1>7, <2>2, <2>4, <2>5 DEF LaneOK
<1>9. CASE /\ ~(r.approval \/ (r.busy = "interrupt" /\ l.active # None))
           /\ r.busy = "inject" /\ l.active # None
  <2>1. e = [l EXCEPT !.inbox = Append(l.inbox, j)]
    BY <1>9 DEF Enqueue
  <2>2. /\ m.live /\ m.active = l.active /\ m.queue = l.queue /\ m.inbox = Append(l.inbox, j)
        /\ l.running => m.running
    BY <2>1 DEF Lane
  <2>3. Sorted(l.inbox, {})
    BY DEF Sorted
  <2>3a. l.inbox \in Seq(Jobs) /\ j \in Accepted' /\ ~Plain(j)'
    BY <1>0, <1>2, <1>3, <1>9 DEF Accepted
  <2>3b. \A k \in DOMAIN Append(l.inbox, j) :
           \/ Append(l.inbox, j)[k] = j
           \/ k \in DOMAIN l.inbox /\ Append(l.inbox, j)[k] = l.inbox[k]
    BY <1>0, <2>3, <2>3a, SortedEnqueue
  <2>4. \A k \in DOMAIN Append(l.inbox, j) :
          Append(l.inbox, j)[k] \in Accepted' /\ ~Plain(Append(l.inbox, j)[k])'
    BY <1>7, <2>3a, <2>3b
  <2>5. Ordered(m.queue)'
    BY <1>0, <1>5, <1>6, <2>2 DEF Ordered, Sorted
  <2> QED BY <1>0, <1>6, <1>9, <2>2, <2>4, <2>5 DEF LaneOK
<1>10. CASE /\ ~(r.approval \/ (r.busy = "interrupt" /\ l.active # None))
            /\ ~(r.busy = "inject" /\ l.active # None)
  <2>1. e = [l EXCEPT !.queue = Append(l.queue, j)]
    BY <1>10 DEF Enqueue
  <2>2. /\ m.live /\ m.active = l.active /\ m.queue = Append(l.queue, j) /\ m.inbox = l.inbox
        /\ l.running => m.running
    BY <2>1 DEF Lane
  <2> HIDE DEF P
  <2>4. /\ Sorted(Append(l.queue, j), P)
        /\ \A k \in DOMAIN Append(l.queue, j) : Append(l.queue, j)[k] \in Accepted'
    BY <1>0, <1>2, <1>5, <1>6, SortedEnqueue
  <2>5. Ordered(m.queue)'
    BY <2>2, <2>4 DEF Ordered, Sorted, P
  <2> QED BY <1>0, <1>6, <1>7, <2>2, <2>4, <2>5 DEF LaneOK
<1> QED BY <1>8, <1>9, <1>10

LEMMA EnqueueFields ==
  ASSUME NEW l \in Lane, NEW j \in Jobs, NEW r \in Request, NEW e, e = Enqueue(l, j, r)
  PROVE  e.live = l.live /\ e.running = l.running /\ e.active = l.active /\ e.paused = l.paused
<1>1. \A q : LET k == [l EXCEPT !.queue = q] IN
        k.live = l.live /\ k.running = l.running /\ k.active = l.active /\ k.paused = l.paused
  BY DEF Lane
<1>2. \A q : LET k == [l EXCEPT !.inbox = q] IN
        k.live = l.live /\ k.running = l.running /\ k.active = l.active /\ k.paused = l.paused
  BY DEF Lane
<1>3. \E q : e = [l EXCEPT !.queue = q] \/ e = [l EXCEPT !.inbox = q]
  BY DEF Enqueue
<1> QED BY <1>1, <1>2, <1>3

LEMMA SubmitSteps ==
  ASSUME IInv, NEW r \in Requests, Submit(r)
  PROVE  /\ (Known /\ Lanes /\ Served /\ Alone)'
         /\ worker' \in [Workers -> Worker] /\ lanes' \in [Convs -> Lane]
<1> DEFINE c == r.conv
<1> SUFFICES ASSUME NEW j, j = count + 1,
                    NEW l, l = IF lanes[c].live THEN lanes[c]
                               ELSE [EmptyLane EXCEPT !.live = TRUE, !.source = r.source],
                    NEW e, e = Enqueue(l, j, r)
             PROVE  /\ (Known /\ Lanes /\ Served /\ Alone)'
                    /\ worker' \in [Workers -> Worker] /\ lanes' \in [Convs -> Lane]
  OBVIOUS
<1>0. TypeOK /\ Known /\ Lanes /\ Served /\ Alone /\ r \in Request /\ c \in Convs /\ r.source \in Sources
  BY Constants DEF IInv, Request
<1>1. /\ j \in Jobs /\ j \notin Accepted /\ Accepted' = Accepted \cup {j} /\ Accepted \subseteq Jobs
      /\ count' = j /\ req' = [req EXCEPT ![j] = r]
  BY <1>0, Constants DEF Submit, TypeOK, Jobs, Accepted
<1>2. lanes[c] \in Lane /\ LaneOK(lanes[c])
  BY <1>0 DEF TypeOK, Lanes
<1>3. /\ l \in Lane /\ l.live /\ LaneOK(l) /\ l.running = lanes[c].running
      /\ l.active = lanes[c].active
  <2>1. CASE lanes[c].live
    BY <1>2, <2>1
  <2>2. CASE ~lanes[c].live
    <3>1. lanes[c] = EmptyLane
      BY <1>2, <2>2 DEF LaneOK
    <3>2. /\ l \in Lane /\ l.live /\ l.running = FALSE /\ l.queue = <<>> /\ l.inbox = <<>> /\ l.active = None
      BY <1>0, <2>2, EmptyTypes DEF EmptyLane, Lane
    <3>3. LaneOK(l)
      BY <3>2 DEF LaneOK, Ordered
    <3>4. lanes[c].running = FALSE /\ lanes[c].active = None
      BY <3>1 DEF EmptyLane
    <3> QED BY <3>2, <3>3, <3>4
  <2> QED BY <2>1, <2>2
<1>4. /\ e \in Lane /\ e.running = l.running /\ e.active = l.active
      /\ [e EXCEPT !.running = TRUE] \in Lane
  BY <1>0, <1>1, <1>3, EnqueueType, EnqueueFields, LaneUpdates
<1>5. \A k \in Accepted : req'[k] = req[k]
  BY <1>0, <1>1 DEF TypeOK
<1>6. Known'
  BY <1>0, <1>1, <1>5 DEF Known, TypeOK
<1>7. ASSUME NEW k, LaneOK(k) PROVE LaneOK(k)'
  <2>1. /\ \A i \in DOMAIN k.queue : k.queue[i] \in Accepted /\ (Plain(k.queue[i])' <=> Plain(k.queue[i]))
        /\ \A i \in DOMAIN k.inbox : k.inbox[i] \in Accepted /\ (Plain(k.inbox[i])' <=> Plain(k.inbox[i]))
    BY <1>5, <1>7 DEF LaneOK, Plain
  <2> QED BY <1>1, <1>7, <2>1 DEF LaneOK, Ordered
<1>8. CASE ~Starts(l, r)
  <2>1. worker' = worker /\ lanes' = [lanes EXCEPT ![c] = e]
    BY <1>8 DEF Submit
  <2>2. lanes'[c] = e /\ (\A d \in Convs \ {c} : lanes'[d] = lanes[d]) /\ lanes' \in [Convs -> Lane]
    BY <1>0, <1>4, <2>1 DEF TypeOK
  <2>3. LaneOK(lanes[c])'
    <3>1. TypeOK /\ Known /\ r \in Requests /\ l \in Lane /\ l.live /\ LaneOK(l)
      BY <1>0, <1>3
    <3>2. j \in Jobs /\ j = count + 1 /\ count' = j /\ req' = [req EXCEPT ![j] = r]
      BY <1>1
    <3>3. e = Enqueue(l, j, r) /\ e \in Lane
      BY <1>4
    <3>4. LaneOK(e)'
      BY <3>1, <3>2, <3>3, EnqueueOK
    <3> QED BY <2>2, <3>4
  <2>4. Served'
    BY <1>0, <1>3, <1>4, <2>1, <2>2 DEF Served, WorkerOK, Agree
  <2>5. Lanes'
    BY <1>0, <1>3, <1>4, <1>7, <2>1, <2>2, <2>3 DEF Lanes, Serves
  <2> QED BY <1>0, <1>6, <2>1, <2>2, <2>4, <2>5 DEF Alone, TypeOK
<1>9. CASE Starts(l, r)
  <2> SUFFICES ASSUME NEW n, n = [Idle EXCEPT !.pc = "loop", !.conv = c],
                      NEW m, m = [e EXCEPT !.running = TRUE]
               PROVE  /\ (Known /\ Lanes /\ Served /\ Alone)'
                      /\ worker' \in [Workers -> Worker] /\ lanes' \in [Convs -> Lane]
    OBVIOUS
  <2>1. PICK w \in Workers : /\ worker[w].pc = "idle" /\ worker' = [worker EXCEPT ![w] = n]
                             /\ lanes' = [lanes EXCEPT ![c] = m]
    BY <1>9 DEF Submit, NewWorker
  <2>2. n \in Worker /\ n.pc = "loop" /\ n.conv = c /\ ~n.slot
    BY <1>0, EmptyTypes DEF Idle, Worker, Places
  <2>3. /\ m \in Lane /\ m.live = e.live /\ m.active = e.active /\ m.queue = e.queue
        /\ m.inbox = e.inbox /\ m.running
    BY <1>4 DEF Lane
  <2>4. LaneOK(m)'
    <3>1. TypeOK /\ Known /\ r \in Requests /\ l \in Lane /\ l.live /\ LaneOK(l)
      BY <1>0, <1>3
    <3>2. j \in Jobs /\ j = count + 1 /\ count' = j /\ req' = [req EXCEPT ![j] = r]
      BY <1>1
    <3>3. e = Enqueue(l, j, r)
      OBVIOUS
    <3> QED BY <2>3, <3>1, <3>2, <3>3, EnqueueOK
  <2>5. /\ lanes'[c] = m /\ (\A d \in Convs \ {c} : lanes'[d] = lanes[d]) /\ lanes' \in [Convs -> Lane]
        /\ worker'[w] = n /\ (\A v \in Workers \ {w} : worker'[v] = worker[v])
        /\ worker' \in [Workers -> Worker]
    BY <1>0, <2>1, <2>2, <2>3 DEF TypeOK
  <2>6. ~lanes[c].running /\ lanes[c].active = None
    BY <1>2, <1>3, <1>9 DEF Starts, LaneOK
  <2>7. \A v \in Workers : worker[v].pc # "idle" => worker[v].conv \in Convs \ {c}
    BY <1>0, <2>6 DEF Served, WorkerOK, Agree
  <2>8. \A v \in Workers : worker[v].pc = "idle" => worker[v].conv \notin Convs
    BY <1>0, Constants DEF Served, WorkerOK, Idle
  <2>9. Served'
    <3> SUFFICES ASSUME NEW v \in Workers PROVE WorkerOK(worker[v])'
      BY DEF Served
    <3>1. CASE v = w
      <4>1. worker'[v] = n /\ n.pc # "idle" /\ n.conv \in Convs /\ lanes'[n.conv] = m
        BY <1>0, <2>2, <2>5, <3>1
      <4>2. Agree(n, m)
        BY <1>3, <1>4, <2>2, <2>3, <2>6 DEF Agree
      <4> QED BY <4>1, <4>2 DEF WorkerOK, Agree
    <3>2. CASE v # w
      <4>1. worker'[v] = worker[v] /\ WorkerOK(worker[v])
        BY <1>0, <2>5, <3>2 DEF Served
      <4>2. worker[v].pc # "idle" => lanes'[worker[v].conv] = lanes[worker[v].conv]
        BY <2>5, <2>7
      <4> QED BY <4>1, <4>2 DEF WorkerOK, Agree
    <3> QED BY <3>1, <3>2
  <2>10. Alone'
    <3> SUFFICES ASSUME NEW u \in Workers, NEW v \in Workers, v # u, worker'[u].pc # "idle"
                 PROVE  worker'[v].conv # worker'[u].conv
      BY DEF Alone
    <3>0. c \in Convs /\ worker'[w].conv = c
      BY <1>0, <2>2, <2>5
    <3>4. ASSUME NEW x \in Workers, x # w PROVE worker'[x].conv # c
      <4>1. worker'[x].conv = worker[x].conv
        BY <2>5, <3>4
      <4> QED BY <2>7, <2>8, <3>0, <4>1
    <3>1. CASE u = w
      BY <3>0, <3>1, <3>4
    <3>2. CASE v = w
      BY <3>0, <3>2, <3>4
    <3>3. CASE u # w /\ v # w
      BY <1>0, <2>5, <3>3 DEF Alone
    <3> QED BY <3>1, <3>2, <3>3
  <2>11. Lanes'
    <3> SUFFICES ASSUME NEW d \in Convs
                 PROVE  LaneOK(lanes[d])' /\ (lanes'[d].running => \E v \in Workers : Serves(v, d)')
      BY DEF Lanes
    <3>1. CASE d = c
      BY <2>2, <2>4, <2>5, <3>1 DEF Serves
    <3>2. CASE d # c
      <4>1. lanes'[d] = lanes[d] /\ LaneOK(lanes[d])'
        BY <1>0, <1>7, <2>5, <3>2 DEF Lanes
      <4>2. ASSUME NEW v \in Workers, Serves(v, d) PROVE Serves(v, d)'
        BY <2>1, <2>5, <4>2 DEF Serves
      <4> QED BY <1>0, <4>1, <4>2 DEF Lanes
    <3> QED BY <3>1, <3>2
  <2> QED BY <1>6, <2>5, <2>9, <2>10, <2>11
<1> QED BY <1>8, <1>9

-----------------------------------------------------------------------------
(* Cancellation, and the steps that leave lanes and workers alone          *)

LEMMA LanesSame ==
  ASSUME TypeOK, Known, Lanes, Served, Alone, UNCHANGED <<lanes, worker, count, req>>
  PROVE  /\ (Known /\ Lanes /\ Served /\ Alone)'
         /\ worker' \in [Workers -> Worker] /\ lanes' \in [Convs -> Lane]
BY DEF TypeOK, Known, Lanes, Served, Alone, Accepted, LaneOK, Ordered, Plain, WorkerOK, Agree, Serves

LEMMA ClearSteps ==
  ASSUME TypeOK, Known, Lanes, Served, Alone, UNCHANGED <<worker, count, req>>,
         NEW C \in SUBSET Convs, Clear(C), \A c \in C : lanes[c].live
  PROVE  /\ (Known /\ Lanes /\ Served /\ Alone)'
         /\ worker' \in [Workers -> Worker] /\ lanes' \in [Convs -> Lane]
<1>1. ASSUME NEW c \in Convs
      PROVE  /\ lanes'[c] \in Lane /\ LaneOK(lanes[c])'
             /\ lanes'[c].running = lanes[c].running /\ lanes'[c].active = lanes[c].active
  <2>0. lanes[c] \in Lane /\ LaneOK(lanes[c])
    BY DEF TypeOK, Lanes
  <2>1. CASE c \in C
    <3> SUFFICES ASSUME NEW l, l = [lanes[c] EXCEPT !.queue = <<>>, !.inbox = <<>>]
                 PROVE  /\ lanes'[c] \in Lane /\ LaneOK(lanes[c])'
                        /\ lanes'[c].running = lanes[c].running /\ lanes'[c].active = lanes[c].active
      OBVIOUS
    <3>1. lanes'[c] = l
      BY <2>1 DEF Clear
    <3>2. l \in Lane
      BY <2>0, LaneUpdates, EmptySeq
    <3>3. /\ l.live = lanes[c].live /\ l.running = lanes[c].running /\ l.active = lanes[c].active
          /\ l.queue = <<>> /\ l.inbox = <<>>
      BY <2>0 DEF Lane
    <3>4. LaneOK(l)'
      BY <2>0, <2>1, <3>3 DEF LaneOK, Ordered, Accepted
    <3> QED BY <3>1, <3>2, <3>3, <3>4
  <2>2. CASE c \notin C
    <3>1. lanes'[c] = lanes[c]
      BY <2>2 DEF Clear
    <3> QED BY <2>0, <3>1 DEF LaneOK, Ordered, Plain, Accepted
  <2> QED BY <2>1, <2>2
<1>2. lanes' \in [Convs -> Lane] /\ worker' \in [Workers -> Worker]
  BY <1>1 DEF Clear, TypeOK
<1>3. Served'
  BY <1>1 DEF Served, WorkerOK, Agree
<1>4. Lanes'
  BY <1>1 DEF Lanes, Serves
<1> QED BY <1>2, <1>3, <1>4 DEF Known, Alone, Accepted

LEMMA LaneSteps ==
  ASSUME IInv, [Next]_vars
  PROVE  /\ (Known /\ Lanes /\ Served /\ Alone)'
         /\ worker' \in [Workers -> Worker] /\ lanes' \in [Convs -> Lane]
<1>0. TypeOK /\ Known /\ Lanes /\ Served /\ Alone
  BY DEF IInv
<1>1. CASE \E r \in Requests : Submit(r)
  BY <1>1, SubmitSteps
<1>2. CASE \E w \in Workers : Step(w) \/ Drain(w)
  BY <1>2, WorkerSteps
<1>3. CASE \E c \in Convs : CancelConversation(c)
  <2>1. PICK c \in Convs : CancelConversation(c)
    BY <1>3
  <2> QED BY <1>0, <2>1, ClearSteps DEF CancelConversation
<1>4. CASE Seal
  <2>1. {c \in Convs : lanes[c].live} \in SUBSET Convs
    OBVIOUS
  <2> QED BY <1>0, <1>4, <2>1, ClearSteps DEF Seal
<1>5. CASE (\E j \in Jobs : Cancel(j)) \/ Join \/ UNCHANGED vars
  BY <1>0, <1>5, LanesSame DEF Cancel, Join, vars
<1> QED BY <1>1, <1>2, <1>3, <1>4, <1>5 DEF Next

-----------------------------------------------------------------------------
(* Slots                                                                   *)

Holders(p) == {w \in Workers : worker[w].slot /\ PoolOf(worker[w].job) = p}

LEMMA HoldersFinite == \A p \in Pools : IsFiniteSet(Holders(p)) /\ Cardinality(Holders(p)) \in Nat
<1>1. IsFiniteSet(Workers)
  BY FS_Interval, Constants DEF Workers
<1>2. \A p : Holders(p) \subseteq Workers
  BY DEF Holders
<1> QED BY <1>1, <1>2, FS_Subset, FS_CardinalityType

\* A job is in the pool its request says, from its acceptance on.
LEMMA PoolStays ==
  ASSUME IInv, [Next]_vars, NEW w \in Workers, worker[w].slot
  PROVE  /\ worker[w].job \in Accepted /\ PoolOf(worker[w].job) \in Pools
         /\ req'[worker[w].job] = req[worker[w].job]
<1>0. TypeOK /\ Served /\ Lanes /\ WorkerOK(worker[w])
  BY DEF IInv, Served
<1>1. TypeOK /\ Served /\ Lanes /\ worker[w].pc \notin {"idle", "loop"}
  <2>1. worker[w].pc # "idle"
    BY <1>0 DEF WorkerOK, Idle
  <2> QED BY <1>0, <2>1 DEF WorkerOK, Agree
<1>2. worker[w].job \in Accepted
  BY <1>1, AtWork, Constants DEF Agree, LaneOK
<1>3. CASE \E r \in Requests : Submit(r)
  <2>0. PICK r \in Requests : Submit(r)
    BY <1>3
  <2>1. count \in Nat /\ count + 1 \in Jobs /\ req' = [req EXCEPT ![count + 1] = r]
    BY <1>1, <2>0, SubmitNumbers
  <2>2. worker[w].job # count + 1
    BY <1>2, <2>1 DEF Accepted
  <2>3. req'[worker[w].job] = req[worker[w].job]
    BY <1>1, <1>2, <2>1, <2>2 DEF TypeOK, Accepted, Jobs
  <2> QED BY <1>2, <2>3 DEF PoolOf, Pools
<1>4. CASE UNCHANGED req
  BY <1>2, <1>4 DEF PoolOf, Pools
<1>5. [Next]_vars => UNCHANGED req \/ \E r \in Requests : Submit(r)
  BY RequestsChange
<1> QED BY <1>3, <1>4, <1>5

\* Who holds a slot after a step in which w alone may take one or give it back.
LEMMA PoolsSame ==
  ASSUME IInv, [Next]_vars, UNCHANGED used,
         \A w \in Workers : /\ worker'[w].slot = worker[w].slot
                            /\ worker[w].slot => worker'[w].job = worker[w].job
  PROVE  PoolsExact' /\ used' \in [Pools -> Nat]
<1>1. ASSUME NEW p \in Pools PROVE Holders(p)' = Holders(p)
  BY PoolStays DEF Holders, PoolOf
<1> QED BY <1>1 DEF IInv, TypeOK, PoolsExact, Holders

LEMMA PoolsTaken ==
  ASSUME IInv, [Next]_vars, NEW w \in Workers, Acquire(w)
  PROVE  PoolsExact' /\ used' \in [Pools -> Nat]
<1> DEFINE p == PoolOf(worker[w].job)
<1>0. TypeOK /\ PoolsExact /\ Served /\ Lanes /\ worker[w] \in Worker /\ ~worker[w].slot /\ p \in Pools
  BY DEF IInv, TypeOK, Acquire, Served, WorkerOK, Agree, PoolOf, Pools
<1>1. /\ worker'[w].slot /\ worker'[w].job = worker[w].job
      /\ \A v \in Workers \ {w} : worker'[v] = worker[v]
      /\ UNCHANGED req
  BY <1>0 DEF Acquire, TypeOK, Worker
<1>2. used' = [used EXCEPT ![p] = @ + 1] /\ used[p] < Slots[p]
  BY DEF Acquire
<1> SUFFICES ASSUME NEW q \in Pools
             PROVE  used'[q] \in Nat /\ used'[q] = Cardinality(Holders(q)') /\ used'[q] <= Slots[q]
  BY <1>0, <1>2 DEF PoolsExact, Holders, TypeOK
<1>3. used[q] \in Nat /\ used[q] = Cardinality(Holders(q)) /\ used[q] <= Slots[q] /\ Slots[q] \in Nat
  BY <1>0, Constants DEF TypeOK, PoolsExact, Holders
<1>4. CASE q = p
  <2>1. Holders(q)' = Holders(q) \cup {w} /\ w \notin Holders(q)
    BY <1>0, <1>1, <1>4 DEF Holders, PoolOf
  <2>2. Cardinality(Holders(q) \cup {w}) = Cardinality(Holders(q)) + 1
    BY <2>1, HoldersFinite, FS_AddElement
  <2>3. used'[q] = used[q] + 1 /\ used[q] < Slots[q]
    BY <1>0, <1>2, <1>4 DEF TypeOK
  <2> QED BY <1>3, <2>1, <2>2, <2>3
<1>5. CASE q # p
  <2>1. Holders(q)' = Holders(q)
    BY <1>1, <1>0, <1>5 DEF Holders, PoolOf
  <2>2. used'[q] = used[q]
    BY <1>0, <1>2, <1>5 DEF TypeOK
  <2> QED BY <1>3, <2>1, <2>2
<1> QED BY <1>4, <1>5

LEMMA PoolsGiven ==
  ASSUME IInv, [Next]_vars, NEW w \in Workers, Release(w), worker[w].slot
  PROVE  PoolsExact' /\ used' \in [Pools -> Nat]
<1> DEFINE p == PoolOf(worker[w].job)
<1>0. TypeOK /\ PoolsExact /\ worker[w] \in Worker /\ p \in Pools
  BY DEF IInv, TypeOK, PoolOf, Pools
<1>1. ~worker'[w].slot /\ (\A v \in Workers \ {w} : worker'[v] = worker[v]) /\ UNCHANGED req
  BY <1>0 DEF Release, TypeOK, Worker
<1>2. used' = [used EXCEPT ![p] = @ - 1]
  BY DEF Release, SlotBack
<1> SUFFICES ASSUME NEW q \in Pools
             PROVE  used'[q] \in Nat /\ used'[q] = Cardinality(Holders(q)') /\ used'[q] <= Slots[q]
  BY <1>0, <1>2 DEF PoolsExact, Holders, TypeOK
<1>3. used[q] \in Nat /\ used[q] = Cardinality(Holders(q)) /\ used[q] <= Slots[q] /\ Slots[q] \in Nat
  BY <1>0, Constants DEF TypeOK, PoolsExact, Holders
<1>4. CASE q = p
  <2>1. Holders(q)' = Holders(q) \ {w} /\ w \in Holders(q)
    BY <1>0, <1>1, <1>4 DEF Holders, PoolOf
  <2>2. Cardinality(Holders(q) \ {w}) = Cardinality(Holders(q)) - 1
    BY <2>1, HoldersFinite, FS_RemoveElement
  <2>3. Cardinality(Holders(q)') \in Nat
    BY <2>1, HoldersFinite, FS_RemoveElement, FS_CardinalityType
  <2>4. used'[q] = used[q] - 1
    BY <1>0, <1>2, <1>4 DEF TypeOK
  <2> QED BY <1>3, <2>1, <2>2, <2>3, <2>4
<1>5. CASE q # p
  <2>1. Holders(q)' = Holders(q)
    BY <1>1, <1>0, <1>5 DEF Holders, PoolOf
  <2>2. used'[q] = used[q]
    BY <1>0, <1>2, <1>5 DEF TypeOK
  <2> QED BY <1>3, <2>1, <2>2
<1> QED BY <1>4, <1>5

LEMMA PoolSteps ==
  ASSUME IInv, [Next]_vars
  PROVE  PoolsExact' /\ used' \in [Pools -> Nat]
<1>0. TypeOK /\ Served /\ \A w \in Workers : worker[w] \in Worker /\ WorkerOK(worker[w])
  BY DEF IInv, TypeOK, Served
<1>1. CASE UNCHANGED <<worker, used>>
  BY <1>1, PoolsSame
<1>2. ASSUME NEW w \in Workers, NEW r, worker' = [worker EXCEPT ![w] = r], UNCHANGED used,
             r.slot = worker[w].slot, worker[w].slot => r.job = worker[w].job
      PROVE  PoolsExact' /\ used' \in [Pools -> Nat]
  <2>1. \A v \in Workers : worker'[v] = IF v = w THEN r ELSE worker[v]
    BY <1>0, <1>2 DEF TypeOK
  <2> QED BY <1>2, <2>1, PoolsSame
<1>3. CASE \E r \in Requests : Submit(r)
  <2>1. PICK r \in Requests : Submit(r)
    BY <1>3
  <2> DEFINE new == [Idle EXCEPT !.pc = "loop", !.conv = r.conv]
  <2>2. CASE \E w \in Workers : NewWorker(w) /\ worker' = [worker EXCEPT ![w] = new]
    <3>1. PICK w \in Workers : NewWorker(w) /\ worker' = [worker EXCEPT ![w] = new]
      BY <2>2
    <3>2. worker[w].slot = FALSE /\ new.slot = FALSE /\ UNCHANGED used
      BY <1>0, <2>1, <3>1 DEF NewWorker, WorkerOK, Idle, Submit
    <3> HIDE DEF new
    <3> QED BY <1>2, <3>1, <3>2
  <2>3. CASE UNCHANGED worker
    BY <1>1, <2>1, <2>3 DEF Submit
  <2> QED BY <2>1, <2>2, <2>3 DEF Submit
<1>4. CASE \E w \in Workers : Step(w) \/ Drain(w)
  <2>1. PICK w \in Workers : Step(w) \/ Drain(w)
    BY <1>4
  <2>2. worker[w] \in Worker /\ WorkerOK(worker[w])
    BY <1>0
  <2>3. CASE Exit(w)
    <3>1. worker' = [worker EXCEPT ![w] = Idle] /\ UNCHANGED used /\ ~worker[w].slot /\ ~Idle.slot
      BY <2>2, <2>3 DEF Exit, WorkerOK, Agree, Idle
    <3> QED BY <1>2, <2>2, <3>1, EmptyTypes DEF Worker
  <2>4. CASE Take(w)
    <3> DEFINE r == [worker[w] EXCEPT !.pc = "slot", !.job = Head(lanes[worker[w].conv].queue)]
    <3>1. worker' = [worker EXCEPT ![w] = r] /\ UNCHANGED used /\ ~worker[w].slot
      BY <2>2, <2>4 DEF Take, WorkerOK, Agree
    <3>2. r.slot = worker[w].slot
      BY <2>2 DEF Worker
    <3> HIDE DEF r
    <3> QED BY <1>2, <3>1, <3>2
  <2>5. CASE GiveUp(w)
    <3> DEFINE r == [worker[w] EXCEPT !.pc = "begin"]
    <3>1. worker' = [worker EXCEPT ![w] = r] /\ UNCHANGED used
      BY <2>5 DEF GiveUp
    <3>2. r.slot = worker[w].slot /\ r.job = worker[w].job
      BY <2>2 DEF Worker
    <3> HIDE DEF r
    <3> QED BY <1>2, <3>1, <3>2
  <2>6. CASE Begin(w)
    <3> DEFINE r == [worker[w] EXCEPT !.pc = "release", !.outcome = "cancelled"]
               q == [worker[w] EXCEPT !.pc = "run"]
    <3>1. (worker' = [worker EXCEPT ![w] = r] \/ worker' = [worker EXCEPT ![w] = q]) /\ UNCHANGED used
      BY <2>6 DEF Begin
    <3>2. /\ r.slot = worker[w].slot /\ r.job = worker[w].job
          /\ q.slot = worker[w].slot /\ q.job = worker[w].job
      BY <2>2 DEF Worker
    <3> HIDE DEF r, q
    <3> QED BY <1>2, <3>1, <3>2
  <2>7. ASSUME NEW outcome, Return(w, outcome) PROVE PoolsExact' /\ used' \in [Pools -> Nat]
    <3> DEFINE r == [worker[w] EXCEPT !.pc = "release", !.outcome = outcome]
    <3>1. worker' = [worker EXCEPT ![w] = r] /\ UNCHANGED used
      BY <2>7 DEF Return
    <3>2. r.slot = worker[w].slot /\ r.job = worker[w].job
      BY <2>2 DEF Worker
    <3> HIDE DEF r
    <3> QED BY <1>2, <3>1, <3>2
  <2>8. CASE Release(w)
    <3>1. CASE worker[w].slot
      BY <2>8, <3>1, PoolsGiven
    <3>2. CASE ~worker[w].slot
      <4> DEFINE r == [worker[w] EXCEPT !.pc = "settle", !.slot = FALSE]
      <4>1. worker' = [worker EXCEPT ![w] = r] /\ UNCHANGED used
        BY <2>8, <3>2 DEF Release, SlotBack
      <4>2. r.slot = worker[w].slot /\ r.job = worker[w].job
        BY <2>2, <3>2 DEF Worker
      <4> HIDE DEF r
      <4> QED BY <1>2, <4>1, <4>2
    <3> QED BY <3>1, <3>2
  <2>9. CASE Settle(w)
    <3> DEFINE r == [Idle EXCEPT !.pc = "loop", !.conv = worker[w].conv]
    <3>1. worker' = [worker EXCEPT ![w] = r] /\ UNCHANGED used /\ worker[w].slot = FALSE
      BY <2>2, <2>9 DEF Settle, WorkerOK, Agree, Worker
    <3>2. r.slot = FALSE
      BY DEF Idle
    <3> HIDE DEF r
    <3> QED BY <1>2, <3>1, <3>2
  <2>10. CASE Drain(w)
    <3> DEFINE r == [worker[w] EXCEPT !.consumed = @ \cup Alive(lanes[worker[w].conv].inbox)]
    <3>1. worker' = [worker EXCEPT ![w] = r] /\ UNCHANGED used
      BY <2>10 DEF Drain
    <3>2. r.slot = worker[w].slot /\ r.job = worker[w].job
      BY <2>2 DEF Worker
    <3> HIDE DEF r
    <3> QED BY <1>2, <3>1, <3>2
  <2>11. CASE Acquire(w)
    BY <2>11, PoolsTaken
  <2> QED BY <2>1, <2>3, <2>4, <2>5, <2>6, <2>7, <2>8, <2>9, <2>10, <2>11 DEF Step
<1>5. CASE \/ \E j \in Jobs : Cancel(j)
           \/ \E c \in Convs : CancelConversation(c)
           \/ Seal \/ Join \/ UNCHANGED vars
  BY <1>1, <1>5 DEF Cancel, CancelConversation, Seal, Join, vars
<1> QED BY <1>3, <1>4, <1>5 DEF Next

-----------------------------------------------------------------------------
(* The remaining types, and the theorems                                   *)

LEMMA JobAtWork ==
  ASSUME IInv, NEW w \in Workers, worker[w].pc \notin {"idle", "loop"}
  PROVE  worker[w].job \in Jobs
BY DEF IInv, Served, WorkerOK, Agree

LEMMA ElementsOfLane ==
  ASSUME TypeOK, NEW c \in Convs
  PROVE  Elements(lanes[c].queue) \subseteq Jobs /\ Elements(lanes[c].inbox) \subseteq Jobs
<1>1. lanes[c].queue \in Seq(Jobs) /\ lanes[c].inbox \in Seq(Jobs)
  BY LaneFields DEF TypeOK
<1> QED BY <1>1, ElementOfSeq, LenProperties DEF Elements

LEMMA ClearTypes ==
  ASSUME TypeOK, NEW C \in SUBSET Convs, Clear(C)
  PROVE  ended' \subseteq Jobs /\ result' \in [Jobs -> Results]
<1>1. \A c \in C : /\ Elements(lanes[c].queue) \subseteq Jobs /\ Elements(lanes[c].inbox) \subseteq Jobs
                   /\ lanes[c].active \in Jobs \cup {None}
  BY ElementsOfLane, LaneFields DEF TypeOK
<1> DEFINE waits == UNION {Elements(lanes[c].queue) \cup Elements(lanes[c].inbox) : c \in C}
           active == {lanes[c].active : c \in C} \ {None}
<1>2. waits \subseteq Jobs /\ active \subseteq Jobs
  BY <1>1
<1>3. ended' = ended \cup waits \cup active
  BY DEF Clear
<1>4. result' = [j \in Jobs |-> IF j \in waits THEN "cancelled" ELSE result[j]]
  BY DEF Clear
<1> HIDE DEF waits, active
<1> QED BY <1>2, <1>3, <1>4 DEF TypeOK, Results

\* The histories, handles and contexts of the jobs.
LEMMA JobTypes ==
  ASSUME IInv, [Next]_vars
  PROVE  /\ closed' \in BOOLEAN /\ joined' \in BOOLEAN /\ count' \in 0 .. MaxJobs
         /\ req' \in [Jobs -> Requests \cup {None}] /\ ended' \subseteq Jobs /\ merged' \subseteq Jobs
         /\ result' \in [Jobs -> Results] /\ served' \in [Jobs -> Seq(Jobs)]
<1> DEFINE Types == /\ closed \in BOOLEAN /\ joined \in BOOLEAN /\ count \in 0 .. MaxJobs
                    /\ req \in [Jobs -> Requests \cup {None}] /\ ended \subseteq Jobs /\ merged \subseteq Jobs
                    /\ result \in [Jobs -> Results] /\ served \in [Jobs -> Seq(Jobs)]
<1>0. TypeOK /\ Types
  BY DEF IInv, TypeOK
<1>1. CASE \E r \in Requests : Submit(r)
  <2>1. PICK r \in Requests : Submit(r)
    BY <1>1
  <2>2. LET c == r.conv IN c \in Convs /\ lanes[c].active \in Jobs \cup {None}
    BY <1>0, Constants, LaneFields DEF Request, TypeOK
  <2>3. ended' \subseteq ended \cup ({lanes[r.conv].active} \cap Jobs)
    BY <2>1, <2>2 DEF Submit, EmptyLane
  <2>4. count + 1 \in Jobs /\ count' = count + 1
    BY <1>0, <2>1, Constants DEF Submit, Jobs
  <2>5. req' \in [Jobs -> Requests \cup {None}] /\ result' \in [Jobs -> Results]
    BY <1>0, <2>1, <2>4 DEF Submit, Results
  <2> QED BY <1>0, <2>1, <2>3, <2>4, <2>5 DEF Submit, Jobs
<1>2. ASSUME NEW w \in Workers, Step(w) \/ Drain(w) PROVE Types'
  <2>1. worker[w] \in Worker
    BY <1>0 DEF TypeOK
  <2>2. CASE Exit(w) \/ Take(w) \/ Acquire(w) \/ GiveUp(w)
             \/ \E outcome \in {"ok", "error", "pause", "cancelled"} : Return(w, outcome)
    BY <1>0, <2>2 DEF Exit, Take, Acquire, GiveUp, Return
  <2>3. CASE Begin(w)
    <3>1. worker[w].job \in Jobs
      BY <2>3, JobAtWork DEF Begin
    <3>2. \A j \in Jobs : Append(served[j], worker[w].job) \in Seq(Jobs)
      BY <1>0, <3>1, AppendProperties
    <3> QED BY <1>0, <2>3, <3>1, <3>2 DEF Begin
  <2>4. CASE Release(w)
    <3>1. worker[w].job \in Jobs /\ worker[w].outcome \in Results
      BY <2>1, <2>4, JobAtWork DEF Release, Worker, Results
    <3> QED BY <1>0, <2>4, <3>1 DEF Release
  <2>5. CASE Settle(w)
    <3>1. worker[w].consumed \subseteq Jobs /\ worker[w].outcome \in Results /\ "cancelled" \in Results
      BY <2>1 DEF Worker, Results
    <3> QED BY <1>0, <2>5, <3>1 DEF Settle
  <2>6. CASE Drain(w)
    <3>1. worker[w].job \in Jobs
      BY <2>6, JobAtWork DEF Drain
    <3>2. \A j \in Jobs : Append(served[j], worker[w].job) \in Seq(Jobs)
      BY <1>0, <3>1, AppendProperties
    <3> QED BY <1>0, <2>6, <3>2 DEF Drain, Results
  <2> QED BY <1>2, <2>2, <2>3, <2>4, <2>5, <2>6 DEF Step
<1>3. CASE \E c \in Convs : CancelConversation(c)
  <2>1. PICK c \in Convs : CancelConversation(c)
    BY <1>3
  <2> QED BY <1>0, <2>1, ClearTypes DEF CancelConversation
<1>4. CASE Seal
  <2>1. {c \in Convs : lanes[c].live} \in SUBSET Convs
    OBVIOUS
  <2> QED BY <1>0, <1>4, <2>1, ClearTypes DEF Seal
<1>5. CASE (\E j \in Jobs : Cancel(j)) \/ Join \/ UNCHANGED vars
  BY <1>0, <1>5 DEF Cancel, Join, vars
<1> QED BY <1>1, <1>2, <1>3, <1>4, <1>5 DEF Next

LEMMA InvariantInit == Init => IInv
<1> SUFFICES ASSUME Init PROVE IInv
  OBVIOUS
<1>1. TypeOK
  <2>1. lanes \in [Convs -> Lane] /\ worker \in [Workers -> Worker] /\ used \in [Pools -> Nat]
    BY EmptyTypes DEF Init
  <2>2. count \in 0 .. MaxJobs /\ ended \subseteq Jobs /\ merged \subseteq Jobs
    BY Constants DEF Init
  <2>3. /\ req \in [Jobs -> Requests \cup {None}] /\ result \in [Jobs -> Results]
        /\ served \in [Jobs -> Seq(Jobs)]
    BY EmptySeq DEF Init, Results
  <2> QED BY <2>1, <2>2, <2>3 DEF Init, TypeOK
<1>2. \A c \in Convs : LaneOK(lanes[c]) /\ ~lanes[c].running
  BY DEF Init, EmptyLane, LaneOK, Ordered
<1>3. \A w \in Workers : worker[w] = Idle /\ worker[w].pc = "idle" /\ ~worker[w].slot
  BY DEF Init, Idle
<1>4. Known /\ Lanes /\ Served /\ Alone
  BY <1>2, <1>3 DEF Init, Known, Accepted, Lanes, Served, WorkerOK, Alone
<1>5. \A p : Holders(p) = {}
  BY <1>3 DEF Holders
<1>6. PoolsExact
  <2> SUFFICES ASSUME NEW p \in Pools PROVE used[p] = Cardinality(Holders(p)) /\ used[p] <= Slots[p]
    BY DEF PoolsExact, Holders
  <2>1. used[p] = 0 /\ Slots[p] \in Nat /\ Slots[p] > 0
    BY Constants DEF Init
  <2> QED BY <1>5, <2>1, FS_EmptySet
<1> QED BY <1>1, <1>4, <1>6 DEF IInv

\* The lanes, their workers and the slots agree in every reachable state, whatever
\* falls between two sections under s.mu.
THEOREM SchedulerInvariant == Spec => []IInv
<1>1. IInv /\ [Next]_vars => IInv'
  <2> SUFFICES ASSUME IInv, [Next]_vars PROVE IInv'
    OBVIOUS
  <2>1. TypeOK'
    BY LaneSteps, PoolSteps, JobTypes DEF TypeOK
  <2> QED BY <2>1, LaneSteps, PoolSteps DEF IInv
<1> QED BY <1>1, InvariantInit, PTL DEF Spec

\* The types of the scheduler's state.
THEOREM SchedulerTypes == Spec => []TypeOK
BY SchedulerInvariant, PTL DEF IInv

\* docs/ARCHITECTURE.md, a conversation is one sequential lane: at most one worker
\* serves it, whose turn is the active one, and its plain requests wait in the
\* order of their acceptance.
THEOREM SerialLanes == Spec => []SerialLane
<1>1. ASSUME IInv PROVE OneWorker
  <2> SUFFICES ASSUME NEW w \in Workers, worker[w].pc # "idle"
               PROVE  /\ \A v \in Workers : v # w => worker[v].conv # worker[w].conv
                      /\ lanes[worker[w].conv].running
                      /\ Busy(w) => lanes[worker[w].conv].active = worker[w].job
    BY DEF OneWorker
  <2> QED BY <1>1 DEF IInv, Alone, Served, WorkerOK, Agree, Busy
<1>2. IInv => InOrder
  BY DEF IInv, Lanes, LaneOK, Ordered, InOrder
<1> QED BY <1>1, <1>2, SchedulerInvariant, PTL DEF SerialLane

\* scheduler.go, work: each pool counts the workers that hold a slot of it.
THEOREM PoolsHold == Spec => []PoolsExact
BY SchedulerInvariant, PTL DEF IInv

\* What one step does to a paused lane.
LEMMA PausedStep ==
  ASSUME IInv, [Next]_vars, NEW c \in Convs, lanes[c].paused
  PROVE  /\ \A j \in Jobs : lanes[c].active # j /\ lanes'[c].active = j => req[j].approval
         /\ ~lanes'[c].paused =>
               \E w \in Workers : /\ worker[w].conv = c
                                  /\ worker[w].pc = "settle" /\ worker[w].outcome = "ok"
                                  /\ req[worker[w].job].approval
<1> DEFINE Goal == /\ \A j \in Jobs : lanes[c].active # j /\ lanes'[c].active = j => req[j].approval
                   /\ ~lanes'[c].paused =>
                         \E w \in Workers : /\ worker[w].conv = c
                                            /\ worker[w].pc = "settle" /\ worker[w].outcome = "ok"
                                            /\ req[worker[w].job].approval
<1> SUFFICES Goal
  OBVIOUS
<1>0. TypeOK /\ Lanes /\ Served /\ lanes[c] \in Lane /\ LaneOK(lanes[c]) /\ lanes[c].live
  BY DEF IInv, TypeOK, Lanes, LaneOK, EmptyLane
<1>1. ASSUME lanes'[c].active \in {lanes[c].active, None}, lanes'[c].paused PROVE Goal
  BY <1>1, Constants
<1> HIDE DEF Goal
<1>2. CASE lanes'[c] = lanes[c]
  BY <1>1, <1>2
<1>3. CASE \E r \in Requests : Submit(r)
  <2>1. PICK r \in Requests : Submit(r)
    BY <1>3
  <2>2. CASE r.conv # c
    <3>1. \E l : lanes' = [lanes EXCEPT ![r.conv] = l]
      BY <2>1 DEF Submit
    <3>2. lanes'[c] = lanes[c]
      BY <1>0, <2>2, <3>1 DEF TypeOK
    <3> QED BY <1>2, <3>2
  <2>3. CASE r.conv = c
    <3> SUFFICES ASSUME NEW j, j = count + 1, NEW l, l = lanes[c], NEW e, e = Enqueue(l, j, r)
                 PROVE  Goal
      OBVIOUS
    <3>1. j \in Jobs /\ r \in Request /\ l \in Lane
      BY <1>0, <2>1, Constants DEF Submit, TypeOK, Jobs
    <3>6. e.active = l.active /\ e.paused = l.paused
      BY <3>1, EnqueueFields
    <3>2. e \in Lane /\ e.active = lanes[c].active /\ e.paused = lanes[c].paused
      BY <3>1, <3>6, EnqueueType
    <3> DEFINE m == [e EXCEPT !.running = TRUE]
    <3>3. m.active = e.active /\ m.paused = e.paused
      BY <3>2 DEF Lane
    <3>4. lanes' = [lanes EXCEPT ![c] = e] \/ lanes' = [lanes EXCEPT ![c] = m]
      BY <1>0, <2>1, <2>3 DEF Submit
    <3> HIDE DEF m
    <3>5. lanes'[c] = e \/ lanes'[c] = m
      BY <1>0, <3>4 DEF TypeOK
    <3> QED BY <1>1, <3>2, <3>3, <3>5
  <2> QED BY <2>2, <2>3
<1>4. ASSUME NEW w \in Workers, Step(w) \/ Drain(w) PROVE Goal
  <2>1. worker[w].pc # "idle" /\ worker[w].conv \in Convs
    BY <1>0, <1>4, AtWork, Stirs
  <2>2. CASE worker[w].conv # c
    <3>1. UNCHANGED lanes \/ \E l : lanes' = [lanes EXCEPT ![worker[w].conv] = l]
      BY <1>4 DEF Step, Exit, Take, Acquire, GiveUp, Begin, Return, Release, Settle, Drain
    <3>2. lanes'[c] = lanes[c]
      BY <1>0, <2>2, <3>1 DEF TypeOK
    <3> QED BY <1>2, <3>2
  <2>3. CASE worker[w].conv = c
    <3>1. CASE Acquire(w) \/ GiveUp(w) \/ Begin(w) \/ Release(w)
               \/ \E outcome \in {"ok", "error", "pause", "cancelled"} : Return(w, outcome)
      BY <1>2, <3>1 DEF Acquire, GiveUp, Begin, Return, Release
    <3>2. CASE Exit(w)
      <4>1. lanes'[c] = [lanes[c] EXCEPT !.running = FALSE]
        BY <1>0, <2>3, <3>2 DEF Exit, TypeOK
      <4>2. lanes'[c].active = lanes[c].active /\ lanes'[c].paused
        BY <1>0, <4>1 DEF Lane
      <4> QED BY <1>1, <4>2
    <3>3. CASE Drain(w)
      <4>1. lanes'[c] = [lanes[c] EXCEPT !.inbox = <<>>]
        BY <1>0, <2>3, <3>3 DEF Drain, Emptied, TypeOK
      <4>2. lanes'[c].active = lanes[c].active /\ lanes'[c].paused
        BY <1>0, <4>1 DEF Lane
      <4> QED BY <1>1, <4>2
    <3>4. CASE Take(w)
      <4> DEFINE q == lanes[c].queue
      <4>1. lanes'[c] = [lanes[c] EXCEPT !.queue = Tail(q), !.active = Head(q)]
        BY <1>0, <2>3, <3>4 DEF Take, TypeOK
      <4>2. lanes'[c].active = Head(q) /\ lanes'[c].paused
        BY <1>0, <4>1 DEF Lane
      <4>3. req[Head(q)].approval
        BY <2>3, <3>4 DEF Take, Ready
      <4> QED BY <4>2, <4>3 DEF Goal
    <3>5. CASE Settle(w)
      <4> DEFINE m == Requeued(lanes[c])
                 b == \/ worker[w].outcome = "pause"
                      \/ m.paused /\ ~(req[worker[w].job].approval /\ worker[w].outcome = "ok")
      <4>1. lanes' = [lanes EXCEPT ![c] = Pause(m, worker[w].job, worker[w].outcome)]
        BY <2>3, <3>5 DEF Settle
      <4>2. lanes'[c] = [m EXCEPT !.paused = b]
        BY <1>0, <4>1 DEF TypeOK, Pause
      <4>3. m \in Lane /\ m.active = None /\ m.paused
        BY <1>0, RequeuedType DEF Requeued, Lane
      <4> HIDE DEF m
      <4>4. b \in BOOLEAN
        OBVIOUS
      <4> HIDE DEF b
      <4>5. lanes'[c].active = None /\ lanes'[c].paused = b
        BY <4>2, <4>3 DEF Lane
      <4>6. CASE b
        BY <1>1, <4>5, <4>6
      <4>7. CASE ~b
        <5>1. req[worker[w].job].approval /\ worker[w].outcome = "ok" /\ worker[w].pc = "settle"
          BY <3>5, <4>3, <4>7 DEF b, Settle
        <5> QED BY <2>3, <4>5, <5>1, Constants DEF Goal
      <4> QED BY <4>4, <4>6, <4>7
    <3> QED BY <1>4, <3>1, <3>2, <3>3, <3>4, <3>5 DEF Step
  <2> QED BY <2>2, <2>3
<1>5. ASSUME NEW C \in SUBSET Convs, Clear(C) PROVE Goal
  <2>1. lanes'[c] \in {lanes[c], [lanes[c] EXCEPT !.queue = <<>>, !.inbox = <<>>]}
    BY <1>5 DEF Clear
  <2>2. lanes'[c].active = lanes[c].active /\ lanes'[c].paused
    BY <1>0, <2>1 DEF Lane
  <2> QED BY <1>1, <2>2
<1>6. CASE \E d \in Convs : CancelConversation(d)
  BY <1>5, <1>6 DEF CancelConversation
<1>7. CASE Seal
  <2>1. {d \in Convs : lanes[d].live} \in SUBSET Convs
    OBVIOUS
  <2> QED BY <1>5, <1>7, <2>1 DEF Seal
<1>8. CASE (\E j \in Jobs : Cancel(j)) \/ Join \/ UNCHANGED vars
  BY <1>2, <1>8 DEF Cancel, Join, vars
<1> QED BY <1>3, <1>4, <1>6, <1>7, <1>8 DEF Next

\* docs/ARCHITECTURE.md: while a lane is paused only an approval starts in it, and
\* only the turn of an approval that succeeds lifts the pause.
THEOREM PauseKept == Spec => PauseHolds
<1>1. IInv /\ [Next]_vars =>
        [ \A c \in Convs : lanes[c].paused =>
            /\ \A j \in Jobs : lanes[c].active # j /\ lanes'[c].active = j => req[j].approval
            /\ ~lanes'[c].paused =>
                  \E w \in Workers : /\ worker[w].conv = c
                                     /\ worker[w].pc = "settle" /\ worker[w].outcome = "ok"
                                     /\ req[worker[w].job].approval
        ]_vars
  BY PausedStep
<1> QED BY <1>1, SchedulerInvariant, PTL DEF Spec, PauseHolds

-----------------------------------------------------------------------------
(* Where a job is                                                          *)

AtTurn == {"slot", "begin", "run", "release"}

\* Job j is at place n of a queue or an inbox, the turn of a worker, or merged
\* into it.
Stands(x, a, n, j) ==
  \/ x = "queue" /\ a \in Convs /\ n \in DOMAIN lanes[a].queue /\ lanes[a].queue[n] = j
  \/ x = "inbox" /\ a \in Convs /\ n \in DOMAIN lanes[a].inbox /\ lanes[a].inbox[n] = j
  \/ x = "turn"  /\ a \in Workers /\ n = 0 /\ worker[a].pc \in AtTurn /\ worker[a].job = j
  \/ x = "merge" /\ a \in Workers /\ n = 0 /\ j \in worker[a].consumed

Somewhere(j) == \E x, a, n : Stands(x, a, n, j)

Unique(j) ==
  \A x, a, n, y, b, m : Stands(x, a, n, j) /\ Stands(y, b, m, j) => x = y /\ a = b /\ n = m

\* An open handle has its job somewhere, once; a finished one nowhere.
Once(j) ==
  /\ Unique(j)
  /\ Somewhere(j) <=> result[j] = "waiting"
  /\ result[j] = "none" <=> j \notin Accepted

Vacant(r) ==
  /\ r.pc \in {"idle", "loop"} => r.job = None
  /\ r.consumed # {} => r.pc \in {"run", "release", "settle"}
  /\ r.pc \in {"release", "settle"} => r.outcome # "none"

PInv == /\ \A j \in Jobs : Once(j)
        /\ \A w \in Workers : Vacant(worker[w])
        /\ \A c \in Convs : Waiting(lanes[c]) <= Capacity

\* A step that leaves job j where it is.
LEMMA OnceSame ==
  ASSUME NEW j \in Jobs, Once(j), UNCHANGED count, result'[j] = result[j],
         \A x, a, n : Stands(x, a, n, j)' <=> Stands(x, a, n, j)
  PROVE  Once(j)'
<1>1. Unique(j)'
  BY DEF Once, Unique
<1>2. Somewhere(j)' <=> Somewhere(j)
  BY DEF Somewhere
<1> QED BY <1>1, <1>2 DEF Once, Accepted

\* A step of the goroutine w that keeps its turn and its lane.
LEMMA PlacesKept ==
  ASSUME TypeOK, PInv, NEW w \in Workers, NEW r, worker' = [worker EXCEPT ![w] = r],
         UNCHANGED <<lanes, count, result>>, worker[w].pc \in AtTurn, r.pc \in AtTurn,
         r.job = worker[w].job, r.consumed = worker[w].consumed,
         r.consumed # {} => r.pc \in {"run", "release"}, r.pc = "release" => r.outcome # "none"
  PROVE  PInv'
<1>1. worker'[w] = r /\ \A v \in Workers \ {w} : worker'[v] = worker[v]
  BY DEF TypeOK
<1>2. ASSUME NEW j, NEW x, NEW a, NEW n PROVE Stands(x, a, n, j)' <=> Stands(x, a, n, j)
  BY <1>1 DEF Stands
<1>3. \A j \in Jobs : Once(j)'
  BY <1>2, OnceSame DEF PInv
<1>4. \A v \in Workers : Vacant(worker[v])'
  BY <1>1 DEF PInv, Vacant, AtTurn
<1> QED BY <1>3, <1>4 DEF PInv, Waiting

LEMMA PlacesTake ==
  ASSUME IInv, PInv, NEW w \in Workers, Take(w)
  PROVE  PInv'
<1> DEFINE c == worker[w].conv
<1> SUFFICES ASSUME NEW d, d = c, NEW q, q = lanes[d].queue PROVE PInv'
  OBVIOUS
<1> HIDE DEF c
<1>0. /\ TypeOK /\ d \in Convs /\ lanes[d] \in Lane /\ q \in Seq(Jobs) /\ q # <<>>
      /\ worker[w] \in Worker /\ worker[w].pc = "loop" /\ worker[w].consumed = {}
      /\ UNCHANGED <<count, result>>
  BY AtWork, LaneFields DEF IInv, Take, Ready, PInv, Vacant, c
<1>1. /\ worker'[w].pc = "slot" /\ worker'[w].job = Head(q) /\ worker'[w].consumed = {}
      /\ \A v \in Workers \ {w} : worker'[v] = worker[v]
  <2> DEFINE r == [worker[w] EXCEPT !.pc = "slot", !.job = Head(q)]
  <2>1. worker' = [worker EXCEPT ![w] = r]
    BY DEF Take, c
  <2>2. r.pc = "slot" /\ r.job = Head(q) /\ r.consumed = {}
    BY <1>0 DEF Worker
  <2> HIDE DEF r
  <2> QED BY <1>0, <2>1, <2>2 DEF TypeOK
<1>2. /\ lanes'[d].queue = Tail(q) /\ lanes'[d].inbox = lanes[d].inbox
      /\ \A e \in Convs \ {d} : lanes'[e] = lanes[e]
  <2> DEFINE l == [lanes[d] EXCEPT !.queue = Tail(q), !.active = Head(q)]
  <2>1. lanes' = [lanes EXCEPT ![d] = l]
    BY DEF Take, c
  <2>2. l.queue = Tail(q) /\ l.inbox = lanes[d].inbox
    BY <1>0 DEF Lane
  <2> HIDE DEF l
  <2> QED BY <1>0, <2>1, <2>2 DEF TypeOK
<1>3. /\ Len(q) \in Nat /\ Len(q) > 0 /\ DOMAIN q = 1 .. Len(q) /\ Head(q) = q[1]
      /\ DOMAIN Tail(q) = 1 .. Len(q) - 1 /\ Len(Tail(q)) = Len(q) - 1
      /\ \A k \in 1 .. Len(q) - 1 : Tail(q)[k] = q[k + 1]
  BY <1>0, HeadTailProperties, EmptySeq, LenProperties
<1>4. ASSUME NEW j, NEW x, NEW a, NEW n, Stands(x, a, n, j)'
      PROVE  \/ Stands(x, a, n, j) /\ ~(x = "queue" /\ a = d) /\ ~(x = "turn" /\ a = w)
             \/ x = "queue" /\ a = d /\ n \in 1 .. Len(q) - 1 /\ Stands("queue", d, n + 1, j)
             \/ x = "turn" /\ a = w /\ n = 0 /\ Stands("queue", d, 1, j)
  <2>1. CASE x = "queue" /\ a = d
    <3>1. n \in DOMAIN Tail(q) /\ Tail(q)[n] = j
      BY <1>2, <1>4, <2>1 DEF Stands
    <3>2. n \in 1 .. Len(q) - 1 /\ n + 1 \in DOMAIN q /\ q[n + 1] = j
      BY <1>3, <3>1
    <3> QED BY <1>0, <2>1, <3>2 DEF Stands
  <2>2. CASE x = "turn" /\ a = w
    BY <1>0, <1>1, <1>3, <1>4, <2>2 DEF Stands
  <2>3. CASE ~(x = "queue" /\ a = d) /\ ~(x = "turn" /\ a = w)
    BY <1>0, <1>1, <1>2, <1>4, <2>3 DEF Stands
  <2> QED BY <2>1, <2>2, <2>3
<1>5. ASSUME NEW j, NEW x, NEW a, NEW n, Stands(x, a, n, j)
      PROVE  Somewhere(j)'
  <2>1. CASE x = "queue" /\ a = d /\ n = 1
    <3>1. Stands("turn", w, 0, j)'
      BY <1>0, <1>1, <1>3, <1>5, <2>1 DEF Stands, AtTurn
    <3> QED BY <3>1 DEF Somewhere
  <2>2. CASE x = "queue" /\ a = d /\ n # 1
    <3>1. n \in 2 .. Len(q) /\ q[n] = j
      BY <1>0, <1>3, <1>5, <2>2 DEF Stands
    <3>2. n - 1 \in 1 .. Len(q) - 1 /\ Tail(q)[n - 1] = j
      BY <1>3, <3>1
    <3>3. Stands("queue", d, n - 1, j)'
      BY <1>0, <1>2, <1>3, <3>2 DEF Stands
    <3> QED BY <3>3 DEF Somewhere
  <2>3. CASE ~(x = "queue" /\ a = d)
    <3>1. Stands(x, a, n, j)'
      BY <1>0, <1>1, <1>2, <1>5, <2>3 DEF Stands, AtTurn
    <3> QED BY <3>1 DEF Somewhere
  <2> QED BY <2>1, <2>2, <2>3
<1>6. ASSUME NEW j \in Jobs PROVE Once(j)'
  <2>0. Once(j)
    BY DEF PInv
  <2>1. Unique(j)'
    <3> SUFFICES ASSUME NEW x, NEW a, NEW n, NEW y, NEW b, NEW m, Stands(x, a, n, j)', Stands(y, b, m, j)'
                 PROVE  x = y /\ a = b /\ n = m
      BY DEF Unique
    <3>1. /\ \/ Stands(x, a, n, j) /\ ~(x = "queue" /\ a = d) /\ ~(x = "turn" /\ a = w)
             \/ x = "queue" /\ a = d /\ n \in 1 .. Len(q) - 1 /\ Stands("queue", d, n + 1, j)
             \/ x = "turn" /\ a = w /\ n = 0 /\ Stands("queue", d, 1, j)
          /\ \/ Stands(y, b, m, j) /\ ~(y = "queue" /\ b = d) /\ ~(y = "turn" /\ b = w)
             \/ y = "queue" /\ b = d /\ m \in 1 .. Len(q) - 1 /\ Stands("queue", d, m + 1, j)
             \/ y = "turn" /\ b = w /\ m = 0 /\ Stands("queue", d, 1, j)
      BY <1>4
    <3> QED BY <1>3, <2>0, <3>1 DEF Once, Unique
  <2>2. Somewhere(j)' <=> Somewhere(j)
    BY <1>4, <1>5 DEF Somewhere
  <2> QED BY <1>0, <2>0, <2>1, <2>2 DEF Once, Accepted
<1>7. \A v \in Workers : Vacant(worker[v])'
  BY <1>1 DEF PInv, Vacant
<1>8. \A e \in Convs : Waiting(lanes[e])' <= Capacity
  <2>1. Len(lanes[d].inbox) \in Nat
    BY <1>0, LaneFields, LenProperties
  <2>2. Len(q) + Len(lanes[d].inbox) <= Capacity /\ Capacity \in Nat
    BY <1>0, SchedulerConstants DEF PInv, Waiting
  <2>5. \A x, y, z, t \in Nat : t = x - 1 /\ x + y <= z => t + y <= z
    OBVIOUS
  <2>6. Len(Tail(q)) \in Nat
    BY <1>3
  <2>3. Len(Tail(q)) + Len(lanes[d].inbox) <= Capacity
    BY <1>3, <2>1, <2>2, <2>5, <2>6
  <2>4. Waiting(lanes[d])' <= Capacity
    BY <1>2, <2>3 DEF Waiting
  <2> QED BY <1>2, <2>4 DEF PInv, Waiting
<1> QED BY <1>6, <1>7, <1>8 DEF PInv

LEMMA PlacesExit ==
  ASSUME IInv, PInv, NEW w \in Workers, Exit(w)
  PROVE  PInv'
<1> SUFFICES ASSUME NEW d, d = worker[w].conv PROVE PInv'
  OBVIOUS
<1>0. /\ TypeOK /\ d \in Convs /\ lanes[d] \in Lane /\ worker[w].pc = "loop"
      /\ worker[w].consumed = {} /\ UNCHANGED <<count, result>>
      /\ lanes[d].active = None /\ lanes[d].inbox = <<>>
  BY AtWork DEF IInv, Exit, PInv, Vacant, Agree, LaneOK
<1>1. worker'[w] = Idle /\ \A v \in Workers \ {w} : worker'[v] = worker[v]
  BY <1>0 DEF Exit, TypeOK
<1>2. /\ lanes'[d].queue = lanes[d].queue /\ lanes'[d].inbox = lanes[d].inbox
      /\ \A e \in Convs \ {d} : lanes'[e] = lanes[e]
  <2>1. CASE lanes[d].paused
    <3> DEFINE l == [lanes[d] EXCEPT !.running = FALSE]
    <3>1. lanes' = [lanes EXCEPT ![d] = l]
      BY <2>1 DEF Exit
    <3>2. l.queue = lanes[d].queue /\ l.inbox = lanes[d].inbox
      BY <1>0 DEF Lane
    <3> HIDE DEF l
    <3> QED BY <1>0, <3>1, <3>2 DEF TypeOK
  <2>2. CASE ~lanes[d].paused
    <3>1. lanes' = [lanes EXCEPT ![d] = EmptyLane] /\ lanes[d].queue = <<>>
      BY <2>2 DEF Exit, Ready
    <3>2. EmptyLane.queue = <<>> /\ EmptyLane.inbox = <<>>
      BY DEF EmptyLane
    <3> QED BY <1>0, <3>1, <3>2 DEF TypeOK
  <2> QED BY <2>1, <2>2
<1>3. Idle.pc = "idle" /\ Idle.job = None /\ Idle.consumed = {}
  BY DEF Idle
<1>4. ASSUME NEW j, NEW x, NEW a, NEW n PROVE Stands(x, a, n, j)' <=> Stands(x, a, n, j)
  <2>1. CASE x \in {"queue", "inbox"}
    BY <1>2, <2>1 DEF Stands
  <2>2. CASE x \notin {"queue", "inbox"}
    BY <1>0, <1>1, <1>3, <2>2 DEF Stands, AtTurn
  <2> QED BY <2>1, <2>2
<1>5. \A j \in Jobs : Once(j)'
  BY <1>0, <1>4, OnceSame DEF PInv
<1>6. \A v \in Workers : Vacant(worker[v])'
  BY <1>1, <1>3 DEF PInv, Vacant
<1>7. \A e \in Convs : Waiting(lanes[e])' <= Capacity
  BY <1>2 DEF PInv, Waiting
<1> QED BY <1>5, <1>6, <1>7 DEF PInv

LEMMA PlacesRelease ==
  ASSUME IInv, PInv, NEW w \in Workers, Release(w)
  PROVE  PInv'
<1> SUFFICES ASSUME NEW i, i = worker[w].job PROVE PInv'
  OBVIOUS
<1>0. /\ TypeOK /\ worker[w] \in Worker /\ worker[w].pc = "release" /\ i \in Jobs
      /\ UNCHANGED <<lanes, count>> /\ worker[w].outcome \notin {"none", "waiting"}
  BY JobAtWork DEF IInv, TypeOK, Release, PInv, Vacant, Worker
<1>1. /\ worker'[w].pc = "settle" /\ worker'[w].job = i /\ worker'[w].outcome = worker[w].outcome
      /\ worker'[w].consumed = worker[w].consumed
      /\ \A v \in Workers \ {w} : worker'[v] = worker[v]
  <2> DEFINE r == [worker[w] EXCEPT !.pc = "settle", !.slot = FALSE]
  <2>1. worker' = [worker EXCEPT ![w] = r]
    BY DEF Release
  <2>2. /\ r.pc = "settle" /\ r.job = i /\ r.outcome = worker[w].outcome
        /\ r.consumed = worker[w].consumed
    BY <1>0 DEF Worker
  <2> HIDE DEF r
  <2> QED BY <1>0, <2>1, <2>2 DEF TypeOK
<1>2. \A j \in Jobs : result'[j] = IF j = i THEN worker[w].outcome ELSE result[j]
  BY <1>0 DEF Release, TypeOK
<1>3. ASSUME NEW j, NEW x, NEW a, NEW n
      PROVE  Stands(x, a, n, j)' <=> Stands(x, a, n, j) /\ ~(x = "turn" /\ a = w)
  BY <1>0, <1>1 DEF Stands, AtTurn
<1>4. Stands("turn", w, 0, i)
  BY <1>0 DEF Stands, AtTurn
<1>5. ASSUME NEW j \in Jobs PROVE Once(j)'
  <2>0. Once(j)
    BY DEF PInv
  <2>1. CASE j = i
    <3>1. \A x, a, n : ~Stands(x, a, n, j)'
      BY <1>3, <1>4, <2>0, <2>1 DEF Once, Unique
    <3>2. result[j] = "waiting" /\ result'[j] \notin {"none", "waiting"}
      BY <1>0, <1>2, <1>4, <2>0, <2>1 DEF Once, Somewhere
    <3> QED BY <1>0, <2>0, <3>1, <3>2 DEF Once, Unique, Somewhere, Accepted
  <2>2. CASE j # i
    <3>0. \A n : ~Stands("turn", w, n, j)
      BY <2>2 DEF Stands
    <3>1. \A x, a, n : Stands(x, a, n, j)' <=> Stands(x, a, n, j)
      BY <1>3, <3>0
    <3> QED BY <1>0, <1>2, <2>0, <2>2, <3>1, OnceSame
  <2> QED BY <2>1, <2>2
<1>6. \A v \in Workers : Vacant(worker[v])'
  BY <1>0, <1>1 DEF PInv, Vacant
<1> QED BY <1>0, <1>5, <1>6 DEF PInv, Waiting

LEMMA PlacesDrain ==
  ASSUME IInv, PInv, NEW w \in Workers, Drain(w)
  PROVE  PInv'
<1> SUFFICES ASSUME NEW d, d = worker[w].conv, NEW q, q = lanes[d].inbox, NEW S, S = Alive(q)
             PROVE  PInv'
  OBVIOUS
<1>0. /\ TypeOK /\ d \in Convs /\ lanes[d] \in Lane /\ q \in Seq(Jobs)
      /\ worker[w] \in Worker /\ worker[w].pc = "run" /\ UNCHANGED count
  BY AtWork, LaneFields DEF IInv, Drain
<1>1. /\ worker'[w].pc = "run" /\ worker'[w].job = worker[w].job
      /\ worker'[w].consumed = worker[w].consumed \cup S
      /\ \A v \in Workers \ {w} : worker'[v] = worker[v]
  <2> DEFINE r == [worker[w] EXCEPT !.consumed = @ \cup S]
  <2>1. worker' = [worker EXCEPT ![w] = r]
    BY DEF Drain
  <2>2. r.pc = "run" /\ r.job = worker[w].job /\ r.consumed = worker[w].consumed \cup S
    BY <1>0 DEF Worker
  <2> HIDE DEF r
  <2> QED BY <1>0, <2>1, <2>2 DEF TypeOK
<1>2. /\ lanes'[d].queue = lanes[d].queue /\ lanes'[d].inbox = <<>>
      /\ \A e \in Convs \ {d} : lanes'[e] = lanes[e]
  <2> DEFINE l == [lanes[d] EXCEPT !.inbox = <<>>]
  <2>1. lanes' = [lanes EXCEPT ![d] = l]
    BY DEF Drain, Emptied
  <2>2. l.queue = lanes[d].queue /\ l.inbox = <<>>
    BY <1>0 DEF Lane
  <2> HIDE DEF l
  <2> QED BY <1>0, <2>1, <2>2 DEF TypeOK
<1>3. /\ \A j \in Jobs : result'[j] = IF j \in Elements(q) \cap ended THEN "cancelled" ELSE result[j]
      /\ S = Elements(q) \ ended
  BY <1>0 DEF Drain, Alive, TypeOK
<1>4. \A j : j \in Elements(q) <=> \E n : Stands("inbox", d, n, j)
  BY <1>0 DEF Stands, Elements
<1>5. ASSUME NEW j, NEW x, NEW a, NEW n
      PROVE  Stands(x, a, n, j)' <=>
                   \/ Stands(x, a, n, j) /\ ~(x = "inbox" /\ a = d)
                   \/ x = "merge" /\ a = w /\ n = 0 /\ j \in S
  <2>1. CASE x = "inbox" /\ a = d
    BY <1>0, <1>2, <2>1, EmptySeq DEF Stands
  <2>2. CASE x = "merge" /\ a = w
    BY <1>0, <1>1, <2>2 DEF Stands
  <2>3. CASE ~(x = "inbox" /\ a = d) /\ ~(x = "merge" /\ a = w)
    BY <1>0, <1>1, <1>2, <2>3 DEF Stands
  <2> QED BY <2>1, <2>2, <2>3
<1>6. ASSUME NEW j \in Jobs PROVE Once(j)'
  <2>0. Once(j) /\ Accepted' = Accepted
    BY <1>0 DEF PInv, Accepted
  <2>1. CASE j \notin Elements(q)
    <3>1. \A x, a, n : Stands(x, a, n, j)' <=> Stands(x, a, n, j)
      BY <1>3, <1>4, <1>5, <2>1
    <3> QED BY <1>0, <1>3, <2>0, <2>1, <3>1, OnceSame
  <2>2. CASE j \in Elements(q)
    <3>1. PICK k : Stands("inbox", d, k, j)
      BY <1>4, <2>2
    <3>2. \A x, a, n : Stands(x, a, n, j) => x = "inbox" /\ a = d
      BY <2>0, <3>1 DEF Once, Unique
    <3>3. \A x, a, n : Stands(x, a, n, j)' <=> x = "merge" /\ a = w /\ n = 0 /\ j \in S
      BY <1>5, <3>2
    <3>4. Unique(j)' /\ (Somewhere(j)' <=> j \in S)
      BY <3>3 DEF Unique, Somewhere
    <3>5. result[j] = "waiting"
      BY <2>0, <3>1 DEF Once, Somewhere
    <3> QED BY <1>3, <2>0, <2>2, <3>4, <3>5 DEF Once
  <2> QED BY <2>1, <2>2
<1>7. \A v \in Workers : Vacant(worker[v])'
  BY <1>0, <1>1 DEF PInv, Vacant
<1>8. \A e \in Convs : Waiting(lanes[e])' <= Capacity
  <2>1. /\ Len(lanes[d].queue) \in Nat /\ Len(q) \in Nat /\ Len(<<>>) = 0
        /\ Len(lanes[d].queue) + Len(q) <= Capacity /\ Capacity \in Nat
    BY <1>0, LaneFields, LenProperties, EmptySeq, SchedulerConstants DEF PInv, Waiting
  <2>2. \A x, y, z \in Nat : x + y <= z => x + 0 <= z
    OBVIOUS
  <2>3. Len(lanes[d].queue) + Len(<<>>) <= Capacity
    BY <2>1, <2>2
  <2> QED BY <1>2, <2>3 DEF PInv, Waiting
<1> QED BY <1>6, <1>7, <1>8 DEF PInv

LEMMA PlacesSettle ==
  ASSUME IInv, PInv, NEW w \in Workers, Settle(w)
  PROVE  PInv'
<1> SUFFICES ASSUME NEW d, d = worker[w].conv, NEW q, q = lanes[d].queue, NEW b, b = lanes[d].inbox,
                    NEW S, S = worker[w].consumed
             PROVE  PInv'
  OBVIOUS
<1>0. /\ TypeOK /\ d \in Convs /\ lanes[d] \in Lane /\ q \in Seq(Jobs) /\ b \in Seq(Jobs)
      /\ worker[w] \in Worker /\ worker[w].pc = "settle" /\ UNCHANGED count
      /\ worker[w].outcome \notin {"none", "waiting"} /\ S \subseteq Jobs
  BY AtWork, LaneFields DEF IInv, Settle, PInv, Vacant, Worker
<1>1. /\ worker'[w].pc = "loop" /\ worker'[w].job = None /\ worker'[w].consumed = {}
      /\ \A v \in Workers \ {w} : worker'[v] = worker[v]
  <2> DEFINE r == [Idle EXCEPT !.pc = "loop", !.conv = d]
  <2>1. worker' = [worker EXCEPT ![w] = r]
    BY DEF Settle
  <2>2. r.pc = "loop" /\ r.job = None /\ r.consumed = {}
    BY DEF Idle
  <2> HIDE DEF r
  <2> QED BY <1>0, <2>1, <2>2 DEF TypeOK
<1>2. /\ lanes'[d].queue = q \o b /\ lanes'[d].inbox = <<>>
      /\ \A e \in Convs \ {d} : lanes'[e] = lanes[e]
  <2> DEFINE m == Requeued(lanes[d])
             u == \/ worker[w].outcome = "pause"
                  \/ m.paused /\ ~(req[worker[w].job].approval /\ worker[w].outcome = "ok")
             l == [m EXCEPT !.paused = u]
  <2>1. lanes' = [lanes EXCEPT ![d] = l]
    BY DEF Settle, Pause
  <2>2. m \in Lane /\ m.queue = q \o b /\ m.inbox = <<>>
    BY <1>0, RequeuedType DEF Requeued, Lane
  <2> HIDE DEF m, u
  <2>3. l.queue = m.queue /\ l.inbox = m.inbox
    BY <2>2 DEF Lane
  <2> HIDE DEF l
  <2> QED BY <1>0, <2>1, <2>2, <2>3 DEF TypeOK
<1>3. \A j \in Jobs : IF j \in S THEN result'[j] \notin {"none", "waiting"} ELSE result'[j] = result[j]
  BY <1>0 DEF Settle
<1>4. Joined(q, b, q \o b)
  BY <1>0, ConcatPlaces
<1>5. ASSUME NEW j, NEW x, NEW a, NEW n, Stands(x, a, n, j)'
      PROVE  \/ Stands(x, a, n, j) /\ ~(x = "inbox" /\ a = d) /\ ~(x = "merge" /\ a = w)
             \/ x = "queue" /\ a = d /\ n \in Nat /\ Stands("inbox", d, n - Len(q), j)
  <2>1. CASE x = "queue" /\ a = d
    <3>1. n \in DOMAIN (q \o b) /\ (q \o b)[n] = j
      BY <1>2, <1>5, <2>1 DEF Stands
    <3>2. \/ n \in DOMAIN q /\ q[n] = j
          \/ n \in Nat /\ n - Len(q) \in DOMAIN b /\ b[n - Len(q)] = j
      BY <1>4, <3>1 DEF Joined
    <3> QED BY <1>0, <2>1, <3>2 DEF Stands
  <2>2. CASE (x = "inbox" /\ a = d) \/ (x = "merge" /\ a = w)
    BY <1>0, <1>1, <1>2, <1>5, <2>2, EmptySeq DEF Stands
  <2>3. CASE ~(x = "inbox" /\ a = d) /\ ~(x = "merge" /\ a = w) /\ ~(x = "queue" /\ a = d)
    BY <1>0, <1>1, <1>2, <1>5, <2>3 DEF Stands, AtTurn
  <2> QED BY <2>1, <2>2, <2>3
<1>6. ASSUME NEW j, NEW x, NEW a, NEW n, Stands(x, a, n, j), ~(x = "merge" /\ a = w)
      PROVE  Somewhere(j)'
  <2>1. CASE x = "inbox" /\ a = d
    <3>1. n \in DOMAIN b /\ b[n] = j
      BY <1>4, <1>6, <2>1 DEF Stands
    <3>2. Len(q) + n \in DOMAIN (q \o b) /\ (q \o b)[Len(q) + n] = j
      BY <1>4, <3>1 DEF Joined
    <3>3. Stands("queue", d, Len(q) + n, j)'
      BY <1>0, <1>2, <3>2 DEF Stands
    <3> QED BY <3>3 DEF Somewhere
  <2>2. CASE x = "queue" /\ a = d
    <3>1. n \in DOMAIN q /\ q[n] = j
      BY <1>4, <1>6, <2>2 DEF Stands
    <3>2. n \in DOMAIN (q \o b) /\ (q \o b)[n] = j
      BY <1>4, <3>1 DEF Joined
    <3>3. Stands("queue", d, n, j)'
      BY <1>0, <1>2, <3>2 DEF Stands
    <3> QED BY <3>3 DEF Somewhere
  <2>3. CASE ~(x = "inbox" /\ a = d) /\ ~(x = "queue" /\ a = d)
    <3>1. Stands(x, a, n, j)'
      BY <1>0, <1>1, <1>2, <1>6, <2>3 DEF Stands, AtTurn
    <3> QED BY <3>1 DEF Somewhere
  <2> QED BY <2>1, <2>2, <2>3
<1>7. ASSUME NEW j \in Jobs PROVE Once(j)'
  <2>0. Once(j) /\ Accepted' = Accepted
    BY <1>0 DEF PInv, Accepted
  <2>1. Unique(j)'
    <3> SUFFICES ASSUME NEW x, NEW a, NEW n, NEW y, NEW e, NEW m, Stands(x, a, n, j)', Stands(y, e, m, j)'
                 PROVE  x = y /\ a = e /\ n = m
      BY DEF Unique
    <3>1. /\ \/ Stands(x, a, n, j) /\ ~(x = "inbox" /\ a = d) /\ ~(x = "merge" /\ a = w)
             \/ x = "queue" /\ a = d /\ n \in Nat /\ Stands("inbox", d, n - Len(q), j)
          /\ \/ Stands(y, e, m, j) /\ ~(y = "inbox" /\ e = d) /\ ~(y = "merge" /\ e = w)
             \/ y = "queue" /\ e = d /\ m \in Nat /\ Stands("inbox", d, m - Len(q), j)
      BY <1>5
    <3>2. Len(q) \in Nat /\ Unique(j)
      BY <1>4, <2>0 DEF Once, Joined
    <3>3. CASE Stands(x, a, n, j) /\ Stands(y, e, m, j)
      BY <3>2, <3>3 DEF Unique
    <3>4. CASE /\ x = "queue" /\ a = d /\ n \in Nat /\ Stands("inbox", d, n - Len(q), j)
               /\ y = "queue" /\ e = d /\ m \in Nat /\ Stands("inbox", d, m - Len(q), j)
      <4>1. n - Len(q) = m - Len(q)
        BY <3>2, <3>4 DEF Unique
      <4> QED BY <3>2, <3>4, <4>1
    <3>5. CASE Stands("inbox", d, n - Len(q), j) /\ Stands(y, e, m, j) /\ ~(y = "inbox" /\ e = d)
      BY <3>2, <3>5 DEF Unique
    <3>6. CASE Stands("inbox", d, m - Len(q), j) /\ Stands(x, a, n, j) /\ ~(x = "inbox" /\ a = d)
      BY <3>2, <3>6 DEF Unique
    <3> QED BY <3>1, <3>3, <3>4, <3>5, <3>6
  <2>2. j \in S <=> Stands("merge", w, 0, j)
    BY DEF Stands
  <2>3. CASE j \in S
    <3>1. \A x, a, n : Stands(x, a, n, j) => x = "merge" /\ a = w
      BY <2>0, <2>2, <2>3 DEF Once, Unique
    <3>2. ~Somewhere(j)' /\ result[j] = "waiting"
      BY <1>5, <2>0, <2>2, <2>3, <3>1 DEF Somewhere, Once
    <3> QED BY <1>3, <2>0, <2>1, <2>3, <3>2 DEF Once
  <2>4. CASE j \notin S
    <3>1. \A n : ~Stands("merge", w, n, j)
      BY <2>4 DEF Stands
    <3>2. Somewhere(j)' <=> Somewhere(j)
      BY <1>5, <1>6, <3>1 DEF Somewhere
    <3> QED BY <1>3, <2>0, <2>1, <2>4, <3>2 DEF Once
  <2> QED BY <2>3, <2>4
<1>8. \A v \in Workers : Vacant(worker[v])'
  BY <1>1 DEF PInv, Vacant
<1>9. \A e \in Convs : Waiting(lanes[e])' <= Capacity
  <2>4. Len(q) + Len(b) <= Capacity
    BY <1>0 DEF PInv, Waiting
  <2>6. Len(q) \in Nat /\ Len(b) \in Nat
    BY <1>4 DEF Joined
  <2>7. \A x, y \in Nat : x + y \in Nat
    OBVIOUS
  <2>5. Len(q) + Len(b) \in Nat
    BY <2>6, <2>7
  <2>1. Len(q) + Len(b) <= Capacity /\ Len(q) + Len(b) \in Nat
    BY <2>4, <2>5
  <2>0. Len(<<>>) = 0
    BY EmptySeq
  <2>2. \A x \in Nat : x + 0 = x
    OBVIOUS
  <2>3. Len(q \o b) + Len(<<>>) <= Capacity
    BY <1>4, <2>0, <2>1, <2>2 DEF Joined
  <2> QED BY <1>2, <2>3 DEF PInv, Waiting
<1> QED BY <1>7, <1>8, <1>9 DEF PInv

\* Cancelling what waits in a set of lanes, the body of CancelConversation and Seal.
LEMMA PlacesClear ==
  ASSUME IInv, PInv, NEW C \in SUBSET Convs, Clear(C), UNCHANGED <<worker, count>>
  PROVE  PInv'
<1> DEFINE waits == UNION {Elements(lanes[c].queue) \cup Elements(lanes[c].inbox) : c \in C}
<1>0. TypeOK /\ Accepted' = Accepted
  BY DEF IInv, Accepted
<1>1. /\ \A c \in C : lanes'[c].queue = <<>> /\ lanes'[c].inbox = <<>>
      /\ \A c \in Convs \ C : lanes'[c] = lanes[c]
  <2>1. ASSUME NEW c \in C PROVE lanes'[c].queue = <<>> /\ lanes'[c].inbox = <<>>
    <3>1. lanes'[c] = [lanes[c] EXCEPT !.queue = <<>>, !.inbox = <<>>] /\ lanes[c] \in Lane
      BY <1>0 DEF Clear, TypeOK
    <3> QED BY <3>1 DEF Lane
  <2> QED BY <2>1 DEF Clear
<1>2. \A j \in Jobs : result'[j] = IF j \in waits THEN "cancelled" ELSE result[j]
  BY DEF Clear
<1>3. \A j : j \in waits <=> \E x, a, n : x \in {"queue", "inbox"} /\ a \in C /\ Stands(x, a, n, j)
  <2>1. \A j : j \in waits <=> \E c \in C : j \in Elements(lanes[c].queue) \/ j \in Elements(lanes[c].inbox)
    OBVIOUS
  <2>2. \A c \in C : \A j :
          /\ j \in Elements(lanes[c].queue) <=> \E n : Stands("queue", c, n, j)
          /\ j \in Elements(lanes[c].inbox) <=> \E n : Stands("inbox", c, n, j)
    BY DEF Stands, Elements
  <2> HIDE DEF waits
  <2> QED BY <2>1, <2>2
<1> HIDE DEF waits
<1>4. ASSUME NEW j, NEW x, NEW a, NEW n
      PROVE  Stands(x, a, n, j)' <=> Stands(x, a, n, j) /\ ~(x \in {"queue", "inbox"} /\ a \in C)
  <2>1. CASE x \in {"queue", "inbox"} /\ a \in C
    BY <1>1, <2>1, EmptySeq DEF Stands
  <2>2. CASE ~(x \in {"queue", "inbox"} /\ a \in C)
    BY <1>1, <2>2 DEF Stands
  <2> QED BY <2>1, <2>2
<1>5. ASSUME NEW j \in Jobs PROVE Once(j)'
  <2>0. Once(j)
    BY DEF PInv
  <2>1. CASE j \notin waits
    <3>1. \A x, a, n : Stands(x, a, n, j)' <=> Stands(x, a, n, j)
      BY <1>3, <1>4, <2>1
    <3> QED BY <1>2, <2>0, <2>1, <3>1, OnceSame
  <2>2. CASE j \in waits
    <3>1. PICK y, d, k : y \in {"queue", "inbox"} /\ d \in C /\ Stands(y, d, k, j)
      BY <1>3, <2>2
    <3>2. \A x, a, n : Stands(x, a, n, j) => x = y /\ a = d
      BY <2>0, <3>1 DEF Once, Unique
    <3>3. \A x, a, n : ~Stands(x, a, n, j)'
      BY <1>4, <3>1, <3>2
    <3>4. Unique(j)' /\ ~Somewhere(j)'
      BY <3>3 DEF Unique, Somewhere
    <3>5. result[j] = "waiting"
      BY <2>0, <3>1 DEF Once, Somewhere
    <3> QED BY <1>0, <1>2, <2>0, <2>2, <3>4, <3>5 DEF Once
  <2> QED BY <2>1, <2>2
<1>6. ASSUME NEW c \in Convs PROVE Waiting(lanes[c])' <= Capacity
  <2>1. Len(<<>>) = 0 /\ Capacity \in Nat
    BY EmptySeq, SchedulerConstants
  <2>2. 0 + 0 <= Capacity
    BY <2>1
  <2>3. CASE c \in C
    BY <1>1, <2>1, <2>2, <2>3 DEF Waiting
  <2>4. CASE c \notin C
    BY <1>1, <2>4 DEF PInv, Waiting
  <2> QED BY <2>3, <2>4
<1> QED BY <1>5, <1>6 DEF PInv, Vacant

\* f is q with j put in at p, what was behind moved on by s.
Inserted(f, q, j, p, s) ==
  /\ p \in DOMAIN f /\ p \in Nat /\ s \in Nat /\ f[p] = j
  /\ \A k \in DOMAIN q : k \in Nat /\ k + s # p /\ k + s \in DOMAIN f /\ f[k + s] = q[k]
  /\ \A k \in DOMAIN f : k # p => k \in Nat /\ k - s \in DOMAIN q /\ f[k] = q[k - s]

LEMMA InsertedEnds ==
  ASSUME NEW q \in Seq(Jobs), NEW j \in Jobs
  PROVE  /\ Inserted(<<j>> \o q, q, j, 1, 1) /\ Len(<<j>> \o q) = Len(q) + 1
         /\ Inserted(Append(q, j), q, j, Len(q) + 1, 0) /\ Len(Append(q, j)) = Len(q) + 1
<1> DEFINE f == <<j>> \o q
           b == Append(q, j)
<1>1. Len(q) \in Nat /\ DOMAIN q = 1 .. Len(q)
  BY LenProperties
<1>2. /\ DOMAIN f = 1 .. Len(q) + 1 /\ Len(f) = Len(q) + 1
      /\ f[1] = j /\ \A k \in 2 .. Len(q) + 1 : f[k] = q[k - 1]
  <2>1. <<j>> \in Seq(Jobs) /\ Len(<<j>>) = 1 /\ <<j>>[1] = j
    OBVIOUS
  <2>2. /\ f \in Seq(Jobs) /\ Len(f) = 1 + Len(q)
        /\ \A k \in 1 .. 1 + Len(q) : f[k] = IF k <= 1 THEN <<j>>[k] ELSE q[k - 1]
    BY <2>1, ConcatProperties
  <2>3. DOMAIN f = 1 .. Len(f)
    BY <2>2, LenProperties
  <2> HIDE DEF f
  <2> QED BY <1>1, <2>1, <2>2, <2>3
<1>3. /\ DOMAIN b = 1 .. Len(q) + 1 /\ Len(b) = Len(q) + 1
      /\ \A k \in 1 .. Len(q) : b[k] = q[k]
      /\ b[Len(q) + 1] = j
  BY AppendProperties, LenProperties
<1> HIDE DEF f, b
<1>4. Inserted(f, q, j, 1, 1)
  <2>1. ASSUME NEW k \in DOMAIN q PROVE k \in Nat /\ k + 1 # 1 /\ k + 1 \in DOMAIN f /\ f[k + 1] = q[k]
    <3>1. k + 1 \in 2 .. Len(q) + 1 /\ k + 1 - 1 = k /\ k \in Nat /\ k + 1 # 1
      BY <1>1
    <3>2. k + 1 \in 1 .. Len(q) + 1
      BY <1>1
    <3> QED BY <1>2, <3>1, <3>2
  <2>2. ASSUME NEW k \in DOMAIN f, k # 1 PROVE k \in Nat /\ k - 1 \in DOMAIN q /\ f[k] = q[k - 1]
    BY <1>1, <1>2, <2>2
  <2>3. 1 \in DOMAIN f
    BY <1>1, <1>2
  <2> QED BY <1>2, <2>1, <2>2, <2>3 DEF Inserted
<1>5. Inserted(b, q, j, Len(q) + 1, 0)
  <2>1. \A k \in DOMAIN q : k \in Nat /\ k + 0 # Len(q) + 1 /\ k + 0 = k /\ k \in DOMAIN b
    BY <1>1, <1>3
  <2>2. \A k \in DOMAIN b : k # Len(q) + 1 => k \in DOMAIN q /\ k - 0 = k
    BY <1>1, <1>3
  <2>3. Len(q) + 1 \in DOMAIN b /\ Len(q) + 1 \in Nat
    BY <1>1, <1>3
  <2> QED BY <1>1, <1>3, <2>1, <2>2, <2>3 DEF Inserted
<1> QED BY <1>2, <1>3, <1>4, <1>5 DEF f, b

LEMMA PlacesSubmit ==
  ASSUME IInv, PInv, NEW r \in Requests, Submit(r)
  PROVE  PInv'
<1> SUFFICES ASSUME NEW c, c = r.conv, NEW j, j = count + 1,
                    NEW l, l = IF lanes[c].live THEN lanes[c]
                               ELSE [EmptyLane EXCEPT !.live = TRUE, !.source = r.source],
                    NEW e, e = Enqueue(l, j, r),
                    NEW q, q = lanes[c].queue, NEW b, b = lanes[c].inbox
             PROVE  PInv'
  OBVIOUS
<1>0. TypeOK /\ Lanes /\ Served /\ r \in Request /\ c \in Convs /\ r.source \in Sources
  BY Constants DEF IInv, Request
<1>1. /\ j \in Jobs /\ j \notin Accepted /\ Accepted' = Accepted \cup {j}
      /\ \A i \in Jobs : result'[i] = IF i = j THEN "waiting" ELSE result[i]
  BY <1>0, Constants DEF Submit, TypeOK, Jobs, Accepted
<1>2. lanes[c] \in Lane /\ LaneOK(lanes[c]) /\ q \in Seq(Jobs) /\ b \in Seq(Jobs)
  BY <1>0, LaneFields DEF TypeOK, Lanes
<1>3. l \in Lane /\ l.queue = q /\ l.inbox = b
  <2>1. CASE lanes[c].live
    BY <1>2, <2>1
  <2>2. CASE ~lanes[c].live
    <3>1. l \in Lane /\ l.queue = <<>> /\ l.inbox = <<>>
      BY <1>0, <2>2, EmptyTypes DEF EmptyLane, Lane
    <3>2. lanes[c].queue = <<>> /\ lanes[c].inbox = <<>>
      BY <1>2, <2>2 DEF LaneOK, EmptyLane
    <3> QED BY <3>1, <3>2
  <2> QED BY <2>1, <2>2
<1>4. Len(q) + Len(b) < Capacity
  BY <1>3 DEF Submit, Waiting
<1>5. PICK f, g : /\ e \in Lane /\ e.queue = f /\ e.inbox = g
                  /\ \/ g = b /\ f \in {<<j>> \o q, Append(q, j)}
                     \/ f = q /\ g = Append(b, j)
  <2>3. \/ e = [l EXCEPT !.queue = <<j>> \o q]
        \/ e = [l EXCEPT !.queue = Append(q, j)]
        \/ e = [l EXCEPT !.inbox = Append(b, j)]
    BY <1>3 DEF Enqueue
  <2>4. e \in Lane
    BY <1>0, <1>1, <1>3, EnqueueType
  <2>5. \/ e.inbox = b /\ e.queue \in {<<j>> \o q, Append(q, j)}
        \/ e.queue = q /\ e.inbox = Append(b, j)
    <3>1. ASSUME NEW k, e = [l EXCEPT !.queue = k] PROVE e.queue = k /\ e.inbox = b
      BY <1>3, <3>1 DEF Lane
    <3>2. ASSUME NEW k, e = [l EXCEPT !.inbox = k] PROVE e.inbox = k /\ e.queue = q
      BY <1>3, <3>2 DEF Lane
    <3>3. CASE e = [l EXCEPT !.queue = <<j>> \o q]
      BY <3>1, <3>3
    <3>4. CASE e = [l EXCEPT !.queue = Append(q, j)]
      BY <3>1, <3>4
    <3>5. CASE e = [l EXCEPT !.inbox = Append(b, j)]
      BY <3>2, <3>5
    <3> QED BY <2>3, <3>3, <3>4, <3>5, Zenon
  <2> QED BY <2>4, <2>5
<1>6. /\ lanes'[c].queue = f /\ lanes'[c].inbox = g
      /\ \A d \in Convs \ {c} : lanes'[d] = lanes[d]
  <2> SUFFICES ASSUME NEW m, m = [e EXCEPT !.running = TRUE]
               PROVE  /\ lanes'[c].queue = f /\ lanes'[c].inbox = g
                      /\ \A d \in Convs \ {c} : lanes'[d] = lanes[d]
    OBVIOUS
  <2>1. m.queue = f /\ m.inbox = g
    BY <1>5 DEF Lane
  <2>2. lanes' = [lanes EXCEPT ![c] = m] \/ lanes' = [lanes EXCEPT ![c] = e]
    BY DEF Submit
  <2> QED BY <1>0, <1>5, <2>1, <2>2 DEF TypeOK
<1>7. \A v \in Workers : \/ worker'[v] = worker[v]
                         \/ /\ worker[v].pc = "idle" /\ worker'[v].pc = "loop"
                            /\ worker'[v].job = None /\ worker'[v].consumed = {}
  <2>1. CASE UNCHANGED worker
    BY <2>1
  <2>2. CASE ~UNCHANGED worker
    <3> SUFFICES ASSUME NEW n, n = [Idle EXCEPT !.pc = "loop", !.conv = c]
                 PROVE  \A v \in Workers : \/ worker'[v] = worker[v]
                                           \/ /\ worker[v].pc = "idle" /\ worker'[v].pc = "loop"
                                              /\ worker'[v].job = None /\ worker'[v].consumed = {}
      OBVIOUS
    <3>1. PICK w \in Workers : worker[w].pc = "idle" /\ worker' = [worker EXCEPT ![w] = n]
      BY <2>2 DEF Submit, NewWorker
    <3>2. n.pc = "loop" /\ n.job = None /\ n.consumed = {}
      BY DEF Idle
    <3> QED BY <1>0, <3>1, <3>2 DEF TypeOK
  <2> QED BY <2>1, <2>2
<1>8. ASSUME NEW i, NEW x, NEW a, NEW n, x \notin {"queue", "inbox"}
      PROVE  Stands(x, a, n, i)' <=> Stands(x, a, n, i)
  <2>1. \A v \in Workers : worker[v].pc = "idle" => worker[v].consumed = {}
    BY DEF PInv, Vacant
  <2> QED BY <1>7, <1>8, <2>1 DEF Stands, AtTurn
<1>9. PICK X, p, s : /\ X \in {"queue", "inbox"} /\ p \in Nat /\ s \in Nat
                     /\ IF X = "queue" THEN Inserted(f, q, j, p, s) /\ g = b
                                        ELSE Inserted(g, b, j, p, s) /\ f = q
  <2>1. /\ 1 \in Nat /\ 0 \in Nat /\ Len(q) + 1 \in Nat /\ Len(b) + 1 \in Nat
    BY <1>2, LenProperties
  <2>2. /\ Inserted(<<j>> \o q, q, j, 1, 1) /\ Inserted(Append(q, j), q, j, Len(q) + 1, 0)
        /\ Inserted(Append(b, j), b, j, Len(b) + 1, 0)
    BY <1>1, <1>2, InsertedEnds
  <2>3. CASE g = b /\ f = <<j>> \o q
    BY <2>1, <2>2, <2>3
  <2>4. CASE g = b /\ f = Append(q, j)
    BY <2>1, <2>2, <2>4
  <2>5. CASE f = q /\ g = Append(b, j)
    BY <2>1, <2>2, <2>5
  <2> QED BY <1>5, <2>3, <2>4, <2>5
<1>10. ASSUME NEW i, NEW x, NEW a, NEW n, ~(x = X /\ a = c)
       PROVE  Stands(x, a, n, i)' <=> Stands(x, a, n, i)
  BY <1>6, <1>8, <1>9, <1>10 DEF Stands
<1>11. ASSUME NEW i, NEW n, Stands(X, c, n, i)'
       PROVE  (n = p /\ i = j) \/ (n \in Nat /\ Stands(X, c, n - s, i))
  BY <1>0, <1>6, <1>9, <1>11 DEF Stands, Inserted
<1>12. ASSUME NEW i, NEW n, Stands(X, c, n, i)
       PROVE  n \in Nat /\ Stands(X, c, n + s, i)'
  BY <1>0, <1>6, <1>9, <1>12 DEF Stands, Inserted
<1>13. Stands(X, c, p, j)'
  BY <1>0, <1>6, <1>9 DEF Stands, Inserted
<1>14. ASSUME NEW i \in Jobs PROVE Once(i)'
  <2>0. Once(i)
    BY DEF PInv
  <2>1. CASE i = j
    <3>1. \A x, a, n : ~Stands(x, a, n, i)
      BY <1>1, <2>0, <2>1 DEF Once, Somewhere
    <3>2. \A x, a, n : Stands(x, a, n, i)' => x = X /\ a = c /\ n = p
      BY <1>10, <1>11, <3>1
    <3>3. Unique(i)' /\ Somewhere(i)'
      BY <1>13, <2>1, <3>2 DEF Unique, Somewhere
    <3> QED BY <1>1, <2>1, <3>3 DEF Once
  <2>2. CASE i # j
    <3>1. Unique(i)'
      <4> SUFFICES ASSUME NEW x, NEW a, NEW n, NEW y, NEW d, NEW m, Stands(x, a, n, i)', Stands(y, d, m, i)'
                   PROVE  x = y /\ a = d /\ n = m
        BY DEF Unique
      <4>1. /\ \/ ~(x = X /\ a = c) /\ Stands(x, a, n, i)
               \/ x = X /\ a = c /\ n \in Nat /\ Stands(X, c, n - s, i)
            /\ \/ ~(y = X /\ d = c) /\ Stands(y, d, m, i)
               \/ y = X /\ d = c /\ m \in Nat /\ Stands(X, c, m - s, i)
        BY <1>10, <1>11, <2>2
      <4> QED BY <1>9, <2>0, <4>1 DEF Once, Unique
    <3>2. Somewhere(i)' <=> Somewhere(i)
      BY <1>10, <1>11, <1>12, <2>2 DEF Somewhere
    <3> QED BY <1>1, <2>0, <2>2, <3>1, <3>2 DEF Once
  <2> QED BY <2>1, <2>2
<1>15. \A v \in Workers : Vacant(worker[v])'
  BY <1>7 DEF PInv, Vacant
<1>16. \A d \in Convs : Waiting(lanes[d])' <= Capacity
  <2>1. Len(q) \in Nat /\ Len(b) \in Nat /\ Capacity \in Nat
    BY <1>2, LenProperties, SchedulerConstants
  <2>2. \A x, y, z \in Nat : x + y < z => x + 1 + y <= z /\ x + (y + 1) <= z
    OBVIOUS
  <2>3. (Len(f) = Len(q) + 1 /\ g = b) \/ (f = q /\ Len(g) = Len(b) + 1)
    BY <1>1, <1>2, <1>5, InsertedEnds
  <2>4. Len(f) + Len(g) <= Capacity
    BY <1>4, <2>1, <2>2, <2>3
  <2>5. Waiting(lanes[c])' <= Capacity
    BY <1>6, <2>4 DEF Waiting
  <2> QED BY <1>6, <2>5 DEF PInv, Waiting
<1> QED BY <1>14, <1>15, <1>16 DEF PInv

LEMMA PlacesStep ==
  ASSUME IInv, PInv, [Next]_vars
  PROVE  PInv'
<1>1. ASSUME UNCHANGED <<lanes, worker, count, result>> PROVE PInv'
  <2>1. ASSUME NEW j, NEW x, NEW a, NEW n PROVE Stands(x, a, n, j)' <=> Stands(x, a, n, j)
    BY <1>1 DEF Stands
  <2>2. \A j \in Jobs : Once(j)'
    BY <1>1, <2>1, OnceSame DEF PInv
  <2> QED BY <1>1, <2>2 DEF PInv, Vacant, Waiting
<1>2. ASSUME NEW w \in Workers, Acquire(w) \/ GiveUp(w) PROVE PInv'
  <2> SUFFICES ASSUME NEW r, r \in {[worker[w] EXCEPT !.pc = "begin", !.slot = TRUE],
                                     [worker[w] EXCEPT !.pc = "begin"]},
                      worker' = [worker EXCEPT ![w] = r]
               PROVE  PInv'
    BY <1>2 DEF Acquire, GiveUp
  <2>1. TypeOK /\ worker[w].pc = "slot" /\ worker[w] \in Worker /\ UNCHANGED <<lanes, count, result>>
    BY <1>2 DEF IInv, TypeOK, Acquire, GiveUp
  <2>2. r.pc = "begin" /\ r.job = worker[w].job /\ r.consumed = worker[w].consumed
    BY <2>1 DEF Worker
  <2>3. worker[w].consumed = {} /\ worker[w].pc \in AtTurn /\ r.pc \in AtTurn
    BY <2>1, <2>2 DEF PInv, Vacant, AtTurn
  <2> HIDE DEF PInv
  <2> QED BY <2>1, <2>2, <2>3, PlacesKept
<1>3. ASSUME NEW w \in Workers, Begin(w) \/ \E o \in {"ok", "error", "pause", "cancelled"} : Return(w, o)
      PROVE  PInv'
  <2>1. /\ TypeOK /\ worker[w].pc \in {"begin", "run"} /\ worker[w] \in Worker
        /\ UNCHANGED <<lanes, count, result>>
    BY <1>3 DEF IInv, TypeOK, Begin, Return
  <2>2. ASSUME NEW r, worker' = [worker EXCEPT ![w] = r], r.pc \in {"run", "release"},
               r.job = worker[w].job, r.consumed = worker[w].consumed,
               r.pc = "release" => r.outcome # "none"
        PROVE  PInv'
    BY <2>1, <2>2, PlacesKept DEF AtTurn
  <2>3. ASSUME NEW o \in {"ok", "error", "pause", "cancelled"},
               worker' = [worker EXCEPT ![w].pc = "release", ![w].outcome = o]
        PROVE  PInv'
    <3> DEFINE r == [worker[w] EXCEPT !.pc = "release", !.outcome = o]
    <3>1. worker' = [worker EXCEPT ![w] = r]
      BY <2>3
    <3>2. r.pc = "release" /\ r.job = worker[w].job /\ r.consumed = worker[w].consumed /\ r.outcome # "none"
      BY <2>1 DEF Worker
    <3> HIDE DEF r
    <3> QED BY <2>2, <3>1, <3>2
  <2>4. ASSUME worker' = [worker EXCEPT ![w].pc = "run"]
        PROVE  PInv'
    <3> DEFINE r == [worker[w] EXCEPT !.pc = "run"]
    <3>1. worker' = [worker EXCEPT ![w] = r]
      BY <2>4
    <3>2. r.pc = "run" /\ r.job = worker[w].job /\ r.consumed = worker[w].consumed
      BY <2>1 DEF Worker
    <3> HIDE DEF r
    <3> QED BY <2>2, <3>1, <3>2
  <2> QED BY <1>3, <2>3, <2>4 DEF Begin, Return
<1>4. CASE \E r \in Requests : Submit(r)
  BY <1>4, PlacesSubmit
<1>5. CASE \E w \in Workers : Step(w) \/ Drain(w)
  BY <1>2, <1>3, <1>5, PlacesExit, PlacesTake, PlacesRelease, PlacesSettle, PlacesDrain DEF Step
<1>6. CASE \E c \in Convs : CancelConversation(c)
  BY <1>6, PlacesClear DEF CancelConversation
<1>7. CASE Seal
  <2>1. {c \in Convs : lanes[c].live} \in SUBSET Convs
    OBVIOUS
  <2> QED BY <1>7, <2>1, PlacesClear DEF Seal
<1>8. CASE (\E j \in Jobs : Cancel(j)) \/ Join \/ UNCHANGED vars
  BY <1>1, <1>8 DEF Cancel, Join, vars
<1> QED BY <1>4, <1>5, <1>6, <1>7, <1>8 DEF Next

LEMMA PlacesInit == Init => PInv
<1> SUFFICES ASSUME Init PROVE PInv
  OBVIOUS
<1>1. /\ \A c \in Convs : lanes[c].queue = <<>> /\ lanes[c].inbox = <<>>
      /\ \A w \in Workers : worker[w].pc = "idle" /\ worker[w].job = None /\ worker[w].consumed = {}
      /\ \A j \in Jobs : result[j] = "none"
      /\ Accepted = {}
  BY DEF Init, EmptyLane, Idle, Accepted
<1>2. \A x, a, n, j : ~Stands(x, a, n, j)
  BY <1>1, EmptySeq DEF Stands, AtTurn
<1>3. \A j \in Jobs : Once(j)
  BY <1>1, <1>2 DEF Once, Unique, Somewhere
<1>4. Len(<<>>) = 0 /\ Capacity \in Nat
  BY EmptySeq, SchedulerConstants
<1>5. 0 + 0 <= Capacity
  BY <1>4
<1>6. \A c \in Convs : Waiting(lanes[c]) <= Capacity
  BY <1>1, <1>4, <1>5 DEF Waiting
<1> QED BY <1>1, <1>3, <1>6 DEF PInv, Vacant

\* The places of the invariant are those the property counts.
LEMMA PlacesCounted ==
  ASSUME IInv, PInv
  PROVE  Placed
<1> SUFFICES ASSUME NEW j \in Jobs
             PROVE  Cardinality(QueuedAt(j)) + Cardinality(InjectedAt(j)) + Cardinality(HeldBy(j))
                      = IF result[j] = "waiting" THEN 1 ELSE 0
  BY DEF Placed
<1>0. TypeOK /\ Once(j) /\ Capacity \in Nat /\ j # None
  BY SchedulerConstants DEF IInv, PInv
<1>1. ASSUME NEW c \in Convs
      PROVE  DOMAIN lanes[c].queue \subseteq 1 .. Capacity /\ DOMAIN lanes[c].inbox \subseteq 1 .. Capacity
  <2> SUFFICES ASSUME NEW q, q = lanes[c].queue, NEW b, b = lanes[c].inbox
               PROVE  DOMAIN q \subseteq 1 .. Capacity /\ DOMAIN b \subseteq 1 .. Capacity
    OBVIOUS
  <2>1. q \in Seq(Jobs) /\ b \in Seq(Jobs)
    BY <1>0, LaneFields DEF TypeOK
  <2>2. Len(q) \in Nat /\ Len(b) \in Nat /\ DOMAIN q = 1 .. Len(q) /\ DOMAIN b = 1 .. Len(b)
    BY <2>1, LenProperties
  <2>3. Len(q) + Len(b) <= Capacity
    BY DEF PInv, Waiting
  <2>4. \A x, y, z \in Nat : x + y <= z => x <= z /\ y <= z
    OBVIOUS
  <2>5. Len(q) <= Capacity /\ Len(b) <= Capacity
    BY <1>0, <2>2, <2>3, <2>4
  <2> QED BY <1>0, <2>2, <2>5
<1>2. QueuedAt(j) = {s \in Convs \X (1 .. Capacity) : Stands("queue", s[1], s[2], j)}
  BY DEF QueuedAt, Stands
<1>3. InjectedAt(j) = {s \in Convs \X (1 .. Capacity) : Stands("inbox", s[1], s[2], j)}
  BY DEF InjectedAt, Stands
<1>4. HeldBy(j) = {w \in Workers : Stands("turn", w, 0, j) \/ Stands("merge", w, 0, j)}
  <2>1. \A w \in Workers : worker[w].job = j /\ worker[w].pc # "settle" => worker[w].pc \in AtTurn
    BY <1>0 DEF TypeOK, Worker, Places, AtTurn, PInv, Vacant
  <2>2. \A w \in Workers : worker[w].pc \in AtTurn => worker[w].pc # "settle"
    BY DEF AtTurn
  <2> QED BY <2>1, <2>2 DEF HeldBy, Stands
<1>5. Cardinality({}) = 0 /\ \A s : Cardinality({s}) = 1
  BY FS_EmptySet, FS_Singleton
<1>6. CASE result[j] # "waiting"
  <2>1. QueuedAt(j) = {} /\ InjectedAt(j) = {} /\ HeldBy(j) = {}
    BY <1>0, <1>2, <1>3, <1>4, <1>6 DEF Once, Somewhere
  <2> QED BY <1>5, <1>6, <2>1
<1>7. CASE result[j] = "waiting"
  <2>1. PICK x, a, n : Stands(x, a, n, j)
    BY <1>0, <1>7 DEF Once, Somewhere
  <2>2. \A y, b, m : Stands(y, b, m, j) => y = x /\ b = a /\ m = n
    BY <1>0, <2>1 DEF Once, Unique
  <2>3. CASE x = "queue"
    <3>1. a \in Convs /\ n \in 1 .. Capacity
      BY <1>1, <2>1, <2>3 DEF Stands
    <3>2. QueuedAt(j) = {<<a, n>>}
      BY <1>2, <2>1, <2>2, <2>3, <3>1
    <3>3. InjectedAt(j) = {} /\ HeldBy(j) = {}
      BY <1>3, <1>4, <2>2, <2>3
    <3>4. Cardinality(QueuedAt(j)) = 1
      BY <1>5, <3>2
    <3>5. Cardinality(InjectedAt(j)) = 0 /\ Cardinality(HeldBy(j)) = 0
      BY <1>5, <3>3
    <3> QED BY <1>7, <3>4, <3>5
  <2>4. CASE x = "inbox"
    <3>1. a \in Convs /\ n \in 1 .. Capacity
      BY <1>1, <2>1, <2>4 DEF Stands
    <3>2. InjectedAt(j) = {<<a, n>>}
      BY <1>3, <2>1, <2>2, <2>4, <3>1
    <3>3. QueuedAt(j) = {} /\ HeldBy(j) = {}
      BY <1>2, <1>4, <2>2, <2>4
    <3>4. Cardinality(InjectedAt(j)) = 1
      BY <1>5, <3>2
    <3>5. Cardinality(QueuedAt(j)) = 0 /\ Cardinality(HeldBy(j)) = 0
      BY <1>5, <3>3
    <3> QED BY <1>7, <3>4, <3>5
  <2>5. CASE x \in {"turn", "merge"}
    <3>1. a \in Workers /\ n = 0
      BY <2>1, <2>5 DEF Stands
    <3>2. HeldBy(j) = {a}
      BY <1>4, <2>1, <2>2, <2>5, <3>1
    <3>3. QueuedAt(j) = {} /\ InjectedAt(j) = {}
      BY <1>2, <1>3, <2>2, <2>5
    <3>4. Cardinality(HeldBy(j)) = 1
      BY <1>5, <3>2
    <3>5. Cardinality(QueuedAt(j)) = 0 /\ Cardinality(InjectedAt(j)) = 0
      BY <1>5, <3>3
    <3> QED BY <1>7, <3>4, <3>5
  <2> QED BY <2>1, <2>3, <2>4, <2>5 DEF Stands
<1> QED BY <1>6, <1>7

-----------------------------------------------------------------------------
(* What a job was handed to                                                *)

LaneJobs(c) == Elements(lanes[c].queue) \cup Elements(lanes[c].inbox)

\* What waits in a lane was handed to no runner.
LaneFresh == \A c \in Convs : \A j \in LaneJobs(c) : served[j] = <<>>

TurnHanded(r) ==
  /\ r.pc \in {"slot", "begin"} => served[r.job] = <<>>
  /\ (r.pc = "run" \/ (r.pc = "release" /\ r.outcome # "cancelled")) => served[r.job] = <<r.job>>
  /\ r.pc = "settle" => /\ result[r.job] = r.outcome
                        /\ r.outcome = "ok" => served[r.job] = <<r.job>>
  /\ \A j \in r.consumed : served[j] = <<r.job>>

Handed(j) ==
  /\ served[j] = <<>> \/ \E k \in Jobs : served[j] = <<k>>
  /\ result[j] = "none" => served[j] = <<>>
  /\ result[j] = "ok" => \E k \in Jobs : /\ served[j] = <<k>> /\ result[k] = "ok"
                                         /\ j \in merged <=> k # j
  /\ j \in merged => result[j] \notin {"none", "waiting"}

SInv == /\ LaneFresh
        /\ \A w \in Workers : TurnHanded(worker[w])
        /\ \A j \in Jobs : Handed(j)

LEMMA ConcatElements ==
  ASSUME NEW q \in Seq(Jobs), NEW b \in Seq(Jobs)
  PROVE  Elements(q \o b) \subseteq Elements(q) \cup Elements(b)
<1> SUFFICES ASSUME NEW k \in DOMAIN (q \o b) PROVE (q \o b)[k] \in Elements(q) \cup Elements(b)
  BY DEF Elements
<1>1. \/ k \in DOMAIN q /\ (q \o b)[k] = q[k]
      \/ k - Len(q) \in DOMAIN b /\ (q \o b)[k] = b[k - Len(q)]
  BY ConcatPlaces DEF Joined
<1> QED BY <1>1 DEF Elements

LEMMA EnqueuedElements ==
  ASSUME NEW q \in Seq(Jobs), NEW j \in Jobs
  PROVE  /\ Elements(<<j>> \o q) = Elements(q) \cup {j} /\ Elements(Append(q, j)) = Elements(q) \cup {j}
<1>1. ASSUME NEW f, NEW p, NEW s, Inserted(f, q, j, p, s) PROVE Elements(f) = Elements(q) \cup {j}
  BY <1>1 DEF Inserted, Elements
<1>2. Elements(<<j>> \o q) = Elements(q) \cup {j} /\ Elements(Append(q, j)) = Elements(q) \cup {j}
  BY <1>1, InsertedEnds
<1> QED BY <1>2

\* Nothing enters a lane but the job just accepted.
LEMMA LaneJobsStep ==
  ASSUME IInv, PInv, [Next]_vars, NEW c \in Convs, NEW j, j \in LaneJobs(c)'
  PROVE  j \in LaneJobs(c) \/ (j \in Jobs /\ result[j] = "none")
<1> DEFINE Goal == j \in LaneJobs(c) \/ (j \in Jobs /\ result[j] = "none")
<1> SUFFICES Goal
  OBVIOUS
<1> SUFFICES ASSUME NEW q, q = lanes[c].queue, NEW b, b = lanes[c].inbox PROVE Goal
  OBVIOUS
<1>0. TypeOK /\ lanes[c] \in Lane /\ q \in Seq(Jobs) /\ b \in Seq(Jobs) /\ LaneOK(lanes[c])
  BY LaneFields DEF IInv, TypeOK, Lanes
<1>1. ASSUME lanes'[c].queue = q, lanes'[c].inbox = b PROVE Goal
  BY <1>1 DEF LaneJobs
<1>2. ASSUME NEW w \in Workers, Step(w) \/ Drain(w) PROVE Goal
  <2>0. worker[w].pc # "idle" /\ worker[w].conv \in Convs
    BY <1>2, AtWork, Stirs DEF IInv
  <2>1. CASE worker[w].conv # c
    BY <1>0, <1>1, <1>2, <2>0, <2>1
      DEF TypeOK, Step, Exit, Take, Acquire, GiveUp, Begin, Return, Release, Settle, Drain
  <2>2. CASE worker[w].conv = c
    <3>1. CASE Exit(w)
      <4>1. lanes'[c] = IF lanes[c].paused THEN [lanes[c] EXCEPT !.running = FALSE] ELSE EmptyLane
        BY <1>0, <2>2, <3>1 DEF Exit, TypeOK
      <4>2. lanes'[c].queue \in {q, <<>>} /\ lanes'[c].inbox \in {b, <<>>}
        BY <1>0, <4>1 DEF Lane, EmptyLane
      <4> QED BY <1>0, <4>2, EmptySeq DEF LaneJobs, Elements
    <3>2. CASE Take(w)
      <4>1. lanes'[c] = [lanes[c] EXCEPT !.queue = Tail(q), !.active = Head(q)] /\ q # <<>>
        BY <1>0, <2>2, <3>2 DEF Take, Ready, TypeOK
      <4>2. lanes'[c].queue = Tail(q) /\ lanes'[c].inbox = b
        BY <1>0, <4>1 DEF Lane
      <4>3. Elements(Tail(q)) \subseteq Elements(q)
        <5>1. \A k \in DOMAIN Tail(q) : k + 1 \in DOMAIN q /\ Tail(q)[k] = q[k + 1]
          BY <1>0, <4>1, OrderedTail DEF LaneOK
        <5> QED BY <5>1 DEF Elements
      <4> QED BY <4>2, <4>3 DEF LaneJobs
    <3>3. CASE Settle(w)
      <4> DEFINE m == Requeued(lanes[c])
                 u == \/ worker[w].outcome = "pause"
                      \/ m.paused /\ ~(req[worker[w].job].approval /\ worker[w].outcome = "ok")
      <4>1. lanes'[c] = [m EXCEPT !.paused = u]
        BY <1>0, <2>2, <3>3 DEF Settle, Pause, TypeOK
      <4>2. m \in Lane /\ m.queue = q \o b /\ m.inbox = <<>>
        BY <1>0, RequeuedType DEF Requeued, Lane
      <4> HIDE DEF m, u
      <4>3. lanes'[c].queue = q \o b /\ lanes'[c].inbox = <<>>
        BY <4>1, <4>2 DEF Lane
      <4>4. Elements(q \o b) \subseteq Elements(q) \cup Elements(b) /\ Elements(<<>>) = {}
        <5>1. Elements(q \o b) \subseteq Elements(q) \cup Elements(b)
          BY <1>0, ConcatElements
        <5>2. Elements(<<>>) = {}
          BY EmptySeq DEF Elements
        <5> QED BY <5>1, <5>2
      <4> QED BY <4>3, <4>4 DEF LaneJobs
    <3>4. CASE Drain(w)
      <4>1. lanes'[c] = [lanes[c] EXCEPT !.inbox = <<>>]
        BY <1>0, <2>2, <3>4 DEF Drain, Emptied, TypeOK
      <4>2. lanes'[c].queue = q /\ lanes'[c].inbox = <<>>
        BY <1>0, <4>1 DEF Lane
      <4> QED BY <4>2, EmptySeq DEF LaneJobs, Elements
    <3>5. CASE UNCHANGED lanes
      BY <1>1, <3>5
    <3> QED BY <1>2, <3>1, <3>2, <3>3, <3>4, <3>5 DEF Step, Acquire, GiveUp, Begin, Return, Release
  <2> QED BY <2>1, <2>2
<1>3. ASSUME NEW r \in Requests, Submit(r) PROVE Goal
  <2> SUFFICES ASSUME NEW i, i = count + 1,
                      NEW l, l = IF lanes[r.conv].live THEN lanes[r.conv]
                                 ELSE [EmptyLane EXCEPT !.live = TRUE, !.source = r.source],
                      NEW e, e = Enqueue(l, i, r), NEW m, m = [e EXCEPT !.running = TRUE]
               PROVE  Goal
    OBVIOUS
  <2>0. r \in Request /\ r.conv \in Convs /\ r.source \in Sources
    BY Constants DEF Request
  <2>1. i \in Jobs /\ result[i] = "none"
    <3>1. i \in Jobs /\ i \notin Accepted
      BY <1>0, <1>3, Constants DEF Submit, TypeOK, Jobs, Accepted
    <3> QED BY <3>1 DEF PInv, Once
  <2>2. lanes' = [lanes EXCEPT ![r.conv] = m] \/ lanes' = [lanes EXCEPT ![r.conv] = e]
    BY <1>3 DEF Submit
  <2>3. CASE r.conv # c
    BY <1>0, <1>1, <2>0, <2>2, <2>3 DEF TypeOK
  <2>4. CASE r.conv = c
    <3>1. l \in Lane /\ l.queue = q /\ l.inbox = b
      <4>1. CASE lanes[c].live
        BY <1>0, <2>4, <4>1
      <4>2. CASE ~lanes[c].live
        <5>1. l \in Lane /\ l.queue = <<>> /\ l.inbox = <<>>
          BY <2>0, <2>4, <4>2, EmptyTypes DEF EmptyLane, Lane
        <5>2. lanes[c].queue = <<>> /\ lanes[c].inbox = <<>>
          BY <1>0, <4>2 DEF LaneOK, EmptyLane
        <5> QED BY <5>1, <5>2
      <4> QED BY <4>1, <4>2
    <3>0. e \in Lane
      BY <2>0, <2>1, <3>1, EnqueueType
    <3>2. e.queue \in {q, <<i>> \o q, Append(q, i)} /\ e.inbox \in {b, Append(b, i)}
      <4>1. ASSUME NEW k, e = [l EXCEPT !.queue = k] PROVE e.queue = k /\ e.inbox = b
        BY <3>1, <4>1 DEF Lane
      <4>2. ASSUME NEW k, e = [l EXCEPT !.inbox = k] PROVE e.inbox = k /\ e.queue = q
        BY <3>1, <4>2 DEF Lane
      <4>3. CASE e = [l EXCEPT !.queue = <<i>> \o q]
        BY <4>1, <4>3
      <4>4. CASE e = [l EXCEPT !.queue = Append(q, i)]
        BY <4>1, <4>4
      <4>5. CASE e = [l EXCEPT !.inbox = Append(b, i)]
        BY <4>2, <4>5
      <4> QED BY <3>1, <4>3, <4>4, <4>5 DEF Enqueue
    <3>3. m.queue = e.queue /\ m.inbox = e.inbox
      BY <3>0 DEF Lane
    <3>4. lanes'[c].queue = e.queue /\ lanes'[c].inbox = e.inbox
      BY <1>0, <2>2, <2>4, <3>3 DEF TypeOK
    <3>5. Elements(e.queue) \subseteq Elements(q) \cup {i} /\ Elements(e.inbox) \subseteq Elements(b) \cup {i}
      <4>1. Elements(<<i>> \o q) = Elements(q) \cup {i} /\ Elements(Append(q, i)) = Elements(q) \cup {i}
        BY <1>0, <2>1, EnqueuedElements
      <4>2. Elements(Append(b, i)) = Elements(b) \cup {i}
        BY <1>0, <2>1, EnqueuedElements
      <4> QED BY <3>2, <4>1, <4>2
    <3> QED BY <2>1, <3>4, <3>5 DEF LaneJobs
  <2> QED BY <2>3, <2>4
<1>4. ASSUME NEW C \in SUBSET Convs, Clear(C) PROVE Goal
  <2>1. lanes'[c] \in {lanes[c], [lanes[c] EXCEPT !.queue = <<>>, !.inbox = <<>>]}
    BY <1>4 DEF Clear
  <2>2. lanes'[c].queue \in {q, <<>>} /\ lanes'[c].inbox \in {b, <<>>}
    BY <1>0, <2>1 DEF Lane
  <2> QED BY <1>0, <2>2, EmptySeq DEF LaneJobs, Elements
<1>5. CASE \E d \in Convs : CancelConversation(d)
  BY <1>4, <1>5 DEF CancelConversation
<1>6. CASE Seal
  <2>1. {d \in Convs : lanes[d].live} \in SUBSET Convs
    OBVIOUS
  <2> QED BY <1>4, <1>6, <2>1 DEF Seal
<1>7. CASE (\E i \in Jobs : Cancel(i)) \/ Join \/ UNCHANGED vars
  BY <1>1, <1>7 DEF Cancel, Join, vars
<1> QED BY <1>2, <1>3, <1>5, <1>6, <1>7 DEF Next

StillOpen == {"none", "waiting"}

\* The goroutines a step of another one leaves alone.
LEMMA TurnKept ==
  ASSUME IInv, PInv, SInv, NEW v \in Workers, worker'[v] = worker[v],
         \A j \in Jobs : result[j] \notin StillOpen => result'[j] = result[j] /\ served'[j] = served[j],
         \A j \in Jobs : Stands("turn", v, 0, j) \/ Stands("merge", v, 0, j) => served'[j] = served[j]
  PROVE  TurnHanded(worker[v])'
<1> SUFFICES ASSUME NEW r, r = worker[v] PROVE TurnHanded(r)'
  OBVIOUS
<1>0. TurnHanded(r) /\ r \in Worker /\ Vacant(r)
  BY DEF SInv, PInv, IInv, TypeOK
<1>1. \A j \in r.consumed : j \in Jobs /\ served'[j] = served[j]
  BY <1>0 DEF Stands, Worker
<1>2. r.pc \in AtTurn => served'[r.job] = served[r.job]
  BY JobAtWork DEF Stands, AtTurn
<1>3. r.pc = "settle" => result'[r.job] = result[r.job] /\ served'[r.job] = served[r.job]
  <2> SUFFICES ASSUME r.pc = "settle" PROVE result'[r.job] = result[r.job] /\ served'[r.job] = served[r.job]
    OBVIOUS
  <2>1. r.job \in Jobs /\ r.outcome \notin StillOpen /\ result[r.job] = r.outcome
    BY <1>0, JobAtWork DEF TurnHanded, Vacant, Worker, StillOpen
  <2> QED BY <2>1
<1> QED BY <1>0, <1>1, <1>2, <1>3 DEF TurnHanded, AtTurn

\* A handle that a step leaves open or alone.
LEMMA HandedKept ==
  ASSUME NEW j \in Jobs, Handed(j), served'[j] = served[j], j \in merged' <=> j \in merged,
         \A k \in Jobs : result[k] \notin StillOpen => result'[k] = result[k],
         \/ result'[j] = result[j]
         \/ result[j] \in StillOpen /\ result'[j] \notin {"none", "ok"}
  PROVE  Handed(j)'
<1>1. result'[j] = "none" => result[j] = "none"
  OBVIOUS
<1>2. ASSUME result'[j] = "ok"
      PROVE  \E k \in Jobs : served[j] = <<k>> /\ result'[k] = "ok" /\ (j \in merged <=> k # j)
  <2>1. result[j] = "ok"
    BY <1>2 DEF StillOpen
  <2>2. PICK k \in Jobs : served[j] = <<k>> /\ result[k] = "ok" /\ (j \in merged <=> k # j)
    BY <2>1 DEF Handed
  <2>3. result'[k] = "ok"
    BY <2>2 DEF StillOpen
  <2> QED BY <2>2, <2>3
<1>3. j \in merged => result'[j] \notin {"none", "waiting"}
  BY DEF Handed, StillOpen
<1> QED BY <1>1, <1>2, <1>3 DEF Handed

LEMMA LaneFreshStep ==
  ASSUME IInv, PInv, SInv, PInv', TypeOK', [Next]_vars,
         \A j \in Jobs : \/ served'[j] = served[j]
                         \/ \E w \in Workers : Stands("turn", w, 0, j)' \/ Stands("merge", w, 0, j)'
  PROVE  LaneFresh'
<1> SUFFICES ASSUME NEW c \in Convs, NEW j, j \in LaneJobs(c)' PROVE served'[j] = <<>>
  BY DEF LaneFresh
<1>1. PICK x, n : x \in {"queue", "inbox"} /\ Stands(x, c, n, j)'
  BY DEF LaneJobs, Elements, Stands
<1>2. j \in Jobs /\ served[j] = <<>>
  <2>1. j \in LaneJobs(c) \/ (j \in Jobs /\ result[j] = "none")
    BY LaneJobsStep
  <2>2. LaneJobs(c) \subseteq Jobs
    BY ElementsOfLane DEF IInv, LaneJobs
  <2> QED BY <2>1, <2>2 DEF SInv, LaneFresh, Handed
<1>3. Unique(j)'
  BY <1>2 DEF PInv, Once
<1>4. \A w \in Workers : ~Stands("turn", w, 0, j)' /\ ~Stands("merge", w, 0, j)'
  BY <1>1, <1>3 DEF Unique
<1> QED BY <1>2, <1>4

\* A step that serves nothing, and finishes handles only as cancelled.
LEMMA ServedQuiet ==
  ASSUME IInv, PInv, SInv, PInv', TypeOK', [Next]_vars, UNCHANGED <<served, merged>>,
         \A j \in Jobs : \/ result'[j] = result[j]
                         \/ result[j] \in StillOpen /\ result'[j] \notin {"none", "ok"},
         \A w \in Workers : worker'[w] = worker[w] \/ TurnHanded(worker[w])'
  PROVE  SInv'
<1>1. \A j \in Jobs : result[j] \notin StillOpen => result'[j] = result[j] /\ served'[j] = served[j]
  OBVIOUS
<1>2. \A w \in Workers : TurnHanded(worker[w])'
  BY <1>1, TurnKept
<1>3. \A j \in Jobs : Handed(j)'
  BY <1>1, HandedKept DEF SInv
<1>4. LaneFresh'
  BY LaneFreshStep
<1> QED BY <1>2, <1>3, <1>4 DEF SInv

LEMMA AppendToNone ==
  ASSUME NEW k \in Jobs
  PROVE  Append(<<>>, k) = <<k>>
OBVIOUS

\* The job of a turn is waiting, and nowhere else.
LEMMA OnTurn ==
  ASSUME IInv, PInv, NEW w \in Workers, worker[w].pc \in AtTurn, NEW i, i = worker[w].job
  PROVE  /\ i \in Jobs /\ Stands("turn", w, 0, i) /\ result[i] = "waiting"
         /\ \A v \in Workers : ~Stands("merge", v, 0, i) /\ (v # w => ~Stands("turn", v, 0, i))
<1>1. i \in Jobs /\ Stands("turn", w, 0, i)
  BY JobAtWork DEF Stands, AtTurn
<1> QED BY <1>1 DEF PInv, Once, Unique, Somewhere

LEMMA ServedBegin ==
  ASSUME IInv, PInv, SInv, PInv', TypeOK', [Next]_vars, NEW w \in Workers, Begin(w)
  PROVE  SInv'
<1> SUFFICES ASSUME NEW i, i = worker[w].job PROVE SInv'
  OBVIOUS
<1>0. /\ TypeOK /\ worker[w] \in Worker /\ worker[w].pc = "begin" /\ worker[w].consumed = {}
      /\ UNCHANGED <<lanes, count, req, ended, result, merged>> /\ TurnHanded(worker[w])
  BY DEF IInv, TypeOK, Begin, PInv, Vacant, SInv
<1>1. /\ i \in Jobs /\ Stands("turn", w, 0, i) /\ result[i] = "waiting" /\ served[i] = <<>>
      /\ \A v \in Workers : ~Stands("merge", v, 0, i) /\ (v # w => ~Stands("turn", v, 0, i))
  <2>1. worker[w].pc \in AtTurn
    BY <1>0 DEF AtTurn
  <2>2. served[i] = <<>>
    BY <1>0 DEF TurnHanded
  <2> QED BY <2>1, <2>2, OnTurn
<1>2. CASE i \in ended
  <2> SUFFICES ASSUME NEW r, r = [worker[w] EXCEPT !.pc = "release", !.outcome = "cancelled"] PROVE SInv'
    OBVIOUS
  <2>1. worker' = [worker EXCEPT ![w] = r] /\ UNCHANGED served
    BY <1>2 DEF Begin
  <2>2. r.pc = "release" /\ r.outcome = "cancelled" /\ r.consumed = {}
    BY <1>0 DEF Worker
  <2>3. TurnHanded(r)'
    BY <2>2 DEF TurnHanded
  <2>4. \A v \in Workers : worker'[v] = worker[v] \/ TurnHanded(worker[v])'
    BY <1>0, <2>1, <2>3 DEF TypeOK
  <2> QED BY <1>0, <2>1, <2>4, ServedQuiet
<1>3. CASE i \notin ended
  <2> SUFFICES ASSUME NEW r, r = [worker[w] EXCEPT !.pc = "run"] PROVE SInv'
    OBVIOUS
  <2>1. worker' = [worker EXCEPT ![w] = r]
    BY <1>3 DEF Begin
  <2>2. /\ served'[i] = <<i>> /\ \A j \in Jobs \ {i} : served'[j] = served[j]
    <3>1. served' = [served EXCEPT ![i] = Append(served[i], i)]
      BY <1>3 DEF Begin
    <3>2. Append(served[i], i) = <<i>>
      BY <1>1, AppendToNone
    <3> QED BY <1>0, <1>1, <3>1, <3>2 DEF TypeOK
  <2>3. r.pc = "run" /\ r.job = i /\ r.consumed = {}
    BY <1>0 DEF Worker
  <2>4. worker'[w] = r /\ \A v \in Workers \ {w} : worker'[v] = worker[v]
    BY <1>0, <2>1 DEF TypeOK
  <2>5. \A v \in Workers : TurnHanded(worker[v])'
    <3>1. TurnHanded(worker[w])'
      BY <2>2, <2>3, <2>4 DEF TurnHanded
    <3>2. \A j \in Jobs : result[j] \notin StillOpen => result'[j] = result[j] /\ served'[j] = served[j]
      BY <1>0, <1>1, <2>2 DEF StillOpen
    <3>3. ASSUME NEW v \in Workers, v # w PROVE TurnHanded(worker[v])'
      <4>1. \A j \in Jobs : Stands("turn", v, 0, j) \/ Stands("merge", v, 0, j) => served'[j] = served[j]
        BY <1>1, <2>2, <3>3
      <4>2. worker'[v] = worker[v]
        BY <2>4, <3>3
      <4> QED BY <3>2, <4>1, <4>2, TurnKept
    <3> QED BY <3>1, <3>3
  <2>6. ASSUME NEW j \in Jobs PROVE Handed(j)'
    <3>1. CASE j = i
      BY <1>0, <1>1, <2>2, <3>1 DEF Handed, SInv
    <3>2. CASE j # i
      BY <1>0, <2>2, <3>2, HandedKept DEF SInv
    <3> QED BY <3>1, <3>2
  <2>7. LaneFresh'
    <3>1. Stands("turn", w, 0, i)'
      BY <2>3, <2>4 DEF Stands, AtTurn
    <3> QED BY <2>2, <3>1, LaneFreshStep
  <2> QED BY <2>5, <2>6, <2>7 DEF SInv
<1> QED BY <1>2, <1>3

LEMMA ServedRelease ==
  ASSUME IInv, PInv, SInv, PInv', TypeOK', [Next]_vars, NEW w \in Workers, Release(w)
  PROVE  SInv'
<1> SUFFICES ASSUME NEW i, i = worker[w].job, NEW o, o = worker[w].outcome,
                    NEW r, r = [worker[w] EXCEPT !.pc = "settle", !.slot = FALSE] PROVE SInv'
  OBVIOUS
<1>0. /\ TypeOK /\ worker[w] \in Worker /\ worker[w].pc = "release"
      /\ UNCHANGED <<lanes, merged, served>> /\ TurnHanded(worker[w]) /\ o \notin StillOpen
  BY DEF IInv, TypeOK, Release, PInv, Vacant, SInv, Worker, StillOpen
<1>1. /\ i \in Jobs /\ Stands("turn", w, 0, i) /\ result[i] = "waiting"
      /\ \A v \in Workers : ~Stands("merge", v, 0, i) /\ (v # w => ~Stands("turn", v, 0, i))
  <2>1. worker[w].pc \in AtTurn
    BY <1>0 DEF AtTurn
  <2> QED BY <2>1, OnTurn
<1>2. worker'[w] = r /\ \A v \in Workers \ {w} : worker'[v] = worker[v]
  BY <1>0 DEF Release, TypeOK
<1>3. result'[i] = o /\ \A j \in Jobs \ {i} : result'[j] = result[j]
  BY <1>0, <1>1 DEF Release, TypeOK
<1>4. r.pc = "settle" /\ r.job = i /\ r.outcome = o /\ r.consumed = worker[w].consumed
  BY <1>0 DEF Worker
<1>5. o = "ok" => served[i] = <<i>>
  BY <1>0 DEF TurnHanded
<1>6. \A v \in Workers : TurnHanded(worker[v])'
  <2>1. TurnHanded(worker[w])'
    BY <1>0, <1>2, <1>3, <1>4, <1>5 DEF TurnHanded
  <2>2. \A j \in Jobs : result[j] \notin StillOpen => result'[j] = result[j] /\ served'[j] = served[j]
    BY <1>0, <1>1, <1>3 DEF StillOpen
  <2>3. ASSUME NEW v \in Workers, v # w PROVE TurnHanded(worker[v])'
    BY <1>0, <1>2, <2>2, <2>3, TurnKept
  <2> QED BY <2>1, <2>3
<1>7. ASSUME NEW j \in Jobs PROVE Handed(j)'
  <2>0. Handed(j) /\ served'[j] = served[j]
    BY <1>0 DEF SInv
  <2>1. CASE j = i
    <3>1. j \notin merged' /\ result'[j] = o
      BY <1>0, <1>1, <1>3, <2>0, <2>1 DEF Handed
    <3>2. o = "ok" => \E k \in Jobs : served'[j] = <<k>> /\ result'[k] = "ok" /\ (j \in merged' <=> k # j)
      BY <1>0, <1>5, <2>1, <3>1
    <3> QED BY <1>0, <2>0, <3>1, <3>2 DEF Handed, StillOpen
  <2>2. CASE j # i
    BY <1>0, <1>1, <1>3, <2>0, <2>2, HandedKept DEF StillOpen
  <2> QED BY <2>1, <2>2
<1>8. LaneFresh'
  BY <1>0, LaneFreshStep
<1> QED BY <1>6, <1>7, <1>8 DEF SInv

LEMMA ServedDrain ==
  ASSUME IInv, PInv, SInv, PInv', TypeOK', [Next]_vars, NEW w \in Workers, Drain(w)
  PROVE  SInv'
<1> SUFFICES ASSUME NEW i, i = worker[w].job, NEW d, d = worker[w].conv, NEW q, q = lanes[d].inbox,
                    NEW S, S = Alive(q), NEW r, r = [worker[w] EXCEPT !.consumed = @ \cup S]
             PROVE  SInv'
  OBVIOUS
<1>0. /\ TypeOK /\ d \in Convs /\ worker[w] \in Worker /\ worker[w].pc = "run"
      /\ UNCHANGED merged /\ TurnHanded(worker[w]) /\ S \subseteq Elements(q)
  BY AtWork DEF IInv, Drain, SInv, Alive
<1>1. i \in Jobs /\ result[i] = "waiting" /\ Stands("turn", w, 0, i)
  <2>1. worker[w].pc \in AtTurn
    BY <1>0 DEF AtTurn
  <2> QED BY <2>1, OnTurn
<1>2. ASSUME NEW j \in Elements(q)
      PROVE  /\ j \in Jobs /\ result[j] = "waiting" /\ served[j] = <<>>
             /\ \A v \in Workers : ~Stands("merge", v, 0, j) /\ ~Stands("turn", v, 0, j)
  <2>1. j \in Jobs
    BY <1>0, ElementsOfLane
  <2>2. PICK n : Stands("inbox", d, n, j)
    BY <1>0 DEF Stands, Elements
  <2>3. Once(j)
    BY <2>1 DEF PInv
  <2>4. served[j] = <<>>
    BY <1>0 DEF SInv, LaneFresh, LaneJobs
  <2> QED BY <2>1, <2>2, <2>3, <2>4 DEF Once, Unique, Somewhere
<1>3. worker'[w] = r /\ \A v \in Workers \ {w} : worker'[v] = worker[v]
  BY <1>0 DEF Drain, TypeOK
<1>4. r.pc = "run" /\ r.job = i /\ r.consumed = worker[w].consumed \cup S
  BY <1>0 DEF Worker
<1>5. \A j \in Jobs : served'[j] = IF j \in S THEN <<i>> ELSE served[j]
  <2>1. \A j \in Jobs : served'[j] = IF j \in S THEN Append(served[j], i) ELSE served[j]
    BY DEF Drain
  <2>2. \A j \in S : Append(served[j], i) = <<i>>
    BY <1>0, <1>1, <1>2, AppendToNone
  <2> QED BY <2>1, <2>2
<1>6. \A j \in Jobs : result'[j] = IF j \in Elements(q) \cap ended THEN "cancelled" ELSE result[j]
  BY DEF Drain
<1>7. \A j \in Jobs : result[j] \notin StillOpen => result'[j] = result[j] /\ served'[j] = served[j]
  BY <1>0, <1>2, <1>5, <1>6 DEF StillOpen
<1>8. \A v \in Workers : TurnHanded(worker[v])'
  <2>1. TurnHanded(worker[w])'
    <3>1. served'[i] = <<i>>
      BY <1>0, <1>1, <1>2, <1>5 DEF TurnHanded
    <3>2. \A j \in worker[w].consumed : j \in Jobs /\ served[j] = <<i>>
      BY <1>0 DEF TurnHanded, Worker
    <3>3. S \subseteq Jobs
      BY <1>0, <1>2
    <3>4. \A j \in r.consumed : served'[j] = <<i>>
      BY <1>4, <1>5, <3>2, <3>3
    <3> QED BY <1>3, <1>4, <3>1, <3>4 DEF TurnHanded
  <2>2. ASSUME NEW v \in Workers, v # w PROVE TurnHanded(worker[v])'
    <3>1. \A j \in Jobs : Stands("turn", v, 0, j) \/ Stands("merge", v, 0, j) => served'[j] = served[j]
      BY <1>0, <1>2, <1>5
    <3> QED BY <1>3, <1>7, <2>2, <3>1, TurnKept
  <2> QED BY <2>1, <2>2
<1>9. ASSUME NEW j \in Jobs PROVE Handed(j)'
  <2>0. Handed(j)
    BY DEF SInv
  <2>1. CASE j \in S
    <3>1. result[j] = "waiting" /\ served'[j] = <<i>> /\ result'[j] \in {"waiting", "cancelled"}
      BY <1>0, <1>2, <1>5, <1>6, <2>1
    <3>2. j \notin merged'
      BY <1>0, <2>0, <3>1 DEF Handed
    <3> QED BY <1>1, <3>1, <3>2 DEF Handed
  <2>2. CASE j \notin S
    <3>1. served'[j] = served[j]
      BY <1>5, <2>2
    <3>2. \/ result'[j] = result[j]
          \/ result[j] \in StillOpen /\ result'[j] \notin {"none", "ok"}
      BY <1>2, <1>6 DEF StillOpen
    <3> QED BY <1>0, <1>7, <2>0, <3>1, <3>2, HandedKept
  <2> QED BY <2>1, <2>2
<1>10. LaneFresh'
  <2>1. \A j \in S : Stands("merge", w, 0, j)'
    BY <1>3, <1>4 DEF Stands
  <2> QED BY <1>5, <2>1, LaneFreshStep
<1> QED BY <1>8, <1>9, <1>10 DEF SInv

LEMMA ServedSettle ==
  ASSUME IInv, PInv, SInv, PInv', TypeOK', [Next]_vars, NEW w \in Workers, Settle(w)
  PROVE  SInv'
<1> SUFFICES ASSUME NEW i, i = worker[w].job, NEW o, o = worker[w].outcome,
                    NEW S, S = worker[w].consumed,
                    NEW r, r = [Idle EXCEPT !.pc = "loop", !.conv = worker[w].conv]
             PROVE  SInv'
  OBVIOUS
<1>0. /\ TypeOK /\ worker[w] \in Worker /\ worker[w].pc = "settle" /\ i \in Jobs /\ S \subseteq Jobs
      /\ UNCHANGED served /\ merged' = merged \cup S /\ TurnHanded(worker[w]) /\ o \notin StillOpen
  BY JobAtWork DEF IInv, TypeOK, Settle, PInv, Vacant, SInv, Worker, StillOpen
<1>1. result[i] = o /\ \A j \in S : served[j] = <<i>> /\ result[j] = "waiting"
  <2>1. \A j \in S : Stands("merge", w, 0, j)
    BY DEF Stands
  <2>2. \A j \in S : result[j] = "waiting"
    BY <1>0, <2>1 DEF PInv, Once, Somewhere
  <2> QED BY <1>0, <2>2 DEF TurnHanded
<1>2. worker'[w] = r /\ \A v \in Workers \ {w} : worker'[v] = worker[v]
  BY <1>0 DEF Settle, TypeOK
<1>3. r.pc = "loop" /\ r.consumed = {}
  BY DEF Idle
<1>4. \A j \in Jobs : IF j \in S THEN result'[j] \in {"cancelled", o} ELSE result'[j] = result[j]
  BY DEF Settle
<1>5. \A j \in Jobs : result[j] \notin StillOpen => result'[j] = result[j] /\ served'[j] = served[j]
  BY <1>0, <1>1, <1>4 DEF StillOpen
<1>6. \A v \in Workers : TurnHanded(worker[v])'
  <2>1. TurnHanded(worker[w])'
    BY <1>2, <1>3 DEF TurnHanded
  <2>2. ASSUME NEW v \in Workers, v # w PROVE TurnHanded(worker[v])'
    BY <1>0, <1>2, <1>5, <2>2, TurnKept
  <2> QED BY <2>1, <2>2
<1>7. ASSUME NEW j \in Jobs PROVE Handed(j)'
  <2>0. Handed(j) /\ served'[j] = served[j]
    BY <1>0 DEF SInv
  <2>1. CASE j \in S
    <3>1. j \in merged' /\ result'[j] \in {"cancelled", o} /\ served'[j] = <<i>>
      BY <1>0, <1>1, <1>4, <2>0, <2>1
    <3>2. j # i /\ result'[i] = o
      BY <1>0, <1>1, <1>5, <2>1 DEF StillOpen
    <3>3. result'[j] = "ok" => \E k \in Jobs : served'[j] = <<k>> /\ result'[k] = "ok" /\ (j \in merged' <=> k # j)
      BY <1>0, <3>1, <3>2
    <3> QED BY <1>0, <3>1, <3>3 DEF Handed, StillOpen
  <2>2. CASE j \notin S
    BY <1>0, <1>4, <1>5, <2>0, <2>2, HandedKept
  <2> QED BY <2>1, <2>2
<1>8. LaneFresh'
  BY <1>0, LaneFreshStep
<1> QED BY <1>6, <1>7, <1>8 DEF SInv

\* A goroutine that moves on without a runner.
LEMMA ServedMoves ==
  ASSUME IInv, PInv, SInv, PInv', TypeOK', [Next]_vars, UNCHANGED <<served, merged, result>>,
         NEW w \in Workers, NEW r, worker' = [worker EXCEPT ![w] = r], TurnHanded(r)
  PROVE  SInv'
<1>1. worker'[w] = r /\ \A v \in Workers \ {w} : worker'[v] = worker[v]
  BY DEF IInv, TypeOK
<1>2. TurnHanded(r)'
  BY DEF TurnHanded
<1> QED BY <1>1, <1>2, ServedQuiet

LEMMA ServedWorker ==
  ASSUME IInv, PInv, SInv, PInv', TypeOK', [Next]_vars, NEW w \in Workers, Step(w) \/ Drain(w)
  PROVE  SInv'
<1>0. TypeOK /\ worker[w] \in Worker /\ TurnHanded(worker[w]) /\ Vacant(worker[w])
  BY DEF IInv, TypeOK, SInv, PInv
<1>1. CASE Exit(w)
  <2>1. TurnHanded(Idle)
    BY DEF TurnHanded, Idle
  <2> QED BY <1>1, <2>1, ServedMoves DEF Exit
<1>2. CASE Take(w)
  <2> SUFFICES ASSUME NEW d, d = worker[w].conv, NEW q, q = lanes[d].queue,
                      NEW r, r = [worker[w] EXCEPT !.pc = "slot", !.job = Head(q)]
               PROVE  SInv'
    OBVIOUS
  <2>1. worker[w].pc = "loop" /\ d \in Convs /\ lanes[d] \in Lane /\ LaneOK(lanes[d]) /\ q # <<>>
    BY <1>2, AtWork DEF IInv, Take, Ready
  <2>2. Head(q) \in Elements(q)
    <3>1. q \in Seq(Jobs) /\ Ordered(q)
      BY <2>1, LaneFields DEF LaneOK
    <3>2. Head(q) = q[1] /\ 1 \in DOMAIN q
      BY <2>1, <3>1, OrderedTail
    <3> QED BY <3>2 DEF Elements
  <2>3. served[Head(q)] = <<>>
    BY <2>1, <2>2 DEF SInv, LaneFresh, LaneJobs
  <2>4. r.pc = "slot" /\ r.job = Head(q) /\ r.consumed = {}
    BY <1>0, <2>1 DEF Worker, Vacant
  <2>5. TurnHanded(r)
    BY <2>3, <2>4 DEF TurnHanded
  <2> QED BY <1>2, <2>5, ServedMoves DEF Take
<1>3. CASE Acquire(w)
  <2> SUFFICES ASSUME NEW r, r = [worker[w] EXCEPT !.pc = "begin", !.slot = TRUE] PROVE SInv'
    OBVIOUS
  <2>1. /\ r.pc = "begin" /\ r.job = worker[w].job /\ r.consumed = worker[w].consumed
        /\ worker[w].pc = "slot"
    BY <1>0, <1>3 DEF Worker, Acquire
  <2>2. TurnHanded(r)
    BY <1>0, <2>1 DEF TurnHanded
  <2> QED BY <1>3, <2>2, ServedMoves DEF Acquire
<1>4. CASE GiveUp(w)
  <2> SUFFICES ASSUME NEW r, r = [worker[w] EXCEPT !.pc = "begin"] PROVE SInv'
    OBVIOUS
  <2>1. /\ r.pc = "begin" /\ r.job = worker[w].job /\ r.consumed = worker[w].consumed
        /\ worker[w].pc = "slot"
    BY <1>0, <1>4 DEF Worker, GiveUp
  <2>2. TurnHanded(r)
    BY <1>0, <2>1 DEF TurnHanded
  <2> QED BY <1>4, <2>2, ServedMoves DEF GiveUp
<1>5. ASSUME NEW o, Return(w, o) PROVE SInv'
  <2> SUFFICES ASSUME NEW r, r = [worker[w] EXCEPT !.pc = "release", !.outcome = o] PROVE SInv'
    OBVIOUS
  <2>1. /\ r.pc = "release" /\ r.job = worker[w].job /\ r.consumed = worker[w].consumed
        /\ worker[w].pc = "run"
    BY <1>0, <1>5 DEF Worker, Return
  <2>2. TurnHanded(r)
    BY <1>0, <2>1 DEF TurnHanded
  <2> QED BY <1>5, <2>2, ServedMoves DEF Return
<1> QED BY <1>1, <1>2, <1>3, <1>4, <1>5, ServedBegin, ServedRelease, ServedSettle, ServedDrain DEF Step

LEMMA ServedSubmit ==
  ASSUME IInv, PInv, SInv, PInv', TypeOK', [Next]_vars, NEW r \in Requests, Submit(r)
  PROVE  SInv'
<1> SUFFICES ASSUME NEW j, j = count + 1, NEW n, n = [Idle EXCEPT !.pc = "loop", !.conv = r.conv] PROVE SInv'
  OBVIOUS
<1>0. TypeOK /\ UNCHANGED <<served, merged>>
  BY DEF IInv, Submit
<1>1. j \in Jobs /\ result[j] = "none"
  <2>1. j \in Jobs /\ j \notin Accepted
    BY <1>0, Constants DEF Submit, TypeOK, Jobs, Accepted
  <2> QED BY <2>1 DEF PInv, Once
<1>2. \A i \in Jobs : \/ result'[i] = result[i]
                      \/ result[i] \in StillOpen /\ result'[i] \notin {"none", "ok"}
  BY <1>0, <1>1 DEF Submit, TypeOK, StillOpen
<1>3. TurnHanded(n)'
  <2>1. n.pc = "loop" /\ n.consumed = {}
    BY DEF Idle
  <2> QED BY <2>1 DEF TurnHanded
<1>4. \A w \in Workers : worker'[w] = worker[w] \/ TurnHanded(worker[w])'
  <2>1. worker' = worker \/ \E w \in Workers : worker' = [worker EXCEPT ![w] = n]
    BY DEF Submit
  <2>2. \A w \in Workers : worker'[w] = worker[w] \/ worker'[w] = n
    BY <1>0, <2>1 DEF TypeOK
  <2> QED BY <1>3, <2>2
<1> QED BY <1>0, <1>2, <1>4, ServedQuiet

LEMMA ServedClear ==
  ASSUME IInv, PInv, SInv, PInv', TypeOK', [Next]_vars, NEW C \in SUBSET Convs, Clear(C),
         UNCHANGED <<worker, served, merged>>
  PROVE  SInv'
<1> DEFINE waits == UNION {Elements(lanes[c].queue) \cup Elements(lanes[c].inbox) : c \in C}
<1>1. \A j \in Jobs : result'[j] = IF j \in waits THEN "cancelled" ELSE result[j]
  BY DEF Clear
<1>2. ASSUME NEW j \in Jobs, j \in waits PROVE result[j] = "waiting"
  <2>1. \E c \in C : j \in Elements(lanes[c].queue) \/ j \in Elements(lanes[c].inbox)
    BY <1>2
  <2>2. \E c \in C : \E x, n : Stands(x, c, n, j)
    BY <2>1 DEF Elements, Stands
  <2> QED BY <2>2 DEF PInv, Once, Somewhere
<1> HIDE DEF waits
<1>3. \A j \in Jobs : \/ result'[j] = result[j]
                      \/ result[j] \in StillOpen /\ result'[j] \notin {"none", "ok"}
  BY <1>1, <1>2 DEF StillOpen
<1> QED BY <1>3, ServedQuiet

LEMMA ServedStep ==
  ASSUME IInv, PInv, SInv, PInv', TypeOK', [Next]_vars
  PROVE  SInv'
<1>1. CASE \E r \in Requests : Submit(r)
  BY <1>1, ServedSubmit
<1>2. CASE \E w \in Workers : Step(w) \/ Drain(w)
  BY <1>2, ServedWorker
<1>3. CASE \E c \in Convs : CancelConversation(c)
  <2>1. PICK c \in Convs : CancelConversation(c)
    BY <1>3
  <2> QED BY <2>1, ServedClear DEF CancelConversation
<1>4. CASE Seal
  <2>1. {c \in Convs : lanes[c].live} \in SUBSET Convs
    OBVIOUS
  <2> QED BY <1>4, <2>1, ServedClear DEF Seal
<1>5. CASE (\E j \in Jobs : Cancel(j)) \/ Join \/ UNCHANGED vars
  BY <1>5, ServedQuiet DEF Cancel, Join, vars
<1> QED BY <1>1, <1>2, <1>3, <1>4, <1>5 DEF Next

LEMMA ServedInit == Init => SInv
<1> SUFFICES ASSUME Init PROVE SInv
  OBVIOUS
<1>1. /\ \A c \in Convs : LaneJobs(c) = {}
      /\ \A w \in Workers : worker[w].pc = "idle" /\ worker[w].consumed = {}
      /\ \A j \in Jobs : result[j] = "none" /\ served[j] = <<>> /\ j \notin merged
  BY EmptySeq DEF Init, EmptyLane, Idle, LaneJobs, Elements
<1> QED BY <1>1 DEF SInv, LaneFresh, TurnHanded, Handed

\* scheduler_test.go, AcceptedHandlesAllResolve, and scheduler.go, Result.Merged: an
\* open handle's job is in exactly one place, a finished one's nowhere; a message
\* reaches a runner at most once, and succeeds only with the turn it was handed to;
\* and no slot is lost or given back twice.
THEOREM NoneLost == Spec => []NothingLost
<1>1. IInv /\ PInv /\ SInv /\ IInv' /\ [Next]_vars => (PInv /\ SInv)'
  BY PlacesStep, ServedStep DEF IInv
<1>2. ASSUME IInv, PInv, SInv PROVE NothingLost
  <2>1. ASSUME NEW j \in Jobs
        PROVE  /\ Len(served[j]) <= 1
               /\ result[j] = "ok" => /\ Len(served[j]) = 1
                                      /\ result[served[j][1]] = "ok"
                                      /\ (j \in merged) <=> (served[j][1] # j)
    <3>1. \A k : Len(<<k>>) = 1 /\ <<k>>[1] = k
      OBVIOUS
    <3>2. Len(<<>>) = 0
      BY EmptySeq
    <3>3. Handed(j)
      BY <1>2 DEF SInv
    <3>4. CASE served[j] = <<>>
      <4>1. \A k : served[j] # <<k>>
        BY <3>1, <3>2, <3>4
      <4>2. result[j] # "ok"
        BY <3>3, <4>1 DEF Handed
      <4> QED BY <3>2, <3>4, <4>2
    <3>5. CASE served[j] # <<>>
      <4>1. PICK k \in Jobs : /\ served[j] = <<k>>
                              /\ result[j] = "ok" => result[k] = "ok" /\ (j \in merged <=> k # j)
        <5>1. PICK k \in Jobs : served[j] = <<k>>
          BY <3>3, <3>5 DEF Handed
        <5>2. \A m : served[j] = <<m>> => m = k
          BY <3>1, <5>1
        <5> QED BY <3>3, <5>1, <5>2 DEF Handed
      <4>2. Len(served[j]) = 1 /\ served[j][1] = k
        BY <3>1, <4>1
      <4> QED BY <4>1, <4>2
    <3> QED BY <3>4, <3>5
  <2>2. ServedOnce
    BY <2>1 DEF ServedOnce
  <2> QED BY <1>2, <2>2, PlacesCounted DEF NothingLost, IInv
<1> QED BY <1>1, <1>2, PlacesInit, ServedInit, SchedulerInvariant, PTL DEF Spec

-----------------------------------------------------------------------------
(* The session of the conversation, and the memory it feeds               *)

\* Sessions: what outlives the turns that a lane runs.  Of what SessionsConstants
\* says this much is needed: a turn teaches a sequence of candidates.
Taught ==
  /\ Asks \in Nat
  /\ \A t \in Turns :
       /\ Learned[t] \in Seq({Learned[t][i] : i \in DOMAIN Learned[t]})
       /\ \A i \in DOMAIN Learned[t] : Learned[t][i].cites \subseteq Evidence

\* The constants of the component are as it assumes.
LEMMA TaughtHolds == Taught
BY SessionsConstants DEF Taught

Said == Turns \X {"request", "answer"}

InTurn == {"begin", "loop", "failing", "commit", "report"}

SessionFile == [rev : Nat, epoch : Nat, messages : SUBSET Said]

Phases == {"down", "loaded", "owner", "claimed", "idle", "stopping", "closing"} \cup InTurn

AgentRecord ==
  [pc : Phases,
   turn : Nat, rev : Nat, epoch : Nat, messages : SUBSET Said]

JobRecord == [state : {"none", "pending", "done", "failed"}, attempts : Nat, due : BOOLEAN]

WriterRecord ==
  [pc : {"off", "idle", "scan", "store", "merge", "record"}, closed : BOOLEAN,
   todo : SUBSET Turns, turn : Turns \cup {0}, ok : BOOLEAN]

Stored ==
  /\ disk \in SessionFile /\ disk.rev > 0
  /\ agent \in [Procs -> AgentRecord]
  /\ asked \in 0 .. Asks /\ answered \subseteq Turns
  /\ job \in [Turns -> JobRecord]
  /\ facts \in Seq(Turns)
  /\ report \in [Turns -> {"none", "failed", "completed"}]
  /\ writer \in [Procs -> WriterRecord]

\* Who passes the fence has everything the file has; no revision is ahead of it.
Abreast(a) ==
  /\ a.rev <= disk.rev
  /\ Fenced(a) => disk.messages \subseteq a.messages

\* A turn under way: it is one of those that have begun, not reported as completed,
\* and before its report it is in the session with a memory job.
OnItsWay(a) ==
  a.pc \in InTurn =>
    /\ a.turn \in 1 .. asked
    /\ report[a.turn] # "completed"
    /\ a.pc \in {"commit", "report"} => job[a.turn].state # "none"
    /\ a.pc = "commit" => <<a.turn, "answer">> \in a.messages
    /\ a.pc = "report" => <<a.turn, "answer">> \in disk.messages

Owned(a, b) == a.pc \in InTurn /\ b.pc \in InTurn => a.turn # b.turn

\* A turn reported as completed is in the session with its answer and has a job.
Backed(t) ==
  /\ report[t] = "completed" => <<t, "answer">> \in disk.messages /\ job[t].state # "none"
  /\ report[t] # "none" => t <= asked

\* A writer derives facts from such turns only.
Licensed(w) == w.pc \in {"store", "merge", "record"} =>
                 w.turn \in Turns /\ report[w.turn] = "completed"

SessionInv ==
  /\ Stored
  /\ \A p \in Procs : Abreast(agent[p]) /\ OnItsWay(agent[p]) /\ Licensed(writer[p])
  /\ \A p, q \in Procs : p # q => Owned(agent[p], agent[q])
  /\ \A t \in Turns : Backed(t)
  /\ \A t \in answered : report[t] = "completed"
  /\ \A i \in DOMAIN facts : report[facts[i]] = "completed"
  /\ \A i, j \in DOMAIN facts : facts[i] = facts[j] => i = j

\* A step of one agent: the file only grows, what is reported or recorded stays, and
\* it is enough to look at this agent and the writers.
LEMMA AgentKeeps ==
  ASSUME Taught, SessionInv, Stored', NEW p \in Procs,
         \A q \in Procs : q # p => agent'[q] = agent[q],
         disk' = disk \/ (disk'.rev > disk.rev /\ disk.messages \subseteq disk'.messages),
         asked <= asked', facts' = facts,
         \A t \in Turns : job[t].state # "none" => job'[t].state # "none",
         \A t \in Turns :
           report'[t] = report[t] \/ /\ agent[p].pc \in InTurn /\ t = agent[p].turn
                                     /\ report'[t] # "none"
                                     /\ report'[t] = "completed" => agent[p].pc = "report",
         Abreast(agent[p])', OnItsWay(agent[p])',
         agent'[p].pc \in InTurn => \/ agent[p].pc \in InTurn /\ agent'[p].turn = agent[p].turn
                                    \/ agent'[p].turn > asked,
         \A q \in Procs : \/ writer'[q].pc = writer[q].pc /\ writer'[q].turn = writer[q].turn
                         \/ writer'[q].pc \notin {"store", "merge", "record"},
         \A t \in answered' : t \in answered \/ report'[t] = "completed"
  PROVE  SessionInv'
<1> USE DEF SessionInv
<1>1. /\ disk.rev \in Nat /\ disk'.rev \in Nat /\ asked \in Nat /\ asked' \in Nat
      /\ disk.messages \subseteq disk'.messages /\ disk.rev <= disk'.rev
  BY DEF Stored, SessionFile
<1>2. \A t \in Turns : t \in Nat
  BY DEF Turns
<1>3. \A t \in Turns : report[t] = "completed" => report'[t] = "completed"
  <2>1. agent[p].pc \in InTurn => report[agent[p].turn] # "completed"
    BY DEF OnItsWay
  <2> QED BY <2>1
<1>4. ASSUME NEW q \in Procs PROVE Abreast(agent[q])' /\ OnItsWay(agent[q])'
  <2>1. CASE q = p
    BY <2>1
  <2>2. CASE q # p
    <3>1. agent'[q] = agent[q] /\ agent[q] \in AgentRecord /\ Abreast(agent[q]) /\ OnItsWay(agent[q])
      BY <2>2 DEF Stored
    <3>2. agent[q].rev \in Nat
      BY <3>1 DEF AgentRecord
    <3>3. Abreast(agent[q])'
      BY <1>1, <3>1, <3>2 DEF Abreast, Fenced
    <3>4. ASSUME agent[q].pc \in InTurn
          PROVE  /\ agent[q].turn \in 1 .. asked /\ agent[q].turn \in Turns
                 /\ agent[q].turn \in 1 .. asked'
      <4>1. agent[q].turn \in 1 .. asked
        BY <3>1, <3>4 DEF OnItsWay
      <4>2. asked <= Asks /\ asked' <= Asks /\ Turns = 1 .. Asks /\ Asks \in Nat
        BY DEF Taught, Stored, Turns
      <4> QED BY <1>1, <4>1, <4>2
    <3>5. ASSUME agent[q].pc \in InTurn PROVE report'[agent[q].turn] # "completed"
      <4>1. report[agent[q].turn] # "completed"
        BY <3>1, <3>5 DEF OnItsWay
      <4>2. agent[p].pc \in InTurn => agent[p].turn # agent[q].turn
        BY <2>2, <3>5 DEF Owned
      <4> QED BY <3>4, <3>5, <4>1, <4>2
    <3>6. OnItsWay(agent[q])'
      BY <1>1, <3>1, <3>4, <3>5 DEF OnItsWay
    <3> QED BY <3>3, <3>6
  <2> QED BY <2>1, <2>2
<1>5. ASSUME NEW q \in Procs, NEW r \in Procs, q # r PROVE Owned(agent[q], agent[r])'
  <2>1. ASSUME NEW s \in Procs, agent[s].pc \in InTurn
        PROVE  agent[s].turn \in 1 .. asked /\ ~(agent[s].turn > asked)
    <3>1. OnItsWay(agent[s])
      OBVIOUS
    <3>2. agent[s].turn \in 1 .. asked
      BY <2>1, <3>1 DEF OnItsWay
    <3> QED BY <1>1, <3>2
  <2>2. CASE q = p
    <3>1. agent'[r] = agent[r] /\ (Owned(agent[p], agent[r]))
      BY <1>5, <2>2
    <3> QED BY <1>1, <2>1, <2>2, <3>1 DEF Owned
  <2>3. CASE r = p
    <3>1. agent'[q] = agent[q] /\ (Owned(agent[p], agent[q]))
      BY <1>5, <2>3
    <3> QED BY <1>1, <2>1, <2>3, <3>1 DEF Owned
  <2>4. CASE q # p /\ r # p
    BY <1>5, <2>4 DEF Owned
  <2> QED BY <2>2, <2>3, <2>4
<1>6. ASSUME NEW t \in Turns PROVE Backed(t)'
  <2>1. CASE report'[t] = report[t]
    BY <1>1, <1>2, <2>1 DEF Backed
  <2>2. CASE /\ agent[p].pc \in InTurn /\ t = agent[p].turn /\ report'[t] # "none"
             /\ report'[t] = "completed" => agent[p].pc = "report"
    BY <1>1, <1>2, <2>2 DEF OnItsWay, Backed
  <2> QED BY <2>1, <2>2
<1>7. ASSUME NEW q \in Procs PROVE Licensed(writer[q])'
  BY <1>3, <1>7 DEF Licensed
<1>8. \A t \in answered' : report'[t] = "completed"
  BY <1>3 DEF Stored
<1>9. \A i \in DOMAIN facts : report'[facts[i]] = "completed"
  BY <1>3 DEF Stored
<1> QED BY <1>4, <1>5, <1>6, <1>7, <1>8, <1>9

\* A step of the writers: the session and the reports stay.
LEMMA WriterKeeps ==
  ASSUME Taught, SessionInv, UNCHANGED <<disk, agent, asked, answered, report>>,
         job' \in [Turns -> JobRecord],
         \A t \in Turns : job[t].state # "none" => job'[t].state # "none",
         writer' \in [Procs -> WriterRecord], \A q \in Procs : Licensed(writer[q])',
         \/ facts' = facts
         \/ \E t \in Turns : /\ facts' = Append(facts, t) /\ report[t] = "completed"
                             /\ \A i \in DOMAIN facts : facts[i] # t
  PROVE  SessionInv'
<1> USE DEF SessionInv
<1>1. facts \in Seq(Turns)
  BY DEF Stored
<1>2. /\ facts' \in Seq(Turns)
      /\ \A i \in DOMAIN facts' : report[facts'[i]] = "completed"
      /\ \A i, j \in DOMAIN facts' : facts'[i] = facts'[j] => i = j
  <2>1. CASE facts' = facts
    BY <1>1, <2>1
  <2>2. CASE \E t \in Turns : /\ facts' = Append(facts, t) /\ report[t] = "completed"
                              /\ \A i \in DOMAIN facts : facts[i] # t
    <3>1. PICK t \in Turns : /\ facts' = Append(facts, t) /\ report[t] = "completed"
                             /\ \A i \in DOMAIN facts : facts[i] # t
      BY <2>2
    <3>2. /\ facts' \in Seq(Turns) /\ Len(facts) \in Nat
          /\ DOMAIN facts = 1 .. Len(facts) /\ DOMAIN facts' = 1 .. Len(facts) + 1
      BY <1>1, <3>1
    <3>3. /\ facts'[Len(facts) + 1] = t
          /\ \A i \in DOMAIN facts : facts'[i] = facts[i]
      BY <1>1, <3>1
    <3>4. ASSUME NEW i \in DOMAIN facts', NEW j \in DOMAIN facts', facts'[i] = facts'[j]
          PROVE  i = j
      <4>1. i \in DOMAIN facts \/ i = Len(facts) + 1
        BY <3>2
      <4>2. j \in DOMAIN facts \/ j = Len(facts) + 1
        BY <3>2
      <4>3. i \in DOMAIN facts => facts'[i] # t
        BY <3>1, <3>3
      <4>4. j \in DOMAIN facts => facts'[j] # t
        BY <3>1, <3>3
      <4>5. CASE i \in DOMAIN facts /\ j \in DOMAIN facts
        <5>1. facts[i] = facts[j]
          BY <3>4, <3>3, <4>5
        <5> QED BY <4>5, <5>1
      <4>6. CASE i = Len(facts) + 1 \/ j = Len(facts) + 1
        <5>1. i = Len(facts) + 1 /\ j = Len(facts) + 1
          BY <3>4, <3>3, <4>1, <4>2, <4>3, <4>4, <4>6
        <5> QED BY <5>1
      <4> QED BY <4>1, <4>2, <4>5, <4>6
    <3>5. ASSUME NEW i \in DOMAIN facts' PROVE report[facts'[i]] = "completed"
      <4>1. i \in DOMAIN facts \/ i = Len(facts) + 1
        BY <3>2
      <4>2. CASE i \in DOMAIN facts
        BY <3>3, <4>2
      <4>3. CASE i = Len(facts) + 1
        BY <3>1, <3>3, <4>3
      <4> QED BY <4>1, <4>2, <4>3
    <3> QED BY <3>2, <3>4, <3>5
  <2> QED BY <2>1, <2>2
<1>3. Stored'
  BY <1>2 DEF Stored
<1>4. \A p \in Procs : Abreast(agent[p])' /\ OnItsWay(agent[p])'
  <2>1. ASSUME NEW p \in Procs, agent[p].pc \in InTurn PROVE agent[p].turn \in Turns
    <3>1. OnItsWay(agent[p]) /\ asked \in 0 .. Asks /\ Asks \in Nat
      BY DEF Stored, Taught
    <3>2. agent[p].turn \in 1 .. asked
      BY <2>1, <3>1 DEF OnItsWay
    <3> QED BY <3>1, <3>2 DEF Turns
  <2> QED BY <2>1 DEF Abreast, OnItsWay, Fenced
<1>5. \A p, q \in Procs : p # q => Owned(agent[p], agent[q])'
  BY DEF Owned
<1>6. \A t \in Turns : Backed(t)'
  BY DEF Backed
<1> QED BY <1>2, <1>3, <1>4, <1>5, <1>6

\* Where an agent goes, the rest of it stays.
LEMMA AgentGoes ==
  ASSUME agent \in [Procs -> AgentRecord], NEW p \in Procs, NEW place \in Phases, Go(p, place)
  PROVE  /\ agent' \in [Procs -> AgentRecord]
         /\ \A q \in Procs : q # p => agent'[q] = agent[q]
         /\ agent'[p].pc = place /\ agent'[p].turn = agent[p].turn /\ agent'[p].rev = agent[p].rev
         /\ agent'[p].epoch = agent[p].epoch /\ agent'[p].messages = agent[p].messages
<1>1. agent' = [agent EXCEPT ![p].pc = place]
  BY DEF Go
<1>2. agent[p] \in AgentRecord
  OBVIOUS
<1> DEFINE one == [agent[p] EXCEPT !.pc = place]
<1>3. /\ one \in AgentRecord /\ one.pc = place /\ one.turn = agent[p].turn /\ one.rev = agent[p].rev
      /\ one.epoch = agent[p].epoch /\ one.messages = agent[p].messages
  BY <1>2 DEF AgentRecord
<1>4. agent' = [agent EXCEPT ![p] = one]
  BY <1>1
<1> HIDE DEF one
<1> QED BY <1>3, <1>4

\* Who writes the session file has, if the fence let it, all that was in it.
LEMMA FileReplaced ==
  ASSUME SessionInv, NEW p \in Procs, NEW next \in SessionFile, NEW ok \in BOOLEAN,
         NEW place \in Phases, NEW otherwise \in Phases,
         next.rev = disk.rev + 1, next.messages = agent[p].messages,
         Replace(p, next, ok, place, otherwise)
  PROVE  /\ disk' \in SessionFile /\ disk'.rev > 0
         /\ disk' = disk \/ (disk'.rev > disk.rev /\ disk.messages \subseteq disk'.messages)
         /\ ok => disk'.messages = agent[p].messages
         /\ agent' \in [Procs -> AgentRecord]
         /\ \A q \in Procs : q # p => agent'[q] = agent[q]
         /\ agent'[p].pc = IF ok THEN place ELSE otherwise
         /\ agent'[p].turn = agent[p].turn /\ agent'[p].messages = agent[p].messages
         /\ Abreast(agent[p])'
<1>1. /\ disk \in SessionFile /\ disk.rev \in Nat /\ disk.rev > 0 /\ Abreast(agent[p])
      /\ agent \in [Procs -> AgentRecord] /\ agent[p] \in AgentRecord /\ agent[p].rev \in Nat
  BY DEF SessionInv, Stored, SessionFile, AgentRecord
<1>2. CASE ok
  <2>1. /\ Fenced(agent[p]) /\ disk' = next
        /\ agent' = [agent EXCEPT ![p].rev = next.rev, ![p].epoch = next.epoch, ![p].pc = place]
    BY <1>2 DEF Replace
  <2> DEFINE one == [agent[p] EXCEPT !.rev = next.rev, !.epoch = next.epoch, !.pc = place]
  <2>2. next.rev \in Nat /\ next.epoch \in Nat
    BY DEF SessionFile
  <2>3. /\ one \in AgentRecord /\ one.pc = place /\ one.turn = agent[p].turn /\ one.rev = next.rev
        /\ one.messages = agent[p].messages
    BY <1>1, <2>2 DEF AgentRecord
  <2>4. agent' = [agent EXCEPT ![p] = one]
    BY <1>1, <2>1
  <2> HIDE DEF one
  <2>5. /\ agent' \in [Procs -> AgentRecord] /\ agent'[p] = one
        /\ \A q \in Procs : q # p => agent'[q] = agent[q]
    BY <1>1, <2>3, <2>4
  <2>6. disk.messages \subseteq disk'.messages
    BY <1>1, <2>1 DEF Abreast
  <2>7. Abreast(agent[p])'
    BY <2>1, <2>2, <2>3, <2>5 DEF Abreast
  <2> QED BY <1>1, <1>2, <2>1, <2>2, <2>3, <2>5, <2>6, <2>7
<1>3. CASE ~ok
  <2>1. /\ Go(p, otherwise)
        /\ disk' = disk \/ (Fenced(agent[p]) /\ disk' = next)
    <3>1. /\ Go(p, otherwise)
          /\ disk' \in IF Fenced(agent[p]) THEN {disk, next} ELSE {disk}
      BY <1>3, Zenon DEF Replace
    <3> QED BY <3>1
  <2>2. /\ agent' \in [Procs -> AgentRecord]
        /\ \A q \in Procs : q # p => agent'[q] = agent[q]
        /\ agent'[p].pc = otherwise /\ agent'[p].turn = agent[p].turn /\ agent'[p].rev = agent[p].rev
        /\ agent'[p].epoch = agent[p].epoch /\ agent'[p].messages = agent[p].messages
    BY <1>1, <2>1, AgentGoes
  <2>3. Abreast(agent[p])'
    BY <1>1, <2>1, <2>2 DEF Abreast, Fenced
  <2>4. disk' = disk \/ (disk'.rev > disk.rev /\ disk.messages \subseteq disk'.messages)
    BY <1>1, <2>1 DEF Abreast
  <2> QED BY <1>1, <1>3, <2>1, <2>2, <2>3, <2>4
<1> QED BY <1>2, <1>3

\* What a save and a claim write: the next revision, with the messages in memory.
LEMMA FileSaved ==
  ASSUME SessionInv, NEW p \in Procs
  PROVE  /\ Saved(p) \in SessionFile /\ Saved(p).rev = disk.rev + 1
         /\ Saved(p).messages = agent[p].messages
         /\ Claimed(p) \in SessionFile /\ Claimed(p).rev = disk.rev + 1
         /\ Claimed(p).messages = agent[p].messages
<1>1. disk \in SessionFile /\ agent[p] \in AgentRecord
  BY DEF SessionInv, Stored
<1> QED BY <1>1 DEF SessionFile, AgentRecord, Saved, Claimed

\* A step of an agent that is in no turn afterwards, and leaves turns and reports alone.
LEMMA AgentRests ==
  ASSUME Taught, SessionInv, NEW p \in Procs, UNCHANGED <<answered, asked, job, facts, report>>,
         disk' \in SessionFile, disk'.rev > 0,
         disk' = disk \/ (disk'.rev > disk.rev /\ disk.messages \subseteq disk'.messages),
         agent' \in [Procs -> AgentRecord], \A q \in Procs : q # p => agent'[q] = agent[q],
         agent'[p].pc \notin InTurn, Abreast(agent[p])',
         writer' \in [Procs -> WriterRecord],
         \A q \in Procs : \/ writer'[q].pc = writer[q].pc /\ writer'[q].turn = writer[q].turn
                          \/ writer'[q].pc \notin {"store", "merge", "record"}
  PROVE  SessionInv'
<1>1. Stored'
  BY DEF SessionInv, Stored
<1>2. OnItsWay(agent[p])'
  BY DEF OnItsWay
<1>3. \A t \in answered' : t \in answered \/ report'[t] = "completed"
  OBVIOUS
<1>4. asked <= asked'
  BY DEF SessionInv, Stored
<1> QED BY <1>1, <1>2, <1>3, <1>4, AgentKeeps

\* An agent that is gone is in no turn, and no file is at its revision.
LEMMA AgentGone ==
  ASSUME SessionInv, NEW p \in Procs, disk' = disk, agent' = [agent EXCEPT ![p] = NoAgent]
  PROVE  /\ disk' \in SessionFile /\ disk'.rev > 0
         /\ agent' \in [Procs -> AgentRecord] /\ \A q \in Procs : q # p => agent'[q] = agent[q]
         /\ agent'[p].pc \notin InTurn /\ Abreast(agent[p])'
<1>1. /\ disk \in SessionFile /\ disk.rev > 0 /\ disk.rev \in Nat /\ agent \in [Procs -> AgentRecord]
  BY DEF SessionInv, Stored, SessionFile
<1>2. NoAgent \in AgentRecord /\ NoAgent.pc \notin InTurn /\ NoAgent.rev = 0
  BY DEF AgentRecord, NoAgent, Phases, InTurn
<1>3. agent'[p] = NoAgent /\ agent' \in [Procs -> AgentRecord]
      /\ \A q \in Procs : q # p => agent'[q] = agent[q]
  BY <1>1, <1>2
<1> QED BY <1>1, <1>2, <1>3 DEF Abreast, Fenced

\* An agent that leaves its turn stands to the file as before.
LEMMA AgentMoves ==
  ASSUME SessionInv, NEW p \in Procs, disk' = disk, NEW place \in Phases \ InTurn, Go(p, place)
  PROVE  /\ disk' \in SessionFile /\ disk'.rev > 0
         /\ agent' \in [Procs -> AgentRecord] /\ \A q \in Procs : q # p => agent'[q] = agent[q]
         /\ agent'[p].pc \notin InTurn /\ Abreast(agent[p])'
<1>1. /\ disk \in SessionFile /\ disk.rev > 0 /\ agent \in [Procs -> AgentRecord] /\ Abreast(agent[p])
  BY DEF SessionInv, Stored
<1>2. /\ agent' \in [Procs -> AgentRecord] /\ \A q \in Procs : q # p => agent'[q] = agent[q]
      /\ agent'[p].pc = place /\ agent'[p].turn = agent[p].turn /\ agent'[p].rev = agent[p].rev
      /\ agent'[p].epoch = agent[p].epoch /\ agent'[p].messages = agent[p].messages
  BY <1>1, AgentGoes
<1> QED BY <1>1, <1>2 DEF Abreast, Fenced

\* Starting, stopping or losing a writer puts it in no place that derives facts.
LEMMA WriterStarts ==
  ASSUME SessionInv, NEW p \in Procs,
         \/ writer' = writer
         \/ Outbox!Start(p) \/ Outbox!Stop(p) \/ Outbox!Die(p)
  PROVE  /\ writer' \in [Procs -> WriterRecord]
         /\ \A q \in Procs : \/ writer'[q].pc = writer[q].pc /\ writer'[q].turn = writer[q].turn
                             \/ writer'[q].pc \notin {"store", "merge", "record"}
<1>1. writer \in [Procs -> WriterRecord]
  BY DEF SessionInv, Stored
<1>2. CASE writer' = writer
  BY <1>1, <1>2
<1> DEFINE idle == [Outbox!NoWriter EXCEPT !.pc = "idle"]
           none == Outbox!NoWriter
           shut == [writer[p] EXCEPT !.closed = TRUE]
<1>3. /\ idle \in WriterRecord /\ idle.pc = "idle" /\ none \in WriterRecord /\ none.pc = "off"
      /\ shut \in WriterRecord /\ shut.pc = writer[p].pc /\ shut.turn = writer[p].turn
  BY <1>1 DEF WriterRecord, Outbox!NoWriter
<1>4. CASE Outbox!Start(p)
  <2>1. writer' = [writer EXCEPT ![p] = idle]
    BY <1>4 DEF Outbox!Start
  <2> HIDE DEF idle
  <2> QED BY <1>1, <1>3, <2>1
<1>5. CASE Outbox!Stop(p)
  <2>1. writer' = [writer EXCEPT ![p] = shut]
    BY <1>1, <1>5 DEF Outbox!Stop
  <2> HIDE DEF shut
  <2> QED BY <1>1, <1>3, <2>1
<1>6. CASE Outbox!Die(p)
  <2>1. writer' = [writer EXCEPT ![p] = none]
    BY <1>6 DEF Outbox!Die
  <2> HIDE DEF none
  <2> QED BY <1>1, <1>3, <2>1
<1> QED BY <1>2, <1>4, <1>5, <1>6

\* Loading, taking the lease, closing and dying leave the session file alone.
LEMMA OpenSessionInv ==
  ASSUME Taught, SessionInv, NEW p \in Procs,
         Load(p) \/ Own(p) \/ Close(p) \/ LetGo(p) \/ Closed(p) \/ Crash(p)
  PROVE  SessionInv' /\ disk' = disk
<1>1. CASE Load(p)
  <2> DEFINE one == [NoAgent EXCEPT !.pc = "loaded", !.rev = disk.rev,
                                    !.epoch = disk.epoch, !.messages = disk.messages]
  <2>1. /\ agent' = [agent EXCEPT ![p] = one]
        /\ UNCHANGED <<disk, answered, asked, job, facts, writer, report>>
    BY <1>1 DEF Load, outbox
  <2>2. disk \in SessionFile /\ disk.rev > 0 /\ disk.rev \in Nat /\ agent \in [Procs -> AgentRecord]
    BY DEF SessionInv, Stored, SessionFile
  <2>3. /\ one \in AgentRecord /\ one.pc \notin InTurn /\ one.rev = disk.rev
        /\ one.messages = disk.messages
    BY <2>2 DEF SessionFile, AgentRecord, NoAgent, Phases, InTurn
  <2> HIDE DEF one
  <2>4. /\ agent'[p] = one /\ agent' \in [Procs -> AgentRecord]
        /\ \A q \in Procs : q # p => agent'[q] = agent[q]
    BY <2>1, <2>2, <2>3
  <2>5. Abreast(agent[p])'
    BY <2>1, <2>2, <2>3, <2>4 DEF Abreast
  <2> QED BY <2>1, <2>2, <2>3, <2>4, <2>5, AgentRests, WriterStarts
<1>2. CASE Own(p)
  <2>1. UNCHANGED <<disk, answered, asked, job, facts, writer, report>>
    BY <1>2 DEF Own, outbox
  <2>2. CASE Go(p, "owner")
    BY <2>1, <2>2, AgentMoves, AgentRests, WriterStarts DEF Phases, InTurn
  <2>3. CASE agent' = [agent EXCEPT ![p] = NoAgent]
    BY <2>1, <2>3, AgentGone, AgentRests, WriterStarts
  <2> QED BY <1>2, <2>1, <2>2, <2>3 DEF Own
<1>3. CASE Close(p)
  <2>1. UNCHANGED <<disk, answered, asked, job, facts, writer, report>> /\ Go(p, "stopping")
    BY <1>3 DEF Close, outbox
  <2> QED BY <2>1, AgentMoves, AgentRests, WriterStarts DEF Phases, InTurn
<1>4. CASE LetGo(p)
  <2>1. /\ UNCHANGED <<disk, answered, asked, job, facts, report>> /\ Go(p, "closing")
        /\ Outbox!Stop(p)
    BY <1>4 DEF LetGo
  <2> QED BY <2>1, AgentMoves, AgentRests, WriterStarts DEF Phases, InTurn
<1>5. CASE Closed(p)
  <2>1. /\ UNCHANGED <<disk, answered, asked, job, facts, writer, report>>
        /\ agent' = [agent EXCEPT ![p] = NoAgent]
    BY <1>5 DEF Closed, outbox
  <2> QED BY <2>1, AgentGone, AgentRests, WriterStarts
<1>6. CASE Crash(p)
  <2>1. /\ UNCHANGED <<disk, answered, asked, job, facts, report>> /\ Outbox!Die(p)
        /\ agent' = [agent EXCEPT ![p] = NoAgent]
    BY <1>6 DEF Crash
  <2> QED BY <2>1, AgentGone, AgentRests, WriterStarts
<1> QED BY <1>1, <1>2, <1>3, <1>4, <1>5, <1>6

\* A step of a turn: the fence, the way of the turn, its report and its job.
LEMMA TurnKeeps ==
  ASSUME Taught, SessionInv, NEW p \in Procs, UNCHANGED <<asked, facts, writer>>,
         agent[p].pc \in InTurn,
         disk' \in SessionFile, disk'.rev > 0,
         disk' = disk \/ (disk'.rev > disk.rev /\ disk.messages \subseteq disk'.messages),
         agent' \in [Procs -> AgentRecord], \A q \in Procs : q # p => agent'[q] = agent[q],
         agent'[p].turn = agent[p].turn, Abreast(agent[p])', OnItsWay(agent[p])',
         job' \in [Turns -> JobRecord],
         \A t \in Turns : job[t].state # "none" => job'[t].state # "none",
         \/ report' = report
         \/ \E status \in {"failed", "completed"} :
              /\ report' = [report EXCEPT ![agent[p].turn] = status]
              /\ status = "completed" => agent[p].pc = "report",
         answered' \subseteq Turns,
         \A t \in answered' : t \in answered \/ report'[t] = "completed"
  PROVE  SessionInv'
<1>1. OnItsWay(agent[p]) /\ asked \in 0 .. Asks /\ Asks \in Nat
      /\ report \in [Turns -> {"none", "failed", "completed"}]
  BY DEF SessionInv, Stored, Taught
<1>2. agent[p].turn \in 1 .. asked
  BY <1>1 DEF OnItsWay
<1>3. agent[p].turn \in Turns
  BY <1>1, <1>2 DEF Turns
<1>4. /\ report' \in [Turns -> {"none", "failed", "completed"}]
      /\ \A t \in Turns :
           report'[t] = report[t] \/ /\ agent[p].pc \in InTurn /\ t = agent[p].turn
                                     /\ report'[t] # "none"
                                     /\ report'[t] = "completed" => agent[p].pc = "report"
  <2>1. CASE report' = report
    BY <1>1, <2>1
  <2>2. CASE \E status \in {"failed", "completed"} :
               /\ report' = [report EXCEPT ![agent[p].turn] = status]
               /\ status = "completed" => agent[p].pc = "report"
    <3>1. PICK status \in {"failed", "completed"} :
            /\ report' = [report EXCEPT ![agent[p].turn] = status]
            /\ status = "completed" => agent[p].pc = "report"
      BY <2>2
    <3>2. /\ report' \in [Turns -> {"none", "failed", "completed"}]
          /\ report'[agent[p].turn] = status
          /\ \A t \in Turns : t # agent[p].turn => report'[t] = report[t]
      BY <1>1, <1>3, <3>1
    <3> QED BY <3>1, <3>2
  <2> QED BY <2>1, <2>2
<1>5. Stored'
  BY <1>4 DEF SessionInv, Stored
<1>6. asked <= asked' /\ (agent'[p].pc \in InTurn =>
        \/ agent[p].pc \in InTurn /\ agent'[p].turn = agent[p].turn
        \/ agent'[p].turn > asked)
  BY <1>1
<1>7. \A q \in Procs : writer'[q].pc = writer[q].pc /\ writer'[q].turn = writer[q].turn
  OBVIOUS
<1> QED BY <1>4, <1>5, <1>6, <1>7, AgentKeeps

\* A turn that begins has a number of its own, of which nothing was reported.
LEMMA AskSessionInv == ASSUME Taught, SessionInv, NEW p \in Procs, Ask(p) PROVE SessionInv'
<1> DEFINE more == agent[p].messages \cup {<<asked + 1, "request">>}
           one  == [agent[p] EXCEPT !.pc = "begin", !.turn = asked + 1, !.messages = more]
<1>1. /\ agent[p].pc = "idle" /\ asked < Asks /\ asked' = asked + 1
      /\ UNCHANGED <<disk, answered, job, facts, writer, report>>
  BY DEF Ask, At, outbox
<1>2. agent' = [agent EXCEPT ![p].pc = "begin", ![p].turn = asked',
                             ![p].messages = @ \cup {<<asked', "request">>}]
  BY DEF Ask
<1>3. /\ disk \in SessionFile /\ disk.rev > 0 /\ asked \in 0 .. Asks /\ Asks \in Nat
      /\ agent \in [Procs -> AgentRecord] /\ agent[p] \in AgentRecord /\ Abreast(agent[p])
      /\ asked' \in 0 .. Asks /\ asked' \in Turns /\ ~(asked' <= asked)
  BY <1>1 DEF SessionInv, Stored, Taught, Turns
<1>4. agent' = [agent EXCEPT ![p] = one]
  BY <1>1, <1>2, <1>3
<1>5. /\ one \in AgentRecord /\ one.pc = "begin" /\ one.turn = asked + 1 /\ one.rev = agent[p].rev
      /\ one.epoch = agent[p].epoch /\ agent[p].messages \subseteq one.messages
  <2>1. <<asked + 1, "request">> \in Said
    BY <1>1, <1>3 DEF Said
  <2>2. more \in SUBSET Said /\ agent[p].messages \subseteq more
    BY <1>3, <2>1 DEF AgentRecord
  <2> HIDE DEF more
  <2>3. asked + 1 \in Nat /\ "begin" \in Phases
    BY <1>3 DEF Phases, InTurn
  <2>4. agent[p] \in [pc : Phases, turn : Nat, rev : Nat, epoch : Nat, messages : SUBSET Said]
    BY <1>3 DEF AgentRecord
  <2>5. /\ one.pc = "begin" /\ one.turn = asked + 1 /\ one.rev = agent[p].rev
        /\ one.epoch = agent[p].epoch /\ one.messages = more
    BY <2>4
  <2>6. one \in AgentRecord
    BY <2>2, <2>3, <2>4 DEF AgentRecord
  <2> QED BY <2>2, <2>5, <2>6
<1> HIDE DEF one
<1>6. /\ agent' \in [Procs -> AgentRecord] /\ agent'[p] = one
      /\ \A q \in Procs : q # p => agent'[q] = agent[q]
  BY <1>3, <1>4, <1>5
<1>7. Abreast(agent[p])'
  BY <1>1, <1>3, <1>5, <1>6 DEF Abreast, Fenced
<1>8. report[asked'] # "completed"
  BY <1>3 DEF SessionInv, Backed
<1>9. OnItsWay(agent[p])'
  BY <1>1, <1>3, <1>5, <1>6, <1>8 DEF OnItsWay
<1>10. Stored'
  BY <1>1, <1>3, <1>6 DEF SessionInv, Stored
<1>11. agent'[p].turn > asked /\ asked <= asked'
  BY <1>1, <1>3, <1>5, <1>6
<1>12. \A q \in Procs : writer'[q].pc = writer[q].pc /\ writer'[q].turn = writer[q].turn
  BY <1>1
<1>13. /\ \A t \in Turns : job[t].state # "none" => job'[t].state # "none"
       /\ \A t \in Turns : report'[t] = report[t]
       /\ \A t \in answered' : t \in answered
  BY <1>1
<1> QED BY <1>1, <1>6, <1>7, <1>9, <1>10, <1>11, <1>12, <1>13, AgentKeeps

\* The claim and every save.
LEMMA SaveSessionInv ==
  ASSUME Taught, SessionInv, NEW p \in Procs,
         Claim(p) \/ Opened(p) \/ BeginTurn(p) \/ Commit(p)
  PROVE  SessionInv' /\ (disk' = disk \/ disk.messages \subseteq disk'.messages)
<1>1. CASE Claim(p)
  <2>1. UNCHANGED <<answered, asked, job, facts, writer, report>>
    BY <1>1 DEF Claim, outbox
  <2>2. PICK ok \in BOOLEAN : Replace(p, Claimed(p), ok, "claimed", "closing")
    BY <1>1 DEF Claim
  <2> DEFINE next == Claimed(p)
  <2>3. /\ next \in SessionFile /\ next.rev = disk.rev + 1 /\ next.messages = agent[p].messages
        /\ Replace(p, next, ok, "claimed", "closing")
    BY <2>2, FileSaved
  <2> HIDE DEF next
  <2>4. "claimed" \in Phases \ InTurn /\ "closing" \in Phases \ InTurn
    BY DEF Phases, InTurn
  <2>5. /\ disk' \in SessionFile /\ disk'.rev > 0
        /\ disk' = disk \/ (disk'.rev > disk.rev /\ disk.messages \subseteq disk'.messages)
        /\ agent' \in [Procs -> AgentRecord] /\ \A q \in Procs : q # p => agent'[q] = agent[q]
        /\ agent'[p].pc = (IF ok THEN "claimed" ELSE "closing") /\ Abreast(agent[p])'
    BY <2>3, <2>4, FileReplaced
  <2> QED BY <2>1, <2>4, <2>5, AgentRests, WriterStarts
<1>2. CASE Opened(p)
  <2>1. UNCHANGED <<answered, asked, job, facts, report>> /\ Outbox!Start(p)
    BY <1>2 DEF Opened
  <2>2. PICK ok \in BOOLEAN : Replace(p, Saved(p), ok, "idle", "stopping")
    BY <1>2 DEF Opened, Save
  <2> DEFINE next == Saved(p)
  <2>3. /\ next \in SessionFile /\ next.rev = disk.rev + 1 /\ next.messages = agent[p].messages
        /\ Replace(p, next, ok, "idle", "stopping")
    BY <2>2, FileSaved
  <2> HIDE DEF next
  <2>4. "idle" \in Phases \ InTurn /\ "stopping" \in Phases \ InTurn
    BY DEF Phases, InTurn
  <2>5. /\ disk' \in SessionFile /\ disk'.rev > 0
        /\ disk' = disk \/ (disk'.rev > disk.rev /\ disk.messages \subseteq disk'.messages)
        /\ agent' \in [Procs -> AgentRecord] /\ \A q \in Procs : q # p => agent'[q] = agent[q]
        /\ agent'[p].pc = (IF ok THEN "idle" ELSE "stopping") /\ Abreast(agent[p])'
    BY <2>3, <2>4, FileReplaced
  <2> QED BY <2>1, <2>4, <2>5, AgentRests, WriterStarts
<1>3. CASE BeginTurn(p)
  <2>1. UNCHANGED <<answered, asked, job, facts, writer, report>> /\ agent[p].pc = "begin"
    BY <1>3 DEF BeginTurn, outbox, At
  <2>2. PICK ok \in BOOLEAN : Replace(p, Saved(p), ok, "loop", "idle")
    BY <1>3 DEF BeginTurn, Save
  <2> DEFINE next == Saved(p)
  <2>3. /\ next \in SessionFile /\ next.rev = disk.rev + 1 /\ next.messages = agent[p].messages
        /\ Replace(p, next, ok, "loop", "idle")
    BY <2>2, FileSaved
  <2> HIDE DEF next
  <2>4. "loop" \in Phases /\ "idle" \in Phases
    BY DEF Phases, InTurn
  <2>5. /\ disk' \in SessionFile /\ disk'.rev > 0
        /\ disk' = disk \/ (disk'.rev > disk.rev /\ disk.messages \subseteq disk'.messages)
        /\ agent' \in [Procs -> AgentRecord] /\ \A q \in Procs : q # p => agent'[q] = agent[q]
        /\ agent'[p].pc = (IF ok THEN "loop" ELSE "idle") /\ Abreast(agent[p])'
        /\ agent'[p].turn = agent[p].turn
    BY <2>3, <2>4, FileReplaced
  <2>6. OnItsWay(agent[p]) /\ agent[p].pc \in InTurn
    BY <2>1 DEF SessionInv, InTurn
  <2>7. OnItsWay(agent[p])'
    BY <2>1, <2>5, <2>6 DEF OnItsWay, InTurn
  <2>8. job' \in [Turns -> JobRecord] /\ answered' \subseteq Turns
    BY <2>1 DEF SessionInv, Stored
  <2> QED BY <2>1, <2>5, <2>6, <2>7, <2>8, TurnKeeps
<1>4. CASE Commit(p)
  <2>1. UNCHANGED <<answered, asked, job, facts, writer, report>> /\ agent[p].pc = "commit"
    BY <1>4 DEF Commit, outbox, At
  <2>2. PICK ok \in BOOLEAN : Replace(p, Saved(p), ok, "report", "failing")
    BY <1>4 DEF Commit, Save
  <2> DEFINE next == Saved(p)
  <2>3. /\ next \in SessionFile /\ next.rev = disk.rev + 1 /\ next.messages = agent[p].messages
        /\ Replace(p, next, ok, "report", "failing")
    BY <2>2, FileSaved
  <2> HIDE DEF next
  <2>4. "report" \in Phases /\ "failing" \in Phases
    BY DEF Phases, InTurn
  <2>5. /\ disk' \in SessionFile /\ disk'.rev > 0
        /\ disk' = disk \/ (disk'.rev > disk.rev /\ disk.messages \subseteq disk'.messages)
        /\ agent' \in [Procs -> AgentRecord] /\ \A q \in Procs : q # p => agent'[q] = agent[q]
        /\ agent'[p].pc = (IF ok THEN "report" ELSE "failing") /\ Abreast(agent[p])'
        /\ agent'[p].turn = agent[p].turn /\ (ok => disk'.messages = agent[p].messages)
    BY <2>3, <2>4, FileReplaced
  <2>6. OnItsWay(agent[p]) /\ agent[p].pc \in InTurn
    BY <2>1 DEF SessionInv, InTurn
  <2>7. OnItsWay(agent[p])'
    BY <2>1, <2>5, <2>6 DEF OnItsWay, InTurn
  <2>8. job' \in [Turns -> JobRecord] /\ answered' \subseteq Turns
    BY <2>1 DEF SessionInv, Stored
  <2> QED BY <2>1, <2>5, <2>6, <2>7, <2>8, TurnKeeps
<1> QED BY <1>1, <1>2, <1>3, <1>4

\* A turn fails, answers, reports or stumbles: the answer is in memory before the
\* commit, the job on disk before it, the report written after it.
LEMMA EndSessionInv ==
  ASSUME Taught, SessionInv, NEW p \in Procs,
         Fail(p) \/ Answer(p) \/ Report(p) \/ Stumble(p)
  PROVE  SessionInv' /\ disk' = disk
<1> DEFINE t == agent[p].turn
<1>1. /\ disk \in SessionFile /\ disk.rev > 0 /\ asked \in 0 .. Asks /\ Asks \in Nat
      /\ agent \in [Procs -> AgentRecord] /\ agent[p] \in AgentRecord
      /\ Abreast(agent[p]) /\ OnItsWay(agent[p])
      /\ job \in [Turns -> JobRecord] /\ answered \subseteq Turns
      /\ report \in [Turns -> {"none", "failed", "completed"}]
  BY DEF SessionInv, Stored, Taught
<1>2. agent[p].pc \in InTurn => t \in 1 .. asked /\ t \in Turns
  <2>1. agent[p].pc \in InTurn => t \in 1 .. asked
    BY <1>1 DEF OnItsWay
  <2> QED BY <1>1, <2>1 DEF Turns
<1>3. CASE Fail(p)
  <2>1. /\ UNCHANGED <<disk, answered, asked, job, facts, writer>> /\ Go(p, "idle")
        /\ agent[p].pc \in InTurn
    BY <1>3 DEF Fail, outbox, InTurn
  <2>2. report' = report \/ report' = [report EXCEPT ![t] = "failed"]
    BY <1>3 DEF Fail, Outbox!Transact
  <2>3. "idle" \in Phases \ InTurn
    BY DEF Phases, InTurn
  <2>4. /\ disk' \in SessionFile /\ disk'.rev > 0 /\ agent' \in [Procs -> AgentRecord]
        /\ \A q \in Procs : q # p => agent'[q] = agent[q]
        /\ agent'[p].pc \notin InTurn /\ Abreast(agent[p])'
    BY <2>1, <2>3, AgentMoves
  <2>5. agent'[p].turn = t
    BY <1>1, <2>1, <2>3, AgentGoes
  <2>6. OnItsWay(agent[p])'
    BY <2>4 DEF OnItsWay
  <2>7. \/ report' = report
        \/ \E status \in {"failed", "completed"} :
              /\ report' = [report EXCEPT ![agent[p].turn] = status]
              /\ status = "completed" => agent[p].pc = "report"
    BY <2>2
  <2> QED BY <1>1, <2>1, <2>4, <2>5, <2>6, <2>7, TurnKeeps
<1>4. CASE Stumble(p)
  <2>1. /\ UNCHANGED <<disk, answered, asked, job, facts, writer, report>>
        /\ Go(p, "failing") /\ agent[p].pc \in InTurn
    BY <1>4 DEF Stumble, outbox, InTurn
  <2>2. "failing" \in Phases
    BY DEF Phases, InTurn
  <2>3. /\ agent' \in [Procs -> AgentRecord]
        /\ \A q \in Procs : q # p => agent'[q] = agent[q]
        /\ agent'[p].pc = "failing" /\ agent'[p].turn = t /\ agent'[p].rev = agent[p].rev
        /\ agent'[p].epoch = agent[p].epoch /\ agent'[p].messages = agent[p].messages
    BY <1>1, <2>1, <2>2, AgentGoes
  <2>4. Abreast(agent[p])' /\ OnItsWay(agent[p])'
    BY <1>1, <2>1, <2>3 DEF Abreast, OnItsWay, Fenced
  <2> QED BY <1>1, <2>1, <2>3, <2>4, TurnKeeps
<1>5. CASE Report(p)
  <2>1. /\ UNCHANGED <<disk, asked, job, facts, writer>> /\ Go(p, "idle")
        /\ agent[p].pc = "report" /\ agent[p].pc \in InTurn
    BY <1>5 DEF Report, outbox, At, InTurn
  <2>2. PICK ok \in BOOLEAN :
          /\ report' \in Outbox!Transact(ok, [report EXCEPT ![t] = "completed"], report)
          /\ answered' = IF ok THEN answered \cup {t} ELSE answered
    BY <1>5 DEF Report
  <2>3. "idle" \in Phases \ InTurn
    BY DEF Phases, InTurn
  <2>4. /\ disk' \in SessionFile /\ disk'.rev > 0 /\ agent' \in [Procs -> AgentRecord]
        /\ \A q \in Procs : q # p => agent'[q] = agent[q]
        /\ agent'[p].pc \notin InTurn /\ Abreast(agent[p])'
    BY <2>1, <2>3, AgentMoves
  <2>5. agent'[p].turn = t
    BY <1>1, <2>1, <2>3, AgentGoes
  <2>6. OnItsWay(agent[p])'
    BY <2>4 DEF OnItsWay
  <2>7. report' = report \/ report' = [report EXCEPT ![t] = "completed"]
    BY <2>2 DEF Outbox!Transact
  <2>8. \/ report' = report
        \/ \E status \in {"failed", "completed"} :
              /\ report' = [report EXCEPT ![agent[p].turn] = status]
              /\ status = "completed" => agent[p].pc = "report"
    BY <2>1, <2>7
  <2>9. ok => report' = [report EXCEPT ![t] = "completed"] /\ report'[t] = "completed"
    BY <1>1, <1>2, <2>1, <2>2 DEF Outbox!Transact
  <2>10. answered' \subseteq Turns
    BY <1>1, <1>2, <2>1, <2>2
  <2>11. \A s \in answered' : s \in answered \/ report'[s] = "completed"
    BY <2>2, <2>9
  <2> QED BY <1>1, <2>1, <2>4, <2>5, <2>6, <2>8, <2>10, <2>11, TurnKeeps
<1>6. CASE Answer(p)
  <2>1. /\ UNCHANGED <<disk, answered, asked, facts, writer, report>>
        /\ agent[p].pc = "loop" /\ agent[p].pc \in InTurn
    BY <1>6 DEF Answer, At, InTurn
  <2>2. PICK ok \in BOOLEAN :
          /\ Outbox!Prepare(t, ok)
          /\ agent' = [agent EXCEPT ![p].pc = IF ok THEN "commit" ELSE "failing",
                                    ![p].messages = @ \cup {<<t, "answer">>}]
    BY <1>6 DEF Answer
  <2> DEFINE place == IF ok THEN "commit" ELSE "failing"
             more  == agent[p].messages \cup {<<t, "answer">>}
             one  == [agent[p] EXCEPT !.pc = place, !.messages = more]
  <2>3. agent' = [agent EXCEPT ![p] = one]
    BY <1>1, <2>2
  <2>4. more \in SUBSET Said /\ agent[p].messages \subseteq more /\ <<t, "answer">> \in more
    BY <1>1, <1>2, <2>1 DEF AgentRecord, Said
  <2>5. place \in Phases /\ (place = "commit" => ok) /\ (place = "commit" \/ place = "failing")
    BY DEF Phases, InTurn
  <2> HIDE DEF place, more
  <2>6. agent[p] \in [pc : Phases, turn : Nat, rev : Nat, epoch : Nat, messages : SUBSET Said]
    BY <1>1 DEF AgentRecord
  <2>7. /\ one \in AgentRecord /\ one.pc = place /\ one.turn = t /\ one.rev = agent[p].rev
        /\ one.epoch = agent[p].epoch /\ one.messages = more
    BY <2>4, <2>5, <2>6 DEF AgentRecord
  <2> HIDE DEF one
  <2>8. /\ agent' \in [Procs -> AgentRecord] /\ agent'[p] = one
        /\ \A q \in Procs : q # p => agent'[q] = agent[q]
    BY <1>1, <2>3, <2>7
  <2> DEFINE prepared == [job[t] EXCEPT !.state = "pending"]
  <2>9. prepared \in JobRecord /\ prepared.state # "none"
    BY <1>1, <1>2, <2>1 DEF JobRecord
  <2>10. /\ job' = job \/ job' = [job EXCEPT ![t] = prepared]
         /\ ok /\ job[t].state = "none" => job' = [job EXCEPT ![t] = prepared]
    BY <1>1, <1>2, <2>1, <2>2, Zenon DEF Outbox!Prepare, Outbox!Transact
  <2> HIDE DEF prepared
  <2>11. /\ job' \in [Turns -> JobRecord]
         /\ \A s \in Turns : job[s].state # "none" => job'[s].state # "none"
         /\ ok => job'[t].state # "none"
    BY <1>1, <1>2, <2>1, <2>9, <2>10
  <2>12. Abreast(agent[p])'
    BY <1>1, <2>1, <2>4, <2>7, <2>8 DEF Abreast, Fenced
  <2>13. OnItsWay(agent[p])'
    BY <1>1, <1>2, <2>1, <2>4, <2>5, <2>7, <2>8, <2>11 DEF OnItsWay
  <2> QED BY <1>1, <2>1, <2>7, <2>8, <2>11, <2>12, <2>13, TurnKeeps
<1> QED BY <1>3, <1>4, <1>5, <1>6

\* A writer's step that changes no job and no fact.
LEMMA LookSessionInv ==
  ASSUME Taught, SessionInv, NEW p \in Procs,
         UNCHANGED <<disk, agent, answered, asked, job, facts, report>>,
         \/ Outbox!Flush(p) \/ Outbox!Scan(p) \/ Outbox!Extract(p)
         \/ Outbox!Return(p) \/ Outbox!Exit(p)
  PROVE  SessionInv'
<1>1. /\ writer \in [Procs -> WriterRecord] /\ writer[p] \in WriterRecord
      /\ job \in [Turns -> JobRecord] /\ \A q \in Procs : Licensed(writer[q])
  BY DEF SessionInv, Stored
<1>2. SUFFICES \E one \in WriterRecord : writer' = [writer EXCEPT ![p] = one] /\ Licensed(one)
  <2>1. PICK one \in WriterRecord : writer' = [writer EXCEPT ![p] = one] /\ Licensed(one)
    BY <1>2
  <2>2. /\ writer' \in [Procs -> WriterRecord] /\ writer'[p] = one
        /\ \A q \in Procs : q # p => writer'[q] = writer[q]
    BY <1>1, <2>1
  <2>3. \A q \in Procs : Licensed(writer[q])'
    <3> SUFFICES ASSUME NEW q \in Procs PROVE Licensed(writer[q])'
      OBVIOUS
    <3>1. CASE q = p
      BY <2>1, <2>2, <3>1 DEF Licensed
    <3>2. CASE q # p
      BY <1>1, <2>2, <3>2 DEF Licensed
    <3> QED BY <3>1, <3>2
  <2> QED BY <1>1, <2>2, <2>3, WriterKeeps
<1>3. writer[p] \in [pc : {"off", "idle", "scan", "store", "merge", "record"}, closed : BOOLEAN,
                     todo : SUBSET Turns, turn : Turns \cup {0}, ok : BOOLEAN]
  BY <1>1 DEF WriterRecord
<1>4. CASE Outbox!Flush(p)
  <2> DEFINE due == {t \in Turns : job[t].state = "pending" /\ job[t].due}
             one == [writer[p] EXCEPT !.pc = "scan", !.todo = due]
  <2>1. writer' = [writer EXCEPT ![p].pc = "scan", ![p].todo = due]
    BY <1>4 DEF Outbox!Flush
  <2>2. writer' = [writer EXCEPT ![p] = one]
    BY <1>1, <2>1
  <2>3. due \in SUBSET Turns
    OBVIOUS
  <2> HIDE DEF due
  <2>4. one \in WriterRecord /\ one.pc = "scan"
    BY <1>3, <2>3 DEF WriterRecord
  <2> HIDE DEF one
  <2>5. Licensed(one)
    BY <2>4 DEF Licensed
  <2> QED BY <2>2, <2>4, <2>5
<1>5. CASE Outbox!Scan(p)
  <2>1. PICK t \in writer[p].todo :
          writer' = [writer EXCEPT ![p].todo = @ \ {t},
                                   ![p].turn = IF Outbox!Committed(t) THEN t ELSE @,
                                   ![p].pc = IF Outbox!Committed(t) THEN "store" ELSE @]
    BY <1>5 DEF Outbox!Scan
  <2>2. writer[p].pc = "scan" /\ t \in Turns
    BY <1>3, <1>5 DEF Outbox!Scan
  <2> DEFINE rest == writer[p].todo \ {t}
             turn == IF report[t] = "completed" THEN t ELSE writer[p].turn
             place == IF report[t] = "completed" THEN "store" ELSE "scan"
             one  == [writer[p] EXCEPT !.todo = rest, !.turn = turn, !.pc = place]
  <2>3. writer' = [writer EXCEPT ![p] = one]
    BY <1>1, <2>1, <2>2 DEF Outbox!Committed
  <2>4. /\ rest \in SUBSET Turns /\ turn \in Turns \cup {0}
        /\ place \in {"off", "idle", "scan", "store", "merge", "record"}
        /\ place \in {"store", "merge", "record"} => turn \in Turns /\ report[turn] = "completed"
    BY <1>3, <2>2
  <2> HIDE DEF rest, turn, place
  <2>5. one \in WriterRecord /\ one.pc = place /\ one.turn = turn
    BY <1>3, <2>4 DEF WriterRecord
  <2> HIDE DEF one
  <2>6. Licensed(one)
    BY <2>4, <2>5 DEF Licensed
  <2> QED BY <2>3, <2>5, <2>6
<1>6. CASE Outbox!Extract(p)
  <2>1. PICK place \in {"record", "merge"}, ok \in BOOLEAN :
          writer' = [writer EXCEPT ![p].pc = place, ![p].ok = ok]
    BY <1>6 DEF Outbox!Extract
  <2> DEFINE one == [writer[p] EXCEPT !.pc = place, !.ok = ok]
  <2>2. writer' = [writer EXCEPT ![p] = one] /\ writer[p].pc = "store"
    BY <1>1, <1>6, <2>1 DEF Outbox!Extract
  <2>3. one \in WriterRecord /\ one.turn = writer[p].turn
    BY <1>3 DEF WriterRecord
  <2> HIDE DEF one
  <2>4. Licensed(one)
    BY <1>1, <2>2, <2>3 DEF Licensed
  <2> QED BY <2>2, <2>3, <2>4
<1>7. CASE Outbox!Return(p)
  <2> DEFINE one == [Outbox!NoWriter EXCEPT !.pc = "idle", !.closed = writer[p].closed]
  <2>1. writer' = [writer EXCEPT ![p] = one]
    BY <1>7 DEF Outbox!Return
  <2>2. one \in WriterRecord /\ one.pc = "idle"
    BY <1>3 DEF WriterRecord, Outbox!NoWriter
  <2> HIDE DEF one
  <2>3. Licensed(one)
    BY <2>2 DEF Licensed
  <2> QED BY <2>1, <2>2, <2>3
<1>8. CASE Outbox!Exit(p)
  <2> DEFINE one == Outbox!NoWriter
  <2>1. writer' = [writer EXCEPT ![p] = one]
    BY <1>8 DEF Outbox!Exit
  <2>2. one \in WriterRecord /\ one.pc = "off"
    BY DEF WriterRecord, Outbox!NoWriter
  <2> HIDE DEF one
  <2>3. Licensed(one)
    BY <2>2 DEF Licensed
  <2> QED BY <2>1, <2>2, <2>3
<1> QED BY <1>4, <1>5, <1>6, <1>7, <1>8

\* The candidates of a turn enter the fact file once.
LEMMA MergeSessionInv ==
  ASSUME Taught, SessionInv, NEW p \in Procs, NEW ok \in BOOLEAN,
         UNCHANGED <<disk, agent, answered, asked>>, Outbox!Merge(p, ok)
  PROVE  SessionInv'
<1> DEFINE t == writer[p].turn
           one == [writer[p] EXCEPT !.pc = "record", !.ok = ok]
<1>1. /\ writer \in [Procs -> WriterRecord] /\ writer[p] \in WriterRecord
      /\ facts \in Seq(Turns) /\ \A q \in Procs : Licensed(writer[q])
  BY DEF SessionInv, Stored
<1>2. /\ writer[p].pc = "merge" /\ UNCHANGED <<job, report>>
      /\ facts' \in Outbox!Transact(ok, Outbox!Merged(facts, t), facts)
      /\ writer' = [writer EXCEPT ![p].pc = "record", ![p].ok = ok]
  BY DEF Outbox!Merge
<1>3. t \in Turns /\ report[t] = "completed"
  BY <1>1, <1>2 DEF Licensed
<1>4. \/ facts' = facts
      \/ facts' = Append(facts, t) /\ \A i \in DOMAIN facts : facts[i] # t
  <2>1. CASE t \in Outbox!Range(facts)
    BY <1>2, <2>1 DEF Outbox!Transact, Outbox!Merged
  <2>2. CASE t \notin Outbox!Range(facts)
    <3>1. \A i \in DOMAIN facts : facts[i] # t
      BY <2>2 DEF Outbox!Range
    <3>2. facts' = facts \/ facts' = Append(facts, t)
      BY <1>2, <2>2 DEF Outbox!Transact, Outbox!Merged
    <3> QED BY <3>1, <3>2
  <2> QED BY <2>1, <2>2
<1>5. writer' = [writer EXCEPT ![p] = one]
  BY <1>1, <1>2
<1>6. one \in WriterRecord /\ one.turn = t
  BY <1>1 DEF WriterRecord
<1> HIDE DEF one
<1>7. /\ writer' \in [Procs -> WriterRecord] /\ writer'[p] = one
      /\ \A q \in Procs : q # p => writer'[q] = writer[q]
  BY <1>1, <1>5, <1>6
<1>8. \A q \in Procs : Licensed(writer[q])'
  BY <1>1, <1>2, <1>3, <1>6, <1>7 DEF Licensed
<1>9. job' \in [Turns -> JobRecord]
  BY <1>2 DEF SessionInv, Stored
<1> QED BY <1>2, <1>3, <1>4, <1>7, <1>8, <1>9, WriterKeeps

\* What becomes of a job leaves it a job.
LEMMA JobKept ==
  ASSUME SessionInv, NEW t \in Turns, NEW one \in JobRecord,
         job[t].state # "none" => one.state # "none",
         job' = job \/ job' = [job EXCEPT ![t] = one]
  PROVE  /\ job' \in [Turns -> JobRecord]
         /\ \A s \in Turns : job[s].state # "none" => job'[s].state # "none"
<1>1. job \in [Turns -> JobRecord]
  BY DEF SessionInv, Stored
<1> QED BY <1>1

\* The result of an attempt leaves a job and lets go of its turn.
LEMMA RecordSessionInv ==
  ASSUME Taught, SessionInv, NEW p \in Procs, NEW ok \in BOOLEAN,
         UNCHANGED <<disk, agent, answered, asked>>, Outbox!Record(p, ok)
  PROVE  SessionInv'
<1> DEFINE t == writer[p].turn
           tried == Outbox!Recorded(job[t], writer[p].ok)
<1>1. /\ writer \in [Procs -> WriterRecord] /\ writer[p] \in WriterRecord
      /\ job \in [Turns -> JobRecord] /\ \A q \in Procs : Licensed(writer[q])
  BY DEF SessionInv, Stored
<1>2. /\ writer[p].pc = "record" /\ UNCHANGED <<facts, report>>
      /\ job' \in Outbox!Transact(ok,
           [job EXCEPT ![t] = Outbox!Recorded(@, writer[p].ok)], job)
      /\ \/ writer' = [writer EXCEPT ![p].pc = "scan", ![p].turn = 0]
         \/ writer' = [writer EXCEPT ![p] = [Outbox!NoWriter EXCEPT !.pc = "idle"]]
  BY DEF Outbox!Record
<1>3. t \in Turns
  BY <1>1, <1>2 DEF Licensed
<1>4. job' = job \/ job' = [job EXCEPT ![t] = tried]
  BY <1>1, <1>2, <1>3, Zenon DEF Outbox!Transact
<1>5. tried \in JobRecord /\ (job[t].state # "none" => tried.state # "none")
  <2>1. job[t] \in JobRecord
    BY <1>1, <1>3
  <2>2. /\ job[t].state \in {"none", "pending", "done", "failed"}
        /\ job[t].attempts \in Nat /\ job[t].due \in BOOLEAN
    BY <2>1 DEF JobRecord
  <2>3. CASE job[t].state = "done"
    BY <2>1, <2>3 DEF Outbox!Recorded
  <2>4. CASE job[t].state # "done" /\ writer[p].ok
    <3>1. tried = [job[t] EXCEPT !.state = "done", !.attempts = @ + 1]
      BY <2>4 DEF Outbox!Recorded
    <3>2. job[t] = [state |-> job[t].state, attempts |-> job[t].attempts, due |-> job[t].due]
      BY <2>1 DEF JobRecord
    <3>3. tried = [state |-> "done", attempts |-> job[t].attempts + 1, due |-> job[t].due]
      BY <3>1, <3>2
    <3> QED BY <2>2, <3>3 DEF JobRecord
  <2>5. CASE job[t].state # "done" /\ ~writer[p].ok
    <3> DEFINE state == IF job[t].attempts + 1 >= MaxAttempts THEN "failed" ELSE job[t].state
    <3>1. tried = [state |-> state, attempts |-> job[t].attempts + 1, due |-> FALSE]
      BY <2>5 DEF Outbox!Recorded
    <3>2. /\ state \in {"none", "pending", "done", "failed"}
          /\ job[t].state # "none" => state # "none"
      BY <2>2
    <3> HIDE DEF state
    <3> QED BY <2>2, <3>1, <3>2 DEF JobRecord
  <2> QED BY <2>3, <2>4, <2>5
<1> HIDE DEF tried
<1>6. /\ job' \in [Turns -> JobRecord]
      /\ \A s \in Turns : job[s].state # "none" => job'[s].state # "none"
  BY <1>3, <1>4, <1>5, JobKept
<1>7. PICK one \in WriterRecord : writer' = [writer EXCEPT ![p] = one] /\ Licensed(one)
  <2> DEFINE next == [writer[p] EXCEPT !.pc = "scan", !.turn = 0]
             idle == [Outbox!NoWriter EXCEPT !.pc = "idle"]
  <2>1. next \in WriterRecord /\ next.pc = "scan" /\ idle \in WriterRecord /\ idle.pc = "idle"
    BY <1>1 DEF WriterRecord, Outbox!NoWriter
  <2>2. Licensed(next) /\ Licensed(idle)
    BY <2>1 DEF Licensed
  <2>3. writer' = [writer EXCEPT ![p] = next] \/ writer' = [writer EXCEPT ![p] = idle]
    BY <1>1, <1>2
  <2> QED BY <2>1, <2>2, <2>3
<1>8. /\ writer' \in [Procs -> WriterRecord] /\ writer'[p] = one
      /\ \A q \in Procs : q # p => writer'[q] = writer[q]
  BY <1>1, <1>7
<1>9. \A q \in Procs : Licensed(writer[q])'
  BY <1>1, <1>2, <1>7, <1>8 DEF Licensed
<1> QED BY <1>2, <1>6, <1>8, <1>9, WriterKeeps

\* Neither time nor a retry takes a job away.
LEMMA ClockSessionInv ==
  ASSUME Taught, SessionInv, UNCHANGED <<disk, agent, answered, asked>>, NEW t \in Turns,
         Outbox!Tick(t) \/ Outbox!Retry(t)
  PROVE  SessionInv'
<1>1. /\ job \in [Turns -> JobRecord] /\ job[t] \in JobRecord
      /\ \A q \in Procs : Licensed(writer[q]) /\ writer \in [Procs -> WriterRecord]
  BY DEF SessionInv, Stored
<1>2. UNCHANGED <<facts, report, writer>>
  BY DEF Outbox!Tick, Outbox!Retry
<1>3. PICK one \in JobRecord : /\ job' = [job EXCEPT ![t] = one]
                               /\ job[t].state # "none" => one.state # "none"
  <2> DEFINE awake == [job[t] EXCEPT !.due = TRUE]
             again == [state |-> "pending", attempts |-> 0, due |-> TRUE]
  <2>1. /\ awake \in JobRecord /\ awake.state = job[t].state
        /\ again \in JobRecord /\ again.state = "pending"
    BY <1>1 DEF JobRecord
  <2>2. job' = [job EXCEPT ![t] = awake] \/ job' = [job EXCEPT ![t] = again]
    BY <1>1 DEF Outbox!Tick, Outbox!Retry
  <2> HIDE DEF awake, again
  <2> QED BY <2>1, <2>2
<1>4. /\ job' \in [Turns -> JobRecord]
      /\ \A s \in Turns : job[s].state # "none" => job'[s].state # "none"
  BY <1>3, JobKept
<1>5. \A q \in Procs : Licensed(writer[q])'
  BY <1>1, <1>2 DEF Licensed
<1>6. writer' \in [Procs -> WriterRecord]
  BY <1>2 DEF SessionInv, Stored
<1> QED BY <1>2, <1>4, <1>5, <1>6, WriterKeeps

\* The session of a process that has ended, without turns.
LEMMA SessionInitInv == ASSUME Taught, SessionInit PROVE SessionInv
<1>1. /\ disk = [rev |-> 1, epoch |-> 1, messages |-> {}]
      /\ agent = [p \in Procs |-> NoAgent]
      /\ answered = {} /\ asked = 0
      /\ job = [t \in Turns |-> Outbox!NoJob]
      /\ facts = <<>> /\ report = [t \in Turns |-> "none"]
      /\ writer = [p \in Procs |-> Outbox!NoWriter]
  BY DEF SessionInit, Outbox!Blank
<1>2. /\ NoAgent \in AgentRecord /\ NoAgent.pc = "down" /\ NoAgent.rev = 0
      /\ Outbox!NoJob \in JobRecord
      /\ Outbox!NoWriter \in WriterRecord /\ Outbox!NoWriter.pc = "off"
  BY DEF AgentRecord, JobRecord, WriterRecord, Phases, NoAgent, Outbox!NoJob,
         Outbox!NoWriter
<1>3. disk \in SessionFile /\ disk.rev = 1
  BY <1>1 DEF SessionFile
<1>4. facts \in Seq(Turns) /\ DOMAIN facts = {}
  BY <1>1
<1>5. asked \in 0 .. Asks
  BY <1>1 DEF Taught
<1>6. Stored
  BY <1>1, <1>2, <1>3, <1>4, <1>5 DEF Stored
<1>7. \A p \in Procs : Abreast(agent[p]) /\ OnItsWay(agent[p]) /\ Licensed(writer[p])
  BY <1>1, <1>2, <1>3 DEF Abreast, OnItsWay, Licensed, Fenced, InTurn
<1>8. \A p, q \in Procs : p # q => Owned(agent[p], agent[q])
  BY <1>1, <1>2 DEF Owned, InTurn
<1>9. \A t \in Turns : Backed(t)
  BY <1>1 DEF Backed
<1> QED BY <1>1, <1>4, <1>6, <1>7, <1>8, <1>9 DEF SessionInv

\* Every step keeps the invariant, and the messages in the session file.
LEMMA SessionStep ==
  ASSUME Taught, SessionInv, [SessionNext]_sessionVars
  PROVE  SessionInv' /\ disk.messages \subseteq disk'.messages
<1>1. ASSUME NEW p \in Procs, Open(p) PROVE SessionInv' /\ disk.messages \subseteq disk'.messages
  BY <1>1, OpenSessionInv, SaveSessionInv DEF Open
<1>2. ASSUME NEW p \in Procs, Turn(p) PROVE SessionInv' /\ disk.messages \subseteq disk'.messages
  BY <1>2, EndSessionInv, SaveSessionInv DEF Turn
<1>3. ASSUME NEW p \in Procs, Write(p) PROVE SessionInv' /\ disk.messages \subseteq disk'.messages
  <2>1. UNCHANGED <<disk, agent, answered, asked>>
    BY <1>3 DEF Write
  <2>2. CASE \/ Outbox!Flush(p) \/ Outbox!Scan(p) \/ Outbox!Extract(p)
             \/ Outbox!Return(p) \/ Outbox!Exit(p)
    <3>1. UNCHANGED <<job, facts, report>>
      BY <2>2 DEF Outbox!Flush, Outbox!Scan, Outbox!Extract,
                  Outbox!Return, Outbox!Exit
    <3> QED BY <2>1, <2>2, <3>1, LookSessionInv, ZenonT(40)
  <2>3. CASE \E ok \in BOOLEAN : Outbox!Merge(p, ok) \/ Outbox!Record(p, ok)
    BY <2>1, <2>3, MergeSessionInv, RecordSessionInv
  <2> QED BY <1>3, <2>2, <2>3 DEF Write
<1>4. ASSUME NEW p \in Procs, Close(p) \/ Crash(p)
      PROVE  SessionInv' /\ disk.messages \subseteq disk'.messages
  BY <1>4, OpenSessionInv
<1>5. ASSUME NEW p \in Procs, Ask(p) PROVE SessionInv' /\ disk.messages \subseteq disk'.messages
  BY <1>5, AskSessionInv DEF Ask
<1>6. CASE Tick \/ Retry
  BY <1>6, ClockSessionInv DEF Tick, Retry
<1>7. CASE UNCHANGED sessionVars
  <2>1. UNCHANGED <<disk, agent, answered, asked, job, facts, report, writer>>
    BY <1>7 DEF sessionVars, outbox
  <2>2. /\ job' \in [Turns -> JobRecord] /\ writer' \in [Procs -> WriterRecord]
        /\ \A q \in Procs : Licensed(writer[q])
    BY <2>1 DEF SessionInv, Stored
  <2>3. \A q \in Procs : Licensed(writer[q])'
    BY <2>1, <2>2 DEF Licensed
  <2> QED BY <2>1, <2>2, <2>3, WriterKeeps
<1> QED BY <1>1, <1>2, <1>3, <1>4, <1>5, <1>6, <1>7 DEF SessionNext

\* The session file, the agents, the reports, the jobs and the facts agree, for any
\* processes, turns, attempts, crashes, failed writes and closes (agent.go, engine.go:219 to
\* 235, store.go:89, outbox.go).
THEOREM SessionInvariant == SessionSpec => []SessionInv
<1>1. SessionInit => SessionInv
  BY SessionInitInv, TaughtHolds
<1>2. SessionInv /\ [SessionNext]_sessionVars => SessionInv'
  BY SessionStep, TaughtHolds
<1> QED BY <1>1, <1>2, PTL DEF SessionSpec

\* store.go:89: no save, of whatever owner, takes messages out of the session file.
THEOREM HistoryOnlyGrows == SessionSpec => LedgerGrows
<1>1. SessionInv /\ [SessionNext]_sessionVars => [disk.messages \subseteq disk'.messages]_disk
  BY SessionStep, TaughtHolds
<1> QED BY <1>1, SessionInvariant, PTL DEF SessionSpec, LedgerGrows

-----------------------------------------------------------------------------
(* The facts that the merged turns leave                                   *)

\* Induction on the numbers, as a fact about a set: it holds of the least number
\* that is not in the set.
LEMMA Upwards ==
  ASSUME NEW S, 0 \in S, \A k \in Nat : k \in S => k + 1 \in S
  PROVE  Nat \subseteq S
<1> SUFFICES ASSUME NEW n \in Nat, n \notin S PROVE FALSE
  OBVIOUS
<1> DEFINE T == {1 .. k : k \in {j \in 0 .. n : j \notin S}}
           R == StrictSubsetOrdering(1 .. n)
<1>1. IsFiniteSet(1 .. n)
  BY FS_Interval
<1>2. IsWellFoundedOn(R, FiniteSubsetsOf(1 .. n))
  BY <1>1, FS_StrictSubsetOrderingWellFounded
<1>3. T \subseteq FiniteSubsetsOf(1 .. n) /\ T # {}
  <2>1. ASSUME NEW k \in 0 .. n PROVE 1 .. k \in FiniteSubsetsOf(1 .. n)
    <3>1. 1 .. k \subseteq 1 .. n /\ IsFiniteSet(1 .. k)
      BY FS_Interval
    <3> QED BY <3>1 DEF FiniteSubsetsOf
  <2>2. n \in {j \in 0 .. n : j \notin S}
    OBVIOUS
  <2> QED BY <2>1, <2>2
<1>4. PICK t \in T : \A y \in T : ~ (<<y, t>> \in R)
  <2> HIDE DEF T, R
  <2> QED BY <1>2, <1>3, WFMin
<1>5. PICK k \in 0 .. n : k \notin S /\ t = 1 .. k
  BY <1>4
<1>6. k # 0 /\ k - 1 \in 0 .. n /\ k - 1 \notin S
  BY <1>5
<1>7. 1 .. (k - 1) \in T
  BY <1>6
<1>8. <<1 .. (k - 1), t>> \in R
  <2>1. 1 .. (k - 1) \subseteq 1 .. n /\ 1 .. k \subseteq 1 .. n
    BY <1>5, <1>6
  <2>2. 1 .. (k - 1) \subseteq 1 .. k /\ 1 .. (k - 1) # 1 .. k
    <3>1. k \in 1 .. k /\ k \notin 1 .. (k - 1)
      BY <1>5, <1>6
    <3> QED BY <1>6, <3>1
  <2> QED BY <1>5, <2>1, <2>2 DEF StrictSubsetOrdering
<1> QED BY <1>4, <1>7, <1>8

\* The recursive definitions inside FlattenSeq and Held.
IsFlat(g, s, n) == g = [i \in 1 .. n |-> IF i = 1 THEN s[i] ELSE g[i-1] \o s[i]]
IsList(g, s, n) ==
  g = [i \in 0 .. n |-> IF i = 0 THEN <<>> ELSE Outbox!Applied(g[i-1], s[i])]

\* There is a function that satisfies the recursive definition in FlattenSeq.
LEMMA FlatExists == ASSUME NEW s, NEW n \in Nat PROVE \E g : IsFlat(g, s, n)
<1> DEFINE S == {k \in Nat : \E g : IsFlat(g, s, k)}
<1>1. 0 \in S
  <2> DEFINE g == [i \in 1 .. 0 |-> s[i]]
  <2>1. IsFlat(g, s, 0)
    BY DEF IsFlat
  <2> QED BY <2>1
<1>2. ASSUME NEW k \in Nat, k \in S PROVE k + 1 \in S
  <2>1. PICK g : IsFlat(g, s, k)
    BY <1>2
  <2> DEFINE h == [i \in 1 .. k + 1 |-> IF i = 1 THEN s[i] ELSE g[i-1] \o s[i]]
  <2>2. \A i \in 1 .. k : h[i] = g[i]
    <3>1. \A i \in 1 .. k : i \in 1 .. k + 1
      OBVIOUS
    <3>2. \A i \in 1 .. k : g[i] = IF i = 1 THEN s[i] ELSE g[i-1] \o s[i]
      BY <2>1, Zenon DEF IsFlat
    <3> QED BY <3>1, <3>2
  <2>3. \A i \in 1 .. k + 1 : i # 1 => i - 1 \in 1 .. k
    OBVIOUS
  <2>4. \A i \in 1 .. k + 1 : h[i] = IF i = 1 THEN s[i] ELSE h[i-1] \o s[i]
    BY <2>2, <2>3
  <2>5. h = [i \in 1 .. k + 1 |-> h[i]]
    OBVIOUS
  <2> HIDE DEF h
  <2>6. IsFlat(h, s, k + 1)
    BY <2>4, <2>5, Zenon DEF IsFlat
  <2> QED BY <2>6
<1> QED
  <2>1. Nat \subseteq S
    <3> HIDE DEF S
    <3> QED BY <1>1, <1>2, Upwards
  <2> QED BY <2>1

\* There is a function that satisfies the recursive definition in Held.
LEMMA ListExists == ASSUME NEW s, NEW n \in Nat PROVE \E g : IsList(g, s, n)
<1> DEFINE S == {k \in Nat : \E g : IsList(g, s, k)}
<1>1. 0 \in S
  <2> DEFINE g == [i \in 0 .. 0 |-> <<>>]
  <2>1. \A i \in 0 .. 0 : i = 0
    OBVIOUS
  <2>2. \A i \in 0 .. 0 : g[i] = IF i = 0 THEN <<>> ELSE Outbox!Applied(g[i-1], s[i])
    BY <2>1
  <2>3. g = [i \in 0 .. 0 |-> g[i]]
    OBVIOUS
  <2> HIDE DEF g
  <2>4. IsList(g, s, 0)
    BY <2>2, <2>3, Zenon DEF IsList
  <2> QED BY <2>4
<1>2. ASSUME NEW k \in Nat, k \in S PROVE k + 1 \in S
  <2>1. PICK g : IsList(g, s, k)
    BY <1>2
  <2> DEFINE h == [i \in 0 .. k + 1 |->
                     IF i = 0 THEN <<>> ELSE Outbox!Applied(g[i-1], s[i])]
  <2>2. \A i \in 0 .. k : h[i] = g[i]
    <3>1. \A i \in 0 .. k : i \in 0 .. k + 1
      OBVIOUS
    <3>2. \A i \in 0 .. k : g[i] = IF i = 0 THEN <<>> ELSE Outbox!Applied(g[i-1], s[i])
      BY <2>1, Zenon DEF IsList
    <3> QED BY <3>1, <3>2
  <2>3. \A i \in 0 .. k + 1 : i # 0 => i - 1 \in 0 .. k
    OBVIOUS
  <2>4. \A i \in 0 .. k + 1 : h[i] = IF i = 0 THEN <<>> ELSE Outbox!Applied(h[i-1], s[i])
    <3> SUFFICES ASSUME NEW i \in 0 .. k + 1
                 PROVE  h[i] = IF i = 0 THEN <<>> ELSE Outbox!Applied(h[i-1], s[i])
      OBVIOUS
    <3>1. h[i] = IF i = 0 THEN <<>> ELSE Outbox!Applied(g[i-1], s[i])
      OBVIOUS
    <3>2. i # 0 => h[i-1] = g[i-1]
      BY <2>2, <2>3
    <3> HIDE DEF h
    <3> QED BY <3>1, <3>2
  <2>5. h = [i \in 0 .. k + 1 |-> h[i]]
    OBVIOUS
  <2> HIDE DEF h
  <2>6. IsList(h, s, k + 1)
    BY <2>4, <2>5, Zenon DEF IsList
  <2> QED BY <2>6
<1> QED
  <2>1. Nat \subseteq S
    <3> HIDE DEF S
    <3> QED BY <1>1, <1>2, Upwards
  <2> QED BY <2>1

\* FlattenSeq gives a sequence of what the sequences consist of.
LEMMA FlattenIn ==
  ASSUME NEW C, NEW s \in Seq(Seq(C))
  PROVE  Outbox!FlattenSeq(s) \in Seq(C)
<1>1. Len(s) \in Nat /\ DOMAIN s = 1 .. Len(s) /\ \A i \in 1 .. Len(s) : s[i] \in Seq(C)
  OBVIOUS
<1>2. CASE Len(s) = 0
  <2>1. s = <<>>
    BY <1>2
  <2> QED BY <1>2, <2>1 DEF Outbox!FlattenSeq
<1>3. CASE Len(s) # 0
  <2> DEFINE n == Len(s)
             g == CHOOSE f : IsFlat(f, s, n)
  <2>1. Outbox!FlattenSeq(s) = g[n]
    BY <1>3, Zenon DEF Outbox!FlattenSeq, IsFlat
  <2>2. IsFlat(g, s, n)
    BY <1>1, FlatExists, Zenon
  <2> HIDE DEF g
  <2>3. \A i \in 1 .. n : g[i] = IF i = 1 THEN s[i] ELSE g[i-1] \o s[i]
    BY <2>2, Zenon DEF IsFlat
  <2> DEFINE S == {k \in Nat : \A i \in 1 .. n : i <= k => g[i] \in Seq(C)}
  <2>4. 0 \in S
    OBVIOUS
  <2>5. ASSUME NEW k \in Nat, k \in S PROVE k + 1 \in S
    <3>1. ASSUME NEW i \in 1 .. n, i <= k + 1 PROVE g[i] \in Seq(C)
      <4>1. CASE i = 1
        BY <1>1, <2>3, <4>1
      <4>2. CASE i # 1
        <5>1. i - 1 \in 1 .. n /\ i - 1 <= k
          BY <3>1, <4>2
        <5>2. g[i-1] \in Seq(C)
          BY <2>5, <5>1
        <5>3. g[i] = g[i-1] \o s[i]
          BY <2>3, <4>2
        <5>4. s[i] \in Seq(C)
          BY <1>1
        <5> HIDE DEF S
        <5> QED BY <5>2, <5>3, <5>4
      <4> QED BY <4>1, <4>2
    <3> QED BY <3>1
  <2>6. n \in S
    <3>1. Nat \subseteq S
      <4> HIDE DEF S
      <4> QED BY <2>4, <2>5, Upwards
    <3> QED BY <1>1, <3>1
  <2>7. n \in 1 .. n
    BY <1>1, <1>3
  <2> QED BY <2>1, <2>6, <2>7
<1> QED BY <1>2, <1>3

\* What candidates and facts are made of, given the sources they may cite.
Values == UNION {{Learned[t][i].value : i \in DOMAIN Learned[t]} : t \in Turns}
Found(src) == [value : Values, sources : SUBSET src]
Fact(src) == [value : Values, sources : SUBSET src, supersedes : SUBSET Nat,
              status : {"active", "pending", "superseded"}]

\* A list of facts from sources in src, of which at most one is recalled.
SoundList(list, src) ==
  /\ list \in Seq(Fact(src))
  /\ \A i, j \in DOMAIN list : list[i].status = "active" /\ list[j].status = "active" => i = j
  /\ \A i \in DOMAIN list :
       list[i].status = "active" => Outbox!Authority(list[i].sources) = 1
  /\ \A i \in DOMAIN list : \A k \in list[i].supersedes :
       /\ k \in DOMAIN list /\ list[k].status = "superseded"
       /\ Outbox!Authority(list[k].sources)
            <= Outbox!Authority(list[i].sources)

\* An authority is 0 or 1, and further sources do not lower it.
LEMMA AuthorityGrows ==
  /\ \A A : Outbox!Authority(A) \in {0, 1}
  /\ \A A, B : Outbox!Authority(A) <= Outbox!Authority(A \cup B)
<1>1. \A A : Outbox!Authority(A) \in {0, 1}
  BY DEF Outbox!Authority
<1>2. ASSUME NEW A, NEW B PROVE Outbox!Authority(A) <= Outbox!Authority(A \cup B)
  BY DEF Outbox!Authority
<1> QED BY <1>1, <1>2

\* A candidate that confirms the fact that is recalled adds its sources to it.
LEMMA Confirmed ==
  ASSUME NEW src, NEW list, SoundList(list, src), NEW more \in SUBSET src,
         NEW m \in DOMAIN list, list[m].status = "active"
  PROVE  SoundList([i \in DOMAIN list |->
           IF i = m THEN [list[i] EXCEPT !.sources = @ \cup more] ELSE list[i]], src)
<1> DEFINE one == [list[m] EXCEPT !.sources = @ \cup more]
           new == [i \in DOMAIN list |-> IF i = m THEN one ELSE list[i]]
<1>1. /\ list \in Seq(Fact(src)) /\ Len(list) \in Nat /\ DOMAIN list = 1 .. Len(list)
      /\ \A i \in DOMAIN list : list[i] \in Fact(src)
  BY DEF SoundList
<1>2. /\ list[m] \in [value : Values, sources : SUBSET src, supersedes : SUBSET Nat,
                      status : {"active", "pending", "superseded"}]
      /\ list[m].sources \cup more \in SUBSET src
  BY <1>1 DEF Fact
<1>3. /\ one \in Fact(src) /\ one.status = "active" /\ one.supersedes = list[m].supersedes
      /\ one.sources = list[m].sources \cup more
  BY <1>2 DEF Fact
<1>4. [i \in DOMAIN list |->
           IF i = m THEN [list[i] EXCEPT !.sources = @ \cup more] ELSE list[i]] = new
  OBVIOUS
<1> HIDE DEF one
<1>5. /\ DOMAIN new = DOMAIN list /\ new[m] = one
      /\ \A i \in DOMAIN list : i # m => new[i] = list[i]
      /\ \A i \in DOMAIN list : new[i] \in Fact(src)
  BY <1>1, <1>3
<1>6. new \in Seq(Fact(src))
  BY <1>1, <1>5
<1> HIDE DEF new
<1>7. \A i \in DOMAIN list : /\ new[i].status = list[i].status
                             /\ new[i].supersedes = list[i].supersedes
  BY <1>3, <1>5
<1>8. \A i \in DOMAIN list : /\ Outbox!Authority(new[i].sources) \in {0, 1}
                             /\ Outbox!Authority(list[i].sources) \in {0, 1}
                             /\ Outbox!Authority(list[i].sources)
                                  <= Outbox!Authority(new[i].sources)
                             /\ i # m => new[i] = list[i]
  BY <1>3, <1>5, AuthorityGrows
<1>9. ASSUME NEW i \in DOMAIN new, NEW k \in new[i].supersedes
      PROVE  /\ k \in DOMAIN new /\ new[k].status = "superseded"
             /\ Outbox!Authority(new[k].sources) <= Outbox!Authority(new[i].sources)
  <2>1. /\ i \in DOMAIN list /\ k \in DOMAIN list /\ list[k].status = "superseded"
        /\ Outbox!Authority(list[k].sources) <= Outbox!Authority(list[i].sources)
    BY <1>5, <1>7, <1>9 DEF SoundList
  <2>2. k # m
    BY <2>1
  <2> QED BY <1>5, <1>7, <1>8, <2>1, <2>2
<1>10. \A i \in DOMAIN new : new[i].status = "active" => Outbox!Authority(new[i].sources) = 1
  <2> SUFFICES ASSUME NEW i \in DOMAIN new, new[i].status = "active"
               PROVE  Outbox!Authority(new[i].sources) = 1
    OBVIOUS
  <2>1. Outbox!Authority(list[i].sources) = 1
    BY <1>5, <1>7 DEF SoundList
  <2> QED BY <1>5, <1>8, <2>1
<1>11. \A i, j \in DOMAIN new : new[i].status = "active" /\ new[j].status = "active" => i = j
  BY <1>5, <1>7 DEF SoundList
<1>12. SoundList(new, src)
  BY <1>6, <1>9, <1>10, <1>11 DEF SoundList
<1> QED BY <1>4, <1>12

\* A fact that joins the list: it supersedes the one recalled, or it waits.
LEMMA FactsJoined ==
  ASSUME NEW src, NEW list, SoundList(list, src), NEW fact \in Fact(src), NEW old,
         \/ /\ fact.status = "active" /\ Outbox!Authority(fact.sources) = 1
            /\ old = {i \in DOMAIN list : list[i].status = "active"}
         \/ fact.status = "pending" /\ old = {},
         fact.supersedes = old
  PROVE  SoundList(Append([i \in DOMAIN list |->
           IF i \in old THEN [list[i] EXCEPT !.status = "superseded"] ELSE list[i]], fact), src)
<1> DEFINE n == Len(list)
           kept == [i \in DOMAIN list |->
                      IF i \in old THEN [list[i] EXCEPT !.status = "superseded"] ELSE list[i]]
           new == Append(kept, fact)
<1>1. /\ list \in Seq(Fact(src)) /\ n \in Nat /\ DOMAIN list = 1 .. n
      /\ \A i \in DOMAIN list : list[i] \in Fact(src)
  BY DEF SoundList
<1>2. ASSUME NEW i \in DOMAIN list
      PROVE  /\ kept[i] \in Fact(src) /\ kept[i].sources = list[i].sources
             /\ kept[i].supersedes = list[i].supersedes
             /\ kept[i].status = IF i \in old THEN "superseded" ELSE list[i].status
  <2>1. list[i] \in [value : Values, sources : SUBSET src, supersedes : SUBSET Nat,
                     status : {"active", "pending", "superseded"}]
    BY <1>1 DEF Fact
  <2>2. CASE i \in old
    <3> DEFINE one == [list[i] EXCEPT !.status = "superseded"]
    <3>1. /\ one \in Fact(src) /\ one.sources = list[i].sources
          /\ one.supersedes = list[i].supersedes /\ one.status = "superseded"
      BY <2>1 DEF Fact
    <3>2. kept[i] = one
      BY <2>2
    <3> HIDE DEF one, kept
    <3> QED BY <2>2, <3>1, <3>2
  <2>3. CASE i \notin old
    <3>1. kept[i] = list[i]
      BY <2>3
    <3> HIDE DEF kept
    <3> QED BY <1>1, <2>3, <3>1
  <2> QED BY <2>2, <2>3
<1>3. kept \in Seq(Fact(src)) /\ Len(kept) = n /\ DOMAIN kept = 1 .. n
  <2>1. DOMAIN kept = 1 .. n /\ kept = [i \in 1 .. n |-> kept[i]]
    BY <1>1
  <2>2. \A i \in 1 .. n : kept[i] \in Fact(src)
    BY <1>1, <1>2
  <2> HIDE DEF kept
  <2> QED BY <1>1, <2>1, <2>2
<1> HIDE DEF kept
<1>4. /\ new \in Seq(Fact(src)) /\ DOMAIN new = 1 .. n + 1 /\ new[n + 1] = fact
      /\ \A i \in 1 .. n : new[i] = kept[i]
  BY <1>1, <1>3
<1> HIDE DEF new
<1>5. \A i \in 1 .. n : /\ new[i].sources = list[i].sources
                        /\ new[i].supersedes = list[i].supersedes
                        /\ new[i].status = IF i \in old THEN "superseded" ELSE list[i].status
  BY <1>1, <1>2, <1>4
<1>6. \A i \in DOMAIN new : i \in 1 .. n \/ i = n + 1
  BY <1>1, <1>4
<1>7. \A i \in 1 .. n : i \in DOMAIN list /\ i \in DOMAIN new /\ i # n + 1
  BY <1>1, <1>4
<1>8. old \subseteq 1 .. n
  BY <1>1
<1>9. ASSUME NEW i \in DOMAIN new, NEW j \in DOMAIN new,
             new[i].status = "active", new[j].status = "active"
      PROVE  i = j
  <2>1. CASE fact.status = "pending" /\ old = {}
    <3>1. i \in 1 .. n /\ j \in 1 .. n
      BY <1>4, <1>6, <1>9, <2>1
    <3> QED BY <1>5, <1>7, <1>9, <2>1, <3>1 DEF SoundList
  <2>2. CASE old = {k \in DOMAIN list : list[k].status = "active"}
    <3>1. \A k \in 1 .. n : new[k].status # "active"
      BY <1>5, <1>7, <2>2
    <3> QED BY <1>6, <1>9, <3>1
  <2> QED BY <2>1, <2>2
<1>10. ASSUME NEW i \in DOMAIN new, new[i].status = "active"
       PROVE  Outbox!Authority(new[i].sources) = 1
  <2>1. CASE i \in 1 .. n
    <3>1. list[i].status = "active"
      BY <1>5, <1>10, <2>1
    <3> QED BY <1>5, <1>7, <2>1, <3>1 DEF SoundList
  <2>2. CASE i = n + 1
    BY <1>4, <1>10, <2>2
  <2> QED BY <1>6, <2>1, <2>2
<1>11. ASSUME NEW i \in DOMAIN new, NEW k \in new[i].supersedes
       PROVE  /\ k \in DOMAIN new /\ new[k].status = "superseded"
              /\ Outbox!Authority(new[k].sources) <= Outbox!Authority(new[i].sources)
  <2>1. CASE i \in 1 .. n
    <3>1. /\ k \in DOMAIN list /\ list[k].status = "superseded"
          /\ Outbox!Authority(list[k].sources) <= Outbox!Authority(list[i].sources)
      BY <1>5, <1>7, <1>11, <2>1 DEF SoundList
    <3> QED BY <1>1, <1>5, <1>7, <2>1, <3>1
  <2>2. CASE i = n + 1
    <3>1. k \in old
      BY <1>4, <1>11, <2>2
    <3>2. Outbox!Authority(new[i].sources) = 1
      BY <1>4, <2>2, <3>1
    <3>3. Outbox!Authority(new[k].sources) \in {0, 1}
      BY AuthorityGrows
    <3> QED BY <1>5, <1>7, <1>8, <3>1, <3>2, <3>3
  <2> QED BY <1>6, <2>1, <2>2
<1>12. SoundList(new, src)
  BY <1>4, <1>9, <1>10, <1>11 DEF SoundList
<1> QED BY <1>12 DEF new, kept

\* applyFacts keeps a list sound (backend.go:225).
LEMMA AppliedSound ==
  ASSUME NEW src, NEW list, SoundList(list, src), NEW c \in Found(src)
  PROVE  SoundList(Outbox!Applied(list, c), src)
<1> DEFINE active == {i \in DOMAIN list : list[i].status = "active"}
           same == {i \in active : list[i].value = c.value}
           wins == /\ Outbox!Authority(c.sources) > 0
                   /\ \A i \in active : Outbox!Authority(c.sources)
                                          >= Outbox!Authority(list[i].sources)
           old  == IF wins THEN active ELSE {}
           status == IF wins THEN "active" ELSE "pending"
           fact == [value |-> c.value, sources |-> c.sources, supersedes |-> old, status |-> status]
           grown == [i \in DOMAIN list |->
              IF i \in same THEN [list[i] EXCEPT !.sources = @ \cup c.sources] ELSE list[i]]
           extended == Append([i \in DOMAIN list |->
                IF i \in old THEN [list[i] EXCEPT !.status = "superseded"] ELSE list[i]], fact)
<1>1. Outbox!Applied(list, c) = IF same # {} THEN grown ELSE extended
  BY Zenon DEF Outbox!Applied, Outbox!Active
<1>2. c.value \in Values /\ c.sources \in SUBSET src
  BY DEF Found
<1>3. CASE same # {}
  <2>1. PICK m \in same : TRUE
    BY <1>3
  <2>2. m \in DOMAIN list /\ list[m].status = "active"
    BY <2>1
  <2>3. \A i \in DOMAIN list : i \in same <=> i = m
    BY <2>1, <2>2 DEF SoundList
  <2> DEFINE more == c.sources
  <2>4. grown = [i \in DOMAIN list |->
                   IF i = m THEN [list[i] EXCEPT !.sources = @ \cup more] ELSE list[i]]
    <3> HIDE DEF same
    <3> QED BY <2>3
  <2>5. SoundList(grown, src)
    <3>1. more \in SUBSET src
      BY <1>2
    <3> HIDE DEF grown, same, more
    <3> QED BY <2>2, <2>4, <3>1, Confirmed
  <2> QED BY <1>1, <1>3, <2>5
<1>4. CASE same = {}
  <2>1. /\ DOMAIN list \subseteq Nat
    BY DEF SoundList
  <2>2. old \in SUBSET Nat /\ status \in {"active", "pending", "superseded"}
    BY <2>1
  <2>3. wins => Outbox!Authority(c.sources) = 1
    BY AuthorityGrows
  <2>4. \/ wins /\ status = "active" /\ old = active
        \/ status = "pending" /\ old = {}
    OBVIOUS
  <2> HIDE DEF wins, old, status
  <2>5. /\ fact \in Fact(src) /\ fact.status = status /\ fact.supersedes = old
        /\ fact.sources = c.sources
    BY <1>2, <2>2 DEF Fact
  <2> HIDE DEF fact
  <2>6. \/ /\ fact.status = "active" /\ Outbox!Authority(fact.sources) = 1
           /\ old = active
        \/ fact.status = "pending" /\ old = {}
    BY <2>3, <2>4, <2>5
  <2>7. SoundList(extended, src)
    BY <2>5, <2>6, FactsJoined
  <2> QED BY <1>1, <1>4, <2>7
<1> QED BY <1>3, <1>4

\* The evidence of completed turns.
Completed == {s \in Turns \X Evidence : report[s[1]] = "completed"}

\* What the fact file holds is sound, and from completed turns only.
LEMMA HeldSound == ASSUME Taught, SessionInv PROVE SoundList(Outbox!Held, Completed)
<1> DEFINE given == [i \in DOMAIN facts |-> Outbox!Candidates(facts[i])]
           found == Outbox!FlattenSeq(given)
           n     == Len(found)
           g     == CHOOSE f : IsList(f, found, n)
<1>1. facts \in Seq(Turns) /\ \A i \in DOMAIN facts : report[facts[i]] = "completed"
  BY DEF SessionInv, Stored
<1>2. ASSUME NEW i \in DOMAIN facts
      PROVE  Outbox!Candidates(facts[i]) \in Seq(Found(Completed))
  <2> DEFINE t == facts[i]
             c == Outbox!Candidates(t)
  <2>1. t \in Turns /\ report[t] = "completed"
    BY <1>1
  <2> HIDE DEF t
  <2>2. Learned[t] \in Seq({Learned[t][k] : k \in DOMAIN Learned[t]})
    BY <2>1 DEF Taught
  <2>3. Len(Learned[t]) \in Nat /\ DOMAIN Learned[t] = 1 .. Len(Learned[t])
    BY <2>2
  <2>4. c = [k \in DOMAIN Learned[t] |->
               [value   |-> Learned[t][k].value,
                sources |-> {<<t, e>> : e \in Learned[t][k].cites}]]
    BY DEF Outbox!Candidates
  <2>5. ASSUME NEW k \in DOMAIN Learned[t] PROVE c[k] \in Found(Completed)
    <3>1. Learned[t][k].value \in Values
      BY <2>1 DEF Values
    <3>2. Learned[t][k].cites \subseteq Evidence
      BY <2>1 DEF Taught
    <3>3. {<<t, e>> : e \in Learned[t][k].cites} \in SUBSET Completed
      BY <2>1, <3>2 DEF Completed
    <3> DEFINE value == Learned[t][k].value
               from  == {<<t, e>> : e \in Learned[t][k].cites}
    <3>4. c[k] = [value |-> value, sources |-> from]
      BY <2>4
    <3> HIDE DEF value, from, c
    <3>5. value \in Values /\ from \in SUBSET Completed
      BY <3>1, <3>3 DEF value, from
    <3> QED BY <3>4, <3>5 DEF Found
  <2>6. DOMAIN c = 1 .. Len(Learned[t]) /\ c = [k \in 1 .. Len(Learned[t]) |-> c[k]]
    BY <2>3, <2>4
  <2> HIDE DEF c
  <2>7. c \in Seq(Found(Completed))
    BY <2>3, <2>5, <2>6
  <2> QED BY <2>7 DEF c, t
<1>3. given \in Seq(Seq(Found(Completed)))
  <2>1. Len(facts) \in Nat /\ DOMAIN facts = 1 .. Len(facts)
    BY <1>1
  <2> QED BY <1>2, <2>1
<1>4. found \in Seq(Found(Completed))
  <2> HIDE DEF given
  <2> QED BY <1>3, FlattenIn
<1>5. n \in Nat /\ \A i \in 1 .. n : found[i] \in Found(Completed)
  <2> HIDE DEF found
  <2> QED BY <1>4
<1>6. Outbox!Held = g[n]
  BY Zenon DEF Outbox!Held, IsList
<1> HIDE DEF found, n
<1>7. IsList(g, found, n)
  BY <1>5, ListExists, Zenon
<1> HIDE DEF g
<1>8. \A i \in 0 .. n : g[i] = IF i = 0 THEN <<>> ELSE Outbox!Applied(g[i-1], found[i])
  BY <1>7, Zenon DEF IsList
<1> DEFINE S == {k \in Nat : k <= n => SoundList(g[k], Completed)}
<1>9. 0 \in S
  <2>1. g[0] = <<>>
    BY <1>5, <1>8
  <2>2. SoundList(<<>>, Completed)
    BY DEF SoundList
  <2> QED BY <2>1, <2>2
<1>10. ASSUME NEW k \in Nat, k \in S PROVE k + 1 \in S
  <2> SUFFICES ASSUME k + 1 <= n PROVE SoundList(g[k + 1], Completed)
    OBVIOUS
  <2>1. k + 1 \in 0 .. n /\ k + 1 \in 1 .. n /\ k + 1 # 0 /\ (k + 1) - 1 = k /\ k <= n
    BY <1>5
  <2>2. g[k + 1] = Outbox!Applied(g[k], found[k + 1])
    BY <1>8, <2>1
  <2>3. SoundList(g[k], Completed)
    BY <1>10, <2>1
  <2>4. found[k + 1] \in Found(Completed)
    BY <1>5, <2>1
  <2> QED BY <2>2, <2>3, <2>4, AppliedSound
<1>11. Nat \subseteq S
  <2> HIDE DEF S
  <2> QED BY <1>9, <1>10, Upwards
<1>12. SoundList(g[n], Completed)
  BY <1>5, <1>11
<1> QED BY <1>6, <1>12

\* engine.go:219 to 235, outbox.go:21, backend.go:225: what Ask returned is in the session
\* with its report and its memory job, facts come from completed turns, once from each, and of
\* an attribute one fact is recalled that nothing stronger lost to, in whatever order and after
\* whatever failures the turns are merged.
THEOREM AcceptedStaysOnce == SessionSpec => []AcceptedOnce
<1>1. ASSUME SessionInv PROVE AcceptedOnce
  <2>1. AnswersDurable
    BY <1>1 DEF SessionInv, Stored, Backed, AnswersDurable
  <2>2. RemembersAccepted
    <3>1. \A i \in DOMAIN facts : facts[i] \in Turns
      BY <1>1 DEF SessionInv, Stored
    <3> QED BY <1>1, <3>1 DEF SessionInv, Backed, RemembersAccepted
  <2>3. FactsSound
    <3> DEFINE list == Outbox!Held
    <3>1. SoundList(list, Completed)
      BY <1>1, HeldSound, TaughtHolds
    <3> HIDE DEF list
    <3>2. Outbox!Active(list) = {i \in DOMAIN list : list[i].status = "active"}
      BY DEF Outbox!Active
    <3>3. \A i \in DOMAIN list : \A s \in list[i].sources : report[s[1]] = "completed"
      <4>1. \A i \in DOMAIN list : list[i] \in Fact(Completed)
        BY <3>1 DEF SoundList
      <4> QED BY <4>1 DEF Fact, Completed
    <3>4. \A i, j \in Outbox!Active(list) : i = j
      BY <3>1, <3>2 DEF SoundList
    <3>5. \A i \in DOMAIN list :
            i \in Outbox!Active(list) => Outbox!Authority(list[i].sources) > 0
      <4> SUFFICES ASSUME NEW i \in DOMAIN list, i \in Outbox!Active(list)
                   PROVE  Outbox!Authority(list[i].sources) > 0
        OBVIOUS
      <4>1. Outbox!Authority(list[i].sources) = 1
        BY <3>1, <3>2 DEF SoundList
      <4> QED BY <4>1
    <3>6. \A i \in DOMAIN list : \A k \in list[i].supersedes :
            /\ list[k].status = "superseded"
            /\ Outbox!Authority(list[k].sources)
                 <= Outbox!Authority(list[i].sources)
      BY <3>1 DEF SoundList
    <3> QED BY <3>3, <3>4, <3>5, <3>6, Zenon DEF list, FactsSound
  <2> QED BY <2>1, <2>2, <2>3 DEF AcceptedOnce
<1> QED BY <1>1, SessionInvariant, PTL

=============================================================================
