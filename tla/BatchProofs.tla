----------------------------- MODULE BatchProofs -----------------------------
\* What one tool batch guarantees for every list of calls, every group limit,
\* and any number of crashes, failed writes, cancelled turns, edits and
\* resumptions.
EXTENDS Batch, FiniteSetTheorems, SequenceTheorems, TLAPS

\* The store's own results, for the identities of this batch.
Proved == INSTANCE ApprovalsProofs WITH Receipts <- {"ok", "failed", "refused"}

-----------------------------------------------------------------------------
(* The inductive invariant of what runs                                    *)

Pcs == {"down", "idle", "loop", "run", "authorize", "claim", "dispatch", "finish", "got",
        "journal", "ledger", "advance", "paused", "restore", "restored", "decide",
        "resave", "reenter"}
Said   == Outs \cup {"pending", "effect_unknown", "receipt_unknown"}
Agents == [pc : Pcs, mem : Results, c : Frozen, got : Seq(Said), token : Nat,
           stale : BOOLEAN, cancelled : BOOLEAN, want : [id : 0..N, allow : BOOLEAN]]
Counts == [crashes : Nat, edits : Nat, faults : Nat, cancels : Nat, panics : Nat,
           batches : {0, 1}, parted : BOOLEAN, cut : SUBSET Calls]

Typed == /\ cont \in Frozen /\ ag \in Agents /\ disk \in Results
         /\ file \in Nat /\ effects \in [Calls -> Nat]
         /\ ask \in BOOLEAN /\ count \in Counts

\* Journalled results are those of the next calls.
Numbered(c) == \A i \in 1..Len(c.buffered) : c.buffered[i].call = c.next + i

\* Only known outcomes have receipts to be replayed.
Receipted == \A c \in Calls : rec[c].status = "completed" => rec[c].receipt \in {"ok", "refused"}

\* What the process holds at each of its steps.
Midway(a) ==
  /\ a.pc \in {"run", "authorize", "claim", "dispatch", "finish", "got", "journal",
               "ledger", "advance"} => a.c.next < N
  /\ a.pc = "run" => a.c.executing
  /\ a.pc \in {"authorize", "claim", "dispatch", "finish"} => a.c.next + 1 \in Risky
  /\ a.pc = "finish" => a.got \in {<<"ok">>, <<"failed">>, <<"refused">>}
  /\ a.pc \in {"got", "journal", "ledger", "advance"} => Len(a.got) \in 1..(N - a.c.next)
  /\ a.pc = "got" => /\ a.got \in Seq(Outs \cup Unsettled) \cup {<<"pending">>}
                     /\ Kind[a.c.next + 1] = "plain" => a.got # <<"pending">>
                     /\ \A i \in 1..Len(a.got) : Len(a.got) = 1 \/ Kind[a.c.next + i] = "read"
  /\ a.pc \in {"journal", "ledger", "advance"} =>
       /\ Len(a.got) <= Len(a.mem)
       /\ \A i \in 1..Len(a.got) :
            a.mem[Len(a.mem) - Len(a.got) + i] = Entry(a.c.next + i, a.got[i])
  /\ a.pc \in {"restore", "restored"} => a.c.buffered # <<>>
  /\ a.pc \in {"restore", "restored", "decide"} => a.want.id \in Risky

Shaped == /\ Receipted /\ Numbered(cont) /\ Numbered(ag.c) /\ Midway(ag)
          /\ Busy => cont.active /\ ag.c.active
          /\ ag.pc = "run" => ag.c = cont
          /\ count.batches = 0 => /\ ~cont.active /\ ~Busy
                                  /\ \A c \in Calls : effects[c] = 0

\* The continuation c is past every call without receipts that has run, or marks
\* it as begun.
Past(c) == \A k \in Calls : Kind[k] = "plain" /\ effects[k] > 0 =>
             k <= c.next \/ (k = c.next + 1 /\ c.executing)

\* A call runs once, a risky one for its claim.
Counted == \A c \in Calls : /\ Kind[c] = "read" => effects[c] = 0
                            /\ Kind[c] = "plain" => effects[c] <= 1
                            /\ c \in Risky => effects[c] <= claims[c]

\* Whatever is on file or in memory, a call that has run is not run again: a call
\* without receipts because every continuation is past it, a risky one because
\* its claim is spent.
Spent == /\ cont.active => Past(cont)
         /\ Busy => Past(ag.c)
         /\ ag.pc = "run" /\ Kind[At] = "plain" => effects[At] = 0
         /\ Counted
         /\ ag.pc = "dispatch" => effects[At] = 0 /\ rec[At].status = "claimed"

IInv == Proved!IInv /\ Typed /\ Shaped /\ Spent

-----------------------------------------------------------------------------
(* ... and of what the session says                                        *)

\* The frozen action of a call.
Action(c) ==
  /\ rec[c].status # "failed"
  /\ rec[c].status # "absent" => /\ rec[c].digest \in Nat
                                 /\ IF Kind[c] = "write" THEN rec[c].digest <= file
                                                         ELSE rec[c].digest = 0
  /\ rec[c].status = "completed" => \/ rec[c].receipt = "ok" /\ effects[c] = 1
                                    \/ rec[c].receipt = "refused" /\ effects[c] = 0

\* The call cannot run any more, although it has not: refused or overdue, claimed
\* by a dispatch that was given up, or frozen with a content that is gone.
Shut(c) == \/ rec[c].status \in {"denied", "expired"}
           \/ rec[c].status = "claimed" /\ ~(ag.pc \in {"dispatch", "finish"} /\ At = c)
           \/ /\ Kind[c] = "write" /\ rec[c].status \in {"pending", "approved"}
              /\ rec[c].digest < file

\* A result is true, and stays so.
Truth(e) == LET c == e.call  out == e.out IN Kind[c] # "read" =>
  /\ out = "ok" => /\ effects[c] = 1
                   /\ c \in Risky => rec[c].status = "completed" /\ rec[c].receipt = "ok"
  /\ out = "refused" => /\ c \in Risky /\ effects[c] = 0
                        /\ rec[c].status = "completed" /\ rec[c].receipt = "refused"
  /\ out = "denied" => c \in Risky /\ effects[c] = 0 /\ Shut(c)
  /\ out = "failed" => Kind[c] = "plain"
  /\ out = "cancelled" => c \in count.cut
  /\ out = "interrupted" => /\ ~cont.active /\ count.batches = 1
                            /\ c \in Risky => rec[c].status # "completed"

Entries == Range(disk) \cup Range(ag.mem) \cup Range(cont.buffered) \cup Range(ag.c.buffered)

\* What came back from a risky call, before its receipt is written ...
Finishing == ag.pc = "finish" => /\ rec[At].status = "claimed"
                                 /\ ag.got = <<"refused">> => effects[At] = 0
                                 /\ ag.got # <<"refused">> => effects[At] = 1

\* ... and from a group of calls, unless a cancellation will replace it.
GotTrue == ag.pc = "got" /\ ~ag.cancelled =>
             \A i \in 1..Len(ag.got) : Truth(Entry(ag.c.next + i, ag.got[i]))

\* A call in hand under a cancelled context was cut by the cancellation.
Caught == InHand /\ ag.cancelled => At \in count.cut

True == /\ \A e \in Entries : Truth(e)
        /\ \A c \in Risky : Action(c)
        /\ Finishing /\ GotTrue

\* Every call the batch has advanced over is in the session.
Complete ==
  /\ cont.active => 1..cont.next \subseteq Heard
  /\ Busy => 1..ag.c.next \subseteq Heard
  /\ ~cont.active /\ count.batches = 1 =>
       Calls \subseteq Heard \/ \A c \in Risky : rec[c].status = "absent"
  /\ count.batches = 0 => \A c \in Risky : rec[c].status = "absent"
  /\ ag.pc # "down" => Range(disk) \subseteq Range(ag.mem)
  /\ ag.pc \in {"advance", "restored"} => disk = ag.mem
  /\ ag.pc \in {"restore", "restored"} => Range(ag.c.buffered) \subseteq Range(ag.mem)

HInv == True /\ Complete

\* While the continuation could be written, the session has exactly the results of
\* the calls the batch has advanced over, and perhaps those journalled.
Exact(s, n) == Len(s) = n /\ \A i \in 1..n : s[i].call = i

Settled == {"loop", "run", "authorize", "claim", "dispatch", "finish", "got", "paused",
            "decide", "resave", "reenter"}

\* The session, according to the continuation on file.
Journalled ==
  /\ cont.active => /\ Exact(cont.digest, cont.next)
                    /\ disk \in {cont.digest, cont.digest \o cont.buffered}
  /\ ~cont.active => Exact(disk, IF count.batches = 0 THEN 0 ELSE N) /\ cont.buffered = <<>>

\* The messages of the process, according to both.
Remembered ==
  /\ count.batches = 0 => ~ag.stale
  /\ Busy => ag.c.next = cont.next /\ ag.c.buffered = cont.buffered
  /\ ag.pc \in Settled => ag.mem = disk /\ cont.buffered = <<>>
  /\ ag.pc = "idle" /\ ~ag.stale /\ cont.buffered = <<>> => ag.mem = disk
  /\ ag.pc = "journal" => cont.buffered = <<>> /\ ag.mem = disk \o Returned
  /\ ag.pc \in {"ledger", "advance", "restore", "restored"} =>
       ag.mem = cont.digest \o cont.buffered
  /\ ag.pc \in {"ledger", "advance"} => Len(cont.buffered) = Len(ag.got)

Aligned == Journalled /\ Remembered
XInv == ~count.parted => Aligned

-----------------------------------------------------------------------------
(* The store                                                               *)

\* An operation of the store on one identity keeps the store's invariant and
\* touches no other identity.
Operates(c) == /\ Proved!IInv'
               /\ \A o \in Calls : claims[o] <= claims'[o]
               /\ Proved!Kept(c)
               /\ \A o \in Calls \ {c} : Proved!Untouched(o)

LEMMA StoreKept ==
  ASSUME Proved!IInv, NEW c \in Calls,
         Proved!TypeOK' /\ Proved!Coherent(c)' /\ Proved!Kept(c)
           /\ \A o \in Calls \ {c} : Proved!Untouched(o),
         claims' = claims \/ claims' = [claims EXCEPT ![c] = @ + 1]
  PROVE  Operates(c)
<1>1. ASSUME NEW o \in Calls PROVE Proved!Coherent(o)'
  <2>1. CASE o = c
    BY <2>1
  <2>2. CASE o # c
    BY <2>2, Proved!Untouched(o) DEF Proved!IInv, Proved!Coherent, Proved!Untouched
  <2> QED BY <2>1, <2>2
<1>2. Proved!IInv'
  BY <1>1 DEF Proved!IInv
<1>3. claims \in [Calls -> Nat]
  BY DEF Proved!IInv, Proved!TypeOK
<1>4. \A o \in Calls : claims[o] <= claims'[o]
  BY <1>3
<1> QED BY <1>2, <1>4 DEF Operates

LEMMA StoreCreate ==
  ASSUME Proved!IInv, NEW c \in Calls, NEW d \in Nat, Store!Create(c, d)
  PROVE  Operates(c)
<1>1. Proved!Create(c, d)
  BY DEF Store!Create, Proved!Create, Store!Changed, Proved!Changed, Store!NoRecord, Proved!NoRecord
<1> QED BY <1>1, Proved!CreateInv, StoreKept DEF Digests, Store!Create

LEMMA StoreDecide ==
  ASSUME Proved!IInv, NEW c \in Calls, NEW allow \in BOOLEAN, Store!Decide(c, allow)
  PROVE  Operates(c)
<1>1. Proved!Decide(c, allow)
  BY DEF Store!Decide, Proved!Decide, Store!Decidable, Proved!Decidable, Store!Wanted,
         Proved!Wanted
<1> QED BY <1>1, Proved!DecideInv, StoreKept DEF Store!Decide

LEMMA StoreClaim ==
  ASSUME Proved!IInv, NEW c \in Calls, NEW d \in Nat, Store!Claim(c, d)
  PROVE  Operates(c)
<1>1. Proved!Claim(c, d)
  BY DEF Store!Claim, Proved!Claim, Store!Claimable, Proved!Claimable
<1> QED BY <1>1, Proved!ClaimInv, StoreKept DEF Digests, Store!Claim

LEMMA StoreFinish ==
  ASSUME Proved!IInv, NEW c \in Calls, NEW token \in Nat,
         NEW outcome \in {"completed", "unknown"}, NEW receipt \in {"ok", "failed", "refused"},
         Store!Finish(c, token, outcome, receipt)
  PROVE  Operates(c)
<1>1. Proved!Finish(c, token, outcome, receipt)
  BY DEF Store!Finish, Proved!Finish, Store!Finishable, Proved!Finishable
<1>2. outcome \in Proved!Outcomes
  BY DEF Proved!Outcomes
<1> QED BY <1>1, <1>2, Proved!FinishInv, StoreKept DEF Store!Finish

LEMMA StoreTick ==
  ASSUME Proved!IInv, NEW c \in Calls, Store!Tick(c)
  PROVE  Operates(c)
<1>1. Proved!Tick(c)
  BY DEF Store!Tick, Proved!Tick
<1> QED BY <1>1, Proved!TickInv, StoreKept DEF Store!Tick

LEMMA StoreIdle ==
  ASSUME Proved!IInv, UNCHANGED store
  PROVE  Proved!IInv'
  BY DEF store, Proved!IInv, Proved!TypeOK, Proved!Coherent

-----------------------------------------------------------------------------
(* Records                                                                 *)

LEMMA Sizes == /\ N \in Nat /\ Calls \subseteq Nat \ {0} /\ Risky \subseteq Calls
               /\ Kind \in [Calls -> {"read", "plain", "write", "shell"}]
  BY BatchConstants DEF N, Calls, Risky

LEMMA FrozenFields ==
  ASSUME NEW c \in Frozen
  PROVE  /\ c.active \in BOOLEAN /\ c.next \in 0..N /\ c.executing \in BOOLEAN
         /\ c.pending \in 0..N /\ c.digest \in Results /\ c.buffered \in Results
         /\ c.next \in Nat /\ c.next <= N
  BY Sizes DEF Frozen

LEMMA EntryFields == \A c, o : Entry(c, o).call = c /\ Entry(c, o).out = o
  BY DEF Entry

LEMMA ResultFields ==
  ASSUME NEW s \in Results
  PROVE  /\ Len(s) \in Nat /\ DOMAIN s = 1..Len(s)
         /\ \A i \in 1..Len(s) : /\ s[i] \in [call : Calls, out : Outs]
                                 /\ s[i].call \in Calls /\ s[i].out \in Outs
<1>1. s \in Seq([call : Calls, out : Outs])
  BY DEF Results
<1>2. \A i \in 1..Len(s) : s[i] \in [call : Calls, out : Outs]
  BY <1>1, LenProperties
<1>3. Len(s) \in Nat /\ DOMAIN s = 1..Len(s)
  BY <1>1
<1> QED BY <1>2, <1>3

LEMMA AgentFields ==
  ASSUME NEW a \in Agents
  PROVE  /\ a.pc \in Pcs /\ a.mem \in Results /\ a.c \in Frozen /\ a.got \in Seq(Said)
         /\ a.token \in Nat /\ a.stale \in BOOLEAN /\ a.cancelled \in BOOLEAN
         /\ a.want.id \in 0..N /\ a.want.allow \in BOOLEAN
         /\ a.want \in [id : 0..N, allow : BOOLEAN]
  BY DEF Agents

\* s is the continuation c over the session d.
Stamped(s, c, d) ==
  /\ s \in Frozen /\ s.active = c.active /\ s.next = c.next /\ s.executing = c.executing
  /\ s.pending = c.pending /\ s.buffered = c.buffered /\ s.digest = d

LEMMA Stamping ==
  ASSUME NEW c \in Frozen, NEW d \in Results
  PROVE  Stamped([c EXCEPT !.digest = d], c, d)
  BY DEF Stamped, Frozen

\* b is a moved on to pc with the continuation c.
Moved(b, a, pc, c) ==
  /\ b \in Agents /\ b.pc = pc /\ b.c = c
  /\ b.mem = a.mem /\ b.got = a.got /\ b.token = a.token /\ b.stale = a.stale
  /\ b.cancelled = a.cancelled /\ b.want = a.want

LEMMA Moving ==
  ASSUME NEW a \in Agents, NEW pc \in Pcs, NEW c \in Frozen
  PROVE  /\ Moved([a EXCEPT !.c = c, !.pc = pc], a, pc, c)
         /\ Moved([a EXCEPT !.pc = pc], a, pc, a.c)
  BY DEF Moved, Agents

\* b is a after its turn.
Rested(b, a) == /\ b \in Agents /\ b.pc = "idle" /\ b.c = Inactive /\ b.got = <<>>
                /\ b.mem = a.mem /\ b.stale = a.stale

LEMMA InactiveFields ==
  /\ Inactive \in Frozen /\ ~Inactive.active /\ Inactive.next = 0 /\ Inactive.buffered = <<>>
  /\ ~Inactive.executing /\ Inactive.digest = <<>>
<1>1. <<>> \in Results
  BY DEF Results
<1> QED BY <1>1, Sizes DEF Inactive, Frozen

LEMMA Resting ==
  ASSUME ag \in Agents
  PROVE  Rested(Stopped, ag)
<1>1. <<>> \in Seq(Said)
  OBVIOUS
<1> QED BY <1>1, InactiveFields DEF Rested, Stopped, Agents, Pcs

LEMMA CountFields ==
  ASSUME NEW w, Typed, Fault(w)
  PROVE  /\ count' \in Counts /\ count'.batches = count.batches /\ count'.cut = count.cut
         /\ count'.parted = (count.parted \/ w = "continuation")
<1>1. count \in Counts
  BY DEF Typed
<1>2. PICK l \in BOOLEAN : l = (count.parted \/ w = "continuation")
  OBVIOUS
<1>3. PICK b : b = [count EXCEPT !.faults = @ + 1]
  OBVIOUS
<1>4. b \in Counts /\ b.batches = count.batches /\ b.cut = count.cut
  BY <1>1, <1>3 DEF Counts
<1>5. count' = [b EXCEPT !.parted = l]
  BY <1>2, <1>3 DEF Fault
<1>6. count' \in Counts /\ count'.batches = b.batches /\ count'.cut = b.cut
  BY <1>4, <1>5 DEF Counts
<1>7. count'.parted = l
  BY <1>4, <1>5 DEF Counts
<1> QED BY <1>2, <1>4, <1>6, <1>7

\* saveContinuation, in terms of what is on file and in memory afterwards.
Written(c, pc) == Stamped(cont', c, disk) /\ Moved(ag', ag, pc, cont') /\ count' = count

Unwritten(c) == /\ cont' = cont \/ Stamped(cont', c, disk)
                /\ Rested(ag', ag)
                /\ count' \in Counts /\ count'.batches = count.batches /\ count'.cut = count.cut
                /\ count'.parted

LEMMA Saving ==
  ASSUME Typed, NEW c \in Frozen, NEW pc \in Pcs, Save(c, pc)
  PROVE  Written(c, pc) \/ Unwritten(c)
<1> DEFINE s == [c EXCEPT !.digest = disk]
<1>1. Stamped(s, c, disk)
  BY Stamping DEF Typed
<1>2. \/ cont' = s /\ ag' = [ag EXCEPT !.c = s, !.pc = pc] /\ count' = count
      \/ Fault("continuation") /\ cont' \in {cont, s} /\ ag' = Stopped
  BY DEF Save, Stop
<1>3. s \in Frozen
  BY <1>1 DEF Stamped
<1> HIDE DEF s
<1>4. CASE cont' = s /\ ag' = [ag EXCEPT !.c = s, !.pc = pc] /\ count' = count
  <2>1. Moved(ag', ag, pc, s)
    BY <1>3, <1>4, Moving DEF Typed
  <2> QED BY <1>1, <1>4, <2>1 DEF Written
<1>5. CASE Fault("continuation") /\ cont' \in {cont, s} /\ ag' = Stopped
  <2>1. Rested(ag', ag)
    BY <1>5, Resting DEF Typed
  <2> QED BY <1>1, <1>5, <2>1, CountFields DEF Unwritten
<1> QED BY <1>2, <1>4, <1>5

-----------------------------------------------------------------------------
(* What runs: one lemma for each way a step ends                           *)

\* The turn ends; the continuation on file is as good as before.
LEMMA StopInv ==
  ASSUME IInv, Rested(ag', ag), cont' \in Frozen, Numbered(cont)', cont'.active => Past(cont)',
         cont'.active => count.batches = 1,
         count' \in Counts, count'.batches = count.batches,
         disk' \in Results, UNCHANGED <<store, file, effects, ask>>
  PROVE  IInv'
<1>1. Proved!IInv'
  BY StoreIdle DEF IInv
<1>2. ag' \in Agents /\ ag'.pc = "idle" /\ ag'.c = Inactive
  BY DEF Rested
<1>3. Typed'
  BY <1>2 DEF IInv, Typed
<1>4. Numbered(ag.c)'
  BY <1>2, InactiveFields, EmptySeq DEF Numbered
<1>5. Midway(ag)'
  BY <1>2 DEF Midway
<1>6. count'.batches \in {0, 1}
  BY <1>3 DEF Typed, Counts
<1>7. Shaped'
  BY <1>2, <1>4, <1>5, <1>6 DEF IInv, Shaped, Busy, Receipted, store
<1>8. Spent'
  BY <1>2 DEF IInv, Spent, Counted, Busy, At, store
<1> QED BY <1>1, <1>3, <1>7, <1>8 DEF IInv

\* What a process holds at a step is a matter of the fields named here...
LEMMA SameMidway ==
  ASSUME NEW a, NEW b, Midway(a), b.pc = a.pc, b.c = a.c, b.mem = a.mem, b.got = a.got,
         b.want = a.want
  PROVE  Midway(b)
<1> SUFFICES ASSUME NEW pc, NEW c, NEW m, NEW g, NEW w,
                    a.pc = pc, a.c = c, a.mem = m, a.got = g, a.want = w,
                    b.pc = pc, b.c = c, b.mem = m, b.got = g, b.want = w
             PROVE  Midway(b)
  OBVIOUS
<1> QED BY DEF Midway

\* ... and an answer the journal holds is still to be handed on when the ledger has it.
LEMMA LedgerMidway ==
  ASSUME NEW a, NEW b, Midway(a), a.pc = "journal", b.pc = "ledger", b.c.next = a.c.next,
         b.mem = a.mem, b.got = a.got
  PROVE  Midway(b)
<1> SUFFICES ASSUME NEW k, NEW m, NEW g,
                    a.c.next = k, a.mem = m, a.got = g, b.c.next = k, b.mem = m, b.got = g
             PROVE  Midway(b)
  OBVIOUS
<1>1. /\ k < N /\ Len(g) \in 1..(N - k) /\ Len(g) <= Len(m)
      /\ \A i \in 1..Len(g) : m[Len(m) - Len(g) + i] = Entry(k + i, g[i])
  <2>1. a.pc \in {"journal", "ledger", "advance"}
        /\ a.pc \in {"got", "journal", "ledger", "advance"}
        /\ a.pc \in {"run", "authorize", "claim", "dispatch", "finish", "got", "journal",
                     "ledger", "advance"}
    OBVIOUS
  <2> QED BY <2>1, Zenon DEF Midway
<1>2. b.pc \notin {"authorize", "claim", "dispatch", "finish", "restore", "restored", "decide"}
      /\ b.pc # "run" /\ b.pc # "finish" /\ b.pc # "got"
      /\ b.pc \notin {"authorize", "claim", "dispatch", "finish"}
      /\ b.pc \notin {"restore", "restored", "decide"} /\ b.pc \notin {"restore", "restored"}
  OBVIOUS
<1> QED BY <1>1, <1>2, Zenon DEF Midway

\* The fields of two continuations that the invariant speaks of.
LEMMA SameContinuation ==
  ASSUME NEW b, NEW c, b.next = c.next, b.executing = c.executing, b.buffered = c.buffered
  PROVE  (Numbered(c) => Numbered(b)) /\ (Past(c) => Past(b))
  BY DEF Numbered, Past

LEMMA SaveInv ==
  ASSUME IInv, Busy, NEW c \in Frozen, NEW pc \in {"run", "paused", "ledger", "loop", "decide", "reenter"},
         Save(c, pc), c.active, Numbered(c), Past(c),
         pc = "run" => c.next < N /\ c.executing /\ (Kind[c.next + 1] = "plain" => effects[c.next + 1] = 0),
         pc = "ledger" => ag.pc = "journal" /\ c.next = ag.c.next,
         pc = "decide" => ag.pc = "restored",
         UNCHANGED <<store, disk, file, effects, ask>>
  PROVE  IInv'
<1>0. Typed /\ Shaped /\ Spent /\ pc \in Pcs /\ count.batches = 1
  BY DEF IInv, Pcs, Typed, Counts, Shaped
<1>1. Written(c, pc) \/ Unwritten(c)
  BY <1>0, Saving
<1>2. CASE Unwritten(c)
  <2>1. cont' \in Frozen /\ Numbered(cont') /\ (cont'.active => Past(cont'))
    <3>1. CASE cont' = cont
      BY <3>1, <1>0 DEF Typed, Shaped, Spent
    <3>2. CASE Stamped(cont', c, disk)
      BY <3>2, SameContinuation DEF Stamped
    <3> QED BY <1>2, <3>1, <3>2 DEF Unwritten
  <2>2. Numbered(cont)' /\ (cont'.active => Past(cont)')
    BY <2>1 DEF Numbered, Past
  <2>3. Rested(ag', ag) /\ count' \in Counts /\ count'.batches = count.batches /\ disk' \in Results
    BY <1>0, <1>2 DEF Unwritten, Typed
  <2> QED BY <1>0, <2>1, <2>2, <2>3, StopInv
<1>3. CASE Written(c, pc)
  <2>1. /\ Stamped(cont', c, disk) /\ ag'.c = cont' /\ ag'.pc = pc /\ ag'.mem = ag.mem
        /\ ag'.got = ag.got /\ ag'.want = ag.want /\ ag' \in Agents /\ count' = count
    BY <1>3 DEF Written, Moved
  <2>2. cont' \in Frozen /\ cont'.active /\ cont'.next = c.next /\ cont'.executing = c.executing
        /\ Numbered(cont') /\ Past(cont')
    BY <2>1, SameContinuation DEF Stamped
  <2>3. Proved!IInv'
    BY StoreIdle DEF IInv
  <2>4. Typed'
    BY <1>0, <2>1, <2>2 DEF Typed
  <2>5. Midway(ag)'
    <3>1. CASE pc = "ledger"
      <4>1. ag.pc = "journal" /\ ag'.c.next = ag.c.next /\ Midway(ag)
        BY <1>0, <2>1, <2>2, <3>1 DEF Shaped
      <4>2. ag'.mem = ag.mem /\ ag'.got = ag.got /\ ag'.pc = "ledger"
        BY <2>1, <3>1
      <4>3. Midway(ag')
        BY <4>1, <4>2, LedgerMidway
      <4> QED BY <4>3 DEF Midway
    <3>2. CASE pc # "ledger"
      BY <1>0, <2>1, <2>2, <3>2 DEF Midway, Shaped
    <3> QED BY <3>1, <3>2
  <2>6. Shaped'
    BY <1>0, <2>1, <2>2, <2>5 DEF Shaped, Busy, Numbered, Receipted, store
  <2>7. Past(cont)' /\ Past(ag.c)'
    BY <2>1, <2>2 DEF Past
  <2>8. Spent'
    BY <1>0, <2>1, <2>2, <2>7 DEF Spent, Counted, Busy, At, store
  <2> QED BY <2>3, <2>4, <2>6, <2>8 DEF IInv
<1> QED BY <1>1, <1>2, <1>3

\* saveSession of what is in memory.
LEMMA Persisting ==
  ASSUME Typed, NEW pc \in Pcs, SaveSession(ag.mem, [ag EXCEPT !.pc = pc])
  PROVE  /\ disk' \in {disk, ag.mem}
         /\ count' \in Counts /\ count'.batches = count.batches /\ count'.cut = count.cut
         /\ count'.parted = count.parted
         /\ \/ disk' = ag.mem /\ Moved(ag', ag, pc, ag.c)
            \/ /\ ag' \in Agents /\ ag'.pc = "idle" /\ ag'.c = Inactive /\ ag'.got = <<>>
               /\ ag'.mem = ag.mem /\ ag'.stale = (disk' # disk)
<1>1. CASE disk' = ag.mem /\ ag' = [ag EXCEPT !.pc = pc] /\ UNCHANGED count
  <2>1. Moved(ag', ag, pc, ag.c)
    BY <1>1, Moving, AgentFields DEF Typed
  <2> QED BY <1>1, <2>1 DEF Typed
<1>2. CASE /\ Fault("session") /\ disk' \in {disk, ag.mem}
           /\ ag' = [Stopped EXCEPT !.mem = ag.mem, !.stale = (disk' # disk)]
  <2>1. Rested(Stopped, ag)
    BY Resting DEF Typed
  <2>2. PICK s \in BOOLEAN : s = (disk' # disk)
    OBVIOUS
  <2>3. PICK a : a = [Stopped EXCEPT !.mem = ag.mem]
    OBVIOUS
  <2>4. a \in Agents /\ a.pc = "idle" /\ a.c = Inactive /\ a.got = <<>> /\ a.mem = ag.mem
    BY <2>1, <2>3, AgentFields DEF Rested, Agents, Typed
  <2>5. ag' = [a EXCEPT !.stale = s]
    BY <1>2, <2>2, <2>3
  <2>6. /\ ag' \in Agents /\ ag'.pc = "idle" /\ ag'.c = Inactive /\ ag'.got = <<>>
        /\ ag'.mem = ag.mem
    BY <2>4, <2>5 DEF Agents
  <2>7. ag'.stale = s
    BY <2>4, <2>5 DEF Agents
  <2>8. count'.parted = count.parted
    BY <1>2, CountFields DEF Typed, Counts
  <2> QED BY <1>2, <2>2, <2>6, <2>7, <2>8, CountFields
<1> QED BY <1>1, <1>2 DEF SaveSession

LEMMA SessionInv ==
  ASSUME IInv, NEW pc \in {"advance", "restored", "loop"},
         SaveSession(ag.mem, [ag EXCEPT !.pc = pc]),
         \/ pc = "advance" /\ ag.pc = "ledger"
         \/ pc = "restored" /\ ag.pc = "restore"
         \/ pc = "loop" /\ ag.pc = "reenter",
         UNCHANGED <<store, cont, file, effects, ask>>
  PROVE  IInv'
<1>0. Typed /\ Shaped /\ Spent /\ pc \in Pcs /\ Busy /\ count.batches = 1
  BY DEF IInv, Pcs, Typed, Counts, Shaped, Busy
<1>1. disk' \in Results /\ count' \in Counts /\ count'.batches = count.batches
  BY <1>0, Persisting, AgentFields DEF Typed
<1>2. \/ Moved(ag', ag, pc, ag.c)
      \/ ag' \in Agents /\ ag'.pc = "idle" /\ ag'.c = Inactive
  BY <1>0, Persisting
<1>3. Numbered(cont)' /\ (cont.active => Past(cont)')
  BY <1>0 DEF Shaped, Spent, Numbered, Past
<1>4. Proved!IInv'
  BY StoreIdle DEF IInv
<1>5. CASE ag' \in Agents /\ ag'.pc = "idle" /\ ag'.c = Inactive
  <2>1. Typed'
    BY <1>0, <1>1, <1>5 DEF Typed
  <2>2. Numbered(ag.c)' /\ Midway(ag)'
    BY <1>5, InactiveFields, EmptySeq DEF Numbered, Midway
  <2>3. Shaped'
    BY <1>0, <1>1, <1>3, <1>5, <2>2 DEF Shaped, Busy, Receipted, store
  <2>4. Spent'
    BY <1>0, <1>3, <1>5 DEF Spent, Counted, Busy, At, store
  <2> QED BY <1>4, <2>1, <2>3, <2>4 DEF IInv
<1>6. CASE Moved(ag', ag, pc, ag.c)
  <2>1. Typed'
    BY <1>0, <1>1, <1>6 DEF Typed, Moved
  <2>2. Numbered(ag.c)' /\ Past(ag.c)'
    BY <1>0, <1>6 DEF Moved, Shaped, Spent, Numbered, Past
  <2>3. Midway(ag)'
    BY <1>0, <1>6 DEF Moved, Shaped, Midway
  <2>4. Shaped'
    BY <1>0, <1>1, <1>3, <1>6, <2>2, <2>3 DEF Shaped, Busy, Moved, Receipted, store
  <2>5. Spent'
    BY <1>0, <1>3, <1>6, <2>2 DEF Spent, Counted, Busy, At, Moved, store
  <2> QED BY <1>4, <2>1, <2>4, <2>5 DEF IInv
<1> QED BY <1>2, <1>5, <1>6

\* What a call may come back with.
Answered(outs, c) ==
  /\ outs \in Seq(Outs \cup Unsettled) \cup {<<"pending">>}
  /\ Len(outs) \in 1..(N - c.next)
  /\ Kind[c.next + 1] = "plain" => outs # <<"pending">>
  /\ \A i \in 1..Len(outs) : Len(outs) = 1 \/ Kind[c.next + i] = "read"

LEMMA SaidSeq ==
  ASSUME NEW outs \in Seq(Outs \cup Unsettled) \cup {<<"pending">>}
  PROVE  outs \in Seq(Said)
<1>0. Outs \cup Unsettled \subseteq Said /\ "pending" \in Said
  BY DEF Said, Unsettled
<1>1. CASE outs \in Seq(Outs \cup Unsettled)
  BY <1>0, <1>1
<1>2. CASE outs = <<"pending">>
  BY <1>0, <1>2
<1> QED BY <1>1, <1>2

\* b is a with the results outs in hand.
Returning(b, a, outs) ==
  /\ b \in Agents /\ b.pc = "got" /\ b.got = outs /\ b.c = a.c /\ b.mem = a.mem
  /\ b.stale = a.stale /\ b.cancelled = a.cancelled

LEMMA Returns ==
  ASSUME Typed, NEW outs \in Seq(Said), Got(outs)
  PROVE  Returning(ag', ag, outs)
  BY DEF Typed, Agents, Got, Returning, Pcs

LEMMA GotInv ==
  ASSUME IInv, Busy, NEW outs, Answered(outs, ag.c), ag.c.next < N, Got(outs), Proved!IInv', Receipted',
         effects' \in [Calls -> Nat], Counted', Past(cont)', Past(ag.c)', file' \in Nat,
         count' \in Counts, count'.batches = count.batches, UNCHANGED <<cont, disk, ask>>
  PROVE  IInv'
<1>0. Typed /\ Shaped /\ Spent /\ count.batches = 1
  BY DEF IInv, Typed, Counts, Shaped
<1>1. Returning(ag', ag, outs)
  BY <1>0, SaidSeq, Returns DEF Answered
<1>2. Typed'
  BY <1>0, <1>1 DEF Typed, Returning
<1>3. Midway(ag)'
  BY <1>1 DEF Midway, Returning, Answered
<1>4. Shaped'
  BY <1>0, <1>1, <1>3 DEF Shaped, Busy, Returning, Numbered
<1>5. Spent'
  BY <1>0, <1>1 DEF Spent, Counted, Busy, Returning
<1> QED BY <1>2, <1>4, <1>5 DEF IInv

-----------------------------------------------------------------------------
(* What runs: the actions                                                  *)

LEMMA IInvParts ==
  ASSUME IInv
  PROVE  /\ Proved!IInv /\ Typed /\ Shaped /\ Spent /\ Counted /\ Receipted /\ Midway(ag)
         /\ cont \in Frozen /\ ag \in Agents /\ ag.c \in Frozen
         /\ ag.c.next \in Nat /\ ag.c.next <= N /\ N \in Nat
         /\ disk \in Results /\ ag.mem \in Results /\ ag.got \in Seq(Said)
         /\ Busy => count.batches = 1 /\ Past(ag.c) /\ Past(cont) /\ ag.c.active /\ cont.active
  BY AgentFields, FrozenFields, Sizes DEF IInv, Typed, Shaped, Spent, Counts

LEMMA QuitInv ==
  ASSUME IInv, Busy, Stop, UNCHANGED <<store, cont, disk, file, effects, ask, count>>
  PROVE  IInv'
<1>1. Rested(ag', ag)
  BY Resting, IInvParts DEF Stop
<1>2. Numbered(cont)' /\ Past(cont)' /\ cont' \in Frozen /\ disk' \in Results /\ count' \in Counts
      /\ count.batches = 1 /\ count'.batches = count.batches
  BY IInvParts DEF Shaped, Numbered, Past, Typed
<1> QED BY <1>1, <1>2, StopInv

LEMMA InitInv == Init => IInv /\ disk = <<>> /\ ag.mem = <<>>
<1> SUFFICES ASSUME Init PROVE IInv /\ disk = <<>> /\ ag.mem = <<>>
  OBVIOUS
<1>1. Proved!IInv
  BY Proved!InitInv DEF Init, Store!Init, Proved!Init, Store!NoRecord, Proved!NoRecord
<1>2. <<>> \in Results /\ <<>> \in Seq(Said) /\ N \in Nat
  BY Sizes DEF Results
<1>3. PICK w : w = [id |-> 0, allow |-> FALSE]
  OBVIOUS
<1>4. w \in [id : 0..N, allow : BOOLEAN]
  BY <1>2, <1>3
<1>5. /\ ag \in Agents /\ ag.pc = "idle" /\ ag.c = Inactive /\ ag.mem = <<>>
      /\ cont = Inactive /\ disk = <<>>
  BY <1>2, <1>3, <1>4, InactiveFields DEF Init, Asleep, Agents, Pcs
<1>6. count \in Counts /\ count.batches = 0 /\ effects = [c \in Calls |-> 0] /\ file = 0
  BY DEF Init, Counts
<1>7. ask \in BOOLEAN
  BY BatchConstants DEF Init
<1>8. Typed
  BY <1>2, <1>5, <1>6, <1>7, InactiveFields DEF Typed
<1>9. Shaped
  <2>1. rec = [c \in Calls |-> Store!NoRecord]
    BY DEF Init, Store!Init
  <2>2. Receipted
    BY <2>1 DEF Receipted, Store!NoRecord
  <2> QED BY <2>2, <1>5, <1>6, InactiveFields, EmptySeq DEF Shaped, Busy, Numbered, Midway
<1>10. Spent
  <2>1. claims \in [Calls -> Nat]
    BY <1>1 DEF Proved!IInv, Proved!TypeOK
  <2>2. Counted
    BY <1>6, <2>1, Sizes DEF Counted
  <2> QED BY <2>2, <1>5, InactiveFields DEF Spent, Busy
<1> QED BY <1>1, <1>5, <1>8, <1>9, <1>10 DEF IInv

LEMMA LoopInv == ASSUME IInv, Loop, UNCHANGED ask PROVE IInv'
<1>0. Busy /\ ag.c.next < N /\ ag.pc = "loop"
  BY DEF Loop, Busy
<1>1. CASE ag.cancelled \/ ~Repeatable(ag.c)
  BY <1>0, <1>1, QuitInv DEF Loop
<1>2. CASE ~(ag.cancelled \/ ~Repeatable(ag.c))
  <2> SUFFICES ASSUME NEW c, c = [ag.c EXCEPT !.executing = TRUE] PROVE IInv'
    OBVIOUS
  <2>1. /\ c \in Frozen /\ c.next = ag.c.next /\ c.executing /\ c.buffered = ag.c.buffered
        /\ c.active = ag.c.active
    BY IInvParts DEF Frozen
  <2>2. Numbered(c) /\ c.active /\ Past(c) /\ c.next < N
    BY <1>0, <2>1, IInvParts DEF Shaped, Numbered, Past
  <2>3. Kind[c.next + 1] = "plain" => effects[c.next + 1] = 0
    <3> SUFFICES ASSUME Kind[c.next + 1] = "plain" PROVE effects[c.next + 1] = 0
      OBVIOUS
    <3>1. ~ag.c.executing /\ c.next + 1 \in Calls
      BY <1>0, <1>2, <2>1, IInvParts DEF Repeatable, Calls
    <3>2. effects[c.next + 1] \in Nat
      BY <3>1, IInvParts DEF Typed
    <3>3. ~(effects[c.next + 1] > 0)
      BY <1>0, <2>1, <3>1, IInvParts DEF Past
    <3> QED BY <3>2, <3>3
  <2>4. Save(c, "run") /\ UNCHANGED <<store, disk, file, effects, ask>>
    BY <1>2 DEF Loop
  <2> QED BY <1>0, <2>1, <2>2, <2>3, <2>4, SaveInv
<1> QED BY <1>1, <1>2

LEMMA ClearInv == ASSUME IInv, Clear, UNCHANGED ask PROVE IInv'
<1>0. Busy /\ Rested(ag', ag)
  BY Resting, IInvParts DEF Clear, Busy, Stop
<1>1. cont' \in {cont, Inactive}
  BY DEF Clear, Cleared
<1>2. count' \in Counts /\ count'.batches = count.batches
  BY CountFields, IInvParts DEF Clear, Typed
<1>3. cont' \in Frozen /\ Numbered(cont)' /\ (cont'.active => Past(cont)')
  <2>1. UNCHANGED effects
    BY DEF Clear
  <2>2. CASE cont' = cont
    BY <1>0, <2>1, <2>2, IInvParts DEF Shaped, Numbered, Past
  <2>3. CASE cont' = Inactive
    BY <2>3, InactiveFields, EmptySeq DEF Numbered
  <2> QED BY <1>1, <2>2, <2>3
<1>4. disk' \in Results /\ UNCHANGED <<store, file, effects, ask>>
  BY IInvParts DEF Clear
<1> QED BY <1>0, <1>2, <1>3, <1>4, StopInv, IInvParts

\* A group of reads is the calls from the one at hand on.
LEMMA GroupReads ==
  ASSUME IInv, ag.c.next < N, Kind[At] = "read"
  PROVE  /\ Cardinality(Group) \in 1..(N - ag.c.next)
         /\ \A i \in 1..Cardinality(Group) : Kind[ag.c.next + i] = "read"
<1> DEFINE n == ag.c.next
           K == Cardinality(Group)
<1>0. n \in Nat /\ N \in Nat /\ At = n + 1 /\ n < N /\ GroupLimit \in Nat /\ GroupLimit > 0
  BY IInvParts, BatchConstants DEF At
<1>1. Group \in SUBSET ((n + 1)..N)
  BY <1>0 DEF Group
<1>2. IsFiniteSet((n + 1)..N) /\ Cardinality((n + 1)..N) = N - n
  <2>1. n + 1 \in Int /\ N \in Int /\ (IF n + 1 > N THEN 0 ELSE N - (n + 1) + 1) = N - n
    BY <1>0
  <2> QED BY <2>1, FS_Interval
<1>3. IsFiniteSet(Group) /\ K <= N - n /\ K \in Nat
  <2> HIDE DEF n
  <2>1. IsFiniteSet(Group) /\ Cardinality(Group) <= Cardinality((n + 1)..N)
    BY <1>1, <1>2, FS_Subset
  <2>2. Cardinality(Group) \in Nat
    BY <2>1, FS_CardinalityType
  <2> QED BY <1>2, <2>1, <2>2
<1>4. n + 1 \in Group
  BY <1>0 DEF Group
<1>5. K # 0
  BY <1>3, <1>4, FS_EmptySet
<1>6. \A c \in Group, d \in (n + 1)..N : d <= c => d \in Group
  <2> SUFFICES ASSUME NEW c \in Group, NEW d \in (n + 1)..N, d <= c PROVE d \in Group
    OBVIOUS
  <2>1. c \in (n + 1)..N /\ c < n + 1 + GroupLimit /\ \A e \in (n + 1)..c : Kind[e] = "read"
    BY <1>0 DEF Group
  <2>2. d < n + 1 + GroupLimit /\ \A e \in (n + 1)..d : Kind[e] = "read"
    BY <1>0, <2>1
  <2> QED BY <1>0, <2>2 DEF Group
<1>7. ASSUME NEW i \in 1..K PROVE n + i \in Group
  <2> HIDE DEF n
  <2> SUFFICES ASSUME n + i \notin Group PROVE FALSE
    OBVIOUS
  <2>1. i \in Nat /\ i >= 1 /\ i <= K /\ n + i \in (n + 1)..N
    BY <1>0, <1>3
  <2>2. Group \in SUBSET ((n + 1)..(n + i - 1))
    <3> SUFFICES ASSUME NEW c \in Group PROVE c \in (n + 1)..(n + i - 1)
      OBVIOUS
    <3>1. c \in (n + 1)..N /\ ~(n + i <= c)
      BY <1>1, <1>6, <2>1
    <3> QED BY <1>0, <2>1, <3>1
  <2>3. IsFiniteSet((n + 1)..(n + i - 1)) /\ Cardinality((n + 1)..(n + i - 1)) = i - 1
    <3>1. n + 1 \in Int /\ n + i - 1 \in Int
      BY <1>0, <2>1
    <3>2. (IF n + 1 > n + i - 1 THEN 0 ELSE (n + i - 1) - (n + 1) + 1) = i - 1
      BY <1>0, <2>1
    <3> QED BY <3>1, <3>2, FS_Interval
  <2>4. Cardinality(Group) <= i - 1
    BY <2>2, <2>3, FS_Subset
  <2> QED BY <1>3, <2>1, <2>4
<1>8. ASSUME NEW i \in 1..K PROVE Kind[n + i] = "read"
  <2>1. n + i \in Group
    BY <1>7
  <2>2. n + i \in (n + 1)..(n + i)
    BY <1>0, <1>3
  <2> QED BY <1>0, <2>1, <2>2 DEF Group
<1> QED BY <1>0, <1>3, <1>5, <1>8

\* A call comes back that had no effect.
LEMMA GotStill ==
  ASSUME IInv, Busy, NEW outs, Answered(outs, ag.c), ag.c.next < N, Got(outs), Proved!IInv',
         Receipted', \A c \in Calls : claims[c] <= claims'[c],
         count' \in Counts, count'.batches = count.batches,
         UNCHANGED <<cont, disk, file, effects, ask>>
  PROVE  IInv'
<1>1. claims \in [Calls -> Nat] /\ claims' \in [Calls -> Nat] /\ effects \in [Calls -> Nat]
  BY IInvParts DEF Typed, Proved!IInv, Proved!TypeOK
<1>2. ASSUME NEW c \in Calls, effects[c] <= claims[c] PROVE effects[c] <= claims'[c]
  BY <1>1, <1>2
<1>3. Counted'
  BY <1>2, Sizes, IInvParts DEF Counted
<1>4. ag'.c = ag.c
  BY IInvParts DEF Got, Agents
<1>5. Past(cont)' /\ Past(ag.c)'
  BY <1>4, IInvParts DEF Past
<1>6. effects' \in [Calls -> Nat] /\ file' \in Nat
  BY <1>1, IInvParts DEF Typed
<1> QED BY <1>3, <1>5, <1>6, GotInv

LEMMA GotQuiet ==
  ASSUME IInv, Busy, NEW outs, Answered(outs, ag.c), ag.c.next < N, Got(outs), Proved!IInv',
         Receipted', \A c \in Calls : claims[c] <= claims'[c],
         UNCHANGED <<cont, disk, file, effects, count, ask>>
  PROVE  IInv'
<1>1. count' \in Counts /\ count'.batches = count.batches
  BY IInvParts DEF Typed
<1> QED BY <1>1, GotStill

\* What reading a group comes back with.
LEMMA Reading ==
  ASSUME IInv, Read
  PROVE  \E outs \in Seq({"ok", "effect_unknown"}) :
           /\ Len(outs) \in 1..(N - ag.c.next)
           /\ \A i \in 1..Len(outs) : Kind[ag.c.next + i] = "read"
           /\ Got(outs) /\ count' \in Counts
           /\ count'.batches = count.batches /\ count'.cut = count.cut /\ count'.parted = count.parted
<1> SUFFICES ASSUME NEW k, k = Cardinality(Group)
             PROVE  \E outs \in Seq({"ok", "effect_unknown"}) :
                      /\ Len(outs) \in 1..(N - ag.c.next)
                      /\ \A i \in 1..Len(outs) : Kind[ag.c.next + i] = "read"
                      /\ Got(outs) /\ count' \in Counts
                      /\ count'.batches = count.batches /\ count'.cut = count.cut
                      /\ count'.parted = count.parted
  OBVIOUS
<1>0. ag.c.next < N /\ Kind[At] = "read"
  BY IInvParts DEF Read, Midway
<1>1. k \in 1..(N - ag.c.next) /\ \A i \in 1..k : Kind[ag.c.next + i] = "read"
  BY <1>0, GroupReads
<1>2. k \in Nat
  BY <1>1, IInvParts
<1>3. PICK outs \in [1..k -> {"ok", "effect_unknown"}] :
        Got(outs) /\ (UNCHANGED count \/ count' = [count EXCEPT !.panics = @ + 1])
  BY DEF Read
<1>4. outs \in Seq({"ok", "effect_unknown"}) /\ Len(outs) = k
  BY <1>2
<1>5. /\ count' \in Counts /\ count'.batches = count.batches /\ count'.cut = count.cut
      /\ count'.parted = count.parted
  BY <1>3, IInvParts DEF Typed, Counts
<1> QED BY <1>1, <1>3, <1>4, <1>5

LEMMA ReadInv == ASSUME IInv, Read, UNCHANGED ask PROVE IInv'
<1>0. Busy /\ ag.c.next < N /\ Kind[At] = "read"
  BY IInvParts DEF Read, Busy, Midway
<1>1. PICK outs \in Seq({"ok", "effect_unknown"}) :
           /\ Len(outs) \in 1..(N - ag.c.next)
           /\ \A i \in 1..Len(outs) : Kind[ag.c.next + i] = "read"
           /\ Got(outs) /\ count' \in Counts /\ count'.batches = count.batches
  BY Reading
<1>2. {"ok", "effect_unknown"} \subseteq Outs \cup Unsettled
  BY DEF Outs, Unsettled
<1>3. outs \in Seq(Outs \cup Unsettled)
  BY <1>2
<1>4. Answered(outs, ag.c)
  BY <1>0, <1>1, <1>3 DEF Answered, At
<1>5. Proved!IInv' /\ Receipted' /\ \A c \in Calls : claims[c] <= claims'[c]
  BY IInvParts, StoreIdle DEF Read, store, Receipted, Proved!IInv, Proved!TypeOK
<1>6. UNCHANGED <<cont, disk, file, effects, ask>>
  BY DEF Read
<1> QED BY <1>0, <1>1, <1>4, <1>5, <1>6, GotStill

LEMMA PlainInv == ASSUME IInv, Plain, UNCHANGED ask PROVE IInv'
<1>0. Busy /\ ag.c.next < N /\ Kind[At] = "plain" /\ ag.c = cont /\ ag.c.executing /\ effects[At] = 0
  BY IInvParts DEF Plain, Busy, Midway, Shaped, Spent
<1>1. PICK out \in {"ok", "failed", "effect_unknown"} : Got(<<out>>)
  BY DEF Plain
<1>2. At \in Calls /\ At = ag.c.next + 1 /\ effects \in [Calls -> Nat]
  BY <1>0, IInvParts DEF At, Calls, Typed
<1>3. effects' = [effects EXCEPT ![At] = 1]
  BY <1>0, <1>2 DEF Plain
<1>4. effects' \in [Calls -> Nat] /\ \A k \in Calls \ {At} : effects'[k] = effects[k]
  BY <1>2, <1>3
<1>5. Past(cont)'
  <2> SUFFICES ASSUME NEW k \in Calls, Kind[k] = "plain", effects'[k] > 0
               PROVE  k <= cont.next \/ (k = cont.next + 1 /\ cont.executing)
    BY DEF Past, Plain
  <2>1. CASE k = At
    BY <1>0, <1>2, <2>1
  <2>2. CASE k # At
    BY <1>0, <1>4, <2>2, IInvParts DEF Past
  <2> QED BY <2>1, <2>2
<1>6. ag'.c = ag.c
  BY <1>1, IInvParts DEF Got, Agents
<1>7. Past(ag.c)'
  BY <1>0, <1>5, <1>6 DEF Past, Plain
<1>8. Counted'
  BY <1>0, <1>2, <1>3, <1>4, IInvParts DEF Counted, Risky, Plain, store
<1>9. Answered(<<out>>, ag.c)
  <2>1. <<out>> \in Seq(Outs \cup Unsettled)
    <3>1. out \in Outs \cup Unsettled
      BY DEF Outs, Unsettled
    <3> QED BY <3>1
  <2>2. Len(<<out>>) = 1 /\ 1 \in 1..(N - ag.c.next) /\ <<out>> # <<"pending">>
    BY <1>0, IInvParts
  <2> QED BY <2>1, <2>2 DEF Answered
<1>10. Proved!IInv' /\ Receipted' /\ file' \in Nat /\ count' \in Counts /\ count'.batches = count.batches
  BY IInvParts, StoreIdle DEF Plain, store, Receipted, Typed
<1> QED BY <1>0, <1>1, <1>4, <1>5, <1>7, <1>8, <1>9, <1>10, GotInv DEF Plain

\* A single answer of a risky call.
LEMMA OneAnswer ==
  ASSUME IInv, At \in Risky, ag.c.next < N, NEW out \in Said
  PROVE  out # "interrupted" => Answered(<<out>>, ag.c)
<1>1. <<out>> \in Seq(Outs \cup Unsettled) \cup {<<"pending">>}
  <2>1. out \in Outs \cup Unsettled \/ out = "pending"
    BY DEF Said, Unsettled
  <2> QED BY <2>1
<1>2. Len(<<out>>) = 1 /\ 1 \in 1..(N - ag.c.next) /\ Kind[ag.c.next + 1] # "plain"
  BY IInvParts DEF Risky, At
<1> QED BY <1>1, <1>2 DEF Answered

\* The process goes on with a risky call.
LEMMA OnwardInv ==
  ASSUME IInv, Busy, NEW pc \in {"authorize", "claim"}, At \in Risky, ag.c.next < N,
         ag' = [ag EXCEPT !.pc = pc], Proved!IInv', Receipted',
         \A c \in Calls : claims[c] <= claims'[c],
         UNCHANGED <<cont, disk, file, effects, count, ask>>
  PROVE  IInv'
<1>0. pc \in Pcs
  BY DEF Pcs
<1>1. Moved(ag', ag, pc, ag.c)
  BY <1>0, Moving, IInvParts
<1>2. Typed'
  BY <1>1, IInvParts DEF Typed, Moved
<1>3. Midway(ag)'
  BY <1>1, IInvParts DEF Midway, Moved, At
<1>4. Shaped'
  BY <1>1, <1>3, IInvParts DEF Shaped, Moved, Busy, Numbered
<1>5. claims \in [Calls -> Nat] /\ claims' \in [Calls -> Nat] /\ effects \in [Calls -> Nat]
  BY IInvParts DEF Typed, Proved!IInv, Proved!TypeOK
<1>6. ASSUME NEW c \in Calls, effects[c] <= claims[c] PROVE effects[c] <= claims'[c]
  BY <1>5, <1>6
<1>7. Counted'
  BY <1>6, Sizes, IInvParts DEF Counted
<1>8. Past(cont)' /\ Past(ag.c)'
  BY <1>1, IInvParts DEF Past, Moved
<1>9. Spent'
  BY <1>1, <1>7, <1>8 DEF Spent, Moved
<1> QED BY <1>2, <1>4, <1>9 DEF IInv

LEMMA ReceiptedStill ==
  ASSUME IInv, NEW c \in Calls, Operates(c),
         rec'[c].status = "completed" =>
           rec[c].status = "completed" \/ rec'[c].receipt \in {"ok", "refused"}
  PROVE  Receipted'
<1> SUFFICES ASSUME NEW o \in Calls, rec'[o].status = "completed"
             PROVE  rec'[o].receipt \in {"ok", "refused"}
  BY DEF Receipted
<1>1. CASE o # c
  BY <1>1, IInvParts DEF Operates, Proved!Untouched, Receipted
<1>2. CASE o = c
  BY <1>2, IInvParts DEF Operates, Proved!Kept, Proved!Outcomes, Receipted
<1> QED BY <1>1, <1>2

LEMMA RecordFields ==
  ASSUME IInv, NEW c \in Calls
  PROVE  /\ rec \in [Calls -> Proved!Record] /\ rec[c] \in Proved!Record
         /\ rec[c].status \in Proved!Statuses /\ rec[c].token \in Nat
         /\ rec[c].digest \in Nat \cup {None}
  BY IInvParts DEF Proved!IInv, Proved!TypeOK, Proved!Record, Digests

LEMMA DigestNat == ASSUME IInv, NEW c PROVE Digest(c) \in Nat
  BY IInvParts DEF Digest, Typed

\* What each operation does to the record of its identity.
LEMMA CreateStep ==
  ASSUME IInv, NEW c \in Calls, NEW d \in Nat, Store!Create(c, d)
  PROVE  /\ rec[c].status # "absent" => rec'[c] = rec[c]
         /\ rec[c].status = "absent" => rec'[c].status = "pending" /\ rec'[c].digest = d
         /\ claims' = claims
<1>1. rec \in [Calls -> Proved!Record]
  BY RecordFields
<1> SUFFICES ASSUME NEW r, r = [Store!NoRecord EXCEPT !.status = "pending", !.digest = d]
             PROVE  /\ rec[c].status # "absent" => rec'[c] = rec[c]
                    /\ rec[c].status = "absent" => rec'[c].status = "pending" /\ rec'[c].digest = d
                    /\ claims' = claims
  OBVIOUS
<1>2. r.status = "pending" /\ r.digest = d
  BY DEF Store!NoRecord
<1>3. rec' = IF rec[c].status # "absent" THEN rec ELSE [rec EXCEPT ![c] = r]
  BY DEF Store!Create
<1> QED BY <1>1, <1>2, <1>3 DEF Store!Create

LEMMA DecideStep ==
  ASSUME IInv, NEW c \in Calls, NEW allow \in BOOLEAN, Store!Decide(c, allow)
  PROVE  /\ rec'[c].status \in {"expired", "approved", "denied"}
         /\ rec'[c].digest = rec[c].digest /\ rec'[c].receipt = rec[c].receipt
         /\ rec[c].status \in {"pending", "approved", "denied"}
         /\ claims' = claims
<1>1. rec \in [Calls -> Proved!Record] /\ rec[c] \in Proved!Record
  BY RecordFields
<1>2. PICK s \in {"expired", "approved", "denied"} :
        rec' = [rec EXCEPT ![c].status = s] /\ rec[c].status \in {"pending", "approved", "denied"}
  BY DEF Store!Decide, Store!Wanted, Store!Decidable
<1>3. PICK r : r = [rec[c] EXCEPT !.status = s]
  OBVIOUS
<1>4. r.status = s /\ r.digest = rec[c].digest /\ r.receipt = rec[c].receipt
  BY <1>1, <1>3 DEF Proved!Record
<1>5. rec'[c] = r
  BY <1>1, <1>2, <1>3
<1> QED BY <1>2, <1>4, <1>5 DEF Store!Decide

LEMMA ClaimStep ==
  ASSUME IInv, NEW c \in Calls, NEW d \in Nat, Store!Claim(c, d)
  PROVE  /\ rec[c].status = "approved" /\ rec[c].digest = d
         /\ rec'[c].status \in {"expired", "claimed"} /\ rec'[c].digest = d
         /\ rec'[c].token \in Nat
<1>1. rec \in [Calls -> Proved!Record] /\ rec[c] \in Proved!Record /\ claims[c] \in Nat
  BY RecordFields, IInvParts DEF Proved!IInv, Proved!TypeOK
<1>2. rec[c].status = "approved" /\ rec[c].digest = d
  BY DEF Store!Claim, Store!Claimable
<1>3. CASE late[c]
  <2>1. rec' = [rec EXCEPT ![c].status = "expired"]
    BY <1>3 DEF Store!Claim
  <2>2. PICK r : r = [rec[c] EXCEPT !.status = "expired"]
    OBVIOUS
  <2>3. r.status = "expired" /\ r.digest = rec[c].digest /\ r.token \in Nat
    BY <1>1, <2>2 DEF Proved!Record
  <2> QED BY <1>1, <1>2, <2>1, <2>2, <2>3
<1>4. CASE ~late[c]
  <2>1. rec' = [rec EXCEPT ![c] = [rec[c] EXCEPT !.status = "claimed", !.token = claims[c] + 1]]
    BY <1>1, <1>4 DEF Store!Claim
  <2>2. PICK r : r = [rec[c] EXCEPT !.status = "claimed", !.token = claims[c] + 1]
    OBVIOUS
  <2>3. r.status = "claimed" /\ r.digest = rec[c].digest /\ r.token = claims[c] + 1
    BY <1>1, <2>2 DEF Proved!Record
  <2> QED BY <1>1, <1>2, <2>1, <2>2, <2>3
<1> QED BY <1>3, <1>4

LEMMA FinishStep ==
  ASSUME IInv, NEW c \in Calls, NEW token, NEW outcome, NEW receipt,
         Store!Finish(c, token, outcome, receipt)
  PROVE  /\ rec'[c].status = outcome /\ rec'[c].receipt = receipt
         /\ rec'[c].digest = rec[c].digest /\ claims' = claims
         /\ rec[c].status \in {"claimed", outcome}
<1>1. rec \in [Calls -> Proved!Record] /\ rec[c] \in Proved!Record
  BY RecordFields
<1>2. PICK r : r = [rec[c] EXCEPT !.status = outcome, !.receipt = receipt]
  OBVIOUS
<1>3. r.status = outcome /\ r.receipt = receipt /\ r.digest = rec[c].digest
  BY <1>1, <1>2 DEF Proved!Record
<1>4. rec' = [rec EXCEPT ![c] = r]
  BY <1>1, <1>2 DEF Store!Finish
<1> QED BY <1>1, <1>3, <1>4 DEF Store!Finish, Store!Finishable

LEMMA StoreQuiet ==
  ASSUME IInv, UNCHANGED store
  PROVE  Proved!IInv' /\ Receipted' /\ \A c \in Calls : claims[c] <= claims'[c]
  BY IInvParts, StoreIdle DEF store, Receipted, Proved!IInv, Proved!TypeOK

LEMMA CallAtHand ==
  ASSUME IInv, ag.pc \in {"authorize", "claim", "dispatch", "finish"} \/ (ag.pc = "run" /\ At \in Risky)
  PROVE  At \in Risky /\ At \in Calls /\ ag.c.next < N /\ Busy /\ Kind[At] \in {"write", "shell"}
  BY IInvParts, Sizes DEF Midway, Busy, At, Risky

LEMMA FreezeInv == ASSUME IInv, Freeze, UNCHANGED ask PROVE IInv'
<1>0. At \in Risky /\ At \in Calls /\ ag.c.next < N /\ Busy
  BY CallAtHand DEF Freeze
<1>1. UNCHANGED <<cont, disk, file, effects, count, ask>>
  BY DEF Freeze
<1>2. ASSUME NEW out \in Said \ {"interrupted"}, Got(<<out>>), UNCHANGED store PROVE IInv'
  <2>1. Answered(<<out>>, ag.c)
    BY <1>0, OneAnswer
  <2> QED BY <1>0, <1>1, <1>2, <2>1, StoreQuiet, GotQuiet
<1>3. Prior(rec[At]) # "none" => Prior(rec[At]) \in Said \ {"interrupted"}
  BY <1>0, IInvParts DEF Prior, Receipted, Said, Outs
<1>4. ASSUME Store!Create(At, Digest(At)), ag' = [ag EXCEPT !.pc = "authorize"] PROVE IInv'
  <2> SUFFICES ASSUME NEW c \in Calls, c = At, NEW d \in Nat, d = Digest(At) PROVE IInv'
    BY <1>0, DigestNat
  <2>1. Operates(c) /\ Store!Create(c, d)
    BY <1>4, IInvParts, StoreCreate
  <2>2. Receipted'
    BY <2>1, CreateStep, ReceiptedStill
  <2> QED BY <1>0, <1>1, <1>4, <2>1, <2>2, OnwardInv DEF Operates
<1>5. "denied" \in Said \ {"interrupted"}
  BY DEF Said, Outs
<1> QED BY <1>2, <1>3, <1>4, <1>5 DEF Freeze

LEMMA AuthorizeInv == ASSUME IInv, Authorize, UNCHANGED ask PROVE IInv'
<1>0. At \in Risky /\ At \in Calls /\ ag.c.next < N /\ Busy
  BY CallAtHand DEF Authorize
<1>1. UNCHANGED <<cont, disk, file, effects, count, ask>>
  BY DEF Authorize
<1>2. ASSUME NEW out \in {"pending", "denied"} PROVE Answered(<<out>>, ag.c)
  <2>1. out \in Said /\ out # "interrupted"
    BY DEF Said, Outs
  <2> QED BY <1>0, <2>1, OneAnswer
<1>3. CASE UNCHANGED store
  <2>1. \/ ag' = [ag EXCEPT !.pc = "claim"]
        \/ Got(<<"pending">>) \/ Got(<<"denied">>)
    BY DEF Authorize
  <2> QED BY <1>0, <1>1, <1>2, <1>3, <2>1, StoreQuiet, GotQuiet, OnwardInv
<1>4. CASE ~UNCHANGED store
  <2>1. PICK allow \in BOOLEAN : Store!Decide(At, allow)
    BY <1>4 DEF Authorize
  <2> SUFFICES ASSUME NEW c \in Calls, c = At PROVE IInv'
    BY <1>0
  <2>2. Operates(c) /\ Store!Decide(c, allow)
    BY <2>1, IInvParts, StoreDecide
  <2>3. Receipted'
    BY <2>2, DecideStep, ReceiptedStill
  <2>4. ag' = [ag EXCEPT !.pc = "claim"] \/ Got(<<"denied">>)
    BY <1>4 DEF Authorize
  <2> QED BY <1>0, <1>1, <1>2, <2>2, <2>3, <2>4, GotQuiet, OnwardInv DEF Operates
<1> QED BY <1>3, <1>4

LEMMA ClaimInv == ASSUME IInv, Claim, UNCHANGED ask PROVE IInv'
<1>0. At \in Risky /\ At \in Calls /\ ag.c.next < N /\ Busy
  BY CallAtHand DEF Claim
<1>1. UNCHANGED <<cont, disk, file, effects, count, ask>>
  BY DEF Claim
<1>2. ASSUME NEW out \in {"pending", "denied"} PROVE Answered(<<out>>, ag.c)
  <2>1. out \in Said /\ out # "interrupted"
    BY DEF Said, Outs
  <2> QED BY <1>0, <2>1, OneAnswer
<1>3. CASE UNCHANGED store /\ (Got(<<"pending">>) \/ Got(<<"denied">>))
  BY <1>0, <1>1, <1>2, <1>3, StoreQuiet, GotQuiet
<1>4. CASE /\ Store!Claim(At, Digest(At))
           /\ IF rec'[At].status = "claimed"
              THEN ag' = [ag EXCEPT !.pc = "dispatch", !.token = rec'[At].token]
              ELSE Got(<<"denied">>)
  <2> SUFFICES ASSUME NEW c \in Calls, c = At, NEW d \in Nat, d = Digest(At) PROVE IInv'
    BY <1>0, DigestNat
  <2>1. Operates(c) /\ Store!Claim(c, d)
    BY <1>4, IInvParts, StoreClaim
  <2>2. Receipted'
    BY <2>1, ClaimStep, ReceiptedStill
  <2>3. CASE rec'[At].status # "claimed"
    BY <1>0, <1>1, <1>2, <1>4, <2>1, <2>2, <2>3, GotQuiet DEF Operates
  <2>4. CASE rec'[At].status = "claimed"
    <3> SUFFICES ASSUME NEW t, t = rec'[At].token PROVE IInv'
      OBVIOUS
    <3>1. rec[c].status = "approved" /\ t \in Nat /\ rec'[c].status = "claimed"
      BY <2>1, <2>4, ClaimStep
    <3>2. ag' = [ag EXCEPT !.pc = "dispatch", !.token = t]
      BY <1>4, <2>4
    <3>3. ag' \in Agents /\ ag'.pc = "dispatch" /\ ag'.c = ag.c
      BY <3>1, <3>2, IInvParts DEF Agents, Pcs
    <3>4. claims[c] = 0
      BY <3>1, IInvParts DEF Proved!IInv, Proved!Coherent, Proved!Claimed, Proved!Outcomes
    <3>5. /\ claims \in [Calls -> Nat] /\ claims' \in [Calls -> Nat] /\ effects \in [Calls -> Nat]
          /\ \A o \in Calls : claims[o] <= claims'[o]
      BY <2>1, IInvParts DEF Typed, Operates, Proved!IInv, Proved!TypeOK
    <3>6. effects[c] = 0
      <4>1. effects[c] <= 0 /\ effects[c] \in Nat
        BY <1>0, <3>4, <3>5, IInvParts DEF Counted
      <4> QED BY <4>1
    <3>7. ASSUME NEW o \in Calls, effects[o] <= claims[o] PROVE effects[o] <= claims'[o]
      BY <3>5, <3>7
    <3>8. Counted'
      BY <1>1, <3>7, Sizes, IInvParts DEF Counted
    <3>9. Past(cont)' /\ Past(ag.c)'
      BY <1>0, <1>1, <3>3, IInvParts DEF Past
    <3>10. Spent'
      BY <1>1, <3>1, <3>3, <3>6, <3>8, <3>9 DEF Spent, At
    <3>11. Typed'
      BY <1>1, <3>3, IInvParts DEF Typed
    <3>12. Midway(ag)'
      BY <1>0, <3>3 DEF Midway, At
    <3>13. Shaped'
      BY <1>0, <1>1, <2>2, <3>3, <3>12, IInvParts DEF Shaped, Busy, Numbered
    <3> QED BY <2>1, <3>10, <3>11, <3>13 DEF IInv, Operates
  <2> QED BY <2>3, <2>4
<1> QED BY <1>3, <1>4 DEF Claim

LEMMA DispatchInv == ASSUME IInv, Dispatch, UNCHANGED ask PROVE IInv'
<1>0. At \in Risky /\ At \in Calls /\ ag.c.next < N /\ Busy /\ ag.pc = "dispatch"
  BY CallAtHand DEF Dispatch
<1>1. UNCHANGED <<store, cont, disk, count, ask>>
  BY DEF Dispatch
<1>2. effects[At] = 0 /\ rec[At].status = "claimed" /\ effects \in [Calls -> Nat] /\ file \in Nat
  BY <1>0, IInvParts DEF Spent, Typed
<1>3. claims[At] = 1
  BY <1>0, <1>2, IInvParts DEF Proved!IInv, Proved!Coherent, Proved!Claimed, Proved!Outcomes
<1>4. Proved!IInv' /\ Receipted' /\ \A c \in Calls : claims[c] <= claims'[c]
  BY <1>1, StoreQuiet
<1>5. CASE Got(<<"denied">>) /\ UNCHANGED <<file, effects>>
  <2>1. "denied" \in Said /\ "denied" # "interrupted"
    BY DEF Said, Outs
  <2> QED BY <1>0, <1>1, <1>4, <1>5, <2>1, OneAnswer, GotQuiet
<1>6. CASE \E out \in {"ok", "failed", "refused"} :
             /\ ag' = [ag EXCEPT !.pc = "finish", !.got = <<out>>]
             /\ effects' \in {effects, [effects EXCEPT ![At] = 1]} /\ file' \in Nat
  <2>1. PICK out \in {"ok", "failed", "refused"} : ag' = [ag EXCEPT !.pc = "finish", !.got = <<out>>]
    BY <1>6
  <2>2. <<out>> \in Seq(Said)
    <3>1. out \in Said
      BY DEF Said, Outs
    <3> QED BY <3>1
  <2>3. ag' \in Agents /\ ag'.pc = "finish" /\ ag'.c = ag.c /\ ag'.got = <<out>>
    BY <2>1, <2>2, IInvParts DEF Agents, Pcs
  <2>4. effects' \in [Calls -> Nat] /\ \A c \in Calls \ {At} : effects'[c] = effects[c]
    BY <1>2, <1>6
  <2>5. effects'[At] <= 1
    BY <1>0, <1>2, <1>6
  <2>6. Counted'
    BY <1>0, <1>1, <1>3, <2>4, <2>5, IInvParts DEF Counted, Risky, store
  <2>7. \A k \in Calls : Kind[k] = "plain" => k # At
    BY <1>0 DEF Risky
  <2>8. Past(cont)' /\ Past(ag.c)'
    BY <1>0, <1>1, <2>3, <2>4, <2>7, IInvParts DEF Past
  <2>9. Typed'
    BY <1>1, <1>6, <2>3, <2>4, IInvParts DEF Typed
  <2>10. Midway(ag)'
    BY <1>0, <2>3 DEF Midway, At
  <2>11. Shaped'
    BY <1>0, <1>1, <1>4, <2>3, <2>10, IInvParts DEF Shaped, Busy, Numbered
  <2>12. Spent'
    BY <2>3, <2>6, <2>8 DEF Spent
  <2> QED BY <1>4, <2>9, <2>11, <2>12 DEF IInv
<1>7. \/ Got(<<"denied">>) /\ UNCHANGED <<file, effects>>
      \/ \E out \in {"ok", "failed", "refused"} :
             /\ ag' = [ag EXCEPT !.pc = "finish", !.got = <<out>>]
             /\ effects' \in {effects, [effects EXCEPT ![At] = 1]} /\ file' \in Nat
  BY <1>0, <1>2 DEF Dispatch
<1> QED BY <1>5, <1>6, <1>7

LEMMA FinishInv == ASSUME IInv, Finish, UNCHANGED ask PROVE IInv'
<1>0. At \in Risky /\ At \in Calls /\ ag.c.next < N /\ Busy
  BY CallAtHand DEF Finish
<1>1. UNCHANGED <<cont, disk, file, effects, ask>>
  BY DEF Finish
<1>2. PICK out \in {"ok", "failed", "refused"} : ag.got = <<out>>
  BY IInvParts DEF Midway, Finish
<1>3. ag.got[1] = out /\ ag.token \in Nat
  BY <1>2, AgentFields, IInvParts
<1>4. Proved!IInv' /\ Receipted' /\ \A c \in Calls : claims[c] <= claims'[c]
  <2>1. CASE UNCHANGED store
    BY <2>1, StoreQuiet
  <2>2. CASE Store!Finish(At, ag.token, Outcome, ag.got[1])
    <3> SUFFICES ASSUME NEW c \in Calls, c = At, NEW t \in Nat, t = ag.token,
                        NEW o \in {"completed", "unknown"}, o = Outcome
                 PROVE  Proved!IInv' /\ Receipted' /\ \A k \in Calls : claims[k] <= claims'[k]
      BY <1>0, <1>3 DEF Outcome
    <3>1. Operates(c) /\ Store!Finish(c, t, o, out)
      BY <1>3, <2>2, IInvParts, StoreFinish
    <3>2. rec'[c].status = o /\ rec'[c].receipt = out
      BY <3>1, FinishStep
    <3>3. o = "completed" => out \in {"ok", "refused"}
      BY <1>3 DEF Outcome
    <3>4. Receipted'
      BY <3>1, <3>2, <3>3, ReceiptedStill
    <3> QED BY <3>1, <3>4 DEF Operates
  <2> QED BY <2>1, <2>2 DEF Finish
<1>5. PICK said \in {"ok", "refused", "effect_unknown", "receipt_unknown"} : Got(<<said>>)
  <2>1. Outcome # "unknown" => out \in {"ok", "refused"}
    BY <1>3 DEF Outcome
  <2> QED BY <1>2, <2>1 DEF Finish
<1>6. Answered(<<said>>, ag.c)
  <2>1. said \in Said /\ said # "interrupted"
    BY DEF Said, Outs
  <2> QED BY <1>0, <2>1, OneAnswer
<1>7. count' \in Counts /\ count'.batches = count.batches
  BY IInvParts, CountFields DEF Finish, Typed
<1> QED BY <1>0, <1>1, <1>4, <1>5, <1>6, <1>7, GotStill

LEMMA Single ==
  ASSUME NEW T, NEW s \in Seq(T), Len(s) = 1
  PROVE  s = <<s[1]>>
  OBVIOUS

\* A cancellation replaces results by "cancelled", and nothing else.
Replaced(outs) ==
  /\ outs \in Seq(Said) /\ Len(outs) = Len(ag.got)
  /\ ~ag.cancelled \/ ag.got = <<"pending">> => outs = ag.got
  /\ ag.cancelled /\ Len(ag.got) = 1 /\ ag.got # <<"pending">> => outs = <<"cancelled">>
  /\ outs = <<"pending">> => ag.got = <<"pending">>
  /\ outs = <<"pending">> \/ outs \in Seq(Outs \cup Unsettled)

LEMMA Replacing ==
  ASSUME IInv, ag.pc = "got", NEW outs \in Overwritten
  PROVE  Replaced(outs)
<1> DEFINE got == ag.got
           n == Len(got)
<1>1. /\ got \in Seq(Said) /\ n \in Nat /\ n > 0
      /\ got \in Seq(Outs \cup Unsettled) \cup {<<"pending">>}
  BY IInvParts DEF Midway
<1>2. PICK T \in IF ag.cancelled /\ got # <<"pending">>
                 THEN (SUBSET (1..n)) \ {{}} ELSE {{}} :
        outs = [i \in 1..n |-> IF i \in T THEN "cancelled" ELSE got[i]]
  BY DEF Overwritten
<1> HIDE DEF n
<1>3. "cancelled" \in Outs /\ Outs \subseteq Said
  BY DEF Outs, Said
<1>4. \A i \in 1..n : got[i] \in Said
  BY <1>1 DEF n
<1>5. outs \in [1..n -> Said]
  BY <1>2, <1>3, <1>4
<1>6. outs \in Seq(Said) /\ Len(outs) = n
  BY <1>1, <1>5
<1>7. \A i \in 1..n : outs[i] \in {got[i], "cancelled"}
  BY <1>2
<1>8. ASSUME T = {} PROVE outs = got
  <2>1. \A i \in 1..n : outs[i] = got[i]
    BY <1>2, <1>8
  <2> QED BY <1>1, <1>6, <2>1, SeqEqual DEF n
<1>9. ASSUME ag.cancelled, n = 1, got # <<"pending">> PROVE outs = <<"cancelled">>
  <2>1. T \in (SUBSET (1..n)) \ {{}}
    BY <1>2, <1>9
  <2>2. 1 \in T
    BY <1>9, <2>1
  <2>3. outs[1] = "cancelled"
    BY <1>2, <1>9, <2>2
  <2> QED BY <1>6, <1>9, <2>3, Single
<1>10. ASSUME outs = <<"pending">> PROVE got = <<"pending">>
  <2>1. n = 1 /\ outs[1] = "pending"
    BY <1>6, <1>10
  <2>2. got[1] = "pending"
    BY <1>7, <2>1
  <2> QED BY <1>1, <2>1, <2>2, Single DEF n
<1>11. outs = <<"pending">> \/ outs \in Seq(Outs \cup Unsettled)
  <2>1. CASE got \in Seq(Outs \cup Unsettled)
    <3>1. \A i \in 1..n : got[i] \in Outs \cup Unsettled
      BY <2>1 DEF n
    <3>2. outs \in [1..n -> Outs \cup Unsettled]
      BY <1>2, <1>3, <3>1
    <3> QED BY <1>1, <3>2
  <2>2. CASE got = <<"pending">>
    <3>1. T = {}
      BY <1>2, <2>2
    <3> QED BY <1>8, <2>2, <3>1
  <2> QED BY <1>1, <2>1, <2>2
<1>12. ~ag.cancelled \/ got = <<"pending">> => outs = got
  BY <1>2, <1>8
<1> QED BY <1>6, <1>9, <1>10, <1>11, <1>12 DEF Replaced, n

\* The results of a group behind the messages so far.
Extended(m, mem, next, outs) ==
  /\ m \in Results /\ Len(m) = Len(mem) + Len(outs)
  /\ \A i \in 1..Len(mem) : m[i] = mem[i]
  /\ \A i \in 1..Len(outs) : m[Len(mem) + i] = Entry(next + i, outs[i])
  /\ \E t \in Results : /\ m = mem \o t /\ Len(t) = Len(outs)
                        /\ \A i \in 1..Len(t) : t[i] = Entry(next + i, outs[i])

LEMMA Joined ==
  ASSUME NEW s \in Results, NEW t \in Results
  PROVE  /\ \A i \in 1..Len(s) : (s \o t)[i] = s[i]
         /\ \A i \in 1..Len(t) : (s \o t)[Len(s) + i] = t[i]
<1>1. \A S : s \in Seq(S) /\ t \in Seq(S) =>
        /\ \A i \in 1..Len(s) : (s \o t)[i] = s[i]
        /\ \A i \in 1..Len(t) : (s \o t)[Len(s) + i] = t[i]
  OBVIOUS
<1> QED BY <1>1 DEF Results

LEMMA Extending ==
  ASSUME NEW mem \in Results, NEW next \in Nat, NEW outs \in Seq(Outs),
         Len(outs) <= N - next
  PROVE  Extended(mem \o [i \in 1..Len(outs) |-> Entry(next + i, outs[i])], mem, next, outs)
<1> DEFINE t == [i \in 1..Len(outs) |-> Entry(next + i, outs[i])]
<1>1. ASSUME NEW i \in 1..Len(outs) PROVE Entry(next + i, outs[i]) \in [call : Calls, out : Outs]
  <2>1. next + i \in Calls
    BY Sizes DEF Calls
  <2>2. outs[i] \in Outs
    OBVIOUS
  <2> QED BY <2>1, <2>2 DEF Entry
<1>2. t \in Results /\ Len(t) = Len(outs)
  BY <1>1 DEF Results
<1>3. \A i \in 1..Len(outs) : t[i] = Entry(next + i, outs[i])
  OBVIOUS
<1> HIDE DEF t
<1>4. mem \o t \in Results /\ Len(mem \o t) = Len(mem) + Len(t)
  <2>1. \A S : mem \in Seq(S) /\ t \in Seq(S)
               => mem \o t \in Seq(S) /\ Len(mem \o t) = Len(mem) + Len(t)
    OBVIOUS
  <2> QED BY <1>2, <2>1 DEF Results
<1>5. /\ \A i \in 1..Len(mem) : (mem \o t)[i] = mem[i]
      /\ \A i \in 1..Len(t) : (mem \o t)[Len(mem) + i] = t[i]
  BY <1>2, Joined
<1>6. Extended(mem \o t, mem, next, outs)
  BY <1>2, <1>3, <1>4, <1>5 DEF Extended
<1> QED BY <1>6 DEF t

\* A process that is not running: the invariant of a step that leaves it so.
LEMMA IdleInv ==
  ASSUME IInv, ag' \in Agents, ag'.pc \in {"down", "idle"}, ag'.c \in {Inactive, ag.c},
         count' \in Counts, count'.batches = count.batches, disk' \in Results,
         UNCHANGED <<store, cont, file, effects, ask>>
  PROVE  IInv'
<1>1. Proved!IInv' /\ Receipted'
  BY StoreQuiet
<1>2. Typed'
  BY IInvParts DEF Typed
<1>3. Numbered(cont)' /\ Numbered(ag.c)' /\ Midway(ag)'
  <2>1. Numbered(cont)'
    BY IInvParts DEF Shaped, Numbered
  <2>2. Numbered(ag.c)'
    BY InactiveFields, EmptySeq, IInvParts DEF Shaped, Numbered
  <2>3. Midway(ag)'
    BY DEF Midway
  <2> QED BY <2>1, <2>2, <2>3
<1>4. Shaped'
  BY <1>1, <1>3, IInvParts DEF Shaped, Busy
<1>5. Spent'
  BY IInvParts DEF Spent, Counted, Busy, Past, store
<1> QED BY <1>1, <1>2, <1>4, <1>5 DEF IInv

\* What the process holds after the results it heeds.
Heeds(outs, k, h) ==
  /\ h \in Seq(Outs) /\ Len(h) = k /\ \A i \in 1..k : h[i] = outs[i]
  /\ Extended(Heeded(outs, k), ag.mem, ag.c.next, h)
  /\ k = Len(outs) => h = outs

LEMMA Heeding ==
  ASSUME IInv, ag.pc = "got", NEW outs, Replaced(outs), outs # <<"pending">>, NEW k \in Ahead(outs)
  PROVE  k \in 0..Len(outs) /\ \E h : Heeds(outs, k, h)
<1> SUFFICES ASSUME NEW next \in Nat, next = ag.c.next, NEW mem \in Results, mem = ag.mem
             PROVE  k \in 0..Len(outs) /\ \E h : Heeds(outs, k, h)
  BY IInvParts
<1>1. outs \in Seq(Outs \cup Unsettled) /\ Len(outs) \in 1..(N - next)
  BY IInvParts DEF Replaced, Midway
<1>2. k \in 0..Len(outs) /\ k \in Nat /\ k <= N - next
  BY <1>1, Sizes DEF Ahead
<1>3. ASSUME NEW i \in 1..k PROVE outs[i] \in Outs
  <2>1. outs[i] \notin Unsettled /\ i \in 1..Len(outs)
    BY <1>2 DEF Ahead
  <2> QED BY <1>1, <2>1
<1>4. PICK h : h = [i \in 1..k |-> outs[i]]
  OBVIOUS
<1>5. h \in Seq(Outs) /\ Len(h) = k /\ \A i \in 1..k : h[i] = outs[i]
  BY <1>2, <1>3, <1>4
<1>6. Extended(mem \o [i \in 1..Len(h) |-> Entry(next + i, h[i])], mem, next, h)
  BY <1>2, <1>5, Extending
<1>7. [i \in 1..Len(h) |-> Entry(next + i, h[i])] = [i \in 1..k |-> Entry(next + i, outs[i])]
  BY <1>5
<1>8. Extended(Heeded(outs, k), mem, next, h)
  BY <1>6, <1>7 DEF Heeded
<1>9. k = Len(outs) => h = outs
  BY <1>1, <1>5, SeqEqual
<1> QED BY <1>2, <1>5, <1>8, <1>9 DEF Heeds

\* Looking at the results: a pause is saved, an unsettled one ends the turn, others
\* are to be journalled.
Paused == \E c : /\ c = [ag.c EXCEPT !.pending = At, !.executing = FALSE]
                 /\ ag.got = <<"pending">> /\ Save(c, "paused")

HeldUp == \E outs, k, h :
  /\ Replaced(outs) /\ outs # <<"pending">>
  /\ Heeds(outs, k, h) /\ k \in 0..Len(outs) /\ k < Len(outs)
  /\ ag' = [Stopped EXCEPT !.mem = Heeded(outs, k)]
  /\ count' = [count EXCEPT !.parted = @ \/ k > 0]
  /\ UNCHANGED cont

Taken == \E outs, m :
  /\ Replaced(outs) /\ outs \in Seq(Outs) /\ Extended(m, ag.mem, ag.c.next, outs)
  /\ ag' = [ag EXCEPT !.pc = "journal", !.got = outs, !.mem = m]
  /\ UNCHANGED <<cont, count>>

LEMMA Accepting ==
  ASSUME IInv, Accept
  PROVE  Paused \/ HeldUp \/ Taken
<1>0. ag.pc = "got"
  BY DEF Accept
<1>1. PICK outs \in Overwritten : \E k \in Ahead(outs) :
       \/ /\ outs = <<"pending">>
          /\ Save([ag.c EXCEPT !.pending = At, !.executing = FALSE], "paused")
       \/ /\ outs # <<"pending">> /\ k < Len(outs)
          /\ ag' = [Stopped EXCEPT !.mem = Heeded(outs, k)]
          /\ count' = [count EXCEPT !.parted = @ \/ k > 0]
          /\ UNCHANGED cont
       \/ /\ outs # <<"pending">> /\ k = Len(outs)
          /\ ag' = [ag EXCEPT !.pc = "journal", !.got = outs, !.mem = Heeded(outs, k)]
          /\ UNCHANGED <<cont, count>>
  BY DEF Accept
<1>2. Replaced(outs)
  BY <1>0, Replacing
<1>6. PICK k \in Ahead(outs) :
       \/ /\ outs = <<"pending">>
          /\ Save([ag.c EXCEPT !.pending = At, !.executing = FALSE], "paused")
       \/ /\ outs # <<"pending">> /\ k < Len(outs)
          /\ ag' = [Stopped EXCEPT !.mem = Heeded(outs, k)]
          /\ count' = [count EXCEPT !.parted = @ \/ k > 0]
          /\ UNCHANGED cont
       \/ /\ outs # <<"pending">> /\ k = Len(outs)
          /\ ag' = [ag EXCEPT !.pc = "journal", !.got = outs, !.mem = Heeded(outs, k)]
          /\ UNCHANGED <<cont, count>>
  BY <1>1
<1>3. CASE outs = <<"pending">>
  BY <1>6, <1>2, <1>3 DEF Paused, Replaced
<1>4. CASE outs # <<"pending">> /\ k < Len(outs)
  <2>1. PICK h : Heeds(outs, k, h) /\ k \in 0..Len(outs)
    BY <1>0, <1>2, <1>4, Heeding
  <2> QED BY <1>6, <1>2, <1>4, <2>1 DEF HeldUp
<1>5. CASE outs # <<"pending">> /\ ~(k < Len(outs))
  <2>1. PICK h : Heeds(outs, k, h) /\ k \in 0..Len(outs)
    BY <1>0, <1>2, <1>5, Heeding
  <2>2. Len(outs) \in Nat
    BY <1>2 DEF Replaced
  <2>3. k = Len(outs)
    BY <1>5, <2>1, <2>2
  <2>4. outs \in Seq(Outs) /\ Extended(Heeded(outs, k), ag.mem, ag.c.next, outs)
    BY <2>1, <2>3 DEF Heeds
  <2> QED BY <1>6, <1>2, <1>5, <2>3, <2>4 DEF Taken
<1> QED BY <1>3, <1>4, <1>5

\* b is a after its turn, with the messages m.
LEMMA RestingWith ==
  ASSUME ag \in Agents, NEW m \in Results
  PROVE  LET b == [Stopped EXCEPT !.mem = m] IN
         /\ b \in Agents /\ b.pc = "idle" /\ b.c = Inactive /\ b.got = <<>>
         /\ b.mem = m /\ b.stale = ag.stale
<1>1. Rested(Stopped, ag)
  BY Resting
<1> QED BY <1>1 DEF Rested, Agents

LEMMA HeldUpFields ==
  ASSUME IInv, NEW outs, NEW k, NEW h, Heeds(outs, k, h), k \in 0..Len(outs), Len(outs) \in Nat,
         ag' = [Stopped EXCEPT !.mem = Heeded(outs, k)],
         count' = [count EXCEPT !.parted = @ \/ k > 0]
  PROVE  /\ ag' \in Agents /\ ag'.pc = "idle" /\ ag'.c = Inactive /\ ag'.mem = Heeded(outs, k)
         /\ ag'.stale = ag.stale
         /\ count' \in Counts /\ count'.batches = count.batches /\ count'.cut = count.cut
         /\ ~count'.parted => ~count.parted /\ ~(k > 0)
<1>1. Heeded(outs, k) \in Results
  BY DEF Heeds, Extended
<1>2. PICK p \in BOOLEAN : p = (count.parted \/ k > 0)
  OBVIOUS
<1>3. count' = [count EXCEPT !.parted = p] /\ count \in Counts
  BY <1>2, IInvParts DEF Typed
<1>4. count' \in Counts /\ count'.batches = count.batches /\ count'.cut = count.cut /\ count'.parted = p
  BY <1>3 DEF Counts
<1> QED BY <1>1, <1>2, <1>4, RestingWith, IInvParts

LEMMA AcceptInv == ASSUME IInv, Accept, UNCHANGED ask PROVE IInv'
<1>0. /\ Busy /\ ag.pc = "got" /\ ag.c.next < N /\ Len(ag.got) \in 1..(N - ag.c.next)
      /\ UNCHANGED <<store, disk, file, effects, ask>>
  BY IInvParts DEF Accept, Busy, Midway
<1>3. CASE Paused
  <2>0. PICK c : /\ c = [ag.c EXCEPT !.pending = At, !.executing = FALSE]
                 /\ ag.got = <<"pending">> /\ Save(c, "paused")
    BY <1>3 DEF Paused
  <2>1. At \in 0..N /\ At = ag.c.next + 1
    BY <1>0, IInvParts DEF At
  <2>2. /\ c \in Frozen /\ c.next = ag.c.next /\ ~c.executing /\ c.buffered = ag.c.buffered
        /\ c.active = ag.c.active
    BY <2>0, <2>1, IInvParts DEF Frozen
  <2>3. Kind[At] # "plain"
    BY <1>0, <2>0, <2>1, IInvParts DEF Midway
  <2>4. Past(c)
    BY <1>0, <2>1, <2>2, <2>3, IInvParts DEF Past
  <2>5. Numbered(c) /\ c.active
    BY <1>0, <2>2, IInvParts DEF Shaped, Numbered
  <2> QED BY <1>0, <2>0, <2>2, <2>4, <2>5, SaveInv
<1>4. CASE HeldUp
  <2>1. PICK outs, k, h :
          /\ Replaced(outs) /\ Heeds(outs, k, h) /\ k \in 0..Len(outs)
          /\ ag' = [Stopped EXCEPT !.mem = Heeded(outs, k)]
          /\ count' = [count EXCEPT !.parted = @ \/ k > 0]
          /\ UNCHANGED cont
    BY <1>4 DEF HeldUp
  <2>2. Len(outs) \in Nat
    BY <2>1 DEF Replaced
  <2>3. /\ ag' \in Agents /\ ag'.pc = "idle" /\ ag'.c = Inactive
        /\ count' \in Counts /\ count'.batches = count.batches
    BY <2>1, <2>2, HeldUpFields
  <2> QED BY <1>0, <2>1, <2>3, IdleInv, IInvParts
<1>5. CASE Taken
  <2>1. PICK outs, m :
          /\ Replaced(outs) /\ outs \in Seq(Outs) /\ Extended(m, ag.mem, ag.c.next, outs)
          /\ ag' = [ag EXCEPT !.pc = "journal", !.got = outs, !.mem = m]
          /\ UNCHANGED <<cont, count>>
    BY <1>5 DEF Taken
  <2>2. outs \in Seq(Outs) /\ outs \in Seq(Said) /\ Len(outs) = Len(ag.got)
    BY <2>1 DEF Replaced
  <2>4. m \in Results
    BY <2>1 DEF Extended
  <2>5. ag' \in Agents /\ ag'.pc = "journal" /\ ag'.got = outs /\ ag'.mem = m /\ ag'.c = ag.c
    BY <2>1, <2>2, <2>4, IInvParts DEF Agents, Pcs
  <2>6. Midway(ag)'
    <3>0. Len(ag.mem) \in Nat
      BY IInvParts, ResultFields
    <3>1. Len(outs) \in Nat /\ Len(m) = Len(ag.mem) + Len(outs)
      <4>1. Len(m) = Len(ag.mem) + Len(outs)
        BY <2>1 DEF Extended
      <4>2. outs \in Seq(Outs) => Len(outs) \in Nat
        BY LenProperties
      <4> QED BY <2>2, <4>1, <4>2
    <3>2. Len(outs) <= Len(m) /\ Len(m) - Len(outs) = Len(ag.mem)
      BY <3>0, <3>1
    <3>3. \A i \in 1..Len(outs) : m[Len(m) - Len(outs) + i] = Entry(ag.c.next + i, outs[i])
      BY <2>1, <3>2 DEF Extended
    <3> QED BY <1>0, <2>2, <2>5, <3>2, <3>3 DEF Midway
  <2>7. Proved!IInv' /\ Receipted' /\ Typed'
    BY <1>0, <2>1, <2>5, IInvParts, StoreQuiet DEF Typed
  <2>8. Shaped'
    BY <1>0, <2>1, <2>5, <2>6, <2>7, IInvParts DEF Shaped, Busy, Numbered
  <2>9. Spent'
    BY <1>0, <2>1, <2>5, IInvParts DEF Spent, Counted, Busy, Past, store
  <2> QED BY <2>7, <2>8, <2>9 DEF IInv
<1> QED BY <1>3, <1>4, <1>5, Accepting

LEMMA PauseInv == ASSUME IInv, Pause, UNCHANGED ask PROVE IInv'
<1>1. Busy
  BY DEF Pause, Busy
<1> QED BY <1>1, QuitInv DEF Pause

\* The last n messages.
Suffix(r, mem, n) == r \in Results /\ Len(r) = n /\ \A i \in 1..n : r[i] = mem[Len(mem) - n + i]

LEMMA LastMessages ==
  ASSUME NEW mem \in Results, NEW n \in Nat, n <= Len(mem)
  PROVE  Suffix(SubSeq(mem, Len(mem) - n + 1, Len(mem)), mem, n)
<1> DEFINE E == [call : Calls, out : Outs]
           f == Len(mem) - n + 1
           l == Len(mem)
           r == SubSeq(mem, f, l)
<1>1. mem \in Seq(E) /\ l \in Nat /\ f \in Int /\ l \in Int /\ f >= 1 /\ l - f + 1 = n
  BY DEF Results
<1>2. \A i \in f..l : mem[i] \in E
  <2>1. \A i \in f..l : i \in 1..Len(mem)
    BY <1>1
  <2> QED BY <2>1, ResultFields
<1> HIDE DEF f, E
<1>3. /\ r \in Seq(E) /\ Len(r) = IF f <= l THEN l - f + 1 ELSE 0
      /\ \A i \in 1..(l - f + 1) : r[i] = mem[f + i - 1]
  BY <1>1, <1>2, SubSeqProperties
<1>4. Len(r) = n
  BY <1>1, <1>3
<1>5. ASSUME NEW i \in 1..n PROVE r[i] = mem[Len(mem) - n + i]
  <2>1. f + i - 1 = Len(mem) - n + i
    BY <1>1 DEF f
  <2> QED BY <1>1, <1>3, <2>1
<1> QED BY <1>3, <1>4, <1>5 DEF Suffix, f, E, Results

LEMMA JournalInv == ASSUME IInv, Journal, UNCHANGED ask PROVE IInv'
<1>0. Busy /\ ag.pc = "journal" /\ UNCHANGED <<store, disk, file, effects, ask>>
  BY DEF Journal, Busy
<1> SUFFICES ASSUME NEW r, r = Returned, NEW c, c = [ag.c EXCEPT !.buffered = r] PROVE IInv'
  OBVIOUS
<1>1. Suffix(r, ag.mem, Len(ag.got))
  <2> SUFFICES ASSUME NEW mem \in Results, mem = ag.mem, NEW n \in Nat, n = Len(ag.got)
               PROVE  Suffix(r, mem, n)
    BY IInvParts
  <2>1. n <= Len(mem)
    BY <1>0, IInvParts DEF Midway
  <2> QED BY <2>1, LastMessages DEF Returned
<1>2. r \in Results /\ \A i \in 1..Len(r) : r[i] = Entry(ag.c.next + i, ag.got[i])
  BY <1>0, <1>1, IInvParts DEF Suffix, Midway
<1>3. /\ c \in Frozen /\ c.next = ag.c.next /\ c.executing = ag.c.executing /\ c.buffered = r
      /\ c.active = ag.c.active
  BY <1>2, IInvParts DEF Frozen
<1>4. Numbered(c)
  <2>1. \A i \in 1..Len(r) : r[i].call = ag.c.next + i
    BY <1>2, EntryFields
  <2> QED BY <1>3, <2>1 DEF Numbered
<1>5. Past(c) /\ c.active
  BY <1>0, <1>3, IInvParts DEF Past
<1>6. Save(c, "ledger")
  BY DEF Journal
<1> QED BY <1>0, <1>3, <1>4, <1>5, <1>6, SaveInv

LEMMA LedgerInv == ASSUME IInv, Ledger, UNCHANGED ask PROVE IInv'
  BY SessionInv DEF Ledger

LEMMA AdvanceInv == ASSUME IInv, Advance, UNCHANGED ask PROVE IInv'
<1>0. Busy /\ ag.pc = "advance" /\ UNCHANGED <<store, disk, file, effects, ask>>
  BY DEF Advance, Busy
<1> SUFFICES ASSUME NEW k, k = ag.c.next + Len(ag.got), NEW c,
                    c = [ag.c EXCEPT !.next = k, !.executing = FALSE, !.buffered = <<>>]
             PROVE  IInv'
  OBVIOUS
<1>1. k \in 0..N /\ k > ag.c.next
  BY <1>0, IInvParts DEF Midway
<1>2. <<>> \in Results
  BY DEF Results
<1>3. /\ c \in Frozen /\ c.next = k /\ c.buffered = <<>> /\ c.active = ag.c.active
  BY <1>1, <1>2, IInvParts DEF Frozen
<1>4. Numbered(c)
  BY <1>3, EmptySeq DEF Numbered
<1>5. Past(c) /\ c.active
  <2> SUFFICES ASSUME NEW j \in Calls, Kind[j] = "plain", effects[j] > 0 PROVE j <= k
    BY <1>0, <1>3, IInvParts DEF Past
  <2>1. j <= ag.c.next \/ j = ag.c.next + 1
    BY <1>0, IInvParts DEF Past
  <2> QED BY <1>1, <2>1, IInvParts, Sizes
<1>6. Save(c, "loop")
  BY DEF Advance
<1> QED BY <1>0, <1>3, <1>4, <1>5, <1>6, SaveInv

\* recoverBufferedResults: the session with the journalled results.
LEMMA Recovering ==
  ASSUME IInv, Recoverable
  PROVE  /\ Recovered \in Results /\ Recovered = cont.digest \o cont.buffered
         /\ Recovered = disk \/ Recovered = disk \o cont.buffered
<1>1. cont.digest \in Results /\ cont.buffered \in Results /\ disk \in Results
  BY IInvParts, FrozenFields
<1>2. cont.digest \o cont.buffered \in Results
  BY <1>1 DEF Results
<1> QED BY <1>1, <1>2 DEF Recovered, Recoverable

Resumes(b, a, id, allow) ==
  /\ b \in Agents /\ b.c = cont /\ b.stale = a.stale /\ b.cancelled = a.cancelled
  /\ b.got = a.got /\ b.token = a.token
  /\ b.pc = IF cont.buffered = <<>> THEN "decide" ELSE "restore"
  /\ b.mem = IF cont.buffered = <<>> THEN a.mem ELSE Recovered
  /\ b.want.id = id

LEMMA Resuming ==
  ASSUME IInv, NEW id \in Risky, NEW allow \in BOOLEAN, Resume(id, allow)
  PROVE  Resumes(ag', ag, id, allow)
<1> SUFFICES ASSUME NEW w, w = [id |-> id, allow |-> allow],
                    NEW m, m = IF cont.buffered = <<>> THEN ag.mem ELSE Recovered,
                    NEW pc, pc = IF cont.buffered = <<>> THEN "decide" ELSE "restore"
             PROVE  Resumes(ag', ag, id, allow)
  OBVIOUS
<1>1. w \in [id : 0..N, allow : BOOLEAN]
  BY Sizes DEF Risky, Calls
<1>2. m \in Results /\ pc \in Pcs /\ cont \in Frozen
  BY Recovering, IInvParts DEF Resume, Pcs
<1>3. PICK a : a = [ag EXCEPT !.c = cont, !.want = w]
  OBVIOUS
<1>4. /\ a \in Agents /\ a.c = cont /\ a.stale = ag.stale /\ a.cancelled = ag.cancelled
      /\ a.got = ag.got /\ a.token = ag.token /\ a.want = w
  BY <1>1, <1>2, <1>3, IInvParts DEF Agents
<1>5. ag' = [a EXCEPT !.mem = m, !.pc = pc]
  BY <1>3, IInvParts DEF Resume, Agents
<1>6. /\ ag' \in Agents /\ ag'.c = cont /\ ag'.stale = ag.stale /\ ag'.cancelled = ag.cancelled
      /\ ag'.got = ag.got /\ ag'.token = ag.token /\ ag'.mem = m /\ ag'.pc = pc
      /\ ag'.want = w
  BY <1>2, <1>4, <1>5 DEF Agents
<1> QED BY <1>6 DEF Resumes

LEMMA ResumeInv ==
  ASSUME IInv, NEW id \in Risky, NEW allow \in BOOLEAN, Resume(id, allow), UNCHANGED ask
  PROVE  IInv'
<1>0. UNCHANGED <<store, cont, disk, file, effects, count, ask>> /\ cont.active
  BY DEF Resume
<1>1. /\ ag' \in Agents /\ ag'.c = cont /\ ag'.pc \in {"decide", "restore"}
      /\ ag'.pc = "restore" => cont.buffered # <<>>
      /\ ag'.want.id \in Risky
  BY Resuming DEF Resumes
<1>2. Proved!IInv' /\ Receipted' /\ Typed'
  BY <1>0, <1>1, IInvParts, StoreQuiet DEF Typed
<1>3. Midway(ag)'
  BY <1>0, <1>1 DEF Midway
<1>4. Shaped'
  BY <1>0, <1>1, <1>2, <1>3, IInvParts DEF Shaped, Busy, Numbered
<1>5. Spent'
  BY <1>0, <1>1, IInvParts DEF Spent, Counted, Busy, Past, store
<1> QED BY <1>2, <1>4, <1>5 DEF IInv

LEMMA RestoreInv == ASSUME IInv, Restore, UNCHANGED ask PROVE IInv'
  BY SessionInv DEF Restore

LEMMA ReenterInv == ASSUME IInv, Reenter, UNCHANGED ask PROVE IInv'
  BY SessionInv DEF Reenter

\* Journalled results end within the batch.
LEMMA BufferedFits ==
  ASSUME NEW c \in Frozen, Numbered(c)
  PROVE  c.next + Len(c.buffered) \in 0..N
<1>1. c.next \in Nat /\ c.next <= N /\ c.buffered \in Results /\ N \in Nat
  BY FrozenFields, Sizes
<1>2. Len(c.buffered) \in Nat
  BY <1>1, ResultFields
<1>3. CASE Len(c.buffered) = 0
  BY <1>1, <1>3
<1>4. CASE Len(c.buffered) > 0
  <2>1. Len(c.buffered) \in 1..Len(c.buffered)
    BY <1>2, <1>4
  <2>2. c.buffered[Len(c.buffered)].call = c.next + Len(c.buffered)
    BY <2>1 DEF Numbered
  <2>3. c.buffered[Len(c.buffered)].call \in Calls
    BY <1>1, <2>1, ResultFields
  <2> QED BY <1>1, <1>2, <2>2, <2>3 DEF Calls
<1> QED BY <1>2, <1>3, <1>4

LEMMA RestoredInv == ASSUME IInv, Restored, UNCHANGED ask PROVE IInv'
<1>0. Busy /\ ag.pc = "restored" /\ UNCHANGED <<store, disk, file, effects, ask>>
  BY DEF Restored, Busy
<1>1. CASE ag.cancelled
  BY <1>0, <1>1, QuitInv DEF Restored, SaveUnlessCancelled
<1>2. CASE ~ag.cancelled
  <2> SUFFICES ASSUME NEW k, k = ag.c.next + Len(ag.c.buffered), NEW c,
                      c = [ag.c EXCEPT !.next = k, !.executing = FALSE, !.buffered = <<>>]
               PROVE  IInv'
    OBVIOUS
  <2>1. ag.c.buffered # <<>> /\ ag.c.buffered \in Results /\ Numbered(ag.c)
    BY <1>0, IInvParts, FrozenFields DEF Midway, Shaped
  <2>2. Len(ag.c.buffered) \in Nat /\ Len(ag.c.buffered) # 0
    BY <2>1, EmptySeq, ResultFields DEF Results
  <2>3. k \in 0..N /\ k > ag.c.next
    BY <2>1, <2>2, BufferedFits, IInvParts
  <2>4. <<>> \in Results
    BY DEF Results
  <2>5. /\ c \in Frozen /\ c.next = k /\ c.buffered = <<>> /\ c.active = ag.c.active
    BY <2>3, <2>4, IInvParts DEF Frozen
  <2>6. Numbered(c)
    BY <2>5, EmptySeq DEF Numbered
  <2>7. Past(c) /\ c.active
    <3> SUFFICES ASSUME NEW j \in Calls, Kind[j] = "plain", effects[j] > 0 PROVE j <= k
      BY <1>0, <2>5, IInvParts DEF Past
    <3>1. j <= ag.c.next \/ j = ag.c.next + 1
      BY <1>0, IInvParts DEF Past
    <3> QED BY <2>3, <3>1, IInvParts, Sizes
  <2>8. Save(c, "decide")
    BY <1>2 DEF Restored, SaveUnlessCancelled
  <2> QED BY <1>0, <2>5, <2>6, <2>7, <2>8, SaveInv
<1> QED BY <1>1, <1>2

LEMMA ResaveInv == ASSUME IInv, Resave, UNCHANGED ask PROVE IInv'
<1>0. Busy /\ UNCHANGED <<store, disk, file, effects, ask>>
  BY DEF Resave, Busy
<1>1. CASE ag.cancelled
  BY <1>0, <1>1, QuitInv DEF Resave, SaveUnlessCancelled
<1>2. CASE ~ag.cancelled
  <2> SUFFICES ASSUME NEW c, c = ag.c PROVE IInv'
    OBVIOUS
  <2>1. Save(c, "reenter")
    BY <1>2 DEF Resave, SaveUnlessCancelled
  <2> QED BY <1>0, <2>1, IInvParts, SaveInv DEF Shaped
<1> QED BY <1>1, <1>2

LEMMA DecideInv == ASSUME IInv, Decide, UNCHANGED ask PROVE IInv'
<1>0. Busy /\ ag.pc = "decide" /\ UNCHANGED <<cont, disk, file, effects, count, ask>>
  BY DEF Decide, Busy
<1>1. ag.want.id \in Risky /\ ag.want.allow \in BOOLEAN
  BY <1>0, IInvParts, AgentFields DEF Midway
<1> SUFFICES ASSUME NEW id \in Calls, id = ag.want.id, NEW allow \in BOOLEAN, allow = ag.want.allow
             PROVE  IInv'
  BY <1>1, Sizes
<1>2. Proved!IInv' /\ Receipted' /\ \A c \in Calls : claims[c] <= claims'[c]
  <2>1. CASE UNCHANGED store
    BY <2>1, StoreQuiet
  <2>2. CASE Store!Decide(id, allow)
    <3>1. Operates(id)
      BY <2>2, IInvParts, StoreDecide
    <3>2. Receipted'
      BY <2>2, <3>1, DecideStep, ReceiptedStill
    <3> QED BY <3>1, <3>2 DEF Operates
  <2> QED BY <2>1, <2>2 DEF Decide
<1>3. Counted'
  <2>1. claims \in [Calls -> Nat] /\ claims' \in [Calls -> Nat] /\ effects \in [Calls -> Nat]
    BY <1>2, IInvParts DEF Typed, Proved!IInv, Proved!TypeOK
  <2>2. ASSUME NEW c \in Calls, effects[c] <= claims[c] PROVE effects[c] <= claims'[c]
    BY <1>2, <2>1, <2>2
  <2> QED BY <1>0, <2>2, Sizes, IInvParts DEF Counted
<1>4. CASE ag' = Stopped
  <2>1. ag' \in Agents /\ ag'.pc = "idle" /\ ag'.c = Inactive
    BY <1>4, Resting, IInvParts DEF Rested
  <2>2. Typed'
    BY <1>0, <2>1, IInvParts DEF Typed
  <2>3. Shaped'
    BY <1>0, <1>2, <2>1, InactiveFields, EmptySeq, IInvParts DEF Shaped, Busy, Numbered, Midway
  <2>4. Spent'
    BY <1>0, <1>3, <2>1, IInvParts DEF Spent, Busy, Past
  <2> QED BY <1>2, <2>2, <2>3, <2>4 DEF IInv
<1>5. CASE ag' = [ag EXCEPT !.pc = "resave", !.c.pending = id]
  <2>1. PICK c : c = [ag.c EXCEPT !.pending = id]
    OBVIOUS
  <2>2. /\ c \in Frozen /\ c.next = ag.c.next /\ c.executing = ag.c.executing
        /\ c.buffered = ag.c.buffered /\ c.active = ag.c.active
    BY <2>1, IInvParts, Sizes DEF Frozen, Calls
  <2>3. ag' = [ag EXCEPT !.pc = "resave", !.c = c]
    BY <1>5, <2>1, IInvParts DEF Agents
  <2>4. ag' \in Agents /\ ag'.pc = "resave" /\ ag'.c = c
    BY <2>2, <2>3, IInvParts DEF Agents, Pcs
  <2>5. Typed'
    BY <1>0, <2>4, IInvParts DEF Typed
  <2>6. Shaped'
    BY <1>0, <1>2, <2>2, <2>4, IInvParts DEF Shaped, Busy, Numbered, Midway
  <2>7. Spent'
    BY <1>0, <1>3, <2>2, <2>4, IInvParts DEF Spent, Busy, Past
  <2> QED BY <1>2, <2>5, <2>6, <2>7 DEF IInv
<1> QED BY <1>4, <1>5 DEF Decide, Stop

LEMMA AskCount ==
  ASSUME IInv, Ask
  PROVE  /\ count' \in Counts /\ count'.batches = 1 /\ count'.cut = count.cut
         /\ \/ count'.parted
            \/ UNCHANGED <<store, disk, file, effects>> /\ count' = [count EXCEPT !.batches = 1]
<1>0. count \in Counts
  BY IInvParts DEF Typed
<1>1. PICK b : b = [count EXCEPT !.batches = 1]
  OBVIOUS
<1>2. b \in Counts /\ b.batches = 1 /\ b.cut = count.cut
  BY <1>0, <1>1 DEF Counts
<1>3. CASE count' = b
  BY <1>1, <1>2, <1>3 DEF Ask
<1>4. CASE count' = [count EXCEPT !.batches = 1, !.faults = @ + 1, !.parted = TRUE]
  <2>1. PICK d : d = [b EXCEPT !.faults = @ + 1]
    OBVIOUS
  <2>2. d \in Counts /\ d.batches = 1 /\ d.cut = count.cut
    BY <1>2, <2>1 DEF Counts
  <2>3. count' = [d EXCEPT !.parted = TRUE]
    BY <1>0, <1>1, <1>4, <2>1 DEF Counts
  <2>4. count' \in Counts /\ count'.batches = 1 /\ count'.cut = count.cut /\ count'.parted
    BY <2>2, <2>3 DEF Counts
  <2> QED BY <2>4
<1> QED BY <1>1, <1>3, <1>4 DEF Ask

LEMMA AskInv == ASSUME IInv, Ask, UNCHANGED ask PROVE IInv'
<1>0. /\ ag.pc = "idle" /\ count.batches = 0 /\ ~cont.active
      /\ UNCHANGED <<store, disk, file, effects, ask>>
      /\ count \in Counts
  BY IInvParts DEF Ask, Typed
<1>1. \A k \in Calls : effects[k] = 0
  BY <1>0, IInvParts DEF Shaped
<1> SUFFICES ASSUME NEW f, f = [Inactive EXCEPT !.active = TRUE, !.digest = disk] PROVE IInv'
  OBVIOUS
<1>2. f \in Frozen /\ f.active /\ f.buffered = <<>> /\ f.next = 0 /\ ~f.executing
  BY InactiveFields, IInvParts DEF Frozen
<1>3. PICK c : cont' = c /\ c \in {cont, f}
  BY DEF Ask
<1>4. c \in Frozen /\ Numbered(c) /\ Numbered(f)
  <2>1. Numbered(f)
    BY <1>2, EmptySeq DEF Numbered
  <2> QED BY <1>2, <1>3, <2>1, IInvParts DEF Shaped
<1>5. Past(cont)'
  BY <1>0, <1>1 DEF Past
<1>6. count' \in Counts /\ count'.batches = 1
  BY AskCount
<1>7. Proved!IInv' /\ Receipted'
  BY <1>0, StoreQuiet
<1>8. \/ ag' = Stopped
      \/ ag' = [ag EXCEPT !.c = f, !.pc = "loop"] /\ cont' = f
  BY DEF Ask, Stop
<1>9. Counted'
  BY <1>0, IInvParts DEF Counted, store
<1>10. CASE ag' = Stopped
  <2>1. ag' \in Agents /\ ag'.pc = "idle" /\ ag'.c = Inactive
    BY <1>10, Resting, IInvParts DEF Rested
  <2>2. Typed'
    BY <1>0, <1>3, <1>4, <1>6, <2>1, IInvParts DEF Typed
  <2>3. Shaped'
    BY <1>3, <1>4, <1>6, <1>7, <2>1, InactiveFields, EmptySeq DEF Shaped, Busy, Numbered, Midway
  <2>4. Spent'
    BY <1>5, <1>9, <2>1 DEF Spent, Busy
  <2> QED BY <1>7, <2>2, <2>3, <2>4 DEF IInv
<1>11. CASE ag' = [ag EXCEPT !.c = f, !.pc = "loop"] /\ cont' = f
  <2>0. "loop" \in Pcs
    BY DEF Pcs
  <2>1. ag' \in Agents /\ ag'.pc = "loop" /\ ag'.c = f
    <3>1. Moved(ag', ag, "loop", f)
      BY <1>2, <1>11, <2>0, Moving, IInvParts
    <3> QED BY <3>1 DEF Moved
  <2>2. Typed'
    BY <1>0, <1>2, <1>6, <1>11, <2>1, IInvParts DEF Typed
  <2>3. Shaped'
    <3>1. Numbered(cont)' /\ Numbered(ag.c)'
      BY <1>4, <1>11, <2>1 DEF Numbered
    <3>2. Midway(ag)'
      BY <2>1 DEF Midway
    <3>3. cont'.active /\ ag'.c.active
      BY <1>2, <1>11, <2>1
    <3>4. Busy' => cont'.active /\ ag'.c.active
      BY <3>3
    <3>5. ag'.pc # "run" /\ count'.batches # 0
      BY <1>6, <2>1
    <3> QED BY <1>7, <3>1, <3>2, <3>4, <3>5 DEF Shaped
  <2>4. Past(ag.c)'
    BY <1>0, <1>1 DEF Past
  <2>5. Spent'
    BY <1>5, <1>9, <2>1, <2>4 DEF Spent, Busy
  <2> QED BY <1>7, <2>2, <2>3, <2>5 DEF IInv
<1> QED BY <1>8, <1>10, <1>11

LEMMA AsleepFields ==
  ASSUME NEW m \in Results
  PROVE  /\ Asleep \in Agents /\ Asleep.pc = "down" /\ Asleep.c = Inactive /\ Asleep.mem = <<>>
         /\ [Asleep EXCEPT !.pc = "idle", !.mem = m] \in Agents
         /\ [Asleep EXCEPT !.pc = "idle", !.mem = m].pc = "idle"
         /\ [Asleep EXCEPT !.pc = "idle", !.mem = m].c = Inactive
         /\ [Asleep EXCEPT !.pc = "idle", !.mem = m].mem = m
         /\ [Asleep EXCEPT !.pc = "idle", !.mem = m].stale = FALSE
<1>1. <<>> \in Results /\ <<>> \in Seq(Said) /\ N \in Nat
  BY Sizes DEF Results
<1>2. PICK w : w = [id |-> 0, allow |-> FALSE]
  OBVIOUS
<1>3. w \in [id : 0..N, allow : BOOLEAN]
  BY <1>1, <1>2
<1>4. /\ Asleep \in Agents /\ Asleep.pc = "down" /\ Asleep.c = Inactive /\ Asleep.mem = <<>>
      /\ Asleep.stale = FALSE
  BY <1>1, <1>2, <1>3, InactiveFields DEF Asleep, Agents, Pcs
<1>5. PICK a : a = [Asleep EXCEPT !.pc = "idle", !.mem = m]
  OBVIOUS
<1>6. a \in Agents /\ a.pc = "idle" /\ a.c = Inactive /\ a.mem = m /\ a.stale = FALSE
  BY <1>4, <1>5 DEF Agents, Pcs
<1> QED BY <1>4, <1>5, <1>6

LEMMA CrashCount ==
  ASSUME count \in Counts, Crash
  PROVE  /\ count' \in Counts /\ count'.batches = count.batches /\ count'.cut = count.cut
         /\ count'.parted = count.parted
<1>1. PICK n \in Nat : n = count.crashes + 1
  BY DEF Counts
<1>2. count' = [count EXCEPT !.crashes = n]
  BY <1>1 DEF Crash
<1> QED BY <1>2 DEF Counts

LEMMA CancelCount ==
  ASSUME IInv, Cancel
  PROVE  /\ count' \in Counts /\ count'.batches = count.batches
         /\ count'.cut = IF InHand THEN count.cut \cup {At} ELSE count.cut
         /\ count'.parted = count.parted
<1>0. count \in Counts
  BY IInvParts DEF Typed
<1>1. PICK S : S = IF InHand THEN count.cut \cup {At} ELSE count.cut
  OBVIOUS
<1>2. InHand => ag.c.next < N
  BY IInvParts DEF InHand, Midway
<1>3. InHand => At \in Calls
  BY <1>2, IInvParts DEF At, Calls
<1>4. count.cut \in SUBSET Calls
  BY <1>0 DEF Counts
<1>5. S \in SUBSET Calls
  BY <1>1, <1>3, <1>4
<1>6. PICK b : b = [count EXCEPT !.cancels = @ + 1]
  OBVIOUS
<1>7. b \in Counts /\ b.batches = count.batches /\ b.cut = count.cut /\ b.parted = count.parted
  BY <1>0, <1>6 DEF Counts
<1>8. count' = [b EXCEPT !.cut = S]
  BY <1>1, <1>6 DEF Cancel
<1>9. /\ count' \in Counts /\ count'.batches = count.batches /\ count'.cut = S
      /\ count'.parted = count.parted
  BY <1>5, <1>7, <1>8 DEF Counts
<1> QED BY <1>1, <1>9

LEMMA CrashInv == ASSUME IInv, Crash, UNCHANGED ask PROVE IInv'
<1>1. <<>> \in Results
  BY DEF Results
<1>2. ag' \in Agents /\ ag'.pc = "down" /\ ag'.c = Inactive
  BY <1>1, AsleepFields DEF Crash
<1>3. count' \in Counts /\ count'.batches = count.batches
  BY IInvParts, CrashCount DEF Typed
<1> QED BY <1>2, <1>3, IdleInv, IInvParts DEF Crash

LEMMA CancelInv == ASSUME IInv, Cancel, UNCHANGED ask PROVE IInv'
<1>0. UNCHANGED <<store, cont, disk, file, effects, ask>> /\ Busy
  BY DEF Cancel
<1>1. count' \in Counts /\ count'.batches = count.batches
  BY CancelCount
<1>2. /\ ag' \in Agents /\ ag'.pc = ag.pc /\ ag'.c = ag.c /\ ag'.mem = ag.mem /\ ag'.got = ag.got
      /\ ag'.want = ag.want
  BY IInvParts DEF Cancel, Agents
<1>3. Proved!IInv' /\ Receipted'
  BY <1>0, StoreQuiet
<1>4. Typed'
  BY <1>0, <1>1, <1>2, IInvParts DEF Typed
<1>5. Midway(ag)'
  <2>1. Midway(ag)
    BY IInvParts
  <2>2. Midway(ag')
    BY <1>2, <2>1, SameMidway
  <2> QED BY <2>2 DEF Midway
<1>6. Shaped'
  BY <1>0, <1>1, <1>2, <1>3, <1>5, IInvParts DEF Shaped, Busy, Numbered
<1>7. Spent'
  BY <1>0, <1>2, IInvParts DEF Spent, Counted, Busy, At, Past, store
<1> QED BY <1>3, <1>4, <1>6, <1>7 DEF IInv

LEMMA EditInv == ASSUME IInv, Edit, UNCHANGED ask PROVE IInv'
<1>0. UNCHANGED <<store, cont, disk, ag, effects, ask>> /\ file' = file + 1
  BY DEF Edit
<1>1. count' \in Counts /\ count'.batches = count.batches
  <2>1. count \in Counts
    BY IInvParts DEF Typed
  <2> QED BY <2>1 DEF Edit, Counts
<1>2. Proved!IInv' /\ Receipted'
  BY <1>0, StoreQuiet
<1>3. Typed'
  BY <1>0, <1>1, IInvParts DEF Typed
<1>4. Shaped'
  BY <1>0, <1>1, <1>2, IInvParts DEF Shaped, Busy, Numbered
<1>5. Spent'
  BY <1>0, IInvParts DEF Spent, Counted, Busy, At, Past, store
<1> QED BY <1>2, <1>3, <1>4, <1>5 DEF IInv

LEMMA ExpireInv == ASSUME IInv, Expire, UNCHANGED ask PROVE IInv'
<1>0. UNCHANGED <<cont, disk, ag, file, effects, count, ask>>
  BY DEF Expire
<1>1. PICK c \in Risky : Store!Tick(c)
  BY DEF Expire
<1>2. Operates(c) /\ rec' = rec /\ claims' = claims
  BY <1>1, IInvParts, StoreTick, Sizes DEF Store!Tick
<1>3. Proved!IInv' /\ Receipted' /\ Typed'
  BY <1>0, <1>2, IInvParts DEF Operates, Receipted, Typed
<1>4. Shaped'
  BY <1>0, <1>3, IInvParts DEF Shaped, Busy, Numbered
<1>5. Spent'
  BY <1>0, <1>2, IInvParts DEF Spent, Counted, Busy, At, Past
<1> QED BY <1>3, <1>4, <1>5 DEF IInv

\* The i-th of finitely many numbers is one of them.
LEMMA NthIn ==
  ASSUME NEW T \in SUBSET Nat, IsFiniteSet(T), NEW i \in 1..Cardinality(T)
  PROVE  Nth(T, i) \in T
<1> DEFINE Below(c) == {d \in T : d <= c}
           n == Cardinality(T)
           f == [c \in T |-> Cardinality(Below(c))]
<1>0. n \in Nat /\ IsFiniteSet(1..n) /\ Cardinality(1..n) = n
  <2>1. n \in Nat
    BY FS_CardinalityType
  <2>2. IsFiniteSet(1..n) /\ Cardinality(1..n) = IF 1 > n THEN 0 ELSE n - 1 + 1
    BY <2>1, FS_Interval
  <2> QED BY <2>1, <2>2
<1>1. ASSUME NEW c \in T PROVE IsFiniteSet(Below(c)) /\ Cardinality(Below(c)) \in 1..n
  <2>1. Below(c) \in SUBSET T /\ c \in Below(c)
    OBVIOUS
  <2>2. IsFiniteSet(Below(c)) /\ Cardinality(Below(c)) <= n
    BY <2>1, FS_Subset
  <2>3. Cardinality(Below(c)) \in Nat /\ Cardinality(Below(c)) # 0
    BY <2>1, <2>2, FS_CardinalityType, FS_EmptySet
  <2> QED BY <1>0, <2>2, <2>3
<1>2. ASSUME NEW c \in T, NEW d \in T, c < d PROVE f[c] # f[d]
  <2>0. c \in Nat /\ d \in Nat /\ \A e \in T : e \in Nat
    OBVIOUS
  <2>1. Below(c) \in SUBSET Below(d) /\ d \in Below(d) /\ d \notin Below(c)
    <3>1. \A e \in T : e <= c => e <= d
      BY <1>2, <2>0
    <3>2. d <= d /\ ~(d <= c)
      BY <1>2, <2>0
    <3> QED BY <3>1, <3>2
  <2>2. Cardinality(Below(d)) = Cardinality(Below(c)) => Below(d) = Below(c)
    BY <1>1, <2>1, FS_Subset
  <2> QED BY <2>1, <2>2
<1>3. f \in Injection(T, 1..n)
  <2>1. f \in [T -> 1..n]
    BY <1>1
  <2>2. ASSUME NEW c \in T, NEW d \in T, f[c] = f[d] PROVE c = d
    <3>1. ~(c < d) /\ ~(d < c)
      BY <1>2, <2>2
    <3> QED BY <3>1
  <2> HIDE DEF f
  <2> QED BY <2>1, <2>2 DEF Injection, IsInjective
<1>4. f \in Surjection(T, 1..n)
  <2> HIDE DEF f
  <2> QED BY <1>0, <1>3, FS_Injection
<1>5. PICK c \in T : f[c] = i
  <2> HIDE DEF f
  <2> QED BY <1>4 DEF Surjection
<1>6. \E x \in T : Cardinality({d \in T : d <= x}) = i
  BY <1>5
<1> QED BY <1>6 DEF Nth

\* closeInterruptedExchanges appends results of this batch.
LEMMA Closing ==
  ASSUME IInv
  PROVE  /\ Unanswered \in Results
         /\ \A i \in 1..Len(Unanswered) : /\ Unanswered[i].call \in Missing
                                          /\ Unanswered[i].out = "interrupted"
         /\ Missing = {} => Unanswered = <<>>
<1> SUFFICES ASSUME NEW T, T = Missing, NEW n, n = Cardinality(T), NEW u, u = Unanswered
             PROVE  /\ u \in Results
                    /\ \A i \in 1..Len(u) : u[i].call \in T /\ u[i].out = "interrupted"
                    /\ T = {} => u = <<>>
  OBVIOUS
<1>1. T \in SUBSET (1..N) /\ IsFiniteSet(1..N)
  <2>1. N \in Int /\ 1 \in Int
    BY Sizes
  <2> QED BY <2>1, FS_Interval DEF Missing, Calls
<1>2. T \in SUBSET Nat /\ IsFiniteSet(T) /\ n \in Nat
  <2>1. IsFiniteSet(T)
    BY <1>1, FS_Subset
  <2>2. n \in Nat
    BY <2>1, FS_CardinalityType
  <2> QED BY <1>1, <2>1, <2>2
<1>3. u = [i \in 1..n |-> Entry(Nth(T, i), "interrupted")]
  BY DEF Unanswered
<1>4. ASSUME NEW i \in 1..n PROVE Nth(T, i) \in T
  BY <1>2, NthIn
<1>5. ASSUME NEW i \in 1..n PROVE u[i] \in [call : Calls, out : Outs] /\ u[i].call \in T /\ u[i].out = "interrupted"
  <2>1. PICK c \in T : c = Nth(T, i)
    BY <1>4
  <2>2. u[i] = Entry(c, "interrupted") /\ c \in Calls
    BY <1>1, <1>3, <2>1 DEF Calls
  <2> QED BY <2>2 DEF Entry, Outs
<1>6. u \in Results /\ Len(u) = n
  <2>1. u \in [1..n -> [call : Calls, out : Outs]]
    BY <1>3, <1>5
  <2>2. \A E : u \in [1..n -> E] => u \in Seq(E) /\ Len(u) = n
    BY <1>2
  <2> QED BY <2>1, <2>2 DEF Results
<1>7. T = {} => u = <<>>
  <2> SUFFICES ASSUME T = {} PROVE u = <<>>
    OBVIOUS
  <2>1. n = 0
    BY FS_EmptySet
  <2> QED BY <1>6, <2>1 DEF Results
<1> QED BY <1>5, <1>6, <1>7

Restarts(m) ==
  /\ m \in Results
  /\ count' \in Counts /\ count'.batches = count.batches /\ count'.cut = count.cut
  /\ count'.parted = count.parted
  /\ \/ /\ disk' = m /\ ag' \in Agents /\ ag'.pc = "idle" /\ ag'.c = Inactive
        /\ ag'.mem = m /\ ~ag'.stale
     \/ disk' \in {disk, m} /\ ag' = ag

LEMMA Restarting ==
  ASSUME IInv, Restart
  PROVE  Restarts(IF cont.active THEN disk ELSE disk \o Unanswered)
<1> SUFFICES ASSUME NEW m, m = IF cont.active THEN disk ELSE disk \o Unanswered PROVE Restarts(m)
  OBVIOUS
<1>1. m \in Results
  BY Closing, IInvParts DEF Results
<1>2. \/ disk' = m /\ UNCHANGED count /\ ag' = [Asleep EXCEPT !.pc = "idle", !.mem = m]
      \/ Fault("session") /\ disk' \in {disk, m} /\ UNCHANGED ag
  BY DEF Restart
<1>3. CASE disk' = m /\ UNCHANGED count /\ ag' = [Asleep EXCEPT !.pc = "idle", !.mem = m]
  <2>1. /\ ag' \in Agents /\ ag'.pc = "idle" /\ ag'.c = Inactive /\ ag'.mem = m
        /\ ag'.stale = FALSE
    BY <1>1, <1>3, AsleepFields
  <2> QED BY <1>1, <1>3, <2>1, IInvParts DEF Restarts, Typed
<1>4. CASE Fault("session") /\ disk' \in {disk, m} /\ UNCHANGED ag
  <2>1. /\ count' \in Counts /\ count'.batches = count.batches /\ count'.cut = count.cut
        /\ count'.parted = count.parted
    BY <1>4, CountFields, IInvParts DEF Typed, Counts
  <2> QED BY <1>1, <1>4, <2>1 DEF Restarts
<1> QED BY <1>2, <1>3, <1>4

LEMMA RestartInv == ASSUME IInv, Restart, UNCHANGED ask PROVE IInv'
<1> SUFFICES ASSUME NEW m, Restarts(m) PROVE IInv'
  BY Restarting
<1>1. ag.pc = "down" /\ UNCHANGED <<store, cont, file, effects, ask>>
  BY DEF Restart
<1>2. /\ ag' \in Agents /\ ag'.pc \in {"down", "idle"} /\ ag'.c \in {Inactive, ag.c}
      /\ count' \in Counts /\ count'.batches = count.batches /\ disk' \in Results
  BY <1>1, IInvParts DEF Restarts
<1> QED BY <1>1, <1>2, IdleInv

LEMMA WorkInv == ASSUME IInv, Work, UNCHANGED ask PROVE IInv'
  BY LoopInv, ClearInv, ReadInv, PlainInv, FreezeInv, AuthorizeInv, ClaimInv, DispatchInv,
     FinishInv, AcceptInv, PauseInv, JournalInv, LedgerInv, AdvanceInv, RestoreInv,
     RestoredInv, DecideInv, ResaveInv, ReenterInv DEF Work

LEMMA StutterInv == ASSUME IInv, UNCHANGED vars PROVE IInv'
<1>1. UNCHANGED <<store, cont, disk, ag, file, effects, ask, count>>
  BY DEF vars
<1>2. Proved!IInv' /\ Receipted' /\ Typed'
  BY <1>1, StoreQuiet, IInvParts DEF Typed
<1>3. Shaped'
  BY <1>1, <1>2, IInvParts DEF Shaped, Busy, Numbered
<1>4. Spent'
  BY <1>1, IInvParts DEF Spent, Counted, Busy, At, Past, store
<1> QED BY <1>2, <1>3, <1>4 DEF IInv

LEMMA StepInv == IInv /\ [Next]_vars => IInv'
<1> SUFFICES ASSUME IInv, [Next]_vars PROVE IInv'
  OBVIOUS
<1>1. CASE UNCHANGED vars
  BY <1>1, StutterInv
<1>2. CASE Next
  BY <1>2, WorkInv, AskInv, ResumeInv, CrashInv, RestartInv, CancelInv, EditInv, ExpireInv DEF Next
<1> QED BY <1>1, <1>2

\* The invariant holds throughout.
THEOREM BatchInvariant == Spec => []IInv
<1>1. Init => IInv
  BY InitInv
<1> QED BY <1>1, StepInv, PTL DEF Spec

\* An effect begins at most once per call, over any number of crashes,
\* resumptions, repeated decisions and failed writes (executeToolBatch,
\* authorizeTool, ResumeApproval).
THEOREM OneDispatch == Spec => []SingleDispatch
<1>1. ASSUME IInv PROVE SingleDispatch
  <2>1. Counted /\ effects \in [Calls -> Nat] /\ Proved!IInv
    BY <1>1, IInvParts DEF Typed
  <2>2. \A c \in Calls : claims[c] \in {0, 1}
    BY <2>1 DEF Proved!IInv, Proved!Coherent
  <2>3. ASSUME NEW c \in Calls PROVE effects[c] <= 1
    <3>1. CASE c \in Risky
      BY <2>1, <2>2, <3>1 DEF Counted
    <3>2. CASE c \notin Risky
      <4>1. Kind[c] \in {"read", "plain"}
        BY <3>2, Sizes DEF Risky
      <4> QED BY <2>1, <4>1 DEF Counted
    <3> QED BY <3>1, <3>2
  <2> QED BY <2>3 DEF SingleDispatch
<1> QED BY BatchInvariant, <1>1, PTL

\* Nothing runs that was not approved, for the very content it was approved with
\* (authorizeTool).
THEOREM ApprovedOnly == Spec => []OnlyApprovedRuns
<1>1. ASSUME IInv PROVE OnlyApprovedRuns
  <2> SUFFICES ASSUME NEW c \in Risky, effects[c] > 0
               PROVE  claims[c] = 1 /\ consent[c] = "approved" /\ granted[c] = rec[c].digest
    BY DEF OnlyApprovedRuns
  <2>1. c \in Calls /\ Counted /\ effects[c] \in Nat /\ Proved!IInv
    BY <1>1, IInvParts, Sizes DEF Typed
  <2>2. claims[c] \in {0, 1} /\ (claims[c] = 1 => rec[c].status \in Proved!Claimed)
    BY <2>1 DEF Proved!IInv, Proved!Coherent
  <2>3. effects[c] <= claims[c]
    BY <2>1 DEF Counted
  <2>4. claims[c] = 1
    BY <2>1, <2>2, <2>3
  <2> QED BY <2>1, <2>2, <2>4 DEF Proved!IInv, Proved!Coherent
<1> QED BY BatchInvariant, <1>1, PTL

\* Continuation, session, memory and store have their types.
THEOREM BatchTypes == Spec => []TypeOK
<1>1. ASSUME IInv PROVE TypeOK
  <2>1. Store!TypeOK
    BY <1>1, IInvParts DEF Proved!IInv, Proved!TypeOK, Store!TypeOK, Proved!Record, Store!Record,
       Proved!Statuses, Store!Statuses
  <2> QED BY <1>1, <2>1, IInvParts DEF TypeOK, Typed
<1> QED BY BatchInvariant, <1>1, PTL

-----------------------------------------------------------------------------
(* What the session says: results stay true                                *)

\* Nothing begins to run a call that was given up, and no batch is reopened.
Calm(c) ==
  /\ ag'.pc \in {"dispatch", "finish"} /\ ag'.c.next + 1 = c =>
       ag.pc \in {"dispatch", "finish"} /\ ag.c.next + 1 = c
  /\ count.batches = 1 => count'.batches = 1 /\ (cont'.active => cont.active)
  /\ count.cut \subseteq count'.cut

LEMMA PointTruth ==
  ASSUME NEW e, NEW c \in Calls, e.call = c, Truth(e), rec'[c] = rec[c], effects'[c] = effects[c],
         file \in Nat, file' \in Nat, file <= file', c \in Risky => Action(c), Calm(c)
  PROVE  Truth(e)'
<1>1. CASE Kind[c] = "read"
  BY <1>1 DEF Truth
<1>2. CASE Kind[c] # "read"
  <2>1. ASSUME c \in Risky, Shut(c) PROVE Shut(c)'
    <3>1. rec[c].status \in {"pending", "approved"} => rec[c].digest \in Nat
      BY <2>1 DEF Action
    <3>2. rec[c].status \in {"pending", "approved"} /\ rec[c].digest < file => rec[c].digest < file'
      BY <3>1
    <3> QED BY <2>1, <3>2 DEF Shut, At, Calm
  <2>2. e.out = "ok" => effects'[c] = 1
    BY <1>2 DEF Truth
  <2>3. e.out = "denied" => c \in Risky /\ effects'[c] = 0 /\ Shut(c)'
    BY <1>2, <2>1 DEF Truth
  <2>4. e.out = "interrupted" => ~cont'.active /\ count'.batches = 1
    BY <1>2 DEF Truth, Calm
  <2>5. e.out = "cancelled" => c \in count'.cut
    BY <1>2 DEF Truth, Calm
  <2> QED BY <1>2, <2>2, <2>3, <2>4, <2>5 DEF Truth
<1> QED BY <1>1, <1>2

\* A call that can still run, or is being run, has at most been reported as
\* cancelled.
LEMMA OpenTruth ==
  ASSUME NEW e, NEW c \in Risky, e.call = c, Truth(e), cont.active, count.cut \subseteq count'.cut,
         \/ /\ rec[c].status \in {"absent", "pending", "approved"}
            /\ rec[c].status # "absent" => ~(Kind[c] = "write" /\ rec[c].digest < file)
         \/ /\ rec[c].status = "claimed"
            /\ ag.pc \in {"dispatch", "finish"} /\ At = c
  PROVE  Truth(e)'
<1>1. c \in Calls /\ Kind[c] # "read" /\ Kind[c] # "plain"
  BY Sizes DEF Risky
<1>2. e.out \notin {"ok", "refused", "failed", "interrupted"}
  BY <1>1 DEF Truth
<1>3. e.out # "denied"
  BY <1>1 DEF Truth, Shut
<1>4. e.out = "cancelled" => c \in count'.cut
  BY <1>1 DEF Truth
<1> QED BY <1>2, <1>3, <1>4 DEF Truth

LEMMA EntriesTyped ==
  ASSUME IInv, NEW e \in Entries
  PROVE  e \in [call : Calls, out : Outs] /\ e.call \in Calls /\ e.out \in Outs
<1>1. /\ disk \in Results /\ ag.mem \in Results /\ cont.buffered \in Results
      /\ ag.c.buffered \in Results
  BY IInvParts, FrozenFields
<1>2. ASSUME NEW s \in Results PROVE Range(s) \subseteq [call : Calls, out : Outs]
  BY ResultFields DEF Range
<1> QED BY <1>1, <1>2 DEF Entries

LEMMA HInvParts ==
  ASSUME HInv
  PROVE  /\ True /\ Complete /\ \A e \in Entries : Truth(e)
         /\ \A c \in Risky : Action(c)
         /\ Finishing /\ GotTrue
  BY DEF HInv, True

\* A step that leaves store and effects alone.
LEMMA TrueStill ==
  ASSUME IInv, HInv, rec' = rec, effects' = effects, file' \in Nat, file <= file',
         Entries' \subseteq Entries,
         ag'.pc \in {"dispatch", "finish"} => ag.pc = ag'.pc /\ ag'.c.next = ag.c.next,
         ag'.pc = "finish" => ag'.got = ag.got,
         ag'.pc = "got" => /\ ag.pc = "got" /\ ag'.c.next = ag.c.next /\ ag'.got = ag.got
                           /\ ag'.cancelled \/ ~ag.cancelled,
         count.batches = 1 => count'.batches = 1 /\ (cont'.active => cont.active),
         count.cut \subseteq count'.cut
  PROVE  True'
<1>0. file \in Nat /\ \A c \in Risky : Action(c)
  BY HInvParts, IInvParts DEF Typed
<1>1. \A c : Calm(c)
  BY DEF Calm
<1>2. ASSUME NEW e, e.call \in Calls, Truth(e) PROVE Truth(e)'
  BY <1>0, <1>1, <1>2, PointTruth
<1>3. \A e \in Entries : Truth(e)'
  BY <1>2, EntriesTyped, HInvParts
<1>4. \A e \in Entries' : Truth(e)'
  BY <1>3
<1>5. ASSUME NEW c \in Risky PROVE Action(c)'
  <2>1. Action(c)
    BY HInvParts
  <2>2. rec[c].status # "absent" => rec[c].digest \in Nat
    BY <2>1 DEF Action
  <2>3. rec[c].status # "absent" /\ rec[c].digest <= file => rec[c].digest <= file'
    BY <1>0, <2>2
  <2> QED BY <2>1, <2>3 DEF Action
<1>6. Finishing'
  BY HInvParts DEF Finishing, At
<1>7. GotTrue'
  <2> SUFFICES ASSUME ag'.pc = "got", ~ag'.cancelled, NEW i \in 1..Len(ag'.got),
                      NEW e, e = Entry(ag'.c.next + i, ag'.got[i])
               PROVE  Truth(e)'
    BY DEF GotTrue
  <2>1. ag.pc = "got" /\ ~ag.cancelled /\ i \in 1..Len(ag.got) /\ e = Entry(ag.c.next + i, ag.got[i])
    OBVIOUS
  <2>2. Truth(e)
    BY <2>1, HInvParts DEF GotTrue
  <2>3. e.call = ag.c.next + i
    BY <2>1, EntryFields
  <2>4. e.call \in Calls
    BY <2>1, <2>3, IInvParts DEF Midway, Calls
  <2> QED BY <1>2, <2>2, <2>4
<1> QED BY <1>4, <1>5, <1>6, <1>7 DEF True

-----------------------------------------------------------------------------
(* What the session says: one lemma for each way a step ends               *)

LEMMA ResultRange ==
  ASSUME NEW s \in Results, NEW t \in Results
  PROVE  Range(s \o t) = Range(s) \cup Range(t)
<1>1. \A S : s \in Seq(S) /\ t \in Seq(S) => Range(s \o t) = Range(s) \cup Range(t)
  BY RangeConcatenation
<1> QED BY <1>1 DEF Results

LEMMA Offset ==
  ASSUME NEW l \in Nat, NEW n \in Nat, n <= l, NEW i \in 1..n
  PROVE  l - n + i \in 1..l
  OBVIOUS

LEMMA HeardRange == Heard = {e.call : e \in Range(disk)}
  BY DEF Heard, Range

LEMMA HeardGrows ==
  ASSUME Range(disk) \subseteq Range(disk')
  PROVE  Heard \subseteq Heard'
<1>1. Heard' = {e.call : e \in Range(disk')}
  BY DEF Heard, Range
<1> QED BY <1>1, HeardRange

LEMMA EmptyRange == Range(<<>>) = {}
  BY DEF Range

LEMMA NotEnded ==
  ASSUME IInv, Busy
  PROVE  count.batches = 1 /\ cont.active
  BY IInvParts

\* The continuation is saved, or the turn ends.
LEMMA SaveTrue ==
  ASSUME IInv, HInv, Busy, NEW c \in Frozen, NEW pc \in {"run", "paused", "ledger", "loop", "decide", "reenter"},
         Save(c, pc), c.active, Range(c.buffered) \subseteq Entries, 1..c.next \subseteq Heard,
         UNCHANGED <<store, disk, file, effects, ask>>
  PROVE  HInv'
<1>0. Typed /\ pc \in Pcs /\ count.batches = 1 /\ cont.active /\ rec' = rec
  BY IInvParts DEF Pcs, store
<1>1. Written(c, pc) \/ Unwritten(c)
  BY <1>0, Saving
<1>2. /\ cont' = cont \/ Stamped(cont', c, disk)
      /\ ag'.mem = ag.mem /\ count'.batches = 1 /\ count'.cut = count.cut
      /\ \/ ag'.c = cont' /\ Stamped(cont', c, disk) /\ ag'.pc = pc
         \/ ag'.c = Inactive /\ ag'.pc = "idle"
  BY <1>0, <1>1 DEF Written, Unwritten, Moved, Rested
<1>3. Range(cont'.buffered) \subseteq Entries /\ Range(ag'.c.buffered) \subseteq Entries
  BY <1>2, InactiveFields, EmptyRange DEF Stamped, Entries
<1>4. Entries' \subseteq Entries
  BY <1>2, <1>3 DEF Entries
<1>5. file \in Nat /\ file <= file' /\ file' \in Nat
  BY IInvParts DEF Typed
<1>6. True'
  BY <1>0, <1>2, <1>4, <1>5, TrueStill
<1>7. Heard' = Heard
  BY DEF Heard
<1>8. cont'.active /\ 1..cont'.next \subseteq Heard
  BY <1>0, <1>2, HInvParts DEF Stamped, Complete
<1>9. Busy' => ag'.c = cont'
  BY <1>2 DEF Busy
<1>10. Range(disk) \subseteq Range(ag.mem)
  BY HInvParts DEF Complete, Busy
<1>11. Complete'
  BY <1>2, <1>7, <1>8, <1>9, <1>10 DEF Complete
<1> QED BY <1>6, <1>11 DEF HInv

\* The turn ends.
LEMMA QuitTrue ==
  ASSUME IInv, HInv, Busy, Stop, UNCHANGED <<store, cont, disk, file, effects, ask, count>>
  PROVE  HInv'
<1>1. ag'.pc = "idle" /\ ag'.c = Inactive /\ ag'.mem = ag.mem
  BY Resting, IInvParts DEF Stop, Rested
<1>2. Entries' \subseteq Entries
  BY <1>1, InactiveFields, EmptyRange DEF Entries
<1>3. file \in Nat /\ file <= file' /\ file' \in Nat /\ rec' = rec
  BY IInvParts DEF Typed, store
<1>4. True'
  BY <1>1, <1>2, <1>3, TrueStill
<1>5. Complete'
  BY <1>1, IInvParts, HInvParts DEF Complete, Busy, Heard
<1> QED BY <1>4, <1>5 DEF HInv

\* The session is saved.
LEMMA SessionTrue ==
  ASSUME IInv, HInv, NEW pc \in {"advance", "restored", "loop"},
         SaveSession(ag.mem, [ag EXCEPT !.pc = pc]),
         \/ pc = "advance" /\ ag.pc = "ledger"
         \/ pc = "restored" /\ ag.pc = "restore"
         \/ pc = "loop" /\ ag.pc = "reenter",
         UNCHANGED <<store, cont, file, effects, ask>>
  PROVE  HInv'
<1>0. Busy /\ pc \in Pcs /\ count.batches = 1 /\ cont.active /\ Typed
  BY IInvParts DEF Busy, Pcs
<1>1. /\ disk' \in {disk, ag.mem} /\ count'.batches = 1 /\ ag'.mem = ag.mem
      /\ count'.cut = count.cut
      /\ \/ disk' = ag.mem /\ ag'.pc = pc /\ ag'.c = ag.c
         \/ ag'.pc = "idle" /\ ag'.c = Inactive
  BY <1>0, Persisting DEF Moved
<1>2. Entries' \subseteq Entries
  BY <1>1, InactiveFields, EmptyRange DEF Entries
<1>3. file \in Nat /\ file <= file' /\ file' \in Nat /\ rec' = rec
  BY IInvParts DEF Typed, store
<1>4. True'
  BY <1>0, <1>1, <1>2, <1>3, TrueStill
<1>5. Range(disk) \subseteq Range(disk') /\ Range(disk') \subseteq Range(ag.mem)
  BY <1>0, <1>1, HInvParts DEF Complete, Busy
<1>6. Heard \subseteq Heard'
  BY <1>5, HeardGrows
<1>7. Complete'
  BY <1>0, <1>1, <1>5, <1>6, HInvParts DEF Complete, Busy
<1> QED BY <1>4, <1>7 DEF HInv

\* A call comes back.
LEMMA GotTruth ==
  ASSUME IInv, HInv, Busy, NEW outs \in Seq(Said), Got(outs),
         \A e \in Entries : Truth(e)', \A c \in Risky : Action(c)',
         ~ag.cancelled => \A i \in 1..Len(outs) : \A e : e = Entry(ag.c.next + i, outs[i]) => Truth(e)',
         count'.batches = count.batches, UNCHANGED <<cont, disk, ask>>
  PROVE  HInv'
<1>0. Typed /\ count.batches = 1 /\ cont.active
  BY IInvParts
<1>1. Returning(ag', ag, outs)
  BY <1>0, Returns
<1>2. Entries' = Entries
  BY <1>1 DEF Returning, Entries
<1>3. Finishing'
  BY <1>1 DEF Returning, Finishing
<1>4. GotTrue'
  BY <1>1 DEF Returning, GotTrue
<1>5. True'
  BY <1>2, <1>3, <1>4 DEF True
<1>6. Complete'
  BY <1>0, <1>1, HInvParts DEF Complete, Busy, Heard, Returning
<1> QED BY <1>5, <1>6 DEF HInv

-----------------------------------------------------------------------------
(* What the session says: the actions                                      *)

LEMMA Unrun ==
  ASSUME IInv, NEW c \in Risky, rec[c].status \in {"absent", "pending", "approved", "denied", "expired"}
  PROVE  effects[c] = 0 /\ c \in Calls
<1>1. c \in Calls
  BY Sizes
<1>2. claims[c] = 0
  BY <1>1, IInvParts DEF Proved!IInv, Proved!Coherent, Proved!Claimed, Proved!Outcomes
<1>3. effects[c] \in Nat /\ effects[c] <= 0
  BY <1>1, <1>2, IInvParts DEF Counted, Typed
<1> QED BY <1>1, <1>3

\* A step on one identity leaves the others' results true.
LEMMA OthersTrue ==
  ASSUME IInv, HInv, NEW c \in Calls,
         \A o \in Calls \ {c} : rec'[o] = rec[o] /\ effects'[o] = effects[o] /\ Calm(o),
         file' \in Nat, file <= file',
         \A e \in Entries : e.call = c => Truth(e)', c \in Risky => Action(c)'
  PROVE  (\A e \in Entries : Truth(e)') /\ (\A o \in Risky : Action(o)')
<1>0. file \in Nat /\ Risky \subseteq Calls /\ \A o \in Risky : Action(o)
  BY HInvParts, IInvParts, Sizes DEF Typed
<1>1. ASSUME NEW e \in Entries PROVE Truth(e)'
  <2>1. e.call \in Calls /\ Truth(e)
    BY EntriesTyped, HInvParts
  <2>2. CASE e.call = c
    BY <2>2
  <2>3. CASE e.call # c
    BY <1>0, <2>1, <2>3, PointTruth
  <2> QED BY <2>2, <2>3
<1>2. ASSUME NEW o \in Risky PROVE Action(o)'
  <2>1. CASE o = c
    BY <2>1
  <2>2. CASE o # c
    <3>1. Action(o) /\ o \in Calls \ {c}
      BY <1>0, <2>2
    <3>2. rec[o].status # "absent" => rec[o].digest \in Nat
      BY <3>1 DEF Action
    <3>3. rec[o].status # "absent" /\ rec[o].digest <= file => rec[o].digest <= file'
      BY <1>0, <3>2
    <3> QED BY <3>1, <3>3 DEF Action
  <2> QED BY <2>1, <2>2
<1> QED BY <1>1, <1>2

\* ... and one that leaves the store alone leaves all of them true.
LEMMA AllTrue ==
  ASSUME IInv, HInv, rec' = rec, effects' = effects, file' = file, \A o \in Calls : Calm(o)
  PROVE  (\A e \in Entries : Truth(e)') /\ (\A o \in Risky : Action(o)')
<1>0. file \in Nat /\ file' \in Nat /\ file <= file' /\ Risky \subseteq Calls /\ \A o \in Risky : Action(o)
  BY HInvParts, IInvParts, Sizes DEF Typed
<1>1. ASSUME NEW e \in Entries PROVE Truth(e)'
  <2>1. e.call \in Calls /\ Truth(e)
    BY EntriesTyped, HInvParts
  <2> QED BY <1>0, <2>1, PointTruth
<1>2. ASSUME NEW o \in Risky PROVE Action(o)'
  BY <1>0 DEF Action
<1> QED BY <1>1, <1>2

LEMMA CalmGot ==
  ASSUME NEW outs \in Seq(Said), Typed, Got(outs), UNCHANGED cont, count'.batches = count.batches,
         count.cut \subseteq count'.cut
  PROVE  \A o : Calm(o)
<1>1. ag'.pc = "got"
  BY Returns DEF Returning
<1> QED BY <1>1 DEF Calm

LEMMA InitTrue == Init => HInv
<1> SUFFICES ASSUME Init PROVE HInv
  OBVIOUS
<1>1. IInv /\ disk = <<>> /\ ag.mem = <<>>
  BY InitInv
<1>2. /\ ag.pc = "idle" /\ ag.c = Inactive /\ cont = Inactive /\ count.batches = 0
      /\ rec = [c \in Calls |-> Store!NoRecord]
  BY DEF Init, Asleep, Store!Init
<1>3. Entries = {}
  BY <1>1, <1>2, InactiveFields, EmptyRange DEF Entries
<1>4. \A c \in Calls : rec[c].status = "absent"
  BY <1>2 DEF Store!NoRecord
<1>5. True
  BY <1>2, <1>3, <1>4, Sizes DEF True, Action, Finishing, GotTrue
<1>6. Complete
  BY <1>1, <1>2, <1>4, InactiveFields, Sizes DEF Complete, Busy
<1> QED BY <1>5, <1>6 DEF HInv

LEMMA LoopTrue == ASSUME IInv, HInv, Loop, UNCHANGED ask PROVE HInv'
<1>0. Busy /\ UNCHANGED <<store, disk, file, effects, ask>>
  BY DEF Loop, Busy
<1>1. CASE ag.cancelled \/ ~Repeatable(ag.c)
  BY <1>0, <1>1, QuitTrue DEF Loop
<1>2. CASE ~(ag.cancelled \/ ~Repeatable(ag.c))
  <2> SUFFICES ASSUME NEW c, c = [ag.c EXCEPT !.executing = TRUE] PROVE HInv'
    OBVIOUS
  <2>1. c \in Frozen /\ c.next = ag.c.next /\ c.buffered = ag.c.buffered /\ c.active = ag.c.active
    BY IInvParts DEF Frozen
  <2>2. Range(c.buffered) \subseteq Entries /\ 1..c.next \subseteq Heard /\ c.active
    BY <1>0, <2>1, HInvParts, IInvParts DEF Entries, Complete
  <2>3. Save(c, "run")
    BY <1>2 DEF Loop
  <2> QED BY <1>0, <2>1, <2>2, <2>3, SaveTrue
<1> QED BY <1>1, <1>2

LEMMA ClearTrue == ASSUME IInv, HInv, Clear, UNCHANGED ask PROVE HInv'
<1>0. /\ Busy /\ ag'.pc = "idle" /\ ag'.c = Inactive /\ ag'.mem = ag.mem
      /\ UNCHANGED <<store, disk, file, effects, ask>> /\ ag.c.next = N
  BY Resting, IInvParts DEF Clear, Busy, Stop, Rested
<1>1. cont' \in {cont, Inactive} /\ count'.batches = count.batches /\ count'.cut = count.cut
  BY CountFields, IInvParts DEF Clear, Cleared
<1>2. Entries' \subseteq Entries
  BY <1>0, <1>1, InactiveFields, EmptyRange DEF Entries
<1>3. file \in Nat /\ file <= file' /\ file' \in Nat /\ rec' = rec /\ cont.active
  BY <1>0, IInvParts DEF Typed, store
<1>4. True'
  BY <1>0, <1>1, <1>2, <1>3, TrueStill
<1>5. Calls \subseteq Heard
  BY <1>0, HInvParts DEF Complete, Calls
<1>6. Complete'
  BY <1>0, <1>1, <1>3, <1>5, IInvParts, HInvParts, InactiveFields DEF Complete, Busy, Heard
<1> QED BY <1>4, <1>6 DEF HInv

LEMMA ReadTrue == ASSUME IInv, HInv, Read, UNCHANGED ask PROVE HInv'
<1>0. Busy /\ rec' = rec /\ UNCHANGED <<cont, disk, effects, file, ask>>
  BY DEF Read, Busy, store
<1>1. PICK outs \in Seq({"ok", "effect_unknown"}) :
           /\ \A i \in 1..Len(outs) : Kind[ag.c.next + i] = "read"
           /\ Got(outs) /\ count'.batches = count.batches /\ count'.cut = count.cut
  BY Reading
<1>2. {"ok", "effect_unknown"} \subseteq Said
  BY DEF Said, Outs
<1>3. outs \in Seq(Said)
  BY <1>2
<1>4. \A o : Calm(o)
  BY <1>0, <1>1, <1>3, CalmGot, IInvParts
<1>5. (\A e \in Entries : Truth(e)') /\ (\A o \in Risky : Action(o)')
  BY <1>0, <1>4, AllTrue
<1>6. ASSUME NEW i \in 1..Len(outs), NEW e, e = Entry(ag.c.next + i, outs[i]) PROVE Truth(e)'
  <2>1. Kind[e.call] = "read"
    BY <1>1, <1>6, EntryFields
  <2> QED BY <2>1 DEF Truth
<1> QED BY <1>0, <1>1, <1>3, <1>5, <1>6, GotTruth

LEMMA PlainTrue == ASSUME IInv, HInv, Plain, UNCHANGED ask PROVE HInv'
<1>0. /\ Busy /\ ag.c.next < N /\ Kind[At] = "plain" /\ effects[At] = 0 /\ rec' = rec
      /\ UNCHANGED <<cont, disk, file, count, ask>> /\ cont.active
  BY IInvParts DEF Plain, Busy, Midway, Shaped, Spent, store
<1>1. PICK out \in {"ok", "failed", "effect_unknown"} : Got(<<out>>)
  BY DEF Plain
<1> SUFFICES ASSUME NEW c \in Calls, c = At PROVE HInv'
  BY <1>0, IInvParts DEF At, Calls
<1>2. effects \in [Calls -> Nat] /\ effects' = [effects EXCEPT ![c] = 1] /\ c \notin Risky
  BY <1>0, IInvParts DEF Plain, Typed, Risky
<1>3. <<out>> \in Seq(Said) /\ Len(<<out>>) = 1
  <2>1. out \in Said
    BY DEF Said, Outs
  <2> QED BY <2>1
<1>4. \A o : Calm(o)
  BY <1>0, <1>1, <1>3, CalmGot, IInvParts
<1>5. ASSUME NEW e \in Entries, e.call = c PROVE Truth(e)'
  <2>1. e.out \notin {"ok", "refused", "denied", "interrupted"}
    BY <1>0, <1>2, <1>5, HInvParts DEF Truth
  <2>2. e.out = "cancelled" => c \in count'.cut
    BY <1>0, <1>5, HInvParts DEF Truth
  <2> QED BY <1>0, <1>5, <2>1, <2>2 DEF Truth
<1>6. file' \in Nat /\ file <= file'
  BY <1>0, IInvParts DEF Typed
<1>7. (\A e \in Entries : Truth(e)') /\ (\A o \in Risky : Action(o)')
  BY <1>0, <1>2, <1>4, <1>5, <1>6, OthersTrue
<1>8. ASSUME NEW i \in 1..Len(<<out>>), NEW e, e = Entry(ag.c.next + i, <<out>>[i]) PROVE Truth(e)'
  <2>1. e.call = c /\ e.out = out
    BY <1>3, <1>8, EntryFields DEF At
  <2>2. effects'[c] = 1
    BY <1>2
  <2> QED BY <1>0, <1>2, <2>1, <2>2 DEF Truth
<1> QED BY <1>0, <1>1, <1>3, <1>7, <1>8, GotTruth

\* A single answer comes back.
LEMMA OneTruth ==
  ASSUME IInv, HInv, Busy, NEW out \in Said, Got(<<out>>),
         \A e \in Entries : Truth(e)', \A c \in Risky : Action(c)',
         ~ag.cancelled => \A e : e.call = At /\ e.out = out => Truth(e)',
         count'.batches = count.batches, UNCHANGED <<cont, disk, ask>>
  PROVE  HInv'
<1>1. <<out>> \in Seq(Said) /\ Len(<<out>>) = 1
  OBVIOUS
<1>2. ASSUME ~ag.cancelled, NEW i \in 1..Len(<<out>>), NEW e, e = Entry(ag.c.next + i, <<out>>[i])
      PROVE  Truth(e)'
  <2>1. e.call = At /\ e.out = out
    BY <1>1, <1>2, EntryFields DEF At
  <2> QED BY <1>2, <2>1
<1> QED BY <1>1, <1>2, GotTruth

\* ... and nothing else has changed.
LEMMA StillTruth ==
  ASSUME IInv, HInv, Busy, NEW out \in Said, Got(<<out>>),
         ~ag.cancelled => \A e : e.call = At /\ e.out = out => Truth(e)',
         UNCHANGED <<store, cont, disk, file, effects, count, ask>>
  PROVE  HInv'
<1>1. <<out>> \in Seq(Said)
  OBVIOUS
<1>2. \A o : Calm(o)
  BY <1>1, CalmGot, IInvParts
<1>3. rec' = rec
  BY DEF store
<1>4. (\A e \in Entries : Truth(e)') /\ (\A o \in Risky : Action(o)')
  BY <1>2, <1>3, AllTrue
<1> QED BY <1>4, OneTruth

\* The process goes on with a risky call.
LEMMA OnwardTrue ==
  ASSUME IInv, HInv, Busy, NEW pc \in {"authorize", "claim"}, ag' = [ag EXCEPT !.pc = pc],
         \A e \in Entries : Truth(e)', \A c \in Risky : Action(c)',
         UNCHANGED <<cont, disk, count>>
  PROVE  HInv'
<1>0. pc \in Pcs /\ count.batches = 1 /\ cont.active
  BY IInvParts DEF Pcs
<1>1. Moved(ag', ag, pc, ag.c)
  BY <1>0, Moving, IInvParts
<1>2. Entries' = Entries
  BY <1>1 DEF Moved, Entries
<1>3. True'
  BY <1>1, <1>2 DEF Moved, Finishing, GotTrue, True
<1>4. Complete'
  BY <1>0, <1>1, HInvParts DEF Complete, Busy, Heard, Moved
<1> QED BY <1>3, <1>4 DEF HInv

LEMMA CalmOnward ==
  ASSUME IInv, NEW pc \in {"authorize", "claim"}, ag' = [ag EXCEPT !.pc = pc], UNCHANGED <<cont, count>>
  PROVE  \A o : Calm(o)
<1>1. ag'.pc = pc
  BY IInvParts DEF Agents
<1> QED BY <1>1 DEF Calm

\* A refusal is true of a call that has not run and cannot run any more.
LEMMA Denial ==
  ASSUME NEW c \in Risky, effects'[c] = 0, Shut(c)'
  PROVE  \A e : e.call = c /\ e.out = "denied" => Truth(e)'
  BY DEF Truth

LEMMA FreezeTrue == ASSUME IInv, HInv, Freeze, UNCHANGED ask PROVE HInv'
<1> SUFFICES ASSUME NEW c \in Risky, c \in Calls, c = At PROVE HInv'
  BY CallAtHand DEF Freeze
<1>0. /\ ag.c.next < N /\ Busy /\ Kind[c] \in {"write", "shell"} /\ cont.active
      /\ UNCHANGED <<cont, disk, file, effects, count, ask>>
  BY CallAtHand, IInvParts DEF Freeze
<1>1. Action(c) /\ file \in Nat /\ rec[c].status \in Proved!Statuses
  BY HInvParts, RecordFields, IInvParts DEF Typed
<1>2. ASSUME Got(<<"denied">>), UNCHANGED store,
             ~ag.cancelled => effects[c] = 0 /\ Shut(c)'
      PROVE  HInv'
  <2>1. ~ag.cancelled => \A e : e.call = c /\ e.out = "denied" => Truth(e)'
    BY <1>0, <1>2, Denial
  <2>2. "denied" \in Said
    BY DEF Said, Outs
  <2> QED BY <1>0, <1>2, <2>1, <2>2, StillTruth
<1>3. CASE ag.cancelled
  BY <1>2, <1>3 DEF Freeze
<1>4. ASSUME Prior(rec[c]) # "none", Got(<<Prior(rec[c])>>), UNCHANGED store PROVE HInv'
  <2>1. CASE Prior(rec[c]) = "denied"
    <3>1. rec[c].status \in {"denied", "expired"}
      BY <1>4, <2>1, IInvParts DEF Prior, Receipted
    <3>2. effects[c] = 0 /\ Shut(c)'
      BY <1>4, <3>1, Unrun DEF Shut, store
    <3> QED BY <1>2, <1>4, <2>1, <3>2
  <2>2. CASE Prior(rec[c]) # "denied"
    <3> SUFFICES ASSUME NEW out, out = Prior(rec[c]) PROVE HInv'
      OBVIOUS
    <3>1. \/ out = "pending"
          \/ rec[c].status = "completed" /\ out = rec[c].receipt /\ out \in {"ok", "refused"}
      BY <1>4, <2>2, IInvParts DEF Prior, Receipted
    <3>2. out \in Said
      BY <3>1 DEF Said, Outs
    <3>3. out = "ok" => effects[c] = 1
      BY <1>1, <3>1 DEF Action
    <3>4. out = "refused" => effects[c] = 0
      BY <1>1, <3>1 DEF Action
    <3>5. \A e : e.call = c /\ e.out = out => Truth(e)'
      BY <1>0, <1>4, <3>1, <3>3, <3>4 DEF Truth, store
    <3> QED BY <1>0, <1>4, <3>2, <3>5, StillTruth
  <2> QED BY <2>1, <2>2
<1>5. CASE Prior(rec[c]) = "none" /\ ~ag.cancelled
  <2>1. rec[c].status \in {"absent", "pending", "approved"}
    BY <1>1, <1>5, IInvParts DEF Prior, Receipted, Action, Proved!Statuses
  <2>2. effects[c] = 0
    BY <2>1, Unrun
  <2>3. CASE Store!Changed(c, Digest(c))
    <3>1. Kind[c] = "write" /\ rec[c].status \in {"pending", "approved"} /\ rec[c].digest < file
      BY <1>0, <1>1, <2>1, <2>3 DEF Store!Changed, Digest, Action
    <3>2. Got(<<"denied">>) /\ UNCHANGED store
      BY <1>5, <2>3 DEF Freeze
    <3>3. Shut(c)'
      BY <1>0, <3>1, <3>2 DEF Shut, store
    <3> QED BY <1>2, <2>2, <3>2, <3>3
  <2>4. CASE ~Store!Changed(c, Digest(c))
    <3> SUFFICES ASSUME NEW d \in Nat, d = Digest(c) PROVE HInv'
      BY DigestNat
    <3>1. Store!Create(c, d) /\ ag' = [ag EXCEPT !.pc = "authorize"]
      BY <1>5, <2>4 DEF Freeze
    <3>2. Operates(c)
      BY <3>1, IInvParts, StoreCreate
    <3>3. \A o : Calm(o)
      BY <1>0, <3>1, CalmOnward
    <3>4. ASSUME NEW e \in Entries, e.call = c PROVE Truth(e)'
      <4>1. rec[c].status # "absent" => rec[c].digest = d
        BY <2>4 DEF Store!Changed
      <4>2. rec[c].status # "absent" => ~(Kind[c] = "write" /\ rec[c].digest < file)
        BY <1>1, <4>1 DEF Digest
      <4>3. Truth(e)
        BY HInvParts
      <4> QED BY <1>0, <2>1, <3>4, <4>2, <4>3, OpenTruth
    <3>5. Action(c)'
      <4>1. CASE rec[c].status # "absent"
        BY <1>0, <1>1, <3>1, <4>1, CreateStep DEF Action
      <4>2. CASE rec[c].status = "absent"
        <5>1. rec'[c].status = "pending" /\ rec'[c].digest = d
          BY <3>1, <4>2, CreateStep
        <5> QED BY <1>0, <1>1, <5>1 DEF Action, Digest
      <4> QED BY <4>1, <4>2
    <3>6. file' \in Nat /\ file <= file'
      BY <1>0, <1>1
    <3>7. (\A e \in Entries : Truth(e)') /\ (\A o \in Risky : Action(o)')
      BY <1>0, <3>2, <3>3, <3>4, <3>5, <3>6, OthersTrue DEF Operates, Proved!Untouched
    <3> QED BY <1>0, <3>1, <3>7, OnwardTrue
  <2> QED BY <2>3, <2>4
<1> QED BY <1>3, <1>4, <1>5 DEF Freeze

\* A decision contradicts no result of its call.
LEMMA DecisionTrue ==
  ASSUME IInv, HInv, cont.active, NEW c \in Risky, NEW allow \in BOOLEAN, Store!Decide(c, allow),
         \A o : Calm(o), UNCHANGED <<file, effects>>
  PROVE  (\A e \in Entries : Truth(e)') /\ (\A o \in Risky : Action(o)')
<1>0. c \in Calls /\ file' \in Nat /\ file <= file' /\ Kind[c] \notin {"read", "plain"}
  BY Sizes, IInvParts DEF Typed, Risky
<1>1. Operates(c)
  BY <1>0, IInvParts, StoreDecide
<1>2. /\ rec'[c].status \in {"expired", "approved", "denied"} /\ rec'[c].digest = rec[c].digest
      /\ rec[c].status \in {"pending", "approved", "denied"}
  BY <1>0, DecideStep
<1>3. rec[c].status = "denied" => rec'[c].status = "denied"
  BY <1>1 DEF Operates, Proved!Kept
<1>4. ASSUME NEW e \in Entries, e.call = c PROVE Truth(e)'
  <2>1. Truth(e)
    BY HInvParts
  <2>2. e.out \notin {"ok", "refused", "failed", "interrupted"}
    BY <1>0, <1>2, <1>4, <2>1 DEF Truth
  <2>3. e.out = "denied" => effects[c] = 0 /\ Shut(c)
    BY <1>0, <1>4, <2>1 DEF Truth
  <2>4. e.out = "denied" => Shut(c)'
    BY <1>2, <1>3, <2>3 DEF Shut
  <2>5. e.out = "cancelled" => c \in count'.cut
    BY <1>0, <1>4, <2>1 DEF Truth, Calm
  <2> QED BY <1>4, <2>2, <2>3, <2>4, <2>5 DEF Truth
<1>5. Action(c)'
  BY <1>2, HInvParts DEF Action
<1> QED BY <1>0, <1>1, <1>4, <1>5, OthersTrue DEF Operates, Proved!Untouched

LEMMA AuthorizeTrue == ASSUME IInv, HInv, Authorize, UNCHANGED ask PROVE HInv'
<1> SUFFICES ASSUME NEW c \in Risky, c \in Calls, c = At PROVE HInv'
  BY CallAtHand DEF Authorize
<1>0. /\ Busy /\ cont.active
      /\ UNCHANGED <<cont, disk, file, effects, count, ask>>
  BY CallAtHand, IInvParts DEF Authorize
<1>1. "pending" \in Said /\ "denied" \in Said /\ <<"denied">> \in Seq(Said)
  BY DEF Said, Outs
<1>2. \A e : e.out = "pending" => Truth(e)'
  BY DEF Truth
<1>3. CASE Got(<<"pending">>) /\ UNCHANGED store
  BY <1>0, <1>1, <1>2, <1>3, StillTruth
<1>4. CASE Got(<<"denied">>) /\ UNCHANGED store /\ ag.cancelled
  BY <1>0, <1>1, <1>4, StillTruth
<1>5. CASE ag' = [ag EXCEPT !.pc = "claim"] /\ UNCHANGED store
  <2>1. \A o : Calm(o)
    BY <1>0, <1>5, CalmOnward
  <2>2. (\A e \in Entries : Truth(e)') /\ (\A o \in Risky : Action(o)')
    BY <1>0, <1>5, <2>1, AllTrue DEF store
  <2> QED BY <1>0, <1>5, <2>2, OnwardTrue
<1>6. CASE \E allow \in BOOLEAN :
             /\ Store!Decide(At, allow)
             /\ IF rec'[At].status = "approved"
                THEN ag' = [ag EXCEPT !.pc = "claim"]
                ELSE Got(<<"denied">>)
  <2>1. PICK allow \in BOOLEAN :
             /\ Store!Decide(c, allow)
             /\ IF rec'[c].status = "approved"
                THEN ag' = [ag EXCEPT !.pc = "claim"]
                ELSE Got(<<"denied">>)
    BY <1>6
  <2>2. \A o : Calm(o)
    BY <1>0, <1>1, <2>1, CalmOnward, CalmGot, IInvParts
  <2>3. (\A e \in Entries : Truth(e)') /\ (\A o \in Risky : Action(o)')
    BY <1>0, <2>1, <2>2, DecisionTrue
  <2>4. CASE rec'[c].status = "approved"
    BY <1>0, <2>1, <2>3, <2>4, OnwardTrue
  <2>5. CASE rec'[c].status # "approved"
    <3>1. rec'[c].status \in {"expired", "denied"} /\ rec[c].status \in {"pending", "approved", "denied"}
      BY <2>1, <2>5, DecideStep
    <3>2. effects'[c] = 0 /\ Shut(c)'
      BY <1>0, <3>1, Unrun DEF Shut
    <3>3. \A e : e.call = c /\ e.out = "denied" => Truth(e)'
      BY <3>2, Denial
    <3> QED BY <1>0, <1>1, <2>1, <2>3, <2>5, <3>3, OneTruth
  <2> QED BY <2>4, <2>5
<1> QED BY <1>3, <1>4, <1>5, <1>6 DEF Authorize

LEMMA ClaimTrue == ASSUME IInv, HInv, Claim, UNCHANGED ask PROVE HInv'
<1> SUFFICES ASSUME NEW c \in Risky, c \in Calls, c = At PROVE HInv'
  BY CallAtHand DEF Claim
<1>0. /\ Busy /\ cont.active /\ count.batches = 1 /\ file \in Nat /\ Kind[c] \in {"write", "shell"}
      /\ UNCHANGED <<cont, disk, file, effects, count, ask>>
  BY CallAtHand, IInvParts DEF Claim, Typed
<1>1. "pending" \in Said /\ "denied" \in Said /\ <<"denied">> \in Seq(Said)
  BY DEF Said, Outs
<1>2. \A e : e.out = "pending" => Truth(e)'
  BY DEF Truth
<1>3. CASE Got(<<"pending">>) /\ UNCHANGED store
  BY <1>0, <1>1, <1>2, <1>3, StillTruth
<1>4. CASE Got(<<"denied">>) /\ UNCHANGED store /\ ag.cancelled
  BY <1>0, <1>1, <1>4, StillTruth
<1>5. CASE /\ Store!Claim(At, Digest(At))
           /\ IF rec'[At].status = "claimed"
              THEN ag' = [ag EXCEPT !.pc = "dispatch", !.token = rec'[At].token]
              ELSE Got(<<"denied">>)
  <2> SUFFICES ASSUME NEW d \in Nat, d = Digest(c), NEW t, t = rec'[c].token PROVE HInv'
    BY DigestNat
  <2>1. /\ Store!Claim(c, d)
        /\ rec'[c].status = "claimed" => ag' = [ag EXCEPT !.pc = "dispatch", !.token = t]
        /\ rec'[c].status # "claimed" => Got(<<"denied">>)
    BY <1>5
  <2>2. /\ rec[c].status = "approved" /\ rec[c].digest = d
        /\ rec'[c].status \in {"expired", "claimed"} /\ rec'[c].digest = d /\ t \in Nat
    BY <2>1, ClaimStep
  <2>3. Operates(c) /\ effects[c] = 0
    BY <2>1, <2>2, IInvParts, StoreClaim, Unrun
  <2>4. ASSUME NEW e \in Entries, e.call = c PROVE Truth(e)'
    <3>1. Truth(e)
      BY HInvParts
    <3>2. ~(Kind[c] = "write" /\ rec[c].digest < file)
      BY <1>0, <2>2 DEF Digest
    <3> QED BY <1>0, <2>2, <2>4, <3>1, <3>2, OpenTruth
  <2>5. Action(c)'
    BY <1>0, <2>2 DEF Action, Digest
  <2>6. ASSUME \A o \in Calls \ {c} : Calm(o)
        PROVE  (\A e \in Entries : Truth(e)') /\ (\A o \in Risky : Action(o)')
    BY <1>0, <2>3, <2>4, <2>5, <2>6, OthersTrue DEF Operates, Proved!Untouched
  <2>7. CASE rec'[c].status # "claimed"
    <3>1. \A o : Calm(o)
      BY <1>0, <1>1, <2>1, <2>7, CalmGot, IInvParts
    <3>2. Shut(c)' /\ effects'[c] = 0
      BY <1>0, <2>2, <2>3, <2>7 DEF Shut
    <3>3. \A e : e.call = c /\ e.out = "denied" => Truth(e)'
      BY <3>2, Denial
    <3> QED BY <1>0, <1>1, <2>1, <2>6, <2>7, <3>1, <3>3, OneTruth
  <2>8. CASE rec'[c].status = "claimed"
    <3>1. ag'.pc = "dispatch" /\ ag'.c = ag.c /\ ag'.mem = ag.mem
      BY <2>1, <2>2, <2>8, IInvParts DEF Agents
    <3>2. \A o \in Calls \ {c} : Calm(o)
      BY <1>0, <3>1 DEF Calm, At
    <3>3. Entries' = Entries
      BY <1>0, <3>1 DEF Entries
    <3>4. True'
      BY <2>6, <3>1, <3>2, <3>3 DEF True, Finishing, GotTrue
    <3>5. Complete'
      BY <1>0, <3>1, HInvParts DEF Complete, Busy, Heard
    <3> QED BY <3>4, <3>5 DEF HInv
  <2> QED BY <2>7, <2>8
<1> QED BY <1>3, <1>4, <1>5 DEF Claim

LEMMA DispatchTrue == ASSUME IInv, HInv, Dispatch, UNCHANGED ask PROVE HInv'
<1> SUFFICES ASSUME NEW c \in Risky, c \in Calls, c = At PROVE HInv'
  BY CallAtHand DEF Dispatch
<1>0. /\ Busy /\ cont.active /\ count.batches = 1 /\ file \in Nat /\ ag.pc = "dispatch"
      /\ UNCHANGED <<store, cont, disk, count, ask>> /\ rec' = rec
  BY CallAtHand, IInvParts DEF Dispatch, Typed, store
<1>1. effects[c] = 0 /\ rec[c].status = "claimed" /\ effects \in [Calls -> Nat]
  BY <1>0, IInvParts DEF Spent, Typed
<1>2. CASE Got(<<"denied">>) /\ UNCHANGED <<file, effects>>
  <2>1. "denied" \in Said /\ <<"denied">> \in Seq(Said)
    BY DEF Said, Outs
  <2>2. ag'.pc = "got"
    BY <1>2, <2>1, Returns, IInvParts DEF Returning
  <2>3. \A e : e.call = c /\ e.out = "denied" => Truth(e)'
    BY <1>0, <1>1, <1>2, <2>2, Denial DEF Shut
  <2> QED BY <1>0, <1>2, <2>1, <2>3, StillTruth
<1>3. CASE \E out \in {"ok", "failed", "refused"} :
             /\ ag' = [ag EXCEPT !.pc = "finish", !.got = <<out>>]
             /\ effects' = IF out = "refused" THEN effects ELSE [effects EXCEPT ![c] = 1]
             /\ file' \in Nat /\ file <= file'
  <2>1. PICK out \in {"ok", "failed", "refused"} :
             /\ ag' = [ag EXCEPT !.pc = "finish", !.got = <<out>>]
             /\ effects' = IF out = "refused" THEN effects ELSE [effects EXCEPT ![c] = 1]
    BY <1>3
  <2>2. ag'.pc = "finish" /\ ag'.c = ag.c /\ ag'.got = <<out>> /\ ag'.mem = ag.mem
    BY <2>1, IInvParts DEF Agents
  <2>3. /\ \A o \in Calls \ {c} : effects'[o] = effects[o]
        /\ out = "refused" => effects'[c] = 0
        /\ out # "refused" => effects'[c] = 1
    BY <1>1, <2>1
  <2>4. \A o \in Calls \ {c} : Calm(o)
    BY <1>0, <2>2 DEF Calm, At
  <2>5. ASSUME NEW e \in Entries, e.call = c PROVE Truth(e)'
    <3>1. Truth(e)
      BY HInvParts
    <3> QED BY <1>0, <1>1, <2>5, <3>1, OpenTruth
  <2>6. Action(c)'
    <3>1. Action(c)
      BY HInvParts
    <3>2. rec[c].digest <= file => rec[c].digest <= file'
      BY <1>0, <1>1, <1>3, <3>1 DEF Action
    <3> QED BY <1>0, <1>1, <3>1, <3>2 DEF Action
  <2>7. (\A e \in Entries : Truth(e)') /\ (\A o \in Risky : Action(o)')
    BY <1>0, <1>3, <2>3, <2>4, <2>5, <2>6, OthersTrue
  <2>8. Entries' = Entries
    BY <1>0, <2>2 DEF Entries
  <2>9. Finishing'
    <3>1. <<out>> = <<"refused">> <=> out = "refused"
      OBVIOUS
    <3>2. ag'.c.next + 1 = c /\ rec'[c].status = "claimed"
      BY <1>0, <1>1, <2>2 DEF At
    <3> QED BY <2>2, <2>3, <3>1, <3>2 DEF Finishing, At
  <2>10. True'
    BY <2>2, <2>7, <2>8, <2>9 DEF True, GotTrue
  <2>11. Complete'
    BY <1>0, <2>2, HInvParts DEF Complete, Busy, Heard
  <2> QED BY <2>10, <2>11 DEF HInv
<1>4. \/ Got(<<"denied">>) /\ UNCHANGED <<file, effects>>
      \/ \E out \in {"ok", "failed", "refused"} :
             /\ ag' = [ag EXCEPT !.pc = "finish", !.got = <<out>>]
             /\ effects' = IF out = "refused" THEN effects ELSE [effects EXCEPT ![c] = 1]
             /\ file' \in Nat /\ file <= file'
  <2>1. CASE Got(<<"denied">>) /\ UNCHANGED <<file, effects>>
    BY <2>1
  <2>2. CASE ag' = [ag EXCEPT !.pc = "finish", !.got = <<"refused">>] /\ UNCHANGED <<file, effects>>
    BY <1>0, <2>2
  <2>3. ASSUME NEW out \in {"ok", "failed"}, ag' = [ag EXCEPT !.pc = "finish", !.got = <<out>>],
               effects' = [effects EXCEPT ![At] = @ + 1],
               file' = IF Kind[At] = "write" THEN file + 1 ELSE file
        PROVE  /\ effects' = IF out = "refused" THEN effects ELSE [effects EXCEPT ![c] = 1]
               /\ file' \in Nat /\ file <= file'
    BY <1>0, <1>1, <2>3
  <2> QED BY <2>1, <2>2, <2>3 DEF Dispatch
<1> QED BY <1>2, <1>3, <1>4

LEMMA FinishTrue == ASSUME IInv, HInv, Finish, UNCHANGED ask PROVE HInv'
<1> SUFFICES ASSUME NEW c \in Risky, c \in Calls, c = At PROVE HInv'
  BY CallAtHand DEF Finish
<1>0. /\ Busy /\ cont.active /\ count.batches = 1 /\ file \in Nat /\ ag.pc = "finish"
      /\ UNCHANGED <<cont, disk, file, effects, ask>> /\ Kind[c] \in {"write", "shell"}
  BY CallAtHand, IInvParts DEF Finish, Typed
<1>1. PICK out \in {"ok", "failed", "refused"} : ag.got = <<out>>
  BY <1>0, IInvParts DEF Midway
<1>2. /\ rec[c].status = "claimed"
      /\ out = "refused" => effects[c] = 0
      /\ out # "refused" => effects[c] = 1
  <2>1. <<out>> = <<"refused">> <=> out = "refused"
    OBVIOUS
  <2> QED BY <1>0, <1>1, <2>1, HInvParts DEF Finishing
<1>3. count'.batches = count.batches /\ count'.cut = count.cut
  BY IInvParts, CountFields DEF Finish, Typed
<1> SUFFICES ASSUME NEW o \in {"completed", "unknown"}, o = IF out \in {"ok", "refused"} THEN "completed" ELSE "unknown",
                    NEW t, t = ag.token
             PROVE  HInv'
  OBVIOUS
<1>4. Outcome = o /\ ag.got[1] = out /\ t \in Nat
  BY <1>1, AgentFields, IInvParts DEF Outcome
<1>5. PICK said \in {"ok", "refused", "effect_unknown", "receipt_unknown"} :
        /\ Got(<<said>>)
        /\ Store!Finish(c, t, o, out) \/ UNCHANGED store
        /\ said \in {"ok", "refused"} => said = out /\ o = "completed" /\ Store!Finish(c, t, o, out)
  <2>1. CASE /\ Store!Finish(c, t, o, out)
             /\ Got(IF o = "unknown" THEN <<"effect_unknown">> ELSE <<out>>)
    BY <2>1
  <2>2. CASE Got(<<"receipt_unknown">>) /\ (Store!Finish(c, t, o, out) \/ UNCHANGED store)
    BY <2>2
  <2> QED BY <1>1, <1>4, <2>1, <2>2 DEF Finish
<1>6. said \in Said /\ <<said>> \in Seq(Said)
  <2>1. said \in Said
    BY DEF Said, Outs
  <2> QED BY <2>1
<1>7. \A k : Calm(k)
  BY <1>0, <1>3, <1>5, <1>6, CalmGot, IInvParts
<1>8. ASSUME NEW e \in Entries, e.call = c PROVE Truth(e)'
  <2>1. Truth(e)
    BY HInvParts
  <2> QED BY <1>0, <1>2, <1>3, <1>8, <2>1, OpenTruth
<1>9. file' \in Nat /\ file <= file' /\ Action(c)
  BY <1>0, HInvParts
<1>10. ASSUME Store!Finish(c, t, o, out)
       PROVE  /\ rec'[c].status = o /\ rec'[c].receipt = out /\ rec'[c].digest = rec[c].digest
              /\ Operates(c)
  BY <1>4, <1>10, FinishStep, StoreFinish, IInvParts
<1>11. (\A e \in Entries : Truth(e)') /\ (\A k \in Risky : Action(k)')
  <2>1. CASE Store!Finish(c, t, o, out)
    <3>1. Action(c)'
      BY <1>0, <1>2, <1>9, <1>10, <2>1 DEF Action
    <3> QED BY <1>0, <1>7, <1>8, <1>9, <1>10, <2>1, <3>1, OthersTrue DEF Operates, Proved!Untouched
  <2>2. CASE UNCHANGED store
    BY <1>0, <1>7, <2>2, AllTrue DEF store
  <2> QED BY <1>5, <2>1, <2>2
<1>12. \A e : e.call = c /\ e.out = said => Truth(e)'
  BY <1>0, <1>2, <1>5, <1>10 DEF Truth
<1> QED BY <1>0, <1>3, <1>5, <1>6, <1>11, <1>12, OneTruth

\* The results the process adds to its messages are true.
LEMMA AcceptedTrue ==
  ASSUME IInv, HInv, Caught, ag.pc = "got", NEW outs, Replaced(outs), outs # <<"pending">>,
         NEW i \in 1..Len(outs), NEW e, e = Entry(ag.c.next + i, outs[i])
  PROVE  Truth(e)
<1>0. ag.got \in Seq(Said) /\ Len(outs) = Len(ag.got) /\ Len(ag.got) \in Nat
  BY IInvParts DEF Replaced
<1>1. CASE ~ag.cancelled
  BY <1>0, <1>1, HInvParts DEF Replaced, GotTrue
<1>2. CASE ag.cancelled /\ Len(ag.got) = 1
  <2>1. outs = <<"cancelled">>
    BY <1>2 DEF Replaced
  <2>2. e.out = "cancelled" /\ e.call = At
    BY <1>0, <1>2, <2>1, EntryFields DEF At
  <2>3. At \in count.cut
    BY <1>2 DEF Caught, InHand
  <2> QED BY <2>2, <2>3 DEF Truth
<1>3. CASE Len(ag.got) # 1
  <2>1. Kind[e.call] = "read"
    BY <1>0, <1>3, EntryFields, IInvParts DEF Midway
  <2> QED BY <2>1 DEF Truth
<1> QED BY <1>1, <1>2, <1>3

\* ... and stay so when they have been added.
LEMMA AddedTrue ==
  ASSUME IInv, HInv, Caught, Busy, ag.pc = "got", NEW outs, Replaced(outs), outs # <<"pending">>,
         NEW h \in Seq(Outs), Len(h) <= Len(outs), \A i \in 1..Len(h) : h[i] = outs[i],
         NEW m, Extended(m, ag.mem, ag.c.next, h),
         ag'.pc \in {"idle", "journal"}, ag'.mem = m, ag'.c \in {ag.c, Inactive},
         ag'.pc # "idle" => ag'.c = ag.c,
         count'.batches = count.batches, count'.cut = count.cut,
         UNCHANGED <<store, cont, disk, file, effects, ask>>
  PROVE  HInv'
<1>0. cont.active /\ count.batches = 1 /\ Len(outs) \in Nat /\ Len(h) \in Nat
  BY IInvParts DEF Replaced
<1>1. PICK t \in Results : /\ m = ag.mem \o t /\ Len(t) = Len(h)
                           /\ \A i \in 1..Len(t) : t[i] = Entry(ag.c.next + i, h[i])
  BY DEF Extended
<1>2. Range(m) = Range(ag.mem) \cup Range(t)
  BY <1>1, ResultRange, IInvParts
<1>3. Entries' \subseteq Entries \cup Range(t)
  BY <1>2, InactiveFields, EmptyRange DEF Entries
<1>4. ASSUME NEW e \in Range(t) PROVE Truth(e) /\ e.call \in Calls
  <2>1. PICK i \in 1..Len(t) : e = t[i]
    BY <1>1, ResultFields DEF Range
  <2>2. i \in 1..Len(outs) /\ i \in 1..Len(h)
    BY <1>0, <1>1, <2>1
  <2>3. e = Entry(ag.c.next + i, outs[i])
    BY <1>1, <2>1, <2>2
  <2>4. Truth(e)
    BY <2>2, <2>3, AcceptedTrue
  <2> QED BY <2>1, <2>4, ResultFields
<1>5. \A o : Calm(o)
  BY <1>0 DEF Calm
<1>6. file \in Nat /\ file' \in Nat /\ file <= file' /\ rec' = rec /\ \A c \in Risky : Action(c)
  BY HInvParts, IInvParts DEF Typed, store
<1>7. \A e \in Entries \cup Range(t) : Truth(e) /\ e.call \in Calls
  BY <1>4, EntriesTyped, HInvParts
<1>8. \A e \in Entries' : Truth(e)'
  BY <1>3, <1>5, <1>6, <1>7, PointTruth
<1>9. \A c \in Risky : Action(c)'
  BY <1>6 DEF Action
<1>10. True'
  BY <1>8, <1>9 DEF True, Finishing, GotTrue
<1>11. Complete'
  BY <1>0, <1>2, HInvParts DEF Complete, Busy, Heard
<1> QED BY <1>10, <1>11 DEF HInv

LEMMA AcceptTrue == ASSUME IInv, HInv, Caught, Accept, UNCHANGED ask PROVE HInv'
<1>0. /\ Busy /\ ag.pc = "got" /\ ag.c.next < N
      /\ UNCHANGED <<store, disk, file, effects, ask>>
  BY IInvParts DEF Accept, Busy, Midway
<1>1. CASE Paused
  <2>0. PICK c : /\ c = [ag.c EXCEPT !.pending = At, !.executing = FALSE] /\ Save(c, "paused")
    BY <1>1 DEF Paused
  <2>1. At \in 0..N
    BY <1>0, IInvParts DEF At
  <2>2. c \in Frozen /\ c.next = ag.c.next /\ c.buffered = ag.c.buffered /\ c.active = ag.c.active
    BY <2>0, <2>1, IInvParts DEF Frozen
  <2>3. Range(c.buffered) \subseteq Entries /\ 1..c.next \subseteq Heard /\ c.active
    BY <1>0, <2>2, HInvParts, IInvParts DEF Entries, Complete
  <2> QED BY <1>0, <2>0, <2>2, <2>3, SaveTrue
<1>2. CASE HeldUp
  <2>1. PICK outs, k, h :
          /\ Replaced(outs) /\ outs # <<"pending">>
          /\ Heeds(outs, k, h) /\ k \in 0..Len(outs) /\ k < Len(outs)
          /\ ag' = [Stopped EXCEPT !.mem = Heeded(outs, k)]
          /\ count' = [count EXCEPT !.parted = @ \/ k > 0]
          /\ UNCHANGED cont
    BY <1>2 DEF HeldUp
  <2>2. Len(outs) \in Nat
    BY <2>1 DEF Replaced
  <2>3. /\ ag'.pc = "idle" /\ ag'.c = Inactive /\ ag'.mem = Heeded(outs, k)
        /\ count'.batches = count.batches /\ count'.cut = count.cut
    BY <2>1, <2>2, HeldUpFields
  <2>4. h \in Seq(Outs) /\ Len(h) = k /\ \A i \in 1..Len(h) : h[i] = outs[i]
    BY <2>1 DEF Heeds
  <2>5. Extended(Heeded(outs, k), ag.mem, ag.c.next, h)
    BY <2>1 DEF Heeds
  <2>6. Len(h) <= Len(outs)
    BY <2>1, <2>2, <2>4
  <2> QED BY <1>0, <2>1, <2>3, <2>4, <2>5, <2>6, AddedTrue
<1>3. CASE Taken
  <2>1. PICK outs, m :
          /\ Replaced(outs) /\ outs \in Seq(Outs) /\ Extended(m, ag.mem, ag.c.next, outs)
          /\ ag' = [ag EXCEPT !.pc = "journal", !.got = outs, !.mem = m]
          /\ UNCHANGED <<cont, count>>
    BY <1>3 DEF Taken
  <2>2. outs # <<"pending">>
    <3>1. outs \in Seq(Outs) /\ Len(outs) \in 1..N
      BY <1>0, <2>1, IInvParts DEF Replaced, Midway
    <3>2. outs[1] \in Outs
      BY <3>1
    <3> QED BY <3>2 DEF Outs
  <2>3. ag'.pc = "journal" /\ ag'.mem = m /\ ag'.c = ag.c
    BY <2>1, IInvParts DEF Agents
  <2>4. outs \in Seq(Outs) /\ Len(outs) \in Nat /\ Len(outs) <= Len(outs)
    BY <2>1 DEF Replaced
  <2> QED BY <1>0, <2>1, <2>2, <2>3, <2>4, AddedTrue
<1> QED BY <1>1, <1>2, <1>3, Accepting

LEMMA PauseTrue == ASSUME IInv, HInv, Pause, UNCHANGED ask PROVE HInv'
<1>1. Busy
  BY DEF Pause, Busy
<1> QED BY <1>1, QuitTrue DEF Pause

LEMMA JournalTrue == ASSUME IInv, HInv, Journal, UNCHANGED ask PROVE HInv'
<1>0. Busy /\ ag.pc = "journal" /\ UNCHANGED <<store, disk, file, effects, ask>>
  BY DEF Journal, Busy
<1> SUFFICES ASSUME NEW r, r = Returned, NEW c, c = [ag.c EXCEPT !.buffered = r] PROVE HInv'
  OBVIOUS
<1> SUFFICES ASSUME NEW mem \in Results, mem = ag.mem, NEW n \in Nat, n = Len(ag.got) PROVE HInv'
  BY IInvParts
<1>1. n <= Len(mem)
  BY <1>0, IInvParts DEF Midway
<1>2. Suffix(r, mem, n)
  BY <1>1, LastMessages DEF Returned
<1>3. r \in Results
  BY <1>2 DEF Suffix
<1>4. Range(r) \subseteq Range(mem)
  <2> SUFFICES ASSUME NEW e \in Range(r) PROVE e \in Range(mem)
    OBVIOUS
  <2>1. PICK i \in 1..Len(r) : e = r[i]
    BY <1>3, ResultFields DEF Range
  <2>2. i \in 1..n /\ e = mem[Len(mem) - n + i]
    BY <1>2, <2>1 DEF Suffix
  <2>3. Len(mem) \in Nat /\ DOMAIN mem = 1..Len(mem)
    BY ResultFields
  <2>4. Len(mem) - n + i \in 1..Len(mem)
    BY <1>1, <2>2, <2>3, Offset
  <2> QED BY <2>2, <2>3, <2>4 DEF Range
<1>5. c \in Frozen /\ c.next = ag.c.next /\ c.buffered = r /\ c.active = ag.c.active
  BY <1>3, IInvParts DEF Frozen
<1>6. Range(c.buffered) \subseteq Entries /\ 1..c.next \subseteq Heard /\ c.active
  BY <1>0, <1>4, <1>5, HInvParts, IInvParts DEF Entries, Complete
<1>7. Save(c, "ledger")
  BY DEF Journal
<1> QED BY <1>0, <1>5, <1>6, <1>7, SaveTrue

LEMMA LedgerTrue == ASSUME IInv, HInv, Ledger, UNCHANGED ask PROVE HInv'
  BY SessionTrue DEF Ledger

LEMMA RestoreTrue == ASSUME IInv, HInv, Restore, UNCHANGED ask PROVE HInv'
  BY SessionTrue DEF Restore

LEMMA ReenterTrue == ASSUME IInv, HInv, Reenter, UNCHANGED ask PROVE HInv'
  BY SessionTrue DEF Reenter

LEMMA AdvanceTrue == ASSUME IInv, HInv, Advance, UNCHANGED ask PROVE HInv'
<1>0. Busy /\ ag.pc = "advance" /\ UNCHANGED <<store, disk, file, effects, ask>>
  BY DEF Advance, Busy
<1> SUFFICES ASSUME NEW n \in Nat, n = Len(ag.got), NEW mem \in Results, mem = ag.mem PROVE HInv'
  BY IInvParts
<1> SUFFICES ASSUME NEW k, k = ag.c.next + n, NEW c,
                    c = [ag.c EXCEPT !.next = k, !.executing = FALSE, !.buffered = <<>>]
             PROVE  HInv'
  OBVIOUS
<1>1. /\ k \in 0..N /\ n <= Len(mem) /\ disk = mem
      /\ \A i \in 1..n : mem[Len(mem) - n + i] = Entry(ag.c.next + i, ag.got[i])
  BY <1>0, IInvParts, HInvParts DEF Midway, Complete
<1>2. <<>> \in Results
  BY DEF Results
<1>3. /\ c \in Frozen /\ c.next = k /\ c.buffered = <<>> /\ c.active = ag.c.active
  BY <1>1, <1>2, IInvParts DEF Frozen
<1>4. 1..k \subseteq Heard
  <2> SUFFICES ASSUME NEW j \in 1..k PROVE j \in Heard
    OBVIOUS
  <2>0. Len(mem) \in Nat /\ DOMAIN mem = 1..Len(mem) /\ ag.c.next \in Nat
    BY ResultFields, IInvParts
  <2>1. CASE j <= ag.c.next
    BY <1>0, <2>0, <2>1, HInvParts DEF Complete
  <2>2. CASE j > ag.c.next
    <3>1. PICK i \in 1..n : j = ag.c.next + i
      <4>1. j - ag.c.next \in 1..n /\ j = ag.c.next + (j - ag.c.next)
        BY <2>0, <2>2
      <4> QED BY <4>1
    <3>2. Len(mem) - n + i \in 1..Len(mem)
      BY <1>1, <2>0, <3>1, Offset
    <3>3. disk[Len(mem) - n + i].call = j
      BY <1>1, <3>1, EntryFields
    <3> QED BY <1>1, <2>0, <3>2, <3>3 DEF Heard
  <2> QED BY <2>0, <2>1, <2>2
<1>5. Range(c.buffered) \subseteq Entries /\ c.active
  BY <1>0, <1>3, EmptyRange, IInvParts
<1>6. Save(c, "loop")
  BY DEF Advance
<1> QED BY <1>0, <1>3, <1>4, <1>5, <1>6, SaveTrue

LEMMA RestoredTrue == ASSUME IInv, HInv, Restored, UNCHANGED ask PROVE HInv'
<1>0. Busy /\ ag.pc = "restored" /\ UNCHANGED <<store, disk, file, effects, ask>>
  BY DEF Restored, Busy
<1>1. CASE ag.cancelled
  BY <1>0, <1>1, QuitTrue DEF Restored, SaveUnlessCancelled
<1>2. CASE ~ag.cancelled
  <2>0. ag.c.buffered \in Results
    BY IInvParts, FrozenFields
  <2> SUFFICES ASSUME NEW b \in Results, b = ag.c.buffered, NEW k, k = ag.c.next + Len(b)
               PROVE  HInv'
    BY <2>0
  <2> SUFFICES ASSUME NEW c, c = [ag.c EXCEPT !.next = k, !.executing = FALSE, !.buffered = <<>>]
               PROVE  HInv'
    OBVIOUS
  <2>1. Numbered(ag.c)
    BY IInvParts DEF Shaped
  <2>2. Len(b) \in Nat /\ DOMAIN b = 1..Len(b) /\ ag.c.next \in Nat
    BY ResultFields, IInvParts
  <2>3. k \in 0..N
    BY <2>1, BufferedFits, IInvParts
  <2>4. <<>> \in Results
    BY DEF Results
  <2>5. /\ c \in Frozen /\ c.next = k /\ c.buffered = <<>> /\ c.active = ag.c.active
    BY <2>3, <2>4, IInvParts DEF Frozen
  <2>6. 1..k \subseteq Heard
    <3> SUFFICES ASSUME NEW j \in 1..k PROVE j \in Heard
      OBVIOUS
    <3>1. CASE j <= ag.c.next
      BY <1>0, <2>2, <3>1, HInvParts DEF Complete
    <3>2. CASE j > ag.c.next
      <4>1. PICK i \in 1..Len(b) : j = ag.c.next + i
        <5>1. j - ag.c.next \in 1..Len(b) /\ j = ag.c.next + (j - ag.c.next)
          BY <2>2, <3>2
        <5> QED BY <5>1
      <4>2. b[i].call = j /\ b[i] \in Range(b)
        BY <2>1, <2>2, <4>1 DEF Numbered, Range
      <4>3. b[i] \in Range(disk)
        BY <1>0, <4>2, HInvParts DEF Complete
      <4> QED BY <4>2, <4>3, HeardRange
    <3> QED BY <2>2, <3>1, <3>2
  <2>7. Range(c.buffered) \subseteq Entries /\ c.active
    BY <1>0, <2>5, EmptyRange, IInvParts
  <2>8. Save(c, "decide")
    BY <1>2 DEF Restored, SaveUnlessCancelled
  <2> QED BY <1>0, <2>5, <2>6, <2>7, <2>8, SaveTrue
<1> QED BY <1>1, <1>2

LEMMA ResaveTrue == ASSUME IInv, HInv, Resave, UNCHANGED ask PROVE HInv'
<1>0. Busy /\ UNCHANGED <<store, disk, file, effects, ask>>
  BY DEF Resave, Busy
<1>1. CASE ag.cancelled
  BY <1>0, <1>1, QuitTrue DEF Resave, SaveUnlessCancelled
<1>2. CASE ~ag.cancelled
  <2> SUFFICES ASSUME NEW c, c = ag.c PROVE HInv'
    OBVIOUS
  <2>1. Save(c, "reenter")
    BY <1>2 DEF Resave, SaveUnlessCancelled
  <2>2. Range(c.buffered) \subseteq Entries /\ 1..c.next \subseteq Heard /\ c.active /\ c \in Frozen
    BY <1>0, HInvParts, IInvParts DEF Entries, Complete
  <2> QED BY <1>0, <2>1, <2>2, SaveTrue
<1> QED BY <1>1, <1>2

LEMMA DecideTrue == ASSUME IInv, HInv, Decide, UNCHANGED ask PROVE HInv'
<1>0. /\ Busy /\ ag.pc = "decide" /\ UNCHANGED <<cont, disk, file, effects, count, ask>>
      /\ cont.active /\ count.batches = 1
  BY IInvParts DEF Decide, Busy
<1>1. ag.want.id \in Risky /\ ag.want.allow \in BOOLEAN
  BY <1>0, IInvParts, AgentFields DEF Midway
<1> SUFFICES ASSUME NEW id \in Risky, id = ag.want.id, NEW allow \in BOOLEAN, allow = ag.want.allow
             PROVE  HInv'
  BY <1>1
<1>2. Store!Decide(id, allow) \/ UNCHANGED store
  BY DEF Decide
<1>3. /\ ag'.pc \in {"idle", "resave"} /\ ag'.mem = ag.mem
      /\ \/ ag'.pc = "idle" /\ ag'.c = Inactive
         \/ ag'.c.next = ag.c.next /\ ag'.c.buffered = ag.c.buffered
  <2>1. CASE ag' = Stopped
    BY <2>1, Resting, IInvParts DEF Rested
  <2>2. CASE ag' = [ag EXCEPT !.pc = "resave", !.c.pending = id]
    <3>1. PICK c : c = [ag.c EXCEPT !.pending = id]
      OBVIOUS
    <3>2. c.next = ag.c.next /\ c.buffered = ag.c.buffered
      BY <3>1, IInvParts DEF Frozen
    <3>3. ag' = [ag EXCEPT !.pc = "resave", !.c = c]
      BY <2>2, <3>1, IInvParts DEF Agents
    <3>4. ag'.pc = "resave" /\ ag'.c = c /\ ag'.mem = ag.mem
      BY <3>3, IInvParts DEF Agents
    <3> QED BY <3>2, <3>4
  <2> QED BY <2>1, <2>2 DEF Decide, Stop
<1>4. \A o : Calm(o)
  BY <1>0, <1>3 DEF Calm
<1>5. (\A e \in Entries : Truth(e)') /\ (\A o \in Risky : Action(o)')
  <2>1. CASE Store!Decide(id, allow)
    BY <1>0, <1>4, <2>1, DecisionTrue
  <2>2. CASE UNCHANGED store
    BY <1>0, <1>4, <2>2, AllTrue DEF store
  <2> QED BY <1>2, <2>1, <2>2
<1>6. Entries' \subseteq Entries
  BY <1>0, <1>3, InactiveFields, EmptyRange DEF Entries
<1>7. True'
  BY <1>3, <1>5, <1>6 DEF True, Finishing, GotTrue
<1>8. Complete'
  BY <1>0, <1>3, HInvParts DEF Complete, Busy, Heard
<1> QED BY <1>7, <1>8 DEF HInv

LEMMA AskTrue == ASSUME IInv, HInv, Ask, UNCHANGED ask PROVE HInv'
<1>0. /\ ag.pc = "idle" /\ count.batches = 0 /\ ~cont.active
      /\ UNCHANGED <<store, disk, file, effects, ask>> /\ rec' = rec
      /\ file \in Nat /\ file' \in Nat /\ file <= file'
  BY IInvParts DEF Ask, Typed, store
<1> SUFFICES ASSUME NEW f, f = [Inactive EXCEPT !.active = TRUE, !.digest = disk] PROVE HInv'
  OBVIOUS
<1>1. f \in Frozen /\ f.active /\ f.buffered = <<>> /\ f.next = 0
  BY InactiveFields, IInvParts DEF Frozen
<1>2. cont' \in {cont, f}
  BY DEF Ask
<1>3. /\ ag'.pc \in {"idle", "loop"} /\ ag'.mem = ag.mem
      /\ ag'.pc = "idle" => ag'.c = Inactive
      /\ ag'.pc = "loop" => ag'.c = f
  <2>1. CASE ag' = Stopped
    BY <2>1, Resting, IInvParts DEF Rested
  <2>2. CASE ag' = [ag EXCEPT !.c = f, !.pc = "loop"]
    BY <2>2, IInvParts DEF Agents
  <2> QED BY <2>1, <2>2 DEF Ask, Stop
<1>4. Entries' \subseteq Entries
  BY <1>0, <1>1, <1>2, <1>3, InactiveFields, EmptyRange DEF Entries
<1>5. True'
  BY <1>0, <1>3, <1>4, AskCount, TrueStill
<1>6. \A c \in Risky : rec'[c].status = "absent"
  BY <1>0, HInvParts DEF Complete
<1>7. cont'.active => cont'.next = 0
  BY <1>0, <1>1, <1>2
<1>8. ag'.pc # "idle" => ag'.c.next = 0
  BY <1>1, <1>3
<1>9. 1..0 = {}
  OBVIOUS
<1>10. Complete'
  BY <1>0, <1>3, <1>6, <1>7, <1>8, <1>9, HInvParts DEF Complete, Busy
<1> QED BY <1>5, <1>10 DEF HInv

LEMMA ResumeTrue ==
  ASSUME IInv, HInv, NEW id \in Risky, NEW allow \in BOOLEAN, Resume(id, allow), UNCHANGED ask
  PROVE  HInv'
<1>0. /\ UNCHANGED <<store, cont, disk, file, effects, count, ask>> /\ cont.active /\ ag.pc = "idle"
      /\ rec' = rec /\ file \in Nat /\ file' \in Nat /\ file <= file' /\ Recoverable
  BY IInvParts DEF Resume, Typed, store
<1>1. /\ ag'.c = cont /\ ag'.pc = IF cont.buffered = <<>> THEN "decide" ELSE "restore"
      /\ ag'.mem = IF cont.buffered = <<>> THEN ag.mem ELSE Recovered
  BY Resuming DEF Resumes
<1>2. cont.digest \in Results /\ cont.buffered \in Results /\ disk \in Results
  BY IInvParts, FrozenFields
<1>3. /\ Range(disk) \subseteq Range(Recovered)
      /\ Range(cont.buffered) \subseteq Range(Recovered)
      /\ Range(Recovered) \subseteq Range(disk) \cup Range(cont.buffered)
  <2>1. Range(Recovered) = Range(cont.digest) \cup Range(cont.buffered)
    <3>1. Range(cont.digest \o cont.buffered) = Range(cont.digest) \cup Range(cont.buffered)
      BY <1>2, ResultRange
    <3>2. Recovered = cont.digest \o cont.buffered
      BY <1>0, Recovering
    <3> QED BY <3>1, <3>2
  <2>2. Recovered = disk \/ Range(Recovered) = Range(disk) \cup Range(cont.buffered)
    <3>1. Range(disk \o cont.buffered) = Range(disk) \cup Range(cont.buffered)
      BY <1>2, ResultRange
    <3>2. Recovered = disk \/ Recovered = disk \o cont.buffered
      BY <1>0, Recovering
    <3> QED BY <3>1, <3>2
  <2> QED BY <2>1, <2>2
<1>4. Range(disk) \subseteq Range(ag'.mem) /\ Range(ag'.mem) \subseteq Entries
  BY <1>0, <1>1, <1>3, HInvParts DEF Complete, Entries
<1>5. Entries' \subseteq Entries
  BY <1>0, <1>1, <1>4 DEF Entries
<1>6. True'
  BY <1>0, <1>1, <1>5, TrueStill
<1>7. Complete'
  BY <1>0, <1>1, <1>3, <1>4, HInvParts DEF Complete, Busy, Heard
<1> QED BY <1>6, <1>7 DEF HInv

LEMMA CrashTrue == ASSUME IInv, HInv, Crash, UNCHANGED ask PROVE HInv'
<1>0. UNCHANGED <<store, cont, disk, file, effects, ask>> /\ rec' = rec /\ file' \in Nat /\ file <= file'
  BY IInvParts DEF Crash, Typed, store
<1>1. <<>> \in Results
  BY DEF Results
<1>2. ag'.pc = "down" /\ ag'.c = Inactive /\ ag'.mem = <<>>
  BY <1>1, AsleepFields DEF Crash
<1>3. count'.batches = count.batches /\ count'.cut = count.cut
  BY IInvParts, CrashCount DEF Typed
<1>4. Entries' \subseteq Entries
  BY <1>0, <1>2, InactiveFields, EmptyRange DEF Entries
<1>5. True'
  BY <1>0, <1>2, <1>3, <1>4, TrueStill
<1>6. Complete'
  BY <1>0, <1>2, <1>3, HInvParts DEF Complete, Busy, Heard
<1> QED BY <1>5, <1>6 DEF HInv

\* What a restart adds to the session is true: no risky call of a batch that was
\* not finished and left no continuation has a record.
LEMMA InterruptedTrue ==
  ASSUME IInv, HInv, ~cont.active, NEW e \in Range(Unanswered)
  PROVE  Truth(e) /\ e.call \in Calls
<1>1. Unanswered \in Results
  BY Closing
<1>2. PICK i \in 1..Len(Unanswered) : e = Unanswered[i]
  BY <1>1, ResultFields DEF Range
<1>3. e.call \in Missing /\ e.out = "interrupted"
  BY <1>2, Closing
<1>4. count.batches \in {0, 1}
  BY IInvParts DEF Typed, Counts
<1>5. e.call \in Calls /\ count.batches = 1 /\ e.call \notin Heard
  BY <1>3, <1>4 DEF Missing
<1>6. \A c \in Risky : rec[c].status = "absent"
  BY <1>5, HInvParts DEF Complete
<1> QED BY <1>3, <1>5, <1>6 DEF Truth

LEMMA RestartTrue == ASSUME IInv, HInv, Restart, UNCHANGED ask PROVE HInv'
<1>0. /\ ag.pc = "down" /\ UNCHANGED <<store, cont, file, effects, ask>>
      /\ rec' = rec /\ file \in Nat /\ file' \in Nat /\ file <= file'
      /\ \A c \in Risky : Action(c)
  BY IInvParts, HInvParts DEF Restart, Typed, store
<1> SUFFICES ASSUME NEW m, m = IF cont.active THEN disk ELSE disk \o Unanswered PROVE HInv'
  OBVIOUS
<1>1. /\ count'.batches = count.batches /\ count'.cut = count.cut
      /\ \/ disk' = m /\ ag'.pc = "idle" /\ ag'.c = Inactive /\ ag'.mem = m
         \/ disk' \in {disk, m} /\ ag' = ag
  BY Restarting DEF Restarts
<1>2. /\ Range(disk) \subseteq Range(m)
      /\ \A e \in Range(m) : e \in Entries \/ (~cont.active /\ e \in Range(Unanswered))
  <2>1. CASE cont.active
    BY <2>1 DEF Entries
  <2>2. CASE ~cont.active
    <3>1. Range(m) = Range(disk) \cup Range(Unanswered)
      BY <2>2, Closing, ResultRange, IInvParts
    <3> QED BY <2>2, <3>1 DEF Entries
  <2> QED BY <2>1, <2>2
<1>3. \A e \in Entries' : e \in Entries \/ (~cont.active /\ e \in Range(Unanswered))
  BY <1>0, <1>1, <1>2, InactiveFields, EmptyRange DEF Entries
<1>4. \A e \in Entries' : Truth(e) /\ e.call \in Calls
  BY <1>3, InterruptedTrue, EntriesTyped, HInvParts
<1>5. \A o : Calm(o)
  BY <1>0, <1>1 DEF Calm
<1>6. \A e \in Entries' : Truth(e)'
  BY <1>0, <1>4, <1>5, PointTruth
<1>7. \A c \in Risky : Action(c)'
  BY <1>0 DEF Action
<1>8. ag'.pc \in {"down", "idle"}
  BY <1>0, <1>1
<1>9. True'
  BY <1>6, <1>7, <1>8 DEF True, Finishing, GotTrue
<1>10. Range(disk) \subseteq Range(disk') /\ (ag'.pc # "down" => disk' = ag'.mem)
  BY <1>0, <1>1, <1>2
<1>11. Heard \subseteq Heard'
  BY <1>10, HeardGrows
<1>12. Complete'
  BY <1>0, <1>1, <1>8, <1>10, <1>11, HInvParts DEF Complete, Busy
<1> QED BY <1>9, <1>12 DEF HInv

LEMMA CancelTrue == ASSUME IInv, HInv, Cancel, UNCHANGED ask PROVE HInv'
<1>0. UNCHANGED <<store, cont, disk, file, effects, ask>> /\ rec' = rec /\ file' \in Nat /\ file <= file'
  BY IInvParts DEF Cancel, Typed, store
<1>1. count'.batches = count.batches /\ count.cut \subseteq count'.cut
  BY CancelCount
<1>2. ag'.pc = ag.pc /\ ag'.c = ag.c /\ ag'.mem = ag.mem /\ ag'.got = ag.got
  BY IInvParts DEF Cancel, Agents
<1>3. ag'.cancelled
  BY IInvParts DEF Cancel, Agents
<1>4. Entries' = Entries
  BY <1>0, <1>2 DEF Entries
<1>5. True'
  BY <1>0, <1>1, <1>2, <1>3, <1>4, TrueStill
<1>6. Complete'
  BY <1>0, <1>1, <1>2, HInvParts DEF Complete, Busy, Heard
<1> QED BY <1>5, <1>6 DEF HInv

\* A step that changes at most the file's version and the clock.
LEMMA OutsideTrue ==
  ASSUME IInv, HInv, rec' = rec, file' \in Nat, file <= file', count'.batches = count.batches,
         count'.cut = count.cut,
         UNCHANGED <<cont, disk, ag, effects>>
  PROVE  HInv'
<1>1. Entries' = Entries
  BY DEF Entries
<1>2. True'
  BY <1>1, TrueStill
<1>3. Complete'
  BY HInvParts DEF Complete, Busy, Heard
<1> QED BY <1>2, <1>3 DEF HInv

LEMMA EditTrue == ASSUME IInv, HInv, Edit, UNCHANGED ask PROVE HInv'
<1>1. file' \in Nat /\ file <= file' /\ rec' = rec
  BY IInvParts DEF Edit, Typed, store
<1>2. count'.batches = count.batches /\ count'.cut = count.cut
  BY IInvParts DEF Edit, Typed, Counts
<1> QED BY <1>1, <1>2, OutsideTrue DEF Edit

LEMMA ExpireTrue == ASSUME IInv, HInv, Expire, UNCHANGED ask PROVE HInv'
<1>1. rec' = rec
  BY DEF Expire, Store!Tick
<1>2. file' \in Nat /\ file <= file'
  BY IInvParts DEF Expire, Typed
<1> QED BY <1>1, <1>2, OutsideTrue DEF Expire

LEMMA WorkTrue == ASSUME IInv, HInv, Caught, Work, UNCHANGED ask PROVE HInv'
  BY LoopTrue, ClearTrue, ReadTrue, PlainTrue, FreezeTrue, AuthorizeTrue, ClaimTrue,
     DispatchTrue, FinishTrue, AcceptTrue, PauseTrue, JournalTrue, LedgerTrue, AdvanceTrue,
     RestoreTrue, RestoredTrue, DecideTrue, ResaveTrue, ReenterTrue DEF Work

LEMMA StepTrue == IInv /\ HInv /\ Caught /\ [Next]_vars => HInv'
<1> SUFFICES ASSUME IInv, HInv, Caught, [Next]_vars PROVE HInv'
  OBVIOUS
<1>1. CASE UNCHANGED vars
  <2>1. /\ rec' = rec /\ file' \in Nat /\ file <= file' /\ count' = count
        /\ UNCHANGED <<cont, disk, ag, effects>>
    BY <1>1, IInvParts DEF vars, store, Typed
  <2> QED BY <2>1, OutsideTrue
<1>2. CASE Next
  BY <1>2, WorkTrue, AskTrue, ResumeTrue, CrashTrue, RestartTrue, CancelTrue, EditTrue,
     ExpireTrue DEF Next
<1> QED BY <1>1, <1>2

-----------------------------------------------------------------------------
(* What the session says: which calls a cancellation cut                   *)

LEMMA InitCaught == Init => Caught
  BY DEF Init, Asleep, Caught, InHand

\* A call stays in hand.
LEMMA HandedOn ==
  ASSUME Caught, InHand, ag'.c.next = ag.c.next, ag'.cancelled = ag.cancelled,
         count.cut \subseteq count'.cut
  PROVE  Caught'
  BY DEF Caught, InHand, At

LEMMA GotCaught ==
  ASSUME IInv, Caught, InHand, NEW outs, Got(outs), count.cut \subseteq count'.cut
  PROVE  Caught'
<1>1. ag'.c = ag.c /\ ag'.cancelled = ag.cancelled
  BY IInvParts DEF Got, Agents
<1> QED BY <1>1, HandedOn

LEMMA StepsOn ==
  ASSUME IInv, Caught, InHand, NEW pc, ag' = [ag EXCEPT !.pc = pc], count.cut \subseteq count'.cut
  PROVE  Caught'
<1>1. ag'.c = ag.c /\ ag'.cancelled = ag.cancelled
  BY IInvParts DEF Agents
<1> QED BY <1>1, HandedOn

\* No call is in hand after the step.
LEMMA HandsFree ==
  ASSUME ag'.pc \notin {"run", "authorize", "claim", "dispatch", "finish", "got"}
  PROVE  Caught'
  BY DEF Caught, InHand

LEMMA StopFree ==
  ASSUME IInv, ag' = Stopped
  PROVE  Caught'
<1>1. ag'.pc = "idle"
  BY Resting, IInvParts DEF Rested
<1> QED BY <1>1, HandsFree

LEMMA SaveFree ==
  ASSUME IInv, NEW c, NEW pc \in {"paused", "ledger", "loop", "decide", "reenter"}, Save(c, pc)
  PROVE  Caught'
<1>1. PICK s : ag' = [ag EXCEPT !.c = s, !.pc = pc] \/ ag' = Stopped
  BY DEF Save, Stop
<1>2. ASSUME ag' = [ag EXCEPT !.c = s, !.pc = pc] PROVE Caught'
  <2>1. ag'.pc = pc
    BY <1>2, IInvParts DEF Agents
  <2> QED BY <2>1, HandsFree
<1> QED BY <1>1, <1>2, StopFree

LEMMA SessionFree ==
  ASSUME IInv, NEW pc \in {"advance", "restored", "loop"},
         SaveSession(ag.mem, [ag EXCEPT !.pc = pc])
  PROVE  Caught'
<1>0. pc \in Pcs /\ Typed
  BY IInvParts DEF Pcs
<1>1. ag'.pc \in {pc, "idle"}
  BY <1>0, Persisting DEF Moved
<1> QED BY <1>1, HandsFree

LEMMA LoopCaught == ASSUME IInv, Loop PROVE Caught'
<1>1. CASE ag.cancelled \/ ~Repeatable(ag.c)
  BY <1>1, StopFree DEF Loop, Stop
<1>2. CASE ~(ag.cancelled \/ ~Repeatable(ag.c))
  <2>1. PICK s : ag' = [ag EXCEPT !.c = s, !.pc = "run"] \/ ag' = Stopped
    BY <1>2 DEF Loop, Save, Stop
  <2>2. ASSUME ag' = [ag EXCEPT !.c = s, !.pc = "run"] PROVE Caught'
    <3>1. ~ag'.cancelled
      BY <1>2, <2>2, IInvParts DEF Agents
    <3> QED BY <3>1 DEF Caught
  <2> QED BY <2>1, <2>2, StopFree
<1> QED BY <1>1, <1>2

LEMMA ReadCaught == ASSUME IInv, Caught, Read PROVE Caught'
<1>1. InHand
  BY DEF Read, InHand
<1> QED BY <1>1, Reading, GotCaught

LEMMA PlainCaught == ASSUME IInv, Caught, Plain PROVE Caught'
<1>1. InHand /\ count' = count /\ \E out : Got(<<out>>)
  BY DEF Plain, InHand
<1> QED BY <1>1, GotCaught

LEMMA FreezeCaught == ASSUME IInv, Caught, Freeze PROVE Caught'
<1>1. InHand /\ count' = count
  BY DEF Freeze, InHand
<1>2. (\E out : Got(<<out>>)) \/ ag' = [ag EXCEPT !.pc = "authorize"]
  BY DEF Freeze
<1> QED BY <1>1, <1>2, GotCaught, StepsOn

LEMMA AuthorizeCaught == ASSUME IInv, Caught, Authorize PROVE Caught'
<1>1. InHand /\ count' = count
  BY DEF Authorize, InHand
<1>2. (\E out : Got(<<out>>)) \/ ag' = [ag EXCEPT !.pc = "claim"]
  BY DEF Authorize
<1> QED BY <1>1, <1>2, GotCaught, StepsOn

LEMMA ClaimCaught == ASSUME IInv, Caught, Claim PROVE Caught'
<1>1. InHand /\ count' = count
  BY DEF Claim, InHand
<1>2. \/ \E out : Got(<<out>>)
      \/ \E token : ag' = [ag EXCEPT !.pc = "dispatch", !.token = token]
  BY DEF Claim
<1>3. ASSUME NEW token, ag' = [ag EXCEPT !.pc = "dispatch", !.token = token] PROVE Caught'
  <2>1. ag'.c = ag.c /\ ag'.cancelled = ag.cancelled
    BY <1>3, IInvParts DEF Agents
  <2> QED BY <1>1, <2>1, HandedOn
<1> QED BY <1>1, <1>2, <1>3, GotCaught

LEMMA DispatchCaught == ASSUME IInv, Caught, Dispatch PROVE Caught'
<1>1. InHand /\ count' = count
  BY DEF Dispatch, InHand
<1>2. \/ Got(<<"denied">>)
      \/ \E got : ag' = [ag EXCEPT !.pc = "finish", !.got = got]
  BY DEF Dispatch
<1>3. ASSUME NEW got, ag' = [ag EXCEPT !.pc = "finish", !.got = got] PROVE Caught'
  <2>1. ag'.c = ag.c /\ ag'.cancelled = ag.cancelled
    BY <1>3, IInvParts DEF Agents
  <2> QED BY <1>1, <2>1, HandedOn
<1> QED BY <1>1, <1>2, <1>3, GotCaught

LEMMA FinishCaught == ASSUME IInv, Caught, Finish PROVE Caught'
<1>1. InHand /\ count'.cut = count.cut
  BY IInvParts, CountFields DEF Finish, InHand
<1>2. \E outs : Got(outs)
  BY DEF Finish
<1> QED BY <1>1, <1>2, GotCaught

LEMMA AcceptCaught == ASSUME IInv, Accept PROVE Caught'
<1>1. CASE Paused
  <2>1. \E c : Save(c, "paused")
    BY <1>1 DEF Paused
  <2> QED BY <2>1, SaveFree
<1>2. CASE HeldUp
  <2>1. PICK outs, k, h :
          /\ Replaced(outs) /\ Heeds(outs, k, h) /\ k \in 0..Len(outs)
          /\ ag' = [Stopped EXCEPT !.mem = Heeded(outs, k)]
          /\ count' = [count EXCEPT !.parted = @ \/ k > 0]
    BY <1>2 DEF HeldUp
  <2>2. Len(outs) \in Nat
    BY <2>1 DEF Replaced
  <2>3. ag'.pc = "idle"
    BY <2>1, <2>2, HeldUpFields
  <2> QED BY <2>3, HandsFree
<1>3. CASE Taken
  <2>1. ag'.pc = "journal"
    BY <1>3, IInvParts DEF Taken, Agents
  <2> QED BY <2>1, HandsFree
<1> QED BY <1>1, <1>2, <1>3, Accepting

LEMMA SavingCaught == ASSUME IInv, Journal \/ Advance \/ Restored \/ Resave PROVE Caught'
<1>1. \/ Stop
      \/ \E c : \E pc \in {"ledger", "loop", "decide", "reenter"} : Save(c, pc)
  BY DEF Journal, Advance, Restored, Resave, SaveUnlessCancelled
<1> QED BY <1>1, SaveFree, StopFree DEF Stop

LEMMA SessionCaught == ASSUME IInv, Ledger \/ Restore \/ Reenter PROVE Caught'
  BY SessionFree DEF Ledger, Restore, Reenter

LEMMA DecideCaught == ASSUME IInv, Decide PROVE Caught'
<1>1. ag' = Stopped \/ \E id : ag' = [ag EXCEPT !.pc = "resave", !.c.pending = id]
  BY DEF Decide, Stop
<1>2. ASSUME NEW id, ag' = [ag EXCEPT !.pc = "resave", !.c.pending = id] PROVE Caught'
  <2>1. ag'.pc = "resave"
    BY <1>2, IInvParts DEF Agents
  <2> QED BY <2>1, HandsFree
<1> QED BY <1>1, <1>2, StopFree

LEMMA AskCaught == ASSUME IInv, Ask PROVE Caught'
<1>1. PICK f : ag' = [ag EXCEPT !.c = f, !.pc = "loop"] \/ ag' = Stopped
  BY DEF Ask, Stop
<1>2. ASSUME ag' = [ag EXCEPT !.c = f, !.pc = "loop"] PROVE Caught'
  <2>1. ag'.pc = "loop"
    BY <1>2, IInvParts DEF Agents
  <2> QED BY <2>1, HandsFree
<1> QED BY <1>1, <1>2, StopFree

LEMMA ResumeCaught ==
  ASSUME IInv, NEW id \in Risky, NEW allow \in BOOLEAN, Resume(id, allow)
  PROVE  Caught'
<1>1. ag'.pc \in {"decide", "restore"}
  BY Resuming DEF Resumes
<1> QED BY <1>1, HandsFree

LEMMA RestartCaught == ASSUME IInv, Restart PROVE Caught'
<1>1. ag'.pc \in {"down", "idle"}
  BY Restarting DEF Restarts, Restart
<1> QED BY <1>1, HandsFree

LEMMA CrashCaught == ASSUME IInv, Crash PROVE Caught'
<1>1. <<>> \in Results
  BY DEF Results
<1>2. ag'.pc = "down"
  BY <1>1, AsleepFields DEF Crash
<1> QED BY <1>2, HandsFree

LEMMA CancelCaught == ASSUME IInv, Cancel PROVE Caught'
<1>1. ag'.pc = ag.pc /\ ag'.c = ag.c
  BY IInvParts DEF Cancel, Agents
<1> QED BY <1>1, CancelCount DEF Caught, InHand, At

LEMMA OutsideCaught == ASSUME IInv, Caught, UNCHANGED ag, count'.cut = count.cut PROVE Caught'
  BY DEF Caught, InHand, At

LEMMA WorkCaught == ASSUME IInv, Caught, Work PROVE Caught'
<1>1. CASE Clear \/ Pause
  BY <1>1, StopFree DEF Clear, Pause, Stop
<1> QED BY <1>1, LoopCaught, ReadCaught, PlainCaught, FreezeCaught, AuthorizeCaught, ClaimCaught,
           DispatchCaught, FinishCaught, AcceptCaught, SavingCaught, SessionCaught, DecideCaught
           DEF Work

LEMMA StepCaught == IInv /\ Caught /\ [Next]_vars => Caught'
<1> SUFFICES ASSUME IInv, Caught, [Next]_vars PROVE Caught'
  OBVIOUS
<1>1. CASE UNCHANGED vars
  BY <1>1, OutsideCaught DEF vars
<1>2. CASE Edit \/ Expire
  <2>1. UNCHANGED ag /\ count'.cut = count.cut
    BY <1>2, IInvParts DEF Edit, Expire, Typed, Counts
  <2> QED BY <2>1, OutsideCaught
<1>3. CASE Next
  BY <1>2, <1>3, WorkCaught, AskCaught, ResumeCaught, CrashCaught, RestartCaught, CancelCaught DEF Next
<1> QED BY <1>1, <1>3

\* Every result the session, the continuation and the process hold is true, and
\* every call the batch has advanced over has one.
THEOREM ResultsTrue == Spec => []HInv
<1>1. Init => IInv /\ HInv /\ Caught
  BY InitInv, InitTrue, InitCaught
<1>2. IInv /\ HInv /\ Caught /\ [Next]_vars => (IInv /\ HInv /\ Caught)'
  BY StepInv, StepTrue, StepCaught
<1> QED BY <1>1, <1>2, PTL DEF Spec

LEMMA TrueHonest == IInv /\ HInv => Honest
<1> SUFFICES ASSUME IInv, HInv, NEW i \in DOMAIN disk, NEW e, e = disk[i], Kind[e.call] # "read"
             PROVE  /\ e.out = "ok" => effects[e.call] = 1
                    /\ e.out \in {"denied", "refused"} => effects[e.call] = 0
                    /\ e.out = "cancelled" => e.call \in count.cut
                    /\ e.call \in Risky /\ rec[e.call].status = "completed" =>
                         e.out \in {rec[e.call].receipt, "cancelled"}
  BY DEF Honest
<1>1. e \in Entries
  BY DEF Entries, Range
<1>2. Truth(e) /\ e.out \in Outs
  BY <1>1, HInvParts, EntriesTyped
<1>3. e.call \in Risky => Kind[e.call] # "plain"
  BY DEF Risky
<1> QED BY <1>2, <1>3 DEF Truth, Shut, Outs

-----------------------------------------------------------------------------
(* Once and in order, while the continuation could be written              *)

LEMMA ExactConcat ==
  ASSUME NEW s \in Results, NEW t \in Results, NEW n \in Nat, Exact(s, n),
         \A i \in 1..Len(t) : t[i].call = n + i
  PROVE  Exact(s \o t, n + Len(t))
<1>1. Len(s) = n /\ Len(t) \in Nat /\ Len(s \o t) = n + Len(t)
  <2>1. Len(s \o t) = Len(s) + Len(t)
    BY DEF Results
  <2> QED BY <2>1, ResultFields DEF Exact
<1>2. /\ \A i \in 1..n : (s \o t)[i] = s[i]
      /\ \A i \in 1..Len(t) : (s \o t)[n + i] = t[i]
  BY <1>1 DEF Results
<1>3. ASSUME NEW j \in 1..(n + Len(t)) PROVE (s \o t)[j].call = j
  <2>1. CASE j <= n
    <3>1. j \in 1..n
      BY <1>1, <2>1
    <3> QED BY <1>2, <3>1 DEF Exact
  <2>2. CASE j > n
    <3>1. PICK i \in 1..Len(t) : j = n + i
      <4>1. j - n \in 1..Len(t) /\ j = n + (j - n)
        BY <1>1, <2>2
      <4> QED BY <4>1
    <3> QED BY <1>2, <3>1
  <2> QED BY <1>1, <2>1, <2>2
<1> QED BY <1>1, <1>3 DEF Exact

LEMMA EmptyTail == ASSUME NEW s \in Results PROVE s \o <<>> = s
  BY DEF Results

\* What the session has where nothing is journalled.
LEMMA SettledExact ==
  ASSUME IInv, Aligned, Busy, cont.buffered = <<>>
  PROVE  disk = cont.digest /\ Exact(disk, ag.c.next) /\ ag.c.buffered = <<>>
<1>1. cont.active /\ cont.digest \in Results
  BY IInvParts, FrozenFields
<1>2. disk = cont.digest
  BY <1>1, EmptyTail DEF Aligned, Journalled, Remembered
<1> QED BY <1>1, <1>2 DEF Aligned, Journalled, Remembered

LEMMA SaveExact ==
  ASSUME IInv, XInv, Busy, NEW c \in Frozen, NEW pc \in {"run", "paused", "ledger", "loop", "decide", "reenter"},
         Save(c, pc), c.active, UNCHANGED disk,
         ~count.parted => /\ Exact(disk, c.next)
                          /\ pc # "ledger" => c.buffered = <<>> /\ ag.mem = disk
                          /\ pc = "ledger" => /\ ag.mem = disk \o c.buffered
                                              /\ Len(c.buffered) = Len(ag.got)
  PROVE  XInv'
<1>0. Typed /\ pc \in Pcs /\ count.batches = 1
  BY IInvParts DEF Pcs
<1>1. Written(c, pc) \/ Unwritten(c)
  BY <1>0, Saving
<1>2. CASE Unwritten(c)
  BY <1>2 DEF Unwritten, XInv
<1>3. CASE Written(c, pc)
  <2> SUFFICES ASSUME ~count'.parted PROVE Aligned'
    BY DEF XInv
  <2>1. /\ Stamped(cont', c, disk) /\ ag'.pc = pc /\ ag'.c = cont' /\ ag'.mem = ag.mem
        /\ ag'.got = ag.got /\ count' = count
    BY <1>3 DEF Written, Moved
  <2>2. cont'.active /\ cont'.next = c.next /\ cont'.buffered = c.buffered /\ cont'.digest = disk
    BY <2>1 DEF Stamped
  <2>3. ~count.parted
    BY <2>1
  <2> QED BY <1>0, <2>1, <2>2, <2>3 DEF Aligned, Journalled, Remembered, Busy, Settled
<1> QED BY <1>1, <1>2, <1>3

\* The turn ends with the saved session in memory.
LEMMA QuitExact ==
  ASSUME IInv, XInv, Busy, Stop, ~count.parted => ag.mem = disk, UNCHANGED <<cont, disk, count>>
  PROVE  XInv'
<1>1. Rested(ag', ag)
  BY Resting, IInvParts DEF Stop
<1>2. ag'.pc = "idle" /\ ag'.mem = ag.mem /\ ag'.stale = ag.stale
  BY <1>1 DEF Rested
<1> QED BY <1>2 DEF XInv, Aligned, Journalled, Remembered, Busy, Settled

LEMMA SessionExact ==
  ASSUME IInv, XInv, NEW pc \in {"advance", "restored", "loop"},
         SaveSession(ag.mem, [ag EXCEPT !.pc = pc]),
         \/ pc = "advance" /\ ag.pc = "ledger"
         \/ pc = "restored" /\ ag.pc = "restore"
         \/ pc = "loop" /\ ag.pc = "reenter",
         UNCHANGED cont
  PROVE  XInv'
<1>0. Typed /\ pc \in Pcs /\ Busy /\ count.batches = 1 /\ cont.active
  BY IInvParts DEF Pcs, Busy
<1>1. /\ disk' \in {disk, ag.mem} /\ count'.batches = 1 /\ count'.parted = count.parted
      /\ \/ disk' = ag.mem /\ Moved(ag', ag, pc, ag.c)
         \/ ag'.pc = "idle" /\ ag'.mem = ag.mem /\ ag'.stale = (disk' # disk)
  BY <1>0, Persisting
<1> SUFFICES ASSUME ~count'.parted, ~count.parted, Aligned PROVE Aligned'
  BY <1>1 DEF XInv
<1>2. ag.pc # "reenter" => ag.mem = cont.digest \o cont.buffered /\ cont.buffered # <<>>
  <2>1. CASE ag.pc = "ledger"
    <3>1. Len(cont.buffered) = Len(ag.got) /\ Len(ag.got) # 0
      BY <2>1, IInvParts DEF Aligned, Journalled, Remembered, Midway
    <3> QED BY <2>1, <3>1, EmptySeq DEF Aligned, Journalled, Remembered
  <2>2. CASE ag.pc = "restore"
    BY <2>2, IInvParts DEF Aligned, Journalled, Remembered, Midway, Busy
  <2> QED BY <2>1, <2>2
<1>3. ag.pc = "reenter" => ag.mem = disk /\ cont.buffered = <<>>
  BY DEF Aligned, Journalled, Remembered, Settled
<1>4. disk' \in {cont.digest, cont.digest \o cont.buffered}
  BY <1>0, <1>1, <1>2, <1>3 DEF Aligned, Journalled, Remembered
<1>7. Journalled'
  BY <1>0, <1>4 DEF Aligned, Journalled
<1>5. CASE disk' = ag.mem /\ Moved(ag', ag, pc, ag.c)
  <2>1. ag'.pc = pc /\ ag'.c = ag.c /\ ag'.mem = ag.mem /\ ag'.got = ag.got
    BY <1>5 DEF Moved
  <2>2. ag'.c.next = cont'.next /\ ag'.c.buffered = cont'.buffered
    BY <1>0, <2>1 DEF Aligned, Journalled, Remembered
  <2>3. pc # "loop" => ag'.mem = cont'.digest \o cont'.buffered
    BY <1>2, <2>1
  <2>4. pc = "advance" => Len(cont'.buffered) = Len(ag'.got)
    BY <2>1 DEF Aligned, Journalled, Remembered
  <2>5. pc = "loop" => ag'.mem = disk' /\ cont.buffered = <<>>
    BY <1>3, <1>5, <2>1
  <2>6. Remembered'
    <3>1. CASE pc = "loop"
      BY <1>1, <2>1, <2>2, <2>5, <3>1 DEF Remembered, Settled
    <3>2. CASE pc # "loop"
      <4>1. ag'.pc \notin Settled /\ ag'.pc # "idle" /\ ag'.pc # "journal" /\ ag'.pc # "ledger"
        BY <2>1, <3>2 DEF Settled
      <4>2. count'.batches # 0
        BY <1>1
      <4>3. ag'.mem = cont'.digest \o cont'.buffered
        BY <2>3, <3>2
      <4>4. ag'.pc = "advance" => Len(cont'.buffered) = Len(ag'.got)
        BY <2>1, <2>4
      <4> QED BY <2>2, <4>1, <4>2, <4>3, <4>4, Zenon DEF Remembered
    <3> QED BY <3>1, <3>2
  <2> QED BY <1>7, <2>6 DEF Aligned
<1>6. CASE ag'.pc = "idle" /\ ag'.mem = ag.mem /\ ag'.stale = (disk' # disk)
  <2>1. ~ag'.stale => disk' = disk
    BY <1>6
  <2>2. ~ag'.stale /\ cont.buffered = <<>> => ag'.mem = disk'
    BY <1>2, <1>3, <1>6, <2>1
  <2>3. Remembered'
    BY <1>1, <1>6, <2>2 DEF Remembered, Busy, Settled
  <2> QED BY <1>7, <2>3 DEF Aligned
<1> QED BY <1>1, <1>5, <1>6

\* The process goes on within the batch; session and continuation stay.
LEMMA SettledStays ==
  ASSUME IInv, XInv, ag.pc \in Settled, ag'.pc \in Settled, ag'.mem = ag.mem,
         ag'.c.next = ag.c.next, ag'.c.buffered = ag.c.buffered, ag'.stale = ag.stale,
         count'.batches = count.batches, count'.parted = count.parted, UNCHANGED <<cont, disk>>
  PROVE  XInv'
<1>1. Busy
  BY DEF Settled, Busy
<1>2. CASE count.parted
  BY <1>2 DEF XInv
<1>3. CASE ~count.parted
  <2>1. Aligned
    BY <1>3 DEF XInv
  <2>2. Aligned'
    BY <1>1, <2>1 DEF Aligned, Journalled, Remembered, Busy, Settled
  <2> QED BY <2>2 DEF XInv
<1> QED BY <1>2, <1>3

LEMMA GotExact ==
  ASSUME IInv, XInv, ag.pc \in Settled, NEW outs \in Seq(Said), Got(outs),
         count'.batches = count.batches, count'.parted = count.parted, UNCHANGED <<cont, disk>>
  PROVE  XInv'
<1>1. Returning(ag', ag, outs)
  BY Returns, IInvParts
<1>2. ag'.pc = "got" /\ ag'.c = ag.c /\ ag'.mem = ag.mem /\ ag'.stale = ag.stale
  BY <1>1 DEF Returning
<1>3. ag'.pc \in Settled
  BY <1>2 DEF Settled
<1> QED BY <1>2, <1>3, SettledStays

LEMMA InitExact == Init => XInv
<1> SUFFICES ASSUME Init PROVE Aligned
  BY DEF XInv
<1>1. /\ disk = <<>> /\ ag.mem = <<>> /\ cont = Inactive /\ count.batches = 0
      /\ ag.pc = "idle"
  BY InitInv DEF Init, Asleep
<1>2. ~ag.stale
  BY DEF Init, Asleep
<1>3. Exact(<<>>, 0)
  BY EmptySeq DEF Exact
<1>4. Journalled
  BY <1>1, <1>3, InactiveFields DEF Journalled
<1>5. Remembered
  BY <1>1, <1>2 DEF Remembered, Busy, Settled
<1> QED BY <1>4, <1>5 DEF Aligned

\* Within the batch memory and session agree.
LEMMA SettledParts ==
  ASSUME IInv, XInv, ag.pc \in Settled, ~count.parted
  PROVE  /\ Aligned /\ Busy /\ ag.mem = disk /\ cont.buffered = <<>>
         /\ Exact(disk, ag.c.next) /\ ag.c.buffered = <<>>
<1>1. Aligned /\ Busy
  BY DEF XInv, Settled, Busy
<1>2. ag.mem = disk /\ cont.buffered = <<>>
  BY <1>1 DEF Aligned, Remembered
<1> QED BY <1>1, <1>2, SettledExact

LEMMA LoopExact == ASSUME IInv, XInv, Loop PROVE XInv'
<1>0. Busy /\ ag.pc \in Settled /\ UNCHANGED disk
  BY DEF Loop, Busy, Settled
<1>1. CASE ag.cancelled \/ ~Repeatable(ag.c)
  BY <1>0, <1>1, QuitExact, SettledParts DEF Loop
<1>2. CASE ~(ag.cancelled \/ ~Repeatable(ag.c))
  <2> SUFFICES ASSUME NEW c, c = [ag.c EXCEPT !.executing = TRUE] PROVE XInv'
    OBVIOUS
  <2>1. c \in Frozen /\ c.next = ag.c.next /\ c.buffered = ag.c.buffered /\ c.active = ag.c.active
    BY IInvParts DEF Frozen
  <2>2. Save(c, "run") /\ c.active
    BY <1>0, <1>2, <2>1, IInvParts DEF Loop
  <2>3. ~count.parted => Exact(disk, c.next) /\ c.buffered = <<>> /\ ag.mem = disk
    BY <1>0, <2>1, SettledParts
  <2> QED BY <1>0, <2>1, <2>2, <2>3, SaveExact
<1> QED BY <1>1, <1>2

LEMMA ClearExact == ASSUME IInv, XInv, Clear PROVE XInv'
<1>0. /\ Busy /\ ag.pc \in Settled /\ UNCHANGED disk /\ Stop /\ ag.c.next = N /\ count.batches = 1
  BY IInvParts DEF Clear, Busy, Settled
<1>1. CASE UNCHANGED <<cont, count>>
  BY <1>0, <1>1, QuitExact, SettledParts
<1>2. CASE Fault("continuation")
  <2>1. count'.parted
    BY <1>2, CountFields, IInvParts
  <2> QED BY <2>1 DEF XInv
<1>3. CASE cont' = Inactive /\ UNCHANGED count
  <2> SUFFICES ASSUME ~count.parted PROVE Aligned'
    BY <1>3 DEF XInv
  <2>1. ag'.pc = "idle" /\ ag'.mem = ag.mem
    BY <1>0, Resting, IInvParts DEF Stop, Rested
  <2>2. ag.mem = disk /\ Exact(disk, N)
    BY <1>0, SettledParts
  <2>3. Journalled'
    BY <1>0, <1>3, <2>2, InactiveFields DEF Journalled
  <2>4. Remembered'
    BY <1>0, <1>3, <2>1, <2>2 DEF Remembered, Busy, Settled
  <2> QED BY <2>3, <2>4 DEF Aligned
<1> QED BY <1>1, <1>2, <1>3 DEF Clear, Cleared

LEMMA ReadExact == ASSUME IInv, XInv, Read PROVE XInv'
<1>0. ag.pc \in Settled /\ UNCHANGED <<cont, disk>>
  BY DEF Read, Settled
<1>1. PICK outs \in Seq({"ok", "effect_unknown"}) :
        Got(outs) /\ count'.batches = count.batches /\ count'.parted = count.parted
  BY Reading
<1>2. {"ok", "effect_unknown"} \subseteq Said
  BY DEF Said, Outs
<1>3. outs \in Seq(Said)
  BY <1>2
<1> QED BY <1>0, <1>1, <1>3, GotExact

\* A single answer comes back.
LEMMA AnswerExact ==
  ASSUME IInv, XInv, ag.pc \in Settled, NEW out \in Said, Got(<<out>>),
         count'.batches = count.batches, count'.parted = count.parted, UNCHANGED <<cont, disk>>
  PROVE  XInv'
<1>1. <<out>> \in Seq(Said)
  OBVIOUS
<1> QED BY <1>1, GotExact

\* The process goes on with a risky call.
LEMMA OnwardExact ==
  ASSUME IInv, XInv, ag.pc \in Settled, NEW pc \in {"authorize", "claim"},
         ag' = [ag EXCEPT !.pc = pc], UNCHANGED <<cont, disk, count>>
  PROVE  XInv'
<1>1. ag'.pc = pc /\ ag'.c = ag.c /\ ag'.mem = ag.mem /\ ag'.stale = ag.stale
  BY IInvParts DEF Agents
<1>2. ag'.pc \in Settled
  BY <1>1 DEF Settled
<1> QED BY <1>1, <1>2, SettledStays

LEMMA PlainExact == ASSUME IInv, XInv, Plain PROVE XInv'
<1>0. ag.pc \in Settled /\ UNCHANGED <<cont, disk, count>>
  BY DEF Plain, Settled
<1>1. PICK out \in {"ok", "failed", "effect_unknown"} : Got(<<out>>)
  BY DEF Plain
<1>2. out \in Said
  BY DEF Said, Outs
<1> QED BY <1>0, <1>1, <1>2, AnswerExact

LEMMA FreezeExact == ASSUME IInv, XInv, Freeze PROVE XInv'
<1>0. ag.pc \in Settled /\ UNCHANGED <<cont, disk, count>> /\ At \in Calls
  BY Sizes DEF Freeze, Settled
<1>1. "denied" \in Said
  BY DEF Said, Outs
<1>2. Prior(rec[At]) # "none" => Prior(rec[At]) \in Said
  BY <1>0, IInvParts DEF Prior, Receipted, Said, Outs
<1>3. \/ Got(<<"denied">>)
      \/ Prior(rec[At]) # "none" /\ Got(<<Prior(rec[At])>>)
      \/ ag' = [ag EXCEPT !.pc = "authorize"]
  BY DEF Freeze
<1>4. CASE Prior(rec[At]) # "none" /\ Got(<<Prior(rec[At])>>)
  <2> SUFFICES ASSUME NEW out \in Said, Got(<<out>>) PROVE XInv'
    BY <1>2, <1>4
  <2> QED BY <1>0, AnswerExact
<1>5. CASE Got(<<"denied">>)
  BY <1>0, <1>1, <1>5, AnswerExact
<1>6. CASE ag' = [ag EXCEPT !.pc = "authorize"]
  BY <1>0, <1>6, OnwardExact
<1> QED BY <1>3, <1>4, <1>5, <1>6

LEMMA AuthorizeExact == ASSUME IInv, XInv, Authorize PROVE XInv'
<1>0. ag.pc \in Settled /\ UNCHANGED <<cont, disk, count>>
  BY DEF Authorize, Settled
<1>1. "denied" \in Said /\ "pending" \in Said
  BY DEF Said, Outs
<1>2. Got(<<"denied">>) \/ Got(<<"pending">>) \/ ag' = [ag EXCEPT !.pc = "claim"]
  BY DEF Authorize
<1> QED BY <1>0, <1>1, <1>2, AnswerExact, OnwardExact

LEMMA ClaimExact == ASSUME IInv, XInv, Claim PROVE XInv'
<1>0. ag.pc \in Settled /\ UNCHANGED <<cont, disk, count>>
  BY DEF Claim, Settled
<1>1. "denied" \in Said /\ "pending" \in Said
  BY DEF Said, Outs
<1> SUFFICES ASSUME NEW t, t = rec'[At].token PROVE XInv'
  OBVIOUS
<1>2. Got(<<"denied">>) \/ Got(<<"pending">>) \/ ag' = [ag EXCEPT !.pc = "dispatch", !.token = t]
  BY DEF Claim
<1>3. CASE ag' = [ag EXCEPT !.pc = "dispatch", !.token = t]
  <2>1. ag'.pc = "dispatch" /\ ag'.c = ag.c /\ ag'.mem = ag.mem /\ ag'.stale = ag.stale
    BY <1>3, IInvParts DEF Agents
  <2>2. ag'.pc \in Settled
    BY <2>1 DEF Settled
  <2> QED BY <1>0, <2>1, <2>2, SettledStays
<1> QED BY <1>0, <1>1, <1>2, <1>3, AnswerExact

LEMMA DispatchExact == ASSUME IInv, XInv, Dispatch PROVE XInv'
<1>0. ag.pc \in Settled /\ UNCHANGED <<cont, disk, count>>
  BY DEF Dispatch, Settled
<1>1. CASE Got(<<"denied">>)
  <2>1. "denied" \in Said
    BY DEF Said, Outs
  <2> QED BY <1>0, <1>1, <2>1, AnswerExact
<1>2. CASE \E out : ag' = [ag EXCEPT !.pc = "finish", !.got = <<out>>]
  <2>1. ag'.pc = "finish" /\ ag'.c = ag.c /\ ag'.mem = ag.mem /\ ag'.stale = ag.stale
    BY <1>2, IInvParts DEF Agents
  <2>2. ag'.pc \in Settled
    BY <2>1 DEF Settled
  <2> QED BY <1>0, <2>1, <2>2, SettledStays
<1> QED BY <1>1, <1>2 DEF Dispatch

LEMMA FinishExact == ASSUME IInv, XInv, Finish PROVE XInv'
<1>0. ag.pc \in Settled /\ UNCHANGED <<cont, disk>> /\ ag.pc = "finish"
  BY DEF Finish, Settled
<1>1. count'.batches = count.batches /\ count'.parted = count.parted
  <2>1. UNCHANGED count \/ Fault("receipt")
    BY DEF Finish
  <2>2. CASE Fault("receipt")
    BY <2>2, CountFields, IInvParts DEF Typed, Counts
  <2> QED BY <2>1, <2>2
<1>2. ag.got \in Seq(Said) /\ <<"effect_unknown">> \in Seq(Said) /\ <<"receipt_unknown">> \in Seq(Said)
  <2>1. "effect_unknown" \in Said /\ "receipt_unknown" \in Said
    BY DEF Said
  <2> QED BY <2>1, IInvParts
<1>3. Got(ag.got) \/ Got(<<"effect_unknown">>) \/ Got(<<"receipt_unknown">>)
  BY DEF Finish
<1> QED BY <1>0, <1>1, <1>2, <1>3, GotExact

LEMMA PauseExact == ASSUME IInv, XInv, Pause PROVE XInv'
<1>1. Busy /\ ag.pc \in Settled
  BY DEF Pause, Busy, Settled
<1> QED BY <1>1, QuitExact, SettledParts DEF Pause

LEMMA LedgerExact == ASSUME IInv, XInv, Ledger PROVE XInv'
  BY SessionExact DEF Ledger

LEMMA RestoreExact == ASSUME IInv, XInv, Restore PROVE XInv'
  BY SessionExact DEF Restore

LEMMA ReenterExact == ASSUME IInv, XInv, Reenter PROVE XInv'
  BY SessionExact DEF Reenter

LEMMA ResaveExact == ASSUME IInv, XInv, Resave PROVE XInv'
<1>0. Busy /\ ag.pc \in Settled /\ UNCHANGED disk
  BY DEF Resave, Busy, Settled
<1>1. CASE ag.cancelled
  BY <1>0, <1>1, QuitExact, SettledParts DEF Resave, SaveUnlessCancelled
<1>2. CASE ~ag.cancelled
  <2> SUFFICES ASSUME NEW c, c = ag.c PROVE XInv'
    OBVIOUS
  <2>1. Save(c, "reenter")
    BY <1>2 DEF Resave, SaveUnlessCancelled
  <2>2. c \in Frozen /\ c.active
    BY <1>0, IInvParts
  <2>3. ~count.parted => Exact(disk, c.next) /\ c.buffered = <<>> /\ ag.mem = disk
    BY <1>0, SettledParts
  <2> QED BY <1>0, <2>1, <2>2, <2>3, SaveExact
<1> QED BY <1>1, <1>2

LEMMA DecideExact == ASSUME IInv, XInv, Decide PROVE XInv'
<1>0. Busy /\ ag.pc \in Settled /\ UNCHANGED <<cont, disk, count>>
  BY DEF Decide, Busy, Settled
<1>1. CASE Stop
  BY <1>0, <1>1, QuitExact, SettledParts
<1>2. ASSUME NEW id, ag' = [ag EXCEPT !.pc = "resave", !.c.pending = id] PROVE XInv'
  <2>1. PICK c : c = [ag.c EXCEPT !.pending = id]
    OBVIOUS
  <2>2. c.next = ag.c.next /\ c.buffered = ag.c.buffered
    BY <2>1, IInvParts DEF Frozen
  <2>3. ag' = [ag EXCEPT !.pc = "resave", !.c = c]
    BY <1>2, <2>1, IInvParts DEF Agents
  <2>4. ag'.pc = "resave" /\ ag'.c = c /\ ag'.mem = ag.mem /\ ag'.stale = ag.stale
    BY <2>3, IInvParts DEF Agents
  <2>5. ag'.pc \in Settled
    BY <2>4 DEF Settled
  <2> QED BY <1>0, <2>2, <2>4, <2>5, SettledStays
<1> QED BY <1>1, <1>2 DEF Decide

\* The last messages are the ones that were added.
LEMMA LastAdded ==
  ASSUME NEW s \in Results, NEW t \in Results
  PROVE  SubSeq(s \o t, Len(s \o t) - Len(t) + 1, Len(s \o t)) = t
<1> DEFINE m == s \o t
           n == Len(t)
           r == SubSeq(m, Len(m) - n + 1, Len(m))
<1>1. m \in Results /\ Len(m) = Len(s) + n /\ \A i \in 1..n : m[Len(s) + i] = t[i]
  BY DEF Results
<1> HIDE DEF m
<1>2. n \in Nat /\ Len(s) \in Nat /\ n <= Len(m) /\ Len(m) - n = Len(s)
  BY <1>1, ResultFields
<1>3. Suffix(r, m, n)
  BY <1>1, <1>2, LastMessages
<1>4. r \in Results /\ Len(r) = n /\ \A i \in 1..n : r[i] = t[i]
  BY <1>1, <1>2, <1>3 DEF Suffix
<1>5. \A S : r \in Seq(S) /\ t \in Seq(S) /\ Len(r) = Len(t) /\ (\A i \in 1..Len(r) : r[i] = t[i]) => r = t
  BY SeqEqual
<1>6. r = t
  BY <1>4, <1>5 DEF Results
<1> QED BY <1>6 DEF m

\* No result was heeded.
LEMMA NoneHeeded ==
  ASSUME NEW outs, NEW h, Heeds(outs, 0, h), ag.mem \in Results
  PROVE  Heeded(outs, 0) = ag.mem
<1>1. PICK m : m = Heeded(outs, 0)
  OBVIOUS
<1>2. Extended(m, ag.mem, ag.c.next, h) /\ Len(h) = 0
  BY <1>1 DEF Heeds
<1>3. m \in Results /\ Len(m) = Len(ag.mem) /\ \A i \in 1..Len(m) : m[i] = ag.mem[i]
  BY <1>2, ResultFields DEF Extended
<1>4. \A S : m \in Seq(S) /\ ag.mem \in Seq(S) /\ Len(m) = Len(ag.mem)
             /\ (\A i \in 1..Len(m) : m[i] = ag.mem[i]) => m = ag.mem
  BY SeqEqual
<1>5. m = ag.mem
  BY <1>3, <1>4 DEF Results
<1> QED BY <1>1, <1>5

LEMMA AcceptExact == ASSUME IInv, XInv, Accept PROVE XInv'
<1>0. /\ Busy /\ ag.pc = "got" /\ ag.c.next < N
      /\ UNCHANGED disk /\ count.batches = 1 /\ ag.pc \in Settled
  BY IInvParts DEF Accept, Busy, Midway, Settled
<1>1. CASE Paused
  <2>0. PICK c : /\ c = [ag.c EXCEPT !.pending = At, !.executing = FALSE] /\ Save(c, "paused")
    BY <1>1 DEF Paused
  <2>1. At \in 0..N
    BY <1>0, IInvParts DEF At
  <2>2. c \in Frozen /\ c.next = ag.c.next /\ c.buffered = ag.c.buffered /\ c.active = ag.c.active
    BY <2>0, <2>1, IInvParts DEF Frozen
  <2>3. c.active
    BY <1>0, <2>2, IInvParts
  <2>4. ~count.parted => Exact(disk, c.next) /\ c.buffered = <<>> /\ ag.mem = disk
    BY <1>0, <2>2, SettledParts
  <2> QED BY <1>0, <2>0, <2>2, <2>3, <2>4, SaveExact
<1>2. CASE HeldUp
  <2>1. PICK outs, k, h :
          /\ Replaced(outs) /\ Heeds(outs, k, h) /\ k \in 0..Len(outs)
          /\ ag' = [Stopped EXCEPT !.mem = Heeded(outs, k)]
          /\ count' = [count EXCEPT !.parted = @ \/ k > 0]
          /\ UNCHANGED cont
    BY <1>2 DEF HeldUp
  <2>2. Len(outs) \in Nat
    BY <2>1 DEF Replaced
  <2>3. /\ ag'.pc = "idle" /\ ag'.mem = Heeded(outs, k) /\ ag'.stale = ag.stale
        /\ count'.batches = count.batches
        /\ ~count'.parted => ~count.parted /\ ~(k > 0)
    BY <2>1, <2>2, HeldUpFields
  <2> SUFFICES ASSUME ~count.parted, ~(k > 0) PROVE Aligned'
    BY <2>3 DEF XInv
  <2>8. k = 0
    BY <2>1, <2>2
  <2>4. ag'.mem = ag.mem
    BY <2>1, <2>3, <2>8, NoneHeeded, IInvParts
  <2>5. ag.mem = disk /\ cont.buffered = <<>> /\ Aligned
    BY <1>0, SettledParts
  <2>6. Journalled'
    BY <1>0, <2>1, <2>3, <2>5 DEF Aligned, Journalled
  <2>7. Remembered'
    BY <1>0, <2>1, <2>3, <2>4, <2>5 DEF Remembered, Busy, Settled
  <2> QED BY <2>6, <2>7 DEF Aligned
<1>3. CASE Taken
  <2>1. PICK outs, m :
          /\ Replaced(outs) /\ outs \in Seq(Outs) /\ Extended(m, ag.mem, ag.c.next, outs)
          /\ ag' = [ag EXCEPT !.pc = "journal", !.got = outs, !.mem = m]
          /\ UNCHANGED <<cont, count>>
    BY <1>3 DEF Taken
  <2>4. ag'.pc = "journal" /\ ag'.mem = m /\ ag'.got = outs /\ ag'.c = ag.c /\ ag'.stale = ag.stale
    BY <2>1, IInvParts DEF Agents
  <2>5. PICK t \in Results : m = ag.mem \o t /\ Len(t) = Len(outs)
    BY <2>1 DEF Extended
  <2>6. Returned' = t
    <3> SUFFICES ASSUME NEW mem \in Results, mem = ag.mem PROVE Returned' = t
      BY IInvParts
    <3>1. SubSeq(m, Len(m) - Len(t) + 1, Len(m)) = t
      BY <2>5, LastAdded
    <3> QED BY <2>4, <2>5, <3>1 DEF Returned
  <2> SUFFICES ASSUME ~count.parted PROVE Aligned'
    BY <2>1 DEF XInv
  <2>7. ag.mem = disk /\ cont.buffered = <<>> /\ Aligned /\ count'.batches = 1
    BY <1>0, <2>1, SettledParts
  <2>8. Journalled'
    BY <1>0, <2>1, <2>7 DEF Aligned, Journalled
  <2>9. /\ ag'.c.next = cont'.next /\ ag'.c.buffered = cont'.buffered /\ cont'.buffered = <<>>
        /\ ag'.mem = disk' \o Returned' /\ ag'.pc \notin Settled
    BY <1>0, <2>1, <2>4, <2>5, <2>6, <2>7 DEF Aligned, Remembered, Settled
  <2>10. Remembered'
    <3>1. count'.batches # 0 /\ ag'.pc \notin {"idle", "ledger", "advance", "restore", "restored"}
      BY <2>4, <2>7
    <3> QED BY <2>9, <3>1, Zenon DEF Remembered
  <2> QED BY <2>8, <2>10 DEF Aligned
<1> QED BY <1>1, <1>2, <1>3, Accepting

LEMMA JournalExact == ASSUME IInv, XInv, Journal PROVE XInv'
<1>0. Busy /\ ag.pc = "journal" /\ UNCHANGED disk
  BY DEF Journal, Busy
<1> SUFFICES ASSUME NEW r, r = Returned, NEW c, c = [ag.c EXCEPT !.buffered = r] PROVE XInv'
  OBVIOUS
<1>1. Suffix(r, ag.mem, Len(ag.got))
  <2> SUFFICES ASSUME NEW mem \in Results, mem = ag.mem, NEW n \in Nat, n = Len(ag.got)
               PROVE  Suffix(r, mem, n)
    BY IInvParts
  <2>1. n <= Len(mem)
    BY <1>0, IInvParts DEF Midway
  <2> QED BY <2>1, LastMessages DEF Returned
<1>2. r \in Results /\ Len(r) = Len(ag.got)
  BY <1>1 DEF Suffix
<1>3. c \in Frozen /\ c.next = ag.c.next /\ c.buffered = r /\ c.active = ag.c.active
  BY <1>2, IInvParts DEF Frozen
<1>4. Save(c, "ledger") /\ c.active
  BY <1>0, <1>3, IInvParts DEF Journal
<1>5. ASSUME ~count.parted
      PROVE  /\ Exact(disk, c.next) /\ ag.mem = disk \o c.buffered
             /\ Len(c.buffered) = Len(ag.got)
  <2>1. Aligned
    BY <1>5 DEF XInv
  <2>2. cont.buffered = <<>> /\ ag.mem = disk \o r
    BY <1>0, <2>1 DEF Aligned, Remembered
  <2>3. Exact(disk, ag.c.next)
    BY <1>0, <2>1, <2>2, SettledExact
  <2> QED BY <1>2, <1>3, <2>2, <2>3
<1> QED BY <1>0, <1>3, <1>4, <1>5, SaveExact

\* The session with the journalled results has every call up to the last of them.
LEMMA JournalledExact ==
  ASSUME IInv, Aligned, Busy
  PROVE  Exact(cont.digest \o cont.buffered, ag.c.next + Len(cont.buffered))
<1> SUFFICES ASSUME NEW s \in Results, s = cont.digest, NEW t \in Results, t = cont.buffered,
                    NEW n \in Nat, n = ag.c.next
             PROVE  Exact(s \o t, n + Len(t))
  BY IInvParts, FrozenFields
<1>1. Exact(s, n) /\ n = cont.next
  BY IInvParts DEF Aligned, Journalled, Remembered
<1>2. \A i \in 1..Len(t) : t[i].call = n + i
  BY <1>1, IInvParts DEF Shaped, Numbered
<1> QED BY <1>1, <1>2, ExactConcat

LEMMA AdvanceExact == ASSUME IInv, HInv, XInv, Advance PROVE XInv'
<1>0. Busy /\ ag.pc = "advance" /\ UNCHANGED disk
  BY DEF Advance, Busy
<1> SUFFICES ASSUME NEW k, k = ag.c.next + Len(ag.got), NEW c,
                    c = [ag.c EXCEPT !.next = k, !.executing = FALSE, !.buffered = <<>>]
             PROVE  XInv'
  OBVIOUS
<1>1. k \in 0..N /\ disk = ag.mem
  BY <1>0, IInvParts, HInvParts DEF Midway, Complete
<1>2. <<>> \in Results
  BY DEF Results
<1>3. c \in Frozen /\ c.next = k /\ c.buffered = <<>> /\ c.active = ag.c.active
  BY <1>1, <1>2, IInvParts DEF Frozen
<1>4. Save(c, "loop") /\ c.active
  BY <1>0, <1>3, IInvParts DEF Advance
<1>5. ASSUME ~count.parted PROVE Exact(disk, c.next) /\ c.buffered = <<>> /\ ag.mem = disk
  <2>1. Aligned
    BY <1>5 DEF XInv
  <2>2. ag.mem = cont.digest \o cont.buffered /\ Len(cont.buffered) = Len(ag.got)
    BY <1>0, <2>1 DEF Aligned, Remembered
  <2>3. Exact(ag.mem, k)
    BY <1>0, <2>1, <2>2, JournalledExact
  <2> QED BY <1>1, <1>3, <2>3
<1> QED BY <1>0, <1>3, <1>4, <1>5, SaveExact

LEMMA RestoredExact == ASSUME IInv, HInv, XInv, Restored PROVE XInv'
<1>0. Busy /\ ag.pc = "restored" /\ UNCHANGED disk /\ disk = ag.mem
  BY HInvParts DEF Restored, Busy, Complete
<1>1. CASE ag.cancelled
  BY <1>0, <1>1, QuitExact DEF Restored, SaveUnlessCancelled
<1>2. CASE ~ag.cancelled
  <2> SUFFICES ASSUME NEW k, k = ag.c.next + Len(ag.c.buffered), NEW c,
                      c = [ag.c EXCEPT !.next = k, !.executing = FALSE, !.buffered = <<>>]
               PROVE  XInv'
    OBVIOUS
  <2>1. k \in 0..N
    BY BufferedFits, IInvParts DEF Shaped
  <2>2. <<>> \in Results
    BY DEF Results
  <2>3. c \in Frozen /\ c.next = k /\ c.buffered = <<>> /\ c.active = ag.c.active
    BY <2>1, <2>2, IInvParts DEF Frozen
  <2>4. Save(c, "decide") /\ c.active
    BY <1>0, <1>2, <2>3, IInvParts DEF Restored, SaveUnlessCancelled
  <2>5. ASSUME ~count.parted PROVE Exact(disk, c.next) /\ c.buffered = <<>> /\ ag.mem = disk
    <3>1. Aligned
      BY <2>5 DEF XInv
    <3>2. ag.mem = cont.digest \o cont.buffered /\ cont.buffered = ag.c.buffered
      BY <1>0, <3>1 DEF Aligned, Remembered
    <3>3. Exact(ag.mem, k)
      BY <1>0, <3>1, <3>2, JournalledExact
    <3> QED BY <1>0, <2>3, <3>3
  <2> QED BY <1>0, <2>3, <2>4, <2>5, SaveExact
<1> QED BY <1>1, <1>2

LEMMA AskExact == ASSUME IInv, XInv, Ask PROVE XInv'
<1>0. ag.pc = "idle" /\ count.batches = 0 /\ ~cont.active /\ UNCHANGED disk /\ count \in Counts
  BY IInvParts DEF Ask, Typed
<1> SUFFICES ASSUME NEW f, f = [Inactive EXCEPT !.active = TRUE, !.digest = disk] PROVE XInv'
  OBVIOUS
<1>1. f.active /\ f.buffered = <<>> /\ f.next = 0 /\ f.digest = disk
  BY InactiveFields, IInvParts DEF Frozen
<1>2. CASE count' = [count EXCEPT !.batches = 1, !.faults = @ + 1, !.parted = TRUE]
  <2>1. count'.parted = TRUE
    BY <1>0, <1>2 DEF Counts
  <2> QED BY <2>1 DEF XInv
<1>3. CASE cont' = f /\ ag' = [ag EXCEPT !.c = f, !.pc = "loop"] /\ count' = [count EXCEPT !.batches = 1]
  <2>1. count'.batches = 1 /\ count'.parted = count.parted
    BY <1>0, <1>3 DEF Counts
  <2>2. ag'.pc = "loop" /\ ag'.c = f /\ ag'.mem = ag.mem
    BY <1>3, IInvParts DEF Agents
  <2> SUFFICES ASSUME ~count.parted PROVE Aligned'
    BY <2>1 DEF XInv
  <2>3. Journalled /\ Remembered
    BY DEF XInv, Aligned
  <2>4. Exact(disk, 0) /\ cont.buffered = <<>>
    BY <1>0, <2>3 DEF Journalled
  <2>5. ag.mem = disk
    BY <1>0, <2>3, <2>4 DEF Remembered
  <2>6. Journalled'
    BY <1>0, <1>1, <1>3, <2>4 DEF Journalled
  <2>7. Remembered'
    <3>1. count'.batches # 0 /\ ag'.mem = disk' /\ ag'.c = cont' /\ cont'.buffered = <<>>
      BY <1>0, <1>1, <1>3, <2>1, <2>2, <2>5
    <3>2. ag'.pc \notin {"idle", "journal", "ledger", "advance", "restore", "restored"}
      BY <2>2
    <3> QED BY <3>1, <3>2, Zenon DEF Remembered
  <2> QED BY <2>6, <2>7 DEF Aligned
<1> QED BY <1>2, <1>3 DEF Ask

LEMMA ResumeExact ==
  ASSUME IInv, XInv, NEW id \in Risky, NEW allow \in BOOLEAN, Resume(id, allow)
  PROVE  XInv'
<1>0. /\ UNCHANGED <<cont, disk, count>> /\ cont.active /\ ag.pc = "idle" /\ ~ag.stale /\ Recoverable
  BY DEF Resume
<1>1. /\ ag'.c = cont /\ ag'.pc = IF cont.buffered = <<>> THEN "decide" ELSE "restore"
      /\ ag'.mem = IF cont.buffered = <<>> THEN ag.mem ELSE Recovered
      /\ ag'.stale = ag.stale
  BY Resuming DEF Resumes
<1> SUFFICES ASSUME ~count.parted, Journalled, Remembered PROVE Aligned'
  BY <1>0 DEF XInv, Aligned
<1>2. Journalled'
  BY <1>0 DEF Journalled
<1>3. Remembered'
  <2>1. count'.batches = 0 => ~ag'.stale
    BY <1>0, <1>1
  <2>2. ag'.c.next = cont'.next /\ ag'.c.buffered = cont'.buffered
    BY <1>0, <1>1
  <2>3. CASE cont.buffered = <<>>
    <3>1. ag'.pc = "decide" /\ ag'.mem = disk' /\ cont'.buffered = <<>>
      BY <1>0, <1>1, <2>3 DEF Remembered
    <3> QED BY <2>1, <2>2, <3>1 DEF Remembered, Settled
  <2>4. CASE cont.buffered # <<>>
    <3>1. ag'.pc = "restore" /\ ag'.mem = Recovered
      BY <1>1, <2>4
    <3>2. ag'.mem = cont'.digest \o cont'.buffered
      BY <1>0, <3>1, Recovering
    <3>3. ag'.pc \notin Settled
      BY <3>1 DEF Settled
    <3> QED BY <2>1, <2>2, <3>1, <3>2, <3>3, Zenon DEF Remembered
  <2> QED BY <2>3, <2>4
<1> QED BY <1>2, <1>3 DEF Aligned

LEMMA CrashExact == ASSUME IInv, XInv, Crash PROVE XInv'
<1>0. UNCHANGED <<cont, disk>>
  BY DEF Crash
<1>1. ag'.pc = "down" /\ ag'.stale = FALSE
  BY DEF Crash, Asleep
<1>2. count'.batches = count.batches /\ count'.parted = count.parted
  BY IInvParts, CrashCount DEF Typed
<1> SUFFICES ASSUME ~count.parted, Journalled PROVE Aligned'
  BY <1>2 DEF XInv, Aligned
<1>3. Journalled'
  BY <1>0, <1>2 DEF Journalled
<1>4. Remembered'
  BY <1>1 DEF Remembered, Busy, Settled
<1> QED BY <1>3, <1>4 DEF Aligned

\* A complete session is restored as it is.
LEMMA NothingMissing ==
  ASSUME IInv, Journalled, ~cont.active
  PROVE  Missing = {}
<1>1. CASE count.batches = 0
  BY <1>1 DEF Missing
<1>2. CASE count.batches # 0
  <2>1. Exact(disk, N) /\ DOMAIN disk = 1..Len(disk)
    BY <1>2, ResultFields, IInvParts DEF Journalled
  <2>2. \A c \in Calls : c \in DOMAIN disk /\ disk[c].call = c
    BY <2>1 DEF Exact, Calls
  <2>3. Calls \subseteq Heard
    BY <2>2 DEF Heard
  <2> QED BY <2>3 DEF Missing
<1> QED BY <1>1, <1>2

LEMMA RestartExact == ASSUME IInv, XInv, Restart PROVE XInv'
<1>0. ag.pc = "down" /\ UNCHANGED cont
  BY DEF Restart
<1> SUFFICES ASSUME NEW m, m = IF cont.active THEN disk ELSE disk \o Unanswered PROVE XInv'
  OBVIOUS
<1>1. /\ count'.batches = count.batches /\ count'.parted = count.parted
      /\ \/ disk' = m /\ ag'.pc = "idle" /\ ag'.mem = m /\ ~ag'.stale
         \/ disk' \in {disk, m} /\ ag' = ag
  BY Restarting DEF Restarts
<1> SUFFICES ASSUME ~count.parted, Journalled, Remembered PROVE Aligned'
  BY <1>1 DEF XInv, Aligned
<1>2. m = disk
  <2>1. CASE cont.active
    BY <2>1
  <2>2. CASE ~cont.active
    <3>1. Unanswered = <<>>
      BY <2>2, NothingMissing, Closing
    <3> QED BY <2>2, <3>1, EmptyTail, IInvParts
  <2> QED BY <2>1, <2>2
<1>3. Journalled'
  BY <1>0, <1>1, <1>2 DEF Journalled
<1>4. Remembered'
  BY <1>0, <1>1, <1>2 DEF Remembered, Busy, Settled
<1> QED BY <1>3, <1>4 DEF Aligned

\* A step that leaves session, continuation and memory alone.
LEMMA SameExact ==
  ASSUME XInv, ag'.pc = ag.pc, ag'.c = ag.c, ag'.mem = ag.mem, ag'.got = ag.got, ag'.stale = ag.stale,
         count'.batches = count.batches, count'.parted = count.parted, UNCHANGED <<cont, disk>>
  PROVE  XInv'
<1> SUFFICES ASSUME ~count.parted, Journalled, Remembered PROVE Aligned'
  BY DEF XInv, Aligned
<1>1. Journalled'
  BY DEF Journalled
<1>2. Returned' = Returned
  BY DEF Returned
<1>3. Remembered'
  BY <1>2 DEF Remembered, Busy
<1> QED BY <1>1, <1>3 DEF Aligned

LEMMA CancelExact == ASSUME IInv, XInv, Cancel PROVE XInv'
<1>1. UNCHANGED <<cont, disk>>
  BY DEF Cancel
<1>2. count'.batches = count.batches /\ count'.parted = count.parted
  BY CancelCount
<1>3. ag'.pc = ag.pc /\ ag'.c = ag.c /\ ag'.mem = ag.mem /\ ag'.got = ag.got /\ ag'.stale = ag.stale
  BY IInvParts DEF Cancel, Agents
<1> QED BY <1>1, <1>2, <1>3, SameExact

LEMMA EditExact == ASSUME IInv, XInv, Edit PROVE XInv'
<1>1. count'.batches = count.batches /\ count'.parted = count.parted
  BY IInvParts DEF Edit, Typed, Counts
<1> QED BY <1>1, SameExact DEF Edit

LEMMA ExpireExact == ASSUME IInv, XInv, Expire PROVE XInv'
  BY SameExact DEF Expire

LEMMA WorkExact == ASSUME IInv, HInv, XInv, Work PROVE XInv'
  BY LoopExact, ClearExact, ReadExact, PlainExact, FreezeExact, AuthorizeExact, ClaimExact,
     DispatchExact, FinishExact, AcceptExact, PauseExact, JournalExact, LedgerExact,
     AdvanceExact, RestoreExact, RestoredExact, DecideExact, ResaveExact, ReenterExact DEF Work

LEMMA StepExact == IInv /\ HInv /\ XInv /\ [Next]_vars => XInv'
<1> SUFFICES ASSUME IInv, HInv, XInv, [Next]_vars PROVE XInv'
  OBVIOUS
<1>1. CASE UNCHANGED vars
  BY <1>1, SameExact DEF vars
<1>2. CASE Next
  BY <1>2, WorkExact, AskExact, ResumeExact, CrashExact, RestartExact, CancelExact, EditExact,
     ExpireExact DEF Next
<1> QED BY <1>1, <1>2

LEMMA ExactOrder == IInv /\ XInv => ResultsOnce
<1> SUFFICES ASSUME IInv, ~count.parted, Aligned PROVE InOrder
  BY DEF XInv, ResultsOnce
<1>1. PICK n \in Nat : Exact(disk, n)
  <2>1. CASE ~cont.active
    BY <2>1, Sizes DEF Aligned, Journalled
  <2>2. CASE cont.active /\ disk = cont.digest
    BY <2>2, FrozenFields, IInvParts DEF Aligned, Journalled
  <2>3. CASE cont.active /\ disk = cont.digest \o cont.buffered
    <3> SUFFICES ASSUME NEW s \in Results, s = cont.digest, NEW t \in Results, t = cont.buffered,
                        NEW n \in Nat, n = cont.next
                 PROVE  Exact(s \o t, n + Len(t)) /\ n + Len(t) \in Nat
      BY <2>3, FrozenFields, IInvParts
    <3>1. Exact(s, n) /\ \A i \in 1..Len(t) : t[i].call = n + i
      BY <2>3, IInvParts DEF Aligned, Journalled, Shaped, Numbered
    <3>2. Len(t) \in Nat
      BY ResultFields
    <3>3. Exact(s \o t, n + Len(t))
      BY <3>1, ExactConcat
    <3> QED BY <3>2, <3>3
  <2> QED BY <2>1, <2>2, <2>3 DEF Aligned, Journalled
<1>2. \A i \in DOMAIN disk : disk[i].call = i /\ i \in Nat
  BY <1>1, ResultFields, IInvParts DEF Exact
<1> QED BY <1>2 DEF InOrder

\* The session's ledger is honest for every list of calls and any number of
\* crashes, failed writes, cancellations, panics, edits and resumptions: no call is
\* said to have succeeded that did not run, refused that ran, or cancelled that no
\* cancellation hit; a receipt is reported as it is, unless a cancellation hit
\* that call; and each call is heard of once and in order, unless a write of the
\* continuation failed or a group of reads stopped after some of its results.
THEOREM LedgerHonest == Spec => []LedgerIsHonest
<1>1. Init => IInv /\ HInv /\ Caught /\ XInv
  BY InitInv, InitTrue, InitCaught, InitExact
<1>2. IInv /\ HInv /\ Caught /\ XInv /\ [Next]_vars => (IInv /\ HInv /\ Caught /\ XInv)'
  BY StepInv, StepTrue, StepCaught, StepExact
<1>3. IInv /\ HInv /\ XInv => LedgerIsHonest
  BY TrueHonest, ExactOrder DEF LedgerIsHonest
<1> QED BY <1>1, <1>2, <1>3, PTL DEF Spec
=============================================================================
