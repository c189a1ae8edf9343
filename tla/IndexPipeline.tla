--------------------------- MODULE IndexPipeline ---------------------------
(***************************************************************************)
(* The index of a world: tables to be queried, beside the logs.            *)
(*                                                                         *)
(* The loop of the world and its snapshot writer hand requests to an index *)
(* over a bounded channel and never wait: what does not fit is dropped.    *)
(* One goroutine takes them out.  The SQLite writer collects the rows of   *)
(* many requests in a transaction; the D1 writer posts batches to a worker *)
(* that applies the events one by one, with retries, while a post that     *)
(* timed out may still be running there.  The server may crash at any      *)
(* moment or be shut down; it starts again from a tick it has been at.     *)
(*                                                                         *)
(* A row holds the run of the server that wrote it and what it says.       *)
(***************************************************************************)
EXTENDS Integers, Sequences, FiniteSets

CONSTANTS
  None,
  Backends,     \* the backends the configuration may choose
  Cap,          \* capacity of the channel
  MaxTick,      \* bound on the ticks of a run
  MaxRuns,      \* by backend: bound on the starts of the server
  MaxActions,   \* actions of agents in a tick, and agents in a snapshot
  MaxAudits,    \* bound on the audits of a run
  SnapshotEvery, \* SnapshotEveryTicks
  CommitEvery,  \* rows that make a transaction commit
  BatchSize,    \* events that make a batch go
  Attempts,     \* posts of one batch
  MaxFaults     \* bound on crashes, errors and timeouts

ASSUME IndexAssumption ==
  /\ Backends \subseteq {"sqlite", "d1"} /\ Backends # {}
  /\ Cap \in Nat \ {0} /\ MaxTick \in Nat
  /\ \A b \in Backends : MaxRuns[b] \in Nat \ {0}
  /\ MaxActions \in Nat /\ MaxAudits \in Nat /\ SnapshotEvery \in Nat \ {0}
  /\ CommitEvery \in Nat \ {0} /\ BatchSize \in Nat \ {0}
  /\ Attempts \in Nat \ {0} /\ MaxFaults \in Nat

MostRuns == CHOOSE n \in {MaxRuns[b] : b \in Backends} : \A b \in Backends : MaxRuns[b] <= n

Ticks == 1..MaxTick
Runs == 1..MostRuns

\* d1Event, req: a tick with n actions, the n-th audit of a tick, or the state
\* of a snapshot with n agents.  seq is the number D1 gave to an audit.
Request ==
  [kind : {"tick", "audit", "state"}, tick : Ticks, run : Runs, n : Nat, seq : Nat]

\* The tables, by primary key.
Keys ==
  {<<"ticks", t, 0>> : t \in Ticks} \cup
  {<<"worlds", t, 0>> : t \in Ticks} \cup
  {<<"actions", t, i>> : t \in Ticks, i \in 1..MaxActions} \cup
  {<<"agents", t, i>> : t \in Ticks, i \in 1..MaxActions} \cup
  {<<"audits", t, i>> : t \in Ticks, i \in 1..MaxAudits}

Row == [run : Runs, says : Nat]
Empty == [k \in Keys |-> None]

ASSUME NoneAssumption == None \notin Row \cup Seq(Request)

VARIABLES
  backend,  \* VC_INDEX_BACKEND
  run,      \* starts of the server
  tick,     \* World.tick
  audits,   \* audits of the run
  snaps,    \* ticks whose snapshot the snapshot writer has to record
  ch,       \* the channel
  closed,   \* Close has been called
  seqTick,  \* lastAuditTick
  seq,      \* auditSeq
  tx,       \* rows of the open transaction
  ops,      \* opCount
  batch,    \* D1Index.loop: the events of the next post
  waiting,  \* the post sendBatch waits for, 0 for none
  attempt,  \* posts made of the batch, 0 when it is not being sent
  posts,    \* posts the worker may be at: the events left to apply, None if free
  acked,    \* requests in batches that were answered with success
  db,       \* the tables
  faults    \* crashes, errors and timeouts so far

world == <<run, tick, audits, snaps>>
sqlite == <<tx, ops>>
d1 == <<batch, waiting, attempt, posts, acked>>
numbers == <<seqTick, seq>>
vars == <<backend, world, ch, closed, numbers, sqlite, d1, db, faults>>

\* Posts that can be running at once: one that is waited for, those that timed
\* out, and those of runs that are over.
Posts == 1..(MaxFaults + MostRuns)

Init ==
  /\ backend \in Backends
  /\ run = 1 /\ tick = 1 /\ audits = 0
  /\ snaps = {}
  /\ ch = <<>> /\ closed = FALSE
  /\ seqTick = 0 /\ seq = 0
  /\ tx = Empty /\ ops = 0
  /\ batch = <<>> /\ waiting = 0 /\ attempt = 0
  /\ posts = [p \in Posts |-> None]
  /\ acked = {}
  /\ db = Empty /\ faults = 0
-----------------------------------------------------------------------------
(* Rows of a request, in the order they are written                        *)

Says(r, k, i) == [key |-> <<k, r.tick, i>>, row |-> [run |-> r.run, says |-> r.n]]

TickRows(r) == <<Says(r, "ticks", 0)>> \o [i \in 1..r.n |-> Says(r, "actions", i)]
AuditRows(r, number) == <<Says(r, "audits", number)>>
StateRows(r) == <<Says(r, "worlds", 0)>> \o [i \in 1..r.n |-> Says(r, "agents", i)]

Rows(r, number) ==
  CASE r.kind = "tick" -> TickRows(r)
    [] r.kind = "audit" -> AuditRows(r, number)
    [] r.kind = "state" -> StateRows(r)

\* INSERT OR REPLACE of several rows.
Put(table, rows) ==
  [k \in Keys |->
     IF \E i \in 1..Len(rows) : rows[i].key = k
     THEN rows[CHOOSE i \in 1..Len(rows) : rows[i].key = k].row ELSE table[k]]

Over(table, changes) ==
  [k \in Keys |-> IF changes[k] = None THEN table[k] ELSE changes[k]]

\* Slip: the tick is not remembered.
NextSeqSticky(t) == /\ seq' = IF t = seqTick THEN seq + 1 ELSE 1
                    /\ UNCHANGED seqTick

\* nextAuditSeq: audits are numbered within their tick.
NextSeq(t) == /\ seq' = IF t = seqTick THEN seq + 1 ELSE 1
              /\ seqTick' = t

Fault == faults < MaxFaults /\ faults' = faults + 1

-----------------------------------------------------------------------------
(* The world and the snapshot writer                                       *)

NewRequest(kind, t, n, s) == [kind |-> kind, tick |-> t, run |-> run, n |-> n, seq |-> s]

\* select on the channel: what does not fit is dropped, and so is everything
\* when the index is closed.
Enqueue(r) ==
  /\ ch' = IF ~closed /\ Len(ch) < Cap THEN Append(ch, r) ELSE ch
  /\ UNCHANGED <<backend, run, closed, sqlite, d1, db, faults>>

\* WriteAudit: D1 numbers an audit before it is queued.
WriteAudit ==
  /\ tick <= MaxTick /\ audits < MaxAudits
  /\ audits' = audits + 1
  /\ IF backend = "d1" /\ ~closed THEN NextSeq(tick) ELSE UNCHANGED numbers
  /\ Enqueue(NewRequest("audit", tick, audits', IF backend = "d1" THEN seq' ELSE 0))
  /\ UNCHANGED <<tick, snaps>>

\* WriteTick, at the end of a step; a snapshot may go to its writer.
WriteTick ==
  /\ tick <= MaxTick
  /\ tick' = tick + 1
  /\ \E n \in 0..MaxActions : Enqueue(NewRequest("tick", tick, n, 0))
  /\ snaps' = IF tick % SnapshotEvery = 0 THEN snaps \cup {tick} ELSE snaps
  /\ UNCHANGED <<audits, numbers>>

\* RecordSnapshotState, when the file has been written.
RecordSnapshotState ==
  /\ \E t \in snaps : /\ snaps' = snaps \ {t}
                      /\ Enqueue(NewRequest("state", t, MaxActions, 0))
  /\ UNCHANGED <<tick, audits, numbers>>

\* Close: no request is taken from now on, those in the channel are.
Close ==
  /\ ~closed /\ closed' = TRUE
  /\ UNCHANGED <<backend, world, ch, numbers, sqlite, d1, db, faults>>

-----------------------------------------------------------------------------
(* The SQLite writer                                                       *)

Taking(name) == backend = name /\ ch # <<>> /\ ch' = Tail(ch)

Commit(changes) == db' = Over(db, changes) /\ tx' = Empty /\ ops' = 0

\* The number of the audit that is taken, when the writer gives it.
Numbered(r) ==
  IF r.kind = "audit" THEN NextSeq(r.tick) ELSE UNCHANGED numbers

\* One request: its rows join the transaction, which is committed when it is
\* large, and else when it is old.
Take ==
  /\ Taking("sqlite")
  /\ LET r == Head(ch)
     IN  /\ Numbered(r)
         /\ LET rows == Rows(r, seq')
                now == Put(tx, rows)
            IN  \/ Commit(now)
                \/ /\ ops + Len(rows) < CommitEvery
                   /\ tx' = now /\ ops' = ops + Len(rows)
                   /\ UNCHANGED db
  /\ UNCHANGED <<backend, world, closed, d1, faults>>

\* Slip: the rows before the one that failed stay in the transaction.
TakeFailsKept ==
  /\ Taking("sqlite") /\ Fault
  /\ LET r == Head(ch)
     IN  /\ Numbered(r)
         /\ \E n \in 0..Len(Rows(r, seq')) - 1 :
              tx' = Put(tx, SubSeq(Rows(r, seq'), 1, n)) /\ ops' = ops + n
  /\ UNCHANGED <<backend, world, closed, d1, db>>

\* An error in one row, or in the commit: the transaction is rolled back, with
\* the rows of the requests before.
TakeFails ==
  /\ Taking("sqlite") /\ Fault
  /\ Numbered(Head(ch))
  /\ tx' = Empty /\ ops' = 0
  /\ UNCHANGED <<backend, world, closed, d1, db>>

\* No transaction can be begun: the request is lost.
BeginFails ==
  /\ Taking("sqlite") /\ Fault /\ tx = Empty
  /\ UNCHANGED <<backend, world, closed, numbers, sqlite, d1, db>>

\* The channel is closed and empty: the last commit.
LastCommit ==
  /\ backend = "sqlite" /\ closed /\ ch = <<>> /\ tx # Empty
  /\ Commit(tx)
  /\ UNCHANGED <<backend, world, ch, closed, numbers, d1, faults>>
-----------------------------------------------------------------------------
(* The D1 writer                                                           *)

\* loop: a batch that is full is sent at once.
Receive ==
  /\ attempt = 0 /\ Len(batch) < BatchSize
  /\ Taking("d1")
  /\ batch' = Append(batch, Head(ch))
  /\ UNCHANGED <<backend, world, closed, numbers, sqlite, waiting, attempt,
                 posts, acked, db, faults>>

\* sendBatch: a post, of a full batch, or at the tick of the timer, or again.
Post ==
  /\ backend = "d1" /\ batch # <<>> /\ waiting = 0
  /\ attempt < Attempts /\ attempt' = attempt + 1
  /\ waiting' = CHOOSE p \in Posts : posts[p] = None
  /\ posts' = [posts EXCEPT ![waiting'] = batch]
  /\ UNCHANGED <<backend, world, ch, closed, numbers, sqlite, batch, acked,
                 db, faults>>

\* The batch is over, sent or not.
EndBatch == batch' = <<>> /\ attempt' = 0 /\ waiting' = 0

\* Slip: after the last attempt the batch is kept.
RetryKept == waiting' = 0 /\ UNCHANGED <<batch, attempt>>

\* No success: another attempt, or the batch is lost.
Retry ==
  /\ waiting' = 0
  /\ IF attempt < Attempts THEN UNCHANGED <<batch, attempt>>
     ELSE batch' = <<>> /\ attempt' = 0

\* The answer does not come in time; the worker goes on, or was never reached.
PostTimesOut ==
  /\ waiting # 0 /\ Fault
  /\ Retry
  /\ posts' \in {posts, [posts EXCEPT ![waiting] = None]}
  /\ UNCHANGED <<backend, world, ch, closed, numbers, sqlite, acked, db>>

-----------------------------------------------------------------------------
(* The worker                                                              *)

Running(p) == posts[p] # None

\* upsertSnapshotState: the rows of the tick are deleted, to be inserted anew.
Replaced(r) ==
  [k \in Keys |->
     IF k[1] = "agents" /\ k[2] = r.tick THEN None ELSE db[k]]

\* Upserts, keyed like the tables of SQLite.
UpsertTick(r) == Put(db, TickRows(r))
UpsertAudit(r) == Put(db, AuditRows(r, r.seq))
UpsertSnapshotState(r) == Put(Replaced(r), StateRows(r))

ApplyIndexEvent(r) ==
  CASE r.kind = "tick" -> UpsertTick(r)
    [] r.kind = "audit" -> UpsertAudit(r)
    [] r.kind = "state" -> UpsertSnapshotState(r)

\* handleIndexIngest: the next event.
WorkerApplies(p) ==
  /\ Running(p) /\ posts[p] # <<>>
  /\ db' = ApplyIndexEvent(Head(posts[p]))
  /\ posts' = [posts EXCEPT ![p] = Tail(@)]
  /\ UNCHANGED <<backend, world, ch, closed, numbers, sqlite, batch, waiting,
                 attempt, acked, faults>>

\* Slip: an event that fails is skipped.
WorkerSkips(p) ==
  /\ Running(p) /\ posts[p] # <<>> /\ Fault
  /\ posts' = [posts EXCEPT ![p] = Tail(@)]
  /\ UNCHANGED <<backend, world, ch, closed, numbers, sqlite, batch, waiting,
                 attempt, acked, db>>

\* An error in one event: those before it stay, the rest is not applied, and
\* the answer is no success.  The deletions of a state may have been made.
WorkerFails(p) ==
  /\ Running(p) /\ posts[p] # <<>> /\ Fault
  /\ posts' = [posts EXCEPT ![p] = None]
  /\ db' \in {db} \cup IF Head(posts[p]).kind = "state" THEN {Replaced(Head(posts[p]))} ELSE {}
  /\ IF waiting = p THEN Retry ELSE UNCHANGED <<batch, attempt, waiting>>
  /\ UNCHANGED <<backend, world, ch, closed, numbers, sqlite, acked>>

\* Every event has been applied.
WorkerAnswers(p) ==
  /\ posts[p] = <<>>
  /\ posts' = [posts EXCEPT ![p] = None]
  /\ IF waiting = p
     THEN /\ EndBatch
          /\ acked' = acked \cup {batch[i] : i \in 1..Len(batch)}
     ELSE UNCHANGED <<batch, attempt, waiting, acked>>
  /\ UNCHANGED <<backend, world, ch, closed, numbers, sqlite, db, faults>>

-----------------------------------------------------------------------------
(* The end of a run and the next start                                     *)

\* The process is gone, with the channel and the transaction.  The next one
\* resumes from a snapshot.
Restart(resumed) ==
  /\ run < MaxRuns[backend] /\ run' = run + 1
  /\ tick' = resumed /\ audits' = 0
  /\ snaps' = {}
  /\ ch' = <<>> /\ closed' = FALSE
  /\ seqTick' = 0 /\ seq' = 0
  /\ tx' = Empty /\ ops' = 0
  /\ batch' = <<>> /\ attempt' = 0 /\ waiting' = 0
  /\ UNCHANGED <<backend, posts, acked, db>>

\* An empty world, or the one of a snapshot.
Resumed == {1} \cup {t + 1 : t \in {s \in 1..tick - 1 : s % SnapshotEvery = 0}}

Crash == Fault /\ \E t \in Resumed : Restart(t)

\* A sender that saw an open index sends after Close: a panic.
SendOnClosed ==
  /\ closed /\ UNCHANGED faults
  /\ \E t \in Resumed : Restart(t)

Quiet == closed /\ ch = <<>> /\ tx = Empty /\ batch = <<>>

\* Close has returned and main ends.
Stop ==
  /\ Quiet /\ UNCHANGED faults
  /\ \E t \in Resumed : Restart(t)

-----------------------------------------------------------------------------

SQLiteSteps == Take \/ TakeFails \/ BeginFails \/ LastCommit

D1Steps == Receive \/ Post \/ PostTimesOut

WorkerSteps ==
  \E p \in Posts : WorkerApplies(p) \/ WorkerFails(p) \/ WorkerAnswers(p)

Next ==
  \/ WriteAudit \/ WriteTick \/ RecordSnapshotState
  \/ Close \/ SendOnClosed \/ Stop \/ Crash
  \/ SQLiteSteps \/ D1Steps \/ WorkerSteps

\* The writer takes and commits what there is, the worker answers.
Fairness == WF_vars(Take) /\ WF_vars(LastCommit) /\ WF_vars(Receive \/ Post)
            /\ \A p \in Posts : WF_vars(WorkerApplies(p) \/ WorkerAnswers(p))

Spec == Init /\ [][Next]_vars /\ Fairness
-----------------------------------------------------------------------------
(* Properties                                                              *)

TypeOK ==
  /\ backend \in Backends /\ run \in Runs
  /\ tick \in 1..MaxTick + 1 /\ audits \in 0..MaxAudits
  /\ snaps \subseteq Ticks
  /\ ch \in Seq(Request) /\ Len(ch) <= Cap
  /\ closed \in BOOLEAN
  /\ seqTick \in 0..MaxTick /\ seq \in 0..MaxAudits
  /\ tx \in [Keys -> Row \cup {None}] /\ ops \in 0..CommitEvery
  /\ batch \in Seq(Request) /\ Len(batch) <= BatchSize
  /\ waiting \in Posts \cup {0} /\ attempt \in 0..Attempts
  /\ posts \in [Posts -> Seq(Request) \cup {None}]
  /\ acked \subseteq Request
  /\ db \in [Keys -> Row \cup {None}]
  /\ faults \in 0..MaxFaults

(* A tick in the SQLite tables has all its actions, a snapshot all its agents,
   and both are of one run: errors in the middle of a request, rollbacks of
   many requests at once, crashes and runs that repeat a tick leave no half of
   a request behind (SQLiteIndex.loop: rollback, continue nextReq). *)
RequestsWhole ==
  backend = "sqlite" =>
    \A t \in Ticks : \A part \in {<<"ticks", "actions">>, <<"worlds", "agents">>} :
      LET head == db[<<part[1], t, 0>>]
      IN  head # None => \A i \in 1..head.says : db[<<part[2], t, i>>] = head

(* No audit of a run takes the row of another audit of that run, whether the
   queue drops requests, a transaction is rolled back or a batch is posted
   several times (nextAuditSeq, auditSeq): a row may be replaced only by the
   same audit or by another run. *)
AuditsApart ==
  [][\A t \in Ticks, i \in 1..MaxAudits :
       LET k == <<"audits", t, i>>
       IN  db[k] # None /\ db'[k] # None /\ db[k].run = db'[k].run => db[k] = db'[k]]_vars

(* What D1 has acknowledged is in the tables, after errors in the middle of a
   batch, posts that timed out and are still running, and crashes of the server
   (sendBatch, handleIndexIngest).  The agents of a snapshot, which the worker
   deletes before it inserts them, are left out. *)
AckedRows ==
  \A r \in acked : \A i \in 1..Len(Rows(r, r.seq)) :
    LET k == Rows(r, r.seq)[i].key IN k[1] # "agents" => db[k] # None

(* Close returns: the channel is emptied and the last rows are committed or
   given up (Close waits for the loop), unless the process is gone before. *)
CloseEnds == closed ~> (Quiet \/ ~closed)
=============================================================================
