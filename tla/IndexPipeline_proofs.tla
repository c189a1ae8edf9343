------------------------ MODULE IndexPipeline_proofs ------------------------
(***************************************************************************)
(* Proofs about IndexPipeline: requests are stored whole or not at all,    *)
(* the audits of a run keep apart, and what D1 acknowledged is there, for  *)
(* any channel, batches, transactions, attempts, crashes and errors.       *)
(***************************************************************************)
EXTENDS IndexPipeline, FiniteSetTheorems, SequenceTheorems, TLAPS

-----------------------------------------------------------------------------
(* Queues                                                                  *)

\* The elements of a queue.
In(q) == {q[i] : i \in 1..Len(q)}

\* Taking the head of a queue.
LEMMA TailIn ==
  ASSUME NEW S, NEW q \in Seq(S), q # <<>>
  PROVE  /\ Head(q) \in S /\ Head(q) = q[1] /\ Head(q) \in In(q)
         /\ Tail(q) \in Seq(S) /\ Len(q) \in Nat \ {0} /\ Len(Tail(q)) = Len(q) - 1
         /\ \A i \in 1..Len(q) - 1 : Tail(q)[i] = q[i + 1]
         /\ In(Tail(q)) \subseteq In(q)
<1>1. /\ Tail(q) \in Seq(S) /\ Len(q) \in Nat \ {0} /\ Len(Tail(q)) = Len(q) - 1
      /\ Head(q) \in S /\ Head(q) = q[1]
  BY HeadTailProperties
<1>2. \A i \in 1..Len(q) - 1 : Tail(q)[i] = q[i + 1]
  BY <1>1, HeadTailProperties
<1>3. In(Tail(q)) \subseteq In(q)
  BY <1>1, <1>2 DEF In
<1> QED
  BY <1>1, <1>2, <1>3 DEF In

\* Adding to a queue.
LEMMA AppendIn ==
  ASSUME NEW S, NEW q \in Seq(S), NEW e \in S
  PROVE  /\ Append(q, e) \in Seq(S) /\ Len(Append(q, e)) = Len(q) + 1
         /\ Len(q) \in Nat
         /\ \A i \in 1..Len(q) : Append(q, e)[i] = q[i]
         /\ Append(q, e)[Len(q) + 1] = e
         /\ In(Append(q, e)) = In(q) \cup {e}
<1>1. /\ Append(q, e) \in Seq(S) /\ Len(Append(q, e)) = Len(q) + 1 /\ Len(q) \in Nat
      /\ \A i \in 1..Len(q) : Append(q, e)[i] = q[i]
      /\ Append(q, e)[Len(q) + 1] = e
  BY AppendProperties, LenProperties
<1>2. In(Append(q, e)) = In(q) \cup {e}
  <2>1. 1..Len(q) + 1 = (1..Len(q)) \cup {Len(q) + 1}
    BY <1>1
  <2> QED
    BY <1>1, <2>1 DEF In
<1> QED
  BY <1>1, <1>2

\* Nothing is in the empty queue.
LEMMA EmptyIn == In(<<>>) = {} /\ \A S : <<>> \in Seq(S)
<1>1. Len(<<>>) = 0
  OBVIOUS
<1> QED
  BY <1>1 DEF In

-----------------------------------------------------------------------------
(* Rows                                                                    *)

\* The row a request writes, under which keys.
RowOf(r) == [run |-> r.run, says |-> r.n]

KeysOf(r, number) ==
  CASE r.kind = "tick" ->
         {<<"ticks", r.tick, 0>>} \cup {<<"actions", r.tick, i>> : i \in 1..r.n}
    [] r.kind = "audit" -> {<<"audits", r.tick, number>>}
    [] r.kind = "state" ->
         {<<"worlds", r.tick, 0>>} \cup {<<"agents", r.tick, i>> : i \in 1..r.n}

\* One element before a sequence.
LEMMA Prefixed ==
  ASSUME NEW S, NEW e \in S, NEW n \in Nat, NEW f \in [1..n -> S]
  PROVE  /\ Len(<<e>> \o f) = n + 1
         /\ (<<e>> \o f)[1] = e
         /\ \A i \in 1..n : (<<e>> \o f)[i + 1] = f[i]
<1>1. <<e>> \in Seq(S) /\ Len(<<e>>) = 1 /\ <<e>>[1] = e
  OBVIOUS
<1>2. f \in Seq(S) /\ Len(f) = n
  OBVIOUS
<1> DEFINE d == <<e>>
<1>3. d \in Seq(S) /\ Len(d) = 1 /\ d[1] = e
  BY <1>1
<1> HIDE DEF d
<1>4. /\ Len(d \o f) = Len(d) + Len(f)
      /\ \A i \in 1..Len(d) + Len(f) :
           (d \o f)[i] = IF i <= Len(d) THEN d[i] ELSE f[i - Len(d)]
  BY <1>2, <1>3, ConcatProperties
<1>5. /\ Len(d \o f) = n + 1 /\ (d \o f)[1] = e
      /\ \A i \in 1..n : (d \o f)[i + 1] = f[i]
  BY <1>2, <1>3, <1>4
<1> QED
  BY <1>5 DEF d

\* A head row followed by n numbered ones.
HeadKeys(r, head, part) ==
  {<<head, r.tick, 0>>} \cup {<<part, r.tick, i>> : i \in 1..r.n}

HeadRows(r, head, part) ==
  <<Says(r, head, 0)>> \o [i \in 1..r.n |-> Says(r, part, i)]

\* A sequence of rows that request r writes under the given keys.
Writes(rows, r, keys) ==
  /\ Len(rows) \in Nat
  /\ \A i \in 1..Len(rows) : rows[i].key \in keys /\ rows[i].row = RowOf(r)
  /\ \A k \in keys : \E i \in 1..Len(rows) : rows[i].key = k

LEMMA HeadAndParts ==
  \A r \in Request : \A head, part : Writes(HeadRows(r, head, part), r, HeadKeys(r, head, part))
<1> SUFFICES ASSUME NEW r \in Request, NEW head, NEW part
             PROVE  Writes(HeadRows(r, head, part), r, HeadKeys(r, head, part))
  OBVIOUS
<1> DEFINE rows == HeadRows(r, head, part)
           rest == [i \in 1..r.n |-> Says(r, part, i)]
           first == Says(r, head, 0)
           All == {first} \cup {Says(r, part, i) : i \in 1..r.n}
<1>1. r.n \in Nat
  BY DEF Request
<1>2. first \in All /\ rest \in [1..r.n -> All]
  OBVIOUS
<1>3. /\ Len(<<first>> \o rest) = r.n + 1
      /\ (<<first>> \o rest)[1] = first
      /\ \A i \in 1..r.n : (<<first>> \o rest)[i + 1] = rest[i]
  <2> HIDE DEF first, rest, All
  <2> QED
    BY <1>1, <1>2, Prefixed
<1>4. rows = <<first>> \o rest
  BY DEF HeadRows
<1>5. Len(rows) = r.n + 1 /\ rows[1] = first
  BY <1>3, <1>4
<1>6. \A i \in 1..r.n : rows[i + 1] = Says(r, part, i)
  BY <1>3, <1>4
<1> HIDE DEF rows, rest
<1>7. ASSUME NEW i \in 1..Len(rows)
      PROVE  rows[i].key \in HeadKeys(r, head, part) /\ rows[i].row = RowOf(r)
  <2>1. CASE i = 1
    BY <1>5, <2>1 DEF Says, RowOf, HeadKeys
  <2>2. CASE i # 1
    <3>1. i - 1 \in 1..r.n /\ i = (i - 1) + 1
      BY <1>1, <1>5, <2>2
    <3>2. rows[i] = Says(r, part, i - 1)
      BY <1>6, <3>1
    <3> QED
      BY <3>1, <3>2 DEF Says, RowOf, HeadKeys
  <2> QED
    BY <2>1, <2>2
<1>8. ASSUME NEW k \in HeadKeys(r, head, part)
      PROVE  \E i \in 1..Len(rows) : rows[i].key = k
  <2>1. CASE k = <<head, r.tick, 0>>
    <3>1. 1 \in 1..Len(rows) /\ rows[1].key = k
      BY <1>1, <1>5, <2>1 DEF Says
    <3> QED
      BY <3>1
  <2>2. ASSUME NEW i \in 1..r.n, k = <<part, r.tick, i>>
        PROVE  \E j \in 1..Len(rows) : rows[j].key = k
    <3>1. i + 1 \in 1..Len(rows)
      BY <1>1, <1>5
    <3>2. rows[i + 1] = Says(r, part, i)
      BY <1>6
    <3>3. Says(r, part, i).key = k
      BY <2>2 DEF Says
    <3> QED
      BY <3>1, <3>2, <3>3
  <2> QED
    BY <2>1, <2>2 DEF HeadKeys
<1>9. Len(rows) \in Nat
  BY <1>1, <1>5
<1>10. Writes(rows, r, HeadKeys(r, head, part))
  BY <1>7, <1>8, <1>9 DEF Writes
<1> QED
  BY <1>10 DEF rows

\* The rows of a request say the same, under its keys.
LEMMA RowsSay ==
  \A r \in Request : \A number : Writes(Rows(r, number), r, KeysOf(r, number))
<1> SUFFICES ASSUME NEW r \in Request, NEW number
             PROVE  Writes(Rows(r, number), r, KeysOf(r, number))
  OBVIOUS
<1>1. r.kind \in {"tick", "audit", "state"}
  BY DEF Request
<1>2. CASE r.kind = "tick"
  <2>1. /\ Rows(r, number) = HeadRows(r, "ticks", "actions")
        /\ KeysOf(r, number) = HeadKeys(r, "ticks", "actions")
    BY <1>2 DEF Rows, TickRows, KeysOf, HeadRows, HeadKeys
  <2> QED
    BY <2>1, HeadAndParts
<1>3. CASE r.kind = "state"
  <2>1. /\ Rows(r, number) = HeadRows(r, "worlds", "agents")
        /\ KeysOf(r, number) = HeadKeys(r, "worlds", "agents")
    BY <1>3 DEF Rows, StateRows, KeysOf, HeadRows, HeadKeys
  <2> QED
    BY <2>1, HeadAndParts
<1>4. CASE r.kind = "audit"
  <2>1. /\ Rows(r, number) = <<Says(r, "audits", number)>>
        /\ KeysOf(r, number) = {<<"audits", r.tick, number>>}
    BY <1>4 DEF Rows, AuditRows, KeysOf
  <2>2. /\ Len(<<Says(r, "audits", number)>>) = 1
        /\ <<Says(r, "audits", number)>>[1] = Says(r, "audits", number)
    OBVIOUS
  <2> QED
    BY <2>1, <2>2 DEF Says, RowOf, Writes
<1> QED
  BY <1>1, <1>2, <1>3, <1>4

\* Writing the rows of a request.
LEMMA PutWrites ==
  \A rows, r, keys, table : Writes(rows, r, keys) =>
    Put(table, rows) = [k \in Keys |-> IF k \in keys THEN RowOf(r) ELSE table[k]]
<1> SUFFICES ASSUME NEW rows, NEW r, NEW keys, NEW table, Writes(rows, r, keys),
                    NEW k \in Keys
             PROVE  (IF \E i \in 1..Len(rows) : rows[i].key = k
                     THEN rows[CHOOSE i \in 1..Len(rows) : rows[i].key = k].row
                     ELSE table[k])
                      = (IF k \in keys THEN RowOf(r) ELSE table[k])
  BY DEF Put
<1>1. /\ \A i \in 1..Len(rows) : rows[i].key \in keys /\ rows[i].row = RowOf(r)
      /\ \A e \in keys : \E i \in 1..Len(rows) : rows[i].key = e
  BY DEF Writes
<1>2. CASE k \in keys
  <2>1. \E i \in 1..Len(rows) : rows[i].key = k
    BY <1>1, <1>2
  <2>2. (CHOOSE i \in 1..Len(rows) : rows[i].key = k) \in 1..Len(rows)
    BY <2>1
  <2> QED
    BY <1>1, <1>2, <2>1, <2>2
<1>3. CASE k \notin keys
  <2>1. ~\E i \in 1..Len(rows) : rows[i].key = k
    BY <1>1, <1>3
  <2> QED
    BY <1>3, <2>1
<1> QED
  BY <1>2, <1>3

-----------------------------------------------------------------------------
(* The inductive invariant                                                 *)

\* Posts that the worker is at, after their run or their deadline too.
Used == {p \in Posts : posts[p] # None}

\* Requests on their way to the tables.
Carried == In(ch) \cup In(batch) \cup UNION {In(posts[p]) : p \in Used}

\* Requests of the world, with rows in the tables.
WellMade(r) ==
  IF r.kind = "audit"
  THEN r.n \in 1..MaxAudits /\ (backend = "d1" => r.seq \in 1..MaxAudits)
  ELSE r.n <= MaxActions

Made ==
  /\ \A r \in Carried : WellMade(r) /\ r.run <= run
  /\ \A r \in In(ch) \cup In(batch) : r.run = run
  /\ \A r \in acked : WellMade(r)

\* A backend leaves the state of the other alone.
OneWriter ==
  /\ backend = "sqlite" => /\ batch = <<>> /\ waiting = 0 /\ attempt = 0
                           /\ posts = [p \in Posts |-> None] /\ acked = {}
  /\ backend = "d1" => tx = Empty /\ ops = 0

\* Numbers that NextSeq has given to audits of the run.
Given(t, i) == t < seqTick \/ (t = seqTick /\ i <= seq)

\* The audits of a run are counted, and queued, in their order: the number of
\* the next one that the SQLite writer takes was not given before.
Queued ==
  \A i \in 1..Len(ch) : ch[i].kind = "audit" =>
    /\ seq < ch[i].n /\ seqTick <= ch[i].tick
    /\ \A j \in i + 1..Len(ch) :
         ch[j].kind = "audit" => ch[i].n < ch[j].n /\ ch[i].tick <= ch[j].tick

InOrder ==
  /\ seq <= audits /\ seqTick <= tick
  /\ backend = "sqlite" => Queued
  /\ \A r \in In(ch) : r.kind = "audit" => r.n <= audits /\ r.tick <= tick

\* Rows of audits have numbers that were given.
RowsNumbered ==
  \A t \in Ticks, i \in 1..MaxAudits :
    LET k == <<"audits", t, i>> IN
    /\ db[k] # None => db[k].run <= run /\ (db[k].run = run => Given(t, i))
    /\ tx[k] # None => /\ tx[k].run = run /\ Given(t, i)
                       /\ db[k] # None => db[k].run # run

\* And so have the audits on their way to D1: a number names one of them.
Audits == {r \in Carried : r.kind = "audit"}

SameAudit(r, q) ==
  r.run = q.run /\ r.tick = q.tick /\ r.seq = q.seq => r.n = q.n

NumbersApart ==
  backend = "d1" =>
    /\ \A r \in Audits : r.run = run => Given(r.tick, r.seq)
    /\ \A r, q \in Audits : SameAudit(r, q)
    /\ \A r \in Audits :
         LET k == <<"audits", r.tick, r.seq>> IN
         db[k] # None /\ db[k].run = r.run => db[k].says = r.n

\* A table has every part of the requests whose head it has, and no part
\* without a head.
WholeAt(table, head, part, t) ==
  table[<<head, t, 0>>] # None =>
    /\ table[<<head, t, 0>>].says \in 0..MaxActions
    /\ \A i \in 1..table[<<head, t, 0>>].says : table[<<part, t, i>>] = table[<<head, t, 0>>]

HeadedAt(table, head, part, t) ==
  \A i \in 1..MaxActions : table[<<part, t, i>>] # None => table[<<head, t, 0>>] # None

Whole(table) ==
  \A t \in Ticks : /\ WholeAt(table, "ticks", "actions", t)
                   /\ WholeAt(table, "worlds", "agents", t)

Headed(table) ==
  \A t \in Ticks : /\ HeadedAt(table, "ticks", "actions", t)
                   /\ HeadedAt(table, "worlds", "agents", t)

TablesWhole == backend = "sqlite" => Whole(tx) /\ Headed(tx) /\ Whole(db)

\* The rows of r, but for those of agents, are in the tables.
Stored(r) == \A k \in KeysOf(r, r.seq) : k[1] # "agents" => db[k] # None

\* The post that is waited for has some events left; those before are stored.
Left(j) == SubSeq(batch, j + 1, Len(batch))

Progress ==
  /\ attempt = 0 => waiting = 0
  /\ waiting # 0 => \E j \in 0..Len(batch) :
                      posts[waiting] = Left(j) /\ \A i \in 1..j : Stored(batch[i])

\* What was acknowledged is stored.
AllStored == \A r \in acked : Stored(r)

\* There is a post to be used: the others were given up, or their run is over.
Room ==
  Cardinality(Used) <= faults + run - 1 + (IF waiting = 0 THEN 0 ELSE 1)

Typed == TypeOK /\ run <= MaxRuns[backend]

IInv ==
  /\ Typed
  /\ Made /\ OneWriter /\ InOrder /\ RowsNumbered /\ NumbersApart
  /\ TablesWhole /\ Progress /\ AllStored /\ Room

-----------------------------------------------------------------------------
(* Constants                                                               *)

\* Some backend may start most often.
LEMMA MostRunsType ==
  MostRuns \in Nat \ {0} /\ \A b \in Backends : MaxRuns[b] <= MostRuns
<1>1. /\ Backends \subseteq {"sqlite", "d1"} /\ Backends # {}
      /\ \A b \in Backends : MaxRuns[b] \in Nat \ {0}
  BY IndexAssumption
<1>2. \E n \in {MaxRuns[b] : b \in Backends} : \A b \in Backends : MaxRuns[b] <= n
  <2>1. CASE Backends = {"sqlite"}
    BY <1>1, <2>1
  <2>2. CASE Backends = {"d1"}
    BY <1>1, <2>2
  <2>3. CASE Backends = {"sqlite", "d1"}
    <3>1. CASE MaxRuns["sqlite"] <= MaxRuns["d1"]
      BY <1>1, <2>3, <3>1
    <3>2. CASE MaxRuns["d1"] <= MaxRuns["sqlite"]
      BY <1>1, <2>3, <3>2
    <3> QED
      BY <1>1, <2>3, <3>1, <3>2
  <2> QED
    BY <1>1, <2>1, <2>2, <2>3
<1>3. /\ MostRuns \in {MaxRuns[b] : b \in Backends}
      /\ \A b \in Backends : MaxRuns[b] <= MostRuns
  BY <1>2 DEF MostRuns
<1> QED
  BY <1>1, <1>3

\* There are more posts than can be under way.
LEMMA PostsFinite ==
  /\ IsFiniteSet(Posts) /\ Cardinality(Posts) = MaxFaults + MostRuns
  /\ 0 \notin Posts /\ MaxFaults + MostRuns \in Nat
<1>1. MaxFaults + MostRuns \in Nat
  BY MostRunsType, IndexAssumption
<1> DEFINE n == MaxFaults + MostRuns
<1>2. n \in Nat /\ Posts = 1..n
  BY <1>1 DEF Posts
<1> HIDE DEF n
<1>3. IsFiniteSet(1..n) /\ Cardinality(1..n) = n /\ 0 \notin 1..n
  BY <1>2, FS_Interval
<1>4. Cardinality(Posts) = n /\ IsFiniteSet(Posts) /\ 0 \notin Posts
  BY <1>2, <1>3
<1> QED
  BY <1>1, <1>4 DEF n

\* No request and no row is None.
LEMMA NotNone ==
  /\ \A row \in Row : row # None
  /\ \A q \in Seq(Request) : q # None
  BY NoneAssumption

\* Keys of the tables.
LEMMA KeysIn ==
  /\ \A t \in Ticks : <<"ticks", t, 0>> \in Keys /\ <<"worlds", t, 0>> \in Keys
  /\ \A t \in Ticks, i \in 1..MaxActions :
       <<"actions", t, i>> \in Keys /\ <<"agents", t, i>> \in Keys
  /\ \A t \in Ticks, i \in 1..MaxAudits : <<"audits", t, i>> \in Keys
  BY DEF Keys

\* Which keys a request writes.
AuditKey(r, number, t, i) ==
  <<"audits", t, i>> \in KeysOf(r, number) <=> r.kind = "audit" /\ t = r.tick /\ i = number

HeadKey(r, number, t, head, kind) ==
  <<head, t, 0>> \in KeysOf(r, number) <=> r.kind = kind /\ t = r.tick

PartKey(r, number, t, i, part, kind) ==
  <<part, t, i>> \in KeysOf(r, number) <=> r.kind = kind /\ t = r.tick /\ i \in 1..r.n

LEMMA KeysOfIs ==
  \A r \in Request : \A number, t, i :
    /\ AuditKey(r, number, t, i)
    /\ HeadKey(r, number, t, "ticks", "tick") /\ HeadKey(r, number, t, "worlds", "state")
    /\ PartKey(r, number, t, i, "actions", "tick") /\ PartKey(r, number, t, i, "agents", "state")
<1> SUFFICES ASSUME NEW r \in Request, NEW number, NEW t, NEW i
    PROVE
    /\ AuditKey(r, number, t, i)
    /\ HeadKey(r, number, t, "ticks", "tick") /\ HeadKey(r, number, t, "worlds", "state")
    /\ PartKey(r, number, t, i, "actions", "tick") /\ PartKey(r, number, t, i, "agents", "state")
  OBVIOUS
<1> USE DEF AuditKey, HeadKey, PartKey
<1>1. r.kind \in {"tick", "audit", "state"}
  BY DEF Request
<1>2. CASE r.kind = "tick"
  BY <1>2 DEF KeysOf
<1>3. CASE r.kind = "audit"
  BY <1>3 DEF KeysOf
<1>4. CASE r.kind = "state"
  BY <1>4 DEF KeysOf
<1> QED
  BY <1>1, <1>2, <1>3, <1>4

\* Writing the rows of a request.
Wrote(table, after, r, number) ==
  after = [k \in Keys |-> IF k \in KeysOf(r, number) THEN RowOf(r) ELSE table[k]]

LEMMA PutRows ==
  \A r \in Request : \A number, table :
    Wrote(table, Put(table, Rows(r, number)), r, number)
  BY RowsSay, PutWrites DEF Wrote

LEMMA RowType == \A r \in Request : RowOf(r) \in Row /\ RowOf(r) # None
  BY NotNone DEF RowOf, Row, Request

LEMMA PutType ==
  \A r \in Request : \A number : \A table \in [Keys -> Row \cup {None}] :
    Put(table, Rows(r, number)) \in [Keys -> Row \cup {None}]
  BY PutRows, RowType DEF Wrote

LEMMA EmptyType == Empty \in [Keys -> Row \cup {None}] /\ \A k \in Keys : Empty[k] = None
  BY DEF Empty

LEMMA OverType ==
  \A table, changes \in [Keys -> Row \cup {None}] :
    Over(table, changes) \in [Keys -> Row \cup {None}]
  BY DEF Over

-----------------------------------------------------------------------------
(* Steps                                                                   *)

\* The next number of an audit of a tick was not given before.
LEMMA NextGiven ==
  ASSUME NEW t \in Nat, seq \in Nat, seqTick \in Nat, seqTick <= t, NextSeq(t)
  PROVE  /\ seq' \in Nat /\ 1 <= seq' /\ seq' <= seq + 1 /\ seqTick' = t
         /\ ~Given(t, seq')
         /\ \A u, i \in Nat : Given(u, i) \/ (u = t /\ i = seq') => Given(u, i)'
  BY DEF NextSeq, Given

\* The world offers request r to the index.
Offers(r) ==
  /\ r \in Request /\ r.run = run /\ WellMade(r)
  /\ ch' = ch \/ (Len(ch) < Cap /\ ch' = Append(ch, r))
  /\ tick' \in 1..MaxTick + 1 /\ tick <= tick'
  /\ audits' \in 0..MaxAudits /\ audits <= audits' /\ snaps' \subseteq Ticks
  /\ r.kind # "audit" => UNCHANGED numbers
  /\ r.kind = "audit" => /\ r.tick = tick /\ r.n = audits' /\ audits' = audits + 1
                         /\ \/ backend = "d1" /\ NextSeq(tick) /\ r.seq = seq'
                            \/ UNCHANGED numbers /\ (backend = "d1" => ch' = ch)
  /\ UNCHANGED <<backend, run, closed, sqlite, d1, db, faults>>

LEMMA AuditOffered ==
  ASSUME Typed, InOrder, WriteAudit
  PROVE  \E r : Offers(r)
<1> PICK s : s = IF backend = "d1" THEN seq' ELSE 0
  OBVIOUS
<1> DEFINE r == NewRequest("audit", tick, audits + 1, s)
<1>1. /\ tick \in Ticks /\ audits \in Nat /\ audits + 1 \in 1..MaxAudits /\ audits' = audits + 1
      /\ seq \in Nat /\ seqTick \in Nat /\ seq <= audits /\ seqTick <= tick /\ tick \in Nat
      /\ MaxAudits \in Nat /\ MaxTick \in Nat /\ tick' = tick /\ snaps' = snaps /\ snaps \subseteq Ticks
      /\ tick \in 1..MaxTick + 1 /\ run \in Runs
  BY IndexAssumption DEF Typed, TypeOK, InOrder, WriteAudit, Ticks
<1>2. /\ ch' = IF ~closed /\ Len(ch) < Cap THEN Append(ch, r) ELSE ch
      /\ UNCHANGED <<backend, run, closed, sqlite, d1, db, faults>>
  BY <1>1 DEF WriteAudit, Enqueue
<1>3. IF backend = "d1" /\ ~closed THEN NextSeq(tick) ELSE UNCHANGED numbers
  BY DEF WriteAudit
<1>4. /\ seq' \in Nat
      /\ backend = "d1" /\ ~closed => seq' \in 1..MaxAudits
  <2>1. CASE backend = "d1" /\ ~closed
    <3>1. seq' \in Nat /\ 1 <= seq' /\ seq' <= seq + 1
      BY <1>1, <1>3, <2>1, NextGiven
    <3> QED
      BY <1>1, <3>1
  <2>2. CASE ~(backend = "d1" /\ ~closed)
    BY <1>1, <1>3, <2>2 DEF numbers
  <2> QED
    BY <2>1, <2>2
<1>5. s \in Nat
  BY <1>4
<1>6. /\ r.kind = "audit" /\ r.tick = tick /\ r.run = run /\ r.n = audits + 1 /\ r.seq = s
      /\ r \in Request
  BY <1>1, <1>5 DEF NewRequest, Request
<1> HIDE DEF r
<1>7. CASE closed
  <2>1. UNCHANGED numbers /\ ch' = ch
    BY <1>2, <1>3, <1>7
  <2> DEFINE q == [r EXCEPT !.seq = 1]
  <2>2. /\ q.kind = "audit" /\ q.tick = tick /\ q.run = run /\ q.n = audits + 1 /\ q.seq = 1
        /\ q \in Request
    BY <1>6 DEF Request
  <2> HIDE DEF q
  <2>3. WellMade(q)
    BY <1>1, <2>2 DEF WellMade
  <2>4. Offers(q)
    BY <1>1, <1>2, <2>1, <2>2, <2>3 DEF Offers
  <2> QED
    BY <2>4
<1>8. CASE ~closed
  <2>1. WellMade(r)
    BY <1>1, <1>4, <1>6, <1>8 DEF WellMade
  <2>2. ch' = ch \/ (Len(ch) < Cap /\ ch' = Append(ch, r))
    BY <1>2
  <2>3. backend = "d1" => NextSeq(tick) /\ r.seq = seq'
    BY <1>3, <1>6, <1>8
  <2>4. backend # "d1" => UNCHANGED numbers
    BY <1>3
  <2>5. Offers(r)
    BY <1>1, <1>2, <1>6, <2>1, <2>2, <2>3, <2>4 DEF Offers
  <2> QED
    BY <2>5
<1> QED
  BY <1>7, <1>8

LEMMA OthersOffered ==
  ASSUME Typed, WriteTick \/ RecordSnapshotState
  PROVE  \E r : Offers(r)
<1>1. /\ tick \in Nat /\ audits \in 0..MaxAudits /\ snaps \subseteq Ticks /\ run \in Runs
      /\ MaxTick \in Nat /\ MaxActions \in Nat /\ tick \in 1..MaxTick + 1
  BY IndexAssumption DEF Typed, TypeOK
<1>2. ASSUME NEW kind \in {"tick", "state"}, NEW t \in Ticks, NEW n \in 0..MaxActions,
             Enqueue(NewRequest(kind, t, n, 0)),
             tick' \in 1..MaxTick + 1, tick <= tick', snaps' \subseteq Ticks,
             UNCHANGED <<audits, numbers>>
      PROVE  \E r : Offers(r)
  <2> DEFINE r == NewRequest(kind, t, n, 0)
  <2>1. /\ r.kind = kind /\ r.tick = t /\ r.run = run /\ r.n = n
        /\ r \in Request
    BY <1>1, <1>2 DEF NewRequest, Request
  <2>2. /\ ch' = IF ~closed /\ Len(ch) < Cap THEN Append(ch, r) ELSE ch
        /\ UNCHANGED <<backend, run, closed, sqlite, d1, db, faults>>
    BY <1>2 DEF Enqueue
  <2> HIDE DEF r
  <2>3. WellMade(r) /\ r.kind # "audit"
    BY <1>1, <1>2, <2>1 DEF WellMade
  <2>4. Offers(r)
    BY <1>1, <1>2, <2>1, <2>2, <2>3 DEF Offers
  <2> QED
    BY <2>4
<1>3. CASE WriteTick
  <2>1. tick \in Ticks /\ tick' = tick + 1 /\ tick' \in 1..MaxTick + 1 /\ tick <= tick'
    BY <1>1, <1>3 DEF WriteTick, Ticks
  <2>2. snaps' \subseteq Ticks
    BY <1>1, <1>3, <2>1 DEF WriteTick
  <2>3. PICK n \in 0..MaxActions : Enqueue(NewRequest("tick", tick, n, 0))
    BY <1>3 DEF WriteTick
  <2>4. UNCHANGED <<audits, numbers>>
    BY <1>3 DEF WriteTick
  <2> QED
    BY <1>2, <2>1, <2>2, <2>3, <2>4
<1>4. CASE RecordSnapshotState
  <2>1. PICK t \in snaps : /\ snaps' = snaps \ {t}
                           /\ Enqueue(NewRequest("state", t, MaxActions, 0))
    BY <1>4 DEF RecordSnapshotState
  <2>2. UNCHANGED <<tick, audits, numbers>>
    BY <1>4 DEF RecordSnapshotState
  <2> QED
    BY <1>1, <1>2, <2>1, <2>2
<1> QED
  BY <1>3, <1>4

\* The SQLite writer takes request h; row errors and rollbacks included.
Takes(h) ==
  /\ backend = "sqlite" /\ ch # <<>> /\ h = Head(ch) /\ ch' = Tail(ch)
  /\ \/ UNCHANGED <<numbers, tx, ops, db>>
     \/ Numbered(h) /\ tx' = Empty /\ ops' = 0 /\ db' = db
     \/ /\ Numbered(h)
        /\ \/ Commit(Put(tx, Rows(h, seq')))
           \/ /\ tx' = Put(tx, Rows(h, seq')) /\ ops' \in 0..CommitEvery
              /\ db' = db
  /\ UNCHANGED <<backend, world, closed, d1>>
  /\ faults' = faults \/ Fault

LEMMA TakesSome ==
  ASSUME Typed, Take \/ TakeFails \/ BeginFails
  PROVE  ch # <<>> /\ Head(ch) \in Request /\ Takes(Head(ch))
<1> DEFINE h == Head(ch)
<1>1. ch # <<>> /\ ch \in Seq(Request)
  BY DEF Take, TakeFails, BeginFails, Taking, Typed, TypeOK
<1>2. h \in Request
  BY <1>1, TailIn
<1>3. CASE Take
  <2>1. PICK n : n = seq'
    OBVIOUS
  <2>2. Len(Rows(h, n)) \in Nat
    BY <1>2, RowsSay DEF Writes
  <2>3. ops \in Nat /\ CommitEvery \in Nat
    BY IndexAssumption DEF Typed, TypeOK
  <2>4. /\ Numbered(h)
        /\ \/ Commit(Put(tx, Rows(h, seq')))
           \/ /\ ops + Len(Rows(h, seq')) < CommitEvery
              /\ tx' = Put(tx, Rows(h, seq')) /\ ops' = ops + Len(Rows(h, seq'))
              /\ UNCHANGED db
    BY <1>3 DEF Take
  <2>5. ops + Len(Rows(h, n)) < CommitEvery => ops + Len(Rows(h, n)) \in 0..CommitEvery
    BY <2>2, <2>3
  <2>6. \/ Commit(Put(tx, Rows(h, seq')))
        \/ /\ tx' = Put(tx, Rows(h, seq')) /\ ops' \in 0..CommitEvery /\ db' = db
    BY <2>1, <2>4, <2>5
  <2>7. /\ backend = "sqlite" /\ ch' = Tail(ch)
        /\ UNCHANGED <<backend, world, closed, d1>> /\ faults' = faults
    BY <1>3 DEF Take, Taking
  <2> QED
    BY <1>1, <1>2, <2>4, <2>6, <2>7 DEF Takes
<1>4. CASE TakeFails
  BY <1>1, <1>2, <1>4 DEF TakeFails, Taking, Takes
<1>5. CASE BeginFails
  BY <1>1, <1>2, <1>5 DEF BeginFails, Taking, Takes, sqlite
<1> QED
  BY <1>3, <1>4, <1>5

\* What NextSeq does to the writer that numbers the audits it takes.
LEMMA TakesNumber ==
  ASSUME Typed, InOrder, Made, NEW h, Takes(h)
  PROVE  /\ h \in Request /\ WellMade(h) /\ h.run = run
         /\ UNCHANGED numbers \/ (h.kind = "audit" /\ NextSeq(h.tick))
         /\ h.kind = "audit" =>
              h.tick \in Ticks /\ seqTick <= h.tick /\ seq < h.n /\ h.n <= audits /\ h.tick <= tick
         /\ seq' \in 0..audits /\ seqTick' \in 0..MaxTick /\ seqTick' <= tick
<1>1. /\ ch # <<>> /\ ch \in Seq(Request) /\ h = Head(ch) /\ backend = "sqlite"
      /\ seq \in Nat /\ seqTick \in Nat /\ seqTick \in 0..MaxTick /\ MaxTick \in Nat
      /\ audits \in Nat /\ seq <= audits /\ seqTick <= tick /\ tick \in Nat
  BY IndexAssumption DEF Takes, Typed, TypeOK, InOrder
<1>2. h \in Request /\ h = ch[1] /\ h \in In(ch) /\ Len(ch) \in Nat \ {0}
  BY <1>1, TailIn
<1>3. WellMade(h) /\ h.run = run
  BY <1>2 DEF Made, Carried
<1>4. UNCHANGED numbers \/ (h.kind = "audit" /\ NextSeq(h.tick))
  BY DEF Takes, Numbered, numbers
<1>5. h.tick \in Ticks /\ h.n \in Nat
  BY <1>2 DEF Request
<1>6. h.kind = "audit" =>
        h.tick \in Ticks /\ seqTick <= h.tick /\ seq < h.n /\ h.n <= audits /\ h.tick <= tick
  BY <1>1, <1>2, <1>5 DEF InOrder, Queued
<1>7. seq' \in 0..audits /\ seqTick' \in 0..MaxTick /\ seqTick' <= tick
  <2>1. CASE UNCHANGED numbers
    BY <1>1, <2>1 DEF numbers
  <2>2. CASE h.kind = "audit" /\ NextSeq(h.tick)
    <3>1. h.tick \in Nat /\ h.tick <= MaxTick
      BY <1>1, <1>5 DEF Ticks
    <3>2. seq' \in Nat /\ seq' <= seq + 1 /\ seqTick' = h.tick
      BY <1>1, <1>6, <2>2, <3>1, NextGiven
    <3> QED
      BY <1>1, <1>5, <1>6, <2>2, <3>1, <3>2
  <2> QED
    BY <1>4, <2>1, <2>2
<1> QED
  BY <1>2, <1>3, <1>4, <1>6, <1>7

-----------------------------------------------------------------------------
(* Type correctness                                                        *)

LEMMA OffersTyped ==
  ASSUME Typed, InOrder, NEW r, Offers(r)
  PROVE  Typed'
<1>1. ch' \in Seq(Request) /\ Len(ch') <= Cap
  <2>1. ch \in Seq(Request) /\ Len(ch) <= Cap /\ Cap \in Nat
    BY IndexAssumption DEF Typed, TypeOK
  <2>2. CASE ch' = ch
    BY <2>1, <2>2
  <2>3. CASE Len(ch) < Cap /\ ch' = Append(ch, r)
    <3>1. r \in Request
      BY DEF Offers
    <3>2. Append(ch, r) \in Seq(Request) /\ Len(Append(ch, r)) = Len(ch) + 1 /\ Len(ch) \in Nat
      BY <2>1, <3>1, AppendIn
    <3> QED
      BY <2>1, <2>3, <3>2
  <2> QED
    BY <2>2, <2>3 DEF Offers
<1>2. /\ MaxAudits \in Nat /\ MaxTick \in Nat /\ tick \in Nat /\ seq \in Nat /\ seqTick \in Nat
      /\ seqTick <= tick /\ seq <= audits /\ audits \in 0..MaxAudits
      /\ seqTick \in 0..MaxTick /\ seq \in 0..MaxAudits
  BY IndexAssumption DEF Typed, TypeOK, InOrder
<1>3. seqTick' \in 0..MaxTick /\ seq' \in 0..MaxAudits
  <2>1. CASE UNCHANGED numbers
    BY <1>2, <2>1 DEF numbers
  <2>2. CASE r.kind = "audit" /\ NextSeq(tick)
    <3>1. r \in Request /\ r.tick = tick /\ audits' = audits + 1 /\ audits' \in 0..MaxAudits
      BY <2>2 DEF Offers
    <3>2. tick \in Ticks
      BY <3>1 DEF Request
    <3>3. seq' \in Nat /\ seq' <= seq + 1 /\ seqTick' = tick
      BY <1>2, <2>2, NextGiven
    <3> QED
      BY <1>2, <3>1, <3>2, <3>3 DEF Ticks
  <2> QED
    BY <2>1, <2>2 DEF Offers
<1>4. tick' \in 1..MaxTick + 1 /\ audits' \in 0..MaxAudits /\ snaps' \subseteq Ticks
  BY DEF Offers
<1>5. UNCHANGED <<backend, run, closed, tx, ops, batch, waiting, attempt, posts, acked, db, faults>>
  BY DEF Offers, sqlite, d1
<1> QED
  BY <1>1, <1>3, <1>4, <1>5 DEF Typed, TypeOK

LEMMA FaultType == TypeOK /\ (faults' = faults \/ Fault) => faults' \in 0..MaxFaults
  BY IndexAssumption DEF TypeOK, Fault

LEMMA TakesTyped ==
  ASSUME Typed, InOrder, Made, NEW h, Takes(h)
  PROVE  Typed'
<1>1. /\ h \in Request /\ seq' \in 0..audits /\ seqTick' \in 0..MaxTick
  BY TakesNumber
<1>2. audits \in 0..MaxAudits /\ MaxAudits \in Nat
  BY IndexAssumption DEF Typed, TypeOK
<1>3. ch' \in Seq(Request) /\ Len(ch') <= Cap
  <2>1. ch \in Seq(Request) /\ Len(ch) <= Cap /\ Cap \in Nat /\ ch # <<>> /\ ch' = Tail(ch)
    BY IndexAssumption DEF Typed, TypeOK, Takes
  <2>2. Tail(ch) \in Seq(Request) /\ Len(ch) \in Nat \ {0} /\ Len(Tail(ch)) = Len(ch) - 1
    BY <2>1, TailIn
  <2> QED
    BY <2>1, <2>2
<1>4. /\ tx \in [Keys -> Row \cup {None}] /\ db \in [Keys -> Row \cup {None}]
      /\ ops \in 0..CommitEvery /\ CommitEvery \in Nat
  BY IndexAssumption DEF Typed, TypeOK
<1>5. PICK n : n = seq'
  OBVIOUS
<1>6. Put(tx, Rows(h, n)) \in [Keys -> Row \cup {None}]
  BY <1>1, <1>4, PutType
<1>7. /\ tx' \in [Keys -> Row \cup {None}] /\ db' \in [Keys -> Row \cup {None}]
      /\ ops' \in 0..CommitEvery
  <2>1. CASE UNCHANGED <<numbers, tx, ops, db>>
    BY <1>4, <2>1
  <2>2. CASE tx' = Empty /\ ops' = 0 /\ db' = db
    BY <1>4, <2>2, EmptyType
  <2>3. CASE Commit(Put(tx, Rows(h, n)))
    <3>1. Over(db, Put(tx, Rows(h, n))) \in [Keys -> Row \cup {None}]
      BY <1>4, <1>6, OverType
    <3> QED
      BY <1>4, <2>3, <3>1, EmptyType DEF Commit
  <2>4. CASE tx' = Put(tx, Rows(h, n)) /\ ops' \in 0..CommitEvery /\ db' = db
    BY <1>4, <1>6, <2>4
  <2> QED
    BY <1>5, <2>1, <2>2, <2>3, <2>4 DEF Takes
<1>8. UNCHANGED <<backend, run, tick, audits, snaps, closed, batch, waiting, attempt, posts, acked>>
  BY DEF Takes, world, d1
<1>9. faults' \in 0..MaxFaults
  BY FaultType DEF Typed, Takes
<1> QED
  BY <1>1, <1>2, <1>3, <1>7, <1>8, <1>9 DEF Typed, TypeOK

LEMMA LastCommitTyped ==
  ASSUME Typed, LastCommit
  PROVE  Typed'
<1>1. Over(db, tx) \in [Keys -> Row \cup {None}] /\ CommitEvery \in Nat
  BY IndexAssumption, OverType DEF Typed, TypeOK
<1>2. /\ db' \in [Keys -> Row \cup {None}] /\ tx' \in [Keys -> Row \cup {None}]
      /\ ops' \in 0..CommitEvery
  BY <1>1, EmptyType DEF LastCommit, Commit
<1>3. UNCHANGED <<backend, run, tick, audits, snaps, ch, closed, seqTick, seq, batch, waiting,
                  attempt, posts, acked, faults>>
  BY DEF LastCommit, world, numbers, d1
<1> QED
  BY <1>2, <1>3 DEF Typed, TypeOK

\* A post that is not in use.
LEMMA FreePost ==
  ASSUME Typed, Room, waiting = 0
  PROVE  LET p == CHOOSE q \in Posts : posts[q] = None IN p \in Posts /\ posts[p] = None
<1>1. /\ faults \in Nat /\ faults <= MaxFaults /\ run \in Nat /\ run <= MostRuns
      /\ MaxFaults \in Nat /\ MostRuns \in Nat
  BY IndexAssumption, MostRunsType DEF Typed, TypeOK, Runs
<1>2. Cardinality(Used) <= faults + run - 1
  BY <1>1 DEF Room
<1>3. \E q \in Posts : posts[q] = None
  <2> SUFFICES ASSUME \A q \in Posts : posts[q] # None PROVE FALSE
    OBVIOUS
  <2>1. Used = Posts
    BY DEF Used
  <2>2. Cardinality(Used) = MaxFaults + MostRuns
    BY <2>1, PostsFinite
  <2> QED
    BY <1>1, <1>2, <2>2
<1> QED
  BY <1>3

LEMMA ReceiveTyped ==
  ASSUME Typed, Receive
  PROVE  Typed'
<1>1. /\ ch \in Seq(Request) /\ Len(ch) <= Cap /\ Cap \in Nat /\ ch # <<>> /\ ch' = Tail(ch)
      /\ batch \in Seq(Request) /\ Len(batch) < BatchSize /\ BatchSize \in Nat
      /\ batch' = Append(batch, Head(ch))
  BY IndexAssumption DEF Typed, TypeOK, Receive, Taking
<1>2. /\ Tail(ch) \in Seq(Request) /\ Len(ch) \in Nat \ {0} /\ Len(Tail(ch)) = Len(ch) - 1
      /\ Head(ch) \in Request
  BY <1>1, TailIn
<1>3. /\ Append(batch, Head(ch)) \in Seq(Request) /\ Len(batch) \in Nat
      /\ Len(Append(batch, Head(ch))) = Len(batch) + 1
  BY <1>1, <1>2, AppendIn
<1>4. /\ ch' \in Seq(Request) /\ Len(ch') <= Cap
      /\ batch' \in Seq(Request) /\ Len(batch') <= BatchSize
  BY <1>1, <1>2, <1>3
<1>5. UNCHANGED <<backend, run, tick, audits, snaps, closed, seqTick, seq, tx, ops, waiting,
                  attempt, posts, acked, db, faults>>
  BY DEF Receive, world, numbers, sqlite
<1> QED
  BY <1>4, <1>5 DEF Typed, TypeOK

LEMMA PostTyped ==
  ASSUME Typed, Room, Post
  PROVE  Typed'
<1>1. waiting' \in Posts
  BY FreePost DEF Post
<1>2. /\ posts \in [Posts -> Seq(Request) \cup {None}] /\ batch \in Seq(Request)
      /\ attempt \in 0..Attempts /\ Attempts \in Nat
  BY IndexAssumption DEF Typed, TypeOK
<1>3. posts' \in [Posts -> Seq(Request) \cup {None}]
  BY <1>2 DEF Post
<1>4. attempt' \in 0..Attempts
  BY <1>2 DEF Post
<1>5. UNCHANGED <<backend, run, tick, audits, snaps, ch, closed, seqTick, seq, tx, ops, batch,
                  acked, db, faults>>
  BY DEF Post, world, numbers, sqlite
<1> QED
  BY <1>1, <1>3, <1>4, <1>5 DEF Typed, TypeOK

\* The fields of the writer after an attempt that failed.
LEMMA RetryType ==
  ASSUME Typed, Retry \/ EndBatch \/ UNCHANGED <<batch, attempt, waiting>>
  PROVE  /\ waiting' \in Posts \cup {0} /\ attempt' \in 0..Attempts
         /\ batch' \in Seq(Request) /\ Len(batch') <= BatchSize
         /\ batch' \in {batch, <<>>}
<1>1. /\ batch \in Seq(Request) /\ Len(batch) <= BatchSize /\ BatchSize \in Nat
      /\ attempt \in 0..Attempts /\ Attempts \in Nat /\ waiting \in Posts \cup {0}
  BY IndexAssumption DEF Typed, TypeOK
<1>2. <<>> \in Seq(Request) /\ Len(<<>>) = 0
  OBVIOUS
<1>3. CASE Retry
  <2>1. /\ waiting' = 0
        /\ attempt' = attempt \/ attempt' = 0
        /\ batch' = batch \/ batch' = <<>>
    BY <1>3 DEF Retry
  <2>2. attempt' \in 0..Attempts
    BY <1>1, <2>1
  <2>3. CASE batch' = batch
    BY <1>1, <2>1, <2>2, <2>3
  <2>4. CASE batch' = <<>>
    BY <1>1, <1>2, <2>1, <2>2, <2>4
  <2> QED
    BY <2>1, <2>3, <2>4
<1>4. CASE EndBatch
  BY <1>1, <1>2, <1>4 DEF EndBatch
<1>5. CASE UNCHANGED <<batch, attempt, waiting>>
  BY <1>1, <1>5
<1> QED
  BY <1>3, <1>4, <1>5

LEMMA PostTimesOutTyped ==
  ASSUME Typed, PostTimesOut
  PROVE  Typed'
<1>1. /\ waiting' \in Posts \cup {0} /\ attempt' \in 0..Attempts
      /\ batch' \in Seq(Request) /\ Len(batch') <= BatchSize
  BY RetryType DEF PostTimesOut
<1>2. posts' \in [Posts -> Seq(Request) \cup {None}]
  <2>1. posts \in [Posts -> Seq(Request) \cup {None}]
    BY DEF Typed, TypeOK
  <2>2. [posts EXCEPT ![waiting] = None] \in [Posts -> Seq(Request) \cup {None}]
    BY <2>1
  <2> QED
    BY <2>1, <2>2 DEF PostTimesOut
<1>3. faults' \in 0..MaxFaults
  BY FaultType DEF Typed, PostTimesOut
<1>4. UNCHANGED <<backend, run, tick, audits, snaps, ch, closed, seqTick, seq, tx, ops, acked, db>>
  BY DEF PostTimesOut, world, numbers, sqlite
<1> QED
  BY <1>1, <1>2, <1>3, <1>4 DEF Typed, TypeOK

\* The tables without the agents of a tick.
LEMMA ReplacedType ==
  ASSUME NEW r, db \in [Keys -> Row \cup {None}]
  PROVE  /\ Replaced(r) \in [Keys -> Row \cup {None}]
         /\ \A k \in Keys : k[1] # "agents" => Replaced(r)[k] = db[k]
  BY DEF Replaced

\* What the worker makes of the tables.
Applied(r) ==
  \E base \in [Keys -> Row \cup {None}] :
    /\ Wrote(base, db', r, r.seq)
    /\ \A k \in Keys : k[1] # "agents" => base[k] = db[k]

LEMMA Applying ==
  ASSUME Typed, NEW p \in Posts, WorkerApplies(p)
  PROVE  /\ posts[p] # None /\ posts[p] \in Seq(Request) /\ posts[p] # <<>>
         /\ Head(posts[p]) \in Request /\ Applied(Head(posts[p]))
         /\ db' \in [Keys -> Row \cup {None}]
<1> DEFINE r == Head(posts[p])
<1>1. posts[p] # None /\ posts[p] \in Seq(Request) /\ posts[p] # <<>>
  BY DEF WorkerApplies, Running, Typed, TypeOK
<1>2. r \in Request
  BY <1>1, TailIn
<1>3. db \in [Keys -> Row \cup {None}] /\ db' = ApplyIndexEvent(r)
  BY DEF Typed, TypeOK, WorkerApplies
<1>4. /\ Replaced(r) \in [Keys -> Row \cup {None}]
      /\ \A k \in Keys : k[1] # "agents" => Replaced(r)[k] = db[k]
  BY <1>3, ReplacedType
<1>5. r.kind \in {"tick", "audit", "state"}
  BY <1>2 DEF Request
<1> HIDE DEF r
<1>6. db' = Put(IF r.kind = "state" THEN Replaced(r) ELSE db, Rows(r, r.seq))
  BY <1>3, <1>5 DEF ApplyIndexEvent, UpsertTick, UpsertAudit, UpsertSnapshotState, Rows
<1> DEFINE base == IF r.kind = "state" THEN Replaced(r) ELSE db
<1>7. /\ base \in [Keys -> Row \cup {None}]
      /\ \A k \in Keys : k[1] # "agents" => base[k] = db[k]
  BY <1>3, <1>4
<1>8. db' = Put(base, Rows(r, r.seq))
  BY <1>6
<1> HIDE DEF base
<1>9. Wrote(base, db', r, r.seq)
  BY <1>2, <1>8, PutRows
<1>10. Applied(r)
  BY <1>7, <1>9 DEF Applied
<1>11. db' \in [Keys -> Row \cup {None}]
  BY <1>2, <1>7, <1>8, PutType
<1> QED
  BY <1>1, <1>2, <1>10, <1>11 DEF r

LEMMA WorkerTyped ==
  ASSUME Typed, NEW p \in Posts, WorkerApplies(p) \/ WorkerFails(p) \/ WorkerAnswers(p)
  PROVE  Typed'
<1>1. /\ posts \in [Posts -> Seq(Request) \cup {None}] /\ acked \subseteq Request
      /\ db \in [Keys -> Row \cup {None}] /\ faults \in 0..MaxFaults
      /\ batch \in Seq(Request) /\ Len(batch) <= BatchSize
      /\ waiting \in Posts \cup {0} /\ attempt \in 0..Attempts
  BY DEF Typed, TypeOK
<1>2. posts' \in [Posts -> Seq(Request) \cup {None}]
  <2>1. CASE WorkerApplies(p)
    <3>1. Tail(posts[p]) \in Seq(Request)
      BY <2>1, Applying, TailIn
    <3>2. posts' = [posts EXCEPT ![p] = Tail(posts[p])]
      BY <2>1 DEF WorkerApplies
    <3> QED
      BY <1>1, <3>1, <3>2
  <2>2. CASE WorkerFails(p) \/ WorkerAnswers(p)
    BY <1>1, <2>2 DEF WorkerFails, WorkerAnswers
  <2> QED
    BY <2>1, <2>2
<1>3. db' \in [Keys -> Row \cup {None}]
  <2>1. CASE WorkerApplies(p)
    BY <2>1, Applying
  <2>2. CASE WorkerFails(p)
    <3>1. db' = db \/ db' = Replaced(Head(posts[p]))
      BY <2>2 DEF WorkerFails
    <3> QED
      BY <1>1, <3>1, ReplacedType
  <2>3. CASE WorkerAnswers(p)
    BY <1>1, <2>3 DEF WorkerAnswers
  <2> QED
    BY <2>1, <2>2, <2>3
<1>4. /\ waiting' \in Posts \cup {0} /\ attempt' \in 0..Attempts
      /\ batch' \in Seq(Request) /\ Len(batch') <= BatchSize
  <2>1. CASE WorkerApplies(p)
    BY <1>1, <2>1 DEF WorkerApplies
  <2>2. CASE WorkerFails(p)
    BY <2>2, RetryType DEF WorkerFails
  <2>3. CASE WorkerAnswers(p)
    BY <2>3, RetryType DEF WorkerAnswers
  <2> QED
    BY <2>1, <2>2, <2>3
<1>5. acked' \subseteq Request
  <2>1. \A i \in 1..Len(batch) : batch[i] \in Request
    BY <1>1, ElementOfSeq
  <2>2. CASE WorkerAnswers(p)
    BY <1>1, <2>1, <2>2 DEF WorkerAnswers
  <2>3. CASE WorkerApplies(p) \/ WorkerFails(p)
    BY <1>1, <2>3 DEF WorkerApplies, WorkerFails
  <2> QED
    BY <2>2, <2>3
<1>6. faults' \in 0..MaxFaults
  BY FaultType DEF Typed, WorkerApplies, WorkerFails, WorkerAnswers
<1>7. UNCHANGED <<backend, run, tick, audits, snaps, ch, closed, seqTick, seq, tx, ops>>
  BY DEF WorkerApplies, WorkerFails, WorkerAnswers, world, numbers, sqlite
<1> QED
  BY <1>2, <1>3, <1>4, <1>5, <1>6, <1>7 DEF Typed, TypeOK

\* The ways a run ends.
Restarts ==
  /\ \E t \in Resumed : Restart(t)
  /\ faults' = faults \/ Fault

LEMMA RestartsTyped ==
  ASSUME Typed, Restarts
  PROVE  Typed'
<1>1. PICK t \in Resumed : Restart(t)
  BY DEF Restarts
<1>2. /\ tick \in 1..MaxTick + 1 /\ MaxTick \in Nat /\ run \in Runs /\ run <= MaxRuns[backend]
      /\ backend \in Backends /\ MaxAudits \in Nat /\ Cap \in Nat /\ CommitEvery \in Nat
      /\ BatchSize \in Nat /\ Attempts \in Nat
  BY IndexAssumption DEF Typed, TypeOK
<1>3. t \in 1..MaxTick + 1
  BY <1>2 DEF Resumed
<1>4. MaxRuns[backend] <= MostRuns /\ MostRuns \in Nat /\ MaxRuns[backend] \in Nat
  BY <1>2, MostRunsType, IndexAssumption
<1>5. run' \in Runs /\ run' <= MaxRuns[backend] /\ backend' = backend
  BY <1>1, <1>2, <1>4 DEF Restart, Runs
<1>6. <<>> \in Seq(Request) /\ Len(<<>>) = 0
  OBVIOUS
<1>7. /\ tick' \in 1..MaxTick + 1 /\ audits' \in 0..MaxAudits /\ snaps' \subseteq Ticks
      /\ ch' \in Seq(Request) /\ Len(ch') <= Cap /\ closed' \in BOOLEAN
      /\ seqTick' \in 0..MaxTick /\ seq' \in 0..MaxAudits
  <2>1. /\ tick' = t /\ audits' = 0 /\ snaps' = {} /\ ch' = <<>> /\ closed' = FALSE
        /\ seqTick' = 0 /\ seq' = 0
    BY <1>1 DEF Restart
  <2>2. ch' \in Seq(Request) /\ Len(ch') <= Cap
    BY <1>2, <1>6, <2>1
  <2>3. audits' \in 0..MaxAudits /\ seqTick' \in 0..MaxTick /\ seq' \in 0..MaxAudits
    BY <1>2, <2>1
  <2> QED
    BY <1>3, <2>1, <2>2, <2>3
<1>8. /\ tx' \in [Keys -> Row \cup {None}] /\ ops' \in 0..CommitEvery
      /\ batch' \in Seq(Request) /\ Len(batch') <= BatchSize
      /\ waiting' \in Posts \cup {0} /\ attempt' \in 0..Attempts
  BY <1>1, <1>2, <1>6, EmptyType DEF Restart
<1>9. UNCHANGED <<posts, acked, db>>
  BY <1>1 DEF Restart
<1>10. faults' \in 0..MaxFaults
  BY FaultType DEF Typed, Restarts
<1> QED
  BY <1>5, <1>7, <1>8, <1>9, <1>10 DEF Typed, TypeOK

-----------------------------------------------------------------------------
(* Requests on their way                                                   *)

\* What is in a queue of requests is a request.
LEMMA InRequests == \A q \in Seq(Request) : In(q) \subseteq Request
<1> SUFFICES ASSUME NEW q \in Seq(Request) PROVE In(q) \subseteq Request
  OBVIOUS
<1>1. \A i \in 1..Len(q) : q[i] \in Request
  BY ElementOfSeq
<1> QED
  BY <1>1 DEF In

LEMMA CarriedType ==
  ASSUME Typed
  PROVE  /\ Carried \subseteq Request
         /\ \A q : q \in Carried <=> \/ q \in In(ch) \cup In(batch)
                                     \/ \E p \in Posts : posts[p] # None /\ q \in In(posts[p])
<1>1. \A q : q \in Carried <=> \/ q \in In(ch) \cup In(batch)
                               \/ \E p \in Posts : posts[p] # None /\ q \in In(posts[p])
  BY DEF Carried, Used
<1>2. In(ch) \subseteq Request /\ In(batch) \subseteq Request
  BY InRequests DEF Typed, TypeOK
<1>3. ASSUME NEW p \in Posts, posts[p] # None PROVE In(posts[p]) \subseteq Request
  <2>1. posts[p] \in Seq(Request)
    BY <1>3 DEF Typed, TypeOK
  <2> QED
    BY <2>1, InRequests
<1> QED
  BY <1>1, <1>2, <1>3

\* No new request enters but those of the world, and what is acknowledged was
\* on its way.
LEMMA MadeKept ==
  ASSUME Made, Typed, run' = run \/ run' = run + 1, backend' = backend,
         \A q \in Carried' : q \in Carried \/ (WellMade(q) /\ q.run = run'),
         \A q \in (In(ch) \cup In(batch))' :
           run' = run /\ (q \in In(ch) \cup In(batch) \/ q.run = run),
         \A q \in acked' : q \in acked \cup Carried
  PROVE  Made'
<1>1. \A q : WellMade(q) => WellMade(q)'
  BY DEF WellMade
<1>2. ASSUME NEW q \in Carried' PROVE WellMade(q)' /\ q.run <= run'
  <2>1. run \in Nat /\ run <= run' /\ run' \in Nat
    BY MostRunsType DEF Typed, TypeOK, Runs
  <2>2. CASE q \in Carried
    <3>1. q.run \in Nat /\ q.run <= run /\ WellMade(q)
      BY <2>2, CarriedType, MostRunsType DEF Made, Request, Runs
    <3> QED
      BY <1>1, <2>1, <3>1
  <2>3. CASE WellMade(q) /\ q.run = run'
    BY <1>1, <2>1, <2>3
  <2> QED
    BY <1>2, <2>2, <2>3
<1>3. ASSUME NEW q \in (In(ch) \cup In(batch))' PROVE q.run = run'
  BY <1>3 DEF Made
<1>4. ASSUME NEW q \in acked' PROVE WellMade(q)'
  BY <1>1, <1>4 DEF Made
<1> QED
  BY <1>2, <1>3, <1>4 DEF Made

\* Where requests go: the queue of the world.
LEMMA OffersCarried ==
  ASSUME Typed, NEW r, Offers(r)
  PROVE  /\ In(ch)' \subseteq In(ch) \cup {r}
         /\ Carried' \subseteq Carried \cup {r}
         /\ ch' = ch => Carried' = Carried
<1>1. /\ In(batch)' = In(batch) /\ Used' = Used /\ posts' = posts
  BY DEF Offers, d1, In, Used
<1>2. In(ch)' \subseteq In(ch) \cup {r}
  <2>1. CASE ch' = ch
    BY <2>1 DEF In
  <2>2. CASE ch' = Append(ch, r)
    <3>1. ch \in Seq(Request) /\ r \in Request
      BY DEF Typed, TypeOK, Offers
    <3>2. In(Append(ch, r)) = In(ch) \cup {r}
      BY <3>1, AppendIn
    <3> QED
      BY <2>2, <3>2 DEF In
  <2> QED
    BY <2>1, <2>2 DEF Offers
<1>3. ch' = ch => In(ch)' = In(ch)
  BY DEF In
<1>4. {In(posts[p]) : p \in Used}' = {In(posts[p]) : p \in Used}
  BY <1>1 DEF In
<1> QED
  BY <1>1, <1>2, <1>3, <1>4 DEF Carried

\* The queue is taken from.
LEMMA TailCarried ==
  ASSUME ch \in Seq(Request), ch # <<>>, ch' = Tail(ch)
  PROVE  Head(ch) \in In(ch) /\ In(ch)' \subseteq In(ch)
<1>1. Head(ch) \in In(ch) /\ In(Tail(ch)) \subseteq In(ch)
  BY TailIn
<1> QED
  BY <1>1 DEF In

\* Nothing new: the post of a batch, and the ends of posts.
LEMMA PostsCarried ==
  ASSUME In(ch)' \subseteq In(ch), In(batch)' \subseteq Carried,
         \A p \in Posts : posts'[p] # None =>
           posts'[p] = batch \/ (posts[p] # None /\ In(posts'[p]) \subseteq In(posts[p]))
  PROVE  Carried' \subseteq Carried
<1>1. Used' = {p \in Posts : posts'[p] # None} /\ Posts' = Posts
  BY DEF Used
<1>2. ASSUME NEW p \in Posts, posts'[p] # None
      PROVE  In(posts'[p]) \subseteq Carried
  <2>1. CASE posts'[p] = batch
    BY <2>1 DEF Carried
  <2>2. CASE posts[p] # None /\ In(posts'[p]) \subseteq In(posts[p])
    <3>1. p \in Used
      BY <2>2 DEF Used
    <3> QED
      BY <2>2, <3>1 DEF Carried
  <2> QED
    BY <1>2, <2>1, <2>2
<1>3. \A p \in Posts : In(posts[p])' = In(posts'[p])
  BY DEF In
<1>4. In(ch)' \subseteq Carried
  BY DEF Carried
<1>5. Carried' = In(ch)' \cup In(batch)' \cup UNION {In(posts[p])' : p \in Used'}
  BY DEF Carried
<1>6. \A p \in Used' : p \in Posts /\ posts'[p] # None /\ In(posts[p])' = In(posts'[p])
  BY <1>1, <1>3
<1> QED
  BY <1>2, <1>4, <1>5, <1>6

\* The steps of the D1 writer and of the worker.
LEMMA D1Carried ==
  ASSUME Typed,
         Receive \/ Post \/ PostTimesOut
           \/ \E p \in Posts : WorkerApplies(p) \/ WorkerFails(p) \/ WorkerAnswers(p)
  PROVE  /\ In(ch)' \subseteq In(ch) /\ In(batch)' \subseteq In(ch) \cup In(batch)
         /\ Carried' \subseteq Carried
<1>1. /\ ch \in Seq(Request) /\ batch \in Seq(Request)
      /\ posts \in [Posts -> Seq(Request) \cup {None}]
  BY DEF Typed, TypeOK
<1>2. In(<<>>) = {}
  BY EmptyIn
<1>3. In(ch) \subseteq Carried /\ In(batch) \subseteq Carried
  BY DEF Carried
<1>4. CASE Receive
  <2>1. ch # <<>> /\ ch' = Tail(ch) /\ batch' = Append(batch, Head(ch)) /\ posts' = posts
    BY <1>4 DEF Receive, Taking
  <2>2. Head(ch) \in In(ch) /\ In(ch)' \subseteq In(ch)
    BY <1>1, <2>1, TailCarried
  <2>3. In(Append(batch, Head(ch))) = In(batch) \cup {Head(ch)}
    BY <1>1, <2>1, TailIn, AppendIn
  <2>4. In(batch)' \subseteq In(ch) \cup In(batch)
    BY <2>1, <2>2, <2>3 DEF In
  <2>5. In(batch)' \subseteq Carried
    BY <1>3, <2>4
  <2> QED
    BY <2>1, <2>2, <2>4, <2>5, PostsCarried
<1>5. CASE Post
  <2>1. ch' = ch /\ batch' = batch /\ posts' = [posts EXCEPT ![waiting'] = batch]
    BY <1>5 DEF Post
  <2>2. In(ch)' = In(ch) /\ In(batch)' = In(batch)
    BY <2>1 DEF In
  <2>3. \A p \in Posts : posts'[p] = batch \/ posts'[p] = posts[p]
    BY <1>1, <2>1
  <2> QED
    BY <1>3, <2>2, <2>3, PostsCarried
<1>6. CASE PostTimesOut
  <2>1. ch' = ch /\ posts' \in {posts, [posts EXCEPT ![waiting] = None]}
    BY <1>6 DEF PostTimesOut
  <2>2. batch' \in {batch, <<>>}
    BY <1>6, RetryType DEF PostTimesOut
  <2>3. In(ch)' = In(ch) /\ In(batch)' \subseteq In(batch)
    BY <1>2, <2>1, <2>2 DEF In
  <2>4. \A p \in Posts : posts'[p] = None \/ posts'[p] = posts[p]
    BY <1>1, <2>1
  <2> QED
    BY <1>3, <2>3, <2>4, PostsCarried
<1>7. ASSUME NEW p \in Posts, WorkerApplies(p) \/ WorkerFails(p) \/ WorkerAnswers(p)
      PROVE  /\ In(ch)' \subseteq In(ch) /\ In(batch)' \subseteq In(ch) \cup In(batch)
             /\ Carried' \subseteq Carried
  <2>1. ch' = ch /\ batch' \in {batch, <<>>}
    BY <1>7, RetryType DEF WorkerApplies, WorkerFails, WorkerAnswers
  <2>2. In(ch)' = In(ch) /\ In(batch)' \subseteq In(batch)
    BY <1>2, <2>1 DEF In
  <2>3. \A q \in Posts : posts'[q] # None =>
          posts[q] # None /\ In(posts'[q]) \subseteq In(posts[q])
    <3>1. CASE WorkerApplies(p)
      <4>1. posts[p] # None /\ In(Tail(posts[p])) \subseteq In(posts[p])
        BY <3>1, Applying, TailIn
      <4>2. posts' = [posts EXCEPT ![p] = Tail(posts[p])]
        BY <3>1 DEF WorkerApplies
      <4> QED
        BY <1>1, <4>1, <4>2
    <3>2. CASE WorkerFails(p) \/ WorkerAnswers(p)
      <4>1. posts' = [posts EXCEPT ![p] = None]
        BY <3>2 DEF WorkerFails, WorkerAnswers
      <4> QED
        BY <1>1, <4>1
    <3> QED
      BY <1>7, <3>1, <3>2
  <2> QED
    BY <1>3, <2>2, <2>3, PostsCarried
<1> QED
  BY <1>4, <1>5, <1>6, <1>7

\* A restart leaves what the worker has.
LEMMA RestartsCarried ==
  ASSUME Restarts
  PROVE  /\ In(ch)' = {} /\ In(batch)' = {} /\ Carried' \subseteq Carried
         /\ run' = run + 1 /\ UNCHANGED <<backend, acked, db, posts>>
<1>1. PICK t \in Resumed : Restart(t)
  BY DEF Restarts
<1>2. ch' = <<>> /\ batch' = <<>> /\ UNCHANGED <<backend, acked, db, posts>> /\ run' = run + 1
  BY <1>1 DEF Restart
<1>3. In(ch)' = {} /\ In(batch)' = {}
  BY <1>2, EmptyIn DEF In
<1>4. Carried' \subseteq Carried
  BY <1>2, <1>3, PostsCarried
<1> QED
  BY <1>2, <1>3, <1>4

\* Only the index is closed, or nothing happens.
Rests == UNCHANGED <<backend, world, ch, numbers, sqlite, d1, db, faults>>

\* Every step is one of these.
D1Step ==
  \/ Receive \/ Post \/ PostTimesOut
  \/ \E p \in Posts : WorkerApplies(p) \/ WorkerFails(p) \/ WorkerAnswers(p)

Steps ==
  \/ \E r : Offers(r)
  \/ \E h \in Request : Takes(h)
  \/ LastCommit
  \/ D1Step
  \/ Restarts
  \/ Rests /\ closed' \in BOOLEAN

LEMMA StepKinds ==
  ASSUME Typed, InOrder, [Next]_vars
  PROVE  Steps
<1>1. CASE WriteAudit
  BY <1>1, AuditOffered DEF Steps
<1>2. CASE WriteTick \/ RecordSnapshotState
  BY <1>2, OthersOffered DEF Steps
<1>3. CASE Take \/ TakeFails \/ BeginFails
  BY <1>3, TakesSome DEF Steps
<1>4. CASE LastCommit
  BY <1>4 DEF Steps
<1>5. CASE D1Steps \/ WorkerSteps
  BY <1>5 DEF D1Steps, WorkerSteps, D1Step, Steps
<1>6. CASE SendOnClosed \/ Stop \/ Crash
  BY <1>6 DEF SendOnClosed, Stop, Crash, Restarts, Steps
<1>7. CASE Close
  BY <1>7 DEF Close, Rests, Steps
<1>8. CASE UNCHANGED vars
  BY <1>8 DEF vars, Rests, Steps, Typed, TypeOK
<1> QED
  BY <1>1, <1>2, <1>3, <1>4, <1>5, <1>6, <1>7, <1>8 DEF Next, SQLiteSteps

LEMMA RestsSame ==
  ASSUME Rests
  PROVE  /\ UNCHANGED <<backend, run, tick, audits, snaps, ch, seqTick, seq, tx, ops, batch,
                        waiting, attempt, posts, acked, db, faults>>
         /\ Carried' = Carried /\ In(ch)' = In(ch) /\ In(batch)' = In(batch)
<1>1. UNCHANGED <<backend, run, tick, audits, snaps, ch, seqTick, seq, tx, ops, batch,
                  waiting, attempt, posts, acked, db, faults>>
  BY DEF Rests, world, numbers, sqlite, d1
<1> QED
  BY <1>1 DEF Carried, Used, In

LEMMA TypedStep ==
  ASSUME Typed, InOrder, Made, Room, Steps
  PROVE  Typed'
<1>1. CASE Rests /\ closed' \in BOOLEAN
  BY <1>1, RestsSame DEF Typed, TypeOK
<1>2. CASE D1Step
  BY <1>2, ReceiveTyped, PostTyped, PostTimesOutTyped, WorkerTyped DEF D1Step
<1> QED
  BY <1>1, <1>2, OffersTyped, TakesTyped, LastCommitTyped, RestartsTyped DEF Steps

LEMMA MadeStep ==
  ASSUME Typed, InOrder, Made, Steps
  PROVE  Made'
<1>1. ASSUME NEW r, Offers(r) PROVE Made'
  <2>1. In(ch)' \subseteq In(ch) \cup {r} /\ Carried' \subseteq Carried \cup {r}
    BY <1>1, OffersCarried
  <2>2. UNCHANGED <<backend, run, batch, acked>> /\ WellMade(r) /\ r.run = run
    BY <1>1 DEF Offers, d1
  <2>3. In(batch)' = In(batch)
    BY <2>2 DEF In
  <2> QED
    BY <2>1, <2>2, <2>3, MadeKept
<1>2. ASSUME NEW h, Takes(h) PROVE Made'
  <2>1. ch # <<>> /\ ch' = Tail(ch) /\ UNCHANGED <<backend, run, batch, posts, acked>>
    BY <1>2 DEF Takes, world, d1
  <2>2. In(ch)' \subseteq In(ch)
    BY <2>1, TailCarried DEF Typed, TypeOK
  <2>3. In(batch)' = In(batch) /\ In(batch) \subseteq Carried
    BY <2>1 DEF In, Carried
  <2>4. Carried' \subseteq Carried
    BY <2>1, <2>2, <2>3, PostsCarried
  <2> QED
    BY <2>1, <2>2, <2>3, <2>4, MadeKept
<1>3. CASE LastCommit
  <2>1. UNCHANGED <<backend, run, ch, batch, posts, acked>>
    BY <1>3 DEF LastCommit, world, d1
  <2>2. Carried' = Carried /\ In(ch)' = In(ch) /\ In(batch)' = In(batch)
    BY <2>1 DEF Carried, Used, In
  <2> QED
    BY <2>1, <2>2, MadeKept
<1>4. CASE D1Step
  <2>1. /\ In(ch)' \subseteq In(ch) /\ In(batch)' \subseteq In(ch) \cup In(batch)
        /\ Carried' \subseteq Carried
    BY <1>4, D1Carried DEF D1Step
  <2>2. UNCHANGED <<backend, run>>
    BY <1>4 DEF D1Step, Receive, Post, PostTimesOut, WorkerApplies, WorkerFails, WorkerAnswers,
                world
  <2>3. acked' \subseteq acked \cup Carried
    <3>1. ASSUME NEW p \in Posts, WorkerAnswers(p) PROVE acked' \subseteq acked \cup In(batch)
      BY <3>1 DEF WorkerAnswers, In
    <3>2. In(batch) \subseteq Carried
      BY DEF Carried
    <3> QED
      BY <1>4, <3>1, <3>2 DEF D1Step, Receive, Post, PostTimesOut, WorkerApplies, WorkerFails
  <2> QED
    BY <2>1, <2>2, <2>3, MadeKept
<1>5. CASE Restarts
  BY <1>5, RestartsCarried, MadeKept
<1>6. CASE Rests
  BY <1>6, RestsSame, MadeKept
<1> QED
  BY <1>1, <1>2, <1>3, <1>4, <1>5, <1>6 DEF Steps

-----------------------------------------------------------------------------
(* One backend, and the order of the queue                                 *)

LEMMA SQLiteQuiet == OneWriter /\ backend = "sqlite" => ~D1Step
<1> SUFFICES ASSUME OneWriter, backend = "sqlite" PROVE ~D1Step
  OBVIOUS
<1>1. waiting = 0 /\ posts = [p \in Posts |-> None]
  BY DEF OneWriter
<1>2. ~Receive /\ ~Post /\ ~PostTimesOut
  BY <1>1 DEF Receive, Taking, Post, PostTimesOut
<1>3. <<>> # None
  BY NotNone, EmptyIn
<1>4. ASSUME NEW p \in Posts PROVE ~(WorkerApplies(p) \/ WorkerFails(p) \/ WorkerAnswers(p))
  <2>1. posts[p] = None
    BY <1>1
  <2> QED
    BY <1>3, <2>1 DEF WorkerApplies, WorkerFails, WorkerAnswers, Running
<1> QED
  BY <1>2, <1>4 DEF D1Step

LEMMA OneWriterStep ==
  ASSUME Typed, OneWriter, Steps
  PROVE  OneWriter'
<1>1. ASSUME NEW r, Offers(r) PROVE OneWriter'
  BY <1>1 DEF Offers, OneWriter, sqlite, d1
<1>2. ASSUME NEW h, Takes(h) PROVE OneWriter'
  BY <1>2 DEF Takes, OneWriter, d1
<1>3. CASE LastCommit
  BY <1>3 DEF LastCommit, OneWriter, d1
<1>4. CASE D1Step
  <2>1. backend # "sqlite"
    BY <1>4, SQLiteQuiet
  <2>2. UNCHANGED <<backend, sqlite>>
    BY <1>4 DEF D1Step, Receive, Post, PostTimesOut, WorkerApplies, WorkerFails, WorkerAnswers
  <2> QED
    BY <2>1, <2>2 DEF OneWriter, sqlite
<1>5. CASE Restarts
  <2>1. PICK t \in Resumed : Restart(t)
    BY <1>5 DEF Restarts
  <2> QED
    BY <2>1 DEF Restart, OneWriter
<1>6. CASE Rests
  BY <1>6 DEF Rests, OneWriter, sqlite, d1
<1> QED
  BY <1>1, <1>2, <1>3, <1>4, <1>5, <1>6 DEF Steps

\* What the frame of the tables and posts leaves alone.
LEMMA D1Leaves ==
  D1Step => UNCHANGED <<backend, run, tick, audits, snaps, closed, seqTick, seq, tx, ops>>
  BY DEF D1Step, Receive, Post, PostTimesOut, WorkerApplies, WorkerFails, WorkerAnswers,
         world, numbers, sqlite

LEMMA InOrderStep ==
  ASSUME Typed, OneWriter, Made, InOrder, Steps
  PROVE  InOrder'
<1>0. /\ seq \in Nat /\ seqTick \in Nat /\ audits \in Nat /\ tick \in Nat
      /\ seq <= audits /\ seqTick <= tick /\ ch \in Seq(Request)
      /\ \A q \in In(ch) : q.kind = "audit" => q.n <= audits /\ q.tick <= tick
      /\ backend = "sqlite" => Queued
  BY DEF Typed, TypeOK, InOrder
<1>n. ASSUME NEW q \in In(ch) PROVE q.n \in Nat /\ q.tick \in Nat
  <2>1. q \in Request
    BY <1>0, InRequests
  <2> QED
    BY <2>1 DEF Request, Ticks
<1>1. ASSUME NEW r, Offers(r) PROVE InOrder'
  <2>1. /\ r \in Request /\ tick' \in Nat /\ tick <= tick' /\ audits' \in Nat /\ audits <= audits'
        /\ backend' = backend
    BY <1>1, IndexAssumption DEF Offers
  <2>2. In(ch)' \subseteq In(ch) \cup {r}
    BY <1>1, OffersCarried
  <2>3. r.kind = "audit" => r.tick = tick /\ r.n = audits' /\ audits' = audits + 1
    BY <1>1 DEF Offers
  <2>4. seq' <= audits' /\ seqTick' <= tick'
    <3>1. CASE UNCHANGED numbers
      BY <1>0, <2>1, <3>1 DEF numbers
    <3>2. CASE r.kind = "audit" /\ NextSeq(tick)
      <4>1. seq' \in Nat /\ seq' <= seq + 1 /\ seqTick' = tick
        BY <1>0, <3>2, NextGiven
      <4> QED
        BY <1>0, <2>1, <2>3, <3>2, <4>1
    <3> QED
      BY <1>1, <3>1, <3>2 DEF Offers
  <2>5. ASSUME NEW q \in In(ch)', q.kind = "audit" PROVE q.n <= audits' /\ q.tick <= tick'
    <3>1. CASE q \in In(ch)
      BY <1>0, <1>n, <2>1, <2>5, <3>1
    <3>2. CASE q = r
      BY <1>0, <2>1, <2>3, <2>5, <3>2
    <3> QED
      BY <2>2, <2>5, <3>1, <3>2
  <2>6. ASSUME backend = "sqlite" PROVE Queued'
    <3>1. UNCHANGED numbers
      BY <1>1, <2>6 DEF Offers
    <3>2. CASE ch' = ch
      BY <1>0, <2>6, <3>1, <3>2 DEF Queued, numbers
    <3>3. CASE ch' = Append(ch, r)
      <4> DEFINE m == Len(ch)
      <4>1. /\ m \in Nat /\ Len(ch') = m + 1 /\ ch'[m + 1] = r
            /\ \A i \in 1..m : ch'[i] = ch[i]
        BY <1>0, <2>1, <3>3, AppendIn
      <4>2. ASSUME NEW i \in 1..m, ch[i].kind = "audit"
            PROVE  /\ ch[i].n \in Nat /\ ch[i].tick \in Nat
                   /\ ch[i].n <= audits /\ ch[i].tick <= tick
        <5>1. ch[i] \in In(ch)
          BY DEF In
        <5> QED
          BY <1>0, <1>n, <4>2, <5>1
      <4> SUFFICES ASSUME NEW i \in 1..m + 1, ch'[i].kind = "audit"
                   PROVE  /\ seq < ch'[i].n /\ seqTick <= ch'[i].tick
                          /\ \A j \in i + 1..m + 1 :
                               ch'[j].kind = "audit" =>
                                 ch'[i].n < ch'[j].n /\ ch'[i].tick <= ch'[j].tick
        BY <3>1, <4>1 DEF Queued, numbers
      <4>3. CASE i = m + 1
        <5>1. seq < r.n /\ seqTick <= r.tick
          BY <1>0, <2>3, <4>1, <4>3
        <5> QED
          BY <4>1, <4>3, <5>1
      <4>4. CASE i # m + 1
        <5>1. i \in 1..m /\ ch'[i] = ch[i] /\ ch[i].kind = "audit"
          BY <4>1, <4>4
        <5>2. /\ seq < ch[i].n /\ seqTick <= ch[i].tick
              /\ \A j \in i + 1..m : ch[j].kind = "audit" =>
                   ch[i].n < ch[j].n /\ ch[i].tick <= ch[j].tick
          BY <1>0, <2>6, <5>1 DEF Queued
        <5>3. ASSUME NEW j \in i + 1..m + 1, ch'[j].kind = "audit"
              PROVE  ch'[i].n < ch'[j].n /\ ch'[i].tick <= ch'[j].tick
          <6>1. CASE j = m + 1
            <7>1. ch'[j] = r /\ r.kind = "audit"
              BY <4>1, <5>3, <6>1
            <7>2. ch[i].n < r.n /\ ch[i].tick <= r.tick
              BY <1>0, <2>3, <4>2, <5>1, <7>1
            <7> QED
              BY <5>1, <7>1, <7>2
          <6>2. CASE j # m + 1
            <7>1. j \in i + 1..m /\ j \in 1..m
              BY <4>1, <5>1, <6>2
            <7> QED
              BY <4>1, <5>1, <5>2, <5>3, <7>1
          <6> QED
            BY <6>1, <6>2
        <5> QED
          BY <5>1, <5>2, <5>3
      <4> QED
        BY <4>3, <4>4
    <3> QED
      BY <1>1, <3>2, <3>3 DEF Offers
  <2> QED
    BY <2>1, <2>4, <2>5, <2>6 DEF InOrder
<1>2. ASSUME NEW h, Takes(h) PROVE InOrder'
  <2>1. /\ ch # <<>> /\ h = Head(ch) /\ ch' = Tail(ch) /\ backend = "sqlite"
        /\ UNCHANGED <<backend, tick, audits>>
    BY <1>2 DEF Takes, world
  <2>2. /\ UNCHANGED numbers \/ (h.kind = "audit" /\ NextSeq(h.tick))
        /\ h.kind = "audit" =>
              h.tick \in Ticks /\ seqTick <= h.tick /\ seq < h.n /\ h.n <= audits /\ h.tick <= tick
        /\ seq' \in 0..audits /\ seqTick' <= tick /\ h \in Request
    BY <1>2, TakesNumber
  <2>3. In(ch)' \subseteq In(ch)
    BY <1>0, <2>1, TailCarried
  <2>4. \A q \in In(ch)' : q.kind = "audit" => q.n <= audits' /\ q.tick <= tick'
    BY <1>0, <2>1, <2>3
  <2>5. seq' <= audits' /\ seqTick' <= tick'
    BY <1>0, <2>1, <2>2
  <2>6. Queued'
    <3> DEFINE m == Len(ch)
    <3>1. /\ m \in Nat \ {0} /\ Len(ch') = m - 1 /\ h = ch[1]
          /\ \A i \in 1..m - 1 : ch'[i] = ch[i + 1]
      BY <1>0, <2>1, TailIn
    <3> SUFFICES ASSUME NEW i \in 1..m - 1, ch'[i].kind = "audit"
                 PROVE  /\ seq' < ch'[i].n /\ seqTick' <= ch'[i].tick
                        /\ \A j \in i + 1..m - 1 :
                             ch'[j].kind = "audit" =>
                               ch'[i].n < ch'[j].n /\ ch'[i].tick <= ch'[j].tick
      BY <3>1 DEF Queued
    <3>2. i + 1 \in 1..m /\ ch'[i] = ch[i + 1] /\ ch[i + 1].kind = "audit"
      BY <3>1
    <3>3. /\ seq < ch[i + 1].n /\ seqTick <= ch[i + 1].tick
          /\ \A j \in i + 1 + 1..m : ch[j].kind = "audit" =>
               ch[i + 1].n < ch[j].n /\ ch[i + 1].tick <= ch[j].tick
      BY <1>0, <2>1, <3>2 DEF Queued
    <3>4. ASSUME NEW j \in i + 1..m - 1, ch'[j].kind = "audit"
          PROVE  ch'[i].n < ch'[j].n /\ ch'[i].tick <= ch'[j].tick
      <4>1. j \in 1..m - 1 /\ j + 1 \in i + 1 + 1..m
        BY <3>1
      <4>2. ch'[j] = ch[j + 1]
        BY <3>1, <4>1
      <4> QED
        BY <3>2, <3>3, <3>4, <4>1, <4>2
    <3>5. ch[i + 1].n \in Nat /\ ch[i + 1].tick \in Nat
      <4>1. ch[i + 1] \in In(ch)
        BY <3>2 DEF In
      <4> QED
        BY <1>n, <4>1
    <3>6. seq' < ch[i + 1].n /\ seqTick' <= ch[i + 1].tick
      <4>1. CASE UNCHANGED numbers
        BY <3>3, <4>1 DEF numbers
      <4>2. CASE h.kind = "audit" /\ NextSeq(h.tick)
        <5>1. h.tick \in Nat /\ h.n \in Nat /\ seq < h.n
          BY <1>0, <2>2, <4>2 DEF Request, Ticks
        <5>2. seq' \in Nat /\ seq' <= seq + 1 /\ seqTick' = h.tick
          BY <1>0, <2>2, <4>2, <5>1, NextGiven
        <5>3. 1 \in 1..m /\ i + 1 \in 1 + 1..m
          BY <3>1
        <5>4. h.n < ch[i + 1].n /\ h.tick <= ch[i + 1].tick
          BY <1>0, <2>1, <3>1, <3>2, <4>2, <5>3 DEF Queued
        <5> QED
          BY <1>0, <3>5, <5>1, <5>2, <5>4
      <4> QED
        BY <2>2, <4>1, <4>2
    <3> QED
      BY <3>2, <3>4, <3>6
  <2> QED
    BY <2>4, <2>5, <2>6 DEF InOrder
<1>3. CASE LastCommit \/ Rests
  <2>1. UNCHANGED <<backend, ch, tick, audits, seqTick, seq>>
    BY <1>3 DEF LastCommit, Rests, world, numbers
  <2> QED
    BY <2>1 DEF InOrder, Queued, In
<1>4. CASE D1Step
  <2>1. /\ backend # "sqlite" /\ In(ch)' \subseteq In(ch)
        /\ UNCHANGED <<backend, tick, audits, seqTick, seq>>
    BY <1>4, SQLiteQuiet, D1Carried, D1Leaves DEF D1Step
  <2> QED
    BY <2>1 DEF InOrder
<1>5. CASE Restarts
  <2>1. PICK t \in Resumed : Restart(t)
    BY <1>5 DEF Restarts
  <2>2. t \in Nat
    BY <1>0, <2>1 DEF Resumed
  <2>3. /\ tick' \in Nat /\ audits' = 0 /\ seq' = 0 /\ seqTick' = 0 /\ ch' = <<>>
    BY <2>1, <2>2 DEF Restart
  <2>4. In(ch)' = {} /\ Len(ch') = 0
    BY <1>5, <2>3, RestartsCarried
  <2> QED
    BY <2>3, <2>4 DEF InOrder, Queued
<1> QED
  BY <1>1, <1>2, <1>3, <1>4, <1>5 DEF Steps

-----------------------------------------------------------------------------
(* Numbers of audits                                                       *)

\* What was given stays given, within a run, and an audit that gets a number
\* gets one that was not.
LEMMA GivenGrows ==
  ASSUME Typed, InOrder, NEW t \in Nat, t <= tick, seqTick <= t,
         UNCHANGED numbers \/ NextSeq(t)
  PROVE  \A u, i \in Nat : Given(u, i) => Given(u, i)'
<1>1. seq \in Nat /\ seqTick \in Nat
  BY DEF Typed, TypeOK
<1>2. CASE UNCHANGED numbers
  BY <1>2 DEF numbers, Given
<1>3. CASE NextSeq(t)
  BY <1>1, <1>3, NextGiven
<1> QED
  BY <1>2, <1>3

\* The rows of audits are as they were, and the run goes on.
LEMMA RowsKept ==
  ASSUME RowsNumbered, run' = run,
         \A u, i \in Nat : Given(u, i) => Given(u, i)',
         \A t \in Ticks, i \in 1..MaxAudits :
           db'[<<"audits", t, i>>] = db[<<"audits", t, i>>]
             /\ tx'[<<"audits", t, i>>] \in {None, tx[<<"audits", t, i>>]}
  PROVE  RowsNumbered'
<1> SUFFICES ASSUME NEW t \in Ticks, NEW i \in 1..MaxAudits
             PROVE  LET k == <<"audits", t, i>> IN
                    /\ db'[k] # None => db'[k].run <= run' /\ (db'[k].run = run' => Given(t, i)')
                    /\ tx'[k] # None => /\ tx'[k].run = run' /\ Given(t, i)'
                                        /\ db'[k] # None => db'[k].run # run'
  BY DEF RowsNumbered
<1>1. t \in Nat /\ i \in Nat
  BY DEF Ticks
<1>2. Given(t, i) => Given(t, i)'
  BY <1>1
<1>3. LET k == <<"audits", t, i>> IN
      /\ db[k] # None => db[k].run <= run /\ (db[k].run = run => Given(t, i))
      /\ tx[k] # None => /\ tx[k].run = run /\ Given(t, i)
                         /\ db[k] # None => db[k].run # run
  BY DEF RowsNumbered
<1> QED
  BY <1>2, <1>3

\* The transaction, with the rows of the request taken.
Joins(now, h) == \E n : n = seq' /\ Wrote(tx, now, h, n)

\* An audit row of the transaction: of this run, under a number that is given
\* now, and not among the rows of this run in the tables.
Fresh(now) ==
  \A t \in Ticks, i \in 1..MaxAudits :
    LET k == <<"audits", t, i>> IN
    now[k] # None => /\ now[k].run = run /\ Given(t, i)'
                     /\ db[k] # None => db[k].run # run

LEMMA JoinsFresh ==
  ASSUME Typed, InOrder, Made, RowsNumbered, NEW h, Takes(h), Numbered(h),
         NEW now, Joins(now, h)
  PROVE  Fresh(now)
<1>1. /\ h \in Request /\ h.run = run
      /\ UNCHANGED numbers \/ (h.kind = "audit" /\ NextSeq(h.tick))
      /\ h.kind = "audit" => seqTick <= h.tick /\ h.tick <= tick
  BY TakesNumber
<1>2. PICK n : n = seq' /\ Wrote(tx, now, h, n)
  BY DEF Joins
<1>3. h.tick \in Nat /\ seq \in Nat /\ seqTick \in Nat /\ tick \in Nat
  BY <1>1 DEF Request, Ticks, Typed, TypeOK
<1>4. \A u, i \in Nat : Given(u, i) => Given(u, i)'
  <2>1. CASE UNCHANGED numbers
    BY <2>1 DEF numbers, Given
  <2>2. CASE h.kind = "audit" /\ NextSeq(h.tick)
    BY <1>1, <1>3, <2>2, GivenGrows
  <2> QED
    BY <1>1, <2>1, <2>2
<1> SUFFICES ASSUME NEW t \in Ticks, NEW i \in 1..MaxAudits, now[<<"audits", t, i>>] # None
             PROVE  LET k == <<"audits", t, i>> IN
                    /\ now[k].run = run /\ Given(t, i)'
                    /\ db[k] # None => db[k].run # run
  BY DEF Fresh
<1> DEFINE k == <<"audits", t, i>>
<1>5. k \in Keys /\ t \in Nat /\ i \in Nat
  BY KeysIn DEF Ticks
<1>6. now[k] = IF k \in KeysOf(h, n) THEN RowOf(h) ELSE tx[k]
  BY <1>2, <1>5 DEF Wrote
<1>7. /\ tx[k] # None => /\ tx[k].run = run /\ Given(t, i)
                         /\ db[k] # None => db[k].run # run
      /\ db[k] # None => (db[k].run = run => Given(t, i))
  BY DEF RowsNumbered
<1>8. CASE k \in KeysOf(h, n)
  <2>0. AuditKey(h, n, t, i)
    BY <1>1, KeysOfIs
  <2>1. h.kind = "audit" /\ t = h.tick /\ i = n
    BY <1>8, <2>0 DEF AuditKey
  <2>2. NextSeq(h.tick)
    BY <2>1 DEF Numbered
  <2>3. /\ ~Given(h.tick, seq')
        /\ \A u, j \in Nat : Given(u, j) \/ (u = h.tick /\ j = seq') => Given(u, j)'
    BY <1>1, <1>3, <2>1, <2>2, NextGiven
  <2>4. ~Given(t, i) /\ Given(t, i)'
    BY <1>2, <1>5, <2>1, <2>3
  <2>5. now[k].run = run
    BY <1>1, <1>6, <1>8 DEF RowOf
  <2> QED
    BY <1>7, <2>4, <2>5
<1>9. CASE k \notin KeysOf(h, n)
  BY <1>4, <1>5, <1>6, <1>7, <1>9
<1> QED
  BY <1>8, <1>9

LEMMA TakesGiven ==
  ASSUME Typed, InOrder, Made, NEW h, Takes(h)
  PROVE  \A u, i \in Nat : Given(u, i) => Given(u, i)'
<1>1. /\ h \in Request
      /\ UNCHANGED numbers \/ (h.kind = "audit" /\ NextSeq(h.tick))
      /\ h.kind = "audit" => seqTick <= h.tick /\ h.tick <= tick
  BY TakesNumber
<1>2. h.tick \in Nat
  BY <1>1 DEF Request, Ticks
<1>3. CASE UNCHANGED numbers
  BY <1>3 DEF numbers, Given
<1>4. CASE h.kind = "audit" /\ NextSeq(h.tick)
  BY <1>1, <1>2, <1>4, GivenGrows
<1> QED
  BY <1>1, <1>3, <1>4

\* A commit, and a request that joins the transaction.
LEMMA FreshRows ==
  ASSUME Typed, RowsNumbered, run' = run, NEW now, Fresh(now),
         \A u, i \in Nat : Given(u, i) => Given(u, i)',
         \/ db' = Over(db, now) /\ tx' = Empty
         \/ db' = db /\ tx' = now
  PROVE  RowsNumbered'
<1> SUFFICES ASSUME NEW t \in Ticks, NEW i \in 1..MaxAudits
             PROVE  LET k == <<"audits", t, i>> IN
                    /\ db'[k] # None => db'[k].run <= run' /\ (db'[k].run = run' => Given(t, i)')
                    /\ tx'[k] # None => /\ tx'[k].run = run' /\ Given(t, i)'
                                        /\ db'[k] # None => db'[k].run # run'
  BY DEF RowsNumbered
<1> DEFINE k == <<"audits", t, i>>
<1>1. k \in Keys /\ t \in Nat /\ i \in Nat
  BY KeysIn DEF Ticks
<1>2. /\ Given(t, i) => Given(t, i)'
      /\ db[k] # None => db[k].run <= run /\ (db[k].run = run => Given(t, i))
  BY <1>1 DEF RowsNumbered
<1>3. now[k] # None => /\ now[k].run = run /\ Given(t, i)'
                       /\ db[k] # None => db[k].run # run
  BY DEF Fresh
<1>4. CASE db' = Over(db, now) /\ tx' = Empty
  <2>1. tx'[k] = None /\ db'[k] = IF now[k] = None THEN db[k] ELSE now[k]
    BY <1>1, <1>4 DEF Over, Empty
  <2>2. CASE now[k] = None
    BY <1>2, <2>1, <2>2
  <2>3. CASE now[k] # None
    <3>1. now[k].run <= run'
      BY <1>3, <2>3, MostRunsType DEF Typed, TypeOK, Runs
    <3> QED
      BY <1>2, <1>3, <2>1, <2>3, <3>1
  <2> QED
    BY <2>2, <2>3
<1>5. CASE db' = db /\ tx' = now
  BY <1>2, <1>3, <1>5
<1> QED
  BY <1>4, <1>5

\* The audit rows that the worker writes.
AuditsWritten(r) ==
  \A t \in Ticks, i \in 1..MaxAudits :
    db'[<<"audits", t, i>>] = IF r.kind = "audit" /\ t = r.tick /\ i = r.seq
                              THEN RowOf(r) ELSE db[<<"audits", t, i>>]

AuditsSame ==
  \A t \in Ticks, i \in 1..MaxAudits : db'[<<"audits", t, i>>] = db[<<"audits", t, i>>]

LEMMA D1Audits ==
  ASSUME Typed, D1Step
  PROVE  AuditsSame \/ \E r \in Carried : AuditsWritten(r)
<1>1. ASSUME NEW p \in Posts, WorkerApplies(p) PROVE \E r \in Carried : AuditsWritten(r)
  <2> DEFINE r == Head(posts[p])
  <2>1. posts[p] # None /\ posts[p] \in Seq(Request) /\ posts[p] # <<>> /\ r \in Request /\ Applied(r)
    BY <1>1, Applying
  <2>2. r \in In(posts[p])
    BY <2>1, TailIn
  <2>3. r \in Carried
    BY <2>1, <2>2, CarriedType
  <2> HIDE DEF r
  <2>4. PICK base \in [Keys -> Row \cup {None}] :
          Wrote(base, db', r, r.seq) /\ \A k \in Keys : k[1] # "agents" => base[k] = db[k]
    BY <2>1 DEF Applied
  <2>5. ASSUME NEW t \in Ticks, NEW i \in 1..MaxAudits
        PROVE  db'[<<"audits", t, i>>] = IF r.kind = "audit" /\ t = r.tick /\ i = r.seq
                                         THEN RowOf(r) ELSE db[<<"audits", t, i>>]
    <3> DEFINE k == <<"audits", t, i>>
    <3>1. k \in Keys /\ k[1] # "agents"
      BY KeysIn
    <3>2. k \in KeysOf(r, r.seq) <=> r.kind = "audit" /\ t = r.tick /\ i = r.seq
      BY <2>1, KeysOfIs DEF AuditKey
    <3>3. base[k] = db[k]
      BY <2>4, <3>1
    <3>4. db'[k] = IF k \in KeysOf(r, r.seq) THEN RowOf(r) ELSE base[k]
      BY <2>4, <3>1 DEF Wrote
    <3> QED
      BY <3>2, <3>3, <3>4
  <2> QED
    BY <2>3, <2>5 DEF AuditsWritten
<1>2. ASSUME NEW p \in Posts, WorkerFails(p) PROVE AuditsSame
  <2>1. db' = db \/ db' = Replaced(Head(posts[p]))
    BY <1>2 DEF WorkerFails
  <2>2. \A k \in Keys : k[1] # "agents" => db'[k] = db[k]
    BY <2>1, ReplacedType DEF Typed, TypeOK
  <2>3. ASSUME NEW t \in Ticks, NEW i \in 1..MaxAudits
        PROVE  db'[<<"audits", t, i>>] = db[<<"audits", t, i>>]
    <3>1. <<"audits", t, i>> \in Keys /\ <<"audits", t, i>>[1] # "agents"
      BY KeysIn
    <3> QED
      BY <2>2, <3>1
  <2> QED
    BY <2>3 DEF AuditsSame
<1>3. CASE db' = db
  BY <1>3 DEF AuditsSame
<1> QED
  BY <1>1, <1>2, <1>3 DEF D1Step, Receive, Post, PostTimesOut, WorkerAnswers

\* Audits on their way have numbers that rows may have.
LEMMA AuditType ==
  ASSUME Typed, Made, backend = "d1", NEW r \in Audits
  PROVE  /\ r \in Request /\ r \in Carried /\ r.kind = "audit" /\ r.tick \in Ticks
         /\ r.seq \in 1..MaxAudits /\ r.run \in Nat /\ r.run <= run
<1>1. r \in Carried /\ r.kind = "audit" /\ r \in Request
  BY CarriedType DEF Audits
<1>2. WellMade(r) /\ r.run <= run
  BY <1>1 DEF Made
<1>3. r.tick \in Ticks /\ r.run \in Nat
  BY <1>1, MostRunsType DEF Request, Runs
<1> QED
  BY <1>1, <1>2, <1>3 DEF WellMade

LEMMA OffersGiven ==
  ASSUME Typed, InOrder, NEW r, Offers(r)
  PROVE  \A u, i \in Nat : Given(u, i) => Given(u, i)'
<1>1. tick \in Nat /\ seqTick <= tick
  BY DEF Typed, TypeOK, InOrder
<1>2. UNCHANGED numbers \/ NextSeq(tick)
  BY DEF Offers
<1> QED
  BY <1>1, <1>2, GivenGrows

LEMMA RowsNumberedStep ==
  ASSUME Typed, InOrder, Made, OneWriter, NumbersApart, RowsNumbered, Steps
  PROVE  RowsNumbered'
<1>1. ASSUME NEW r, Offers(r) PROVE RowsNumbered'
  <2>1. \A u, i \in Nat : Given(u, i) => Given(u, i)'
    BY <1>1, OffersGiven
  <2>2. UNCHANGED <<run, db, tx>>
    BY <1>1 DEF Offers, sqlite
  <2> QED
    BY <2>1, <2>2, RowsKept
<1>2. ASSUME NEW h, Takes(h) PROVE RowsNumbered'
  <2>1. \A u, i \in Nat : Given(u, i) => Given(u, i)'
    BY <1>2, TakesGiven
  <2>2. run' = run
    BY <1>2 DEF Takes, world
  <2>3. CASE UNCHANGED <<numbers, tx, ops, db>>
    BY <2>1, <2>2, <2>3, RowsKept
  <2>4. CASE tx' = Empty /\ db' = db
    <3>1. \A t \in Ticks, i \in 1..MaxAudits : tx'[<<"audits", t, i>>] = None
      BY <2>4, KeysIn, EmptyType
    <3> QED
      BY <2>1, <2>2, <2>4, <3>1, RowsKept
  <2>5. CASE /\ Numbered(h)
             /\ \/ Commit(Put(tx, Rows(h, seq')))
                \/ tx' = Put(tx, Rows(h, seq')) /\ db' = db
    <3>1. PICK n : n = seq'
      OBVIOUS
    <3> DEFINE now == Put(tx, Rows(h, n))
    <3>2. h \in Request
      BY <1>2, TakesNumber
    <3>3. Wrote(tx, now, h, n)
      BY <3>2, PutRows
    <3>4. \/ db' = Over(db, now) /\ tx' = Empty
          \/ db' = db /\ tx' = now
      BY <2>5, <3>1 DEF Commit
    <3> HIDE DEF now
    <3>5. Joins(now, h)
      BY <3>1, <3>3 DEF Joins
    <3>6. Fresh(now)
      BY <1>2, <2>5, <3>5, JoinsFresh
    <3> QED
      BY <2>1, <2>2, <3>4, <3>6, FreshRows
  <2> QED
    BY <1>2, <2>3, <2>4, <2>5 DEF Takes
<1>3. CASE LastCommit
  <2>1. UNCHANGED <<run, seqTick, seq>> /\ db' = Over(db, tx) /\ tx' = Empty
    BY <1>3 DEF LastCommit, Commit, world, numbers
  <2>2. \A u, i \in Nat : Given(u, i)' <=> Given(u, i)
    BY <2>1 DEF Given
  <2>3. Fresh(tx)
    <3> SUFFICES ASSUME NEW t \in Ticks, NEW i \in 1..MaxAudits, tx[<<"audits", t, i>>] # None
                 PROVE  LET k == <<"audits", t, i>> IN
                        /\ tx[k].run = run /\ Given(t, i)'
                        /\ db[k] # None => db[k].run # run
      BY DEF Fresh
    <3>1. t \in Nat /\ i \in Nat
      BY DEF Ticks
    <3> QED
      BY <2>2, <3>1 DEF RowsNumbered
  <2> QED
    BY <2>1, <2>2, <2>3, FreshRows
<1>4. CASE D1Step
  <2>1. backend = "d1" /\ tx = Empty /\ UNCHANGED <<run, seqTick, seq, tx>>
    BY <1>4, SQLiteQuiet, D1Leaves, IndexAssumption DEF OneWriter, Typed, TypeOK
  <2>2. \A u, i \in Nat : Given(u, i)' <=> Given(u, i)
    BY <2>1 DEF Given
  <2>3. CASE AuditsSame
    BY <2>1, <2>2, <2>3, RowsKept DEF AuditsSame
  <2>4. ASSUME NEW r \in Carried, AuditsWritten(r) PROVE RowsNumbered'
    <3> SUFFICES ASSUME NEW t \in Ticks, NEW i \in 1..MaxAudits
                 PROVE  LET k == <<"audits", t, i>> IN
                    /\ db'[k] # None => db'[k].run <= run' /\ (db'[k].run = run' => Given(t, i)')
                    /\ tx'[k] # None => /\ tx'[k].run = run' /\ Given(t, i)'
                                        /\ db'[k] # None => db'[k].run # run'
      BY DEF RowsNumbered
    <3> DEFINE k == <<"audits", t, i>>
    <3>1. tx'[k] = None
      BY <2>1, KeysIn, EmptyType
    <3>2. t \in Nat /\ i \in Nat
      BY DEF Ticks
    <3>3. CASE r.kind = "audit" /\ t = r.tick /\ i = r.seq
      <4>1. r \in Audits
        BY <3>3 DEF Audits
      <4>2. r.run <= run /\ (r.run = run => Given(t, i))
        BY <2>1, <3>3, <4>1, AuditType DEF NumbersApart
      <4>3. db'[k].run = r.run
        BY <2>4, <3>3 DEF AuditsWritten, RowOf
      <4> QED
        BY <2>1, <2>2, <3>1, <3>2, <4>2, <4>3
    <3>4. CASE ~(r.kind = "audit" /\ t = r.tick /\ i = r.seq)
      <4>1. db'[k] = db[k]
        BY <2>4, <3>4 DEF AuditsWritten
      <4>2. db[k] # None => db[k].run <= run /\ (db[k].run = run => Given(t, i))
        BY DEF RowsNumbered
      <4> QED
        BY <2>1, <2>2, <3>1, <3>2, <4>1, <4>2
    <3> QED
      BY <3>3, <3>4
  <2> QED
    BY <1>4, <2>3, <2>4, D1Audits
<1>5. CASE Restarts
  <2>1. PICK t \in Resumed : Restart(t)
    BY <1>5 DEF Restarts
  <2>2. db' = db /\ tx' = Empty /\ run' = run + 1 /\ run \in Nat
    BY <2>1, MostRunsType DEF Restart, Typed, TypeOK, Runs
  <2> SUFFICES ASSUME NEW u \in Ticks, NEW i \in 1..MaxAudits
               PROVE  LET k == <<"audits", u, i>> IN
                  /\ db'[k] # None => db'[k].run <= run' /\ (db'[k].run = run' => Given(u, i)')
                  /\ tx'[k] # None => /\ tx'[k].run = run' /\ Given(u, i)'
                                      /\ db'[k] # None => db'[k].run # run'
    BY DEF RowsNumbered
  <2> DEFINE k == <<"audits", u, i>>
  <2>3. k \in Keys
    BY KeysIn
  <2>4. tx'[k] = None
    BY <2>2, <2>3, EmptyType
  <2>5. db[k] # None => db[k].run \in Nat /\ db[k].run <= run
    BY <2>3, MostRunsType DEF RowsNumbered, Typed, TypeOK, Row, Runs
  <2>6. db'[k] # None => db'[k].run <= run' /\ db'[k].run # run'
    BY <2>2, <2>5
  <2> QED
    BY <2>4, <2>6
<1>6. CASE Rests
  <2>1. UNCHANGED <<run, db, tx, seqTick, seq>>
    BY <1>6 DEF Rests, world, sqlite, numbers
  <2> QED
    BY <2>1, RowsKept DEF Given
<1> QED
  BY <1>1, <1>2, <1>3, <1>4, <1>5, <1>6 DEF Steps

LEMMA NumbersApartStep ==
  ASSUME Typed, InOrder, Made, OneWriter, RowsNumbered, NumbersApart, Steps
  PROVE  NumbersApart'
<1>0. /\ seq \in Nat /\ seqTick \in Nat /\ tick \in Nat /\ run \in Nat /\ seqTick <= tick
  BY MostRunsType DEF Typed, TypeOK, InOrder, Runs
<1> SUFFICES ASSUME backend' = "d1" PROVE NumbersApart'
  BY DEF NumbersApart
<1>1. ASSUME NEW r, Offers(r) PROVE NumbersApart'
  <2>1. /\ backend = "d1" /\ run' = run /\ db' = db /\ r.run = run /\ r \in Request
        /\ Carried' \subseteq Carried \cup {r}
        /\ ch' = ch => Carried' = Carried
    BY <1>1, OffersCarried DEF Offers
  <2>2. \A u, i \in Nat : Given(u, i) => Given(u, i)'
    BY <1>1, OffersGiven
  <2>3. ASSUME NEW q \in Audits
        PROVE  /\ q.tick \in Nat /\ q.seq \in Nat
               /\ q.run = run => Given(q.tick, q.seq) /\ Given(q.tick, q.seq)'
    <3>1. q.tick \in Nat /\ q.seq \in Nat
      BY <2>1, <2>3, AuditType DEF Ticks
    <3>2. q.run = run => Given(q.tick, q.seq)
      BY <2>1, <2>3 DEF NumbersApart
    <3> QED
      BY <2>2, <3>1, <3>2
  <2>4. CASE ch' = ch \/ r.kind # "audit"
    <3>1. Audits' \subseteq Audits
      BY <2>1, <2>4 DEF Audits
    <3>2. ASSUME NEW q \in Audits', q.run = run' PROVE Given(q.tick, q.seq)'
      BY <2>1, <2>3, <3>1, <3>2
    <3> QED
      BY <2>1, <3>1, <3>2 DEF NumbersApart, SameAudit
  <2>5. CASE ch' # ch /\ r.kind = "audit"
    <3>1. /\ r.tick = tick /\ NextSeq(tick) /\ r.seq = seq' /\ WellMade(r)
      BY <1>1, <2>1, <2>5 DEF Offers
    <3>2. r.tick \in Nat /\ NextSeq(r.tick) /\ r.tick \in Ticks /\ r.seq \in 1..MaxAudits
      BY <1>0, <2>1, <2>5, <3>1 DEF NextSeq, WellMade, Request
    <3>3. /\ ~Given(r.tick, seq') /\ seq' \in Nat
          /\ \A u, i \in Nat : Given(u, i) \/ (u = r.tick /\ i = seq') => Given(u, i)'
      BY <1>0, <3>1, <3>2, NextGiven
    <3>4. ~Given(r.tick, r.seq) /\ Given(r.tick, r.seq)'
      BY <3>1, <3>2, <3>3
    <3>5. Audits' \subseteq Audits \cup {r}
      BY <2>1 DEF Audits
    <3>6. ASSUME NEW q \in Audits', q.run = run' PROVE Given(q.tick, q.seq)'
      BY <2>1, <2>3, <3>4, <3>5, <3>6
    <3>7. ASSUME NEW q \in Audits PROVE SameAudit(q, r) /\ SameAudit(r, q)
      BY <2>1, <2>3, <3>4, <3>7 DEF SameAudit
    <3>8. ASSUME NEW q \in Audits', NEW s \in Audits' PROVE SameAudit(q, s)
      <4>1. CASE q = r /\ s = r
        BY <4>1 DEF SameAudit
      <4>2. CASE q \in Audits /\ s \in Audits
        BY <2>1, <4>2 DEF NumbersApart
      <4> QED
        BY <3>5, <3>7, <4>1, <4>2
    <3>9. ASSUME NEW q \in Audits', db'[<<"audits", q.tick, q.seq>>] # None,
                 db'[<<"audits", q.tick, q.seq>>].run = q.run
          PROVE  db'[<<"audits", q.tick, q.seq>>].says = q.n
      <4>1. CASE q \in Audits
        BY <2>1, <3>9, <4>1 DEF NumbersApart
      <4>2. CASE q = r
        <5>1. Given(r.tick, r.seq)
          BY <2>1, <3>2, <3>9, <4>2 DEF RowsNumbered
        <5> QED
          BY <3>4, <5>1
      <4> QED
        BY <3>5, <4>1, <4>2
    <3> QED
      BY <3>6, <3>8, <3>9 DEF NumbersApart
  <2> QED
    BY <2>4, <2>5
<1>2. ASSUME NEW h, Takes(h) PROVE NumbersApart'
  BY <1>2 DEF Takes
<1>3. CASE LastCommit
  BY <1>3 DEF LastCommit
<1>4. CASE D1Step
  <2>1. backend = "d1" /\ UNCHANGED <<run, seqTick, seq>>
    BY <1>4, D1Leaves
  <2>2. Carried' \subseteq Carried
    BY <1>4, D1Carried DEF D1Step
  <2>3. Audits' \subseteq Audits
    BY <2>2 DEF Audits
  <2>4. \A u, i : Given(u, i)' <=> Given(u, i)
    BY <2>1 DEF Given
  <2>5. ASSUME NEW q \in Audits', q.run = run' PROVE Given(q.tick, q.seq)'
    BY <2>1, <2>3, <2>4, <2>5 DEF NumbersApart
  <2>6. ASSUME NEW q \in Audits', NEW s \in Audits' PROVE SameAudit(q, s)
    BY <2>1, <2>3 DEF NumbersApart
  <2>7. ASSUME NEW q \in Audits', db'[<<"audits", q.tick, q.seq>>] # None,
               db'[<<"audits", q.tick, q.seq>>].run = q.run
        PROVE  db'[<<"audits", q.tick, q.seq>>].says = q.n
    <3>1. q \in Audits /\ q.tick \in Ticks /\ q.seq \in 1..MaxAudits
      BY <2>1, <2>3, AuditType
    <3>2. CASE db'[<<"audits", q.tick, q.seq>>] = db[<<"audits", q.tick, q.seq>>]
      BY <2>1, <2>7, <3>1, <3>2 DEF NumbersApart
    <3>3. ASSUME NEW r \in Carried, AuditsWritten(r),
                 r.kind = "audit" /\ q.tick = r.tick /\ q.seq = r.seq
          PROVE  db'[<<"audits", q.tick, q.seq>>].says = q.n
      <4>1. db'[<<"audits", q.tick, q.seq>>] = RowOf(r)
        BY <3>1, <3>3 DEF AuditsWritten
      <4>2. r \in Audits
        BY <3>3 DEF Audits
      <4>3. SameAudit(r, q)
        BY <2>1, <3>1, <4>2 DEF NumbersApart
      <4> QED
        BY <2>7, <3>3, <4>1, <4>3 DEF RowOf, SameAudit
    <3>4. ASSUME NEW r \in Carried, AuditsWritten(r),
                 ~(r.kind = "audit" /\ q.tick = r.tick /\ q.seq = r.seq)
          PROVE  db'[<<"audits", q.tick, q.seq>>] = db[<<"audits", q.tick, q.seq>>]
      BY <3>1, <3>4 DEF AuditsWritten
    <3>5. AuditsSame => db'[<<"audits", q.tick, q.seq>>] = db[<<"audits", q.tick, q.seq>>]
      BY <3>1 DEF AuditsSame
    <3> QED
      BY <1>4, <3>2, <3>3, <3>4, <3>5, D1Audits
  <2> QED
    BY <2>5, <2>6, <2>7 DEF NumbersApart
<1>5. CASE Restarts
  <2>1. Carried' \subseteq Carried /\ run' = run + 1 /\ UNCHANGED <<backend, db>>
    BY <1>5, RestartsCarried
  <2>2. Audits' \subseteq Audits /\ backend = "d1"
    BY <2>1 DEF Audits
  <2>3. ASSUME NEW q \in Audits', q.run = run' PROVE FALSE
    <3>1. q.run \in Nat /\ q.run <= run
      BY <2>2, AuditType
    <3> QED
      BY <1>0, <2>1, <2>3, <3>1
  <2>4. ASSUME NEW q \in Audits', NEW s \in Audits' PROVE SameAudit(q, s)
    BY <2>2 DEF NumbersApart
  <2>5. ASSUME NEW q \in Audits', db'[<<"audits", q.tick, q.seq>>] # None,
               db'[<<"audits", q.tick, q.seq>>].run = q.run
        PROVE  db'[<<"audits", q.tick, q.seq>>].says = q.n
    BY <2>1, <2>2, <2>5 DEF NumbersApart
  <2> QED
    BY <2>3, <2>4, <2>5 DEF NumbersApart
<1>6. CASE Rests
  <2>1. UNCHANGED <<backend, run, db, seqTick, seq>> /\ Carried' = Carried
    BY <1>6, RestsSame
  <2>2. Audits' = Audits /\ \A u, i : Given(u, i)' <=> Given(u, i)
    BY <2>1 DEF Audits, Given
  <2> QED
    BY <2>1, <2>2 DEF NumbersApart
<1> QED
  BY <1>1, <1>2, <1>3, <1>4, <1>5, <1>6 DEF Steps

\* The tables after a step keep the audits of a run apart.
LEMMA AuditsApartStep ==
  ASSUME Typed, InOrder, Made, OneWriter, RowsNumbered, NumbersApart, Steps
  PROVE  \A t \in Ticks, i \in 1..MaxAudits :
           LET k == <<"audits", t, i>>
           IN  db[k] # None /\ db'[k] # None /\ db[k].run = db'[k].run => db[k] = db'[k]
<1> SUFFICES ASSUME NEW t \in Ticks, NEW i \in 1..MaxAudits,
                    db[<<"audits", t, i>>] # None, db'[<<"audits", t, i>>] # None,
                    db[<<"audits", t, i>>].run = db'[<<"audits", t, i>>].run
             PROVE  db[<<"audits", t, i>>] = db'[<<"audits", t, i>>]
  OBVIOUS
<1> DEFINE k == <<"audits", t, i>>
<1>0. k \in Keys /\ db[k] \in Row
  BY KeysIn DEF Typed, TypeOK
<1>1. ASSUME NEW now, Fresh(now), db' = Over(db, now) PROVE db[k] = db'[k]
  <2>1. db'[k] = IF now[k] = None THEN db[k] ELSE now[k]
    BY <1>0, <1>1 DEF Over
  <2>2. now[k] # None => now[k].run = run /\ db[k].run # run
    BY <1>1 DEF Fresh
  <2> QED
    BY <2>1, <2>2
<1>2. ASSUME NEW h, Takes(h) PROVE db[k] = db'[k]
  <2>1. CASE db' = db
    BY <2>1
  <2>2. CASE Numbered(h) /\ Commit(Put(tx, Rows(h, seq')))
    <3>1. PICK n : n = seq'
      OBVIOUS
    <3> DEFINE now == Put(tx, Rows(h, n))
    <3>2. h \in Request
      BY <1>2, TakesNumber
    <3>3. Wrote(tx, now, h, n)
      BY <3>2, PutRows
    <3>4. db' = Over(db, now)
      BY <2>2, <3>1 DEF Commit
    <3> HIDE DEF now
    <3>5. Joins(now, h)
      BY <3>1, <3>3 DEF Joins
    <3>6. Fresh(now)
      BY <1>2, <2>2, <3>5, JoinsFresh
    <3> QED
      BY <1>1, <3>4, <3>6
  <2> QED
    BY <1>2, <2>1, <2>2 DEF Takes
<1>3. CASE LastCommit
  <2>1. UNCHANGED <<run, seqTick, seq>> /\ db' = Over(db, tx)
    BY <1>3 DEF LastCommit, Commit, world, numbers
  <2>2. db'[k] = IF tx[k] = None THEN db[k] ELSE tx[k]
    BY <1>0, <2>1 DEF Over
  <2>3. tx[k] # None => tx[k].run = run /\ db[k].run # run
    BY DEF RowsNumbered
  <2> QED
    BY <2>2, <2>3
<1>4. CASE D1Step
  <2>1. CASE AuditsSame
    BY <2>1 DEF AuditsSame
  <2>2. ASSUME NEW r \in Carried, AuditsWritten(r) PROVE db[k] = db'[k]
    <3>1. CASE r.kind = "audit" /\ t = r.tick /\ i = r.seq
      <4>1. r \in Audits /\ r \in Request /\ backend = "d1"
        BY <1>4, <3>1, CarriedType, SQLiteQuiet, IndexAssumption DEF Audits, Typed, TypeOK
      <4>2. db'[k] = RowOf(r) /\ RowOf(r) \in Row
        BY <2>2, <3>1, <4>1, RowType DEF AuditsWritten
      <4>3. db'[k].run = r.run /\ db'[k].says = r.n
        BY <4>2 DEF RowOf
      <4>4. db[k].says = r.n
        BY <3>1, <4>1, <4>3 DEF NumbersApart
      <4> QED
        BY <1>0, <4>2, <4>3, <4>4 DEF Row
    <3>2. CASE ~(r.kind = "audit" /\ t = r.tick /\ i = r.seq)
      BY <2>2, <3>2 DEF AuditsWritten
    <3> QED
      BY <3>1, <3>2
  <2> QED
    BY <1>4, <2>1, <2>2, D1Audits
<1>5. ASSUME NEW r, Offers(r) PROVE db[k] = db'[k]
  BY <1>5 DEF Offers
<1>6. CASE Restarts \/ Rests
  BY <1>6 DEF Restarts, Restart, Rests
<1> QED
  BY <1>2, <1>3, <1>4, <1>5, <1>6 DEF Steps

-----------------------------------------------------------------------------
(* Whole requests                                                          *)

\* The two kinds of rows that have parts.
Parted(head, part, kind, t) ==
  /\ t \in Ticks
  /\ <<head, part, kind>> \in {<<"ticks", "actions", "tick">>, <<"worlds", "agents", "state">>}

LEMMA PartedKeys ==
  \A head, part, kind, t : Parted(head, part, kind, t) =>
    /\ <<head, t, 0>> \in Keys /\ \A i \in 1..MaxActions : <<part, t, i>> \in Keys
    /\ \A r \in Request : \A n : /\ HeadKey(r, n, t, head, kind)
                                 /\ \A i : PartKey(r, n, t, i, part, kind)
<1> SUFFICES ASSUME NEW head, NEW part, NEW kind, NEW t, Parted(head, part, kind, t)
    PROVE
    /\ <<head, t, 0>> \in Keys /\ \A i \in 1..MaxActions : <<part, t, i>> \in Keys
    /\ \A r \in Request : \A n : /\ HeadKey(r, n, t, head, kind)
                                 /\ \A i : PartKey(r, n, t, i, part, kind)
  OBVIOUS
<1>1. t \in Ticks
  BY DEF Parted
<1>2. CASE head = "ticks" /\ part = "actions" /\ kind = "tick"
  BY <1>1, <1>2, KeysIn, KeysOfIs
<1>3. CASE head = "worlds" /\ part = "agents" /\ kind = "state"
  BY <1>1, <1>3, KeysIn, KeysOfIs
<1> QED
  BY <1>2, <1>3 DEF Parted

\* One tick of a table after a request.
LEMMA WroteWhole ==
  \A head, part, kind, t, table, now, n : \A r \in Request :
    /\ Parted(head, part, kind, t) /\ Wrote(table, now, r, n)
    /\ r.kind = kind => r.n <= MaxActions
    /\ WholeAt(table, head, part, t) /\ HeadedAt(table, head, part, t)
    => WholeAt(now, head, part, t) /\ HeadedAt(now, head, part, t)
<1> SUFFICES ASSUME NEW head, NEW part, NEW kind, NEW t, NEW table, NEW now, NEW n,
                    NEW r \in Request,
                    Parted(head, part, kind, t), Wrote(table, now, r, n),
                    r.kind = kind => r.n <= MaxActions,
                    WholeAt(table, head, part, t), HeadedAt(table, head, part, t)
             PROVE  WholeAt(now, head, part, t) /\ HeadedAt(now, head, part, t)
  OBVIOUS
<1> DEFINE k0 == <<head, t, 0>>
           k(i) == <<part, t, i>>
<1>1. /\ k0 \in Keys /\ \A i \in 1..MaxActions : k(i) \in Keys
      /\ HeadKey(r, n, t, head, kind) /\ \A i : PartKey(r, n, t, i, part, kind)
  BY PartedKeys
<1>2. now[k0] = IF r.kind = kind /\ t = r.tick THEN RowOf(r) ELSE table[k0]
  BY <1>1 DEF Wrote, HeadKey
<1>3. \A i \in 1..MaxActions :
        now[k(i)] = IF r.kind = kind /\ t = r.tick /\ i \in 1..r.n THEN RowOf(r) ELSE table[k(i)]
  BY <1>1 DEF Wrote, PartKey
<1>4. /\ RowOf(r) # None /\ RowOf(r).says = r.n /\ r.n \in Nat /\ MaxActions \in Nat
  BY RowType, IndexAssumption DEF RowOf, Request
<1>5. /\ table[k0] # None => /\ table[k0].says \in 0..MaxActions
                             /\ \A i \in 1..table[k0].says : table[k(i)] = table[k0]
      /\ \A i \in 1..MaxActions : table[k(i)] # None => table[k0] # None
  BY DEF WholeAt, HeadedAt
<1> SUFFICES /\ now[k0] # None => /\ now[k0].says \in 0..MaxActions
                                  /\ \A i \in 1..now[k0].says : now[k(i)] = now[k0]
             /\ \A i \in 1..MaxActions : now[k(i)] # None => now[k0] # None
  BY DEF WholeAt, HeadedAt
<1> HIDE DEF k0, k
<1>6. CASE r.kind = kind /\ t = r.tick
  <2>1. now[k0] = RowOf(r) /\ r.n <= MaxActions
    BY <1>2, <1>6
  <2>2. \A i \in 1..r.n : i \in 1..MaxActions
    BY <1>4, <2>1
  <2>3. \A i \in 1..r.n : now[k(i)] = RowOf(r)
    BY <1>3, <1>6, <2>2
  <2> QED
    BY <1>4, <2>1, <2>3
<1>7. CASE ~(r.kind = kind /\ t = r.tick)
  <2>1. now[k0] = table[k0] /\ \A i \in 1..MaxActions : now[k(i)] = table[k(i)]
    BY <1>2, <1>3, <1>7
  <2>2. ASSUME table[k0] # None, NEW i \in 1..table[k0].says PROVE i \in 1..MaxActions
    BY <1>4, <1>5, <2>2
  <2> QED
    BY <1>5, <2>1, <2>2
<1> QED
  BY <1>6, <1>7

LEMMA PutWhole ==
  \A table, now, n : \A r \in Request :
    Whole(table) /\ Headed(table) /\ Wrote(table, now, r, n) /\ WellMade(r)
      => Whole(now) /\ Headed(now)
<1> SUFFICES ASSUME NEW table, NEW now, NEW n, NEW r \in Request,
                    Whole(table), Headed(table), Wrote(table, now, r, n), WellMade(r)
             PROVE  Whole(now) /\ Headed(now)
  OBVIOUS
<1>1. ASSUME NEW t \in Ticks, NEW head, NEW part, NEW kind, Parted(head, part, kind, t)
      PROVE  WholeAt(now, head, part, t) /\ HeadedAt(now, head, part, t)
  <2>1. WholeAt(table, head, part, t) /\ HeadedAt(table, head, part, t)
    BY <1>1 DEF Whole, Headed, Parted
  <2>2. r.kind = kind => r.n <= MaxActions
    BY <1>1 DEF Parted, WellMade
  <2> QED
    BY <1>1, <2>1, <2>2, WroteWhole
<1>2. ASSUME NEW t \in Ticks
      PROVE  Parted("ticks", "actions", "tick", t) /\ Parted("worlds", "agents", "state", t)
  BY DEF Parted
<1> QED
  BY <1>1, <1>2 DEF Whole, Headed

\* One tick of the tables after a commit.
LEMMA CommitWhole ==
  \A base, now : Whole(base) /\ Whole(now) /\ Headed(now) => Whole(Over(base, now))
<1> SUFFICES ASSUME NEW base, NEW now, Whole(base), Whole(now), Headed(now)
             PROVE  Whole(Over(base, now))
  OBVIOUS
<1> DEFINE all == Over(base, now)
<1>1. ASSUME NEW t \in Ticks, NEW head, NEW part, NEW kind, Parted(head, part, kind, t)
      PROVE  WholeAt(all, head, part, t)
  <2> DEFINE k0 == <<head, t, 0>>
             k(i) == <<part, t, i>>
  <2>1. k0 \in Keys /\ \A i \in 1..MaxActions : k(i) \in Keys
    BY <1>1, PartedKeys
  <2>2. /\ all[k0] = IF now[k0] = None THEN base[k0] ELSE now[k0]
        /\ \A i \in 1..MaxActions : all[k(i)] = IF now[k(i)] = None THEN base[k(i)] ELSE now[k(i)]
    BY <2>1 DEF Over
  <2>3. WholeAt(base, head, part, t) /\ WholeAt(now, head, part, t) /\ HeadedAt(now, head, part, t)
    BY <1>1 DEF Whole, Headed, Parted
  <2>4. /\ base[k0] # None => /\ base[k0].says \in 0..MaxActions
                              /\ \A i \in 1..base[k0].says : base[k(i)] = base[k0]
        /\ now[k0] # None => /\ now[k0].says \in 0..MaxActions
                             /\ \A i \in 1..now[k0].says : now[k(i)] = now[k0]
        /\ \A i \in 1..MaxActions : now[k(i)] # None => now[k0] # None
    BY <2>3 DEF WholeAt, HeadedAt
  <2> SUFFICES all[k0] # None => /\ all[k0].says \in 0..MaxActions
                                 /\ \A i \in 1..all[k0].says : all[k(i)] = all[k0]
    BY DEF WholeAt
  <2> HIDE DEF k0, k, all
  <2>5. MaxActions \in Nat
    BY IndexAssumption
  <2>6. CASE now[k0] # None
    <3>1. all[k0] = now[k0]
      BY <2>2, <2>6
    <3>2. ASSUME NEW i \in 1..now[k0].says PROVE all[k(i)] = now[k0]
      <4>1. now[k(i)] = now[k0] /\ i \in 1..MaxActions
        BY <2>4, <2>5, <2>6
      <4> QED
        BY <2>2, <2>6, <4>1
    <3> QED
      BY <2>4, <2>6, <3>1, <3>2
  <2>7. CASE now[k0] = None
    <3>1. all[k0] = base[k0] /\ \A i \in 1..MaxActions : all[k(i)] = base[k(i)]
      BY <2>2, <2>4, <2>7
    <3>2. ASSUME base[k0] # None, NEW i \in 1..base[k0].says PROVE all[k(i)] = base[k0]
      <4>1. base[k(i)] = base[k0] /\ i \in 1..MaxActions
        BY <2>4, <2>5, <3>2
      <4> QED
        BY <3>1, <4>1
    <3> QED
      BY <2>4, <3>1, <3>2
  <2> QED
    BY <2>6, <2>7
<1>2. ASSUME NEW t \in Ticks
      PROVE  Parted("ticks", "actions", "tick", t) /\ Parted("worlds", "agents", "state", t)
  BY DEF Parted
<1> QED
  BY <1>1, <1>2 DEF Whole

LEMMA EmptyWhole == Whole(Empty) /\ Headed(Empty)
  BY KeysIn, EmptyType DEF Whole, Headed, WholeAt, HeadedAt

LEMMA TablesWholeStep ==
  ASSUME Typed, InOrder, Made, OneWriter, TablesWhole, Steps
  PROVE  TablesWhole'
<1> SUFFICES ASSUME backend' = "sqlite" PROVE Whole(tx)' /\ Headed(tx)' /\ Whole(db)'
  BY DEF TablesWhole
<1>s. ASSUME backend = "sqlite", UNCHANGED <<tx, db>>
      PROVE  Whole(tx)' /\ Headed(tx)' /\ Whole(db)'
  <2>1. Whole(tx) /\ Headed(tx) /\ Whole(db)
    BY <1>s DEF TablesWhole
  <2> QED
    BY <1>s, <2>1 DEF Whole, Headed, WholeAt, HeadedAt
<1>e. ASSUME backend = "sqlite", tx' = Empty, Whole(db)
      PROVE  Whole(tx)' /\ Headed(tx)'
  BY <1>e, EmptyWhole DEF Whole, Headed, WholeAt, HeadedAt
<1>1. ASSUME NEW h, Takes(h) PROVE Whole(tx)' /\ Headed(tx)' /\ Whole(db)'
  <2>1. backend = "sqlite" /\ Whole(tx) /\ Headed(tx) /\ Whole(db)
    BY <1>1 DEF Takes, TablesWhole
  <2>2. h \in Request /\ WellMade(h)
    BY <1>1, TakesNumber
  <2>3. PICK n : n = seq'
    OBVIOUS
  <2> DEFINE now == Put(tx, Rows(h, n))
  <2>4. Whole(now) /\ Headed(now)
    <3>1. Wrote(tx, now, h, n)
      BY <2>2, PutRows
    <3> HIDE DEF now
    <3> QED
      BY <2>1, <2>2, <3>1, PutWhole
  <2>5. CASE UNCHANGED <<numbers, tx, ops, db>>
    BY <1>s, <2>1, <2>5
  <2>6. CASE tx' = Empty /\ db' = db
    <3>1. Whole(db)'
      BY <2>1, <2>6 DEF Whole, WholeAt
    <3> QED
      BY <1>e, <2>1, <2>6, <3>1
  <2>7. CASE Commit(now)
    <3>1. db' = Over(db, now) /\ tx' = Empty
      BY <2>7 DEF Commit
    <3>2. Whole(Over(db, now))
      BY <2>1, <2>4, CommitWhole
    <3>3. Whole(db')
      BY <3>1, <3>2
    <3>4. Whole(db)'
      BY <3>3 DEF Whole, WholeAt
    <3> QED
      BY <1>e, <2>1, <3>1, <3>4
  <2>8. CASE tx' = now /\ db' = db
    <3>1. Whole(tx') /\ Headed(tx')
      BY <2>4, <2>8
    <3> QED
      BY <2>1, <2>8, <3>1 DEF Whole, Headed, WholeAt, HeadedAt
  <2> QED
    BY <1>1, <2>3, <2>5, <2>6, <2>7, <2>8 DEF Takes
<1>2. CASE LastCommit
  <2>1. backend = "sqlite" /\ db' = Over(db, tx) /\ tx' = Empty
    BY <1>2 DEF LastCommit, Commit
  <2>2. Whole(tx) /\ Headed(tx) /\ Whole(db)
    BY <2>1 DEF TablesWhole
  <2>3. Whole(Over(db, tx))
    BY <2>2, CommitWhole
  <2>4. Whole(db')
    BY <2>1, <2>3
  <2>5. Whole(db)'
    BY <2>4 DEF Whole, WholeAt
  <2> QED
    BY <1>e, <2>1, <2>2, <2>5
<1>3. CASE D1Step
  BY <1>3, SQLiteQuiet, D1Leaves
<1>4. ASSUME NEW r, Offers(r) PROVE Whole(tx)' /\ Headed(tx)' /\ Whole(db)'
  BY <1>s, <1>4 DEF Offers, sqlite
<1>5. CASE Restarts
  <2>1. backend = "sqlite" /\ db' = db /\ tx' = Empty
    BY <1>5 DEF Restarts, Restart
  <2>2. Whole(db) /\ Whole(db)'
    BY <2>1 DEF TablesWhole, Whole, WholeAt
  <2> QED
    BY <1>e, <2>1, <2>2
<1>6. CASE Rests
  BY <1>s, <1>6 DEF Rests, sqlite
<1> QED
  BY <1>1, <1>2, <1>3, <1>4, <1>5, <1>6 DEF Steps

-----------------------------------------------------------------------------
(* What is acknowledged                                                    *)

\* The worker's events keep rows, but for those of agents.
LEMMA RowsStay ==
  ASSUME Typed, backend = "d1", Steps
  PROVE  \A k \in Keys : k[1] # "agents" /\ db[k] # None => db'[k] # None
<1>1. ASSUME NEW p \in Posts, WorkerApplies(p), NEW k \in Keys, k[1] # "agents", db[k] # None
      PROVE  db'[k] # None
  <2> DEFINE r == Head(posts[p])
  <2>1. r \in Request /\ Applied(r)
    BY <1>1, Applying
  <2> HIDE DEF r
  <2>2. PICK base \in [Keys -> Row \cup {None}] :
          Wrote(base, db', r, r.seq) /\ \A e \in Keys : e[1] # "agents" => base[e] = db[e]
    BY <2>1 DEF Applied
  <2>3. base[k] = db[k] /\ RowOf(r) # None
    BY <1>1, <2>1, <2>2, RowType
  <2> QED
    BY <1>1, <2>2, <2>3 DEF Wrote
<1>2. ASSUME NEW p \in Posts, WorkerFails(p), NEW k \in Keys, k[1] # "agents", db[k] # None
      PROVE  db'[k] # None
  <2>1. db' = db \/ db' = Replaced(Head(posts[p]))
    BY <1>2 DEF WorkerFails
  <2> QED
    BY <1>2, <2>1, ReplacedType DEF Typed, TypeOK
<1>3. D1Step => \/ db' = db
                \/ \E p \in Posts : WorkerApplies(p) \/ WorkerFails(p)
  BY DEF D1Step, Receive, Post, PostTimesOut, WorkerAnswers
<1>4. ~D1Step => db' = db
  BY DEF Steps, Offers, Takes, LastCommit, Restarts, Restart, Rests
<1> QED
  BY <1>1, <1>2, <1>3, <1>4

\* Requests on their way to D1 have their keys in the tables.
LEMMA KeysOfIn ==
  \A r \in Request : WellMade(r) /\ backend = "d1" => KeysOf(r, r.seq) \subseteq Keys
<1> SUFFICES ASSUME NEW r \in Request, WellMade(r), backend = "d1"
             PROVE  KeysOf(r, r.seq) \subseteq Keys
  OBVIOUS
<1>1. /\ r.kind \in {"tick", "audit", "state"} /\ r.tick \in Ticks /\ r.n \in Nat
      /\ MaxActions \in Nat
  BY IndexAssumption DEF Request
<1>2. CASE r.kind = "audit"
  <2>1. r.seq \in 1..MaxAudits
    BY <1>2 DEF WellMade
  <2>2. KeysOf(r, r.seq) = {<<"audits", r.tick, r.seq>>}
    BY <1>2 DEF KeysOf
  <2> QED
    BY <1>1, <2>1, <2>2, KeysIn
<1>3. CASE r.kind # "audit"
  <2>1. \A i \in 1..r.n : i \in 1..MaxActions
    BY <1>1, <1>3 DEF WellMade
  <2>2. CASE r.kind = "tick"
    <3>1. KeysOf(r, r.seq)
            = {<<"ticks", r.tick, 0>>} \cup {<<"actions", r.tick, i>> : i \in 1..r.n}
      BY <2>2 DEF KeysOf
    <3> QED
      BY <1>1, <2>1, <3>1, KeysIn
  <2>3. CASE r.kind = "state"
    <3>1. KeysOf(r, r.seq)
            = {<<"worlds", r.tick, 0>>} \cup {<<"agents", r.tick, i>> : i \in 1..r.n}
      BY <2>3 DEF KeysOf
    <3> QED
      BY <1>1, <2>1, <3>1, KeysIn
  <2> QED
    BY <1>1, <1>3, <2>2, <2>3
<1> QED
  BY <1>2, <1>3

LEMMA StoredStays ==
  ASSUME Typed, backend = "d1", Steps
  PROVE  \A r \in Request : WellMade(r) /\ Stored(r) => Stored(r)'
<1> SUFFICES ASSUME NEW r \in Request, WellMade(r), Stored(r),
                    NEW k \in KeysOf(r, r.seq), k[1] # "agents"
             PROVE  db'[k] # None
  BY DEF Stored
<1>1. k \in Keys
  BY KeysOfIn
<1>2. db[k] # None
  BY DEF Stored
<1> QED
  BY <1>1, <1>2, RowsStay

\* An event that was applied is stored.
LEMMA AppliedStored ==
  \A r \in Request : Typed /\ backend = "d1" /\ WellMade(r) /\ Applied(r) => Stored(r)'
<1> SUFFICES ASSUME NEW r \in Request, Typed, backend = "d1", WellMade(r), Applied(r),
                    NEW k \in KeysOf(r, r.seq)
             PROVE  db'[k] # None
  BY DEF Stored
<1>1. k \in Keys
  BY KeysOfIn
<1>2. PICK base : Wrote(base, db', r, r.seq)
  BY DEF Applied
<1>3. db'[k] = RowOf(r)
  BY <1>1, <1>2 DEF Wrote
<1> QED
  BY <1>3, RowType

\* The events of a post that are left.
LEMMA LeftTaken ==
  ASSUME batch \in Seq(Request), NEW j \in 0..Len(batch)
  PROVE  /\ Left(j) = <<>> => j = Len(batch)
         /\ Left(j) # <<>> => /\ j + 1 \in 1..Len(batch) /\ Head(Left(j)) = batch[j + 1]
                              /\ Tail(Left(j)) = Left(j + 1)
<1>1. Len(batch) \in Nat /\ j \in Nat /\ j <= Len(batch)
  BY LenProperties
<1>2. CASE j = Len(batch)
  <2>1. Left(j) = <<>>
    BY <1>1, <1>2, SubSeqEmpty DEF Left
  <2> QED
    BY <1>2, <2>1
<1>3. CASE j < Len(batch)
  <2>1. j + 1 \in 1..Len(batch) /\ Len(batch) \in j + 1..Len(batch)
    BY <1>1, <1>3
  <2>2. Head(Left(j)) = batch[j + 1] /\ Tail(Left(j)) = Left(j + 1)
    BY <2>1, HeadTailOfSubSeq DEF Left
  <2>3. Left(j) # <<>>
    <3>1. \A i \in j + 1..Len(batch) : batch[i] \in Request
      BY <1>1, ElementOfSeq
    <3>2. Len(Left(j)) = Len(batch) - (j + 1) + 1
      BY <1>1, <2>1, <3>1, SubSeqProperties DEF Left
    <3>3. Len(Left(j)) # 0
      BY <1>1, <1>3, <3>2
    <3> QED
      BY <3>3
  <2> QED
    BY <2>1, <2>2, <2>3
<1> QED
  BY <1>1, <1>2, <1>3

\* Events of the batch are well made.
LEMMA BatchMade ==
  ASSUME Typed, Made
  PROVE  \A i \in 1..Len(batch) : batch[i] \in Request /\ WellMade(batch[i])
<1> SUFFICES ASSUME NEW i \in 1..Len(batch) PROVE batch[i] \in Request /\ WellMade(batch[i])
  OBVIOUS
<1>1. batch[i] \in In(batch)
  BY DEF In
<1> QED
  BY <1>1, CarriedType DEF Made

LEMMA ProgressStep ==
  ASSUME Typed, Made, OneWriter, Room, Progress, Steps
  PROVE  Progress'
<1>0. /\ attempt \in Nat /\ waiting \in Posts \cup {0} /\ 0 \notin Posts
      /\ batch \in Seq(Request) /\ posts \in [Posts -> Seq(Request) \cup {None}]
      /\ Len(batch) \in Nat
  BY PostsFinite, IndexAssumption, LenProperties DEF Typed, TypeOK
<1>1. ASSUME waiting' = 0 PROVE Progress'
  BY <1>1 DEF Progress
<1>2. ASSUME waiting # 0, UNCHANGED <<waiting, attempt, batch>>, backend = "d1",
             posts'[waiting] = posts[waiting]
      PROVE  Progress'
  <2>1. PICK j \in 0..Len(batch) : posts[waiting] = Left(j) /\ \A i \in 1..j : Stored(batch[i])
    BY <1>2 DEF Progress
  <2>2. PICK b : b = batch
    OBVIOUS
  <2>3. \A i \in 1..j : Stored(b[i])'
    <3>1. ASSUME NEW i \in 1..j PROVE Stored(b[i])'
      <4>1. i \in 1..Len(batch)
        BY <1>0
      <4>2. b[i] \in Request /\ WellMade(b[i]) /\ Stored(b[i])
        BY <2>1, <2>2, <4>1, BatchMade
      <4> QED
        BY <1>2, <4>2, StoredStays
    <3> QED
      BY <3>1
  <2>4. Left(j)' = Left(j) /\ batch' = b
    BY <1>2, <2>2 DEF Left
  <2>5. \A i \in 1..j : Stored(batch[i])'
    BY <2>3, <2>4 DEF Stored
  <2>6. posts'[waiting'] = Left(j)' /\ j \in 0..Len(batch')
    BY <1>2, <2>1, <2>4
  <2>7. attempt' = 0 => waiting' = 0
    BY <1>2 DEF Progress
  <2> QED
    BY <2>5, <2>6, <2>7 DEF Progress
<1>3. ASSUME UNCHANGED <<waiting, attempt, batch, posts>>, backend = "d1" PROVE Progress'
  BY <1>1, <1>2, <1>3
<1>4. CASE backend # "d1"
  <2>1. backend = "sqlite"
    BY <1>4, IndexAssumption DEF Typed, TypeOK
  <2>2. OneWriter' /\ backend' = backend
    BY OneWriterStep DEF Steps, Offers, Takes, LastCommit, Rests, Restarts, Restart, D1Step,
       Receive, Post, PostTimesOut, WorkerApplies, WorkerFails, WorkerAnswers
  <2> QED
    BY <1>1, <2>1, <2>2 DEF OneWriter
<1>5. ASSUME backend = "d1", NEW r, Offers(r) PROVE Progress'
  BY <1>3, <1>5 DEF Offers, d1
<1>6. CASE backend = "d1" /\ Rests
  BY <1>3, <1>6 DEF Rests, d1
<1>7. CASE Restarts
  <2>1. waiting' = 0
    BY <1>7 DEF Restarts, Restart
  <2> QED
    BY <1>1, <2>1
<1>8. CASE backend = "d1" /\ Receive
  <2>1. waiting' = 0
    BY <1>8 DEF Receive, Progress
  <2> QED
    BY <1>1, <2>1
<1>9. CASE Post
  <2>1. /\ waiting' \in Posts /\ attempt' = attempt + 1 /\ batch' = batch
        /\ posts' = [posts EXCEPT ![waiting'] = batch]
    BY <1>9, FreePost DEF Post
  <2>2. posts'[waiting'] = batch
    BY <1>0, <2>1
  <2>3. SubSeq(batch, 1, Len(batch)) = batch
    BY <1>0, SubSeqFull
  <2>4. Left(0)' = batch
    BY <2>1, <2>3 DEF Left
  <2>5. 0 \in 0..Len(batch') /\ attempt' # 0
    BY <1>0, <2>1
  <2>6. \A i \in 1..0 : Stored(batch[i])'
    OBVIOUS
  <2> QED
    BY <2>2, <2>4, <2>5, <2>6 DEF Progress
<1>10. CASE PostTimesOut
  <2>1. waiting' = 0
    BY <1>10 DEF PostTimesOut, Retry
  <2> QED
    BY <1>1, <2>1
<1>11. ASSUME backend = "d1", NEW p \in Posts, WorkerApplies(p) PROVE Progress'
  <2>1. /\ UNCHANGED <<waiting, attempt, batch>>
        /\ posts' = [posts EXCEPT ![p] = Tail(posts[p])]
    BY <1>11 DEF WorkerApplies
  <2>2. CASE waiting = 0
    BY <1>1, <2>1, <2>2
  <2>3. CASE waiting # 0 /\ waiting # p
    <3>1. posts'[waiting] = posts[waiting]
      BY <1>0, <2>1, <2>3
    <3> QED
      BY <1>2, <1>11, <2>1, <2>3, <3>1
  <2>4. CASE waiting # 0 /\ waiting = p
    <3>1. PICK j \in 0..Len(batch) : posts[p] = Left(j) /\ \A i \in 1..j : Stored(batch[i])
      BY <2>4 DEF Progress
    <3>2. PICK b : b = batch
      OBVIOUS
    <3>3. posts[p] # <<>> /\ Applied(Head(posts[p]))
      BY <1>11, Applying
    <3>4. j + 1 \in 1..Len(batch) /\ Head(posts[p]) = b[j + 1] /\ Tail(posts[p]) = Left(j + 1)
      BY <1>0, <3>1, <3>2, <3>3, LeftTaken
    <3>5. Stored(b[j + 1])'
      <4>1. b[j + 1] \in Request /\ WellMade(b[j + 1])
        BY <3>2, <3>4, BatchMade
      <4>2. Applied(b[j + 1])
        BY <3>3, <3>4
      <4> QED
        BY <1>11, <4>1, <4>2, AppliedStored
    <3>6. ASSUME NEW i \in 1..j PROVE Stored(b[i])'
      <4>1. i \in 1..Len(batch)
        BY <1>0
      <4>2. b[i] \in Request /\ WellMade(b[i]) /\ Stored(b[i])
        BY <3>1, <3>2, <4>1, BatchMade
      <4> QED
        BY <1>11, <4>2, StoredStays
    <3>7. \A i \in 1..j + 1 : Stored(b[i])'
      <4>1. \A i \in 1..j + 1 : i \in 1..j \/ i = j + 1
        OBVIOUS
      <4> QED
        BY <3>5, <3>6, <4>1
    <3>8. batch' = b /\ Left(j + 1)' = Left(j + 1)
      BY <2>1, <3>2 DEF Left
    <3>9. \A i \in 1..j + 1 : Stored(batch[i])'
      BY <3>7, <3>8 DEF Stored
    <3>10. posts'[waiting'] = Left(j + 1)' /\ j + 1 \in 0..Len(batch')
      <4>1. posts'[p] = Tail(posts[p])
        BY <1>0, <2>1
      <4> QED
        BY <1>0, <2>1, <2>4, <3>4, <3>8, <4>1
    <3>11. attempt' = 0 => waiting' = 0
      BY <2>1 DEF Progress
    <3> QED
      BY <3>9, <3>10, <3>11 DEF Progress
  <2> QED
    BY <2>2, <2>3, <2>4
<1>12. ASSUME backend = "d1", NEW p \in Posts, WorkerFails(p) \/ WorkerAnswers(p)
       PROVE  Progress'
  <2>1. posts' = [posts EXCEPT ![p] = None]
    BY <1>12 DEF WorkerFails, WorkerAnswers
  <2>2. CASE waiting = p
    <3>1. waiting' = 0
      BY <1>12, <2>2 DEF WorkerFails, WorkerAnswers, Retry, EndBatch
    <3> QED
      BY <1>1, <3>1
  <2>3. CASE waiting # p
    <3>1. UNCHANGED <<waiting, attempt, batch>>
      BY <1>12, <2>3 DEF WorkerFails, WorkerAnswers
    <3>2. CASE waiting = 0
      BY <1>1, <3>1, <3>2
    <3>3. CASE waiting # 0
      <4>1. posts'[waiting] = posts[waiting]
        BY <1>0, <2>1, <2>3, <3>3
      <4> QED
        BY <1>2, <1>12, <3>1, <3>3, <4>1
    <3> QED
      BY <3>2, <3>3
  <2> QED
    BY <2>2, <2>3
<1>13. CASE backend = "d1" /\ (LastCommit \/ \E h \in Request : Takes(h))
  BY <1>13 DEF LastCommit, Takes
<1> QED
  BY <1>4, <1>5, <1>6, <1>7, <1>8, <1>9, <1>10, <1>11, <1>12, <1>13 DEF Steps, D1Step

LEMMA AllStoredStep ==
  ASSUME Typed, Made, OneWriter, Progress, AllStored, Steps
  PROVE  AllStored'
<1>1. CASE backend # "d1"
  <2>1. backend = "sqlite"
    BY <1>1, IndexAssumption DEF Typed, TypeOK
  <2>2. acked' = acked /\ acked = {}
    BY <2>1, SQLiteQuiet DEF Steps, Offers, Takes, LastCommit, Rests, Restarts, Restart, d1,
       OneWriter
  <2> QED
    BY <2>2 DEF AllStored
<1>2. CASE backend = "d1"
  <2>1. ASSUME NEW r \in acked PROVE Stored(r)'
    <3>1. r \in Request /\ WellMade(r) /\ Stored(r)
      BY <2>1 DEF Typed, TypeOK, Made, AllStored
    <3> QED
      BY <1>2, <3>1, StoredStays
  <2>2. ASSUME NEW p \in Posts, WorkerAnswers(p), waiting = p PROVE AllStored'
    <3>1. waiting # 0 /\ posts[p] = <<>> /\ acked' = acked \cup {batch[i] : i \in 1..Len(batch)}
      BY <2>2, PostsFinite DEF WorkerAnswers
    <3>2. PICK j \in 0..Len(batch) : posts[p] = Left(j) /\ \A i \in 1..j : Stored(batch[i])
      BY <2>2, <3>1 DEF Progress
    <3>3. j = Len(batch)
      BY <3>1, <3>2, LeftTaken DEF Typed, TypeOK
    <3>4. PICK b : b = batch
      OBVIOUS
    <3>5. ASSUME NEW i \in 1..Len(b) PROVE Stored(b[i])'
      <4>1. b[i] \in Request /\ WellMade(b[i]) /\ Stored(b[i])
        BY <3>2, <3>3, <3>4, BatchMade
      <4> QED
        BY <1>2, <4>1, StoredStays
    <3>6. acked' = acked \cup {b[i] : i \in 1..Len(b)}
      BY <3>1, <3>4
    <3> QED
      BY <2>1, <3>5, <3>6 DEF AllStored
  <2>3. CASE acked' = acked
    BY <2>1, <2>3 DEF AllStored
  <2>4. acked' = acked \/ \E p \in Posts : WorkerAnswers(p) /\ waiting = p
    BY DEF Steps, Offers, Takes, LastCommit, Rests, Restarts, Restart, d1, D1Step, Receive, Post,
       PostTimesOut, WorkerApplies, WorkerFails, WorkerAnswers
  <2> QED
    BY <2>2, <2>3, <2>4
<1> QED
  BY <1>1, <1>2

-----------------------------------------------------------------------------
(* Posts                                                                   *)

LEMMA UsedFinite ==
  /\ IsFiniteSet(Used) /\ Cardinality(Used) \in Nat
  /\ \A U \in SUBSET Used : Cardinality(U) <= Cardinality(Used) /\ Cardinality(U) \in Nat
  /\ \A p \in Used : Cardinality(Used \ {p}) = Cardinality(Used) - 1
  /\ \A p : p \notin Used => Cardinality(Used \cup {p}) = Cardinality(Used) + 1
<1>1. IsFiniteSet(Used)
  BY PostsFinite, FS_Subset DEF Used
<1>2. \A U \in SUBSET Used : Cardinality(U) <= Cardinality(Used) /\ Cardinality(U) \in Nat
  BY <1>1, FS_Subset, FS_CardinalityType
<1>3. \A p \in Used : Cardinality(Used \ {p}) = Cardinality(Used) - 1
  BY <1>1, FS_RemoveElement
<1>4. \A p : p \notin Used => Cardinality(Used \cup {p}) = Cardinality(Used) + 1
  BY <1>1, FS_AddElement
<1> QED
  BY <1>1, <1>2, <1>3, <1>4, FS_CardinalityType

LEMMA RoomStep ==
  ASSUME Typed, Room, Steps
  PROVE  Room'
<1>0. /\ faults \in Nat /\ faults' \in {faults, faults + 1} /\ run \in Nat
      /\ waiting \in Posts \cup {0} /\ 0 \notin Posts
      /\ posts \in [Posts -> Seq(Request) \cup {None}]
  <2>1. /\ faults \in Nat /\ run \in Nat /\ waiting \in Posts \cup {0} /\ 0 \notin Posts
        /\ posts \in [Posts -> Seq(Request) \cup {None}]
    BY PostsFinite, MostRunsType, IndexAssumption DEF Typed, TypeOK, Runs
  <2>2. faults' \in {faults, faults + 1}
    BY DEF Steps, Offers, Takes, LastCommit, Rests, Restarts, D1Step, Receive, Post, PostTimesOut,
       WorkerApplies, WorkerFails, WorkerAnswers, Fault
  <2> QED
    BY <2>1, <2>2
<1> PICK c : c = Cardinality(Used)
  OBVIOUS
<1> PICK d : d = Cardinality(Used')
  OBVIOUS
<1>1. c \in Nat /\ c <= faults + run - 1 + (IF waiting = 0 THEN 0 ELSE 1)
  BY UsedFinite DEF Room
<1>2. ASSUME d <= faults' + run' - 1 + (IF waiting' = 0 THEN 0 ELSE 1) PROVE Room'
  BY <1>2 DEF Room
<1>3. Used' = {p \in Posts : posts'[p] # None}
  BY DEF Used
<1>4. ASSUME Used' = Used, run' = run, waiting' = waiting PROVE Room'
  <2>1. d = c
    BY <1>4
  <2> QED
    BY <1>0, <1>1, <1>2, <1>4, <2>1
<1>5. ASSUME NEW r, Offers(r) PROVE Room'
  BY <1>3, <1>4, <1>5 DEF Offers, d1, Used
<1>6. ASSUME NEW h, Takes(h) PROVE Room'
  BY <1>3, <1>4, <1>6 DEF Takes, d1, world, Used
<1>7. CASE LastCommit \/ Rests \/ Receive
  BY <1>3, <1>4, <1>7 DEF LastCommit, Rests, Receive, d1, world, Used
<1>8. CASE Restarts
  <2>1. posts' = posts /\ run' = run + 1 /\ waiting' = 0
    BY <1>8 DEF Restarts, Restart
  <2>2. d = c
    BY <1>3, <2>1 DEF Used
  <2> QED
    BY <1>0, <1>1, <1>2, <2>1, <2>2
<1>9. CASE Post
  <2>1. /\ waiting = 0 /\ waiting' \in Posts /\ posts[waiting'] = None
        /\ posts' = [posts EXCEPT ![waiting'] = batch] /\ faults' = faults /\ run' = run
        /\ batch # None
    BY <1>9, FreePost, NotNone DEF Post, world, Typed, TypeOK
  <2>2. PICK p : p = waiting'
    OBVIOUS
  <2>3. Used' = Used \cup {p} /\ p \notin Used
    BY <1>0, <1>3, <2>1, <2>2 DEF Used
  <2>4. d = c + 1
    BY <2>3, UsedFinite
  <2> QED
    BY <1>0, <1>1, <1>2, <2>1, <2>4
<1>10. CASE PostTimesOut
  <2>1. /\ waiting # 0 /\ waiting' = 0 /\ faults' = faults + 1 /\ run' = run
        /\ \A p \in Posts : posts'[p] = None \/ posts'[p] = posts[p]
    BY <1>0, <1>10 DEF PostTimesOut, Retry, Fault, world
  <2>2. Used' \subseteq Used
    BY <1>3, <2>1 DEF Used
  <2>3. d <= c /\ d \in Nat
    BY <2>2, UsedFinite
  <2> QED
    BY <1>0, <1>1, <1>2, <2>1, <2>3
<1>11. ASSUME NEW p \in Posts, WorkerApplies(p) PROVE Room'
  <2>1. posts' = [posts EXCEPT ![p] = Tail(posts[p])] /\ run' = run /\ waiting' = waiting
    BY <1>11 DEF WorkerApplies, world
  <2>2. posts[p] # None /\ Tail(posts[p]) # None
    BY <1>11, Applying, TailIn, NotNone
  <2>3. Used' = Used
    BY <1>0, <1>3, <2>1, <2>2 DEF Used
  <2> QED
    BY <1>4, <2>1, <2>3
<1>12. ASSUME NEW p \in Posts, WorkerFails(p) \/ WorkerAnswers(p) PROVE Room'
  <2>1. posts' = [posts EXCEPT ![p] = None] /\ run' = run
    BY <1>12 DEF WorkerFails, WorkerAnswers, world
  <2>2. posts[p] # None
    BY <1>12, NotNone, EmptyIn DEF WorkerFails, WorkerAnswers, Running
  <2>3. Used' = Used \ {p} /\ p \in Used
    BY <1>0, <1>3, <2>1, <2>2 DEF Used
  <2>4. d = c - 1
    BY <2>3, UsedFinite
  <2>5. waiting' \in {waiting, 0}
    BY <1>12 DEF WorkerFails, WorkerAnswers, Retry, EndBatch
  <2> QED
    BY <1>0, <1>1, <1>2, <2>1, <2>4, <2>5
<1> QED
  BY <1>5, <1>6, <1>7, <1>8, <1>9, <1>10, <1>11, <1>12 DEF Steps, D1Step

-----------------------------------------------------------------------------
(* The invariant                                                           *)

LEMMA InitIInv == Init => IInv
<1> SUFFICES ASSUME Init PROVE IInv
  OBVIOUS
<1> USE DEF Init
<1>1. /\ MaxTick \in Nat /\ MaxAudits \in Nat /\ Cap \in Nat /\ CommitEvery \in Nat
      /\ BatchSize \in Nat /\ Attempts \in Nat /\ MaxFaults \in Nat
      /\ MaxRuns[backend] \in Nat \ {0} /\ MostRuns \in Nat \ {0}
  BY IndexAssumption, MostRunsType
<1>2. <<>> \in Seq(Request) /\ Len(<<>>) = 0 /\ In(<<>>) = {}
  BY EmptyIn
<1>3. TypeOK
  <2>1. /\ backend \in Backends /\ run \in Runs /\ tick \in 1..MaxTick + 1
        /\ audits \in 0..MaxAudits /\ snaps \subseteq Ticks /\ closed \in BOOLEAN
    <3>1. 1 \in 1..MaxTick + 1 /\ 0 \in 0..MaxAudits /\ 1 \in Runs
      BY <1>1 DEF Runs
    <3> QED
      BY <3>1
  <2>2. /\ ch \in Seq(Request) /\ Len(ch) <= Cap /\ batch \in Seq(Request)
        /\ Len(batch) <= BatchSize
    BY <1>1, <1>2
  <2>3. /\ seqTick \in 0..MaxTick /\ seq \in 0..MaxAudits /\ ops \in 0..CommitEvery
        /\ waiting \in Posts \cup {0} /\ attempt \in 0..Attempts /\ faults \in 0..MaxFaults
    BY <1>1
  <2>4. /\ tx \in [Keys -> Row \cup {None}] /\ db \in [Keys -> Row \cup {None}]
        /\ posts \in [Posts -> Seq(Request) \cup {None}] /\ acked \subseteq Request
    BY EmptyType
  <2> QED
    BY <2>1, <2>2, <2>3, <2>4 DEF TypeOK
<1>4. Typed
  BY <1>1, <1>3 DEF Typed
<1>5. Used = {}
  BY DEF Used
<1>6. Carried = {}
  BY <1>2, <1>5 DEF Carried
<1>7. Made
  BY <1>2, <1>6 DEF Made
<1>8. OneWriter
  BY DEF OneWriter
<1>9. InOrder
  BY <1>2 DEF InOrder, Queued
<1>10. \A t \in Ticks, i \in 1..MaxAudits : <<"audits", t, i>> \in Keys
  BY KeysIn
<1>11. RowsNumbered
  BY <1>10, EmptyType DEF RowsNumbered
<1>12. NumbersApart
  BY <1>6 DEF NumbersApart, Audits
<1>13. TablesWhole
  BY EmptyWhole DEF TablesWhole
<1>14. Progress /\ AllStored
  BY DEF Progress, AllStored
<1>15. Room
  BY <1>5, FS_EmptySet DEF Room
<1> QED
  BY <1>4, <1>7, <1>8, <1>9, <1>11, <1>12, <1>13, <1>14, <1>15 DEF IInv

LEMMA StepIInv == IInv /\ [Next]_vars => IInv'
<1> SUFFICES ASSUME IInv, [Next]_vars PROVE IInv'
  OBVIOUS
<1>1. Steps
  BY StepKinds DEF IInv
<1> QED
  BY <1>1, TypedStep, MadeStep, OneWriterStep, InOrderStep, RowsNumberedStep, NumbersApartStep,
     TablesWholeStep, ProgressStep, AllStoredStep, RoomStep DEF IInv

LEMMA Invariance == Spec => []IInv
  BY InitIInv, StepIInv, PTL DEF Spec

(* All components keep their types, for every backend, channel, batch and
   transaction, and whatever the bounds of runs, ticks, errors and timeouts:
   the counters of the loop of the SQLite writer and of sendBatch stay in their
   ranges, and a post always finds its place. *)
THEOREM IndexTypeCorrect == Spec => []TypeOK
<1>1. IInv => TypeOK
  BY DEF IInv, Typed
<1> QED
  BY <1>1, Invariance, PTL

(* A tick of the SQLite tables has all its actions and a snapshot all its
   agents, and both are of one run, for transactions of any size and through
   errors in a row, rollbacks and restarts (SQLiteIndex.loop). *)
THEOREM StoredWhole == Spec => []RequestsWhole
<1>1. IInv => RequestsWhole
  <2> SUFFICES ASSUME IInv, backend = "sqlite", NEW t \in Ticks,
                      NEW part \in {<<"ticks", "actions">>, <<"worlds", "agents">>}
               PROVE  LET head == db[<<part[1], t, 0>>]
                      IN  head # None => \A i \in 1..head.says : db[<<part[2], t, i>>] = head
    BY DEF RequestsWhole
  <2>1. WholeAt(db, "ticks", "actions", t) /\ WholeAt(db, "worlds", "agents", t)
    BY DEF IInv, TablesWhole, Whole
  <2>2. CASE part = <<"ticks", "actions">>
    <3>1. part[1] = "ticks" /\ part[2] = "actions"
      BY <2>2
    <3> QED
      BY <2>1, <3>1 DEF WholeAt
  <2>3. CASE part = <<"worlds", "agents">>
    <3>1. part[1] = "worlds" /\ part[2] = "agents"
      BY <2>3
    <3> QED
      BY <2>1, <3>1 DEF WholeAt
  <2> QED
    BY <2>2, <2>3
<1> QED
  BY <1>1, Invariance, PTL

(* No audit of a run takes the row of another one of that run: with SQLite a
   number is not given twice although requests are dropped and transactions
   rolled back; with D1 a number names one request, however often it is posted
   (nextAuditSeq, auditSeq). *)
THEOREM OwnNumbers == Spec => AuditsApart
<1>1. IInv /\ [Next]_vars =>
        [\A t \in Ticks, i \in 1..MaxAudits :
           LET k == <<"audits", t, i>>
           IN  db[k] # None /\ db'[k] # None /\ db[k].run = db'[k].run => db[k] = db'[k]]_vars
  BY StepKinds, AuditsApartStep DEF IInv
<1> QED
  BY <1>1, Invariance, PTL DEF Spec, AuditsApart

(* What the worker acknowledged is in the tables, the agents of snapshots left
   out, whose rows a repeated post deletes and may fail to insert: of the post
   that is waited for, the events that are gone were applied, and no other post
   takes a row away (sendBatch, handleIndexIngest). *)
THEOREM AckedStored == Spec => []AckedRows
<1>1. IInv => AckedRows
  <2> SUFFICES ASSUME IInv, NEW r \in acked, NEW i \in 1..Len(Rows(r, r.seq)),
                      Rows(r, r.seq)[i].key[1] # "agents"
               PROVE  db[Rows(r, r.seq)[i].key] # None
    BY DEF AckedRows
  <2>1. r \in Request /\ Stored(r)
    BY DEF IInv, Typed, TypeOK, AllStored
  <2>2. Rows(r, r.seq)[i].key \in KeysOf(r, r.seq)
    BY <2>1, RowsSay DEF Writes
  <2> QED
    BY <2>1, <2>2 DEF Stored
<1> QED
  BY <1>1, Invariance, PTL
=============================================================================
