----------------------- MODULE BridgeSessions_proofs -----------------------
(***************************************************************************)
(* Proofs about the two ends of the way of an agent into a world: the      *)
(* sessions of the bridge it comes through (BridgeSessions), for any keys, *)
(* calls and bounds, and, in the second half, the work it does in a step   *)
(* of the world (WorkTick), for any agents, requests, layouts, recipes,    *)
(* blueprints and bounds: no item is made or lost but for the makings and  *)
(* losses the model names, what contracts have reserved is there, and the  *)
(* index of the entities is exact.                                         *)
(***************************************************************************)
EXTENDS BridgeSessions, WorkTick, SequenceTheorems, FiniteSetTheorems, WellFoundedInduction, TLAPS

-----------------------------------------------------------------------------
(* The inductive invariant                                                 *)

\* A goroutine of a session that has a connection.
Connected(s) == session[s].run \in {"dialled", "reading", "reporting"}

\* A session that runs is the one in the pool, and the recency list has all
\* that are pooled.
PoolState ==
  /\ \A s \in Sessions : Running(s) => session[s].key \in Keys /\ pool[session[s].key] = s
  /\ \A k \in Keys : pool[k] # None => \E i \in 1..Len(recency) : recency[i] = pool[k]
  /\ \A i \in 1..Len(recency) : session[recency[i]].run # "new"

\* What a call knows, by where it is.  An eviction keeps the mutex, so that its
\* key stays free.
CallState ==
  \A p \in Calls :
    /\ call[p].pc \in {"wants", "evicts"} => call[p].key \in Keys
    /\ call[p].pc \in {"has", "evicts"} => call[p].session \in Sessions
    /\ call[p].pc \in {"idle", "wants"} => call[p].session = None
    /\ call[p].pc = "evicts" => mu = p /\ pool[call[p].key] = None

\* The connection of a session is its own.
WireOfSession ==
  \A s \in Sessions :
    /\ Connected(s) => session[s].conn \in Conns /\ conn[session[s].conn].stage # "new"
    /\ session[s].registered => Connected(s)
    /\ session[s].run = "reporting"
         => session[s].token = session[s].conn /\ conn[session[s].conn].stage = "used"
    /\ \A r \in Sessions :
         Connected(s) /\ Connected(r) /\ session[s].conn = session[r].conn => r = s

\* An open connection has a session that reads it.
WireHasSession ==
  \A c \in Conns :
    /\ conn[c].stage \in {"hello", "welcome"} => conn[c].key \in Keys
    /\ conn[c].stage = "welcome" => conn[c].open
    /\ conn[c].open =>
         \E s \in Sessions :
           /\ Connected(s) /\ session[s].conn = c
           /\ conn[c].stage \in {"hello", "welcome"} => session[s].key = conn[c].key

Answered(c) == conn[c].stage \in {"welcome", "used"}

\* Key k has the token t, or will read it from the wire.
Holds(k, t) ==
  \/ saved[k] = t
  \/ \E s \in Sessions : session[s].key = k /\ session[s].token = t
  \/ \E c \in Conns : conn[c].stage = "hello" /\ conn[c].key = k /\ conn[c].token = t
  \/ conn[t].stage = "welcome" /\ conn[t].key = k

\* The tokens of the server: a valid one is in the hands of the key that plays
\* its agent, and of no other.
TokenState ==
  /\ \A a, b \in AgentIds : current[a] # None /\ current[a] = current[b] => a = b
  /\ \A a \in AgentIds : current[a] # None => Answered(current[a])
  /\ \A k \in Keys : \A a \in met[k] : Answered(a)
  /\ \A k, l \in Keys : k # l => met[k] \cap met[l] = {}
  /\ \A k \in Keys, t \in Tokens :
       Holds(k, t) => Answered(t) /\ \A a \in AgentIds : current[a] = t => a \in met[k]

\* The WELCOME of the session is on the wire, or read and not yet reported.
InFlight(s) ==
  \/ session[s].run = "reporting"
  \/ Connected(s) /\ conn[session[s].conn].stage = "welcome"

\* The server resumes the agent of key k with t; None if there is no agent.
Expects(k, t) ==
  /\ t = None <=> met[k] = {}
  /\ \A a \in met[k] : current[a] = t

\* A key none of whose WELCOMEs was missed says HELLO with the token of its agent.
ChainOf(k) ==
  /\ \A s \in Sessions : Running(s) /\ session[s].key = k =>
       IF InFlight(s) THEN Expects(k, session[s].conn) ELSE session[s].token = saved[k]
  /\ (\A s \in Sessions : Running(s) /\ session[s].key = k => ~InFlight(s))
       => Expects(k, saved[k])
  /\ \A c \in Conns :
       conn[c].stage = "hello" /\ conn[c].open /\ conn[c].key = k => conn[c].token = saved[k]

Chain == \A k \in Keys \ missed : ChainOf(k)

IInv ==
  /\ TypeOK /\ PoolState /\ CallState
  /\ WireOfSession /\ WireHasSession /\ TokenState /\ Chain
-----------------------------------------------------------------------------
(* The recency list                                                        *)

LEMMA Part ==
  ASSUME NEW S, NEW q \in Seq(S), NEW a \in Nat, NEW b \in Nat,
         1 <= a, a <= b + 1, b <= Len(q)
  PROVE  /\ SubSeq(q, a, b) \in Seq(S) /\ Len(SubSeq(q, a, b)) = b - a + 1
         /\ \A i \in 1..b - a + 1 : SubSeq(q, a, b)[i] = q[a + i - 1]
<1>1. \A i \in a..b : q[i] \in S
  BY LenProperties, ElementOfSeq
<1>2. /\ SubSeq(q, a, b) \in Seq(S)
      /\ Len(SubSeq(q, a, b)) = IF a <= b THEN b - a + 1 ELSE 0
      /\ \A i \in 1..b - a + 1 : SubSeq(q, a, b)[i] = q[a + i - 1]
  <2>1. a \in Int /\ b \in Int
    OBVIOUS
  <2> QED
    BY <1>1, <2>1, SubSeqProperties
<1> QED
  BY <1>2

LEMMA Removed ==
  ASSUME NEW S, NEW q \in Seq(S), NEW k \in 1..Len(q)
  PROVE  /\ RemoveAt(q, k) \in Seq(S) /\ Len(RemoveAt(q, k)) = Len(q) - 1
         /\ \A i \in 1..Len(q) - 1 :
              RemoveAt(q, k)[i] = IF i < k THEN q[i] ELSE q[i + 1]
<1> DEFINE n == Len(q)
           left == SubSeq(q, 1, k - 1)
           right == SubSeq(q, k + 1, n)
<1>0. n \in Nat /\ k \in Nat /\ 1 <= k /\ k <= n /\ k - 1 \in Nat /\ k + 1 \in Nat
  BY LenProperties
<1>1. /\ left \in Seq(S) /\ Len(left) = k - 1
      /\ \A i \in 1..k - 1 : left[i] = q[i]
  <2>1. 1 <= k - 1 + 1 /\ k - 1 <= n
    BY <1>0
  <2>2. /\ left \in Seq(S) /\ Len(left) = k - 1 - 1 + 1
        /\ \A i \in 1..k - 1 - 1 + 1 : left[i] = q[1 + i - 1]
    BY <1>0, <2>1, Part
  <2> QED
    BY <1>0, <2>2
<1>2. /\ right \in Seq(S) /\ Len(right) = n - k
      /\ \A i \in 1..n - k : right[i] = q[k + i]
  <2>1. 1 <= k + 1 /\ k + 1 <= n + 1
    BY <1>0
  <2>2. /\ right \in Seq(S) /\ Len(right) = n - (k + 1) + 1
        /\ \A i \in 1..n - (k + 1) + 1 : right[i] = q[k + 1 + i - 1]
    BY <1>0, <2>1, Part
  <2>3. n - (k + 1) + 1 = n - k /\ \A i \in 1..n - k : k + 1 + i - 1 = k + i
    BY <1>0
  <2> QED
    BY <2>2, <2>3
<1> HIDE DEF left, right
<1>3. /\ left \o right \in Seq(S) /\ Len(left \o right) = Len(left) + Len(right)
      /\ \A i \in 1..Len(left) + Len(right) :
           (left \o right)[i] = IF i <= Len(left) THEN left[i] ELSE right[i - Len(left)]
  BY <1>1, <1>2, ConcatProperties
<1>4. ASSUME NEW i \in 1..n - 1
      PROVE  (left \o right)[i] = IF i < k THEN q[i] ELSE q[i + 1]
  <2>1. i \in 1..Len(left) + Len(right)
    BY <1>0, <1>1, <1>2
  <2>2. CASE i < k
    BY <1>0, <1>1, <1>3, <2>1, <2>2
  <2>3. CASE ~(i < k)
    <3>1. i - (k - 1) \in 1..n - k /\ k + (i - (k - 1)) = i + 1
      BY <1>0, <2>3
    <3>2. (left \o right)[i] = right[i - (k - 1)]
      BY <1>0, <1>1, <1>3, <2>1, <2>3
    <3> QED
      BY <1>2, <2>3, <3>1, <3>2
  <2> QED
    BY <2>2, <2>3
<1>5. RemoveAt(q, k) = left \o right
  BY DEF RemoveAt, left, right
<1>6. Len(left) + Len(right) = n - 1
  BY <1>0, <1>1, <1>2
<1> QED
  BY <1>3, <1>4, <1>5, <1>6

\* w is the list q without s.
Without(q, s, w) ==
  \/ w = q /\ \A j \in 1..Len(q) : q[j] # s
  \/ \E k \in 1..Len(q) : q[k] = s /\ w = RemoveAt(q, k)

LEMMA Loses ==
  ASSUME NEW S, NEW q \in Seq(S), IsInjective(q), NEW s, NEW w, Without(q, s, w)
  PROVE  /\ w \in Seq(S) /\ IsInjective(w)
         /\ \A i \in 1..Len(w) : \E j \in 1..Len(q) : w[i] = q[j] /\ q[j] # s
         /\ \A j \in 1..Len(q) : q[j] # s => \E i \in 1..Len(w) : w[i] = q[j]
<1> DEFINE n == Len(q)
<1>0. n \in Nat /\ DOMAIN q = 1..n /\ \A i \in 1..n : q[i] \in S
  BY LenProperties, ElementOfSeq
<1>1. CASE w = q /\ \A j \in 1..n : q[j] # s
  BY <1>0, <1>1
<1>2. CASE \E k \in 1..n : q[k] = s /\ w = RemoveAt(q, k)
  <2>1. PICK k \in 1..n : q[k] = s /\ w = RemoveAt(q, k)
    BY <1>2
  <2>5. /\ w \in Seq(S) /\ Len(w) = n - 1 /\ DOMAIN w = 1..n - 1
        /\ \A i \in 1..n - 1 : w[i] = IF i < k THEN q[i] ELSE q[i + 1]
    BY <2>1, Removed, LenProperties
  <2>6. \A i \in 1..n, j \in 1..n : q[i] = q[j] => i = j
    BY <1>0 DEF IsInjective
  <2>7. IsInjective(w)
    <3> SUFFICES ASSUME NEW i \in 1..n - 1, NEW j \in 1..n - 1, w[i] = w[j] PROVE i = j
      BY <2>5 DEF IsInjective
    <3>1. i \in 1..n /\ j \in 1..n /\ i + 1 \in 1..n /\ j + 1 \in 1..n
      BY <1>0
    <3> QED
      BY <1>0, <2>1, <2>5, <2>6, <3>1
  <2>8. ASSUME NEW i \in 1..n - 1
        PROVE  \E j \in 1..n : w[i] = q[j] /\ q[j] # s
    <3>1. i \in 1..n /\ i + 1 \in 1..n
      BY <1>0
    <3>2. CASE i < k
      BY <2>1, <2>5, <2>6, <3>1, <3>2
    <3>3. CASE ~(i < k)
      <4>1. i + 1 # k
        BY <1>0, <2>1, <3>3
      <4> QED
        BY <2>1, <2>5, <2>6, <3>1, <3>3, <4>1
    <3> QED
      BY <3>2, <3>3
  <2>9. ASSUME NEW j \in 1..n, q[j] # s
        PROVE  \E i \in 1..n - 1 : w[i] = q[j]
    <3>1. CASE j < k
      <4>1. j \in 1..n - 1
        BY <1>0, <2>1, <3>1
      <4> QED
        BY <2>5, <3>1, <4>1
    <3>2. CASE j > k
      <4>1. j - 1 \in 1..n - 1 /\ ~(j - 1 < k) /\ (j - 1) + 1 = j
        BY <1>0, <2>1, <3>2
      <4> QED
        BY <2>5, <4>1
    <3> QED
      BY <1>0, <2>1, <2>9, <3>1, <3>2
  <2> QED
    BY <2>5, <2>7, <2>8, <2>9
<1> QED
  BY <1>1, <1>2 DEF Without


\* The list z has r, and of the list q all but s and nothing else.
Moved(q, s, r, z) ==
  /\ \A i \in 1..Len(z) : z[i] = r \/ \E j \in 1..Len(q) : z[i] = q[j]
  /\ \E i \in 1..Len(z) : z[i] = r
  /\ \A j \in 1..Len(q) : q[j] # s => \E i \in 1..Len(z) : z[i] = q[j]

LEMMA Moves ==
  ASSUME NEW S, NEW q \in Seq(S), IsInjective(q), NEW s, NEW w, Without(q, s, w),
         NEW r \in S, r = s \/ \A i \in 1..Len(q) : q[i] # r,
         NEW z, z = Append(w, r)
  PROVE  z \in Seq(S) /\ IsInjective(z) /\ Moved(q, s, r, z)
<1> DEFINE n == Len(w)
<1>1. /\ w \in Seq(S) /\ IsInjective(w)
      /\ \A i \in 1..n : \E j \in 1..Len(q) : w[i] = q[j] /\ q[j] # s
      /\ \A j \in 1..Len(q) : q[j] # s => \E i \in 1..n : w[i] = q[j]
  BY Loses
<1>2. /\ n \in Nat /\ DOMAIN w = 1..n /\ z \in Seq(S) /\ Len(z) = n + 1
      /\ \A i \in 1..n : z[i] = w[i]
      /\ z[n + 1] = r /\ DOMAIN z = 1..n + 1
  <2>1. z \in Seq(S) /\ Len(z) = n + 1
    BY <1>1, AppendProperties
  <2> QED
    BY <1>1, <2>1, AppendProperties, LenProperties
<1> HIDE DEF n
<1>3. \A i \in 1..n : w[i] # r
  BY <1>1
<1>4. IsInjective(z)
  <2> SUFFICES ASSUME NEW i \in 1..n + 1, NEW j \in 1..n + 1, z[i] = z[j] PROVE i = j
    BY <1>2 DEF IsInjective
  <2>0. z[i] = z[j]
    OBVIOUS
  <2>1. (i \in 1..n \/ i = n + 1) /\ (j \in 1..n \/ j = n + 1)
    BY <1>2
  <2> QED
    <3>1. \A a, b \in 1..n : w[a] = w[b] => a = b
      BY <1>1, <1>2 DEF IsInjective
    <3>2. CASE i \in 1..n /\ j \in 1..n
      BY <1>2, <2>0, <3>1, <3>2
    <3>3. CASE i = n + 1 \/ j = n + 1
      BY <1>2, <1>3, <2>0, <2>1, <3>3
    <3> QED
      BY <2>1, <3>2, <3>3
<1>5. \A i \in 1..n + 1 : i \in 1..n \/ i = n + 1
  BY <1>2
<1>6. n + 1 \in 1..n + 1 /\ \A i \in 1..n : i \in 1..n + 1
  BY <1>2
<1>7. \A i \in 1..Len(z) : z[i] = r \/ \E j \in 1..Len(q) : z[i] = q[j]
  <2> SUFFICES ASSUME NEW i \in 1..n + 1
               PROVE  z[i] = r \/ \E j \in 1..Len(q) : z[i] = q[j]
    BY <1>2
  <2>1. CASE i \in 1..n
    <3>1. PICK j \in 1..Len(q) : w[i] = q[j]
      BY <1>1, <2>1
    <3> QED
      BY <1>2, <2>1, <3>1
  <2>2. CASE i = n + 1
    BY <1>2, <2>2
  <2> QED
    BY <1>5, <2>1, <2>2
<1>8. ASSUME NEW j \in 1..Len(q), q[j] # s
      PROVE  \E i \in 1..Len(z) : z[i] = q[j]
  <2>1. PICK i \in 1..n : w[i] = q[j]
    BY <1>1, <1>8
  <2>2. i \in 1..Len(z) /\ z[i] = w[i]
    BY <1>2, <1>6
  <2> QED
    BY <2>1, <2>2
<1>9. \E i \in 1..Len(z) : z[i] = r
  BY <1>2, <1>6
<1> QED
  BY <1>2, <1>4, <1>7, <1>8, <1>9 DEF Moved

LEMMA IsWithout ==
  ASSUME recency \in Seq(Sessions), NEW s, NEW w, w = RecencyWithout(s)
  PROVE  Without(recency, s, w)
<1>1. DOMAIN recency = 1..Len(recency)
  BY LenProperties
<1>2. CASE ~Contains(recency, s)
  BY <1>1, <1>2 DEF RecencyWithout, Contains, Without
<1>3. CASE Contains(recency, s)
  <2> DEFINE k == CHOOSE i \in DOMAIN recency : recency[i] = s
  <2>1. k \in 1..Len(recency) /\ recency[k] = s
    BY <1>1, <1>3 DEF Contains
  <2>2. w = RemoveAt(recency, k)
    BY <1>3 DEF RecencyWithout
  <2> QED
    BY <2>1, <2>2 DEF Without
<1> QED
  BY <1>2, <1>3
-----------------------------------------------------------------------------
(* Records                                                                 *)

CallStates ==
  [pc : {"idle", "wants", "has", "evicts", "closes"},
   key : Keys \cup {None}, session : Sessions \cup {None}, rest : SUBSET Sessions]

LEMMA Typed ==
  ASSUME TypeOK
  PROVE  /\ \A s \in Sessions : session[s] \in SessionStates
         /\ \A c \in Conns : conn[c] \in ConnStates
         /\ \A p \in Calls : call[p] \in CallStates
         /\ Sessions \subseteq Nat /\ Conns \subseteq Nat
         /\ None \notin Keys /\ None \notin Sessions /\ None \notin Conns
         /\ None \notin Calls
<1>1. Sessions \subseteq Nat /\ Conns \subseteq Nat
  BY BoundsAssumption DEF Sessions, Conns
<1> QED
  BY <1>1, NoneAssumption DEF TypeOK, CallStates

LEMMA UsedType ==
  ASSUME NEW b \in BOOLEAN
  PROVE  /\ Used(b) \in ConnStates
         /\ Used(b).stage = "used" /\ Used(b).open = b
         /\ Used(b).key = None /\ Used(b).token = None
  BY DEF Used, ConnStates

LEMMA DeadType ==
  /\ Fresh \in SessionStates /\ Dead \in SessionStates
  /\ Dead.run = "done" /\ Dead.key = None /\ Dead.stop = FALSE /\ Dead.conn = None
  /\ Dead.registered = FALSE /\ Dead.token = None
  BY DEF Fresh, Dead, SessionStates

\* Disconnect and the first half of Close leave a session its connection, its
\* token and its goroutine.
LEMMA StoppedType ==
  ASSUME NEW r \in SessionStates
  PROVE  \A q \in {Stopped(r), Disconnected(r)} :
           /\ q \in SessionStates
           /\ q.run = r.run /\ q.key = r.key /\ q.conn = r.conn /\ q.token = r.token
           /\ q.registered = FALSE
<1>1. /\ Disconnected(r) \in SessionStates
      /\ Disconnected(r).run = r.run /\ Disconnected(r).key = r.key
      /\ Disconnected(r).conn = r.conn /\ Disconnected(r).token = r.token
      /\ Disconnected(r).registered = FALSE
  BY DEF Disconnected, SessionStates
<1>2. ASSUME NEW q \in SessionStates
      PROVE  /\ [q EXCEPT !.stop = TRUE] \in SessionStates
             /\ [q EXCEPT !.stop = TRUE].run = q.run /\ [q EXCEPT !.stop = TRUE].key = q.key
             /\ [q EXCEPT !.stop = TRUE].conn = q.conn
             /\ [q EXCEPT !.stop = TRUE].token = q.token
             /\ [q EXCEPT !.stop = TRUE].registered = q.registered
  BY DEF SessionStates
<1>3. PICK d \in SessionStates : d = Disconnected(r)
  BY <1>1
<1>4. Stopped(r) = [d EXCEPT !.stop = TRUE]
  BY <1>3 DEF Stopped
<1>5. /\ Stopped(r) \in SessionStates
      /\ Stopped(r).run = d.run /\ Stopped(r).key = d.key /\ Stopped(r).conn = d.conn
      /\ Stopped(r).token = d.token /\ Stopped(r).registered = d.registered
  BY <1>2, <1>4, Zenon
<1>6. /\ d.run = r.run /\ d.key = r.key /\ d.conn = r.conn /\ d.token = r.token
      /\ d.registered = FALSE
  BY <1>1, <1>3, Zenon
<1>7. /\ Stopped(r) \in SessionStates
      /\ Stopped(r).run = r.run /\ Stopped(r).key = r.key /\ Stopped(r).conn = r.conn
      /\ Stopped(r).token = r.token /\ Stopped(r).registered = FALSE
  BY <1>5, <1>6, Zenon
<1> QED
  BY <1>1, <1>7, Zenon

LEMMA ClosingEffect ==
  ASSUME TypeOK, NEW C \in SUBSET Conns, conn' = Closing(C)
  PROVE  /\ conn' \in [Conns -> ConnStates]
         /\ \A c \in Conns \ C : conn'[c] = conn[c]
         /\ \A c \in C : ~conn'[c].open
         /\ \A c \in C : conn[c].stage = "hello" =>
              /\ conn'[c].stage = "hello"
              /\ conn'[c].key = conn[c].key /\ conn'[c].token = conn[c].token
         /\ \A c \in C : conn[c].stage # "hello" => conn'[c].stage = "used"
<1>1. \A c \in Conns : conn[c] \in ConnStates
  BY Typed
<1>2. /\ Used(FALSE) \in ConnStates
      /\ Used(FALSE).stage = "used" /\ Used(FALSE).open = FALSE
  BY UsedType
<1>3. ASSUME NEW c \in Conns
      PROVE  /\ [conn[c] EXCEPT !.open = FALSE] \in ConnStates
             /\ [conn[c] EXCEPT !.open = FALSE].open = FALSE
             /\ [conn[c] EXCEPT !.open = FALSE].stage = conn[c].stage
             /\ [conn[c] EXCEPT !.open = FALSE].key = conn[c].key
             /\ [conn[c] EXCEPT !.open = FALSE].token = conn[c].token
  BY <1>1 DEF ConnStates
<1>4. ASSUME NEW c \in Conns
      PROVE  /\ c \notin C => conn'[c] = conn[c]
             /\ c \in C /\ conn[c].stage = "hello" => conn'[c] = [conn[c] EXCEPT !.open = FALSE]
             /\ c \in C /\ conn[c].stage # "hello" => conn'[c] = Used(FALSE)
  BY DEF Closing
<1>5. conn' \in [Conns -> ConnStates]
  <2>1. \A c \in Conns : conn'[c] \in ConnStates
    BY <1>1, <1>2, <1>3, <1>4
  <2>2. conn' = [c \in Conns |-> conn'[c]]
    BY DEF Closing
  <2> QED
    BY <2>1, <2>2
<1> QED
  BY <1>2, <1>3, <1>4, <1>5

LEMMA RegisteredConns ==
  ASSUME TypeOK, WireOfSession, NEW s \in Sessions
  PROVE  /\ Registered(s) \in SUBSET Conns
         /\ \A c \in Registered(s) : Connected(s) /\ session[s].conn = c
<1>1. session[s].registered => Connected(s) /\ session[s].conn \in Conns
  BY DEF WireOfSession
<1> QED
  BY <1>1 DEF Registered

LEMMA UnreadKeys ==
  ASSUME WireHasSession, NEW C \in SUBSET Conns
  PROVE  /\ Unread(C) \in SUBSET Keys
         /\ \A c \in C : conn[c].stage = "welcome" => conn[c].key \in Unread(C)
  BY DEF Unread, WireHasSession

\* A session that is asked to stop ends where it would have read on.
LEMMA ReadOnEffect ==
  ASSUME TypeOK, WireOfSession, NEW s \in Sessions, Connected(s),
         NEW registered \in BOOLEAN, ReadOn(s, registered)
  PROVE  \/ /\ session[s].stop
            /\ session' = [session EXCEPT ![s] = Dead]
            /\ {session[s].conn} \in SUBSET Conns
            /\ conn' = Closing({session[s].conn})
         \/ /\ ~session[s].stop
            /\ \E r \in SessionStates :
                 /\ session' = [session EXCEPT ![s] = r]
                 /\ r.run = "reading" /\ r.registered = registered
                 /\ r.key = session[s].key /\ r.conn = session[s].conn
                 /\ r.token = session[s].token
            /\ UNCHANGED conn
<1>1. session[s] \in SessionStates /\ session[s].conn \in Conns
  BY Typed DEF WireOfSession
<1> DEFINE r == [session[s] EXCEPT !.run = "reading", !.registered = registered]
<1>2. /\ r \in SessionStates /\ r.run = "reading" /\ r.registered = registered
      /\ r.key = session[s].key /\ r.conn = session[s].conn
      /\ r.token = session[s].token
  BY <1>1 DEF SessionStates
<1>3. CASE session[s].stop
  BY <1>1, <1>3 DEF ReadOn, Goto
<1>4. CASE ~session[s].stop
  <2>1. session' = [session EXCEPT ![s] = r] /\ UNCHANGED conn
    BY <1>4 DEF ReadOn, Goto
  <2> QED
    BY <1>2, <1>4, <2>1
<1> QED
  BY <1>3, <1>4

\* What is true of the new session s of call p, and of the pool it enters.
Enters(p, k, others, s) ==
  /\ session[s].run = "new"
  /\ pool' = [others EXCEPT ![k] = s]
  /\ \E r \in SessionStates :
       /\ session' = [session EXCEPT ![s] = r]
       /\ r.run = "top" /\ r.key = k /\ r.token = saved[k]
       /\ r.registered = FALSE
  /\ recency' \in Seq(Sessions) /\ IsInjective(recency')
  /\ Moved(recency, call[p].session, s, recency')
  /\ \E r \in CallStates :
       /\ call' = [call EXCEPT ![p] = r]
       /\ r.pc = "has" /\ r.session = s /\ r.key = call[p].key

\* A new session takes the place in the pool.
LEMMA CreateEffect ==
  ASSUME TypeOK, PoolState, NEW p \in Calls, NEW k \in Keys,
         NEW others \in [Keys -> Sessions \cup {None}], Create(p, k, others)
  PROVE  \E s \in Sessions : Enters(p, k, others, s)
<1>1. PICK s \in Sessions :
        /\ session[s].run = "new"
        /\ pool' = [others EXCEPT ![k] = s]
        /\ session' = [session EXCEPT ![s] = [Fresh EXCEPT
                         !.run = "top", !.key = k, !.token = TokenToResume(k)]]
        /\ recency' = Append(RecencyWithout(call[p].session), s)
        /\ Has(p, s)
  BY DEF Create
<1> DEFINE new == [Fresh EXCEPT !.run = "top", !.key = k, !.token = TokenToResume(k)]
           has == [call[p] EXCEPT !.pc = "has", !.session = s]
<1>2. /\ new \in SessionStates /\ new.run = "top" /\ new.key = k /\ new.token = saved[k]
      /\ new.registered = FALSE
  <2>1. saved[k] \in Tokens \cup {None}
    BY DEF TypeOK
  <2> QED
    BY <2>1 DEF Fresh, SessionStates, TokenToResume
<1>3. has \in CallStates /\ has.pc = "has" /\ has.session = s /\ has.key = call[p].key
  <2>1. call[p] \in CallStates
    BY Typed
  <2> QED
    BY <2>1 DEF CallStates
<1>4. call' = [call EXCEPT ![p] = has] /\ session' = [session EXCEPT ![s] = new]
  BY <1>1 DEF Has
<1> HIDE DEF new, has
<1>5. recency \in Seq(Sessions) /\ IsInjective(recency)
  BY DEF TypeOK
<1>6. \A i \in 1..Len(recency) : recency[i] # s
  BY <1>1 DEF PoolState
<1>7. recency' = Append(RecencyWithout(call[p].session), s)
  BY <1>1
<1>8. /\ recency' \in Seq(Sessions) /\ IsInjective(recency')
      /\ Moved(recency, call[p].session, s, recency')
  <2>1. PICK used, z, w :
          used = call[p].session /\ z = recency' /\ w = RecencyWithout(call[p].session)
    OBVIOUS
  <2>2. w = RecencyWithout(used)
    BY <2>1 DEF RecencyWithout
  <2>3. Without(recency, used, w)
    BY <1>5, <2>2, IsWithout
  <2>4. z = Append(w, s)
    BY <1>7, <2>1
  <2>5. z \in Seq(Sessions) /\ IsInjective(z) /\ Moved(recency, used, s, z)
    BY <1>5, <1>6, <2>3, <2>4, Moves
  <2> QED
    BY <2>1, <2>5
<1>9. \E r \in SessionStates :
        /\ session' = [session EXCEPT ![s] = r]
        /\ r.run = "top" /\ r.key = k /\ r.token = saved[k]
        /\ r.registered = FALSE
  BY <1>2, <1>4
<1>10. \E r \in CallStates :
         /\ call' = [call EXCEPT ![p] = r]
         /\ r.pc = "has" /\ r.session = s /\ r.key = call[p].key
  BY <1>3, <1>4
<1>11. session[s].run = "new" /\ pool' = [others EXCEPT ![k] = s]
  BY <1>1
<1>12. Enters(p, k, others, s)
  BY <1>8, <1>9, <1>10, <1>11 DEF Enters
<1> QED
  BY <1>12

\* A call that returns, goes on or waits.
LEMMA CallMoves ==
  ASSUME TypeOK, NEW p \in Calls
  PROVE  /\ Idle \in CallStates /\ Idle.pc = "idle" /\ Idle.session = None
         /\ \A s \in Sessions :
              LET n == [call[p] EXCEPT !.pc = "has", !.session = s] IN
              n \in CallStates /\ n.pc = "has" /\ n.session = s
         /\ \A k \in Keys :
              LET n == [call[p] EXCEPT !.pc = "wants", !.key = k] IN
              n \in CallStates /\ n.pc = "wants" /\ n.key = k /\ n.session = call[p].session
         /\ \A S \in SUBSET Sessions :
              LET n == [Idle EXCEPT !.pc = "closes", !.rest = S] IN
              n \in CallStates /\ n.pc = "closes"
<1>1. call[p] \in CallStates
  BY Typed
<1>2. Idle \in CallStates /\ Idle.pc = "idle" /\ Idle.session = None
  BY DEF Idle, CallStates
<1>3. ASSUME NEW s \in Sessions
      PROVE  LET n == [call[p] EXCEPT !.pc = "has", !.session = s] IN
             n \in CallStates /\ n.pc = "has" /\ n.session = s
  BY <1>1 DEF CallStates
<1>4. ASSUME NEW k \in Keys
      PROVE  LET n == [call[p] EXCEPT !.pc = "wants", !.key = k] IN
             n \in CallStates /\ n.pc = "wants" /\ n.key = k /\ n.session = call[p].session
  BY <1>1 DEF CallStates
<1>5. ASSUME NEW S \in SUBSET Sessions
      PROVE  LET n == [Idle EXCEPT !.pc = "closes", !.rest = S] IN
             n \in CallStates /\ n.pc = "closes"
  BY <1>2 DEF CallStates
<1> QED
  BY <1>2, <1>3, <1>4, <1>5

\* When the pool is full there is a session to evict.
LEMMA FullPool ==
  ASSUME TypeOK, PoolState, Full
  PROVE  /\ recency # <<>> /\ Head(recency) \in Sessions
         /\ \E i \in 1..Len(recency) : recency[i] = Head(recency)
<1>1. Pooled # {}
  <2>1. Cardinality({}) = 0
    BY FS_EmptySet
  <2>2. MaxSessions \in Nat /\ MaxSessions # 0
    BY BoundsAssumption
  <2> SUFFICES ASSUME Pooled = {} PROVE FALSE
    OBVIOUS
  <2>3. 0 >= MaxSessions
    BY <2>1 DEF Full
  <2> QED
    BY <2>2, <2>3
<1>2. PICK i \in 1..Len(recency) : TRUE
  BY <1>1 DEF Pooled, PoolState
<1>3. recency # <<>> /\ recency \in Seq(Sessions)
  BY <1>2, EmptySeq DEF TypeOK
<1>4. Head(recency) = recency[1] /\ 1 \in 1..Len(recency) /\ Head(recency) \in Sessions
  BY <1>3, HeadTailProperties, EmptySeq
<1> QED
  BY <1>3, <1>4

LEMMA InitIInv == Init => IInv
<1> SUFFICES ASSUME Init PROVE IInv
  OBVIOUS
<1>1. TypeOK
  <2>1. recency \in Seq(Sessions) /\ IsInjective(recency)
    BY EmptySeq DEF Init, IsInjective
  <2>2. Fresh \in SessionStates /\ Idle \in CallStates
    BY DEF Fresh, SessionStates, Idle, CallStates
  <2>3. [stage |-> "new", open |-> FALSE, key |-> None, token |-> None] \in ConnStates
    BY DEF ConnStates
  <2>4. session \in [Sessions -> SessionStates] /\ conn \in [Conns -> ConnStates]
    BY <2>2, <2>3 DEF Init
  <2>5. call \in [Calls -> CallStates]
    BY <2>2 DEF Init
  <2>6. crashes \in 0..MaxCrashes
    BY BoundsAssumption DEF Init
  <2>7. /\ mu \in Calls \cup {None} /\ closed \in BOOLEAN
        /\ pool \in [Keys -> Sessions \cup {None}] /\ saved \in [Keys -> Tokens \cup {None}]
        /\ current \in [AgentIds -> Tokens \cup {None}]
        /\ met \in [Keys -> SUBSET AgentIds] /\ missed \subseteq Keys
    BY DEF Init
  <2> QED
    BY <2>1, <2>4, <2>5, <2>6, <2>7 DEF TypeOK, CallStates
<1>2. Len(recency) = 0 /\ \A s \in Sessions : ~Running(s) /\ ~Connected(s)
  BY EmptySeq DEF Init, Fresh, Running, Connected
<1>3. PoolState
  BY <1>2 DEF Init, PoolState
<1>4. CallState
  BY DEF Init, CallState, Idle
<1>5. WireOfSession /\ WireHasSession
  BY <1>2 DEF Init, WireOfSession, WireHasSession, Fresh
<1>6. TokenState
  <2>1. ASSUME NEW k \in Keys, NEW t \in Tokens PROVE ~Holds(k, t)
    BY NoneAssumption DEF Init, Holds, Fresh, Tokens
  <2> QED
    BY <2>1 DEF Init, TokenState
<1>7. Chain
  BY <1>2 DEF Init, Chain, ChainOf, Expects
<1> QED
  BY <1>1, <1>3, <1>4, <1>5, <1>6, <1>7 DEF IInv

-----------------------------------------------------------------------------
(* What keeps the parts of the invariant                                   *)

LEMMA SessionGoes ==
  ASSUME TypeOK, NEW s \in Sessions, NEW r \in SessionStates,
         session' = [session EXCEPT ![s] = r]
  PROVE  /\ session' \in [Sessions -> SessionStates]
         /\ session'[s] = r
         /\ \A q \in Sessions : q # s => session'[q] = session[q]
<1>1. session \in [Sessions -> SessionStates]
  BY DEF TypeOK
<1> QED
  BY <1>1

\* No session starts, none changes its key, none is new again.
LEMMA PoolKept ==
  ASSUME PoolState, UNCHANGED <<pool, recency>>,
         \A s \in Sessions : Running(s)' => Running(s) /\ session'[s].key = session[s].key,
         \A s \in Sessions : session[s].run # "new" => session'[s].run # "new",
         recency \in Seq(Sessions)
  PROVE  PoolState'
<1>1. \A s \in Sessions : Running(s)' => session'[s].key \in Keys /\ pool'[session'[s].key] = s
  BY DEF PoolState, Running
<1>2. \A k \in Keys : pool'[k] # None => \E i \in 1..Len(recency') : recency'[i] = pool'[k]
  BY DEF PoolState
<1>3. \A i \in 1..Len(recency') : session'[recency'[i]].run # "new"
  <2>1. \A i \in 1..Len(recency) : recency[i] \in Sessions
    BY ElementOfSeq
  <2> QED
    BY <2>1 DEF PoolState
<1> QED
  BY <1>1, <1>2, <1>3 DEF PoolState

\* Connections come no nearer to the client's end of a handshake.
WiresKept ==
  \A c \in Conns :
    /\ conn'[c].open => conn[c].open
    /\ conn'[c].stage \in {"hello", "welcome"} =>
         conn[c].stage \in {"hello", "welcome"} /\ conn'[c].key = conn[c].key
    /\ conn'[c].stage = "welcome" => conn'[c].open
    /\ conn[c].stage # "new" => conn'[c].stage # "new"
    /\ conn[c].stage = "used" => conn'[c].stage = "used"

\* Sessions keep the connections that stay open.
ReadersKept ==
  \A s \in Sessions :
    /\ Connected(s)' => Connected(s) /\ session'[s].conn = session[s].conn
    /\ session'[s].registered => Connected(s)'
    /\ Connected(s) /\ conn'[session[s].conn].open =>
         Connected(s)' /\ session'[s].key = session[s].key
    /\ session'[s].run = "reporting" =>
         session'[s].token = session'[s].conn /\ conn'[session'[s].conn].stage = "used"

LEMMA WireKept ==
  ASSUME WireOfSession, WireHasSession, WiresKept, ReadersKept
  PROVE  WireOfSession' /\ WireHasSession'
<1>1. WireOfSession'
  <2>1. ASSUME NEW s \in Sessions
        PROVE  /\ Connected(s)' =>
                    session'[s].conn \in Conns /\ conn'[session'[s].conn].stage # "new"
               /\ session'[s].registered => Connected(s)'
               /\ session'[s].run = "reporting"
                    => /\ session'[s].token = session'[s].conn
                       /\ conn'[session'[s].conn].stage = "used"
    BY DEF WireOfSession, WiresKept, ReadersKept, Connected
  <2>2. ASSUME NEW s \in Sessions, NEW r \in Sessions,
               Connected(s)', Connected(r)', session'[s].conn = session'[r].conn
        PROVE  r = s
    BY <2>2 DEF WireOfSession, ReadersKept, Connected
  <2> QED
    BY <2>1, <2>2 DEF WireOfSession, Connected
<1>2. WireHasSession'
  <2>1. ASSUME NEW c \in Conns
        PROVE  /\ conn'[c].stage \in {"hello", "welcome"} => conn'[c].key \in Keys
               /\ conn'[c].stage = "welcome" => conn'[c].open
    BY DEF WireHasSession, WiresKept
  <2>2. ASSUME NEW c \in Conns, conn'[c].open
        PROVE  \E s \in Sessions :
                 /\ Connected(s)' /\ session'[s].conn = c
                 /\ conn'[c].stage \in {"hello", "welcome"} => session'[s].key = conn'[c].key
    <3>1. conn[c].open
      BY <2>2 DEF WiresKept
    <3>2. PICK s \in Sessions :
            /\ Connected(s) /\ session[s].conn = c
            /\ conn[c].stage \in {"hello", "welcome"} => session[s].key = conn[c].key
      BY <3>1 DEF WireHasSession
    <3>3. Connected(s)' /\ session'[s].conn = c /\ session'[s].key = session[s].key
      BY <2>2, <3>2 DEF ReadersKept, Connected
    <3> QED
      BY <3>2, <3>3 DEF WiresKept
  <2> QED
    BY <2>1, <2>2 DEF WireHasSession, Connected
<1> QED
  BY <1>1, <1>2

\* A session and its open connection speak for the same key.
LEMMA WireKey ==
  ASSUME WireOfSession, WireHasSession, NEW s \in Sessions, Connected(s),
         conn[session[s].conn].open, conn[session[s].conn].stage \in {"hello", "welcome"}
  PROVE  session[s].key = conn[session[s].conn].key
<1>1. session[s].conn \in Conns
  BY DEF WireOfSession
<1>2. PICK r \in Sessions :
        /\ Connected(r) /\ session[r].conn = session[s].conn
        /\ session[r].key = conn[session[s].conn].key
  BY <1>1 DEF WireHasSession
<1>3. r = s
  BY <1>2 DEF WireOfSession, Connected
<1> QED
  BY <1>2, <1>3

\* The server gives out no token and no key comes to hold another.
LEMMA TokenKept ==
  ASSUME TokenState, UNCHANGED <<current, met>>,
         \A c \in Conns : Answered(c) => Answered(c)',
         current \in [AgentIds -> Tokens \cup {None}], met \in [Keys -> SUBSET AgentIds],
         \A k \in Keys, t \in Tokens : Holds(k, t)' => Holds(k, t)
  PROVE  TokenState'
<1>1. \A a \in AgentIds : current[a] # None => Answered(current[a])'
  BY DEF TokenState, Tokens, Answered
<1>2. \A k \in Keys : \A a \in met[k] : Answered(a)'
  BY DEF TokenState, AgentIds, Answered
<1>3. ASSUME NEW k \in Keys, NEW t \in Tokens, Holds(k, t)'
      PROVE  Answered(t)' /\ \A a \in AgentIds : current[a] = t => a \in met[k]
  <2>1. Holds(k, t)
    BY <1>3
  <2>2. Answered(t) /\ \A a \in AgentIds : current[a] = t => a \in met[k]
    BY <2>1 DEF TokenState
  <2> QED
    BY <2>2 DEF Tokens
<1> QED
  BY <1>1, <1>2, <1>3 DEF TokenState

\* Key k gets no agent, saves no token, and its session is as far as it was.
LEMMA ChainKept ==
  ASSUME NEW k \in Keys, ChainOf(k), saved'[k] = saved[k], met'[k] = met[k],
         \A a \in met[k] : current'[a] = current[a],
         \A s \in Sessions : Running(s)' /\ session'[s].key = k =>
           /\ Running(s) /\ session[s].key = k
           /\ InFlight(s)' => InFlight(s) /\ session'[s].conn = session[s].conn
           /\ ~InFlight(s)' => session'[s].token = session[s].token,
         \A s \in Sessions : Running(s) /\ session[s].key = k /\ InFlight(s) =>
           Running(s)' /\ session'[s].key = k /\ InFlight(s)',
         \A c \in Conns :
           conn'[c].stage = "hello" /\ conn'[c].open /\ conn'[c].key = k =>
             \/ conn[c].stage = "hello" /\ conn[c].open /\ conn[c].key = k
                  /\ conn'[c].token = conn[c].token
             \/ conn'[c].token = saved[k]
  PROVE  ChainOf(k)'
<1>1. \A t : Expects(k, t) => Expects(k, t)'
  BY DEF Expects
<1>2. ASSUME NEW s \in Sessions, Running(s)', session'[s].key = k
      PROVE  IF InFlight(s)' THEN Expects(k, session[s].conn)'
                             ELSE session'[s].token = saved'[k]
  <2>1. Running(s) /\ session[s].key = k
    BY <1>2
  <2>2. CASE InFlight(s)'
    <3>1. Expects(k, session[s].conn)
      BY <1>2, <2>1, <2>2 DEF ChainOf
    <3> QED
      BY <1>2, <2>2, <3>1 DEF Expects
  <2>3. CASE ~InFlight(s)'
    <3>1. ~InFlight(s)
      BY <2>1, <2>3
    <3>2. session[s].token = saved[k]
      BY <2>1, <3>1 DEF ChainOf
    <3> QED
      BY <1>2, <2>3, <3>2
  <2> QED
    BY <2>2, <2>3
<1>3. ASSUME \A s \in Sessions : Running(s)' /\ session'[s].key = k => ~InFlight(s)'
      PROVE  Expects(k, saved[k])'
  <2>1. \A s \in Sessions : Running(s) /\ session[s].key = k => ~InFlight(s)
    BY <1>3
  <2>2. Expects(k, saved[k])
    BY <2>1 DEF ChainOf
  <2> QED
    BY <2>2 DEF Expects
<1>4. \A c \in Conns :
        conn'[c].stage = "hello" /\ conn'[c].open /\ conn'[c].key = k => conn'[c].token = saved'[k]
  BY DEF ChainOf
<1> QED
  BY <1>2, <1>3, <1>4 DEF ChainOf

\* A call gets to a state in which it knows what it needs.
LEMMA CallKept ==
  ASSUME TypeOK, CallState, NEW p \in Calls, NEW r \in CallStates,
         call' = [call EXCEPT ![p] = r],
         r.pc \in {"wants", "evicts"} => r.key \in Keys,
         r.pc \in {"has", "evicts"} => r.session \in Sessions,
         r.pc \in {"idle", "wants"} => r.session = None,
         r.pc = "evicts" => mu' = p /\ pool'[r.key] = None,
         \A q \in Calls : q # p /\ call[q].pc = "evicts" =>
           mu' = q /\ pool'[call[q].key] = None
  PROVE  CallState' /\ call' \in [Calls -> CallStates]
<1>1. call \in [Calls -> CallStates]
  BY DEF TypeOK, CallStates
<1>2. call'[p] = r /\ \A q \in Calls : q # p => call'[q] = call[q]
  BY <1>1
<1>3. call' \in [Calls -> CallStates]
  BY <1>1
<1>4. ASSUME NEW q \in Calls
      PROVE  /\ call'[q].pc \in {"wants", "evicts"} => call'[q].key \in Keys
             /\ call'[q].pc \in {"has", "evicts"} => call'[q].session \in Sessions
             /\ call'[q].pc \in {"idle", "wants"} => call'[q].session = None
             /\ call'[q].pc = "evicts" => mu' = q /\ pool'[call'[q].key] = None
  <2>1. CASE q = p
    BY <1>2, <2>1
  <2>2. CASE q # p
    BY <1>2, <2>2 DEF CallState
  <2> QED
    BY <2>1, <2>2
<1> QED
  BY <1>3, <1>4 DEF CallState

LEMMA CallAlone ==
  ASSUME IInv, UNCHANGED <<pool, saved, session, conn, current, met, missed>>
  PROVE  /\ recency' = recency => PoolState'
         /\ WireOfSession' /\ WireHasSession' /\ TokenState' /\ Chain'
<1>1. recency' = recency => PoolState'
  BY DEF IInv, PoolState, Running
<1>2. WireOfSession' /\ WireHasSession'
  BY DEF IInv, WireOfSession, WireHasSession, Connected
<1>3. TokenState'
  BY DEF IInv, TokenState, Holds, Answered
<1>4. Chain'
  BY DEF IInv, Chain, ChainOf, Running, InFlight, Connected, Expects
<1> QED
  BY <1>1, <1>2, <1>3, <1>4

\* While the mutex is free nobody evicts.
LEMMA NobodyEvicts ==
  ASSUME CallState, mu = None
  PROVE  \A q \in Calls : call[q].pc # "evicts"
  BY NoneAssumption DEF CallState

-----------------------------------------------------------------------------
(* Calls that leave the sessions alone                                     *)

LEMMA CallerStep ==
  ASSUME IInv, NEW p \in Calls,
         Refused(p) \/ Found(p) \/ Close(p) \/ CloseEnds(p) \/ \E k \in Keys : Arrive(p, k)
  PROVE  IInv'
<1>0. TypeOK /\ CallState
  BY DEF IInv
<1>1. /\ UNCHANGED <<mu, pool, saved, recency, session, conn, current, crashes, met, missed>>
      /\ closed' \in BOOLEAN
  BY <1>0 DEF TypeOK, Refused, Found, Close, CloseEnds, Arrive, manager
<1>2. PoolState' /\ WireOfSession' /\ WireHasSession' /\ TokenState' /\ Chain'
  BY <1>1, CallAlone
<1>3. CallState' /\ call' \in [Calls -> CallStates]
  <2>1. \A q \in Calls : q # p /\ call[q].pc = "evicts" =>
          mu' = q /\ pool'[call[q].key] = None
    BY <1>0, <1>1 DEF CallState
  <2>2. CASE Refused(p) \/ CloseEnds(p)
    <3>1. call' = [call EXCEPT ![p] = Idle]
      BY <2>2 DEF Refused, CloseEnds, Return
    <3>2. Idle \in CallStates /\ Idle.pc = "idle" /\ Idle.session = None
      BY <1>0, CallMoves
    <3> QED
      BY <1>0, <2>1, <3>1, <3>2, CallKept
  <2>3. CASE Found(p)
    <3> DEFINE s == pool[call[p].key]
               r == [call[p] EXCEPT !.pc = "has", !.session = s]
    <3>1. call' = [call EXCEPT ![p] = r]
      BY <2>3 DEF Found, Has
    <3>2. call[p].key \in Keys /\ s \in Sessions
      BY <1>0, <2>3 DEF Found, CallState, TypeOK
    <3> HIDE DEF s
    <3>3. r \in CallStates /\ r.pc = "has" /\ r.session = s
      BY <1>0, <3>2, CallMoves
    <3> HIDE DEF r
    <3> QED
      BY <1>0, <2>1, <3>1, <3>2, <3>3, CallKept
  <2>4. CASE Close(p)
    <3> DEFINE r == [Idle EXCEPT !.pc = "closes", !.rest = Pooled]
    <3>1. call' = [call EXCEPT ![p] = r]
      BY <2>4 DEF Close
    <3>2. Pooled \in SUBSET Sessions
      BY <1>0 DEF Pooled, TypeOK
    <3>3. r \in CallStates /\ r.pc = "closes"
      BY <1>0, <3>2, CallMoves
    <3> HIDE DEF r
    <3> QED
      BY <1>0, <2>1, <3>1, <3>3, CallKept
  <2>5. ASSUME NEW k \in Keys, Arrive(p, k)
        PROVE  CallState' /\ call' \in [Calls -> CallStates]
    <3> DEFINE r == [call[p] EXCEPT !.pc = "wants", !.key = k]
    <3>1. call' = [call EXCEPT ![p] = r]
      BY <2>5 DEF Arrive
    <3>2. r \in CallStates /\ r.pc = "wants" /\ r.key = k /\ r.session = call[p].session
      BY <1>0, CallMoves
    <3>3. call[p].session = None
      BY <1>0, <2>5 DEF Arrive, CallState
    <3> HIDE DEF r
    <3> QED
      BY <1>0, <2>1, <3>1, <3>2, <3>3, CallKept
  <2> QED
    BY <2>2, <2>3, <2>4, <2>5
<1>4. TypeOK'
  BY <1>0, <1>1, <1>3 DEF TypeOK, CallStates
<1> QED
  BY <1>2, <1>3, <1>4 DEF IInv

LEMMA UseStep ==
  ASSUME IInv, NEW p \in Calls, Use(p)
  PROVE  IInv'
<1>0. TypeOK /\ CallState /\ PoolState
  BY DEF IInv
<1> DEFINE s == call[p].session
<1>1. /\ UNCHANGED <<mu, closed, pool, saved, session, conn, current, crashes, met, missed>>
      /\ call' = [call EXCEPT ![p] = Idle]
      /\ recency' = IF Contains(recency, s) THEN Append(RecencyWithout(s), s) ELSE recency
      /\ s \in Sessions
  BY <1>0 DEF Use, Return, CallState
<1>2. WireOfSession' /\ WireHasSession' /\ TokenState' /\ Chain'
  BY <1>1, CallAlone
<1>3. CallState' /\ call' \in [Calls -> CallStates]
  <2>1. \A q \in Calls : q # p /\ call[q].pc = "evicts" =>
          mu' = q /\ pool'[call[q].key] = None
    BY <1>0, <1>1 DEF CallState
  <2>2. Idle \in CallStates /\ Idle.pc = "idle" /\ Idle.session = None
    BY <1>0, CallMoves
  <2> QED
    BY <1>0, <1>1, <2>1, <2>2, CallKept
<1>4. recency \in Seq(Sessions) /\ IsInjective(recency)
  BY <1>0 DEF TypeOK
<1>5. CASE recency' = recency
  <2>1. PoolState'
    BY <1>1, <1>5, CallAlone
  <2> QED
    BY <1>0, <1>1, <1>2, <1>3, <1>5, <2>1 DEF IInv, TypeOK, CallStates
<1>6. CASE recency' # recency
  <2>1. Contains(recency, s) /\ recency' = Append(RecencyWithout(s), s)
    BY <1>1, <1>6
  <2>2. recency' \in Seq(Sessions) /\ IsInjective(recency') /\ Moved(recency, s, s, recency')
    <3>1. PICK used, z, w : used = s /\ z = recency' /\ w = RecencyWithout(s)
      OBVIOUS
    <3>2. w = RecencyWithout(used)
      BY <3>1 DEF RecencyWithout
    <3>3. Without(recency, used, w)
      BY <1>4, <3>2, IsWithout
    <3>4. z = Append(w, used) /\ used \in Sessions
      BY <1>1, <2>1, <3>1
    <3>5. z \in Seq(Sessions) /\ IsInjective(z) /\ Moved(recency, used, used, z)
      BY <1>4, <3>3, <3>4, Moves
    <3> QED
      BY <3>1, <3>5
  <2>3. \E i \in 1..Len(recency) : recency[i] = s
    BY <1>4, <2>1, LenProperties DEF Contains
  <2>4. PoolState'
    <3>1. \A t \in Sessions : Running(t)' => session'[t].key \in Keys /\ pool'[session'[t].key] = t
      BY <1>0, <1>1 DEF PoolState, Running
    <3>2. ASSUME NEW k \in Keys, pool'[k] # None
          PROVE  \E i \in 1..Len(recency') : recency'[i] = pool'[k]
      <4>1. PICK j \in 1..Len(recency) : recency[j] = pool[k]
        BY <1>0, <1>1, <3>2 DEF PoolState
      <4>2. CASE recency[j] = s
        BY <1>1, <2>2, <4>1, <4>2 DEF Moved
      <4>3. CASE recency[j] # s
        BY <1>1, <2>2, <4>1, <4>3 DEF Moved
      <4> QED
        BY <4>2, <4>3
    <3>3. ASSUME NEW i \in 1..Len(recency')
          PROVE  session'[recency'[i]].run # "new"
      <4>1. PICK j \in 1..Len(recency) : recency'[i] = recency[j]
        BY <2>2, <2>3 DEF Moved
      <4> QED
        BY <1>0, <1>1, <4>1 DEF PoolState
    <3> QED
      BY <3>1, <3>2, <3>3 DEF PoolState
  <2> QED
    BY <1>0, <1>1, <1>2, <1>3, <2>2, <2>4 DEF IInv, TypeOK, CallStates
<1> QED
  BY <1>5, <1>6

-----------------------------------------------------------------------------
(* Steps by which sessions and connections only come to their end           *)

ConnsWind ==
  \A c \in Conns :
    /\ conn'[c].open => conn[c].open
    /\ conn'[c].stage \in {"hello", "welcome"} =>
         /\ conn'[c].stage = conn[c].stage
         /\ conn'[c].key = conn[c].key /\ conn'[c].token = conn[c].token
    /\ conn'[c].stage = "welcome" => conn'[c].open
    /\ conn[c].stage # "new" => conn'[c].stage # "new"
    /\ conn[c].stage = "used" => conn'[c].stage = "used"
    /\ conn[c].stage = "welcome" => conn'[c].stage \in {"welcome", "used"}

Winds(s) ==
  /\ session[s].run # "new" => session'[s].run # "new"
  /\ Running(s)' => Running(s) /\ session'[s].key = session[s].key
  /\ session'[s].key # None =>
       session'[s].key = session[s].key /\ session'[s].token = session[s].token
  /\ Connected(s)' => Connected(s) /\ session'[s].conn = session[s].conn
  /\ session'[s].registered => Connected(s)'
  /\ Connected(s) /\ conn'[session[s].conn].open =>
       Connected(s)' /\ session'[s].key = session[s].key
  /\ session'[s].run = "reporting" => session[s].run = "reporting"
  /\ InFlight(s) => session[s].key \in missed' \/ (Running(s)' /\ InFlight(s)')

SessionsWind == \A s \in Sessions : Winds(s)

LEMMA ClosingWinds ==
  ASSUME TypeOK, WireHasSession, NEW C \in SUBSET Conns, conn' = Closing(C)
  PROVE  ConnsWind /\ conn' \in [Conns -> ConnStates]
<1>1. /\ conn' \in [Conns -> ConnStates]
      /\ \A c \in Conns \ C : conn'[c] = conn[c]
      /\ \A c \in C : ~conn'[c].open
      /\ \A c \in C : conn[c].stage = "hello" =>
           /\ conn'[c].stage = "hello"
           /\ conn'[c].key = conn[c].key /\ conn'[c].token = conn[c].token
      /\ \A c \in C : conn[c].stage # "hello" => conn'[c].stage = "used"
  BY ClosingEffect
<1> QED
  BY <1>1 DEF ConnsWind, WireHasSession

LEMMA Winding ==
  ASSUME IInv, ConnsWind, SessionsWind, UNCHANGED <<saved, current, met>>, missed \subseteq missed'
  PROVE  /\ UNCHANGED <<pool, recency>> => PoolState'
         /\ WireOfSession' /\ WireHasSession' /\ TokenState' /\ Chain'
<1>0. /\ TypeOK /\ PoolState /\ WireOfSession /\ WireHasSession /\ TokenState /\ Chain
      /\ None \notin Keys
  BY NoneAssumption DEF IInv
<1>1. UNCHANGED <<pool, recency>> => PoolState'
  <2>1. recency \in Seq(Sessions)
    BY <1>0 DEF TypeOK
  <2>2. /\ \A s \in Sessions : Running(s)' => Running(s) /\ session'[s].key = session[s].key
        /\ \A s \in Sessions : session[s].run # "new" => session'[s].run # "new"
    BY DEF SessionsWind, Winds
  <2> QED
    BY <1>0, <2>1, <2>2, PoolKept
<1>2. WireOfSession' /\ WireHasSession'
  <2>1. WiresKept
    BY DEF ConnsWind, WiresKept
  <2>2. ASSUME NEW s \in Sessions, session'[s].run = "reporting"
        PROVE  session'[s].token = session'[s].conn /\ conn'[session'[s].conn].stage = "used"
    <3>1. Running(s)' /\ Connected(s)' /\ session[s].run = "reporting" /\ Running(s)
      BY <2>2 DEF Running, Connected, SessionsWind, Winds
    <3>2. session'[s].key # None /\ session'[s].conn = session[s].conn
      BY <1>0, <3>1 DEF SessionsWind, Winds, PoolState
    <3>3. session'[s].token = session[s].token
      BY <3>2 DEF SessionsWind, Winds
    <3>4. /\ session[s].token = session[s].conn /\ session[s].conn \in Conns
          /\ conn[session[s].conn].stage = "used"
      BY <1>0, <3>1 DEF WireOfSession, Connected
    <3> QED
      BY <3>2, <3>3, <3>4 DEF ConnsWind
  <2>3. ReadersKept
    BY <2>2 DEF SessionsWind, Winds, ReadersKept
  <2> QED
    BY <1>0, <2>1, <2>3, WireKept
<1>3. TokenState'
  <2>1. \A c \in Conns : Answered(c) => Answered(c)'
    BY DEF ConnsWind, Answered
  <2>2. ASSUME NEW k \in Keys, NEW t \in Tokens, Holds(k, t)'
        PROVE  Holds(k, t)
    <3>1. CASE saved'[k] = t
      BY <3>1 DEF Holds
    <3>2. CASE \E s \in Sessions : session'[s].key = k /\ session'[s].token = t
      BY <1>0, <3>2 DEF Holds, SessionsWind, Winds
    <3>3. CASE \E c \in Conns : /\ conn'[c].stage = "hello"
                                /\ conn'[c].key = k /\ conn'[c].token = t
      BY <3>3 DEF Holds, ConnsWind
    <3>4. CASE conn'[t].stage = "welcome" /\ conn'[t].key = k
      BY <3>4 DEF Holds, ConnsWind, Tokens
    <3> QED
      BY <2>2, <3>1, <3>2, <3>3, <3>4 DEF Holds
  <2>3. current \in [AgentIds -> Tokens \cup {None}] /\ met \in [Keys -> SUBSET AgentIds]
    BY <1>0 DEF TypeOK
  <2> QED
    BY <1>0, <2>1, <2>2, <2>3, TokenKept
<1>4. Chain'
  <2> SUFFICES ASSUME NEW k \in Keys, k \notin missed' PROVE ChainOf(k)'
    BY DEF Chain
  <2>1. ChainOf(k)
    BY <1>0 DEF Chain
  <2>2. ASSUME NEW s \in Sessions, Running(s)', session'[s].key = k
        PROVE  /\ Running(s) /\ session[s].key = k
               /\ InFlight(s)' => InFlight(s) /\ session'[s].conn = session[s].conn
               /\ session'[s].token = session[s].token
    <3>1. Running(s) /\ session[s].key = k /\ session'[s].token = session[s].token
      BY <1>0, <2>2 DEF SessionsWind, Winds
    <3>2. ASSUME InFlight(s)'
          PROVE  InFlight(s) /\ session'[s].conn = session[s].conn
      <4>1. Connected(s)' /\ Connected(s) /\ session'[s].conn = session[s].conn
        BY <3>2 DEF SessionsWind, Winds, InFlight, Connected
      <4>2. session[s].conn \in Conns
        BY <1>0, <4>1 DEF WireOfSession
      <4> QED
        BY <3>2, <4>1, <4>2 DEF InFlight, ConnsWind, SessionsWind, Winds
    <3> QED
      BY <3>1, <3>2
  <2>3. ASSUME NEW s \in Sessions, Running(s), session[s].key = k, InFlight(s)
        PROVE  Running(s)' /\ session'[s].key = k /\ InFlight(s)'
    BY <2>3 DEF SessionsWind, Winds
  <2>4. ASSUME NEW c \in Conns, conn'[c].stage = "hello", conn'[c].open, conn'[c].key = k
        PROVE  /\ conn[c].stage = "hello" /\ conn[c].open /\ conn[c].key = k
               /\ conn'[c].token = conn[c].token
    BY <2>4 DEF ConnsWind
  <2> QED
    BY <2>1, <2>2, <2>3, <2>4, ChainKept
<1> QED
  BY <1>1, <1>2, <1>3, <1>4

\* A session that stays as it is.
LEMMA Stays ==
  ASSUME IInv, NEW s \in Sessions, session'[s] = session[s],
         InFlight(s) => InFlight(s)' \/ session[s].key \in missed'
  PROVE  Winds(s)
<1>1. session[s].registered => Connected(s)
  BY DEF IInv, WireOfSession
<1>2. (Connected(s)' <=> Connected(s)) /\ (Running(s)' <=> Running(s))
  BY DEF Connected, Running
<1>3. InFlight(s) => Running(s)
  BY DEF InFlight, Connected, Running
<1>4. /\ session[s].run # "new" => session'[s].run # "new"
      /\ session'[s].key = session[s].key /\ session'[s].token = session[s].token
      /\ session'[s].conn = session[s].conn
      /\ session'[s].run = "reporting" => session[s].run = "reporting"
      /\ session'[s].registered => session[s].registered
  OBVIOUS
<1>5. InFlight(s) => session[s].key \in missed' \/ (Running(s)' /\ InFlight(s)')
  BY <1>2, <1>3
<1> QED
  BY <1>1, <1>2, <1>4, <1>5 DEF Winds

\* The WELCOME on a connection that is closed is one its key misses.
LEMMA ClosedMisses ==
  ASSUME IInv, NEW C \in SUBSET Conns, conn' = Closing(C), Unread(C) \subseteq missed',
         NEW s \in Sessions, InFlight(s), session'[s].run = session[s].run,
         session'[s].conn = session[s].conn
  PROVE  InFlight(s)' \/ session[s].key \in missed'
<1>0. TypeOK /\ WireOfSession /\ WireHasSession
  BY DEF IInv
<1>1. CASE session[s].run = "reporting"
  BY <1>1 DEF InFlight
<1>2. CASE Connected(s) /\ conn[session[s].conn].stage = "welcome"
  <2>1. session[s].conn \in Conns /\ conn[session[s].conn].open
    BY <1>0, <1>2 DEF WireOfSession, WireHasSession
  <2>2. session[s].key = conn[session[s].conn].key
    BY <1>0, <1>2, <2>1, WireKey
  <2>3. CASE session[s].conn \in C
    <3>1. conn[session[s].conn].key \in Unread(C)
      BY <1>2, <2>3 DEF Unread
    <3> QED
      BY <2>2, <3>1
  <2>4. CASE session[s].conn \notin C
    <3>1. conn'[session[s].conn] = conn[session[s].conn]
      BY <1>0, <2>1, <2>4, ClosingEffect
    <3> QED
      BY <1>2, <3>1 DEF InFlight, Connected
  <2> QED
    BY <2>3, <2>4
<1> QED
  BY <1>1, <1>2 DEF InFlight

LEMMA OneWinds ==
  ASSUME IInv, NEW C \in SUBSET Conns, conn' = Closing(C),
         missed' = missed \cup Unread(C),
         NEW s \in Sessions, \A q \in Sessions : q # s => session'[q] = session[q], Winds(s),
         UNCHANGED <<saved, current, met>>
  PROVE  /\ UNCHANGED <<pool, recency>> => PoolState'
         /\ WireOfSession' /\ WireHasSession' /\ TokenState' /\ Chain'
         /\ conn' \in [Conns -> ConnStates] /\ missed' \subseteq Keys
<1>0. TypeOK /\ WireHasSession
  BY DEF IInv
<1>1. ConnsWind /\ conn' \in [Conns -> ConnStates]
  BY <1>0, ClosingWinds
<1>2. Unread(C) \subseteq missed' /\ missed \subseteq missed' /\ missed' \subseteq Keys
  BY <1>0, UnreadKeys DEF TypeOK
<1>3. SessionsWind
  <2> SUFFICES ASSUME NEW q \in Sessions, q # s PROVE Winds(q)
    BY DEF SessionsWind
  <2>1. session'[q] = session[q]
    OBVIOUS
  <2>2. InFlight(q) => InFlight(q)' \/ session[q].key \in missed'
    BY <1>2, <2>1, ClosedMisses
  <2> QED
    BY <2>1, <2>2, Stays
<1> QED
  BY <1>1, <1>2, <1>3, Winding

LEMMA NothingCloses ==
  ASSUME TypeOK, UNCHANGED <<conn, missed>>
  PROVE  conn' = Closing({}) /\ missed' = missed \cup Unread({}) /\ {} \in SUBSET Conns
<1>1. conn = [c \in Conns |-> conn[c]]
  BY DEF TypeOK
<1>2. conn = Closing({})
  BY <1>1 DEF Closing
<1>3. Unread({}) = {}
  BY DEF Unread
<1> QED
  BY <1>2, <1>3

LEMMA RunStopsStep ==
  ASSUME IInv, NEW s \in Sessions, RunStops(s)
  PROVE  IInv'
<1>0. TypeOK /\ CallState
  BY DEF IInv
<1>1. /\ session' = [session EXCEPT ![s] = Dead] /\ session[s].run = "top"
      /\ UNCHANGED <<mu, closed, pool, saved, recency, call, conn, current, crashes, met, missed>>
  BY DEF RunStops, Goto, manager
<1>2. /\ session' \in [Sessions -> SessionStates] /\ session'[s] = Dead
      /\ \A q \in Sessions : q # s => session'[q] = session[q]
  BY <1>0, <1>1, DeadType, SessionGoes
<1>3. Winds(s)
  BY <1>1, <1>2, DeadType DEF Winds, Running, Connected, InFlight
<1>4. conn' = Closing({}) /\ missed' = missed \cup Unread({}) /\ {} \in SUBSET Conns
  BY <1>0, <1>1, NothingCloses
<1>5. PoolState' /\ WireOfSession' /\ WireHasSession' /\ TokenState' /\ Chain'
  BY <1>1, <1>2, <1>3, <1>4, OneWinds
<1>6. TypeOK' /\ CallState'
  BY <1>0, <1>1, <1>2 DEF TypeOK, CallState
<1> QED
  BY <1>5, <1>6 DEF IInv

LEMMA ReadFailsStep ==
  ASSUME IInv, NEW s \in Sessions, ReadFails(s)
  PROVE  IInv'
<1>0. TypeOK /\ CallState /\ WireOfSession /\ WireHasSession /\ session[s] \in SessionStates
  BY Typed DEF IInv
<1> DEFINE r == [session[s] EXCEPT !.run = "top", !.conn = None, !.registered = FALSE]
<1>1. /\ session' = [session EXCEPT ![s] = r]
      /\ session[s].run = "reading" /\ ~conn[session[s].conn].open
      /\ UNCHANGED <<mu, closed, pool, saved, recency, call, conn, current, crashes, met, missed>>
  BY DEF ReadFails, Goto, manager
<1>2. /\ r \in SessionStates /\ r.run = "top" /\ r.registered = FALSE
      /\ r.key = session[s].key /\ r.token = session[s].token
  BY <1>0 DEF SessionStates
<1> HIDE DEF r
<1>3. /\ session' \in [Sessions -> SessionStates] /\ session'[s] = r
      /\ \A q \in Sessions : q # s => session'[q] = session[q]
  BY <1>0, <1>1, <1>2, SessionGoes
<1>4. ~InFlight(s)
  <2>1. session[s].conn \in Conns
    BY <1>0, <1>1 DEF WireOfSession, Connected
  <2> QED
    BY <1>0, <1>1, <2>1 DEF InFlight, WireHasSession
<1>5. Winds(s)
  BY <1>1, <1>2, <1>3, <1>4 DEF Winds, Running, Connected
<1>6. conn' = Closing({}) /\ missed' = missed \cup Unread({}) /\ {} \in SUBSET Conns
  BY <1>0, <1>1, NothingCloses
<1>7. PoolState' /\ WireOfSession' /\ WireHasSession' /\ TokenState' /\ Chain'
  BY <1>1, <1>3, <1>5, <1>6, OneWinds
<1>8. TypeOK' /\ CallState'
  BY <1>0, <1>1, <1>3 DEF TypeOK, CallState
<1> QED
  BY <1>7, <1>8 DEF IInv

LEMMA RegisterStep ==
  ASSUME IInv, NEW s \in Sessions, Register(s)
  PROVE  IInv'
<1>0. TypeOK /\ CallState /\ WireOfSession /\ WireHasSession /\ session[s] \in SessionStates
  BY Typed DEF IInv
<1>1. /\ session[s].run = "dialled" /\ Connected(s) /\ ReadOn(s, TRUE)
      /\ missed' = IF session[s].stop THEN missed \cup Unread({session[s].conn}) ELSE missed
      /\ UNCHANGED <<mu, closed, pool, saved, recency, call, current, crashes, met>>
  BY DEF Register, manager, Connected
<1>2. \E C \in SUBSET Conns :
        /\ conn' = Closing(C) /\ missed' = missed \cup Unread(C)
        /\ session' \in [Sessions -> SessionStates]
        /\ \A q \in Sessions : q # s => session'[q] = session[q]
        /\ Winds(s)
  <2>1. CASE session[s].stop
    <3> DEFINE C == {session[s].conn}
    <3>1. session' = [session EXCEPT ![s] = Dead] /\ C \in SUBSET Conns /\ conn' = Closing(C)
      BY <1>0, <1>1, <2>1, ReadOnEffect
    <3>2. /\ session' \in [Sessions -> SessionStates] /\ session'[s] = Dead
          /\ \A q \in Sessions : q # s => session'[q] = session[q]
      BY <1>0, <3>1, DeadType, SessionGoes
    <3>3. missed' = missed \cup Unread(C)
      BY <1>1, <2>1
    <3>4. ~conn'[session[s].conn].open
      BY <1>0, <3>1, ClosingEffect
    <3>5. InFlight(s) => session[s].key \in missed'
      <4>1. ASSUME InFlight(s) PROVE session[s].key \in Unread(C)
        <5>1. conn[session[s].conn].stage = "welcome"
          BY <1>1, <4>1 DEF InFlight
        <5>2. conn[session[s].conn].open /\ session[s].conn \in Conns
          BY <1>0, <3>1, <5>1 DEF WireHasSession
        <5>3. session[s].key = conn[session[s].conn].key
          BY <1>0, <1>1, <5>1, <5>2, WireKey
        <5> QED
          BY <5>1, <5>3 DEF Unread
      <4> QED
        BY <3>3, <4>1
    <3>6. Winds(s)
      BY <1>1, <3>2, <3>4, <3>5, DeadType DEF Winds, Running, Connected
    <3> QED
      BY <3>1, <3>2, <3>3, <3>6
  <2>2. CASE ~session[s].stop
    <3>1. PICK r \in SessionStates :
            /\ session' = [session EXCEPT ![s] = r]
            /\ r.run = "reading" /\ r.registered = TRUE
            /\ r.key = session[s].key /\ r.conn = session[s].conn
            /\ r.token = session[s].token
      BY <1>0, <1>1, <2>2, ReadOnEffect
    <3>2. UNCHANGED <<conn, missed>>
      BY <1>1, <2>2 DEF ReadOn
    <3>3. /\ session' \in [Sessions -> SessionStates] /\ session'[s] = r
          /\ \A q \in Sessions : q # s => session'[q] = session[q]
      BY <1>0, <3>1, SessionGoes
    <3>4. Winds(s)
      BY <1>1, <3>1, <3>2, <3>3 DEF Winds, Running, Connected, InFlight
    <3>5. conn' = Closing({}) /\ missed' = missed \cup Unread({}) /\ {} \in SUBSET Conns
      BY <1>0, <3>2, NothingCloses
    <3> QED
      BY <3>3, <3>4, <3>5
  <2> QED
    BY <2>1, <2>2
<1>3. PICK C \in SUBSET Conns :
        /\ conn' = Closing(C) /\ missed' = missed \cup Unread(C)
        /\ session' \in [Sessions -> SessionStates]
        /\ \A q \in Sessions : q # s => session'[q] = session[q]
        /\ Winds(s)
  BY <1>2
<1>4. /\ PoolState' /\ WireOfSession' /\ WireHasSession' /\ TokenState' /\ Chain'
      /\ conn' \in [Conns -> ConnStates] /\ missed' \subseteq Keys
  BY <1>1, <1>3, OneWinds
<1>5. TypeOK' /\ CallState'
  BY <1>0, <1>1, <1>3, <1>4 DEF TypeOK, CallState
<1> QED
  BY <1>4, <1>5 DEF IInv

\* Disconnect, and Close up to the wait.
LEMMA Hangup ==
  ASSUME IInv, NEW s \in Sessions, NEW r \in {Stopped(session[s]), Disconnected(session[s])},
         session' = [session EXCEPT ![s] = r], conn' = Closing(Registered(s)),
         missed' = missed \cup Unread(Registered(s)),
         UNCHANGED <<pool, saved, recency, current, met>>
  PROVE  /\ PoolState' /\ WireOfSession' /\ WireHasSession' /\ TokenState' /\ Chain'
         /\ session' \in [Sessions -> SessionStates]
         /\ conn' \in [Conns -> ConnStates] /\ missed' \subseteq Keys
<1>0. TypeOK /\ WireOfSession /\ session[s] \in SessionStates
  BY Typed DEF IInv
<1>1. /\ r \in SessionStates
      /\ r.run = session[s].run /\ r.key = session[s].key /\ r.conn = session[s].conn
      /\ r.token = session[s].token /\ r.registered = FALSE
  BY <1>0, StoppedType
<1>2. /\ session' \in [Sessions -> SessionStates] /\ session'[s] = r
      /\ \A q \in Sessions : q # s => session'[q] = session[q]
  BY <1>0, <1>1, SessionGoes
<1>3. PICK C \in SUBSET Conns : C = Registered(s)
  BY <1>0, RegisteredConns
<1>4. conn' = Closing(C) /\ missed' = missed \cup Unread(C)
  BY <1>3 DEF Closing, Unread
<1>5. InFlight(s) => InFlight(s)' \/ session[s].key \in missed'
  BY <1>1, <1>2, <1>4, ClosedMisses
<1>6. Winds(s)
  <2>1. InFlight(s) => session[s].key \in missed' \/ (Running(s)' /\ InFlight(s)')
    BY <1>1, <1>2, <1>5 DEF InFlight, Running, Connected
  <2> QED
    BY <1>1, <1>2, <2>1 DEF Winds, Running, Connected
<1> QED
  BY <1>2, <1>4, <1>6, OneWinds

LEMMA DisconnectStep ==
  ASSUME IInv, NEW p \in Calls, Disconnect(p)
  PROVE  IInv'
<1>0. TypeOK /\ CallState
  BY DEF IInv
<1>1. PICK s \in Sessions : s = call[p].session
  BY <1>0 DEF Disconnect, CallState
<1>2. /\ session' = [session EXCEPT ![s] = Disconnected(session[s])]
      /\ conn' = Closing(Registered(s)) /\ missed' = missed \cup Unread(Registered(s))
      /\ call' = [call EXCEPT ![p] = Idle]
      /\ UNCHANGED <<mu, closed, pool, saved, recency, current, crashes, met>>
  BY <1>1 DEF Disconnect, Return, manager, Registered, Closing, Unread
<1>3. /\ PoolState' /\ WireOfSession' /\ WireHasSession' /\ TokenState' /\ Chain'
      /\ session' \in [Sessions -> SessionStates]
      /\ conn' \in [Conns -> ConnStates] /\ missed' \subseteq Keys
  BY <1>2, Hangup
<1>4. CallState' /\ call' \in [Calls -> CallStates]
  <2>1. \A q \in Calls : q # p /\ call[q].pc = "evicts" =>
          mu' = q /\ pool'[call[q].key] = None
    BY <1>0, <1>2 DEF CallState
  <2>2. Idle \in CallStates /\ Idle.pc = "idle" /\ Idle.session = None
    BY <1>0, CallMoves
  <2> QED
    BY <1>0, <1>2, <2>1, <2>2, CallKept
<1>5. TypeOK'
  BY <1>0, <1>2, <1>3, <1>4 DEF TypeOK, CallStates
<1> QED
  BY <1>3, <1>4, <1>5 DEF IInv

LEMMA EvictStep ==
  ASSUME IInv, NEW p \in Calls, Evict(p)
  PROVE  IInv'
<1>0. TypeOK /\ CallState /\ PoolState
  BY DEF IInv
<1>1. PICK s \in Sessions : s = Head(recency)
  BY <1>0, FullPool DEF Evict
<1> DEFINE r == [call[p] EXCEPT !.pc = "evicts", !.session = s]
<1>2. /\ session' = [session EXCEPT ![s] = Stopped(session[s])]
      /\ conn' = Closing(Registered(s)) /\ missed' = missed \cup Unread(Registered(s))
      /\ call' = [call EXCEPT ![p] = r]
      /\ mu' = p /\ mu = None /\ call[p].pc = "wants" /\ pool[call[p].key] = None
      /\ UNCHANGED <<closed, pool, saved, recency, current, crashes, met>>
  BY <1>1 DEF Evict, Registered, Closing, Unread
<1>3. /\ PoolState' /\ WireOfSession' /\ WireHasSession' /\ TokenState' /\ Chain'
      /\ session' \in [Sessions -> SessionStates]
      /\ conn' \in [Conns -> ConnStates] /\ missed' \subseteq Keys
  BY <1>2, Hangup
<1>4. CallState' /\ call' \in [Calls -> CallStates]
  <2>1. \A q \in Calls : call[q].pc # "evicts"
    BY <1>0, <1>2, NobodyEvicts
  <2>2. r \in CallStates /\ r.pc = "evicts" /\ r.session = s /\ r.key = call[p].key
    <3>1. call[p] \in CallStates
      BY <1>0, Typed
    <3> QED
      BY <3>1 DEF CallStates
  <2>3. call[p].key \in Keys
    BY <1>0, <1>2 DEF CallState
  <2> HIDE DEF r
  <2> QED
    BY <1>0, <1>2, <2>1, <2>2, <2>3, CallKept
<1>5. TypeOK'
  BY <1>0, <1>2, <1>3, <1>4 DEF TypeOK, CallStates
<1> QED
  BY <1>3, <1>4, <1>5 DEF IInv

LEMMA CloseNextStep ==
  ASSUME IInv, NEW p \in Calls, CloseNext(p)
  PROVE  IInv'
<1>0. TypeOK /\ CallState
  BY DEF IInv
<1>1. PICK s \in call[p].rest :
        /\ call[p].pc = "closes"
        /\ session' = [session EXCEPT ![s] = Stopped(session[s])]
        /\ conn' = Closing(Registered(s)) /\ missed' = missed \cup Unread(Registered(s))
        /\ call' = [call EXCEPT ![p] = [call[p] EXCEPT !.session = s, !.rest = @ \ {s}]]
        /\ UNCHANGED <<mu, closed, pool, saved, recency, current, crashes, met>>
  BY DEF CloseNext, manager
<1>2. s \in Sessions
  <2>1. call[p] \in CallStates
    BY <1>0, Typed
  <2> QED
    BY <1>1, <2>1 DEF CallStates
<1>3. /\ PoolState' /\ WireOfSession' /\ WireHasSession' /\ TokenState' /\ Chain'
      /\ session' \in [Sessions -> SessionStates]
      /\ conn' \in [Conns -> ConnStates] /\ missed' \subseteq Keys
  BY <1>1, <1>2, Hangup
<1>4. CallState' /\ call' \in [Calls -> CallStates]
  <2> DEFINE r == [call[p] EXCEPT !.session = s, !.rest = @ \ {s}]
  <2>1. \A q \in Calls : q # p /\ call[q].pc = "evicts" =>
          mu' = q /\ pool'[call[q].key] = None
    BY <1>0, <1>1 DEF CallState
  <2>2. r \in CallStates /\ r.pc = call[p].pc
    <3>1. call[p] \in CallStates
      BY <1>0, Typed
    <3> QED
      BY <1>2, <3>1 DEF CallStates
  <2>3. call' = [call EXCEPT ![p] = r]
    BY <1>1
  <2> HIDE DEF r
  <2> QED
    BY <1>0, <1>1, <2>1, <2>2, <2>3, CallKept
<1>5. TypeOK'
  BY <1>0, <1>1, <1>3, <1>4 DEF TypeOK, CallStates
<1> QED
  BY <1>3, <1>4, <1>5 DEF IInv

LEMMA ServerDropsStep ==
  ASSUME IInv, NEW c \in Conns, ServerDrops(c)
  PROVE  IInv'
<1>0. /\ TypeOK /\ CallState /\ WireOfSession /\ WireHasSession
      /\ \A d \in Conns : conn[d] \in ConnStates
  BY Typed DEF IInv
<1>1. /\ conn' = [conn EXCEPT ![c] = Used(FALSE)] /\ missed' = missed \cup Unread({c})
      /\ UNCHANGED <<mu, closed, pool, saved, recency, session, call, current, crashes, met>>
  BY DEF ServerDrops, manager
<1>2. Used(FALSE) \in ConnStates /\ Used(FALSE).stage = "used" /\ Used(FALSE).open = FALSE
  BY UsedType
<1>3. /\ conn' \in [Conns -> ConnStates] /\ conn'[c] = Used(FALSE)
      /\ \A d \in Conns : d # c => conn'[d] = conn[d]
  <2>1. conn \in [Conns -> ConnStates]
    BY <1>0 DEF TypeOK
  <2> QED
    BY <1>1, <1>2, <2>1
<1>4. ConnsWind
  BY <1>0, <1>2, <1>3 DEF ConnsWind, WireHasSession
<1>5. SessionsWind
  <2> SUFFICES ASSUME NEW s \in Sessions PROVE Winds(s)
    BY DEF SessionsWind
  <2>1. ASSUME InFlight(s), ~InFlight(s)' PROVE session[s].key \in missed'
    <3>1. Connected(s) /\ conn[session[s].conn].stage = "welcome" /\ session[s].conn \in Conns
      BY <1>0, <1>1, <2>1 DEF InFlight, WireOfSession
    <3>2. session[s].conn = c
      BY <1>1, <1>3, <2>1, <3>1 DEF InFlight, Connected
    <3>3. conn[c].open /\ session[s].key = conn[c].key
      BY <1>0, <3>1, <3>2, WireKey DEF WireHasSession
    <3> QED
      BY <1>1, <3>1, <3>2, <3>3 DEF Unread
  <2> QED
    BY <1>1, <2>1, Stays
<1>6. missed' \subseteq Keys /\ missed \subseteq missed'
  BY <1>0, <1>1, UnreadKeys DEF TypeOK
<1>7. PoolState' /\ WireOfSession' /\ WireHasSession' /\ TokenState' /\ Chain'
  BY <1>1, <1>4, <1>5, <1>6, Winding
<1>8. TypeOK' /\ CallState'
  BY <1>0, <1>1, <1>3, <1>6 DEF TypeOK, CallState
<1> QED
  BY <1>7, <1>8 DEF IInv

LEMMA CrashStep ==
  ASSUME IInv, Crash
  PROVE  IInv'
<1>0. TypeOK /\ CallState /\ WireOfSession /\ WireHasSession /\ PoolState
  BY DEF IInv
<1> DEFINE live == {s \in Sessions : Running(s)}
           wires == {c \in Conns : conn[c].open}
           late == {session[s].key : s \in {r \in live : session[r].run = "reporting"}}
<1>1. /\ crashes < MaxCrashes /\ crashes' = crashes + 1
      /\ mu' = None /\ closed' = FALSE
      /\ pool' = [k \in Keys |-> None] /\ recency' = <<>>
      /\ call' = [p \in Calls |-> Idle]
      /\ session' = [s \in Sessions |-> IF s \in live THEN Dead ELSE session[s]]
      /\ conn' = Closing(wires) /\ missed' = missed \cup Unread(wires) \cup late
      /\ UNCHANGED <<saved, current, met>>
  BY DEF Crash
<1>2. wires \in SUBSET Conns
  OBVIOUS
<1>3. late \subseteq Keys
  BY <1>0 DEF PoolState
<1>4. Unread(wires) \subseteq Keys
  BY <1>0, <1>2, UnreadKeys
<1>5. ConnsWind /\ conn' \in [Conns -> ConnStates]
  BY <1>0, <1>1, <1>2, ClosingWinds
<1>6. \A c \in Conns : ~conn'[c].open
  BY <1>0, <1>1, <1>2, ClosingEffect DEF ConnsWind
<1>7. \A s \in Sessions : session'[s] = IF Running(s) THEN Dead ELSE session[s]
  BY <1>1
<1>8. SessionsWind
  <2> SUFFICES ASSUME NEW s \in Sessions PROVE Winds(s)
    BY DEF SessionsWind
  <2>1. InFlight(s) => session[s].key \in missed'
    <3>1. CASE session[s].run = "reporting"
      <4>1. session[s].key \in late
        BY <3>1 DEF Running
      <4> QED
        BY <1>1, <4>1
    <3>2. CASE Connected(s) /\ conn[session[s].conn].stage = "welcome"
      <4>1. session[s].conn \in wires
        BY <1>0, <3>2 DEF WireOfSession, WireHasSession
      <4>2. session[s].key = conn[session[s].conn].key
        BY <1>0, <3>2, <4>1, WireKey
      <4> QED
        BY <1>1, <3>2, <4>1, <4>2 DEF Unread
    <3> QED
      BY <3>1, <3>2 DEF InFlight
  <2>2. CASE Running(s)
    <3>1. session'[s] = Dead /\ ~Running(s)' /\ ~Connected(s)'
      BY <1>7, <2>2, DeadType DEF Running, Connected
    <3>2. Connected(s) => ~conn'[session[s].conn].open
      BY <1>0, <1>6 DEF WireOfSession
    <3> QED
      BY <2>1, <3>1, <3>2, DeadType DEF Winds
  <2>3. CASE ~Running(s)
    BY <1>7, <2>1, <2>3, Stays
  <2> QED
    BY <2>2, <2>3
<1>9. WireOfSession' /\ WireHasSession' /\ TokenState' /\ Chain'
  BY <1>1, <1>5, <1>8, Winding
<1>10. PoolState'
  <2>1. Len(recency') = 0
    BY <1>1, EmptySeq
  <2>2. \A s \in Sessions : ~Running(s)'
    BY <1>7, DeadType DEF Running
  <2> QED
    BY <1>1, <2>1, <2>2 DEF PoolState
<1>11. TypeOK'
  <2>1. recency' \in Seq(Sessions) /\ IsInjective(recency')
    BY <1>1, EmptySeq DEF IsInjective
  <2>2. session' \in [Sessions -> SessionStates]
    BY <1>0, <1>1, DeadType DEF TypeOK
  <2>3. call' \in [Calls -> CallStates]
    BY <1>0, <1>1, CallMoves
  <2>4. crashes' \in 0..MaxCrashes
    BY <1>0, <1>1, BoundsAssumption DEF TypeOK
  <2>5. missed' \subseteq Keys
    BY <1>0, <1>1, <1>3, <1>4 DEF TypeOK
  <2> QED
    BY <1>0, <1>1, <1>5, <2>1, <2>2, <2>3, <2>4, <2>5 DEF TypeOK, CallStates
<1>12. CallState'
  BY <1>1 DEF CallState, Idle
<1> QED
  BY <1>9, <1>10, <1>11, <1>12 DEF IInv

-----------------------------------------------------------------------------
(* New sessions                                                            *)

LEMMA CreateStep ==
  ASSUME IInv, NEW p \in Calls, NEW k \in Keys, pool[k] = None,
         NEW others \in [Keys -> Sessions \cup {None}], Create(p, k, others),
         \A l \in Keys : others[l] # None =>
           others[l] = pool[l] /\ others[l] # call[p].session,
         \A t \in Sessions : Running(t) => others[session[t].key] = t,
         \A q \in Calls : q # p => call[q].pc # "evicts", mu' \in Calls \cup {None},
         UNCHANGED <<closed, saved, conn, current, crashes, met, missed>>
  PROVE  IInv'
<1>0. /\ TypeOK /\ PoolState /\ CallState /\ WireOfSession /\ WireHasSession /\ TokenState
      /\ Chain /\ None \notin Keys /\ None \notin Sessions
  BY NoneAssumption DEF IInv
<1>0a. PICK s \in Sessions : Enters(p, k, others, s)
  BY <1>0, CreateEffect
<1>1. /\ session[s].run = "new"
      /\ pool' = [others EXCEPT ![k] = s]
      /\ \E r \in SessionStates :
           /\ session' = [session EXCEPT ![s] = r]
           /\ r.run = "top" /\ r.key = k /\ r.token = saved[k]
           /\ r.registered = FALSE
      /\ recency' \in Seq(Sessions) /\ IsInjective(recency')
      /\ Moved(recency, call[p].session, s, recency')
      /\ \E r \in CallStates :
           /\ call' = [call EXCEPT ![p] = r]
           /\ r.pc = "has" /\ r.session = s /\ r.key = call[p].key
  BY <1>0a DEF Enters
<1>2. PICK r \in SessionStates :
        /\ session' = [session EXCEPT ![s] = r]
        /\ r.run = "top" /\ r.key = k /\ r.token = saved[k]
        /\ r.registered = FALSE
  BY <1>1
<1>3. /\ session' \in [Sessions -> SessionStates] /\ session'[s] = r
      /\ \A q \in Sessions : q # s => session'[q] = session[q]
  BY <1>0, <1>2, SessionGoes
<1>4. CallState' /\ call' \in [Calls -> CallStates]
  <2>1. PICK n \in CallStates :
          call' = [call EXCEPT ![p] = n] /\ n.pc = "has" /\ n.session = s
    BY <1>1
  <2> QED
    BY <1>0, <2>1, CallKept
<1>5. pool' \in [Keys -> Sessions \cup {None}]
  BY <1>1
<1>6. PoolState'
  <2>1. ASSUME NEW t \in Sessions, Running(t)'
        PROVE  session'[t].key \in Keys /\ pool'[session'[t].key] = t
    <3>1. CASE t = s
      BY <1>1, <1>2, <1>3, <3>1
    <3>2. CASE t # s
      <4>1. session'[t] = session[t] /\ Running(t)
        BY <1>3, <2>1, <3>2 DEF Running
      <4>2. session[t].key \in Keys /\ pool[session[t].key] = t
        BY <1>0, <4>1 DEF PoolState
      <4>3. session[t].key # k
        BY <1>0, <4>2
      <4>4. others[session[t].key] = t
        BY <4>1
      <4> QED
        BY <1>1, <4>1, <4>2, <4>3, <4>4
    <3> QED
      BY <3>1, <3>2
  <2>2. ASSUME NEW l \in Keys, pool'[l] # None
        PROVE  \E i \in 1..Len(recency') : recency'[i] = pool'[l]
    <3>1. CASE l = k
      BY <1>1, <3>1 DEF Moved
    <3>2. CASE l # k
      <4>1. pool'[l] = others[l]
        BY <1>1, <3>2
      <4>2. others[l] # None /\ others[l] = pool[l] /\ others[l] # call[p].session
        BY <2>2, <4>1
      <4>3. PICK j \in 1..Len(recency) : recency[j] = pool[l]
        BY <1>0, <4>2 DEF PoolState
      <4> QED
        BY <1>1, <4>1, <4>2, <4>3 DEF Moved
    <3> QED
      BY <3>1, <3>2
  <2>3. ASSUME NEW i \in 1..Len(recency')
        PROVE  session'[recency'[i]].run # "new"
    <3>1. CASE recency'[i] = s
      BY <1>2, <1>3, <3>1
    <3>2. CASE recency'[i] # s
      <4>1. PICK j \in 1..Len(recency) : recency'[i] = recency[j]
        BY <1>1, <3>2 DEF Moved
      <4>2. recency[j] \in Sessions
        BY <1>0, ElementOfSeq DEF TypeOK
      <4> QED
        BY <1>0, <1>3, <3>2, <4>1, <4>2 DEF PoolState
    <3> QED
      BY <3>1, <3>2
  <2> QED
    BY <2>1, <2>2, <2>3 DEF PoolState
<1>7. WireOfSession' /\ WireHasSession'
  <2>1. WiresKept
    BY <1>0 DEF WiresKept, WireHasSession
  <2>2. ReadersKept
    <3> SUFFICES ASSUME NEW t \in Sessions
                 PROVE  /\ Connected(t)' => Connected(t) /\ session'[t].conn = session[t].conn
                        /\ session'[t].registered => Connected(t)'
                        /\ Connected(t) /\ conn'[session[t].conn].open =>
                             Connected(t)' /\ session'[t].key = session[t].key
                        /\ session'[t].run = "reporting" =>
                             /\ session'[t].token = session'[t].conn
                             /\ conn'[session'[t].conn].stage = "used"
      BY DEF ReadersKept
    <3>1. CASE t = s
      BY <1>1, <1>2, <1>3, <3>1 DEF Connected
    <3>2. CASE t # s
      BY <1>0, <1>3, <3>2 DEF Connected, WireOfSession
    <3> QED
      BY <3>1, <3>2
  <2> QED
    BY <1>0, <2>1, <2>2, WireKept
<1>8. TokenState'
  <2>1. \A c \in Conns : Answered(c) => Answered(c)'
    BY DEF Answered
  <2>2. ASSUME NEW l \in Keys, NEW t \in Tokens, Holds(l, t)'
        PROVE  Holds(l, t)
    <3>1. CASE \E q \in Sessions : session'[q].key = l /\ session'[q].token = t
      <4>1. PICK q \in Sessions : session'[q].key = l /\ session'[q].token = t
        BY <3>1
      <4>2. CASE q = s
        BY <1>2, <1>3, <4>1, <4>2 DEF Holds
      <4>3. CASE q # s
        BY <1>3, <4>1, <4>3 DEF Holds
      <4> QED
        BY <4>2, <4>3
    <3>2. CASE ~\E q \in Sessions : session'[q].key = l /\ session'[q].token = t
      BY <2>2, <3>2 DEF Holds
    <3> QED
      BY <3>1, <3>2
  <2>3. current \in [AgentIds -> Tokens \cup {None}] /\ met \in [Keys -> SUBSET AgentIds]
    BY <1>0 DEF TypeOK
  <2> QED
    BY <1>0, <2>1, <2>2, <2>3, TokenKept
<1>9. Chain'
  <2> SUFFICES ASSUME NEW l \in Keys, l \notin missed' PROVE ChainOf(l)'
    BY DEF Chain
  <2>1. ChainOf(l)
    BY <1>0 DEF Chain
  <2>2. CASE l # k
    <3>1. \A t \in Sessions : Running(t)' /\ session'[t].key = l => session'[t] = session[t]
      BY <1>2, <1>3, <2>2
    <3>2. \A t \in Sessions : Running(t) => session'[t] = session[t]
      BY <1>1, <1>3 DEF Running
    <3>3. ASSUME NEW t \in Sessions, Running(t)', session'[t].key = l
          PROVE  /\ Running(t) /\ session[t].key = l
                 /\ InFlight(t)' => InFlight(t) /\ session'[t].conn = session[t].conn
                 /\ session'[t].token = session[t].token
      BY <3>1, <3>3 DEF Running, InFlight, Connected
    <3>4. ASSUME NEW t \in Sessions, Running(t), session[t].key = l, InFlight(t)
          PROVE  Running(t)' /\ session'[t].key = l /\ InFlight(t)'
      BY <3>2, <3>4 DEF Running, InFlight, Connected
    <3> QED
      BY <2>1, <3>3, <3>4, ChainKept
  <2>3. CASE l = k
    <3>1. \A t \in Sessions : ~(Running(t) /\ session[t].key = k)
      BY <1>0 DEF PoolState
    <3>2. Expects(k, saved[k])
      BY <2>1, <2>3, <3>1 DEF ChainOf
    <3>3. \A t \in Sessions : Running(t)' /\ session'[t].key = k => t = s
      BY <1>3, <3>1 DEF Running
    <3>4. session'[s].token = saved'[k] /\ ~InFlight(s)'
      BY <1>2, <1>3 DEF InFlight, Connected
    <3>5. Expects(k, saved[k])'
      BY <3>2 DEF Expects
    <3>6. \A c \in Conns : conn'[c].stage = "hello" /\ conn'[c].open /\ conn'[c].key = k =>
            conn'[c].token = saved'[k]
      BY <2>1, <2>3 DEF ChainOf
    <3>7. \A t \in Sessions : Running(t)' /\ session'[t].key = k =>
            IF InFlight(t)' THEN Expects(k, session[t].conn)' ELSE session'[t].token = saved'[k]
      BY <3>3, <3>4
    <3> QED
      BY <2>3, <3>5, <3>6, <3>7 DEF ChainOf
  <2> QED
    BY <2>2, <2>3
<1>10. TypeOK'
  BY <1>0, <1>1, <1>3, <1>4, <1>5 DEF TypeOK, CallStates
<1> QED
  BY <1>4, <1>6, <1>7, <1>8, <1>9, <1>10 DEF IInv

LEMMA CreatedStep ==
  ASSUME IInv, NEW p \in Calls, Created(p)
  PROVE  IInv'
<1>0. TypeOK /\ PoolState /\ CallState /\ None \notin Sessions
  BY NoneAssumption DEF IInv
<1>1. PICK k \in Keys : k = call[p].key
  BY <1>0 DEF Created, CallState
<1>2. /\ call[p].pc = "wants" /\ mu = None /\ pool[k] = None /\ Create(p, k, pool)
      /\ UNCHANGED <<mu, closed, saved, conn, current, crashes, met, missed>>
  BY <1>1 DEF Created, Create
<1>3. pool \in [Keys -> Sessions \cup {None}] /\ mu \in Calls \cup {None}
  BY <1>0 DEF TypeOK
<1>4. \A l \in Keys : pool[l] # None => pool[l] # call[p].session
  BY <1>0, <1>2 DEF CallState
<1>5. \A t \in Sessions : Running(t) => pool[session[t].key] = t
  BY <1>0 DEF PoolState
<1>6. \A q \in Calls : call[q].pc # "evicts"
  BY <1>0, <1>2, NobodyEvicts
<1> QED
  BY <1>2, <1>3, <1>4, <1>5, <1>6, CreateStep

LEMMA EvictedStep ==
  ASSUME IInv, NEW p \in Calls, Evicted(p)
  PROVE  IInv'
<1>0. TypeOK /\ PoolState /\ CallState /\ None \notin Sessions
  BY NoneAssumption DEF IInv
<1> DEFINE s == call[p].session
           others == [l \in Keys |-> IF pool[l] = s THEN None ELSE pool[l]]
<1>1. call[p].pc = "evicts" /\ call[p].key \in Keys /\ s \in Sessions /\ ~Running(s)
  BY <1>0 DEF Evicted, CallState, Ended, Running
<1>2. PICK k \in Keys : k = call[p].key
  BY <1>1
<1>3. /\ Create(p, k, others) /\ mu' = None
      /\ UNCHANGED <<closed, saved, conn, current, crashes, met, missed>>
  BY <1>2 DEF Evicted, Create
<1>4. others \in [Keys -> Sessions \cup {None}]
  BY <1>0 DEF TypeOK
<1>5. \A l \in Keys : others[l] # None => others[l] = pool[l] /\ others[l] # s
  BY <1>0
<1>6. ASSUME NEW t \in Sessions, Running(t)
      PROVE  others[session[t].key] = t
  <2>1. t # s
    BY <1>1, <1>6 DEF Running
  <2>2. session[t].key \in Keys /\ pool[session[t].key] = t
    BY <1>0, <1>6 DEF PoolState
  <2> QED
    BY <2>1, <2>2
<1>7. \A q \in Calls : q # p => call[q].pc # "evicts"
  BY <1>0, <1>1 DEF CallState
<1>8. pool[k] = None
  BY <1>0, <1>1, <1>2 DEF CallState
<1> HIDE DEF others
<1> QED
  BY <1>3, <1>4, <1>5, <1>6, <1>7, <1>8, CreateStep

-----------------------------------------------------------------------------
(* The handshake                                                           *)

LEMMA DialStep ==
  ASSUME IInv, NEW s \in Sessions, Dial(s)
  PROVE  IInv'
<1>0. /\ TypeOK /\ PoolState /\ CallState /\ WireOfSession /\ WireHasSession /\ TokenState
      /\ Chain /\ None \notin Conns /\ session[s] \in SessionStates
  BY Typed DEF IInv
<1>1. PICK c \in Conns :
        /\ session[s].run = "top" /\ conn[c].stage = "new"
        /\ conn' = [conn EXCEPT ![c] = [stage |-> "hello", open |-> TRUE,
                       key |-> session[s].key, token |-> session[s].token]]
        /\ session' = [session EXCEPT ![s] =
                         [session[s] EXCEPT !.run = "dialled", !.conn = c]]
        /\ UNCHANGED <<mu, closed, pool, saved, recency, call, current, crashes, met, missed>>
  BY DEF Dial, Goto, manager
<1> DEFINE r == [session[s] EXCEPT !.run = "dialled", !.conn = c]
           h == [stage |-> "hello", open |-> TRUE, key |-> session[s].key,
                 token |-> session[s].token]
<1>2. /\ r \in SessionStates /\ r.run = "dialled" /\ r.conn = c
      /\ r.key = session[s].key /\ r.token = session[s].token
      /\ r.registered = session[s].registered
  BY <1>0 DEF SessionStates
<1>3. /\ h \in ConnStates /\ h.stage = "hello" /\ h.open /\ h.key = session[s].key
      /\ h.token = session[s].token
  BY <1>0 DEF SessionStates, ConnStates
<1>4. session' = [session EXCEPT ![s] = r] /\ conn' = [conn EXCEPT ![c] = h]
  BY <1>1
<1> HIDE DEF r, h
<1>5. /\ session' \in [Sessions -> SessionStates] /\ session'[s] = r
      /\ \A q \in Sessions : q # s => session'[q] = session[q]
  BY <1>0, <1>2, <1>4, SessionGoes
<1>6. /\ conn' \in [Conns -> ConnStates] /\ conn'[c] = h
      /\ \A d \in Conns : d # c => conn'[d] = conn[d]
  <2>1. conn \in [Conns -> ConnStates]
    BY <1>0 DEF TypeOK
  <2> QED
    BY <1>3, <1>4, <2>1
<1>7. ASSUME NEW q \in Sessions, Connected(q) PROVE q # s /\ session[q].conn \in Conns \ {c}
  BY <1>0, <1>1, <1>7 DEF WireOfSession, Connected
<1>8. session[s].key \in Keys /\ Running(s) /\ ~session[s].registered /\ ~Connected(s)
  BY <1>0, <1>1 DEF PoolState, Running, WireOfSession, Connected
<1>9. \A q \in Sessions : q # s => (Connected(q)' <=> Connected(q))
  BY <1>5 DEF Connected
<1>10. Connected(s)'
  BY <1>2, <1>5 DEF Connected
<1>11. PoolState'
  <2>1. recency \in Seq(Sessions)
    BY <1>0 DEF TypeOK
  <2>2. ASSUME NEW q \in Sessions
        PROVE  /\ Running(q)' => Running(q) /\ session'[q].key = session[q].key
               /\ session[q].run # "new" => session'[q].run # "new"
    <3>1. CASE q = s
      BY <1>2, <1>5, <1>8, <3>1
    <3>2. CASE q # s
      BY <1>5, <3>2 DEF Running
    <3> QED
      BY <3>1, <3>2
  <2> QED
    BY <1>0, <1>1, <2>1, <2>2, PoolKept
<1>12. WireOfSession'
  <2>1. ASSUME NEW q \in Sessions
        PROVE  /\ Connected(q)' =>
                    session'[q].conn \in Conns /\ conn'[session'[q].conn].stage # "new"
               /\ session'[q].registered => Connected(q)'
               /\ session'[q].run = "reporting"
                    => /\ session'[q].token = session'[q].conn
                       /\ conn'[session'[q].conn].stage = "used"
    <3>1. CASE q = s
      BY <1>2, <1>3, <1>5, <1>6, <1>10, <3>1
    <3>2. CASE q # s
      <4>1. session'[q] = session[q]
        BY <1>5, <3>2
      <4>2. session[q].run = "reporting" => Connected(q)
        BY DEF Connected
      <4> QED
        BY <1>0, <1>6, <1>7, <1>9, <3>2, <4>1, <4>2 DEF WireOfSession
    <3> QED
      BY <3>1, <3>2
  <2>2. ASSUME NEW q \in Sessions, NEW t \in Sessions, Connected(q)', Connected(t)',
               session'[q].conn = session'[t].conn
        PROVE  t = q
    <3>1. \A u \in Sessions : u # s /\ Connected(u)' => session'[u].conn # c
      BY <1>5, <1>7, <1>9
    <3>2. CASE q = s \/ t = s
      BY <1>2, <1>5, <2>2, <3>1, <3>2
    <3>3. CASE q # s /\ t # s
      <4>1. Connected(q) /\ Connected(t) /\ session[q].conn = session[t].conn
        BY <1>5, <1>9, <2>2, <3>3
      <4> QED
        BY <1>0, <4>1 DEF WireOfSession
    <3> QED
      BY <3>2, <3>3
  <2> QED
    BY <2>1, <2>2 DEF WireOfSession, Connected
<1>13. WireHasSession'
  <2>1. ASSUME NEW d \in Conns
        PROVE  /\ conn'[d].stage \in {"hello", "welcome"} => conn'[d].key \in Keys
               /\ conn'[d].stage = "welcome" => conn'[d].open
               /\ conn'[d].open =>
                    \E q \in Sessions :
                      /\ Connected(q)' /\ session'[q].conn = d
                      /\ conn'[d].stage \in {"hello", "welcome"} =>
                           session'[q].key = conn'[d].key
    <3>1. CASE d = c
      BY <1>2, <1>3, <1>5, <1>6, <1>8, <1>10, <3>1
    <3>2. CASE d # c
      <4>1. conn'[d] = conn[d]
        BY <1>6, <3>2
      <4>2. ASSUME conn[d].open
            PROVE  \E q \in Sessions :
                     /\ Connected(q)' /\ session'[q].conn = d
                     /\ conn[d].stage \in {"hello", "welcome"} => session'[q].key = conn[d].key
        <5>1. PICK q \in Sessions :
                /\ Connected(q) /\ session[q].conn = d
                /\ conn[d].stage \in {"hello", "welcome"} => session[q].key = conn[d].key
          BY <1>0, <4>2 DEF WireHasSession
        <5>2. session'[q] = session[q] /\ Connected(q)'
          BY <1>5, <1>7, <1>9, <5>1
        <5> QED
          BY <5>1, <5>2
      <4> QED
        BY <1>0, <4>1, <4>2 DEF WireHasSession
    <3> QED
      BY <3>1, <3>2
  <2> QED
    BY <2>1 DEF WireHasSession, Connected
<1>14. TokenState'
  <2>1. \A d \in Conns : Answered(d) => Answered(d)'
    BY <1>1, <1>6 DEF Answered
  <2>2. ASSUME NEW k \in Keys, NEW t \in Tokens, Holds(k, t)'
        PROVE  Holds(k, t)
    <3>1. CASE saved'[k] = t
      BY <1>1, <3>1 DEF Holds
    <3>2. CASE \E q \in Sessions : session'[q].key = k /\ session'[q].token = t
      <4>1. PICK q \in Sessions : session'[q].key = k /\ session'[q].token = t
        BY <3>2
      <4>2. session[q].key = k /\ session[q].token = t
        BY <1>2, <1>5, <4>1
      <4> QED
        BY <4>2 DEF Holds
    <3>3. CASE \E d \in Conns : /\ conn'[d].stage = "hello"
                                /\ conn'[d].key = k /\ conn'[d].token = t
      <4>1. PICK d \in Conns : conn'[d].stage = "hello" /\ conn'[d].key = k /\ conn'[d].token = t
        BY <3>3
      <4>2. CASE d = c
        BY <1>3, <1>6, <4>1, <4>2 DEF Holds
      <4>3. CASE d # c
        BY <1>6, <4>1, <4>3 DEF Holds
      <4> QED
        BY <4>2, <4>3
    <3>4. CASE conn'[t].stage = "welcome" /\ conn'[t].key = k
      <4>1. conn'[t] = conn[t]
        BY <1>3, <1>6, <3>4 DEF Tokens
      <4> QED
        BY <3>4, <4>1 DEF Holds
    <3> QED
      BY <2>2, <3>1, <3>2, <3>3, <3>4 DEF Holds
  <2>3. current \in [AgentIds -> Tokens \cup {None}] /\ met \in [Keys -> SUBSET AgentIds]
    BY <1>0 DEF TypeOK
  <2> QED
    BY <1>0, <1>1, <2>1, <2>2, <2>3, TokenKept
<1>15. ~InFlight(s) /\ ~InFlight(s)'
  BY <1>1, <1>2, <1>3, <1>5, <1>6 DEF InFlight, Connected
<1>16. ASSUME NEW q \in Sessions, q # s PROVE InFlight(q)' <=> InFlight(q)
  <2>1. session'[q] = session[q]
    BY <1>5, <1>16
  <2>2. Connected(q) => conn'[session[q].conn] = conn[session[q].conn]
    BY <1>6, <1>7
  <2> QED
    BY <1>9, <1>16, <2>1, <2>2 DEF InFlight
<1>17. Chain'
  <2> SUFFICES ASSUME NEW k \in Keys, k \notin missed' PROVE ChainOf(k)'
    BY DEF Chain
  <2>1. ChainOf(k)
    BY <1>0, <1>1 DEF Chain
  <2>2. ASSUME NEW q \in Sessions
        PROVE  /\ Running(q)' <=> Running(q)
               /\ session'[q].key = session[q].key /\ session'[q].token = session[q].token
               /\ InFlight(q)' <=> InFlight(q)
               /\ InFlight(q) => session'[q].conn = session[q].conn
    <3>1. CASE q = s
      BY <1>2, <1>5, <1>8, <1>15, <3>1 DEF Running
    <3>2. CASE q # s
      BY <1>5, <1>16, <3>2 DEF Running
    <3> QED
      BY <3>1, <3>2
  <2>3. ASSUME NEW d \in Conns, conn'[d].stage = "hello", conn'[d].open, conn'[d].key = k
        PROVE  \/ /\ conn[d].stage = "hello" /\ conn[d].open /\ conn[d].key = k
                  /\ conn'[d].token = conn[d].token
               \/ conn'[d].token = saved[k]
    <3>1. CASE d = c
      <4>1. session[s].token = saved[k]
        BY <1>3, <1>6, <1>8, <1>15, <2>1, <2>3, <3>1 DEF ChainOf
      <4> QED
        BY <1>3, <1>6, <3>1, <4>1
    <3>2. CASE d # c
      BY <1>6, <2>3, <3>2
    <3> QED
      BY <3>1, <3>2
  <2>4. \A q \in Sessions : Running(q)' /\ session'[q].key = k =>
          /\ Running(q) /\ session[q].key = k
          /\ InFlight(q)' => InFlight(q) /\ session'[q].conn = session[q].conn
          /\ ~InFlight(q)' => session'[q].token = session[q].token
    BY <2>2
  <2>5. \A q \in Sessions : Running(q) /\ session[q].key = k /\ InFlight(q) =>
          Running(q)' /\ session'[q].key = k /\ InFlight(q)'
    BY <2>2
  <2>6. saved'[k] = saved[k] /\ met'[k] = met[k] /\ \A a \in met[k] : current'[a] = current[a]
    BY <1>1
  <2> QED
    BY <2>1, <2>3, <2>4, <2>5, <2>6, ChainKept
<1>18. TypeOK' /\ CallState'
  BY <1>0, <1>1, <1>5, <1>6 DEF TypeOK, CallState
<1> QED
  BY <1>11, <1>12, <1>13, <1>14, <1>17, <1>18 DEF IInv

LEMMA ReadWelcomeStep ==
  ASSUME IInv, NEW s \in Sessions, ReadWelcome(s)
  PROVE  IInv'
<1>0. /\ TypeOK /\ PoolState /\ CallState /\ WireOfSession /\ WireHasSession /\ TokenState
      /\ Chain /\ session[s] \in SessionStates
  BY Typed DEF IInv
<1>1. PICK c \in Conns : c = session[s].conn
  BY <1>0 DEF ReadWelcome, WireOfSession, Connected
<1> DEFINE r == [session[s] EXCEPT !.run = "reporting", !.token = c]
<1>2. /\ session[s].run = "reading" /\ conn[c].stage = "welcome" /\ conn[c].open
      /\ conn' = [conn EXCEPT ![c] = Used(TRUE)]
      /\ session' = [session EXCEPT ![s] = r]
      /\ UNCHANGED <<mu, closed, pool, saved, recency, call, current, crashes, met, missed>>
  BY <1>1 DEF ReadWelcome, Goto, manager, TokenOf
<1>3. /\ r \in SessionStates /\ r.run = "reporting" /\ r.conn = c /\ r.token = c
      /\ r.key = session[s].key /\ r.registered = session[s].registered
  BY <1>0, <1>1 DEF SessionStates, Tokens
<1> HIDE DEF r
<1>4. /\ Used(TRUE) \in ConnStates /\ Used(TRUE).stage = "used" /\ Used(TRUE).open = TRUE
      /\ Used(TRUE).key = None
  BY UsedType
<1>5. /\ session' \in [Sessions -> SessionStates] /\ session'[s] = r
      /\ \A q \in Sessions : q # s => session'[q] = session[q]
  BY <1>0, <1>2, <1>3, SessionGoes
<1>6. /\ conn' \in [Conns -> ConnStates] /\ conn'[c] = Used(TRUE)
      /\ \A d \in Conns : d # c => conn'[d] = conn[d]
  <2>1. conn \in [Conns -> ConnStates]
    BY <1>0 DEF TypeOK
  <2> QED
    BY <1>2, <1>4, <2>1
<1>7. Connected(s) /\ Connected(s)' /\ session[s].key \in Keys /\ session[s].key = conn[c].key
  <2>1. Connected(s) /\ Connected(s)' /\ session[s].key \in Keys
    BY <1>0, <1>2, <1>3, <1>5 DEF Connected, Running, PoolState
  <2>2. session[s].key = conn[session[s].conn].key
    BY <1>0, <1>1, <1>2, <2>1, WireKey
  <2> QED
    BY <1>1, <2>1, <2>2
<1>8. ASSUME NEW q \in Sessions, q # s, Connected(q)
      PROVE  session[q].conn \in Conns \ {c}
  BY <1>0, <1>1, <1>7, <1>8 DEF WireOfSession
<1>9. \A q \in Sessions : (Connected(q)' <=> Connected(q)) /\ (Running(q)' <=> Running(q))
  <2>1. ASSUME NEW q \in Sessions, q # s
        PROVE  (Connected(q)' <=> Connected(q)) /\ (Running(q)' <=> Running(q))
    BY <1>5, <2>1 DEF Connected, Running
  <2>2. Running(s)' /\ Running(s)
    BY <1>2, <1>3, <1>5 DEF Running
  <2> QED
    BY <1>7, <2>1, <2>2
<1>10. \A q \in Sessions :
         session'[q].key = session[q].key /\ session'[q].conn = session[q].conn
           /\ session'[q].registered = session[q].registered
  BY <1>1, <1>3, <1>5
<1>11. PoolState'
  <2>1. recency \in Seq(Sessions)
    BY <1>0 DEF TypeOK
  <2>2. \A q \in Sessions : session[q].run # "new" => session'[q].run # "new"
    BY <1>3, <1>5
  <2> QED
    BY <1>0, <1>2, <1>9, <1>10, <2>1, <2>2, PoolKept
<1>12. WireOfSession' /\ WireHasSession'
  <2>1. WiresKept
    BY <1>0, <1>2, <1>4, <1>6 DEF WiresKept, WireHasSession
  <2>2. ASSUME NEW q \in Sessions, session'[q].run = "reporting"
        PROVE  session'[q].token = session'[q].conn /\ conn'[session'[q].conn].stage = "used"
    <3>1. CASE q = s
      BY <1>3, <1>4, <1>5, <1>6, <3>1
    <3>2. CASE q # s
      <4>1. session'[q] = session[q] /\ Connected(q)
        BY <1>5, <2>2, <3>2 DEF Connected
      <4> QED
        BY <1>0, <1>6, <1>8, <2>2, <3>2, <4>1 DEF WireOfSession
    <3> QED
      BY <3>1, <3>2
  <2>3. ReadersKept
    BY <1>0, <1>9, <1>10, <2>2 DEF ReadersKept, WireOfSession
  <2> QED
    BY <1>0, <2>1, <2>3, WireKept
<1>13. TokenState'
  <2>1. \A d \in Conns : Answered(d) => Answered(d)'
    BY <1>4, <1>6 DEF Answered
  <2>2. ASSUME NEW k \in Keys, NEW t \in Tokens, Holds(k, t)'
        PROVE  Holds(k, t)
    <3>1. CASE saved'[k] = t
      BY <1>2, <3>1 DEF Holds
    <3>2. CASE \E q \in Sessions : session'[q].key = k /\ session'[q].token = t
      <4>1. PICK q \in Sessions : session'[q].key = k /\ session'[q].token = t
        BY <3>2
      <4>2. CASE q = s
        <5>1. t = c /\ k = conn[c].key
          BY <1>3, <1>5, <1>7, <4>1, <4>2
        <5> QED
          BY <1>2, <5>1 DEF Holds
      <4>3. CASE q # s
        BY <1>5, <4>1, <4>3 DEF Holds
      <4> QED
        BY <4>2, <4>3
    <3>3. CASE \E d \in Conns : /\ conn'[d].stage = "hello"
                                /\ conn'[d].key = k /\ conn'[d].token = t
      BY <1>4, <1>6, <3>3 DEF Holds
    <3>4. CASE conn'[t].stage = "welcome" /\ conn'[t].key = k
      BY <1>4, <1>6, <3>4 DEF Holds, Tokens
    <3> QED
      BY <2>2, <3>1, <3>2, <3>3, <3>4 DEF Holds
  <2>3. current \in [AgentIds -> Tokens \cup {None}] /\ met \in [Keys -> SUBSET AgentIds]
    BY <1>0 DEF TypeOK
  <2> QED
    BY <1>0, <1>2, <2>1, <2>2, <2>3, TokenKept
<1>14. ASSUME NEW q \in Sessions PROVE InFlight(q)' <=> InFlight(q)
  <2>1. CASE q = s
    BY <1>1, <1>2, <1>3, <1>5, <1>7, <2>1 DEF InFlight
  <2>2. CASE q # s
    <3>1. session'[q] = session[q]
      BY <1>5, <2>2
    <3>2. Connected(q) => conn'[session[q].conn] = conn[session[q].conn]
      BY <1>6, <1>8, <2>2
    <3> QED
      BY <1>9, <3>1, <3>2 DEF InFlight
  <2> QED
    BY <2>1, <2>2
<1>15. Chain'
  <2> SUFFICES ASSUME NEW k \in Keys, k \notin missed' PROVE ChainOf(k)'
    BY DEF Chain
  <2>1. ChainOf(k)
    BY <1>0, <1>2 DEF Chain
  <2>2. InFlight(s)'
    BY <1>3, <1>5 DEF InFlight
  <2>3. \A q \in Sessions : Running(q)' /\ session'[q].key = k =>
          /\ Running(q) /\ session[q].key = k
          /\ InFlight(q)' => InFlight(q) /\ session'[q].conn = session[q].conn
          /\ ~InFlight(q)' => session'[q].token = session[q].token
    BY <1>5, <1>9, <1>10, <1>14, <2>2
  <2>4. \A q \in Sessions : Running(q) /\ session[q].key = k /\ InFlight(q) =>
          Running(q)' /\ session'[q].key = k /\ InFlight(q)'
    BY <1>9, <1>10, <1>14
  <2>5. \A d \in Conns : conn'[d].stage = "hello" => conn'[d] = conn[d]
    BY <1>4, <1>6
  <2>6. saved'[k] = saved[k] /\ met'[k] = met[k] /\ \A a \in met[k] : current'[a] = current[a]
    BY <1>2
  <2> QED
    BY <2>1, <2>3, <2>4, <2>5, <2>6, ChainKept
<1>16. TypeOK' /\ CallState'
  BY <1>0, <1>2, <1>5, <1>6 DEF TypeOK, CallState
<1> QED
  BY <1>11, <1>12, <1>13, <1>15, <1>16 DEF IInv

LEMMA ReportStep ==
  ASSUME IInv, NEW s \in Sessions, Report(s)
  PROVE  IInv'
<1>0. /\ TypeOK /\ PoolState /\ CallState /\ WireOfSession /\ WireHasSession /\ TokenState
      /\ Chain /\ session[s] \in SessionStates /\ None \notin Keys
  BY Typed DEF IInv
<1>1. /\ session[s].run = "reporting" /\ Connected(s) /\ Running(s)
      /\ ReadOn(s, session[s].registered)
      /\ UNCHANGED <<mu, closed, pool, recency, call, current, crashes, met>>
  BY DEF Report, Connected, Running
<1>2. PICK k \in Keys : k = session[s].key
  BY <1>0, <1>1 DEF PoolState
<1>3. PICK c \in Conns : c = session[s].conn
  BY <1>0, <1>1 DEF WireOfSession
<1>4. /\ saved' = IF closed THEN saved ELSE [saved EXCEPT ![k] = c]
      /\ missed' = IF closed THEN missed \cup {k} ELSE missed
  BY <1>2, <1>3 DEF Report, Saved
<1>5. session[s].token = c /\ conn[c].stage = "used"
  BY <1>0, <1>1, <1>3 DEF WireOfSession
<1>6. saved' \in [Keys -> Tokens \cup {None}] /\ missed' \subseteq Keys /\ missed \subseteq missed'
  BY <1>0, <1>4 DEF TypeOK, Tokens
<1>7. ConnsWind /\ conn' \in [Conns -> ConnStates]
  <2>1. CASE session[s].stop
    <3>1. PICK C \in SUBSET Conns : C = {c}
      OBVIOUS
    <3>2. conn' = Closing({session[s].conn})
      BY <2>1, <1>1 DEF ReadOn
    <3>3. conn' = Closing(C)
      BY <1>3, <3>1, <3>2 DEF Closing
    <3> QED
      BY <1>0, <3>3, ClosingWinds
  <2>2. CASE ~session[s].stop
    <3>1. conn' = conn
      BY <1>1, <2>2 DEF ReadOn
    <3> QED
      BY <1>0, <3>1 DEF ConnsWind, WireHasSession, TypeOK
  <2> QED
    BY <2>1, <2>2
\* the session reads on, or has closed its connection
<1>8. \E r \in SessionStates :
        /\ session' = [session EXCEPT ![s] = r]
        /\ \/ r = Dead /\ ~conn'[c].open
           \/ /\ r.run = "reading" /\ r.registered = session[s].registered
              /\ r.key = k /\ r.conn = c /\ r.token = c
  <2>1. session[s].registered \in BOOLEAN
    BY <1>0 DEF SessionStates
  <2>2. CASE session[s].stop
    <3>1. /\ session' = [session EXCEPT ![s] = Dead]
          /\ {session[s].conn} \in SUBSET Conns /\ conn' = Closing({session[s].conn})
      BY <1>0, <1>1, <2>1, <2>2, ReadOnEffect
    <3>2. ~conn'[c].open
      BY <1>0, <1>3, <3>1, ClosingEffect
    <3> QED
      BY <3>1, <3>2, DeadType
  <2>3. CASE ~session[s].stop
    <3>1. \E r \in SessionStates :
            /\ session' = [session EXCEPT ![s] = r]
            /\ r.run = "reading" /\ r.registered = session[s].registered
            /\ r.key = session[s].key /\ r.conn = session[s].conn
            /\ r.token = session[s].token
      BY <1>0, <1>1, <2>1, <2>3, ReadOnEffect
    <3> QED
      BY <1>2, <1>3, <1>5, <3>1
  <2> QED
    BY <2>2, <2>3
<1>9. PICK r \in SessionStates :
        /\ session' = [session EXCEPT ![s] = r]
        /\ \/ r = Dead /\ ~conn'[c].open
           \/ /\ r.run = "reading" /\ r.registered = session[s].registered
              /\ r.key = k /\ r.conn = c /\ r.token = c
  BY <1>8
<1>10. /\ session' \in [Sessions -> SessionStates] /\ session'[s] = r
       /\ \A q \in Sessions : q # s => session'[q] = session[q]
  BY <1>0, <1>9, SessionGoes
<1>11. PoolState'
  <2>1. recency \in Seq(Sessions)
    BY <1>0 DEF TypeOK
  <2>2. ASSUME NEW q \in Sessions
        PROVE  /\ Running(q)' => Running(q) /\ session'[q].key = session[q].key
               /\ session[q].run # "new" => session'[q].run # "new"
    <3>1. CASE q = s
      BY <1>1, <1>2, <1>9, <1>10, <3>1, DeadType DEF Running
    <3>2. CASE q # s
      BY <1>10, <3>2 DEF Running
    <3> QED
      BY <3>1, <3>2
  <2> QED
    BY <1>0, <1>1, <2>1, <2>2, PoolKept
<1>12. WireOfSession' /\ WireHasSession'
  <2>1. WiresKept
    BY <1>7 DEF WiresKept, ConnsWind
  <2>2. ASSUME NEW q \in Sessions
        PROVE  /\ Connected(q)' => Connected(q) /\ session'[q].conn = session[q].conn
               /\ session'[q].registered => Connected(q)'
               /\ Connected(q) /\ conn'[session[q].conn].open =>
                    Connected(q)' /\ session'[q].key = session[q].key
               /\ session'[q].run = "reporting" =>
                    /\ session'[q].token = session'[q].conn
                    /\ conn'[session'[q].conn].stage = "used"
    <3>1. CASE q = s /\ r = Dead
      <4>1. ~Connected(s)' /\ session'[s].registered = FALSE /\ session'[s].run = "done"
        BY <1>10, <3>1, DeadType DEF Connected
      <4> QED
        BY <1>3, <1>9, <3>1, <4>1, DeadType
    <3>2. CASE q = s /\ r # Dead
      <4>1. Connected(s)'
        BY <1>9, <1>10, <3>2 DEF Connected
      <4> QED
        BY <1>1, <1>2, <1>3, <1>9, <1>10, <3>2, <4>1
    <3>3. CASE q # s
      <4>1. session'[q] = session[q] /\ (Connected(q)' <=> Connected(q))
        BY <1>10, <3>3 DEF Connected
      <4>2. session[q].run = "reporting" => Connected(q)
        BY DEF Connected
      <4> QED
        BY <1>0, <1>7, <4>1, <4>2 DEF WireOfSession, ConnsWind
    <3> QED
      BY <3>1, <3>2, <3>3
  <2>3. ReadersKept
    BY <2>2 DEF ReadersKept
  <2> QED
    BY <1>0, <2>1, <2>3, WireKept
<1>13. TokenState'
  <2>1. \A d \in Conns : Answered(d) => Answered(d)'
    BY <1>7 DEF ConnsWind, Answered
  <2>2. ASSUME NEW l \in Keys, NEW t \in Tokens, Holds(l, t)'
        PROVE  Holds(l, t)
    <3>1. CASE saved'[l] = t
      <4>1. CASE saved[l] = t
        BY <4>1 DEF Holds
      <4>2. CASE saved[l] # t
        <5>1. l = k /\ t = c
          BY <1>0, <1>4, <3>1, <4>2 DEF TypeOK
        <5> QED
          BY <1>2, <1>5, <5>1 DEF Holds
      <4> QED
        BY <4>1, <4>2
    <3>2. CASE \E q \in Sessions : session'[q].key = l /\ session'[q].token = t
      <4>1. PICK q \in Sessions : session'[q].key = l /\ session'[q].token = t
        BY <3>2
      <4>2. session[q].key = l /\ session[q].token = t
        BY <1>0, <1>2, <1>5, <1>9, <1>10, <4>1, DeadType
      <4> QED
        BY <4>2 DEF Holds
    <3>3. CASE \E d \in Conns : /\ conn'[d].stage = "hello"
                                /\ conn'[d].key = l /\ conn'[d].token = t
      BY <1>7, <3>3 DEF Holds, ConnsWind
    <3>4. CASE conn'[t].stage = "welcome" /\ conn'[t].key = l
      BY <1>7, <3>4 DEF Holds, ConnsWind, Tokens
    <3> QED
      BY <2>2, <3>1, <3>2, <3>3, <3>4 DEF Holds
  <2>3. current \in [AgentIds -> Tokens \cup {None}] /\ met \in [Keys -> SUBSET AgentIds]
    BY <1>0 DEF TypeOK
  <2> QED
    BY <1>0, <1>1, <2>1, <2>2, <2>3, TokenKept
\* nobody else is connected by c
<1>14. ASSUME NEW q \in Sessions, q # s
       PROVE  /\ session'[q] = session[q]
              /\ Running(q)' <=> Running(q)
              /\ InFlight(q)' <=> InFlight(q)
  <2>1. session'[q] = session[q] /\ (Connected(q)' <=> Connected(q))
    BY <1>10, <1>14 DEF Connected
  <2>2. ASSUME Connected(q)
        PROVE  conn'[session[q].conn].stage = conn[session[q].conn].stage
    <3>1. session[q].conn \in Conns \ {c}
      BY <1>0, <1>1, <1>3, <1>14, <2>2 DEF WireOfSession
    <3>2. CASE session[s].stop
      <4>1. conn' = Closing({session[s].conn})
        BY <1>1, <3>2 DEF ReadOn
      <4> QED
        BY <1>3, <3>1, <4>1 DEF Closing
    <3>3. CASE ~session[s].stop
      BY <1>1, <3>3 DEF ReadOn
    <3> QED
      BY <3>2, <3>3
  <2> QED
    BY <2>1, <2>2 DEF InFlight, Running
<1>15. ~InFlight(s)'
  <2>1. conn'[c].stage = "used"
    BY <1>5, <1>7 DEF ConnsWind
  <2> QED
    BY <1>9, <1>10, <2>1, DeadType DEF InFlight, Connected
<1>16. Chain'
  <2> SUFFICES ASSUME NEW l \in Keys, l \notin missed' PROVE ChainOf(l)'
    BY DEF Chain
  <2>1. ChainOf(l)
    BY <1>0, <1>6 DEF Chain
  <2>2. CASE l # k
    <3>1. \A q \in Sessions : Running(q)' /\ session'[q].key = l => q # s
      BY <1>0, <1>9, <1>10, <2>2, DeadType
    <3>2. \A q \in Sessions : Running(q)' /\ session'[q].key = l =>
            /\ Running(q) /\ session[q].key = l
            /\ InFlight(q)' => InFlight(q) /\ session'[q].conn = session[q].conn
            /\ ~InFlight(q)' => session'[q].token = session[q].token
      BY <1>14, <3>1
    <3>3. \A q \in Sessions : Running(q) /\ session[q].key = l /\ InFlight(q) =>
            Running(q)' /\ session'[q].key = l /\ InFlight(q)'
      BY <1>2, <1>14, <2>2
    <3>4. ASSUME NEW d \in Conns, conn'[d].stage = "hello", conn'[d].open, conn'[d].key = l
          PROVE  /\ conn[d].stage = "hello" /\ conn[d].open /\ conn[d].key = l
                 /\ conn'[d].token = conn[d].token
      BY <1>7, <3>4 DEF ConnsWind
    <3>5. saved'[l] = saved[l] /\ met'[l] = met[l] /\ \A a \in met[l] : current'[a] = current[a]
      BY <1>0, <1>1, <1>4, <2>2 DEF TypeOK
    <3> QED
      BY <2>1, <3>2, <3>3, <3>4, <3>5, ChainKept
  <2>3. CASE l = k
    <3>1. saved'[k] = c
      BY <1>0, <1>4, <2>3 DEF TypeOK
    <3>2. Expects(k, c)
      <4>1. InFlight(s)
        BY <1>1 DEF InFlight
      <4>2. Expects(k, session[s].conn)
        BY <1>1, <1>2, <2>1, <2>3, <4>1 DEF ChainOf
      <4> QED
        BY <1>3, <4>2 DEF Expects
    <3>3. Expects(k, saved[k])'
      BY <1>1, <3>1, <3>2 DEF Expects
    <3>4. ASSUME NEW q \in Sessions, Running(q)', session'[q].key = k
          PROVE  q = s
      <4> SUFFICES ASSUME q # s PROVE FALSE
        OBVIOUS
      <4>1. Running(q) /\ session[q].key = k
        BY <1>14, <3>4
      <4> QED
        BY <1>0, <1>1, <1>2, <4>1 DEF PoolState
    <3>5. Running(s)' => session'[s].token = saved'[k]
      BY <1>9, <1>10, <3>1, DeadType DEF Running
    <3>6. ASSUME NEW d \in Conns, conn'[d].stage = "hello", conn'[d].open, conn'[d].key = k
          PROVE  FALSE
      <4>1. conn[d].stage = "hello" /\ conn[d].open /\ conn[d].key = k
        BY <1>7, <3>6 DEF ConnsWind
      <4>2. PICK q \in Sessions : Connected(q) /\ session[q].conn = d /\ session[q].key = k
        BY <1>0, <4>1 DEF WireHasSession
      <4>3. Running(q)
        BY <4>2 DEF Connected, Running
      <4>4. q = s
        BY <1>0, <1>1, <1>2, <4>2, <4>3 DEF PoolState
      <4> QED
        BY <1>3, <1>5, <4>1, <4>2, <4>4
    <3>7. \A q \in Sessions : Running(q)' /\ session'[q].key = k =>
            IF InFlight(q)' THEN Expects(k, session[q].conn)' ELSE session'[q].token = saved'[k]
      BY <1>15, <3>4, <3>5
    <3> QED
      BY <2>3, <3>3, <3>6, <3>7 DEF ChainOf
  <2> QED
    BY <2>2, <2>3
<1>17. TypeOK' /\ CallState'
  BY <1>0, <1>1, <1>6, <1>7, <1>10 DEF TypeOK, CallState
<1> QED
  BY <1>11, <1>12, <1>13, <1>16, <1>17 DEF IInv

\* The server resumes the agent of the token, whose key is the one that says
\* HELLO, or the connection gets an agent of its own.
\* The token of a is c; only agents of a key that missed something lose theirs.
Given(c, a, k) ==
  \E lost \in SUBSET AgentOf(c) :
    /\ current' = [b \in AgentIds |-> IF b = a THEN c ELSE IF b \in lost THEN None ELSE current[b]]
    /\ lost = {} \/ k \in missed'

LEMMA WelcomeEffect ==
  ASSUME IInv, NEW c \in Conns, ServerWelcome(c) \/ AttachFails(c)
  PROVE  /\ conn[c].stage = "hello" /\ conn[c].key \in Keys
         /\ \E a \in AgentIds :
              /\ Given(c, a, conn[c].key)
              /\ met' = [met EXCEPT ![conn[c].key] = @ \cup {a}]
              /\ \/ /\ conn[c].token # None /\ current[a] = conn[c].token
                    /\ a \in met[conn[c].key]
                 \/ /\ a = c
                    /\ conn[c].key \in missed' \/ AgentOf(c) = {}
         /\ \E n \in ConnStates :
              /\ conn' = [conn EXCEPT ![c] = n]
              /\ IF conn[c].open
                 THEN n.stage = "welcome" /\ n.key = conn[c].key /\ n.open
                 ELSE n.stage = "used" /\ ~n.open
         /\ missed' \in {missed, missed \cup {conn[c].key}}
         /\ conn[c].open \/ conn[c].key \in missed'
         /\ UNCHANGED <<mu, closed, pool, saved, recency, session, call, crashes>>
<1>0. TypeOK /\ WireHasSession /\ TokenState /\ conn[c] \in ConnStates
  BY Typed DEF IInv
<1>1. PICK a \in AgentIds :
        /\ a \in AgentOf(c) \/ (a = c /\ (conn[c].key \in missed' \/ AgentOf(c) = {}))
        /\ conn[c].stage = "hello"
        /\ conn' = [conn EXCEPT ![c] = IF conn[c].open THEN [conn[c] EXCEPT !.stage = "welcome"]
                                       ELSE Used(FALSE)]
        /\ Given(c, a, conn[c].key)
        /\ met' = [met EXCEPT ![conn[c].key] = @ \cup {a}]
        /\ missed' \in {missed, missed \cup {conn[c].key}}
        /\ conn[c].open \/ conn[c].key \in missed'
        /\ UNCHANGED <<mu, closed, pool, saved, recency, session, call, crashes>>
  <2>1. CASE ServerWelcome(c)
    <3>1. PICK b \in (IF AgentOf(c) = {} THEN {c} ELSE AgentOf(c)) : Welcomes(c, b, {})
      BY <2>1 DEF ServerWelcome
    <3>2. b \in AgentIds /\ (b \in AgentOf(c) \/ (b = c /\ AgentOf(c) = {}))
      BY <3>1 DEF AgentOf, AgentIds
    <3>3. missed' = IF conn[c].open THEN missed ELSE missed \cup {conn[c].key}
      BY <2>1 DEF ServerWelcome
    <3>4. /\ missed' \in {missed, missed \cup {conn[c].key}}
          /\ conn[c].open \/ conn[c].key \in missed'
      BY <3>3
    <3>5. /\ conn[c].stage = "hello"
          /\ conn' = [conn EXCEPT ![c] = IF conn[c].open
                                         THEN [conn[c] EXCEPT !.stage = "welcome"]
                                         ELSE Used(FALSE)]
          /\ current' = [d \in AgentIds |-> IF d = b THEN c ELSE IF d \in {} THEN None ELSE current[d]]
          /\ met' = [met EXCEPT ![conn[c].key] = @ \cup {b}]
          /\ UNCHANGED <<mu, closed, pool, saved, recency, session, call, crashes>>
      BY <3>1 DEF Welcomes, manager
    <3>6. Given(c, b, conn[c].key)
      BY <3>5 DEF Given
    <3> QED
      BY <3>2, <3>4, <3>5, <3>6
  <2>2. CASE AttachFails(c)
    <3>0. missed' = missed \cup {conn[c].key} /\ c \in AgentIds
      BY <2>2 DEF AttachFails, AgentIds
    <3>1. PICK lost \in SUBSET AgentOf(c) : Welcomes(c, c, lost)
      BY <2>2 DEF AttachFails
    <3>2. /\ conn[c].stage = "hello"
          /\ conn' = [conn EXCEPT ![c] = IF conn[c].open
                                         THEN [conn[c] EXCEPT !.stage = "welcome"]
                                         ELSE Used(FALSE)]
          /\ current' = [b \in AgentIds |-> IF b = c THEN c ELSE IF b \in lost THEN None ELSE current[b]]
          /\ met' = [met EXCEPT ![conn[c].key] = @ \cup {c}]
          /\ UNCHANGED <<mu, closed, pool, saved, recency, session, call, crashes>>
      BY <3>1 DEF Welcomes, manager
    <3>3. Given(c, c, conn[c].key)
      BY <3>0, <3>2 DEF Given
    <3> QED
      BY <3>0, <3>2, <3>3
  <2> QED
    BY <2>1, <2>2
<1>2. conn[c].key \in Keys
  BY <1>0, <1>1 DEF WireHasSession
<1>3. /\ a \in AgentIds
      /\ \/ /\ conn[c].token # None /\ current[a] = conn[c].token
            /\ a \in met[conn[c].key]
         \/ /\ a = c
            /\ conn[c].key \in missed' \/ AgentOf(c) = {}
  <2>1. CASE a \notin AgentOf(c)
    BY <1>1, <2>1
  <2>2. CASE a \in AgentOf(c)
    <3>2. a \in AgentIds /\ conn[c].token # None /\ current[a] = conn[c].token
      BY <2>2 DEF AgentOf
    <3>3. PICK k \in Keys, t \in Tokens : k = conn[c].key /\ t = conn[c].token
      BY <1>0, <1>2, <3>2 DEF ConnStates
    <3>4. Holds(k, t)
      BY <1>1, <3>3 DEF Holds
    <3>5. a \in met[k]
      BY <1>0, <3>2, <3>3, <3>4 DEF TokenState
    <3> QED
      BY <3>2, <3>3, <3>5
  <2> QED
    BY <2>1, <2>2
<1> DEFINE n == IF conn[c].open THEN [conn[c] EXCEPT !.stage = "welcome"] ELSE Used(FALSE)
<1>4. /\ n \in ConnStates
      /\ IF conn[c].open
         THEN n.stage = "welcome" /\ n.key = conn[c].key /\ n.open
         ELSE n.stage = "used" /\ ~n.open
  <2>1. CASE conn[c].open
    BY <1>0, <2>1 DEF ConnStates
  <2>2. CASE ~conn[c].open
    BY <2>2, UsedType
  <2> QED
    BY <2>1, <2>2
<1>5. conn' = [conn EXCEPT ![c] = n]
  BY <1>1
<1> HIDE DEF n
<1>6. \E b \in AgentIds :
        /\ Given(c, b, conn[c].key)
        /\ met' = [met EXCEPT ![conn[c].key] = @ \cup {b}]
        /\ \/ /\ conn[c].token # None /\ current[b] = conn[c].token
              /\ b \in met[conn[c].key]
           \/ /\ b = c
              /\ conn[c].key \in missed' \/ AgentOf(c) = {}
  BY <1>1, <1>3
<1>7. \E r \in ConnStates :
        /\ conn' = [conn EXCEPT ![c] = r]
        /\ IF conn[c].open
           THEN r.stage = "welcome" /\ r.key = conn[c].key /\ r.open
           ELSE r.stage = "used" /\ ~r.open
  BY <1>4, <1>5
<1> QED
  BY <1>1, <1>2, <1>6, <1>7

\* What is shared by the handshakes that resume an agent and that fail to.
LEMMA ServerWelcomeStep ==
  ASSUME IInv, NEW c \in Conns, ServerWelcome(c) \/ AttachFails(c)
  PROVE  IInv'
<1>0. /\ TypeOK /\ PoolState /\ CallState /\ WireOfSession /\ WireHasSession /\ TokenState
      /\ Chain /\ None \notin Keys /\ None \notin Conns
  BY NoneAssumption DEF IInv
<1>1. /\ conn[c].stage = "hello"
      /\ missed' \in {missed, missed \cup {conn[c].key}}
      /\ conn[c].open \/ conn[c].key \in missed'
      /\ UNCHANGED <<mu, closed, pool, saved, recency, session, call, crashes>>
  BY WelcomeEffect
<1>2. PICK k \in Keys : k = conn[c].key
  BY WelcomeEffect
<1>3. PICK a \in AgentIds :
        /\ Given(c, a, k) /\ met' = [met EXCEPT ![k] = @ \cup {a}]
        /\ \/ conn[c].token # None /\ current[a] = conn[c].token /\ a \in met[k]
           \/ a = c /\ (k \in missed' \/ AgentOf(c) = {})
  BY <1>2, WelcomeEffect
<1>4. PICK n \in ConnStates :
        /\ conn' = [conn EXCEPT ![c] = n]
        /\ IF conn[c].open THEN n.stage = "welcome" /\ n.key = k /\ n.open
                           ELSE n.stage = "used" /\ ~n.open
  BY <1>2, WelcomeEffect
<1>5. /\ conn' \in [Conns -> ConnStates] /\ conn'[c] = n
      /\ \A d \in Conns : d # c => conn'[d] = conn[d]
  <2>1. conn \in [Conns -> ConnStates]
    BY <1>0 DEF TypeOK
  <2> QED
    BY <1>4, <2>1
<1>6. /\ current' \in [AgentIds -> Tokens \cup {None}] /\ current'[a] = c
      /\ \A b \in AgentIds : b # a /\ current'[b] # current[b] =>
           current'[b] = None /\ b \in met[k] /\ k \in missed'
  <2>1. current \in [AgentIds -> Tokens \cup {None}] /\ c \in Tokens
    BY <1>0 DEF TypeOK, Tokens
  <2>2. PICK lost \in SUBSET AgentOf(c) :
          /\ current' = [b \in AgentIds |-> IF b = a THEN c ELSE IF b \in lost THEN None ELSE current[b]]
          /\ lost = {} \/ k \in missed'
    BY <1>3 DEF Given
  <2>3. ASSUME NEW b \in AgentOf(c) PROVE b \in met[k]
    <3>1. b \in AgentIds /\ conn[c].token # None /\ current[b] = conn[c].token
      BY <2>3 DEF AgentOf
    <3>2. PICK t \in Tokens : t = conn[c].token
      BY <2>1, <3>1
    <3>3. Holds(k, t)
      BY <1>1, <1>2, <3>2 DEF Holds
    <3> QED
      BY <1>0, <3>1, <3>2, <3>3 DEF TokenState
  <2> QED
    BY <2>1, <2>2, <2>3
<1>7. /\ met' \in [Keys -> SUBSET AgentIds] /\ met'[k] = met[k] \cup {a}
      /\ \A l \in Keys : l # k => met'[l] = met[l]
  <2>1. met \in [Keys -> SUBSET AgentIds]
    BY <1>0 DEF TypeOK
  <2> QED
    BY <1>3, <2>1
<1>8. ~Answered(c) /\ Answered(c)' /\ \A d \in Conns : Answered(d) => Answered(d)'
  BY <1>1, <1>4, <1>5 DEF Answered
<1>9. \A b \in AgentIds : current[b] # c
  BY <1>0, <1>8 DEF TokenState
<1>10. a \in met[k] \/ (a = c /\ \A l \in Keys : a \notin met[l])
  BY <1>0, <1>3, <1>8 DEF TokenState
<1>11. \A s \in Sessions :
         /\ Running(s)' <=> Running(s)
         /\ Connected(s)' <=> Connected(s)
         /\ session'[s] = session[s]
  BY <1>1 DEF Running, Connected
<1>12. PoolState' /\ CallState'
  BY <1>0, <1>1, <1>11 DEF PoolState, CallState
<1>13. WireOfSession' /\ WireHasSession'
  <2>1. WiresKept
    BY <1>0, <1>1, <1>2, <1>4, <1>5 DEF WiresKept, WireHasSession
  <2>2. \A s \in Sessions : session[s].run = "reporting" =>
          session[s].token = session[s].conn /\ conn'[session[s].conn].stage = "used"
    BY <1>0, <2>1 DEF WireOfSession, Connected, WiresKept
  <2>3. \A s \in Sessions : session[s].registered => Connected(s)
    BY <1>0 DEF WireOfSession
  <2>4. ReadersKept
    BY <1>11, <2>2, <2>3 DEF ReadersKept
  <2> QED
    BY <1>0, <2>1, <2>4, WireKept
<1>14. TokenState'
  <2>1. \A b, d \in AgentIds : current'[b] # None /\ current'[b] = current'[d] => b = d
    BY <1>0, <1>6, <1>9 DEF TokenState
  <2>2. \A b \in AgentIds : current'[b] # None => Answered(current[b])'
    <3> SUFFICES ASSUME NEW b \in AgentIds, current'[b] # None PROVE Answered(current[b])'
      OBVIOUS
    <3>1. CASE b = a
      BY <1>6, <1>8, <3>1 DEF Answered
    <3>2. CASE b # a
      <4>1. current[b] # None /\ current'[b] = current[b]
        BY <1>6, <3>2
      <4>2. Answered(current[b]) /\ current[b] \in Conns
        BY <1>0, <4>1 DEF TokenState, TypeOK, Tokens
      <4> QED
        BY <1>8, <4>1, <4>2 DEF Answered
    <3> QED
      BY <3>1, <3>2
  <2>3. ASSUME NEW l \in Keys, NEW b \in met'[l]
        PROVE  Answered(b)'
    <3>0. b \in AgentIds
      BY <1>7
    <3>1. CASE b = a
      BY <1>0, <1>8, <1>10, <3>1 DEF TokenState, AgentIds
    <3>2. CASE b # a
      <4>1. b \in met[l]
        BY <1>7, <3>2
      <4> QED
        BY <1>0, <1>8, <3>0, <4>1 DEF TokenState, AgentIds
    <3> QED
      BY <3>1, <3>2
  <2>4. ASSUME NEW l \in Keys, NEW m \in Keys, l # m PROVE met'[l] \cap met'[m] = {}
    <3>1. met[l] \cap met[m] = {}
      BY <1>0, <2>4 DEF TokenState
    <3>2. \A q \in Keys : q # k => a \notin met[q]
      BY <1>0, <1>10 DEF TokenState
    <3> QED
      BY <1>7, <2>4, <3>1, <3>2
  <2>5. ASSUME NEW l \in Keys, NEW t \in Tokens, Holds(l, t)'
        PROVE  Answered(t)' /\ \A b \in AgentIds : current'[b] = t => b \in met'[l]
    <3>1. Holds(l, t) \/ (t = c /\ l = k)
      <4>1. CASE saved'[l] = t
        BY <1>1, <4>1 DEF Holds
      <4>2. CASE \E s \in Sessions : session'[s].key = l /\ session'[s].token = t
        BY <1>1, <4>2 DEF Holds
      <4>3. CASE \E d \in Conns : /\ conn'[d].stage = "hello"
                                  /\ conn'[d].key = l /\ conn'[d].token = t
        BY <1>4, <1>5, <4>3 DEF Holds
      <4>4. CASE conn'[t].stage = "welcome" /\ conn'[t].key = l
        BY <1>4, <1>5, <4>4 DEF Holds, Tokens
      <4> QED
        BY <2>5, <4>1, <4>2, <4>3, <4>4 DEF Holds
    <3>2. CASE t = c /\ l = k
      BY <1>6, <1>7, <1>8, <1>9, <3>2
    <3>3. CASE Holds(l, t)
      <4>1. Answered(t) /\ \A b \in AgentIds : current[b] = t => b \in met[l]
        BY <1>0, <3>3 DEF TokenState
      <4>2. t # c /\ Answered(t)'
        BY <1>8, <4>1 DEF Tokens
      <4>3. ASSUME NEW b \in AgentIds, current'[b] = t PROVE b \in met'[l]
        <5>1. b # a /\ t # None
          BY <1>0, <1>6, <4>2, <4>3 DEF Tokens
        <5>2. current[b] = t
          BY <1>6, <4>3, <5>1
        <5> QED
          BY <1>7, <4>1, <5>2
      <4> QED
        BY <4>2, <4>3
    <3> QED
      BY <3>1, <3>2, <3>3
  <2> QED
    BY <2>1, <2>2, <2>3, <2>4, <2>5 DEF TokenState
\* only the session of c sees its WELCOME
<1>15. ASSUME NEW s \in Sessions, Connected(s), session[s].conn = c, conn[c].open
       PROVE  session[s].key = k
  <2>1. session[s].key = conn[session[s].conn].key
    BY <1>0, <1>1, <1>15, WireKey
  <2> QED
    BY <1>2, <1>15, <2>1
<1>16. ASSUME NEW s \in Sessions, ~(Connected(s) /\ session[s].conn = c /\ conn[c].open)
       PROVE  InFlight(s)' <=> InFlight(s)
  <2>1. CASE ~Connected(s)
    BY <1>1, <1>11, <2>1 DEF InFlight, Connected
  <2>2. CASE Connected(s)
    <3>1. session[s].conn \in Conns
      BY <1>0, <2>2 DEF WireOfSession
    <3>2. conn'[session[s].conn].stage = "welcome" <=> conn[session[s].conn].stage = "welcome"
      <4>1. CASE session[s].conn = c
        BY <1>1, <1>4, <1>5, <1>16, <2>2, <4>1
      <4>2. CASE session[s].conn # c
        BY <1>5, <3>1, <4>2
      <4> QED
        BY <4>1, <4>2
    <3> QED
      BY <1>11, <2>2, <3>2 DEF InFlight
  <2> QED
    BY <2>1, <2>2
<1>17. Chain'
  <2> SUFFICES ASSUME NEW l \in Keys, l \notin missed' PROVE ChainOf(l)'
    BY DEF Chain
  <2>1. ChainOf(l)
    BY <1>0, <1>1 DEF Chain
  <2>2. CASE l # k
    <3>1. \A s \in Sessions : session[s].key = l => (InFlight(s)' <=> InFlight(s))
      BY <1>15, <1>16, <2>2
    <3>2. a \notin met[l]
      BY <1>0, <1>10, <2>2 DEF TokenState
    <3>3. met'[l] = met[l] /\ \A b \in met[l] : current'[b] = current[b]
      <4>1. met[l] \cap met[k] = {} /\ met[l] \subseteq AgentIds
        BY <1>0, <2>2 DEF TokenState, TypeOK
      <4> QED
        BY <1>6, <1>7, <2>2, <3>2, <4>1
    <3>4. \A s \in Sessions : Running(s)' /\ session'[s].key = l =>
            /\ Running(s) /\ session[s].key = l
            /\ InFlight(s)' => InFlight(s) /\ session'[s].conn = session[s].conn
            /\ ~InFlight(s)' => session'[s].token = session[s].token
      BY <1>11, <3>1
    <3>5. \A s \in Sessions : Running(s) /\ session[s].key = l /\ InFlight(s) =>
            Running(s)' /\ session'[s].key = l /\ InFlight(s)'
      BY <1>11, <3>1
    <3>6. \A d \in Conns : conn'[d].stage = "hello" => conn'[d] = conn[d]
      BY <1>4, <1>5
    <3>7. saved'[l] = saved[l]
      BY <1>1
    <3> QED
      BY <2>1, <3>3, <3>4, <3>5, <3>6, <3>7, ChainKept
  <2>3. CASE l = k
    <3>1. conn[c].open
      BY <1>1, <1>2, <2>3
    <3>2. PICK s \in Sessions : Connected(s) /\ session[s].conn = c /\ session[s].key = k
      BY <1>0, <1>1, <1>2, <3>1 DEF WireHasSession
    <3>3. Running(s) /\ ~InFlight(s)
      BY <1>0, <1>1, <3>2 DEF Running, Connected, InFlight, WireOfSession
    <3>4. \A q \in Sessions : Running(q) /\ session[q].key = k => q = s
      BY <1>0, <3>2, <3>3 DEF PoolState
    <3>5. Expects(k, saved[k]) /\ conn[c].token = saved[k]
      <4>1. \A q \in Sessions : Running(q) /\ session[q].key = k => ~InFlight(q)
        BY <3>3, <3>4
      <4>2. Expects(k, saved[k])
        BY <2>1, <2>3, <4>1 DEF ChainOf
      <4> QED
        BY <1>1, <1>2, <2>1, <2>3, <3>1, <4>2 DEF ChainOf
    <3>6. \A b \in met'[k] : b = a
      <4>1. CASE met[k] = {}
        BY <1>7, <4>1
      <4>2. CASE met[k] # {}
        <5>1. saved[k] # None /\ \A b \in met[k] : current[b] = saved[k]
          BY <3>5, <4>2 DEF Expects
        <5>2. a \in met[k]
          <6>1. PICK b \in met[k] : b \in AgentIds
            BY <1>0, <4>2 DEF TypeOK
          <6>2. b \in AgentOf(c)
            BY <3>5, <5>1, <6>1 DEF AgentOf
          <6>3. k \notin missed'
            BY <2>3
          <6> QED
            BY <1>3, <6>2, <6>3
        <5>3. \A b \in met[k] : b \in AgentIds
          BY <1>0 DEF TypeOK
        <5> QED
          BY <1>0, <1>7, <5>1, <5>2, <5>3 DEF TokenState
      <4> QED
        BY <4>1, <4>2
    <3>7. Expects(k, session[s].conn)'
      BY <1>0, <1>1, <1>6, <1>7, <3>2, <3>6 DEF Expects
    <3>8. InFlight(s)' /\ Running(s)' /\ session'[s].key = k
      BY <1>4, <1>5, <1>11, <3>1, <3>2, <3>3 DEF InFlight
    <3>9. ASSUME NEW d \in Conns, conn'[d].stage = "hello", conn'[d].open, conn'[d].key = k
          PROVE  FALSE
      <4>1. d # c /\ conn'[d] = conn[d]
        BY <1>4, <1>5, <3>1, <3>9
      <4>2. PICK q \in Sessions : Connected(q) /\ session[q].conn = d /\ session[q].key = k
        BY <1>0, <3>9, <4>1 DEF WireHasSession
      <4>3. q = s
        BY <3>4, <4>2 DEF Connected, Running
      <4> QED
        BY <3>2, <4>1, <4>2, <4>3
    <3>10. \A q \in Sessions : Running(q)' /\ session'[q].key = k => q = s
      BY <1>11, <3>4
    <3>11. \A q \in Sessions : Running(q)' /\ session'[q].key = k =>
             IF InFlight(q)' THEN Expects(k, session[q].conn)' ELSE session'[q].token = saved'[k]
      BY <3>7, <3>8, <3>10
    <3>12. ~(\A q \in Sessions : Running(q)' /\ session'[q].key = k => ~InFlight(q)')
      BY <3>8
    <3> QED
      BY <2>3, <3>9, <3>11, <3>12 DEF ChainOf
  <2> QED
    BY <2>2, <2>3
<1>18. TypeOK'
  <2>1. missed' \subseteq Keys
    BY <1>0, <1>1, <1>2 DEF TypeOK
  <2> QED
    BY <1>0, <1>1, <1>5, <1>6, <1>7, <2>1 DEF TypeOK
<1> QED
  BY <1>12, <1>13, <1>14, <1>17, <1>18 DEF IInv

-----------------------------------------------------------------------------
(* The theorems                                                            *)

LEMMA NextIInv == IInv /\ [Next]_vars => IInv'
<1> SUFFICES ASSUME IInv, [Next]_vars PROVE IInv'
  OBVIOUS
<1>1. CASE UNCHANGED vars
  <2>1. UNCHANGED <<mu, closed, pool, saved, recency, session, call, conn, current, crashes,
                    met, missed>>
    BY <1>1 DEF vars, manager
  <2>2. PoolState' /\ WireOfSession' /\ WireHasSession' /\ TokenState' /\ Chain'
    BY <2>1, CallAlone
  <2> QED
    BY <2>1, <2>2 DEF IInv, TypeOK, CallState
<1>2. ASSUME NEW s \in Sessions, SessionStep(s) PROVE IInv'
  BY <1>2, RunStopsStep, DialStep, RegisterStep, ReadFailsStep, ReadWelcomeStep, ReportStep
     DEF SessionStep
<1>3. ASSUME NEW p \in Calls, CallStep(p) \/ Disconnect(p) \/ Close(p) PROVE IInv'
  <2>1. CASE Refused(p) \/ Found(p) \/ CloseEnds(p) \/ Close(p)
    BY <2>1, CallerStep
  <2>2. CASE Created(p)
    BY <2>2, CreatedStep
  <2>3. CASE Evict(p)
    BY <2>3, EvictStep
  <2>4. CASE Evicted(p)
    BY <2>4, EvictedStep
  <2>5. CASE Use(p)
    BY <2>5, UseStep
  <2>6. CASE CloseNext(p)
    BY <2>6, CloseNextStep
  <2>7. CASE Disconnect(p)
    BY <2>7, DisconnectStep
  <2> QED
    BY <1>3, <2>1, <2>2, <2>3, <2>4, <2>5, <2>6, <2>7 DEF CallStep
<1>4. ASSUME NEW p \in Calls, NEW k \in Keys, Arrive(p, k) PROVE IInv'
  BY <1>4, CallerStep
<1>5. ASSUME NEW c \in Conns, ServerWelcome(c) \/ AttachFails(c) \/ ServerDrops(c)
      PROVE  IInv'
  BY <1>5, ServerWelcomeStep, ServerDropsStep
<1>6. CASE Crash
  BY <1>6, CrashStep
<1> QED
  BY <1>1, <1>2, <1>3, <1>4, <1>5, <1>6 DEF Next

\* What the manager, its sessions and the connections hold is of the right kind,
\* in every state, for any number of keys, calls, sessions and connections.
THEOREM BridgeTypeCorrect == Spec => []TypeOK
<1>1. IInv => TypeOK
  BY DEF IInv
<1> QED
  BY <1>1, InitIInv, NextIInv, PTL DEF Spec

\* A session that runs is the one the pool has for its key (getOrCreateSession,
\* evictOldest and Close): a key never has two goroutines that would take turns
\* in invalidating each other's resume token.
THEOREM OneGoroutine == Spec => []OneSessionPerKey
<1>1. IInv => OneSessionPerKey
  BY DEF IInv, PoolState, OneSessionPerKey
<1> QED
  BY <1>1, InitIInv, NextIInv, PTL DEF Spec

\* A key whose WELCOMEs were all reported and whose agent the server resumed
\* whenever it was asked to plays one agent, across reconnects, evictions and
\* restarts of the sidecar, and no key ever plays the agent of another one,
\* whatever was missed (onSessionUpdate, the state file, Attach and the server's
\* resume tokens).
THEOREM AgentKept == Spec => []SameAgent
<1>1. IInv => SameAgent
  <2> SUFFICES ASSUME IInv PROVE SameAgent
    OBVIOUS
  <2>0. TypeOK /\ PoolState /\ TokenState /\ Chain
    BY DEF IInv
  <2>1. ASSUME NEW k \in Keys \ missed PROVE Cardinality(met[k]) <= 1
    <3>1. ChainOf(k)
      BY <2>0 DEF Chain
    <3>2. \E t : Expects(k, t)
      <4>1. CASE \A s \in Sessions : Running(s) /\ session[s].key = k => ~InFlight(s)
        BY <3>1, <4>1 DEF ChainOf
      <4>2. CASE ~\A s \in Sessions : Running(s) /\ session[s].key = k => ~InFlight(s)
        BY <3>1, <4>2 DEF ChainOf
      <4> QED
        BY <4>1, <4>2
    <3>3. PICK t : Expects(k, t)
      BY <3>2
    <3>4. \A a, b \in met[k] : a = b
      <4>1. met[k] \subseteq AgentIds
        BY <2>0 DEF TypeOK
      <4>2. \A a \in met[k] : current[a] = t /\ current[a] # None
        BY <3>3 DEF Expects
      <4> QED
        BY <2>0, <4>1, <4>2 DEF TokenState
    <3>5. CASE met[k] = {}
      BY <3>5, FS_EmptySet
    <3>6. CASE met[k] # {}
      <4>1. PICK a : met[k] = {a}
        BY <3>4, <3>6
      <4>2. Cardinality({a}) = 1
        BY FS_Singleton
      <4> QED
        BY <4>1, <4>2
    <3> QED
      BY <3>5, <3>6
  <2>2. \A k, l \in Keys : k # l => met[k] \cap met[l] = {}
    BY <2>0 DEF TokenState
  <2> QED
    BY <2>1, <2>2 DEF SameAgent
<1> QED
  BY <1>1, InitIInv, NextIInv, PTL DEF Spec

-----------------------------------------------------------------------------
(* The work of the agents: the inductive invariant                         *)

Elements(s) == {s[i] : i \in DOMAIN s}
Distinct(s) == \A j, k \in DOMAIN s : s[j] = s[k] => j = k

\* The index lists every entity once, where it lies, and nothing else.
Listed(items, at, next) ==
  /\ \A p \in Cells :
       /\ Distinct(at[p])
       /\ Elements(at[p]) = {i \in ItemIds : items[i] # Absent /\ items[i].pos = p}
  /\ \A i \in ItemIds : i > next => items[i] = Absent

\* What is reserved is in stock.
Backed(box) == \A p \in Cells : box[p] # Absent => \A x \in Items : box[p].reserved[x] <= box[p].stock[x]

Grounds ==
  [items : [ItemIds -> Entity \cup {Absent}], at : [Cells -> Seq(ItemIds)],
   box : [Cells -> Container \cup {Absent}], next : 0..MaxItems + 1]
Sound == {h \in Grounds : Listed(h.items, h.at, h.next) /\ Backed(h.box)}

\* The blocks of an item that the blueprint has after the first i.
Rest(x, i) == Cardinality({j \in Parts : j > i /\ Blueprint[j].block = x})

\* What the open builds have paid is theirs alone, and what they have not paid
\* of the blocks to come is in their credit.
BuildState ==
  \A a \in Agents :
    \/ /\ bill[a] = Nothing
       /\ task[a] # Absent => task[a].index = 0
    \/ /\ task[a] # Absent /\ task[a].req.kind = "BUILD" /\ task[a].index > 0
       /\ \A x \in Items : credit[a][x] + bill[a][x] >= Rest(x, task[a].index)

WorkInv == WorkTypeOK /\ g \in Sound /\ ItemsConserved /\ BuildState

-----------------------------------------------------------------------------
(* Folds                                                                   *)

\* A set of numbers has a least one.
LEMMA Least ==
  ASSUME NEW T \in SUBSET Nat, T # {}
  PROVE  \E x \in T : \A y \in T : x <= y
<1>1. PICK x \in T : \A y \in T : ~(<<y, x>> \in OpToRel(<, Nat))
  BY NatLessThanWellFounded, WFMin
<1>2. \A y \in T : ~(y < x)
  BY <1>1, Zenon DEF OpToRel
<1> QED
  BY <1>2

\* What holds at the start and stays, holds at the end.
LEMMA Reaches ==
  ASSUME NEW n \in Nat, NEW f, NEW S, f[0] \in S,
         \A k \in 1..n : f[k - 1] \in S => f[k] \in S
  PROVE  f[n] \in S
<1> DEFINE T == {k \in 0..n : f[k] \notin S}
<1>1. SUFFICES ASSUME T # {} PROVE FALSE
  OBVIOUS
<1>2. PICK k \in T : \A j \in T : k <= j
  <2> HIDE DEF T
  <2>1. T \in SUBSET Nat
    BY DEF T
  <2> QED
    BY <1>1, <2>1, Least
<1>3. k \in 1..n /\ k - 1 \in 0..n
  BY <1>2
<1>4. k - 1 \notin T
  BY <1>2, <1>3
<1> QED
  BY <1>2, <1>3, <1>4

\* A sequence of steps from S to S can be taken.
Path(f, n, base, op) == f = [k \in 0..n |-> IF k = 0 THEN base ELSE op[k][f[k - 1]]]

LEMMA Iterates ==
  ASSUME NEW n \in Nat, NEW S, NEW base \in S, NEW op \in [1..n -> [S -> S]]
  PROVE  \E f : Path(f, n, base, op) /\ \A k \in 0..n : f[k] \in S
<1> DEFINE Good(m, f) == Path(f, m, base, op) /\ \A k \in 0..m : f[k] \in S
           T == {m \in 0..n : ~\E f : Good(m, f)}
<1>1. ASSUME T # {} PROVE FALSE
  <2>2. PICK m \in T : \A j \in T : m <= j
    <3> HIDE DEF T
    <3>1. T \in SUBSET Nat
      BY DEF T
    <3> QED
      BY <1>1, <3>1, Least
  <2>3. m \in 0..n /\ ~\E f : Good(m, f)
    BY <2>2
  <2>4. CASE m = 0
    <3>1. Good(0, [k \in 0..0 |-> base])
      BY DEF Path
    <3> QED
      BY <3>1, <2>3, <2>4
  <2>5. CASE m # 0
    <3>1. m \in 1..n /\ m - 1 \in 0..n /\ m - 1 \notin T
      BY <2>2, <2>3, <2>5
    <3>2. PICK e : Good(m - 1, e)
      BY <3>1
    <3>3. e = [k \in 0..m - 1 |-> IF k = 0 THEN base ELSE op[k][e[k - 1]]] /\ \A k \in 0..m - 1 : e[k] \in S
      BY <3>2 DEF Path
    <3>4. op[m][e[m - 1]] \in S
      <4>1. op[m] \in [S -> S] /\ m - 1 \in 0..m - 1
        BY <3>1
      <4> QED
        BY <4>1, <3>3
    <3> DEFINE f == [k \in 0..m |-> IF k = m THEN op[m][e[m - 1]] ELSE e[k]]
    <3>5. ASSUME NEW k \in 0..m
          PROVE  f[k] = IF k = 0 THEN base ELSE op[k][f[k - 1]]
      <4>1. CASE k = m
        <5>1. m # 0 /\ m \in 0..m /\ m - 1 \in 0..m /\ m - 1 # m
          BY <3>1
        <5>2. f[m] = op[m][e[m - 1]] /\ f[m - 1] = e[m - 1]
          BY <5>1
        <5> QED
          BY <5>1, <5>2, <4>1
      <4>2. CASE k # m
        <5>1. k \in 0..m - 1 /\ (k # 0 => k - 1 \in 0..m /\ k - 1 # m)
          BY <4>2, <3>1
        <5>2. f[k] = e[k] /\ (k # 0 => f[k - 1] = e[k - 1])
          BY <5>1, <4>2
        <5> QED
          BY <5>1, <5>2, <3>3, Zenon
      <4> QED
        BY <4>1, <4>2
    <3>6. \A k \in 0..m : f[k] \in S
      BY <3>1, <3>3, <3>4
    <3>7. f = [k \in 0..m |-> IF k = 0 THEN base ELSE op[k][f[k - 1]]]
      BY <3>5
    <3>8. Good(m, f)
      BY <3>6, <3>7 DEF Path
    <3> QED
      BY <3>8, <2>3
  <2> QED
    BY <2>4, <2>5
<1>2. T = {}
  BY <1>1
<1>3. ~(~\E f : Good(n, f))
  <2>1. n \in 0..n
    OBVIOUS
  <2> HIDE DEF Good
  <2> QED
    BY <1>2, <2>1, Zenon
<1> QED
  BY <1>3

-----------------------------------------------------------------------------
(* The lists of the index                                                  *)

LEMMA EarliestIn ==
  ASSUME NEW T \in SUBSET Nat, T # {}
  PROVE  Earliest(T) \in T /\ \A j \in T : Earliest(T) <= j
BY Least DEF Earliest

LEMMA AppendFacts ==
  ASSUME NEW s \in Seq(ItemIds), Distinct(s), NEW i \in ItemIds, i \notin Elements(s)
  PROVE  /\ Append(s, i) \in Seq(ItemIds) /\ Distinct(Append(s, i))
         /\ Elements(Append(s, i)) = Elements(s) \cup {i}
<1> DEFINE w == Append(s, i)
<1>1. /\ w \in Seq(ItemIds) /\ DOMAIN w = 1..Len(s) + 1 /\ DOMAIN s = 1..Len(s) /\ Len(s) \in Nat
      /\ \A k \in 1..Len(s) : w[k] = s[k]
      /\ w[Len(s) + 1] = i
  BY AppendProperties, LenProperties
<1>2. \A k \in DOMAIN s : s[k] # i
  BY DEF Elements
<1> HIDE DEF w
<1>3. Distinct(w)
  <2> SUFFICES ASSUME NEW j \in DOMAIN w, NEW k \in DOMAIN w, w[j] = w[k] PROVE j = k
    BY DEF Distinct
  <2> QED
    BY <1>1, <1>2 DEF Distinct
<1>4. Elements(w) = Elements(s) \cup {i}
  BY <1>1 DEF Elements
<1> QED
  BY <1>1, <1>3, <1>4 DEF w

LEMMA RemoveIDFacts ==
  ASSUME NEW s \in Seq(ItemIds), Distinct(s), NEW i
  PROVE  /\ RemoveID(s, i) \in Seq(ItemIds) /\ Distinct(RemoveID(s, i))
         /\ Elements(RemoveID(s, i)) = Elements(s) \ {i}
<1> DEFINE places == {k \in DOMAIN s : s[k] = i}
<1>1. DOMAIN s = 1..Len(s) /\ Len(s) \in Nat
  BY LenProperties
<1>2. CASE places = {}
  <2>1. RemoveID(s, i) = s /\ i \notin Elements(s)
    BY <1>2 DEF RemoveID, Elements
  <2> QED
    BY <2>1
<1>3. CASE places # {}
  <2>1. PICK m : m = Earliest(places)
    OBVIOUS
  <2>2. m \in 1..Len(s) /\ s[m] = i
    <3>1. places \in SUBSET Nat
      BY <1>1
    <3>2. m \in places
      BY <3>1, <2>1, <1>3, EarliestIn
    <3> QED
      BY <3>2, <1>1
  <2>3. PICK w : w = [k \in 1..Len(s) - 1 |-> IF k < m THEN s[k] ELSE s[k + 1]]
    OBVIOUS
  <2>4. RemoveID(s, i) = w
    BY <2>1, <2>3, <1>3 DEF RemoveID
  <2>5. \A k \in 1..Len(s) : s[k] \in ItemIds
    BY <1>1, ElementOfSeq
  <2>6. /\ w \in [1..Len(s) - 1 -> ItemIds] /\ Len(s) - 1 \in Nat
    BY <2>2, <2>3, <2>5, <1>1
  <2>7. w \in Seq(ItemIds) /\ DOMAIN w = 1..Len(s) - 1
    BY <2>6
  <2>8. \A k \in 1..Len(s) : k # m => s[k] # i
    BY <2>2, <1>1 DEF Distinct
  <2>9. \A k \in DOMAIN w : /\ k < m => w[k] = s[k] /\ k \in 1..Len(s)
                            /\ ~(k < m) => w[k] = s[k + 1] /\ k + 1 \in 1..Len(s)
    BY <2>3, <2>7, <1>1
  <2>10. Distinct(w)
    <3> SUFFICES ASSUME NEW j \in DOMAIN w, NEW k \in DOMAIN w, w[j] = w[k] PROVE j = k
      BY DEF Distinct
    <3>1. j \in Nat /\ k \in Nat /\ m \in Nat
      BY <2>2, <2>7
    <3> QED
      BY <3>1, <2>9, <1>1 DEF Distinct
  <2>11. Elements(w) \subseteq Elements(s) \ {i}
    <3> SUFFICES ASSUME NEW k \in DOMAIN w PROVE w[k] \in Elements(s) /\ w[k] # i
      BY DEF Elements
    <3>1. k \in Nat /\ m \in Nat
      BY <2>2, <2>7
    <3> QED
      BY <3>1, <2>8, <2>9, <1>1 DEF Elements
  <2>12. ASSUME NEW e \in Elements(s), e # i PROVE e \in Elements(w)
    <3>1. PICK k \in 1..Len(s) : s[k] = e
      BY <1>1 DEF Elements
    <3>2. k # m /\ k \in Nat /\ m \in Nat
      BY <2>2, <2>12, <3>1
    <3>3. CASE k < m
      <4>1. k \in DOMAIN w
        BY <3>2, <3>3, <2>2, <2>7, <1>1
      <4> QED
        BY <4>1, <3>3, <3>1, <2>9 DEF Elements
    <3>4. CASE k > m
      <4>1. k - 1 \in DOMAIN w /\ ~(k - 1 < m) /\ k - 1 + 1 = k
        BY <3>2, <3>4, <2>2, <2>7, <1>1
      <4> QED
        BY <4>1, <3>1, <2>9 DEF Elements
    <3> QED
      BY <3>2, <3>3, <3>4
  <2> QED
    BY <2>4, <2>7, <2>10, <2>11, <2>12
<1> QED
  BY <1>2, <1>3

-----------------------------------------------------------------------------
(* Sums                                                                    *)

LEMMA Partials ==
  ASSUME NEW n \in Nat, NEW f \in [1..n -> Int]
  PROVE  \E s \in [0..n -> Int] :
           s[0] = 0 /\ (\A k \in 1..n : s[k] = s[k - 1] + f[k]) /\ Sum(f) = s[n]
<1> DEFINE s == CHOOSE s : s = [k \in 0..Len(f) |-> IF k = 0 THEN 0 ELSE s[k - 1] + f[k]]
<1>1. Len(f) = n
  OBVIOUS
<1>2. Sum(f) = s[Len(f)]
  BY DEF Sum, Through
<1>3. PICK op : op = [k \in 1..n |-> [m \in Int |-> m + f[k]]]
  OBVIOUS
<1>4. op \in [1..n -> [Int -> Int]] /\ 0 \in Int
  BY <1>3
<1>5. PICK e : Path(e, n, 0, op) /\ \A k \in 0..n : e[k] \in Int
  <2> HIDE DEF s
  <2> QED
    BY <1>4, Iterates
<1>6. ASSUME NEW k \in 0..n
      PROVE  (IF k = 0 THEN 0 ELSE op[k][e[k - 1]]) = (IF k = 0 THEN 0 ELSE e[k - 1] + f[k])
  <2>1. k # 0 => k \in 1..n /\ k - 1 \in 0..n
    OBVIOUS
  <2>2. k # 0 => op[k] = [m \in Int |-> m + f[k]] /\ e[k - 1] \in Int
    BY <2>1, <1>3, <1>5
  <2> QED
    BY <2>2
<1>7. e = [k \in 0..n |-> IF k = 0 THEN 0 ELSE e[k - 1] + f[k]]
  <2>1. e = [k \in 0..n |-> IF k = 0 THEN 0 ELSE op[k][e[k - 1]]]
    BY <1>5 DEF Path
  <2> QED
    BY <2>1, <1>6
<1>8. s = [k \in 0..n |-> IF k = 0 THEN 0 ELSE s[k - 1] + f[k]]
  BY <1>1, <1>7
<1> HIDE DEF s
<1>9. s[0] = 0 /\ \A k \in 1..n : s[k] = s[k - 1] + f[k]
  BY <1>8
<1>10. ASSUME NEW k \in 0..n PROVE s[k] \in Int
  <2>1. ASSUME NEW j \in 1..k, s[j - 1] \in Int PROVE s[j] \in Int
    <3>1. j \in 1..n
      OBVIOUS
    <3>2. f[j] \in Int /\ s[j] = s[j - 1] + f[j]
      BY <3>1, <1>9
    <3> QED
      BY <3>2, <2>1
  <2>2. s[0] \in Int /\ k \in Nat
    BY <1>9
  <2> QED
    BY <2>1, <2>2, Reaches
<1>11. s \in [0..n -> Int]
  BY <1>8, <1>10
<1> QED
  BY <1>1, <1>2, <1>9, <1>11

LEMMA SumType ==
  ASSUME NEW n \in Nat, NEW f \in [1..n -> Int]
  PROVE  Sum(f) \in Int
BY Partials

\* Sums add up.
LEMMA SumAdd ==
  ASSUME NEW n \in Nat, NEW f \in [1..n -> Int], NEW d \in [1..n -> Int], NEW e \in [1..n -> Int],
         \A k \in 1..n : f[k] = d[k] + e[k]
  PROVE  Sum(f) = Sum(d) + Sum(e)
<1>1. PICK s \in [0..n -> Int] :
        s[0] = 0 /\ (\A k \in 1..n : s[k] = s[k - 1] + f[k]) /\ Sum(f) = s[n]
  BY Partials
<1>2. PICK t \in [0..n -> Int] :
        t[0] = 0 /\ (\A k \in 1..n : t[k] = t[k - 1] + d[k]) /\ Sum(d) = t[n]
  BY Partials
<1>3. PICK u \in [0..n -> Int] :
        u[0] = 0 /\ (\A k \in 1..n : u[k] = u[k - 1] + e[k]) /\ Sum(e) = u[n]
  BY Partials
<1>4. PICK r : r = [k \in 0..n |-> IF s[k] = t[k] + u[k] THEN 0 ELSE 1]
  OBVIOUS
<1>5. r[0] \in {0}
  BY <1>1, <1>2, <1>3, <1>4
<1>6. ASSUME NEW k \in 1..n, r[k - 1] \in {0} PROVE r[k] \in {0}
  <2>1. k \in 0..n /\ k - 1 \in 0..n
    OBVIOUS
  <2>2. d[k] \in Int /\ e[k] \in Int /\ f[k] = d[k] + e[k]
    OBVIOUS
  <2>3. t[k - 1] \in Int /\ u[k - 1] \in Int
    BY <2>1
  <2>4. s[k - 1] = t[k - 1] + u[k - 1]
    BY <2>1, <1>4, <1>6
  <2>5. s[k] = s[k - 1] + f[k] /\ t[k] = t[k - 1] + d[k] /\ u[k] = u[k - 1] + e[k]
    BY <1>1, <1>2, <1>3
  <2>6. ASSUME NEW tt \in Int, NEW uu \in Int, NEW dd \in Int, NEW ee \in Int
        PROVE  (tt + uu) + (dd + ee) = (tt + dd) + (uu + ee)
    OBVIOUS
  <2>7. s[k] = t[k] + u[k]
    BY <2>2, <2>3, <2>4, <2>5, <2>6
  <2> QED
    BY <2>1, <2>7, <1>4
<1>7. r[n] \in {0}
  BY <1>5, <1>6, Reaches
<1>8. s[n] = t[n] + u[n]
  BY <1>4, <1>7
<1> QED
  BY <1>1, <1>2, <1>3, <1>8

\* A sum with at most one term is that term.
LEMMA SumSingle ==
  ASSUME NEW n \in Nat, NEW f \in [1..n -> Int], NEW i \in 1..n, \A k \in 1..n : k # i => f[k] = 0
  PROVE  Sum(f) = f[i]
<1>1. PICK s \in [0..n -> Int] :
        s[0] = 0 /\ (\A k \in 1..n : s[k] = s[k - 1] + f[k]) /\ Sum(f) = s[n]
  BY Partials
<1>2. PICK r : r = [k \in 0..n |-> s[k] - (IF k < i THEN 0 ELSE f[i])]
  OBVIOUS
<1>3. r[0] \in {0}
  BY <1>1, <1>2
<1>4. ASSUME NEW k \in 1..n, r[k - 1] \in {0} PROVE r[k] \in {0}
  <2>1. k \in 0..n /\ k - 1 \in 0..n /\ f[k] \in Int /\ f[i] \in Int /\ s[k] \in Int /\ s[k - 1] \in Int
    OBVIOUS
  <2>2. /\ r[k] = s[k] - (IF k < i THEN 0 ELSE f[i])
        /\ r[k - 1] = s[k - 1] - (IF k - 1 < i THEN 0 ELSE f[i])
    BY <2>1, <1>2
  <2>3. s[k] = s[k - 1] + f[k] /\ (k # i => f[k] = 0)
    BY <1>1
  <2> QED
    BY <2>1, <2>2, <2>3, <1>4
<1>5. r[n] \in {0}
  BY <1>3, <1>4, Reaches
<1>6. n \in 0..n /\ s[n] \in Int /\ f[i] \in Int /\ ~(n < i)
  OBVIOUS
<1> QED
  BY <1>1, <1>2, <1>5, <1>6

\* One term of a sum changes.
LEMMA SumChange ==
  ASSUME NEW n \in Nat, NEW f \in [1..n -> Int], NEW h \in [1..n -> Int], NEW i \in 1..n,
         \A k \in 1..n : k # i => h[k] = f[k]
  PROVE  Sum(h) = Sum(f) + h[i] - f[i]
<1>1. PICK d : d = [k \in 1..n |-> h[k] - f[k]]
  OBVIOUS
<1>2. d \in [1..n -> Int] /\ d[i] = h[i] - f[i] /\ \A k \in 1..n : k # i => d[k] = 0
  BY <1>1
<1>3. \A k \in 1..n : h[k] = f[k] + d[k]
  BY <1>1
<1>4. Sum(h) = Sum(f) + Sum(d) /\ Sum(d) = d[i] /\ Sum(f) \in Int
  BY <1>2, <1>3, SumAdd, SumSingle, SumType
<1>5. h[i] \in Int /\ f[i] \in Int
  OBVIOUS
<1> QED
  BY <1>2, <1>4, <1>5

-----------------------------------------------------------------------------
(* Entities come, go and move                                              *)

LEMMA SoundParts ==
  ASSUME NEW I \in [ItemIds -> Entity \cup {Absent}], NEW A \in [Cells -> Seq(ItemIds)],
         NEW B \in [Cells -> Container \cup {Absent}], NEW n \in 0..MaxItems + 1,
         Listed(I, A, n), Backed(B)
  PROVE  [items |-> I, at |-> A, box |-> B, next |-> n] \in Sound
BY DEF Sound, Grounds

LEMMA SoundFacts ==
  ASSUME NEW h \in Sound
  PROVE  /\ h.items \in [ItemIds -> Entity \cup {Absent}] /\ h.at \in [Cells -> Seq(ItemIds)]
         /\ h.box \in [Cells -> Container \cup {Absent}] /\ h.next \in 0..MaxItems + 1
         /\ Listed(h.items, h.at, h.next) /\ Backed(h.box)
         /\ h = [items |-> h.items, at |-> h.at, box |-> h.box, next |-> h.next]
BY DEF Sound, Grounds

LEMMA EntityFacts ==
  ASSUME NEW e \in Entity
  PROVE  /\ e # Absent /\ e.pos \in Cells /\ e.item \in Items /\ e.count \in Nat \ {0} /\ e.expires \in Nat
BY GroundAssumption DEF Entity

LEMMA MergedListed ==
  ASSUME NEW I \in [ItemIds -> Entity \cup {Absent}], NEW A, NEW n, Listed(I, A, n),
         NEW i \in ItemIds, I[i] # Absent, NEW e \in Entity, e.pos = I[i].pos
  PROVE  /\ [I EXCEPT ![i] = e] \in [ItemIds -> Entity \cup {Absent}]
         /\ Listed([I EXCEPT ![i] = e], A, n)
<1> DEFINE J == [I EXCEPT ![i] = e]
<1>1. /\ J \in [ItemIds -> Entity \cup {Absent}] /\ J[i] = e /\ e # Absent
      /\ \A j \in ItemIds : j # i => J[j] = I[j]
  BY EntityFacts
<1> HIDE DEF J
<1>2. ASSUME NEW p \in Cells
      PROVE  {j \in ItemIds : J[j] # Absent /\ J[j].pos = p} = {j \in ItemIds : I[j] # Absent /\ I[j].pos = p}
  <2>1. \A j \in ItemIds : (J[j] # Absent /\ J[j].pos = p) <=> (I[j] # Absent /\ I[j].pos = p)
    BY <1>1
  <2> QED
    BY <2>1
<1>3. \A j \in ItemIds : j > n => J[j] = Absent
  BY <1>1 DEF Listed
<1> QED
  BY <1>1, <1>2, <1>3 DEF Listed, J

LEMMA GoneListed ==
  ASSUME NEW I \in [ItemIds -> Entity \cup {Absent}], NEW A \in [Cells -> Seq(ItemIds)], NEW n,
         Listed(I, A, n), NEW i \in ItemIds, I[i] # Absent
  PROVE  /\ [I EXCEPT ![i] = Absent] \in [ItemIds -> Entity \cup {Absent}]
         /\ [A EXCEPT ![I[i].pos] = RemoveID(A[I[i].pos], i)] \in [Cells -> Seq(ItemIds)]
         /\ Listed([I EXCEPT ![i] = Absent], [A EXCEPT ![I[i].pos] = RemoveID(A[I[i].pos], i)], n)
<1>1. PICK q \in Cells : q = I[i].pos
  BY EntityFacts
<1>2. PICK w : w = RemoveID(A[q], i)
  OBVIOUS
<1> DEFINE J == [I EXCEPT ![i] = Absent]
           B == [A EXCEPT ![q] = w]
<1>3. w \in Seq(ItemIds) /\ Distinct(w) /\ Elements(w) = Elements(A[q]) \ {i}
  BY <1>2, RemoveIDFacts DEF Listed
<1>4. /\ J \in [ItemIds -> Entity \cup {Absent}] /\ J[i] = Absent
      /\ \A j \in ItemIds : j # i => J[j] = I[j]
      /\ B \in [Cells -> Seq(ItemIds)] /\ B[q] = w /\ \A p \in Cells : p # q => B[p] = A[p]
  BY <1>3
<1> HIDE DEF J, B
<1>5. ASSUME NEW p \in Cells
      PROVE  Distinct(B[p]) /\ Elements(B[p]) = {j \in ItemIds : J[j] # Absent /\ J[j].pos = p}
  <2>1. Distinct(A[p]) /\ Elements(A[p]) = {j \in ItemIds : I[j] # Absent /\ I[j].pos = p}
    BY DEF Listed
  <2>2. CASE p = q
    <3>1. \A j \in ItemIds : (J[j] # Absent /\ J[j].pos = p) <=> (I[j] # Absent /\ I[j].pos = p /\ j # i)
      BY <1>4
    <3> QED
      BY <2>1, <2>2, <3>1, <1>3, <1>4
  <2>3. CASE p # q
    <3>1. \A j \in ItemIds : (J[j] # Absent /\ J[j].pos = p) <=> (I[j] # Absent /\ I[j].pos = p)
      BY <1>1, <1>4, <2>3
    <3> QED
      BY <2>1, <2>3, <3>1, <1>4
  <2> QED
    BY <2>2, <2>3
<1>6. \A j \in ItemIds : j > n => J[j] = Absent
  BY <1>4 DEF Listed
<1> QED
  BY <1>1, <1>2, <1>4, <1>5, <1>6 DEF Listed, J, B

LEMMA MovedListed ==
  ASSUME NEW I \in [ItemIds -> Entity \cup {Absent}], NEW A \in [Cells -> Seq(ItemIds)], NEW n,
         Listed(I, A, n), NEW i \in ItemIds, I[i] # Absent, NEW to \in Cells, I[i].pos # to
  PROVE  LET J == [I EXCEPT ![i] = [I[i] EXCEPT !.pos = to]]
             B == [A EXCEPT ![I[i].pos] = RemoveID(A[I[i].pos], i), ![to] = Append(A[to], i)]
         IN  /\ J \in [ItemIds -> Entity \cup {Absent}] /\ B \in [Cells -> Seq(ItemIds)]
             /\ Listed(J, B, n)
<1>1. PICK q \in Cells : q = I[i].pos /\ q # to
  BY EntityFacts
<1>2. PICK w : w = RemoveID(A[q], i)
  OBVIOUS
<1>3. PICK v : v = Append(A[to], i)
  OBVIOUS
<1>4. PICK e : e = [I[i] EXCEPT !.pos = to]
  OBVIOUS
<1> DEFINE J == [I EXCEPT ![i] = e]
           B == [A EXCEPT ![q] = w, ![to] = v]
<1>5. w \in Seq(ItemIds) /\ Distinct(w) /\ Elements(w) = Elements(A[q]) \ {i}
  BY <1>2, RemoveIDFacts DEF Listed
<1>6. v \in Seq(ItemIds) /\ Distinct(v) /\ Elements(v) = Elements(A[to]) \cup {i}
  <2>1. i \notin Elements(A[to]) /\ Distinct(A[to]) /\ A[to] \in Seq(ItemIds)
    BY DEF Listed
  <2> QED
    BY <2>1, <1>3, AppendFacts
<1>7. e \in Entity /\ e # Absent /\ e.pos = to
  <2>1. I[i] \in Entity
    OBVIOUS
  <2>2. e \in Entity /\ e.pos = to
    BY <2>1, <1>4 DEF Entity
  <2> QED
    BY <2>2, EntityFacts
<1>8. /\ J \in [ItemIds -> Entity \cup {Absent}] /\ J[i] = e
      /\ \A j \in ItemIds : j # i => J[j] = I[j]
      /\ B \in [Cells -> Seq(ItemIds)] /\ B[q] = w /\ B[to] = v
      /\ \A p \in Cells : p # q /\ p # to => B[p] = A[p]
  BY <1>1, <1>5, <1>6, <1>7
<1> HIDE DEF J, B
<1>9. ASSUME NEW p \in Cells
      PROVE  Distinct(B[p]) /\ Elements(B[p]) = {j \in ItemIds : J[j] # Absent /\ J[j].pos = p}
  <2>1. Distinct(A[p]) /\ Elements(A[p]) = {j \in ItemIds : I[j] # Absent /\ I[j].pos = p}
    BY DEF Listed
  <2>2. CASE p = q
    <3>1. \A j \in ItemIds : (J[j] # Absent /\ J[j].pos = p) <=> (I[j] # Absent /\ I[j].pos = p /\ j # i)
      BY <1>1, <1>7, <1>8, <2>2
    <3> QED
      BY <2>1, <2>2, <3>1, <1>5, <1>8
  <2>3. CASE p = to
    <3>1. \A j \in ItemIds : (J[j] # Absent /\ J[j].pos = p) <=> ((I[j] # Absent /\ I[j].pos = p) \/ j = i)
      BY <1>1, <1>7, <1>8, <2>3
    <3> QED
      BY <2>1, <2>3, <3>1, <1>6, <1>8
  <2>4. CASE p # q /\ p # to
    <3>1. \A j \in ItemIds : (J[j] # Absent /\ J[j].pos = p) <=> (I[j] # Absent /\ I[j].pos = p)
      BY <1>1, <1>7, <1>8, <2>4
    <3> QED
      BY <2>1, <2>4, <3>1, <1>8
  <2> QED
    BY <2>2, <2>3, <2>4
<1>10. \A j \in ItemIds : j > n => J[j] = Absent
  BY <1>8 DEF Listed
<1>11. Listed(J, B, n)
  BY <1>9, <1>10 DEF Listed
<1> QED
  BY <1>1, <1>2, <1>3, <1>4, <1>8, <1>11 DEF J, B

LEMMA MoreListed ==
  ASSUME NEW I \in [ItemIds -> Entity \cup {Absent}], NEW A \in [Cells -> Seq(ItemIds)], NEW n \in Nat,
         Listed(I, A, n), n + 1 \in ItemIds, NEW e \in Entity
  PROVE  LET J == [I EXCEPT ![n + 1] = e]
             B == [A EXCEPT ![e.pos] = Append(A[e.pos], n + 1)]
         IN  /\ J \in [ItemIds -> Entity \cup {Absent}] /\ B \in [Cells -> Seq(ItemIds)]
             /\ Listed(J, B, n + 1)
<1>1. PICK q \in Cells : q = e.pos
  BY EntityFacts
<1>2. PICK i \in ItemIds : i = n + 1
  OBVIOUS
<1>3. PICK v : v = Append(A[q], i)
  OBVIOUS
<1>4. I[i] = Absent /\ e # Absent
  <2>1. i > n
    BY <1>2
  <2> QED
    BY <2>1, EntityFacts DEF Listed
<1> DEFINE J == [I EXCEPT ![i] = e]
           B == [A EXCEPT ![q] = v]
<1>6. v \in Seq(ItemIds) /\ Distinct(v) /\ Elements(v) = Elements(A[q]) \cup {i}
  <2>1. i \notin Elements(A[q]) /\ Distinct(A[q]) /\ A[q] \in Seq(ItemIds)
    BY <1>4 DEF Listed
  <2> QED
    BY <2>1, <1>3, AppendFacts
<1>8. /\ J \in [ItemIds -> Entity \cup {Absent}] /\ J[i] = e
      /\ \A j \in ItemIds : j # i => J[j] = I[j]
      /\ B \in [Cells -> Seq(ItemIds)] /\ B[q] = v
      /\ \A p \in Cells : p # q => B[p] = A[p]
  BY <1>1, <1>6
<1> HIDE DEF J, B
<1>9. ASSUME NEW p \in Cells
      PROVE  Distinct(B[p]) /\ Elements(B[p]) = {j \in ItemIds : J[j] # Absent /\ J[j].pos = p}
  <2>1. Distinct(A[p]) /\ Elements(A[p]) = {j \in ItemIds : I[j] # Absent /\ I[j].pos = p}
    BY DEF Listed
  <2>2. CASE p = q
    <3>1. \A j \in ItemIds : (J[j] # Absent /\ J[j].pos = p) <=> ((I[j] # Absent /\ I[j].pos = p) \/ j = i)
      BY <1>1, <1>4, <1>8, <2>2
    <3> QED
      BY <2>1, <2>2, <3>1, <1>6, <1>8
  <2>4. CASE p # q
    <3>1. \A j \in ItemIds : (J[j] # Absent /\ J[j].pos = p) <=> (I[j] # Absent /\ I[j].pos = p)
      BY <1>1, <1>4, <1>8, <2>4
    <3> QED
      BY <2>1, <2>4, <3>1, <1>8
  <2> QED
    BY <2>2, <2>4
<1>10. \A j \in ItemIds : j > n + 1 => J[j] = Absent
  <2> SUFFICES ASSUME NEW j \in ItemIds, j > n + 1 PROVE J[j] = Absent
    OBVIOUS
  <2>1. j \in Nat /\ j > n /\ j # i
    BY <1>2 DEF ItemIds
  <2> QED
    BY <2>1, <1>8 DEF Listed
<1>11. Listed(J, B, n + 1)
  BY <1>9, <1>10 DEF Listed
<1> QED
  BY <1>1, <1>2, <1>3, <1>8, <1>11 DEF J, B

-----------------------------------------------------------------------------
(* What lies on the ground and in containers                               *)

LEMMA ContainerFacts ==
  ASSUME NEW c \in Container
  PROVE  /\ c # Absent /\ c.type \in ContainerTypes
         /\ c.stock \in Bundle /\ c.reserved \in Bundle /\ c.owed \in [Agents -> Bundle]
         /\ c = [type |-> c.type, stock |-> c.stock, reserved |-> c.reserved, owed |-> c.owed]
BY GroundAssumption DEF Container

LEMMA BundleFacts ==
  ASSUME NEW b \in Bundle, NEW x \in Items
  PROVE  b[x] \in Nat
BY DEF Bundle

LEMMA ByAgentType ==
  ASSUME NEW f \in [Agents -> Int]
  PROVE  ByAgent(f) \in Int
<1>1. Len(AgentOrder) \in Nat /\ DOMAIN AgentOrder = 1..Len(AgentOrder)
  BY WorkAssumption, LenProperties
<1>2. PICK d : d = [k \in DOMAIN AgentOrder |-> f[AgentOrder[k]]]
  OBVIOUS
<1>3. \A k \in DOMAIN AgentOrder : AgentOrder[k] \in Agents
  BY WorkAssumption
<1>4. d \in [1..Len(AgentOrder) -> Int]
  BY <1>1, <1>2, <1>3
<1> QED
  BY <1>1, <1>2, <1>4, SumType DEF ByAgent

LEMMA ByAgentAdd ==
  ASSUME NEW f \in [Agents -> Int], NEW d \in [Agents -> Int], NEW e \in [Agents -> Int],
         \A a \in Agents : f[a] = d[a] + e[a]
  PROVE  ByAgent(f) = ByAgent(d) + ByAgent(e)
<1>1. Len(AgentOrder) \in Nat /\ DOMAIN AgentOrder = 1..Len(AgentOrder)
  BY WorkAssumption, LenProperties
<1>2. PICK r : r = [k \in DOMAIN AgentOrder |-> f[AgentOrder[k]]]
  OBVIOUS
<1>3. PICK s : s = [k \in DOMAIN AgentOrder |-> d[AgentOrder[k]]]
  OBVIOUS
<1>4. PICK t : t = [k \in DOMAIN AgentOrder |-> e[AgentOrder[k]]]
  OBVIOUS
<1>5. \A k \in DOMAIN AgentOrder : AgentOrder[k] \in Agents
  BY WorkAssumption
<1>6. r \in [1..Len(AgentOrder) -> Int]
  BY <1>1, <1>2, <1>5
<1>7. s \in [1..Len(AgentOrder) -> Int]
  BY <1>1, <1>3, <1>5
<1>8. t \in [1..Len(AgentOrder) -> Int]
  BY <1>1, <1>4, <1>5
<1>9. \A k \in 1..Len(AgentOrder) : r[k] = s[k] + t[k]
  BY <1>1, <1>2, <1>3, <1>4, <1>5
<1>10. Sum(r) = Sum(s) + Sum(t)
  BY <1>1, <1>6, <1>7, <1>8, <1>9, SumAdd
<1> QED
  BY <1>2, <1>3, <1>4, <1>10 DEF ByAgent

LEMMA ByAgentChange ==
  ASSUME NEW f \in [Agents -> Int], NEW h \in [Agents -> Int], NEW a \in Agents,
         \A b \in Agents : b # a => h[b] = f[b]
  PROVE  ByAgent(h) = ByAgent(f) + h[a] - f[a]
<1>1. Len(AgentOrder) \in Nat /\ DOMAIN AgentOrder = 1..Len(AgentOrder)
  BY WorkAssumption, LenProperties
<1>2. PICK r : r = [k \in DOMAIN AgentOrder |-> f[AgentOrder[k]]]
  OBVIOUS
<1>3. PICK s : s = [k \in DOMAIN AgentOrder |-> h[AgentOrder[k]]]
  OBVIOUS
<1>4. PICK i \in DOMAIN AgentOrder : AgentOrder[i] = a
  BY WorkAssumption
<1>5. \A k \in DOMAIN AgentOrder : AgentOrder[k] \in Agents /\ (k # i => AgentOrder[k] # a)
  BY <1>4, WorkAssumption
<1>6. r \in [1..Len(AgentOrder) -> Int] /\ r[i] = f[a]
  BY <1>1, <1>2, <1>4, <1>5
<1>7. s \in [1..Len(AgentOrder) -> Int] /\ s[i] = h[a]
  BY <1>1, <1>3, <1>4, <1>5
<1>8. \A k \in 1..Len(AgentOrder) : k # i => s[k] = r[k]
  BY <1>1, <1>2, <1>3, <1>5
<1>9. Sum(s) = Sum(r) + s[i] - r[i]
  BY <1>1, <1>4, <1>6, <1>7, <1>8, SumChange
<1> QED
  BY <1>2, <1>3, <1>6, <1>7, <1>9 DEF ByAgent

LEMMA ByAgentZero ==
  ASSUME NEW f, f = [a \in Agents |-> 0]
  PROVE  ByAgent(f) = 0
<1>1. f \in [Agents -> Int] /\ \A a \in Agents : f[a] = f[a] + f[a]
  OBVIOUS
<1>2. ByAgent(f) = ByAgent(f) + ByAgent(f)
  BY <1>1, ByAgentAdd
<1>3. PICK b \in Int : b = ByAgent(f)
  BY <1>1, ByAgentType
<1>4. b = b + b
  BY <1>2, <1>3
<1>5. b = 0
  BY <1>4
<1> QED
  BY <1>3, <1>5

Lain(items, x) == Sum([i \in ItemIds |-> Lying(items[i], x)])
Boxed(box, x) == Sum([p \in Cells |-> Kept(box[p], x)])

LEMMA LyingType ==
  ASSUME NEW e \in Entity \cup {Absent}, NEW x
  PROVE  Lying(e, x) \in Nat
BY EntityFacts DEF Lying

LEMMA KeptType ==
  ASSUME NEW c \in Container \cup {Absent}, NEW x \in Items
  PROVE  Kept(c, x) \in Int
<1>1. CASE c = Absent
  BY <1>1 DEF Kept
<1>2. CASE c # Absent
  <2>1. c.stock[x] \in Nat /\ \A a \in Agents : c.owed[a][x] \in Nat
    BY <1>2, ContainerFacts, BundleFacts
  <2>2. PICK f : f = [a \in Agents |-> c.owed[a][x]]
    OBVIOUS
  <2>3. f \in [Agents -> Int]
    BY <2>1, <2>2
  <2>4. ByAgent(f) \in Int
    BY <2>3, ByAgentType
  <2> QED
    BY <1>2, <2>1, <2>2, <2>4 DEF Kept
<1> QED
  BY <1>1, <1>2

LEMMA LainType ==
  ASSUME NEW I \in [ItemIds -> Entity \cup {Absent}], NEW x
  PROVE  Lain(I, x) \in Int
<1>1. PICK f : f = [i \in ItemIds |-> Lying(I[i], x)]
  OBVIOUS
<1>2. f \in [1..MaxItems -> Int]
  BY <1>1, LyingType DEF ItemIds
<1> QED
  BY <1>1, <1>2, SumType, GroundAssumption DEF Lain

LEMMA LainChange ==
  ASSUME NEW I \in [ItemIds -> Entity \cup {Absent}], NEW J \in [ItemIds -> Entity \cup {Absent}],
         NEW i \in ItemIds, \A k \in ItemIds : k # i => J[k] = I[k], NEW x
  PROVE  Lain(J, x) = Lain(I, x) + Lying(J[i], x) - Lying(I[i], x)
<1>1. PICK f : f = [k \in ItemIds |-> Lying(I[k], x)]
  OBVIOUS
<1>2. PICK h : h = [k \in ItemIds |-> Lying(J[k], x)]
  OBVIOUS
<1>3. f \in [1..MaxItems -> Int] /\ h \in [1..MaxItems -> Int]
  <2>1. \A k \in ItemIds : Lying(I[k], x) \in Nat /\ Lying(J[k], x) \in Nat
    BY LyingType
  <2> QED
    BY <2>1, <1>1, <1>2 DEF ItemIds
<1>4. \A k \in 1..MaxItems : k # i => h[k] = f[k]
  BY <1>1, <1>2 DEF ItemIds
<1>5. i \in 1..MaxItems /\ MaxItems \in Nat
  BY GroundAssumption DEF ItemIds
<1>6. Sum(h) = Sum(f) + h[i] - f[i]
  BY <1>3, <1>4, <1>5, SumChange
<1> QED
  BY <1>1, <1>2, <1>6 DEF Lain

LEMMA BoxedType ==
  ASSUME NEW B \in [Cells -> Container \cup {Absent}], NEW x \in Items
  PROVE  Boxed(B, x) \in Int
<1>1. PICK f : f = [p \in Cells |-> Kept(B[p], x)]
  OBVIOUS
<1>2. f \in [1..Width -> Int]
  BY <1>1, KeptType DEF Cells
<1> QED
  BY <1>1, <1>2, SumType, GroundAssumption DEF Boxed

LEMMA BoxedChange ==
  ASSUME NEW B \in [Cells -> Container \cup {Absent}], NEW C \in [Cells -> Container \cup {Absent}],
         NEW p \in Cells, \A q \in Cells : q # p => C[q] = B[q], NEW x \in Items
  PROVE  Boxed(C, x) = Boxed(B, x) + Kept(C[p], x) - Kept(B[p], x)
<1>1. PICK f : f = [q \in Cells |-> Kept(B[q], x)]
  OBVIOUS
<1>2. PICK h : h = [q \in Cells |-> Kept(C[q], x)]
  OBVIOUS
<1>3. f \in [1..Width -> Int] /\ h \in [1..Width -> Int]
  BY <1>1, <1>2, KeptType DEF Cells
<1>4. \A q \in 1..Width : q # p => h[q] = f[q]
  BY <1>1, <1>2 DEF Cells
<1>5. p \in 1..Width /\ Width \in Nat
  BY GroundAssumption DEF Cells
<1>6. Sum(h) = Sum(f) + h[p] - f[p]
  BY <1>3, <1>4, <1>5, SumChange
<1> QED
  BY <1>1, <1>2, <1>6 DEF Boxed

LEMMA OnGroundParts ==
  ASSUME NEW h, NEW x
  PROVE  OnGround(h, x) = Lain(h.items, x) + Boxed(h.box, x)
BY DEF OnGround, Lain, Boxed

LEMMA OnGroundType ==
  ASSUME NEW h \in Sound, NEW x \in Items
  PROVE  OnGround(h, x) \in Int
BY SoundFacts, OnGroundParts, LainType, BoxedType

\* What a change of one entity, or of one container, makes of the whole.
LEMMA EntityChanges ==
  ASSUME NEW h \in Sound, NEW k \in Sound, k.box = h.box,
         NEW i \in ItemIds, \A j \in ItemIds : j # i => k.items[j] = h.items[j], NEW x \in Items
  PROVE  OnGround(k, x) = OnGround(h, x) + Lying(k.items[i], x) - Lying(h.items[i], x)
<1>0. /\ h.items \in [ItemIds -> Entity \cup {Absent}] /\ k.items \in [ItemIds -> Entity \cup {Absent}]
      /\ h.box \in [Cells -> Container \cup {Absent}]
  BY SoundFacts
<1>1. Lain(k.items, x) = Lain(h.items, x) + Lying(k.items[i], x) - Lying(h.items[i], x)
  BY <1>0, LainChange
<1>2. Lain(h.items, x) \in Int /\ Boxed(h.box, x) \in Int
  BY <1>0, LainType, BoxedType
<1>3. Lying(h.items[i], x) \in Nat /\ Lying(k.items[i], x) \in Nat
  BY <1>0, LyingType
<1>4. OnGround(k, x) = Lain(k.items, x) + Boxed(h.box, x) /\ OnGround(h, x) = Lain(h.items, x) + Boxed(h.box, x)
  BY OnGroundParts
<1> QED
  BY <1>1, <1>2, <1>3, <1>4

LEMMA BoxChanges ==
  ASSUME NEW h \in Sound, NEW k \in Sound, k.items = h.items,
         NEW p \in Cells, \A q \in Cells : q # p => k.box[q] = h.box[q], NEW x \in Items
  PROVE  OnGround(k, x) = OnGround(h, x) + Kept(k.box[p], x) - Kept(h.box[p], x)
<1>0. /\ h.items \in [ItemIds -> Entity \cup {Absent}]
      /\ h.box \in [Cells -> Container \cup {Absent}] /\ k.box \in [Cells -> Container \cup {Absent}]
  BY SoundFacts
<1>1. Boxed(k.box, x) = Boxed(h.box, x) + Kept(k.box[p], x) - Kept(h.box[p], x)
  BY <1>0, BoxedChange
<1>2. Lain(h.items, x) \in Int /\ Boxed(h.box, x) \in Int
  BY <1>0, LainType, BoxedType
<1>3. Kept(h.box[p], x) \in Int /\ Kept(k.box[p], x) \in Int
  BY <1>0, KeptType
<1>4. OnGround(k, x) = Lain(h.items, x) + Boxed(k.box, x) /\ OnGround(h, x) = Lain(h.items, x) + Boxed(h.box, x)
  BY OnGroundParts
<1> QED
  BY <1>1, <1>2, <1>3, <1>4

LEMMA Ground4 ==
  ASSUME NEW h \in Sound
  PROVE  \E I \in [ItemIds -> Entity \cup {Absent}], A \in [Cells -> Seq(ItemIds)],
            B \in [Cells -> Container \cup {Absent}], n \in 0..MaxItems + 1 :
           /\ h = [items |-> I, at |-> A, box |-> B, next |-> n]
           /\ Listed(I, A, n) /\ Backed(B)
BY SoundFacts

LEMMA RemoveSound ==
  ASSUME NEW h \in Sound, NEW i \in ItemIds
  PROVE  /\ RemoveEntity(h, i) \in Sound
         /\ RemoveEntity(h, i).box = h.box /\ RemoveEntity(h, i).next = h.next
         /\ \A j \in ItemIds : j # i => RemoveEntity(h, i).items[j] = h.items[j]
         /\ \A x \in Items : OnGround(RemoveEntity(h, i), x) = OnGround(h, x) - Lying(h.items[i], x)
<1>0. PICK I \in [ItemIds -> Entity \cup {Absent}], A \in [Cells -> Seq(ItemIds)],
           B \in [Cells -> Container \cup {Absent}], n \in 0..MaxItems + 1 :
             /\ h = [items |-> I, at |-> A, box |-> B, next |-> n]
             /\ Listed(I, A, n) /\ Backed(B)
  BY Ground4
<1>1. CASE I[i] = Absent
  <2>1. RemoveEntity(h, i) = h /\ \A x \in Items : Lying(h.items[i], x) = 0
    BY <1>0, <1>1 DEF RemoveEntity, Lying
  <2> QED
    BY <2>1, OnGroundType
<1>2. CASE I[i] # Absent
  <2>1. PICK J : J = [I EXCEPT ![i] = Absent]
    OBVIOUS
  <2>2. PICK C : C = [A EXCEPT ![I[i].pos] = RemoveID(A[I[i].pos], i)]
    OBVIOUS
  <2>3. RemoveEntity(h, i) = [items |-> J, at |-> C, box |-> B, next |-> n]
    BY <1>0, <1>2, <2>1, <2>2 DEF RemoveEntity
  <2>4. J \in [ItemIds -> Entity \cup {Absent}] /\ C \in [Cells -> Seq(ItemIds)] /\ Listed(J, C, n)
    BY <1>0, <1>2, <2>1, <2>2, GoneListed
  <2>5. [items |-> J, at |-> C, box |-> B, next |-> n] \in Sound
    BY <1>0, <2>4, SoundParts
  <2>6. ASSUME NEW x \in Items
        PROVE  OnGround(RemoveEntity(h, i), x) = OnGround(h, x) - Lying(h.items[i], x)
    <3>1. J[i] = Absent /\ \A k \in ItemIds : k # i => J[k] = I[k]
      BY <2>1
    <3>2. OnGround(RemoveEntity(h, i), x) = OnGround(h, x) + Lying(J[i], x) - Lying(I[i], x)
      <4>1. RemoveEntity(h, i) \in Sound /\ RemoveEntity(h, i).items = J /\ RemoveEntity(h, i).box = B
        BY <2>3, <2>5
      <4>2. h.items = I /\ h.box = B
        BY <1>0
      <4> QED
        BY <4>1, <4>2, <3>1, EntityChanges
    <3>3. Lying(J[i], x) = 0 /\ h.items[i] = I[i] /\ Lying(I[i], x) \in Nat
      BY <3>1, <1>0, LyingType DEF Lying
    <3> QED
      BY <3>2, <3>3, OnGroundType
  <2>7. \A j \in ItemIds : j # i => RemoveEntity(h, i).items[j] = h.items[j]
    BY <1>0, <2>1, <2>3
  <2> QED
    BY <1>0, <2>3, <2>5, <2>6, <2>7
<1> QED
  BY <1>1, <1>2

LEMMA MoveSound ==
  ASSUME NEW h \in Sound, NEW i \in ItemIds, h.items[i] # Absent, NEW to \in Cells
  PROVE  /\ Move(h, i, to) \in Sound /\ Move(h, i, to).next = h.next
         /\ \A x \in Items : OnGround(Move(h, i, to), x) = OnGround(h, x)
<1>0. PICK I \in [ItemIds -> Entity \cup {Absent}], A \in [Cells -> Seq(ItemIds)],
           B \in [Cells -> Container \cup {Absent}], n \in 0..MaxItems + 1 :
             /\ h = [items |-> I, at |-> A, box |-> B, next |-> n]
             /\ Listed(I, A, n) /\ Backed(B)
  BY Ground4
<1>1. CASE I[i].pos = to
  BY <1>0, <1>1 DEF Move
<1>2. CASE I[i].pos # to
  <2>1. PICK J : J = [I EXCEPT ![i] = [I[i] EXCEPT !.pos = to]]
    OBVIOUS
  <2>2. PICK C : C = [A EXCEPT ![I[i].pos] = RemoveID(A[I[i].pos], i), ![to] = Append(A[to], i)]
    OBVIOUS
  <2>3. I[i] # Absent /\ I[i].pos \in Cells
    BY <1>0, EntityFacts
  <2>4. Move(h, i, to) = [items |-> J, at |-> C, box |-> B, next |-> n]
    BY <1>0, <1>2, <2>1, <2>2, <2>3 DEF Move
  <2>5. J \in [ItemIds -> Entity \cup {Absent}] /\ C \in [Cells -> Seq(ItemIds)] /\ Listed(J, C, n)
    BY <1>0, <1>2, <2>1, <2>2, <2>3, MovedListed
  <2>6. [items |-> J, at |-> C, box |-> B, next |-> n] \in Sound
    BY <1>0, <2>5, SoundParts
  <2>7. ASSUME NEW x \in Items
        PROVE  OnGround(Move(h, i, to), x) = OnGround(h, x)
    <3>1. J[i] = [I[i] EXCEPT !.pos = to] /\ \A k \in ItemIds : k # i => J[k] = I[k]
      BY <2>1
    <3>2. OnGround(Move(h, i, to), x) = OnGround(h, x) + Lying(J[i], x) - Lying(I[i], x)
      <4>1. Move(h, i, to) \in Sound /\ Move(h, i, to).items = J /\ Move(h, i, to).box = B
        BY <2>4, <2>6
      <4>2. h.items = I /\ h.box = B
        BY <1>0
      <4>3. PICK k \in Sound : k = Move(h, i, to)
        BY <4>1
      <4>4. k.box = h.box /\ \A j \in ItemIds : j # i => k.items[j] = h.items[j]
        BY <4>1, <4>2, <4>3, <3>1
      <4>5. OnGround(k, x) = OnGround(h, x) + Lying(k.items[i], x) - Lying(h.items[i], x)
        BY <4>4, EntityChanges
      <4> QED
        BY <4>1, <4>2, <4>3, <4>5
    <3>3. J[i] # Absent /\ J[i].item = I[i].item /\ J[i].count = I[i].count
      <4>1. I[i] \in Entity /\ J[i] \in Entity
        BY <1>0, <3>1 DEF Entity
      <4> QED
        BY <4>1, <3>1, EntityFacts DEF Entity
    <3>4. Lying(J[i], x) = Lying(I[i], x) /\ Lying(I[i], x) \in Nat
      BY <3>3, <1>0, LyingType DEF Lying
    <3> QED
      BY <3>2, <3>4, OnGroundType
  <2> QED
    BY <1>0, <2>4, <2>6, <2>7
<1> QED
  BY <1>1, <1>2

LEMMA MergedFacts ==
  ASSUME NEW e \in Entity, NEW count \in Nat \ {0}, NEW now \in Nat
  PROVE  /\ Merged(e, count, now) \in Entity
         /\ Merged(e, count, now).pos = e.pos /\ Merged(e, count, now).item = e.item
         /\ Merged(e, count, now).count = e.count + count
<1>1. e.count + count \in Nat \ {0} /\ Later(now + TTL, e.expires) \in Nat
  BY EntityFacts, GroundAssumption DEF Later
<1> QED
  BY <1>1, EntityFacts DEF Entity, Merged

LEMMA MergeSound ==
  ASSUME NEW h \in Sound, NEW i \in ItemIds, h.items[i] # Absent, NEW count \in Nat \ {0}, NEW now \in Nat
  PROVE  /\ Merge(h, i, count, now) \in Sound /\ Merge(h, i, count, now).next = h.next
         /\ \A x \in Items : OnGround(Merge(h, i, count, now), x)
                              = OnGround(h, x) + (IF x = h.items[i].item THEN count ELSE 0)
<1>0. PICK I \in [ItemIds -> Entity \cup {Absent}], A \in [Cells -> Seq(ItemIds)],
           B \in [Cells -> Container \cup {Absent}], n \in 0..MaxItems + 1 :
             /\ h = [items |-> I, at |-> A, box |-> B, next |-> n]
             /\ Listed(I, A, n) /\ Backed(B)
  BY Ground4
<1>1. PICK e \in Entity : e = I[i]
  BY <1>0
<1>2. PICK f : f = Merged(e, count, now)
  OBVIOUS
<1>3. f \in Entity /\ f.pos = e.pos /\ f.item = e.item /\ f.count = e.count + count
  BY <1>2, MergedFacts
<1>4. PICK J : J = [I EXCEPT ![i] = f]
  OBVIOUS
<1>5. Merge(h, i, count, now) = [items |-> J, at |-> A, box |-> B, next |-> n]
  <2>1. J = [I EXCEPT ![i] = Merged(I[i], count, now)]
    BY <1>1, <1>2, <1>4
  <2>2. [h.items EXCEPT ![i] = Merged(h.items[i], count, now)] = J
    BY <1>0, <2>1
  <2>3. Merge(h, i, count, now) = [h EXCEPT !.items = J]
    BY <2>2 DEF Merge
  <2> QED
    BY <1>0, <2>3
<1>6. J \in [ItemIds -> Entity \cup {Absent}] /\ Listed(J, A, n)
  BY <1>0, <1>1, <1>3, <1>4, MergedListed
<1>7. [items |-> J, at |-> A, box |-> B, next |-> n] \in Sound
  BY <1>0, <1>6, SoundParts
<1>8. ASSUME NEW x \in Items
      PROVE  OnGround(Merge(h, i, count, now), x) = OnGround(h, x) + (IF x = h.items[i].item THEN count ELSE 0)
  <2>1. J[i] = f /\ \A k \in ItemIds : k # i => J[k] = I[k]
    BY <1>4
  <2>2. OnGround(Merge(h, i, count, now), x) = OnGround(h, x) + Lying(f, x) - Lying(e, x)
    <3>1. PICK k \in Sound : k = Merge(h, i, count, now) /\ k.items = J /\ k.box = B
      BY <1>5, <1>7
    <3>2. h.items = I /\ h.box = B
      BY <1>0
    <3>3. k.box = h.box /\ k.items[i] = f /\ h.items[i] = e /\ \A j \in ItemIds : j # i => k.items[j] = h.items[j]
      BY <3>1, <3>2, <2>1, <1>1
    <3>4. OnGround(k, x) = OnGround(h, x) + Lying(k.items[i], x) - Lying(h.items[i], x)
      BY <3>3, EntityChanges
    <3> QED
      BY <3>1, <3>3, <3>4
  <2>3. h.items[i] = e /\ e.count \in Nat /\ e # Absent /\ f # Absent
    BY <1>0, <1>1, <1>3, EntityFacts
  <2>4. Lying(e, x) \in Nat /\ Lying(f, x) = Lying(e, x) + (IF x = e.item THEN count ELSE 0)
    BY <1>3, <2>3 DEF Lying
  <2> QED
    BY <2>2, <2>3, <2>4, OnGroundType
<1> QED
  BY <1>0, <1>5, <1>7, <1>8

LEMMA SpawnSound ==
  ASSUME NEW h \in Sound, NEW now \in Nat, NEW pos \in Cells, NEW item \in Items, NEW count \in Nat \ {0}
  PROVE  /\ Spawn(h, now, pos, item, count) \in Sound
         /\ Spawn(h, now, pos, item, count).next >= h.next
         /\ Spawn(h, now, pos, item, count).next <= MaxItems =>
              \A x \in Items : OnGround(Spawn(h, now, pos, item, count), x)
                               = OnGround(h, x) + (IF x = item THEN count ELSE 0)
<1>1. CASE SameItem(h, pos, item) # {}
  <2>1. PICK k : k = Earliest(SameItem(h, pos, item))
    OBVIOUS
  <2>2. h.at[pos] \in Seq(ItemIds)
    BY SoundFacts
  <2>3. SameItem(h, pos, item) \in SUBSET Nat
    BY <2>2, LenProperties DEF SameItem
  <2>4. k \in DOMAIN h.at[pos] /\ h.items[h.at[pos][k]].item = item
    BY <1>1, <2>1, <2>3, EarliestIn, Zenon DEF SameItem
  <2>5. PICK i : i = h.at[pos][k]
    BY Zenon
  <2>6. i \in Elements(h.at[pos])
    BY <2>4, <2>5 DEF Elements
  <2>7. i \in ItemIds /\ h.items[i] # Absent
    BY <2>6, SoundFacts DEF Listed
  <2>8. Spawn(h, now, pos, item, count) = Merge(h, i, count, now)
    BY <1>1, <2>1, <2>5 DEF Spawn, FindMergeTarget
  <2>9. h.items[i].item = item /\ h.next \in Nat
    BY <2>4, <2>5, SoundFacts, GroundAssumption
  <2> QED
    BY <2>7, <2>8, <2>9, MergeSound
<1>0. PICK I \in [ItemIds -> Entity \cup {Absent}], A \in [Cells -> Seq(ItemIds)],
           B \in [Cells -> Container \cup {Absent}], n \in 0..MaxItems + 1 :
             /\ h = [items |-> I, at |-> A, box |-> B, next |-> n]
             /\ Listed(I, A, n) /\ Backed(B)
  BY Ground4
<1>2. CASE SameItem(h, pos, item) = {} /\ n >= MaxItems
  <2>1. Spawn(h, now, pos, item, count) = [items |-> I, at |-> A, box |-> B, next |-> MaxItems + 1]
    BY <1>0, <1>2 DEF Spawn
  <2>2. MaxItems \in Nat /\ MaxItems + 1 \in 0..MaxItems + 1
    BY GroundAssumption
  <2>3. Listed(I, A, MaxItems + 1)
    <3>1. \A i \in ItemIds : ~(i > MaxItems + 1)
      BY <2>2 DEF ItemIds
    <3> QED
      BY <3>1, <1>0 DEF Listed
  <2>4. [items |-> I, at |-> A, box |-> B, next |-> MaxItems + 1] \in Sound
    BY <1>0, <2>2, <2>3, SoundParts
  <2>5. Spawn(h, now, pos, item, count).next = MaxItems + 1 /\ ~(MaxItems + 1 <= MaxItems)
        /\ MaxItems + 1 >= h.next
    BY <1>0, <2>1, <2>2
  <2> QED
    BY <2>1, <2>4, <2>5
<1>3. CASE SameItem(h, pos, item) = {} /\ ~(n >= MaxItems)
  <2>1. n \in Nat /\ n + 1 \in ItemIds /\ n + 1 \in 0..MaxItems + 1
    BY <1>3, GroundAssumption DEF ItemIds
  <2>2. PICK e : e = [pos |-> pos, item |-> item, count |-> count, expires |-> now + TTL]
    OBVIOUS
  <2>3. e \in Entity /\ e.pos = pos
    BY <2>2, GroundAssumption DEF Entity
  <2>4. PICK J : J = [I EXCEPT ![n + 1] = e]
    OBVIOUS
  <2>5. PICK C : C = [A EXCEPT ![pos] = Append(A[pos], n + 1)]
    OBVIOUS
  <2>6. Spawn(h, now, pos, item, count) = [items |-> J, at |-> C, box |-> B, next |-> n + 1]
    BY <1>0, <1>3, <2>2, <2>4, <2>5 DEF Spawn
  <2>7. J \in [ItemIds -> Entity \cup {Absent}] /\ C \in [Cells -> Seq(ItemIds)] /\ Listed(J, C, n + 1)
    BY <1>0, <2>1, <2>3, <2>4, <2>5, MoreListed
  <2>8. [items |-> J, at |-> C, box |-> B, next |-> n + 1] \in Sound
    BY <1>0, <2>1, <2>7, SoundParts
  <2>9. ASSUME NEW x \in Items
        PROVE  OnGround(Spawn(h, now, pos, item, count), x) = OnGround(h, x) + (IF x = item THEN count ELSE 0)
    <3>1. J[n + 1] = e /\ \A k \in ItemIds : k # n + 1 => J[k] = I[k]
      BY <2>1, <2>4
    <3>2. OnGround(Spawn(h, now, pos, item, count), x) = OnGround(h, x) + Lying(e, x) - Lying(I[n + 1], x)
      <4>1. PICK k \in Sound : k = Spawn(h, now, pos, item, count)
        BY <2>6, <2>8
      <4>2. h.items = I /\ h.box = B /\ k.items = J /\ k.box = B
        BY <1>0, <2>6, <4>1
      <4>3. k.box = h.box /\ n + 1 \in ItemIds /\ \A j \in ItemIds : j # n + 1 => k.items[j] = h.items[j]
        BY <4>2, <3>1, <2>1
      <4>4. OnGround(k, x) = OnGround(h, x) + Lying(k.items[n + 1], x) - Lying(h.items[n + 1], x)
        BY <4>3, EntityChanges
      <4> QED
        BY <4>1, <4>2, <4>4, <3>1
    <3>3. I[n + 1] = Absent
      BY <1>0, <2>1 DEF Listed
    <3>4. Lying(I[n + 1], x) = 0 /\ Lying(e, x) = IF x = item THEN count ELSE 0
      BY <2>2, <2>3, <3>3, EntityFacts DEF Lying
    <3> QED
      BY <3>2, <3>4, OnGroundType
  <2>10. Spawn(h, now, pos, item, count).next = n + 1 /\ n + 1 >= h.next
    BY <1>0, <2>1, <2>6
  <2> QED
    BY <2>6, <2>8, <2>9, <2>10
<1> QED
  BY <1>0, <1>1, <1>2, <1>3

-----------------------------------------------------------------------------
(* Containers                                                              *)

LEMMA PutSound ==
  ASSUME NEW h \in Sound, NEW p \in Cells, NEW c \in Container \cup {Absent},
         c # Absent => \A x \in Items : c.reserved[x] <= c.stock[x]
  PROVE  /\ [h EXCEPT !.box = [h.box EXCEPT ![p] = c]] \in Sound
         /\ \A x \in Items : OnGround([h EXCEPT !.box = [h.box EXCEPT ![p] = c]], x)
                              = OnGround(h, x) + Kept(c, x) - Kept(h.box[p], x)
<1>0. PICK I \in [ItemIds -> Entity \cup {Absent}], A \in [Cells -> Seq(ItemIds)],
           B \in [Cells -> Container \cup {Absent}], n \in 0..MaxItems + 1 :
             /\ h = [items |-> I, at |-> A, box |-> B, next |-> n]
             /\ Listed(I, A, n) /\ Backed(B)
  BY Ground4
<1>1. PICK C : C = [B EXCEPT ![p] = c]
  OBVIOUS
<1>2. C \in [Cells -> Container \cup {Absent}] /\ C[p] = c /\ \A q \in Cells : q # p => C[q] = B[q]
  BY <1>0, <1>1
<1>3. Backed(C)
  BY <1>0, <1>2 DEF Backed
<1>4. [h EXCEPT !.box = [h.box EXCEPT ![p] = c]] = [items |-> I, at |-> A, box |-> C, next |-> n]
  <2>1. [h.box EXCEPT ![p] = c] = C
    BY <1>0, <1>1
  <2>2. [h EXCEPT !.box = C] = [items |-> I, at |-> A, box |-> C, next |-> n]
    BY <1>0
  <2> QED
    BY <2>1, <2>2
<1>5. [items |-> I, at |-> A, box |-> C, next |-> n] \in Sound
  BY <1>0, <1>2, <1>3, SoundParts
<1>6. ASSUME NEW x \in Items
      PROVE  OnGround([items |-> I, at |-> A, box |-> C, next |-> n], x) = OnGround(h, x) + Kept(c, x) - Kept(h.box[p], x)
  <2>1. PICK k \in Sound : k = [items |-> I, at |-> A, box |-> C, next |-> n]
    BY <1>5
  <2>2. h.items = I /\ h.box = B /\ k.items = I /\ k.box = C
    BY <1>0, <2>1
  <2> QED
    BY <2>1, <2>2, <1>2, BoxChanges
<1> QED
  BY <1>4, <1>5, <1>6

LEMMA StockSound ==
  ASSUME NEW h \in Sound, NEW p \in Cells, h.box[p] # Absent, NEW x \in Items, NEW n \in Int,
         0 <= h.box[p].stock[x] + n, h.box[p].reserved[x] <= h.box[p].stock[x] + n
  PROVE  /\ AddStock(h, p, x, n) \in Sound
         /\ AddStock(h, p, x, n).next = h.next
         /\ AddStock(h, p, x, n).items = h.items
         /\ AddStock(h, p, x, n).box[p] # Absent
         /\ AddStock(h, p, x, n).box[p].reserved = h.box[p].reserved
         /\ AddStock(h, p, x, n).box[p].stock[x] = h.box[p].stock[x] + n
         /\ \A q \in Cells : q # p => AddStock(h, p, x, n).box[q] = h.box[q]
         /\ \A y \in Items : OnGround(AddStock(h, p, x, n), y) = OnGround(h, y) + (IF y = x THEN n ELSE 0)
<1>0. PICK m : m = h.box[p].stock[x] + n
  OBVIOUS
<1>1. PICK c \in Container : c = h.box[p]
  BY SoundFacts
<1>a. m \in Nat /\ h.box[p].reserved[x] <= m /\ m - c.stock[x] = n /\ c.stock[x] \in Nat
  <2>1. c.stock[x] \in Nat
    BY ContainerFacts, BundleFacts
  <2> QED
    BY <2>1, <1>0, <1>1
<1>2. PICK s : s = [c.stock EXCEPT ![x] = m]
  OBVIOUS
<1>3. s \in Bundle /\ \A y \in Items : s[y] = IF y = x THEN m ELSE c.stock[y]
  BY <1>a, <1>2, ContainerFacts DEF Bundle
<1>4. PICK d : d = [c EXCEPT !.stock = s]
  OBVIOUS
<1>5. d \in Container /\ d.stock = s /\ d.reserved = c.reserved /\ d.owed = c.owed
  BY <1>3, <1>4 DEF Container
<1>6. \A y \in Items : d.reserved[y] <= d.stock[y]
  BY <1>a, <1>1, <1>3, <1>5, SoundFacts, ContainerFacts DEF Backed
<1>7. AddStock(h, p, x, n) = [h EXCEPT !.box = [h.box EXCEPT ![p] = d]]
  BY <1>0, <1>1, <1>2, <1>4, SoundFacts DEF AddStock
<1>8. [h EXCEPT !.box = [h.box EXCEPT ![p] = d]] \in Sound
  BY <1>5, <1>6, PutSound
<1>9. d # Absent /\ d.reserved = h.box[p].reserved /\ d.stock[x] = h.box[p].stock[x] + n
  BY <1>0, <1>1, <1>3, <1>5, ContainerFacts
<1>10. ASSUME NEW y \in Items
       PROVE  OnGround(AddStock(h, p, x, n), y) = OnGround(h, y) + (IF y = x THEN n ELSE 0)
  <2>1. OnGround(AddStock(h, p, x, n), y) = OnGround(h, y) + Kept(d, y) - Kept(c, y)
    BY <1>1, <1>5, <1>6, <1>7, PutSound
  <2>2. Kept(c, y) \in Int /\ c.stock[y] \in Nat /\ c # Absent /\ d # Absent
    BY <1>5, KeptType, ContainerFacts, BundleFacts
  <2>3. PICK w : w = ByAgent([a \in Agents |-> c.owed[a][y]])
    OBVIOUS
  <2>4. Kept(c, y) = c.stock[y] + w /\ Kept(d, y) = d.stock[y] + w
    BY <1>5, <2>2, <2>3 DEF Kept
  <2>5. w \in Int
    <3>1. PICK f : f = [a \in Agents |-> c.owed[a][y]]
      OBVIOUS
    <3>2. f \in [Agents -> Int]
      BY <3>1, ContainerFacts, BundleFacts
    <3> QED
      BY <2>3, <3>1, <3>2, ByAgentType
  <2>6. d.stock[y] = IF y = x THEN m ELSE c.stock[y]
    BY <1>3, <1>5
  <2>7. Kept(d, y) - Kept(c, y) = IF y = x THEN m - c.stock[x] ELSE 0
    <3>1. PICK u \in Int : u = c.stock[y]
      BY <2>2
    <3>2. Kept(c, y) = u + w /\ Kept(d, y) = (IF y = x THEN m ELSE u) + w
      BY <3>1, <2>4, <2>6
    <3>3. m \in Int
      BY <1>a
    <3> QED
      BY <3>1, <3>2, <3>3, <2>5
  <2>8. Kept(d, y) \in Int
    BY <1>5, KeptType
  <2> QED
    BY <1>a, <2>1, <2>2, <2>7, <2>8, OnGroundType
<1>11. AddStock(h, p, x, n) \in Sound
  BY <1>7, <1>8
<1>12. PICK B : B = [h.box EXCEPT ![p] = d]
  OBVIOUS
<1>13. B[p] = d /\ \A q \in Cells : q # p => B[q] = h.box[q]
  BY <1>12, SoundFacts
<1>14. PICK k : k = [h EXCEPT !.box = B]
  OBVIOUS
<1>15. k.next = h.next /\ k.items = h.items /\ k.at = h.at /\ k.box = B
  BY <1>14, SoundFacts
<1>16. k = AddStock(h, p, x, n)
  BY <1>7, <1>12, <1>14
<1> QED
  BY <1>9, <1>10, <1>11, <1>13, <1>15, <1>16

LEMMA EnsureSound ==
  ASSUME NEW h \in Sound, NEW p \in Cells, NEW type \in ContainerTypes
  PROVE  /\ EnsureContainer(h, p, type) \in Sound /\ EnsureContainer(h, p, type).next = h.next
         /\ EnsureContainer(h, p, type).box[p] # Absent
         /\ \A x \in Items : OnGround(EnsureContainer(h, p, type), x) = OnGround(h, x)
<1>1. PICK c : c = IF h.box[p] # Absent THEN [h.box[p] EXCEPT !.type = type]
                   ELSE [type |-> type, stock |-> Nothing, reserved |-> Nothing,
                         owed |-> [a \in Agents |-> Nothing]]
  OBVIOUS
<1>2. c \in Container /\ \A x \in Items : c.reserved[x] <= c.stock[x]
  <2>1. CASE h.box[p] # Absent
    <3>1. h.box[p] \in Container
      BY <2>1, SoundFacts
    <3>2. c \in Container /\ c.reserved = h.box[p].reserved /\ c.stock = h.box[p].stock
      BY <1>1, <2>1, <3>1 DEF Container
    <3> QED
      BY <2>1, <3>2, SoundFacts DEF Backed
  <2>2. CASE h.box[p] = Absent
    BY <1>1, <2>2 DEF Container, Bundle, Nothing
  <2> QED
    BY <2>1, <2>2
<1>3. EnsureContainer(h, p, type) = [h EXCEPT !.box = [h.box EXCEPT ![p] = c]]
  BY <1>1, SoundFacts DEF EnsureContainer
<1>4. ASSUME NEW x \in Items PROVE Kept(c, x) = Kept(h.box[p], x)
  <2>1. CASE h.box[p] # Absent
    <3>1. h.box[p] \in Container
      BY <2>1, SoundFacts
    <3>2. c.owed = h.box[p].owed /\ c.stock = h.box[p].stock /\ c # Absent
      BY <1>1, <1>2, <2>1, <3>1, ContainerFacts DEF Container
    <3> QED
      BY <2>1, <3>2 DEF Kept
  <2>2. CASE h.box[p] = Absent
    <3>1. c # Absent /\ c.stock[x] = 0 /\ \A a \in Agents : c.owed[a][x] = 0
      BY <1>1, <1>2, <2>2, ContainerFacts DEF Nothing
    <3>2. ByAgent([a \in Agents |-> c.owed[a][x]]) = 0
      BY <3>1, ByAgentZero
    <3> QED
      BY <2>2, <3>1, <3>2 DEF Kept
  <2> QED
    BY <2>1, <2>2
<1>5. ASSUME NEW x \in Items PROVE OnGround(EnsureContainer(h, p, type), x) = OnGround(h, x)
  <2>1. OnGround(EnsureContainer(h, p, type), x) = OnGround(h, x) + Kept(c, x) - Kept(h.box[p], x)
    BY <1>2, <1>3, PutSound
  <2>2. Kept(c, x) \in Int
    BY <1>2, KeptType
  <2> QED
    BY <1>4, <2>1, <2>2, OnGroundType
<1>6. EnsureContainer(h, p, type).next = h.next /\ EnsureContainer(h, p, type).box[p] = c /\ c # Absent
  BY <1>2, <1>3, SoundFacts, ContainerFacts
<1> QED
  BY <1>2, <1>3, <1>5, <1>6, PutSound

-----------------------------------------------------------------------------
(* What a change of the ground brings                                      *)

\* The grounds that h may have become with so much more of every item.  Past
\* the bound on the entities nothing is said of the items.
After(h, d) ==
  {k \in Sound : /\ k.next >= h.next
                 /\ k.next <= MaxItems => \A x \in Items : OnGround(k, x) = OnGround(h, x) + d[x]}

Counts == [Items -> Int]

LEMMA AfterNothing ==
  ASSUME NEW h \in Sound
  PROVE  h \in After(h, Nothing)
BY OnGroundType, SoundFacts, GroundAssumption DEF After, Nothing

LEMMA AfterBoth ==
  ASSUME NEW h \in Sound, NEW d \in Counts, NEW e \in Counts, NEW f, \A x \in Items : f[x] = d[x] + e[x],
         NEW k \in After(h, d), NEW l \in After(k, e)
  PROVE  l \in After(h, f)
<1>1. k \in Sound /\ l \in Sound /\ k.next >= h.next /\ l.next >= k.next
  BY DEF After
<1>2. h.next \in Nat /\ k.next \in Nat /\ l.next \in Nat /\ MaxItems \in Nat
  BY <1>1, SoundFacts, GroundAssumption
<1>3. ASSUME l.next <= MaxItems, NEW x \in Items PROVE OnGround(l, x) = OnGround(h, x) + f[x]
  <2>1. k.next <= MaxItems
    BY <1>1, <1>2, <1>3
  <2>2. OnGround(l, x) = OnGround(k, x) + e[x] /\ OnGround(k, x) = OnGround(h, x) + d[x]
    BY <1>3, <2>1 DEF After
  <2>3. OnGround(h, x) \in Int /\ d[x] \in Int /\ e[x] \in Int /\ f[x] = d[x] + e[x]
    BY OnGroundType DEF Counts
  <2> QED
    BY <2>2, <2>3
<1>4. l.next >= h.next
  BY <1>1, <1>2
<1> QED
  BY <1>1, <1>3, <1>4 DEF After

LEMMA NothingTwice ==
  Nothing \in Counts /\ \A x \in Items : Nothing[x] = Nothing[x] + Nothing[x]
BY DEF Nothing, Counts

LEMMA SpawnAfter ==
  ASSUME NEW h \in Sound, NEW now \in Nat, NEW pos \in Cells, NEW item \in Items, NEW count \in Nat \ {0}
  PROVE  Spawn(h, now, pos, item, count) \in After(h, Of(item, count)) /\ Of(item, count) \in Counts
<1>1. \A x \in Items : Of(item, count)[x] = IF x = item THEN count ELSE 0
  BY DEF Of
<1>2. Of(item, count) \in Counts
  BY DEF Of, Counts
<1> QED
  BY <1>1, <1>2, SpawnSound DEF After

LEMMA SameGround ==
  ASSUME NEW h \in Sound, NEW k \in Sound, k.next = h.next, \A x \in Items : OnGround(k, x) = OnGround(h, x)
  PROVE  k \in After(h, Nothing)
<1>1. k \in After(k, Nothing)
  BY AfterNothing
<1>2. k.next >= h.next
  BY SoundFacts, GroundAssumption
<1> QED
  BY <1>1, <1>2 DEF After

-----------------------------------------------------------------------------
(* Conveyors                                                               *)

LEMMA InsertSound ==
  ASSUME NEW h \in Sound, NEW i \in ItemIds, h.items[i] # Absent, NEW to \in Cells, h.box[to] # Absent
  PROVE  Insert(h, i, to) \in After(h, Nothing)
<1>1. PICK x \in Items : x = h.items[i].item
  BY SoundFacts, EntityFacts
<1>2. PICK m : m = h.items[i].count
  OBVIOUS
<1>3. m \in Nat /\ 0 <= h.box[to].stock[x] + m /\ h.box[to].reserved[x] <= h.box[to].stock[x] + m
  <2>1. /\ h.box[to].stock[x] \in Nat /\ h.box[to].reserved[x] \in Nat
        /\ h.box[to].reserved[x] <= h.box[to].stock[x]
    BY SoundFacts, ContainerFacts, BundleFacts DEF Backed
  <2>2. h.items[i].count \in Nat
    BY SoundFacts, EntityFacts
  <2> QED
    BY <2>1, <2>2, <1>2
<1>4. PICK k : k = AddStock(h, to, x, m)
  OBVIOUS
<1>5. /\ k \in Sound /\ k.next = h.next /\ k.items = h.items
      /\ \A y \in Items : OnGround(k, y) = OnGround(h, y) + (IF y = x THEN m ELSE 0)
  BY <1>3, <1>4, StockSound
<1>6. Insert(h, i, to) = RemoveEntity(k, i)
  BY <1>1, <1>2, <1>4 DEF Insert
<1>7. /\ RemoveEntity(k, i) \in Sound /\ RemoveEntity(k, i).next = h.next
      /\ \A y \in Items : OnGround(RemoveEntity(k, i), y) = OnGround(k, y) - Lying(k.items[i], y)
  BY <1>5, RemoveSound
<1>8. ASSUME NEW y \in Items PROVE OnGround(RemoveEntity(k, i), y) = OnGround(h, y)
  <2>1. Lying(k.items[i], y) = IF y = x THEN m ELSE 0
    BY <1>1, <1>2, <1>5 DEF Lying
  <2>2. OnGround(k, y) = OnGround(h, y) + (IF y = x THEN m ELSE 0)
    BY <1>5
  <2>3. OnGround(h, y) \in Int /\ OnGround(k, y) \in Int
    BY <1>5, OnGroundType
  <2> QED
    BY <1>3, <1>7, <2>1, <2>2, <2>3
<1> QED
  BY <1>6, <1>7, <1>8, SameGround

LEMMA CarrySound ==
  ASSUME NEW h \in Sound, NEW i \in ItemIds, NEW bs, NEW ss, NEW ds
  PROVE  Carry(h, bs, ss, ds, i) \in After(h, Nothing)
<1> DEFINE p == h.items[i].pos
           to == p + ds[p]
<1>1. CASE h.items[i] = Absent \/ ~BeltRuns(h, bs, ss, ds, p)
  BY <1>1, AfterNothing DEF Carry
<1>2. CASE /\ h.items[i] # Absent /\ BeltRuns(h, bs, ss, ds, p)
           /\ to \in Cells /\ h.box[to] # Absent
  BY <1>2, InsertSound DEF Carry
<1>3. CASE /\ h.items[i] # Absent /\ BeltRuns(h, bs, ss, ds, p)
           /\ ~(to \in Cells /\ h.box[to] # Absent) /\ Passable(bs, to)
  <2>1. to \in Cells
    BY <1>3 DEF Passable
  <2>2. Carry(h, bs, ss, ds, i) = Move(h, i, to)
    BY <1>3 DEF Carry
  <2> QED
    BY <1>3, <2>1, <2>2, MoveSound, SameGround
<1>4. CASE /\ h.items[i] # Absent /\ BeltRuns(h, bs, ss, ds, p)
           /\ ~(to \in Cells /\ h.box[to] # Absent) /\ ~Passable(bs, to)
  BY <1>4, AfterNothing DEF Carry
<1> QED
  BY <1>1, <1>2, <1>3, <1>4

LEMMA OfferedFacts ==
  ASSUME NEW c \in Container, Offered(c) # {}
  PROVE  LET x == PickAvailableItem(c)
         IN  x \in Items /\ c.stock[x] > 0 /\ AvailableCount(c, x) > 0
<1>1. PICK k : k = Earliest(Offered(c))
  OBVIOUS
<1>2. ItemOrder \in Seq(Items) /\ DOMAIN ItemOrder \in SUBSET Nat
  BY GroundAssumption, LenProperties
<1>3. Offered(c) \in SUBSET Nat
  BY <1>2 DEF Offered
<1>4. k \in Offered(c)
  BY <1>1, <1>3, EarliestIn
<1>5. k \in DOMAIN ItemOrder /\ c.stock[ItemOrder[k]] > 0 /\ AvailableCount(c, ItemOrder[k]) > 0
  BY <1>4 DEF Offered
<1>6. ItemOrder[k] \in Items
  BY <1>2, <1>5, LenProperties, ElementOfSeq
<1> QED
  BY <1>1, <1>5, <1>6 DEF PickAvailableItem

LEMMA PullOneSound ==
  ASSUME NEW h \in Sound, NEW p \in Cells, NEW now \in Nat, NEW bs, NEW ss, NEW ds
  PROVE  PullOne(h, bs, ss, ds, now, p) \in After(h, Nothing)
<1>1. PICK back : back = p - ds[p]
  OBVIOUS
<1>2. CASE \/ ~BeltRuns(h, bs, ss, ds, p) \/ h.at[p] # <<>> \/ back \notin Cells
           \/ h.box[back] = Absent \/ Offered(h.box[back]) = {}
  <2>1. PullOne(h, bs, ss, ds, now, p) = h
    BY <1>1, <1>2 DEF PullOne
  <2> QED
    BY <2>1, AfterNothing
<1>3. CASE /\ BeltRuns(h, bs, ss, ds, p) /\ ~(h.at[p] # <<>>) /\ back \in Cells
           /\ h.box[back] # Absent /\ Offered(h.box[back]) # {}
  <2>1. PICK c \in Container : c = h.box[back]
    BY <1>3, SoundFacts
  <2>2. PICK x : x = PickAvailableItem(c)
    OBVIOUS
  <2>3. x \in Items /\ c.stock[x] > 0 /\ AvailableCount(c, x) > 0
    BY <1>3, <2>1, <2>2, OfferedFacts
  <2>4. 0 <= c.stock[x] + -1 /\ c.reserved[x] <= c.stock[x] + -1
    <3>1. c.stock[x] \in Nat /\ c.reserved[x] \in Nat
      BY <2>3, ContainerFacts, BundleFacts
    <3> QED
      BY <3>1, <2>3 DEF AvailableCount
  <2>5. PICK k : k = AddStock(h, back, x, -1)
    OBVIOUS
  <2>6. PullOne(h, bs, ss, ds, now, p) = Spawn(k, now, p, x, 1)
    BY <1>1, <1>3, <2>1, <2>2, <2>5 DEF PullOne
  <2>7. /\ k \in Sound /\ k.next = h.next
        /\ \A y \in Items : OnGround(k, y) = OnGround(h, y) + (IF y = x THEN -1 ELSE 0)
    BY <1>3, <2>1, <2>3, <2>4, <2>5, StockSound
  <2>8. PICK d : d = [y \in Items |-> IF y = x THEN -1 ELSE 0]
    OBVIOUS
  <2>9. k \in After(h, d) /\ d \in Counts
    <3>1. \A y \in Items : OnGround(k, y) = OnGround(h, y) + d[y]
      BY <2>7, <2>8
    <3>2. k.next >= h.next
      BY <2>7, SoundFacts, GroundAssumption
    <3>3. d \in Counts
      BY <2>8 DEF Counts
    <3> QED
      BY <2>7, <3>1, <3>2, <3>3 DEF After
  <2>10. Spawn(k, now, p, x, 1) \in After(k, Of(x, 1)) /\ Of(x, 1) \in Counts
    BY <2>3, <2>7, SpawnAfter
  <2>11. \A y \in Items : Nothing[y] = d[y] + Of(x, 1)[y]
    BY <2>8 DEF Nothing, Of
  <2> QED
    BY <2>6, <2>9, <2>10, <2>11, AfterBoth
<1> QED
  BY <1>2, <1>3

LEMMA IdsInOrder ==
  LET ids == [i \in ItemIds |-> i]
  IN  Len(ids) = MaxItems /\ \A k \in 1..MaxItems : ids[k] = k
BY GroundAssumption DEF ItemIds

LEMMA CellsInOrder ==
  LET ps == [p \in Cells |-> p]
  IN  Len(ps) = Width /\ \A k \in 1..Width : ps[k] = k
BY GroundAssumption DEF Cells

LEMMA CarriedSound ==
  ASSUME NEW h \in Sound, NEW bs, NEW ss, NEW ds
  PROVE  CarryAll(h, bs, ss, ds) \in After(h, Nothing)
<1> DEFINE ids == [i \in ItemIds |-> i]
           step(k, i) == IF i \in Live(h) THEN Carry(k, bs, ss, ds, i) ELSE k
           f == CHOOSE f : f = [n \in 0..Len(ids) |-> IF n = 0 THEN h ELSE step(f[n - 1], ids[n])]
<1>1. Len(ids) = MaxItems /\ MaxItems \in Nat /\ \A n \in 1..MaxItems : ids[n] \in ItemIds
  BY IdsInOrder, GroundAssumption DEF ItemIds
<1>2. CarryAll(h, bs, ss, ds) = f[Len(ids)]
  BY DEF CarryAll, InOrder, Through
<1>3. \A k \in Sound, i \in ItemIds : step(k, i) \in Sound
  BY CarrySound DEF After
<1> HIDE DEF ids, step
<1>4. f = [n \in 0..MaxItems |-> IF n = 0 THEN h ELSE step(f[n - 1], ids[n])]
  <2>1. PICK op : op = [n \in 1..MaxItems |-> [k \in Sound |-> step(k, ids[n])]]
    OBVIOUS
  <2>2. op \in [1..MaxItems -> [Sound -> Sound]]
    BY <1>1, <1>3, <2>1
  <2>3. PICK e : Path(e, MaxItems, h, op) /\ \A n \in 0..MaxItems : e[n] \in Sound
    BY <1>1, <2>2, Iterates
  <2>4. ASSUME NEW n \in 0..MaxItems
        PROVE  (IF n = 0 THEN h ELSE op[n][e[n - 1]]) = (IF n = 0 THEN h ELSE step(e[n - 1], ids[n]))
    <3>1. n # 0 => n \in 1..MaxItems /\ n - 1 \in 0..MaxItems
      BY <1>1
    <3>2. n # 0 => op[n] = [k \in Sound |-> step(k, ids[n])] /\ e[n - 1] \in Sound
      BY <3>1, <2>1, <2>3
    <3> QED
      BY <3>2
  <2>5. e = [n \in 0..MaxItems |-> IF n = 0 THEN h ELSE step(e[n - 1], ids[n])]
    <3>1. e = [n \in 0..MaxItems |-> IF n = 0 THEN h ELSE op[n][e[n - 1]]]
      BY <2>3 DEF Path
    <3> QED
      BY <3>1, <2>4
  <2> QED
    BY <1>1, <2>5
<1> HIDE DEF f
<1>5. f[0] = h /\ \A n \in 1..MaxItems : f[n] = step(f[n - 1], ids[n])
  BY <1>1, <1>4
<1>6. \A k \in Sound, i \in ItemIds : step(k, i) \in After(k, Nothing)
  BY CarrySound, AfterNothing DEF step
<1>7. ASSUME NEW n \in 1..MaxItems, f[n - 1] \in After(h, Nothing) PROVE f[n] \in After(h, Nothing)
  <2>1. f[n - 1] \in Sound /\ ids[n] \in ItemIds
    BY <1>1, <1>7 DEF After
  <2>2. f[n] \in After(f[n - 1], Nothing)
    BY <1>5, <1>6, <2>1
  <2> QED
    BY <1>7, <2>2, AfterBoth, NothingTwice
<1>8. f[0] \in After(h, Nothing)
  BY <1>5, AfterNothing
<1>9. f[MaxItems] \in After(h, Nothing)
  BY <1>1, <1>7, <1>8, Reaches
<1> QED
  BY <1>1, <1>2, <1>9

LEMMA PulledSound ==
  ASSUME NEW h \in Sound, NEW bs, NEW ss, NEW ds, NEW now \in Nat
  PROVE  PullAll(h, bs, ss, ds, now) \in After(h, Nothing)
<1> DEFINE ps == [p \in Cells |-> p]
           step(k, p) == PullOne(k, bs, ss, ds, now, p)
           f == CHOOSE f : f = [n \in 0..Len(ps) |-> IF n = 0 THEN h ELSE step(f[n - 1], ps[n])]
<1>1. Len(ps) = Width /\ Width \in Nat /\ \A n \in 1..Width : ps[n] \in Cells
  BY CellsInOrder, GroundAssumption DEF Cells
<1>2. PullAll(h, bs, ss, ds, now) = f[Len(ps)]
  BY DEF PullAll, Through
<1>3. \A k \in Sound, p \in Cells : step(k, p) \in Sound
  BY PullOneSound DEF After
<1> HIDE DEF ps, step
<1>4. f = [n \in 0..Width |-> IF n = 0 THEN h ELSE step(f[n - 1], ps[n])]
  <2>1. PICK op : op = [n \in 1..Width |-> [k \in Sound |-> step(k, ps[n])]]
    OBVIOUS
  <2>2. op \in [1..Width -> [Sound -> Sound]]
    BY <1>1, <1>3, <2>1
  <2>3. PICK e : Path(e, Width, h, op) /\ \A n \in 0..Width : e[n] \in Sound
    BY <1>1, <2>2, Iterates
  <2>4. ASSUME NEW n \in 0..Width
        PROVE  (IF n = 0 THEN h ELSE op[n][e[n - 1]]) = (IF n = 0 THEN h ELSE step(e[n - 1], ps[n]))
    <3>1. n # 0 => n \in 1..Width /\ n - 1 \in 0..Width
      BY <1>1
    <3>2. n # 0 => op[n] = [k \in Sound |-> step(k, ps[n])] /\ e[n - 1] \in Sound
      BY <3>1, <2>1, <2>3
    <3> QED
      BY <3>2
  <2>5. e = [n \in 0..Width |-> IF n = 0 THEN h ELSE step(e[n - 1], ps[n])]
    <3>1. e = [n \in 0..Width |-> IF n = 0 THEN h ELSE op[n][e[n - 1]]]
      BY <2>3 DEF Path
    <3> QED
      BY <3>1, <2>4
  <2> QED
    BY <1>1, <2>5
<1> HIDE DEF f
<1>5. f[0] = h /\ \A n \in 1..Width : f[n] = step(f[n - 1], ps[n])
  BY <1>1, <1>4
<1>6. \A k \in Sound, p \in Cells : step(k, p) \in After(k, Nothing)
  BY PullOneSound DEF step
<1>7. ASSUME NEW n \in 1..Width, f[n - 1] \in After(h, Nothing) PROVE f[n] \in After(h, Nothing)
  <2>1. f[n - 1] \in Sound /\ ps[n] \in Cells
    BY <1>1, <1>7 DEF After
  <2>2. f[n] \in After(f[n - 1], Nothing)
    BY <1>5, <1>6, <2>1
  <2> QED
    BY <1>7, <2>2, AfterBoth, NothingTwice
<1>8. f[0] \in After(h, Nothing)
  BY <1>5, AfterNothing
<1>9. f[Width] \in After(h, Nothing)
  BY <1>1, <1>7, <1>8, Reaches
<1> QED
  BY <1>1, <1>2, <1>9

LEMMA ConveyorsSound ==
  ASSUME NEW h \in Sound, NEW bs, NEW ss, NEW ds, NEW now \in Nat
  PROVE  RunConveyors(h, bs, ss, ds, now) \in After(h, Nothing)
<1>1. PICK k : k = CarryAll(h, bs, ss, ds)
  OBVIOUS
<1>2. k \in After(h, Nothing) /\ k \in Sound
  BY <1>1, CarriedSound DEF After
<1>3. RunConveyors(h, bs, ss, ds, now) \in After(k, Nothing)
  BY <1>1, <1>2, PulledSound DEF RunConveyors
<1> QED
  BY <1>2, <1>3, AfterBoth, NothingTwice

-----------------------------------------------------------------------------
(* Respawns and the cleanup                                                *)

\* The partial sums of every item.
LEMMA PartialsBy ==
  ASSUME NEW n \in Nat, NEW F \in [Items -> [1..n -> Int]]
  PROVE  \E r \in [0..n -> Counts] :
           /\ \A x \in Items : r[0][x] = 0 /\ r[n][x] = Sum(F[x])
           /\ \A k \in 1..n, x \in Items : r[k][x] = r[k - 1][x] + F[x][k]
<1> DEFINE P(x, s) == /\ s \in [0..n -> Int] /\ s[0] = 0
                      /\ \A k \in 1..n : s[k] = s[k - 1] + F[x][k]
                      /\ Sum(F[x]) = s[n]
           c == [x \in Items |-> CHOOSE s : P(x, s)]
<1>1. ASSUME NEW x \in Items PROVE P(x, c[x])
  <2>1. \E s : P(x, s)
    <3>1. PICK d \in [1..n -> Int] : d = F[x]
      OBVIOUS
    <3> QED
      BY <3>1, Partials
  <2> QED
    BY <2>1
<1> HIDE DEF c
<1>2. PICK r : r = [k \in 0..n |-> [x \in Items |-> c[x][k]]]
  OBVIOUS
<1>3. \A k \in 0..n, x \in Items : r[k][x] = c[x][k] /\ c[x][k] \in Int
  BY <1>1, <1>2
<1>4. r \in [0..n -> Counts]
  BY <1>2, <1>3 DEF Counts
<1>5. \A x \in Items : r[0][x] = 0 /\ r[n][x] = Sum(F[x])
  BY <1>1, <1>3
<1>6. ASSUME NEW k \in 1..n, NEW x \in Items PROVE r[k][x] = r[k - 1][x] + F[x][k]
  <2>1. k \in 0..n /\ k - 1 \in 0..n
    OBVIOUS
  <2>2. r[k][x] = c[x][k] /\ r[k - 1][x] = c[x][k - 1]
    BY <2>1, <1>3
  <2> QED
    BY <2>2, <1>1
<1> QED
  BY <1>4, <1>5, <1>6

LEMMA ReachesEach ==
  ASSUME NEW n \in Nat, NEW f, NEW T, f[0] \in T[0],
         \A k \in 1..n : f[k - 1] \in T[k - 1] => f[k] \in T[k]
  PROVE  f[n] \in T[n]
<1>1. PICK r : r = [k \in 0..n |-> IF f[k] \in T[k] THEN 0 ELSE 1]
  OBVIOUS
<1>2. r[0] \in {0}
  BY <1>1
<1>3. ASSUME NEW k \in 1..n, r[k - 1] \in {0} PROVE r[k] \in {0}
  <2>1. k \in 0..n /\ k - 1 \in 0..n
    OBVIOUS
  <2> QED
    BY <2>1, <1>1, <1>3
<1>4. r[n] \in {0}
  BY <1>2, <1>3, Reaches
<1> QED
  BY <1>1, <1>4

LEMMA LossFacts ==
  ASSUME NEW b \in Bundle
  PROVE  ComputeInventoryLoss(b) \in Bundle /\ \A x \in Items : ComputeInventoryLoss(b)[x] <= b[x]
<1>1. Tenths(b) \in Bundle /\ \A x \in Items : Tenths(b)[x] <= b[x]
  <2>1. ASSUME NEW m \in Nat PROVE (m * 3) \div 10 \in Nat /\ (m * 3) \div 10 <= m
    OBVIOUS
  <2>2. \A x \in Items : b[x] \in Nat
    BY BundleFacts
  <2> QED
    BY <2>1, <2>2 DEF Tenths, Bundle
<1> DEFINE held == {k \in DOMAIN ItemOrder : b[ItemOrder[k]] > 0}
<1>2. CASE Tenths(b) # Nothing \/ held = {}
  BY <1>1, <1>2 DEF ComputeInventoryLoss
<1>3. CASE ~(Tenths(b) # Nothing \/ held = {})
  <2>1. PICK k : k = Earliest(held)
    OBVIOUS
  <2>2. ItemOrder \in Seq(Items) /\ DOMAIN ItemOrder \in SUBSET Nat
    BY GroundAssumption, LenProperties
  <2>3. k \in held
    BY <1>3, <2>1, <2>2, EarliestIn
  <2>4. PICK y \in Items : y = ItemOrder[k] /\ b[y] > 0
    BY <2>2, <2>3, LenProperties, ElementOfSeq
  <2>5. ComputeInventoryLoss(b) = Of(y, 1)
    BY <1>3, <2>1, <2>4 DEF ComputeInventoryLoss
  <2>6. \A x \in Items : b[x] \in Nat
    BY BundleFacts
  <2>7. \A x \in Items : Of(y, 1)[x] <= b[x]
    BY <2>4, <2>6 DEF Of
  <2>8. Of(y, 1) \in Bundle
    BY DEF Of, Bundle
  <2> QED
    BY <2>5, <2>7, <2>8
<1> QED
  BY <1>2, <1>3

LEMMA ItemOrderFacts ==
  /\ Len(ItemOrder) \in Nat /\ DOMAIN ItemOrder = 1..Len(ItemOrder)
  /\ \A n \in 1..Len(ItemOrder) : ItemOrder[n] \in Items
BY GroundAssumption, LenProperties, ElementOfSeq

LEMMA DropAllSound ==
  ASSUME NEW h \in Sound, NEW now \in Nat, NEW pos \in Cells, NEW lost \in Bundle
  PROVE  DropAll(h, now, pos, lost) \in After(h, lost)
<1> DEFINE step(k, x) == IF lost[x] > 0 THEN Spawn(k, now, pos, x, lost[x]) ELSE k
           f == CHOOSE f : f = [n \in 0..Len(ItemOrder) |-> IF n = 0 THEN h ELSE step(f[n - 1], ItemOrder[n])]
<1>1. Len(ItemOrder) = Len(ItemOrder) /\ Len(ItemOrder) \in Nat /\ \A n \in 1..Len(ItemOrder) : ItemOrder[n] \in Items
  BY ItemOrderFacts
<1>2. DropAll(h, now, pos, lost) = f[Len(ItemOrder)]
  BY DEF DropAll, Through
<1>3. \A k \in Sound, x \in Items : step(k, x) \in Sound
  <2> SUFFICES ASSUME NEW k \in Sound, NEW x \in Items PROVE step(k, x) \in Sound
    OBVIOUS
  <2>1. lost[x] > 0 => lost[x] \in Nat \ {0}
    BY BundleFacts
  <2> QED
    BY <2>1, SpawnSound
<1> HIDE DEF step
<1>4. f = [n \in 0..Len(ItemOrder) |-> IF n = 0 THEN h ELSE step(f[n - 1], ItemOrder[n])]
  <2>1. PICK op : op = [n \in 1..Len(ItemOrder) |-> [k \in Sound |-> step(k, ItemOrder[n])]]
    OBVIOUS
  <2>2. op \in [1..Len(ItemOrder) -> [Sound -> Sound]]
    BY <1>1, <1>3, <2>1
  <2>3. PICK e : Path(e, Len(ItemOrder), h, op) /\ \A n \in 0..Len(ItemOrder) : e[n] \in Sound
    BY <1>1, <2>2, Iterates
  <2>4. ASSUME NEW n \in 0..Len(ItemOrder)
        PROVE  (IF n = 0 THEN h ELSE op[n][e[n - 1]]) = (IF n = 0 THEN h ELSE step(e[n - 1], ItemOrder[n]))
    <3>1. n # 0 => n \in 1..Len(ItemOrder) /\ n - 1 \in 0..Len(ItemOrder)
      BY <1>1
    <3>2. n # 0 => op[n] = [k \in Sound |-> step(k, ItemOrder[n])] /\ e[n - 1] \in Sound
      BY <3>1, <2>1, <2>3
    <3> QED
      BY <3>2
  <2>5. e = [n \in 0..Len(ItemOrder) |-> IF n = 0 THEN h ELSE step(e[n - 1], ItemOrder[n])]
    <3>1. e = [n \in 0..Len(ItemOrder) |-> IF n = 0 THEN h ELSE op[n][e[n - 1]]]
      BY <2>3 DEF Path
    <3> QED
      BY <3>1, <2>4
  <2> QED
    BY <1>1, <2>5
<1> HIDE DEF f
<1>5. f[0] = h /\ \A n \in 1..Len(ItemOrder) : f[n] = step(f[n - 1], ItemOrder[n])
  BY <1>1, <1>4
<1> DEFINE N == Len(ItemOrder)
           F == [x \in Items |-> [n \in 1..N |-> IF ItemOrder[n] = x THEN lost[x] ELSE 0]]
<1>6. F \in [Items -> [1..N -> Int]]
  BY BundleFacts
<1>7. PICK r \in [0..N -> Counts] :
        /\ \A x \in Items : r[0][x] = 0 /\ r[N][x] = Sum(F[x])
        /\ \A k \in 1..N, x \in Items : r[k][x] = r[k - 1][x] + F[x][k]
  <2> HIDE DEF F
  <2> QED
    BY <1>1, <1>6, PartialsBy
<1>8. ASSUME NEW k \in Sound, NEW x \in Items
      PROVE  step(k, x) \in After(k, Of(x, lost[x])) /\ Of(x, lost[x]) \in Counts
  <2>1. lost[x] \in Nat
    BY BundleFacts
  <2>2. CASE lost[x] > 0
    BY <2>1, <2>2, SpawnAfter DEF step
  <2>3. CASE ~(lost[x] > 0)
    <3>1. step(k, x) = k /\ Of(x, lost[x]) = Nothing
      BY <2>1, <2>3 DEF step, Of, Nothing
    <3> QED
      BY <3>1, AfterNothing, NothingTwice
  <2> QED
    BY <2>2, <2>3
<1>9. PICK T : T = [n \in 0..N |-> After(h, r[n])]
  OBVIOUS
<1>10. ASSUME NEW n \in 1..N, f[n - 1] \in T[n - 1] PROVE f[n] \in T[n]
  <2>1. n \in 0..N /\ n - 1 \in 0..N
    BY <1>1
  <2>2. f[n - 1] \in After(h, r[n - 1]) /\ f[n - 1] \in Sound /\ T[n] = After(h, r[n])
    BY <2>1, <1>9, <1>10 DEF After
  <2>3. PICK x \in Items : x = ItemOrder[n]
    BY <1>1
  <2>4. f[n] \in After(f[n - 1], Of(x, lost[x])) /\ Of(x, lost[x]) \in Counts
    BY <1>5, <1>8, <2>2, <2>3
  <2>5. \A y \in Items : r[n][y] = r[n - 1][y] + Of(x, lost[x])[y]
    <3>1. \A y \in Items : F[y][n] = Of(x, lost[x])[y]
      BY <2>3 DEF Of
    <3> QED
      BY <3>1, <1>7
  <2>6. r[n - 1] \in Counts
    BY <2>1
  <2> QED
    BY <2>2, <2>4, <2>5, <2>6, AfterBoth
<1>11. f[0] \in T[0]
  <2>1. 0 \in 0..N /\ \A x \in Items : r[0][x] = Nothing[x]
    <3>1. 0 \in 0..N
      BY <1>1
    <3>2. \A x \in Items : r[0][x] = 0
      BY <1>7
    <3> QED
      BY <3>1, <3>2 DEF Nothing
  <2>2. h \in After(h, r[0])
    BY <2>1, AfterNothing DEF After
  <2> QED
    BY <1>5, <1>9, <2>1, <2>2
<1>12. f[N] \in T[N] /\ N \in 0..N
  BY <1>1, <1>10, <1>11, ReachesEach
<1>13. ASSUME NEW x \in Items PROVE r[N][x] = lost[x]
  <2>1. PICK i \in 1..N : ItemOrder[i] = x
    BY ItemOrderFacts DEF Items
  <2>2. PICK d : d = F[x]
    OBVIOUS
  <2>3. d \in [1..N -> Int] /\ d[i] = lost[x]
    BY <1>6, <2>1, <2>2
  <2>4. \A n \in 1..N : n # i => d[n] = 0
    BY <2>1, <2>2, GroundAssumption, ItemOrderFacts
  <2>5. Sum(d) = d[i]
    BY <1>1, <2>3, <2>4, SumSingle
  <2> QED
    BY <1>7, <2>2, <2>3, <2>5
<1>14. f[N] \in After(h, lost)
  BY <1>9, <1>12, <1>13 DEF After
<1> QED
  BY <1>1, <1>2, <1>14

LEMMA LostFacts ==
  ASSUME inv \in [Agents -> Bundle], NEW a \in Agents, NEW down
  PROVE  Lost(a, down) \in Bundle /\ \A x \in Items : Lost(a, down)[x] <= inv[a][x]
<1>1. inv[a] \in Bundle /\ \A x \in Items : inv[a][x] \in Nat
  BY BundleFacts
<1>2. CASE a \in down
  BY <1>1, <1>2, LossFacts DEF Lost
<1>3. CASE a \notin down
  <2>1. Nothing \in Bundle /\ \A x \in Items : Nothing[x] = 0
    BY DEF Nothing, Bundle
  <2> QED
    BY <1>1, <1>3, <2>1 DEF Lost
<1> QED
  BY <1>2, <1>3

LEMMA AgentOrderFacts ==
  /\ Len(AgentOrder) \in Nat /\ DOMAIN AgentOrder = 1..Len(AgentOrder)
  /\ \A n \in 1..Len(AgentOrder) : AgentOrder[n] \in Agents
BY WorkAssumption, LenProperties

LEMMA DroppedSound ==
  ASSUME inv \in [Agents -> Bundle], tick \in Nat, g \in Sound, NEW down \in SUBSET Agents,
         NEW where \in [down -> Cells]
  PROVE  Dropped(down, where) \in After(g, [x \in Items |-> ByAgent([a \in Agents |-> Lost(a, down)[x]])])
<1> DEFINE step(k, a) == IF a \in down THEN DropAll(k, tick, where[a], Lost(a, down)) ELSE k
           f == CHOOSE f : f = [n \in 0..Len(AgentOrder) |-> IF n = 0 THEN g ELSE step(f[n - 1], AgentOrder[n])]
<1>1. Len(AgentOrder) = Len(AgentOrder) /\ Len(AgentOrder) \in Nat /\ \A n \in 1..Len(AgentOrder) : AgentOrder[n] \in Agents
  BY AgentOrderFacts
<1>2. Dropped(down, where) = f[Len(AgentOrder)]
  BY DEF Dropped, Through
<1>3. \A k \in Sound, a \in Agents : step(k, a) \in Sound
  <2> SUFFICES ASSUME NEW k \in Sound, NEW a \in Agents, a \in down
               PROVE  DropAll(k, tick, where[a], Lost(a, down)) \in Sound
    OBVIOUS
  <2> QED
    BY LostFacts, DropAllSound DEF After
<1> HIDE DEF step
<1>4. f = [n \in 0..Len(AgentOrder) |-> IF n = 0 THEN g ELSE step(f[n - 1], AgentOrder[n])]
  <2>1. PICK op : op = [n \in 1..Len(AgentOrder) |-> [k \in Sound |-> step(k, AgentOrder[n])]]
    OBVIOUS
  <2>2. op \in [1..Len(AgentOrder) -> [Sound -> Sound]]
    BY <1>1, <1>3, <2>1
  <2>3. PICK e : Path(e, Len(AgentOrder), g, op) /\ \A n \in 0..Len(AgentOrder) : e[n] \in Sound
    BY <1>1, <2>2, Iterates
  <2>4. ASSUME NEW n \in 0..Len(AgentOrder)
        PROVE  (IF n = 0 THEN g ELSE op[n][e[n - 1]]) = (IF n = 0 THEN g ELSE step(e[n - 1], AgentOrder[n]))
    <3>1. n # 0 => n \in 1..Len(AgentOrder) /\ n - 1 \in 0..Len(AgentOrder)
      BY <1>1
    <3>2. n # 0 => op[n] = [k \in Sound |-> step(k, AgentOrder[n])] /\ e[n - 1] \in Sound
      BY <3>1, <2>1, <2>3
    <3> QED
      BY <3>2
  <2>5. e = [n \in 0..Len(AgentOrder) |-> IF n = 0 THEN g ELSE step(e[n - 1], AgentOrder[n])]
    <3>1. e = [n \in 0..Len(AgentOrder) |-> IF n = 0 THEN g ELSE op[n][e[n - 1]]]
      BY <2>3 DEF Path
    <3> QED
      BY <3>1, <2>4
  <2> QED
    BY <1>1, <2>5
<1> HIDE DEF f
<1>5. f[0] = g /\ \A n \in 1..Len(AgentOrder) : f[n] = step(f[n - 1], AgentOrder[n])
  BY <1>1, <1>4
<1> DEFINE N == Len(AgentOrder)
           F == [x \in Items |-> [n \in 1..N |-> Lost(AgentOrder[n], down)[x]]]
<1>6. F \in [Items -> [1..N -> Int]]
  <2>1. \A x \in Items, n \in 1..N : Lost(AgentOrder[n], down)[x] \in Int
    BY <1>1, LostFacts, BundleFacts
  <2> QED
    BY <2>1
<1>7. PICK r \in [0..N -> Counts] :
        /\ \A x \in Items : r[0][x] = 0 /\ r[N][x] = Sum(F[x])
        /\ \A k \in 1..N, x \in Items : r[k][x] = r[k - 1][x] + F[x][k]
  <2> HIDE DEF F
  <2> QED
    BY <1>1, <1>6, PartialsBy
<1>8. ASSUME NEW k \in Sound, NEW a \in Agents
      PROVE  step(k, a) \in After(k, Lost(a, down)) /\ Lost(a, down) \in Counts
  <2>1. Lost(a, down) \in Bundle /\ Lost(a, down) \in Counts
    BY LostFacts DEF Bundle, Counts
  <2>2. CASE a \in down
    BY <2>1, <2>2, DropAllSound DEF step
  <2>3. CASE a \notin down
    <3>1. step(k, a) = k /\ Lost(a, down) = Nothing
      BY <2>3 DEF step, Lost
    <3> QED
      BY <2>1, <3>1, AfterNothing
  <2> QED
    BY <2>2, <2>3
<1>9. PICK T : T = [n \in 0..N |-> After(g, r[n])]
  OBVIOUS
<1>10. ASSUME NEW n \in 1..N, f[n - 1] \in T[n - 1] PROVE f[n] \in T[n]
  <2>1. n \in 0..N /\ n - 1 \in 0..N
    BY <1>1
  <2>2. f[n - 1] \in After(g, r[n - 1]) /\ f[n - 1] \in Sound /\ T[n] = After(g, r[n])
    BY <2>1, <1>9, <1>10 DEF After
  <2>3. PICK a \in Agents : a = AgentOrder[n]
    BY <1>1
  <2>4. f[n] \in After(f[n - 1], Lost(a, down)) /\ Lost(a, down) \in Counts
    BY <1>5, <1>8, <2>2, <2>3
  <2>5. \A y \in Items : r[n][y] = r[n - 1][y] + Lost(a, down)[y]
    <3>1. \A y \in Items : F[y][n] = Lost(a, down)[y]
      BY <2>3
    <3> QED
      BY <3>1, <1>7
  <2>6. r[n - 1] \in Counts
    BY <2>1
  <2> QED
    BY <2>2, <2>4, <2>5, <2>6, AfterBoth
<1>11. f[0] \in T[0]
  <2>1. 0 \in 0..N /\ \A x \in Items : r[0][x] = Nothing[x]
    <3>1. 0 \in 0..N
      BY <1>1
    <3>2. \A x \in Items : r[0][x] = 0
      BY <1>7
    <3> QED
      BY <3>1, <3>2 DEF Nothing
  <2>2. g \in After(g, r[0])
    BY <2>1, AfterNothing DEF After
  <2> QED
    BY <1>5, <1>9, <2>1, <2>2
<1>12. f[N] \in T[N] /\ N \in 0..N
  <2>1. N \in Nat
    BY <1>1
  <2> HIDE DEF N, F
  <2>2. f[N] \in T[N]
    BY <1>10, <1>11, <2>1, ReachesEach
  <2> QED
    BY <2>1, <2>2
<1>13. ASSUME NEW x \in Items PROVE r[N][x] = ByAgent([a \in Agents |-> Lost(a, down)[x]])
  <2>1. PICK e : e = [a \in Agents |-> Lost(a, down)[x]]
    OBVIOUS
  <2>2. ByAgent(e) = Sum([k \in DOMAIN AgentOrder |-> e[AgentOrder[k]]])
    BY DEF ByAgent
  <2>3. [k \in DOMAIN AgentOrder |-> e[AgentOrder[k]]] = F[x]
    BY <2>1, AgentOrderFacts
  <2> QED
    BY <1>7, <2>1, <2>2, <2>3
<1>14. f[N] \in After(g, [x \in Items |-> ByAgent([a \in Agents |-> Lost(a, down)[x]])])
  <2>1. PICK d : d = [x \in Items |-> ByAgent([a \in Agents |-> Lost(a, down)[x]])]
    OBVIOUS
  <2>2. \A x \in Items : r[N][x] = d[x]
    BY <1>13, <2>1
  <2>3. f[N] \in After(g, d)
    BY <1>9, <1>12, <2>2 DEF After
  <2> QED
    BY <2>1, <2>3
<1> QED
  BY <1>1, <1>2, <1>14

LEMMA CleanupSound ==
  ASSUME NEW h \in Sound, NEW now
  PROVE  /\ CleanupExpired(h, now) \in Sound /\ CleanupExpired(h, now).next = h.next
         /\ \A x \in Items :
              OnGround(CleanupExpired(h, now), x)
                = OnGround(h, x) - Sum([i \in ItemIds |-> IF i \in Expired(h, now) THEN Lying(h.items[i], x) ELSE 0])
<1> DEFINE ids == [i \in ItemIds |-> i]
           step(k, i) == IF i \in Expired(h, now) THEN RemoveEntity(k, i) ELSE k
           f == CHOOSE f : f = [n \in 0..Len(ids) |-> IF n = 0 THEN h ELSE step(f[n - 1], ids[n])]
<1>1. Len(ids) = MaxItems /\ MaxItems \in Nat /\ \A n \in 1..MaxItems : ids[n] \in ItemIds
  BY IdsInOrder, GroundAssumption DEF ItemIds
<1>2. CleanupExpired(h, now) = f[Len(ids)]
  BY DEF CleanupExpired, InOrder, Through
<1>3. \A k \in Sound, i \in ItemIds : step(k, i) \in Sound
  BY RemoveSound
<1> HIDE DEF ids, step
<1>4. f = [n \in 0..MaxItems |-> IF n = 0 THEN h ELSE step(f[n - 1], ids[n])]
  <2>1. PICK op : op = [n \in 1..MaxItems |-> [k \in Sound |-> step(k, ids[n])]]
    OBVIOUS
  <2>2. op \in [1..MaxItems -> [Sound -> Sound]]
    BY <1>1, <1>3, <2>1
  <2>3. PICK e : Path(e, MaxItems, h, op) /\ \A n \in 0..MaxItems : e[n] \in Sound
    BY <1>1, <2>2, Iterates
  <2>4. ASSUME NEW n \in 0..MaxItems
        PROVE  (IF n = 0 THEN h ELSE op[n][e[n - 1]]) = (IF n = 0 THEN h ELSE step(e[n - 1], ids[n]))
    <3>1. n # 0 => n \in 1..MaxItems /\ n - 1 \in 0..MaxItems
      BY <1>1
    <3>2. n # 0 => op[n] = [k \in Sound |-> step(k, ids[n])] /\ e[n - 1] \in Sound
      BY <3>1, <2>1, <2>3
    <3> QED
      BY <3>2
  <2>5. e = [n \in 0..MaxItems |-> IF n = 0 THEN h ELSE step(e[n - 1], ids[n])]
    <3>1. e = [n \in 0..MaxItems |-> IF n = 0 THEN h ELSE op[n][e[n - 1]]]
      BY <2>3 DEF Path
    <3> QED
      BY <3>1, <2>4
  <2> QED
    BY <1>1, <2>5
<1> HIDE DEF f
<1>5. f[0] = h /\ \A n \in 1..MaxItems : f[n] = step(f[n - 1], ids[n])
  BY <1>1, <1>4
<1> DEFINE F == [x \in Items |-> [i \in ItemIds |-> IF i \in Expired(h, now) THEN Lying(h.items[i], x) ELSE 0]]
<1>6. F \in [Items -> [1..MaxItems -> Int]]
  <2>1. \A x \in Items, i \in ItemIds : Lying(h.items[i], x) \in Int
    BY SoundFacts, LyingType
  <2> QED
    BY <2>1 DEF ItemIds
<1>7. PICK r \in [0..MaxItems -> Counts] :
        /\ \A x \in Items : r[0][x] = 0 /\ r[MaxItems][x] = Sum(F[x])
        /\ \A k \in 1..MaxItems, x \in Items : r[k][x] = r[k - 1][x] + F[x][k]
  <2> HIDE DEF F
  <2> QED
    BY <1>1, <1>6, PartialsBy
<1> DEFINE Left(n) == {k \in Sound : /\ k.next = h.next
                                     /\ \A j \in ItemIds : j > n => k.items[j] = h.items[j]
                                     /\ \A x \in Items : OnGround(k, x) = OnGround(h, x) - r[n][x]}
<1>9. PICK T : T = [n \in 0..MaxItems |-> Left(n)]
  OBVIOUS
<1>10. ASSUME NEW n \in 1..MaxItems, f[n - 1] \in T[n - 1] PROVE f[n] \in T[n]
  <2>1. n \in 0..MaxItems /\ n - 1 \in 0..MaxItems /\ n \in ItemIds /\ ids[n] = n
    BY <1>1, IdsInOrder DEF ItemIds, ids
  <2>2. PICK k \in Sound : k = f[n - 1]
    BY <2>1, <1>9, <1>10
  <2>3. /\ k.next = h.next /\ \A j \in ItemIds : j > n - 1 => k.items[j] = h.items[j]
        /\ \A x \in Items : OnGround(k, x) = OnGround(h, x) - r[n - 1][x]
    BY <2>1, <2>2, <1>9, <1>10
  <2>4. f[n] = IF n \in Expired(h, now) THEN RemoveEntity(k, n) ELSE k
    BY <1>5, <2>1, <2>2 DEF step
  <2>5. \A x \in Items : r[n][x] = r[n - 1][x] + (IF n \in Expired(h, now) THEN Lying(h.items[n], x) ELSE 0)
    BY <1>7, <2>1
  <2>6. \A x \in Items : OnGround(h, x) \in Int /\ r[n - 1][x] \in Int /\ Lying(h.items[n], x) \in Int
    <3>1. h.items[n] \in Entity \cup {Absent}
      BY <2>1, SoundFacts
    <3>2. r[n - 1] \in Counts
      BY <2>1
    <3>3. \A x \in Items : OnGround(h, x) \in Int
      BY OnGroundType
    <3>4. \A x \in Items : r[n - 1][x] \in Int
      BY <3>2 DEF Counts
    <3>5. \A x \in Items : Lying(h.items[n], x) \in Int
      BY <3>1, LyingType
    <3> QED
      BY <3>3, <3>4, <3>5
  <2>7. k.items[n] = h.items[n] /\ \A j \in ItemIds : j > n => j > n - 1 /\ j # n
    BY <2>1, <2>3 DEF ItemIds
  <2>8. CASE n \in Expired(h, now)
    <3>1. /\ RemoveEntity(k, n) \in Sound /\ RemoveEntity(k, n).next = h.next
          /\ \A j \in ItemIds : j # n => RemoveEntity(k, n).items[j] = k.items[j]
          /\ \A x \in Items : OnGround(RemoveEntity(k, n), x) = OnGround(k, x) - Lying(h.items[n], x)
      BY <2>1, <2>3, <2>7, RemoveSound
    <3>2. \A x \in Items : OnGround(RemoveEntity(k, n), x) = OnGround(h, x) - r[n][x]
      BY <2>3, <2>5, <2>6, <2>8, <3>1
    <3>3. RemoveEntity(k, n) \in Left(n)
      BY <2>3, <2>7, <3>1, <3>2
    <3> QED
      BY <2>1, <2>4, <2>8, <3>3, <1>9
  <2>9. CASE n \notin Expired(h, now)
    <3>1. \A x \in Items : OnGround(k, x) = OnGround(h, x) - r[n][x]
      BY <2>3, <2>5, <2>6, <2>9
    <3>2. k \in Left(n)
      BY <2>3, <2>7, <3>1
    <3> QED
      BY <2>1, <2>4, <2>9, <3>2, <1>9
  <2> QED
    BY <2>8, <2>9
<1>11. f[0] \in T[0]
  <2>1. 0 \in 0..MaxItems
    BY <1>1
  <2>2. ASSUME NEW x \in Items PROVE OnGround(h, x) = OnGround(h, x) - r[0][x]
    <3>1. r[0][x] = 0
      BY <1>7
    <3> QED
      BY <3>1, OnGroundType
  <2>3. h \in Left(0)
    BY <2>2
  <2> QED
    BY <1>5, <1>9, <2>1, <2>3
<1>12. f[MaxItems] \in T[MaxItems] /\ MaxItems \in 0..MaxItems
  BY <1>1, <1>10, <1>11, ReachesEach
<1>13. f[MaxItems] \in Left(MaxItems)
  BY <1>9, <1>12
<1> QED
  BY <1>1, <1>2, <1>7, <1>13

-----------------------------------------------------------------------------
(* What a build takes from the containers around                           *)

Pots == [g : Sound, inv : Bundle]

\* The ground and the inventory that p may have become without loss.
PulledFrom(p) ==
  {q \in Pots : /\ q.g.next = p.g.next
                /\ \A c \in Cells : p.g.box[c] # Absent => q.g.box[c] # Absent
                /\ \A x \in Items : OnGround(q.g, x) + q.inv[x] = OnGround(p.g, x) + p.inv[x]}

LEMMA PulledFacts ==
  ASSUME NEW p \in Pots
  PROVE  /\ p.g \in Sound /\ p.inv \in Bundle /\ p \in PulledFrom(p)
         /\ \A q \in PulledFrom(p) : q \in Pots /\ PulledFrom(q) \subseteq PulledFrom(p)
<1>1. p.g \in Sound /\ p.inv \in Bundle /\ p \in PulledFrom(p)
  BY DEF Pots, PulledFrom
<1>2. \A q \in PulledFrom(p) : q \in Pots /\ PulledFrom(q) \subseteq PulledFrom(p)
  <2> SUFFICES ASSUME NEW q \in PulledFrom(p), NEW r \in PulledFrom(q) PROVE r \in PulledFrom(p)
    BY DEF PulledFrom
  <2> QED
    BY DEF PulledFrom
<1> QED
  BY <1>1, <1>2

LEMMA PullSound ==
  ASSUME NEW p \in Pots, NEW x \in Items, NEW required \in Nat, NEW c \in Cells, p.g.box[c] # Absent
  PROVE  Pull(p, x, required, c) \in PulledFrom(p)
<1>1. PICK h \in Sound : h = p.g
  BY PulledFacts
<1>2. PICK b \in Bundle : b = p.inv
  BY PulledFacts
<1>3. PICK d \in Container : d = h.box[c]
  BY <1>1, SoundFacts
<1>4. PICK n : n = IF b[x] < required THEN Taken(d, x, required - b[x]) ELSE 0
  OBVIOUS
<1>5. d.stock[x] \in Nat /\ d.reserved[x] \in Nat /\ d.reserved[x] <= d.stock[x] /\ b[x] \in Nat
  BY <1>1, <1>3, SoundFacts, ContainerFacts, BundleFacts DEF Backed
<1>6. n \in Nat /\ n <= d.stock[x] - d.reserved[x]
  BY <1>4, <1>5 DEF Taken, AvailableCount, Lesser
<1>7. PICK m \in Int : m = -n
  BY <1>6
<1>8. 0 <= d.stock[x] + m /\ d.reserved[x] <= d.stock[x] + m
  BY <1>5, <1>6, <1>7
<1>9. PICK k : k = AddStock(h, c, x, m)
  OBVIOUS
<1>10. /\ k \in Sound /\ k.next = h.next
       /\ k.box[c] # Absent /\ \A q \in Cells : q # c => k.box[q] = h.box[q]
       /\ \A y \in Items : OnGround(k, y) = OnGround(h, y) + (IF y = x THEN m ELSE 0)
  BY <1>1, <1>3, <1>8, <1>9, StockSound
<1>11. PICK e : e = [b EXCEPT ![x] = b[x] + n]
  OBVIOUS
<1>12. e \in Bundle /\ \A y \in Items : e[y] = b[y] + (IF y = x THEN n ELSE 0)
  <2>1. \A y \in Items : b[y] \in Nat
    BY BundleFacts
  <2> QED
    BY <2>1, <1>6, <1>11 DEF Bundle
<1>13. Pull(p, x, required, c) = [g |-> k, inv |-> e]
  BY <1>1, <1>2, <1>3, <1>4, <1>7, <1>9, <1>11 DEF Pull, Bundle
<1>14. ASSUME NEW y \in Items PROVE OnGround(k, y) + e[y] = OnGround(h, y) + b[y]
  <2>1. OnGround(h, y) \in Int /\ b[y] \in Nat
    BY OnGroundType, BundleFacts
  <2> QED
    BY <2>1, <1>6, <1>7, <1>10, <1>12
<1>15. \A q \in Cells : h.box[q] # Absent => k.box[q] # Absent
  BY <1>10
<1>16. PICK q : q = [g |-> k, inv |-> e]
  OBVIOUS
<1>17. q \in Pots /\ q.g = k /\ q.inv = e
  BY <1>10, <1>12, <1>16 DEF Pots
<1> QED
  BY <1>1, <1>2, <1>10, <1>13, <1>14, <1>15, <1>16, <1>17 DEF PulledFrom

LEMMA AroundFacts ==
  ASSUME NEW anchor \in Cells
  PROVE  /\ Len(Around(anchor)) = 2 * Width /\ 2 * Width \in Nat
         /\ \A n \in 1..2 * Width : Around(anchor)[n] \in Int
<1>1. Width \in Nat /\ anchor \in Int /\ 2 * Width \in Nat
  BY GroundAssumption DEF Cells
<1>2. ASSUME NEW n \in 1..2 * Width PROVE Around(anchor)[n] \in Int
  <2>1. n \div 2 \in Int
    BY <1>1
  <2>2. Around(anchor)[n] = IF n % 2 = 0 THEN anchor - n \div 2 ELSE anchor + n \div 2
    BY DEF Around
  <2> QED
    BY <1>1, <2>1, <2>2
<1>3. Len(Around(anchor)) = 2 * Width
  BY <1>1 DEF Around
<1> QED
  BY <1>1, <1>2, <1>3

LEMMA PullItemSound ==
  ASSUME NEW p \in Pots, NEW x \in Items, NEW required \in Nat, NEW anchor \in Cells,
         NEW cands \in SUBSET Cells, \A c \in cands : p.g.box[c] # Absent
  PROVE  PullItem(p, x, required, anchor, cands) \in PulledFrom(p)
<1> DEFINE step(k, c) == IF c \in cands THEN Pull(k, x, required, c) ELSE k
           f == CHOOSE f : f = [n \in 0..Len(Around(anchor)) |-> IF n = 0 THEN p ELSE step(f[n - 1], Around(anchor)[n])]
<1>1. Len(Around(anchor)) = 2 * Width /\ 2 * Width \in Nat /\ \A n \in 1..2 * Width : Around(anchor)[n] \in Int
  BY AroundFacts
<1>2. PullItem(p, x, required, anchor, cands) = f[Len(Around(anchor))]
  BY DEF PullItem, Through
<1>3. \A k \in PulledFrom(p), c \in Int : step(k, c) \in PulledFrom(p)
  <2> SUFFICES ASSUME NEW k \in PulledFrom(p), NEW c \in cands
               PROVE  Pull(k, x, required, c) \in PulledFrom(p)
    OBVIOUS
  <2>1. k \in Pots /\ k.g.box[c] # Absent
    BY DEF PulledFrom
  <2>2. Pull(k, x, required, c) \in PulledFrom(k)
    BY <2>1, PullSound
  <2> QED
    BY <2>2, PulledFacts
<1> HIDE DEF step
<1>4. f = [n \in 0..2 * Width |-> IF n = 0 THEN p ELSE step(f[n - 1], Around(anchor)[n])]
  <2>1. PICK op : op = [n \in 1..2 * Width |-> [k \in PulledFrom(p) |-> step(k, Around(anchor)[n])]]
    OBVIOUS
  <2>2. op \in [1..2 * Width -> [PulledFrom(p) -> PulledFrom(p)]]
    BY <1>1, <1>3, <2>1
  <2>3. PICK e : Path(e, 2 * Width, p, op) /\ \A n \in 0..2 * Width : e[n] \in PulledFrom(p)
    BY <1>1, <2>2, PulledFacts, Iterates
  <2>4. ASSUME NEW n \in 0..2 * Width
        PROVE  (IF n = 0 THEN p ELSE op[n][e[n - 1]]) = (IF n = 0 THEN p ELSE step(e[n - 1], Around(anchor)[n]))
    <3>1. n # 0 => n \in 1..2 * Width /\ n - 1 \in 0..2 * Width
      BY <1>1
    <3>2. n # 0 => op[n] = [k \in PulledFrom(p) |-> step(k, Around(anchor)[n])] /\ e[n - 1] \in PulledFrom(p)
      BY <3>1, <2>1, <2>3
    <3> QED
      BY <3>2
  <2>5. e = [n \in 0..2 * Width |-> IF n = 0 THEN p ELSE step(e[n - 1], Around(anchor)[n])]
    <3>1. e = [n \in 0..2 * Width |-> IF n = 0 THEN p ELSE op[n][e[n - 1]]]
      BY <2>3 DEF Path
    <3> QED
      BY <3>1, <2>4
  <2> QED
    BY <1>1, <2>5
<1> HIDE DEF f
<1>5. f[0] = p /\ \A n \in 1..2 * Width : f[n] = step(f[n - 1], Around(anchor)[n])
  BY <1>1, <1>4
<1>6. f[2 * Width] \in PulledFrom(p)
  <2>1. f[0] \in PulledFrom(p)
    BY <1>5, PulledFacts
  <2>2. \A n \in 1..2 * Width : f[n - 1] \in PulledFrom(p) => f[n] \in PulledFrom(p)
    BY <1>1, <1>3, <1>5
  <2> QED
    BY <1>1, <2>1, <2>2, Reaches
<1> QED
  BY <1>1, <1>2, <1>6

LEMMA MaterialsSound ==
  ASSUME NEW h \in Sound, NEW b \in Bundle, NEW cost \in Bundle, NEW anchor \in Cells,
         NEW cands \in SUBSET Cells, \A c \in cands : h.box[c] # Absent
  PROVE  EnsureBlueprintMaterials(h, b, cost, anchor, cands) \in PulledFrom([g |-> h, inv |-> b])
<1>0. PICK p : p = [g |-> h, inv |-> b]
  OBVIOUS
<1>a. p \in Pots /\ p.g = h
  BY <1>0 DEF Pots
<1> DEFINE step(k, x) == PullItem(k, x, cost[x], anchor, cands)
           f == CHOOSE f : f = [n \in 0..Len(ItemOrder) |-> IF n = 0 THEN p ELSE step(f[n - 1], ItemOrder[n])]
<1>1. Len(ItemOrder) = Len(ItemOrder) /\ Len(ItemOrder) \in Nat /\ \A n \in 1..Len(ItemOrder) : ItemOrder[n] \in Items
  BY ItemOrderFacts
<1>2. EnsureBlueprintMaterials(h, b, cost, anchor, cands) = f[Len(ItemOrder)]
  BY <1>0 DEF EnsureBlueprintMaterials, Through
<1>3. \A k \in PulledFrom(p), x \in Items : step(k, x) \in PulledFrom(p)
  <2> SUFFICES ASSUME NEW k \in PulledFrom(p), NEW x \in Items
               PROVE  PullItem(k, x, cost[x], anchor, cands) \in PulledFrom(p)
    OBVIOUS
  <2>1. k \in Pots /\ \A c \in cands : k.g.box[c] # Absent
    BY <1>a DEF PulledFrom
  <2>2. cost[x] \in Nat
    BY BundleFacts
  <2>3. PullItem(k, x, cost[x], anchor, cands) \in PulledFrom(k)
    BY <2>1, <2>2, PullItemSound
  <2> QED
    BY <2>3, <1>a, PulledFacts
<1> HIDE DEF step
<1>4. f = [n \in 0..Len(ItemOrder) |-> IF n = 0 THEN p ELSE step(f[n - 1], ItemOrder[n])]
  <2>1. PICK op : op = [n \in 1..Len(ItemOrder) |-> [k \in PulledFrom(p) |-> step(k, ItemOrder[n])]]
    OBVIOUS
  <2>2. op \in [1..Len(ItemOrder) -> [PulledFrom(p) -> PulledFrom(p)]]
    BY <1>1, <1>3, <2>1
  <2>3. PICK e : Path(e, Len(ItemOrder), p, op) /\ \A n \in 0..Len(ItemOrder) : e[n] \in PulledFrom(p)
    BY <1>1, <1>a, <2>2, PulledFacts, Iterates
  <2>4. ASSUME NEW n \in 0..Len(ItemOrder)
        PROVE  (IF n = 0 THEN p ELSE op[n][e[n - 1]]) = (IF n = 0 THEN p ELSE step(e[n - 1], ItemOrder[n]))
    <3>1. n # 0 => n \in 1..Len(ItemOrder) /\ n - 1 \in 0..Len(ItemOrder)
      BY <1>1
    <3>2. n # 0 => op[n] = [k \in PulledFrom(p) |-> step(k, ItemOrder[n])] /\ e[n - 1] \in PulledFrom(p)
      BY <3>1, <2>1, <2>3
    <3> QED
      BY <3>2
  <2>5. e = [n \in 0..Len(ItemOrder) |-> IF n = 0 THEN p ELSE step(e[n - 1], ItemOrder[n])]
    <3>1. e = [n \in 0..Len(ItemOrder) |-> IF n = 0 THEN p ELSE op[n][e[n - 1]]]
      BY <2>3 DEF Path
    <3> QED
      BY <3>1, <2>4
  <2> QED
    BY <1>1, <2>5
<1> HIDE DEF f
<1>5. f[0] = p /\ \A n \in 1..Len(ItemOrder) : f[n] = step(f[n - 1], ItemOrder[n])
  BY <1>1, <1>4
<1> DEFINE N == Len(ItemOrder)
<1>6. f[N] \in PulledFrom(p)
  <2>1. f[0] \in PulledFrom(p)
    BY <1>5, <1>a, PulledFacts
  <2>2. \A n \in 1..N : f[n - 1] \in PulledFrom(p) => f[n] \in PulledFrom(p)
    BY <1>1, <1>3, <1>5
  <2>3. N \in Nat
    BY <1>1
  <2> HIDE DEF N
  <2> QED
    BY <2>1, <2>2, <2>3, Reaches
<1> QED
  BY <1>0, <1>1, <1>2, <1>6

-----------------------------------------------------------------------------
(* Blocks and blueprints                                                   *)

Standing(bs, x) == Sum([p \in Cells |-> IF bs[p] = x THEN 1 ELSE 0])

LEMMA StandingType ==
  ASSUME NEW bs, NEW x
  PROVE  Standing(bs, x) \in Int
<1>1. PICK f : f = [p \in Cells |-> IF bs[p] = x THEN 1 ELSE 0]
  OBVIOUS
<1>2. f \in [1..Width -> Int] /\ Width \in Nat
  BY <1>1, GroundAssumption DEF Cells
<1> QED
  BY <1>1, <1>2, SumType DEF Standing

LEMMA StandingChange ==
  ASSUME NEW bs \in [Cells -> Blocks], NEW cs \in [Cells -> Blocks], NEW p \in Cells,
         \A q \in Cells : q # p => cs[q] = bs[q], NEW x
  PROVE  Standing(cs, x) = Standing(bs, x) + (IF cs[p] = x THEN 1 ELSE 0) - (IF bs[p] = x THEN 1 ELSE 0)
<1>1. PICK f : f = [q \in Cells |-> IF bs[q] = x THEN 1 ELSE 0]
  OBVIOUS
<1>2. PICK h : h = [q \in Cells |-> IF cs[q] = x THEN 1 ELSE 0]
  OBVIOUS
<1>3. f \in [1..Width -> Int] /\ h \in [1..Width -> Int]
  BY <1>1, <1>2 DEF Cells
<1>4. \A q \in 1..Width : q # p => h[q] = f[q]
  BY <1>1, <1>2 DEF Cells
<1>5. p \in 1..Width /\ Width \in Nat
  BY GroundAssumption DEF Cells
<1>6. Sum(h) = Sum(f) + h[p] - f[p]
  BY <1>3, <1>4, <1>5, SumChange
<1> QED
  BY <1>1, <1>2, <1>6 DEF Standing

LEMMA BlueprintFacts ==
  /\ Len(Blueprint) \in Nat /\ Parts = 1..Len(Blueprint) /\ IsFiniteSet(Parts)
  /\ \A i \in Parts : Blueprint[i].pos \in Cells /\ Blueprint[i].block \in Items
<1>1. Blueprint \in Seq([pos : Cells, block : Items])
  BY WorkAssumption
<1>2. Len(Blueprint) \in Nat
  BY <1>1, LenProperties
<1>3. IsFiniteSet(1..Len(Blueprint))
  BY <1>2, FS_Interval
<1>4. \A i \in 1..Len(Blueprint) : Blueprint[i] \in [pos : Cells, block : Items]
  BY <1>1, ElementOfSeq
<1> QED
  BY <1>2, <1>3, <1>4 DEF Parts

LEMMA RestFacts ==
  ASSUME NEW x
  PROVE  /\ \A i \in 0..Len(Blueprint) : Rest(x, i) \in Nat
         /\ Rest(x, 0) = Cardinality({i \in Parts : Blueprint[i].block = x})
         /\ \A i \in 0..Len(Blueprint) : i < Len(Blueprint) =>
              Rest(x, i) = Rest(x, i + 1) + (IF Blueprint[i + 1].block = x THEN 1 ELSE 0)
<1> DEFINE U(i) == {j \in Parts : j > i /\ Blueprint[j].block = x}
<1>1. \A i \in 0..Len(Blueprint) : IsFiniteSet(U(i)) /\ Cardinality(U(i)) \in Nat
  <2> SUFFICES ASSUME NEW i \in 0..Len(Blueprint) PROVE IsFiniteSet(U(i)) /\ Cardinality(U(i)) \in Nat
    OBVIOUS
  <2>1. U(i) \subseteq Parts
    OBVIOUS
  <2> HIDE DEF U
  <2>2. IsFiniteSet(U(i))
    BY <2>1, BlueprintFacts, FS_Subset
  <2> QED
    BY <2>2, FS_CardinalityType
<1>2. U(0) = {i \in Parts : Blueprint[i].block = x}
  BY BlueprintFacts
<1>3. ASSUME NEW i \in 0..Len(Blueprint), i < Len(Blueprint)
      PROVE  Cardinality(U(i)) = Cardinality(U(i + 1)) + (IF Blueprint[i + 1].block = x THEN 1 ELSE 0)
  <2>1. i + 1 \in Parts /\ i + 1 \in 0..Len(Blueprint) /\ i \in Nat /\ \A j \in Parts : j > i <=> j = i + 1 \/ j > i + 1
    BY <1>3, BlueprintFacts
  <2>2. CASE Blueprint[i + 1].block = x
    <3>1. U(i) = U(i + 1) \cup {i + 1} /\ i + 1 \notin U(i + 1)
      BY <2>1, <2>2
    <3>2. IsFiniteSet(U(i + 1))
      BY <1>1, <2>1
    <3> HIDE DEF U
    <3>3. Cardinality(U(i)) = Cardinality(U(i + 1)) + 1
      BY <3>1, <3>2, FS_AddElement
    <3> QED
      BY <2>2, <3>3
  <2>3. CASE Blueprint[i + 1].block # x
    <3>1. U(i) = U(i + 1)
      BY <2>1, <2>3
    <3>2. Cardinality(U(i + 1)) \in Nat
      BY <1>1, <2>1
    <3> HIDE DEF U
    <3> QED
      BY <2>3, <3>1, <3>2
  <2> QED
    BY <2>2, <2>3
<1> QED
  BY <1>1, <1>2, <1>3 DEF Rest

\* What is in place and what is charged pay for the whole blueprint.
LEMMA CostFacts ==
  /\ InPlace \in Bundle /\ RemainingCost \in Bundle
  /\ \A x \in Items : InPlace[x] + RemainingCost[x] >= Rest(x, 0)
<1>1. ASSUME NEW x \in Items
      PROVE  /\ InPlace[x] \in Nat /\ RemainingCost[x] \in Nat
             /\ InPlace[x] + RemainingCost[x] >= Rest(x, 0)
  <2> DEFINE U == {i \in Parts : Correct(i) /\ Blueprint[i].block = x}
  <2>1. U \subseteq Parts /\ InPlace[x] = Cardinality(U)
    BY DEF InPlace
  <2> HIDE DEF U
  <2>2. Cardinality(U) \in Nat
    BY <2>1, BlueprintFacts, FS_Subset, FS_CardinalityType
  <2>3. Rest(x, 0) \in Nat /\ Rest(x, 0) <= Cost[x]
    <3>1. Cardinality({i \in 1..Len(Blueprint) : Blueprint[i].block = x}) <= Cost[x]
      BY WorkAssumption
    <3>2. {i \in Parts : Blueprint[i].block = x} = {i \in 1..Len(Blueprint) : Blueprint[i].block = x}
      BY BlueprintFacts
    <3>3. Rest(x, 0) = Cardinality({i \in Parts : Blueprint[i].block = x})
      BY RestFacts
    <3>4. Rest(x, 0) \in Nat
      <4>1. 0 \in 0..Len(Blueprint)
        BY BlueprintFacts
      <4> QED
        BY <4>1, RestFacts
    <3> QED
      BY <3>1, <3>2, <3>3, <3>4
  <2>4. Cost[x] \in Nat
    BY WorkAssumption, BundleFacts
  <2>5. RemainingCost[x] = IF InPlace[x] >= Cost[x] THEN 0 ELSE Cost[x] - InPlace[x]
    BY DEF RemainingCost
  <2> QED
    BY <2>1, <2>2, <2>3, <2>4, <2>5
<1>2. InPlace = [x \in Items |-> InPlace[x]] /\ RemainingCost = [x \in Items |-> RemainingCost[x]]
  BY DEF InPlace, RemainingCost
<1>3. ASSUME NEW b, b = [x \in Items |-> b[x]], \A x \in Items : b[x] \in Nat
      PROVE  b \in Bundle
  BY <1>3 DEF Bundle
<1> QED
  BY <1>1, <1>2, <1>3

-----------------------------------------------------------------------------
(* The blocks of a turn                                                    *)

LEMMA EffectsSound ==
  ASSUME NEW h \in Sound, NEW p \in Cells, NEW b
  PROVE  /\ PlaceEffects(h, p, b) \in Sound /\ PlaceEffects(h, p, b).next = h.next
         /\ \A x \in Items : OnGround(PlaceEffects(h, p, b), x) = OnGround(h, x)
         /\ \A ds \in [Cells -> {-1, 1, Absent}], d \in {-1, 1} :
              BeltsAfter(ds, p, b, d) \in [Cells -> {-1, 1, Absent}]
         /\ \A ss \in [Cells -> {"ON", "OFF", Absent}] : SwitchesAfter(ss, p, b) \in [Cells -> {"ON", "OFF", Absent}]
<1>1. CASE b \in ContainerTypes
  BY <1>1, EnsureSound DEF PlaceEffects, BeltsAfter, SwitchesAfter
<1>2. CASE b \notin ContainerTypes
  BY <1>2 DEF PlaceEffects, BeltsAfter, SwitchesAfter
<1> QED
  BY <1>1, <1>2

Works ==
  [blocks : [Cells -> Blocks], g : Sound, belts : [Cells -> {-1, 1, Absent}],
   switches : [Cells -> {"ON", "OFF", Absent}], inv : Bundle, index : 0..Len(Blueprint),
   placed : Nat, failed : BOOLEAN, bill : Bundle, credit : Counts, supply : Counts]

Balance(s, x) == Standing(s.blocks, x) + OnGround(s.g, x) + s.inv[x] + s.bill[x] - s.supply[x]

\* What is not paid of the blocks to come is in the credit.
Secured(s) ==
  /\ s.placed > 0 => s.index > 0
  /\ \A x \in Items : s.credit[x] >= 0 /\ s.credit[x] + s.bill[x] >= Rest(x, s.index)

BuiltFrom(s) ==
  {t \in Works : /\ t.g.next = s.g.next /\ t.inv = s.inv /\ Secured(t)
                 /\ \A x \in Items : Balance(t, x) = Balance(s, x)}

LEMMA BuiltTwice ==
  ASSUME NEW s, NEW t \in BuiltFrom(s), NEW u \in BuiltFrom(t)
  PROVE  u \in BuiltFrom(s)
<1>1. t.g.next = s.g.next /\ t.inv = s.inv /\ \A x \in Items : Balance(t, x) = Balance(s, x)
  BY DEF BuiltFrom
<1>2. /\ u \in Works /\ u.g.next = t.g.next /\ u.inv = t.inv /\ Secured(u)
      /\ \A x \in Items : Balance(u, x) = Balance(t, x)
  BY DEF BuiltFrom
<1>3. u.g.next = s.g.next /\ u.inv = s.inv /\ \A x \in Items : Balance(u, x) = Balance(s, x)
  BY <1>1, <1>2
<1> QED
  BY <1>2, <1>3 DEF BuiltFrom

LEMMA OneBlock ==
  ASSUME NEW t \in Works, Secured(t), t.index < Len(Blueprint), NEW p \in Cells, NEW y \in Items,
         p = Blueprint[t.index + 1].pos, y = Blueprint[t.index + 1].block, t.blocks[p] = "AIR"
  PROVE  /\ PutUp(t, p, y) \in BuiltFrom(t)
         /\ PutUp(t, p, y).index > 0
<1>0. PICK u : u = PutUp(t, p, y)
  OBVIOUS
<1>1. /\ t.blocks \in [Cells -> Blocks] /\ t.g \in Sound /\ t.belts \in [Cells -> {-1, 1, Absent}]
      /\ t.switches \in [Cells -> {"ON", "OFF", Absent}] /\ t.inv \in Bundle /\ t.index \in 0..Len(Blueprint)
      /\ t.placed \in Nat /\ t.failed \in BOOLEAN /\ t.bill \in Bundle /\ t.credit \in Counts /\ t.supply \in Counts
  BY DEF Works
<1>2. Len(Blueprint) \in Nat /\ t.index + 1 \in Parts /\ t.index + 1 \in 0..Len(Blueprint)
  BY <1>1, BlueprintFacts
<1>5. PICK cs : cs = [t.blocks EXCEPT ![p] = y]
  OBVIOUS
<1>6. PICK k : k = PlaceEffects(t.g, p, y)
  OBVIOUS
<1>7. PICK ds : ds = BeltsAfter(t.belts, p, y, 1)
  OBVIOUS
<1>8. PICK ss : ss = SwitchesAfter(t.switches, p, y)
  OBVIOUS
<1>10. t.bill[y] \in Nat /\ t.credit[y] \in Int /\ t.supply[y] \in Int
  BY <1>1, BundleFacts DEF Counts
<1>11. PICK bl : bl = [t.bill EXCEPT ![y] = IF t.bill[y] > 0 THEN t.bill[y] - 1 ELSE t.bill[y]]
  OBVIOUS
<1>12. PICK cr : cr = [t.credit EXCEPT ![y] = IF t.bill[y] > 0 THEN t.credit[y] ELSE t.credit[y] - 1]
  OBVIOUS
<1>13. PICK sp : sp = [t.supply EXCEPT ![y] = IF t.bill[y] > 0 THEN t.supply[y] ELSE t.supply[y] + 1]
  OBVIOUS
<1>14. u = [blocks |-> cs, g |-> k, belts |-> ds, switches |-> ss, inv |-> t.inv, index |-> t.index + 1,
            placed |-> t.placed + 1, failed |-> FALSE, bill |-> bl, credit |-> cr, supply |-> sp]
  BY <1>0, <1>1, <1>5, <1>6, <1>7, <1>8, <1>11, <1>12, <1>13 DEF PutUp
<1>15. /\ u.blocks = cs /\ u.g = k /\ u.inv = t.inv /\ u.index = t.index + 1 /\ u.placed = t.placed + 1
       /\ u.bill = bl /\ u.credit = cr /\ u.supply = sp
  BY <1>14
<1>16. /\ k \in Sound /\ k.next = t.g.next /\ \A x \in Items : OnGround(k, x) = OnGround(t.g, x)
       /\ ds \in [Cells -> {-1, 1, Absent}] /\ ss \in [Cells -> {"ON", "OFF", Absent}]
  BY <1>1, <1>6, <1>7, <1>8, EffectsSound
<1>17. cs \in [Cells -> Blocks] /\ cs[p] = y /\ \A q \in Cells : q # p => cs[q] = t.blocks[q]
  BY <1>1, <1>5 DEF Blocks
<1>18. \A x \in Items : /\ bl[x] = IF x = y THEN (IF t.bill[y] > 0 THEN t.bill[y] - 1 ELSE t.bill[y]) ELSE t.bill[x]
                        /\ cr[x] = IF x = y THEN (IF t.bill[y] > 0 THEN t.credit[y] ELSE t.credit[y] - 1) ELSE t.credit[x]
                        /\ sp[x] = IF x = y THEN (IF t.bill[y] > 0 THEN t.supply[y] ELSE t.supply[y] + 1) ELSE t.supply[x]
  BY <1>1, <1>11, <1>12, <1>13 DEF Bundle, Counts
<1>19. bl \in Bundle /\ cr \in Counts /\ sp \in Counts
  <2>1. bl \in Bundle
    BY <1>1, <1>10, <1>11 DEF Bundle
  <2>2. cr \in Counts /\ sp \in Counts
    BY <1>1, <1>10, <1>12, <1>13 DEF Counts
  <2> QED
    BY <2>1, <2>2
<1>20. u \in Works
  BY <1>1, <1>2, <1>14, <1>16, <1>17, <1>19 DEF Works
<1>21. ASSUME NEW x \in Items
       PROVE  /\ Balance(u, x) = Balance(t, x)
              /\ u.credit[x] >= 0 /\ u.credit[x] + u.bill[x] >= Rest(x, u.index)
  <2>1. Rest(x, t.index) = Rest(x, t.index + 1) + (IF y = x THEN 1 ELSE 0)
    BY <1>1, RestFacts
  <2>2. Rest(x, t.index + 1) \in Nat
    BY <1>2, RestFacts
  <2>3. t.credit[x] >= 0 /\ t.credit[x] + t.bill[x] >= Rest(x, t.index)
    BY DEF Secured
  <2>4. t.bill[x] \in Nat /\ t.credit[x] \in Int /\ t.supply[x] \in Int /\ t.inv[x] \in Nat
    BY <1>1, BundleFacts DEF Counts
  <2>5. Standing(cs, x) = Standing(t.blocks, x) + (IF y = x THEN 1 ELSE 0)
    <3>0. PICK bs \in [Cells -> Blocks] : bs = t.blocks
      BY <1>1
    <3>1. Standing(cs, x) = Standing(bs, x) + (IF cs[p] = x THEN 1 ELSE 0) - (IF bs[p] = x THEN 1 ELSE 0)
      BY <3>0, <1>17, StandingChange
    <3>2. bs[p] # x
      BY <3>0, GroundAssumption
    <3>3. Standing(bs, x) \in Int
      BY StandingType
    <3> QED
      BY <3>0, <3>1, <3>2, <3>3, <1>17
  <2>6. Standing(t.blocks, x) \in Int /\ OnGround(t.g, x) \in Int
    BY <1>1, StandingType, OnGroundType
  <2>7. /\ Balance(t, x) = Standing(t.blocks, x) + OnGround(t.g, x) + t.inv[x] + t.bill[x] - t.supply[x]
        /\ Balance(u, x) = Standing(cs, x) + OnGround(t.g, x) + t.inv[x] + bl[x] - sp[x]
    BY <1>15, <1>16 DEF Balance
  <2>8. PICK n \in {0, 1}, m \in {0, 1} :
          /\ bl[x] = t.bill[x] - n /\ cr[x] = t.credit[x] - m /\ sp[x] = t.supply[x] + m
          /\ n + m = (IF y = x THEN 1 ELSE 0) /\ (m = 1 => t.bill[x] = 0)
    <3>1. CASE y = x
      <4>1. CASE t.bill[y] > 0
        <5>1. bl[x] = t.bill[x] - 1 /\ cr[x] = t.credit[x] /\ sp[x] = t.supply[x]
          BY <3>1, <4>1, <1>18
        <5> QED
          BY <5>1, <3>1, <2>4
      <4>2. CASE ~(t.bill[y] > 0)
        <5>1. bl[x] = t.bill[x] /\ cr[x] = t.credit[x] - 1 /\ sp[x] = t.supply[x] + 1 /\ t.bill[x] = 0
          BY <3>1, <4>2, <1>18, <2>4
        <5>2. bl[x] = t.bill[x] - 0
          BY <5>1
        <5>3. 0 + 1 = (IF y = x THEN 1 ELSE 0)
          BY <3>1
        <5> QED
          BY <5>1, <5>2, <5>3
      <4> QED
        BY <4>1, <4>2
    <3>2. CASE y # x
      <4>1. bl[x] = t.bill[x] /\ cr[x] = t.credit[x] /\ sp[x] = t.supply[x]
        BY <3>2, <1>18
      <4> QED
        BY <4>1, <3>2, <2>4
    <3> QED
      BY <3>1, <3>2
  <2>11. PICK tb \in Nat, ti \in Nat : tb = t.bill[x] /\ ti = t.inv[x]
    BY <2>4
  <2>12. PICK tc \in Int, ts \in Int : tc = t.credit[x] /\ ts = t.supply[x]
    BY <2>4
  <2>13. PICK st \in Int, og \in Int : st = Standing(t.blocks, x) /\ og = OnGround(t.g, x)
    BY <2>6
  <2>14. PICK r \in Nat : r = Rest(x, t.index + 1)
    BY <2>2
  <2>9. Balance(u, x) = Balance(t, x)
    <3>1. Balance(t, x) = st + og + ti + tb - ts
      BY <2>7, <2>11, <2>12, <2>13
    <3>2. Balance(u, x) = (st + (n + m)) + og + ti + (tb - n) - (ts + m)
      BY <2>5, <2>7, <2>8, <2>11, <2>12, <2>13
    <3>3. n \in Int /\ m \in Int
      OBVIOUS
    <3> QED
      BY <3>1, <3>2, <3>3
  <2>10. cr[x] >= 0 /\ cr[x] + bl[x] >= Rest(x, t.index + 1)
    <3>1. tc >= 0 /\ tc + tb >= r + (n + m) /\ (m = 1 => tb = 0)
      BY <2>1, <2>3, <2>8, <2>11, <2>12, <2>14
    <3>2. cr[x] = tc - m /\ bl[x] = tb - n
      BY <2>8, <2>11, <2>12
    <3>3. tc - m >= 0 /\ (tc - m) + (tb - n) >= r
      BY <3>1
    <3> QED
      BY <3>2, <3>3, <2>14
  <2> QED
    BY <2>9, <2>10, <1>15
<1>22. u.index > 0
  BY <1>1, <1>15
<1> QED
  BY <1>0, <1>15, <1>16, <1>20, <1>21, <1>22, Zenon DEF BuiltFrom, Secured

LEMMA NextSound ==
  ASSUME NEW t \in Works, Secured(t), NEW denied
  PROVE  /\ BuildNext(t, denied) \in BuiltFrom(t)
         /\ Len(Blueprint) > 0 => BuildNext(t, denied).failed \/ BuildNext(t, denied).index > 0
<1>1. t \in BuiltFrom(t)
  BY DEF BuiltFrom
<1>2. t.index \in 0..Len(Blueprint) /\ t.placed \in Nat /\ Len(Blueprint) \in Nat /\ BlocksPerTick \in Nat \ {0}
  BY BlueprintFacts, WorkAssumption DEF Works
<1>3. PICK b : b = Blueprint[t.index + 1]
  OBVIOUS
<1>4. CASE t.failed \/ t.index = Len(Blueprint) \/ t.placed = BlocksPerTick
  <2>1. BuildNext(t, denied) = t
    BY <1>4 DEF BuildNext
  <2> QED
    BY <2>1, <1>1, <1>2, <1>4 DEF Secured
<1>5. CASE /\ ~(t.failed \/ t.index = Len(Blueprint) \/ t.placed = BlocksPerTick)
           /\ t.index + 1 = denied \/ (t.blocks[b.pos] # b.block /\ t.blocks[b.pos] # "AIR")
  <2>1. PICK u : u = [t EXCEPT !.failed = TRUE]
    OBVIOUS
  <2>2. BuildNext(t, denied) = u
    BY <2>1, <1>3, <1>5 DEF BuildNext
  <2>3. /\ u \in Works /\ u.failed /\ u.g = t.g /\ u.inv = t.inv /\ u.placed = t.placed /\ u.index = t.index
        /\ u.credit = t.credit /\ u.bill = t.bill /\ u.supply = t.supply /\ u.blocks = t.blocks
    BY <2>1 DEF Works
  <2> QED
    BY <2>2, <2>3 DEF BuiltFrom, Secured, Balance
<1>6. CASE /\ ~(t.failed \/ t.index = Len(Blueprint) \/ t.placed = BlocksPerTick)
           /\ ~(t.index + 1 = denied) /\ t.blocks[b.pos] = b.block
  <2>1. PICK u : u = [t EXCEPT !.index = t.index + 1]
    OBVIOUS
  <2>2. BuildNext(t, denied) = u
    BY <2>1, <1>3, <1>6 DEF BuildNext
  <2>3. t.index < Len(Blueprint) /\ t.index + 1 \in 0..Len(Blueprint)
    BY <1>2, <1>6
  <2>4. /\ u \in Works /\ u.g = t.g /\ u.inv = t.inv /\ u.placed = t.placed /\ u.index = t.index + 1
        /\ u.credit = t.credit /\ u.bill = t.bill /\ u.supply = t.supply /\ u.blocks = t.blocks
    BY <2>1, <2>3 DEF Works
  <2>5. u.index > 0
    BY <2>4, <1>2
  <2>6. ASSUME NEW x \in Items
        PROVE  u.credit[x] >= 0 /\ u.credit[x] + u.bill[x] >= Rest(x, u.index)
    <3>1. Rest(x, t.index) = Rest(x, t.index + 1) + (IF Blueprint[t.index + 1].block = x THEN 1 ELSE 0)
      BY <1>2, <2>3, RestFacts
    <3>2. Rest(x, t.index + 1) \in Nat
      BY <2>3, RestFacts
    <3>3. t.credit[x] >= 0 /\ t.credit[x] + t.bill[x] >= Rest(x, t.index)
      BY DEF Secured
    <3>4. t.bill[x] \in Nat /\ t.credit[x] \in Int
      <4>1. t.bill \in Bundle /\ t.credit \in Counts
        BY DEF Works
      <4> QED
        BY <4>1, BundleFacts DEF Counts
    <3> QED
      BY <3>1, <3>2, <3>3, <3>4, <2>4
  <2> QED
    BY <2>2, <2>4, <2>5, <2>6 DEF BuiltFrom, Secured, Balance
<1>7. CASE /\ ~(t.failed \/ t.index = Len(Blueprint) \/ t.placed = BlocksPerTick)
           /\ ~(t.index + 1 = denied) /\ t.blocks[b.pos] # b.block /\ t.blocks[b.pos] = "AIR"
  <2>1. t.index < Len(Blueprint) /\ t.index + 1 \in Parts
    BY <1>2, <1>7, BlueprintFacts
  <2>2. PICK p \in Cells : p = b.pos
    BY <2>1, <1>3, BlueprintFacts
  <2>3. PICK y \in Items : y = b.block
    BY <2>1, <1>3, BlueprintFacts
  <2>4. BuildNext(t, denied) = PutUp(t, p, y)
    BY <2>2, <2>3, <1>3, <1>7 DEF BuildNext
  <2> QED
    BY <2>1, <2>2, <2>3, <2>4, <1>3, <1>7, OneBlock
<1> QED
  BY <1>4, <1>5, <1>6, <1>7

LEMMA PartsInOrder ==
  LET ps == [i \in Parts |-> i]
  IN  /\ Len(ps) = Len(Blueprint) /\ Len(Blueprint) \in Nat
      /\ \A k \in 1..Len(Blueprint) : ps[k] = k /\ ps[k] \in Parts
BY BlueprintFacts

LEMMA PlacedSound ==
  ASSUME NEW s \in Works, Secured(s), Len(Blueprint) > 0, NEW denied
  PROVE  /\ Placed(s, denied) \in BuiltFrom(s)
         /\ Placed(s, denied).failed \/ Placed(s, denied).index > 0
<1>0. s \in BuiltFrom(s)
  BY DEF BuiltFrom
<1> DEFINE ps == [i \in Parts |-> i]
           step(k, i) == BuildNext(k, denied)
           f == CHOOSE f : f = [n \in 0..Len(ps) |-> IF n = 0 THEN s ELSE step(f[n - 1], ps[n])]
<1>1. Len(ps) = Len(Blueprint) /\ Len(Blueprint) \in Nat /\ \A n \in 1..Len(Blueprint) : ps[n] \in Parts
  BY PartsInOrder
<1>2. Placed(s, denied) = f[Len(ps)]
  BY DEF Placed, Through
<1>3. \A k \in BuiltFrom(s), i \in Parts : step(k, i) \in BuiltFrom(s)
  <2> SUFFICES ASSUME NEW k \in BuiltFrom(s) PROVE BuildNext(k, denied) \in BuiltFrom(s)
    OBVIOUS
  <2>1. k \in Works /\ Secured(k)
    BY DEF BuiltFrom
  <2>2. BuildNext(k, denied) \in BuiltFrom(k)
    BY <2>1, NextSound
  <2> QED
    BY <2>2, BuiltTwice
<1> HIDE DEF ps, step
<1>4. f = [n \in 0..Len(Blueprint) |-> IF n = 0 THEN s ELSE step(f[n - 1], ps[n])]
  <2>1. PICK op : op = [n \in 1..Len(Blueprint) |-> [k \in BuiltFrom(s) |-> step(k, ps[n])]]
    OBVIOUS
  <2>2. op \in [1..Len(Blueprint) -> [BuiltFrom(s) -> BuiltFrom(s)]]
    BY <1>1, <1>3, <2>1
  <2>3. PICK e : Path(e, Len(Blueprint), s, op) /\ \A n \in 0..Len(Blueprint) : e[n] \in BuiltFrom(s)
    BY <1>0, <1>1, <2>2, Iterates
  <2>4. ASSUME NEW n \in 0..Len(Blueprint)
        PROVE  (IF n = 0 THEN s ELSE op[n][e[n - 1]]) = (IF n = 0 THEN s ELSE step(e[n - 1], ps[n]))
    <3>1. n # 0 => n \in 1..Len(Blueprint) /\ n - 1 \in 0..Len(Blueprint)
      BY <1>1
    <3>2. n # 0 => op[n] = [k \in BuiltFrom(s) |-> step(k, ps[n])] /\ e[n - 1] \in BuiltFrom(s)
      BY <3>1, <2>1, <2>3
    <3> QED
      BY <3>2
  <2>5. e = [n \in 0..Len(Blueprint) |-> IF n = 0 THEN s ELSE step(e[n - 1], ps[n])]
    <3>1. e = [n \in 0..Len(Blueprint) |-> IF n = 0 THEN s ELSE op[n][e[n - 1]]]
      BY <2>3 DEF Path
    <3> QED
      BY <3>1, <2>4
  <2> QED
    BY <1>1, <2>5
<1> HIDE DEF f
<1>5. f[0] = s /\ \A n \in 1..Len(Blueprint) : f[n] = step(f[n - 1], ps[n])
  BY <1>1, <1>4
<1> DEFINE N == Len(Blueprint)
<1>6. \A n \in 0..N : f[n] \in BuiltFrom(s)
  <2> SUFFICES ASSUME NEW n \in 0..N PROVE f[n] \in BuiltFrom(s)
    OBVIOUS
  <2>1. f[0] \in BuiltFrom(s)
    BY <1>0, <1>5
  <2>2. ASSUME NEW k \in 1..n, f[k - 1] \in BuiltFrom(s) PROVE f[k] \in BuiltFrom(s)
    <3>1. k \in 1..Len(Blueprint)
      BY <1>1
    <3>2. f[k] = step(f[k - 1], ps[k]) /\ ps[k] \in Parts
      BY <3>1, <1>1, <1>5
    <3> HIDE DEF N
    <3> QED
      BY <3>2, <2>2, <1>3
  <2>3. n \in Nat
    BY <1>1
  <2> HIDE DEF N
  <2> QED
    BY <2>1, <2>2, <2>3, Reaches
<1>7. N \in 0..N /\ N - 1 \in 0..N /\ N \in 1..N
  BY <1>1
<1>8. f[N - 1] \in Works /\ Secured(f[N - 1]) /\ f[N] = BuildNext(f[N - 1], denied)
  BY <1>5, <1>6, <1>7 DEF BuiltFrom, step
<1>9. f[N].failed \/ f[N].index > 0
  BY <1>8, NextSound
<1> QED
  BY <1>2, <1>1, <1>6, <1>7, <1>9

\* What a build has at the start of a turn.
LEMMA ResumedFacts ==
  ASSUME WorkInv, NEW a \in Agents, task[a] # Absent
  PROVE  Resumed(a) \in Works
<1>1. task[a].index \in 0..Len(Blueprint)
  BY DEF WorkInv, WorkTypeOK, Task
<1>2. /\ blocks \in [Cells -> Blocks] /\ belts \in [Cells -> {-1, 1, Absent}]
      /\ switches \in [Cells -> {"ON", "OFF", Absent}] /\ g \in Sound
      /\ inv[a] \in Bundle /\ bill[a] \in Bundle /\ credit[a] \in Counts /\ supply \in Counts
  BY DEF WorkInv, WorkTypeOK, Counts
<1> QED
  BY <1>1, <1>2 DEF Works, Resumed

LEMMA ChargeSound ==
  ASSUME WorkInv, NEW a \in Agents, Len(Blueprint) > 0,
         NEW usable \in SUBSET {p \in Cells : g.box[p] # Absent}
  PROVE  /\ Charge(a, usable).g \in Sound /\ Charge(a, usable).g.next = g.next
         /\ Charge(a, usable).inv \in Counts
         /\ \A x \in Items : OnGround(Charge(a, usable).g, x) + Charge(a, usable).inv[x] + RemainingCost[x]
                              = OnGround(g, x) + inv[a][x]
<1>1. g \in Sound /\ inv[a] \in Bundle
  BY DEF WorkInv, WorkTypeOK
<1>2. PICK p0 : p0 = [g |-> g, inv |-> inv[a]]
  OBVIOUS
<1>3. PICK p : p = IF \A x \in Items : inv[a][x] >= RemainingCost[x] THEN p0
                   ELSE EnsureBlueprintMaterials(g, inv[a], RemainingCost, Anchor, Candidates(g, usable))
  OBVIOUS
<1>4. Charge(a, usable) = [p EXCEPT !.inv = Minus(p.inv, RemainingCost)]
  BY <1>2, <1>3 DEF Charge
<1>5. p0 \in Pots /\ p0.g = g /\ p0.inv = inv[a] /\ p0 \in PulledFrom(p0)
  <2>1. p0 \in Pots
    BY <1>1, <1>2 DEF Pots
  <2> QED
    BY <2>1, <1>2, PulledFacts
<1>6. p \in PulledFrom(p0)
  <2>1. CASE \A x \in Items : inv[a][x] >= RemainingCost[x]
    BY <2>1, <1>3, <1>5
  <2>2. CASE ~(\A x \in Items : inv[a][x] >= RemainingCost[x])
    <3>1. Anchor \in Cells
      <4>1. 1 \in Parts
        BY BlueprintFacts
      <4> QED
        BY <4>1, BlueprintFacts DEF Anchor
    <3>2. Candidates(g, usable) \in SUBSET Cells /\ \A c \in Candidates(g, usable) : g.box[c] # Absent
      BY DEF Candidates
    <3>3. RemainingCost \in Bundle
      BY CostFacts
    <3> QED
      BY <3>1, <3>2, <3>3, <2>2, <1>1, <1>2, <1>3, MaterialsSound
  <2> QED
    BY <2>1, <2>2
<1>7. p \in Pots /\ p.g \in Sound /\ p.inv \in Bundle /\ p.g.next = g.next
  BY <1>5, <1>6, PulledFacts DEF PulledFrom
<1>8. PICK m : m = Minus(p.inv, RemainingCost)
  OBVIOUS
<1>9. Charge(a, usable).g = p.g /\ Charge(a, usable).inv = m
  BY <1>4, <1>7, <1>8 DEF Pots
<1>10. ASSUME NEW x \in Items
       PROVE  m[x] = p.inv[x] - RemainingCost[x] /\ p.inv[x] \in Nat /\ RemainingCost[x] \in Nat
  BY <1>7, <1>8, BundleFacts, CostFacts DEF Minus
<1>11. m \in Counts
  <2>1. m = [x \in Items |-> p.inv[x] - RemainingCost[x]]
    BY <1>8 DEF Minus
  <2> QED
    BY <2>1, <1>10 DEF Counts
<1>12. ASSUME NEW x \in Items
       PROVE  OnGround(p.g, x) + m[x] + RemainingCost[x] = OnGround(g, x) + inv[a][x]
  <2>1. OnGround(p.g, x) + p.inv[x] = OnGround(g, x) + inv[a][x]
    BY <1>5, <1>6 DEF PulledFrom
  <2>2. OnGround(p.g, x) \in Int
    BY <1>7, OnGroundType
  <2> QED
    BY <2>1, <2>2, <1>10
<1> QED
  BY <1>7, <1>9, <1>11, <1>12

-----------------------------------------------------------------------------
(* The steps, part by part                                                 *)

Held(inventory, bills, x) == ByAgent([a \in Agents |-> inventory[a][x] + bills[a][x]])

LEMMA HeldType ==
  ASSUME NEW I \in [Agents -> Bundle], NEW B \in [Agents -> Bundle], NEW x \in Items
  PROVE  Held(I, B, x) \in Int
<1>1. PICK f : f = [a \in Agents |-> I[a][x] + B[a][x]]
  OBVIOUS
<1>2. f \in [Agents -> Int]
  BY <1>1, BundleFacts
<1> QED
  BY <1>1, <1>2, ByAgentType DEF Held

LEMMA InvFacts ==
  ASSUME WorkInv
  PROVE  /\ tick \in 0..MaxTick /\ turn \in 0..Len(AgentOrder) + 2 /\ ops \in 0..MaxOps
         /\ blocks \in [Cells -> Blocks] /\ belts \in [Cells -> {-1, 1, Absent}]
         /\ switches \in [Cells -> {"ON", "OFF", Absent}]
         /\ g \in Sound /\ g.next <= MaxItems
         /\ inv \in [Agents -> Bundle] /\ task \in [Agents -> Task \cup {Absent}]
         /\ bill \in [Agents -> Bundle] /\ credit \in [Agents -> Counts] /\ supply \in Counts
         /\ \A a \in Agents, x \in Items : credit[a][x] >= 0
         /\ BuildState
  BY GroundAssumption DEF WorkInv, WorkTypeOK, ItemsConserved, Counts

LEMMA HoldersChange ==
  ASSUME WorkInv, inv' \in [Agents -> Bundle], bill' \in [Agents -> Bundle], NEW a \in Agents,
         \A b \in Agents : b # a => inv'[b] = inv[b] /\ bill'[b] = bill[b], NEW x \in Items
  PROVE  Held(inv', bill', x) = Held(inv, bill, x) + (inv'[a][x] + bill'[a][x]) - (inv[a][x] + bill[a][x])
<1>1. PICK f : f = [b \in Agents |-> inv[b][x] + bill[b][x]]
  OBVIOUS
<1>2. PICK h : h = [b \in Agents |-> inv'[b][x] + bill'[b][x]]
  OBVIOUS
<1>3. f \in [Agents -> Int]
  BY <1>1, InvFacts, BundleFacts
<1>4. h \in [Agents -> Int]
  BY <1>2, BundleFacts
<1>5. \A b \in Agents : b # a => h[b] = f[b]
  BY <1>1, <1>2
<1>6. ByAgent(h) = ByAgent(f) + h[a] - f[a]
  BY <1>3, <1>4, <1>5, ByAgentChange
<1>7. h[a] = inv'[a][x] + bill'[a][x] /\ f[a] = inv[a][x] + bill[a][x]
  BY <1>1, <1>2
<1>8. Held(inv', bill', x) = ByAgent(h) /\ Held(inv, bill, x) = ByAgent(f)
  BY <1>1, <1>2 DEF Held
<1> QED
  BY <1>6, <1>7, <1>8

\* The parts of the invariant after a step, the counts as a balance of what the
\* step changes.
LEMMA Assembled ==
  ASSUME WorkInv,
         tick' \in 0..MaxTick, turn' \in 0..Len(AgentOrder) + 2, ops' \in 0..MaxOps,
         blocks' \in [Cells -> Blocks], belts' \in [Cells -> {-1, 1, Absent}],
         switches' \in [Cells -> {"ON", "OFF", Absent}],
         g' \in Sound, g'.next <= MaxItems,
         inv' \in [Agents -> Bundle], task' \in [Agents -> Task \cup {Absent}],
         bill' \in [Agents -> Bundle], credit' \in [Agents -> Counts], supply' \in Counts,
         \A a \in Agents, x \in Items : credit'[a][x] >= 0,
         \A x \in Items :
           Standing(blocks', x) + OnGround(g', x) + Held(inv', bill', x) - supply'[x]
             = Standing(blocks, x) + OnGround(g, x) + Held(inv, bill, x) - supply[x],
         BuildState'
  PROVE  WorkInv'
<1>1. ASSUME NEW x \in Items PROVE Total(blocks', g', inv', bill', x) = supply'[x]
  <2>1. /\ Standing(blocks', x) \in Int /\ OnGround(g', x) \in Int /\ Held(inv', bill', x) \in Int /\ supply'[x] \in Int
        /\ Standing(blocks, x) \in Int /\ OnGround(g, x) \in Int /\ Held(inv, bill, x) \in Int /\ supply[x] \in Int
    BY InvFacts, StandingType, OnGroundType, HeldType DEF Counts
  <2>2. Total(blocks, g, inv, bill, x) = supply[x]
    BY DEF WorkInv, ItemsConserved
  <2>3. Total(blocks, g, inv, bill, x) = Standing(blocks, x) + OnGround(g, x) + Held(inv, bill, x)
    BY DEF Total, Standing, Held
  <2>4. Total(blocks', g', inv', bill', x) = Standing(blocks', x) + OnGround(g', x) + Held(inv', bill', x)
    BY DEF Total, Standing, Held
  <2>5. Standing(blocks', x) + OnGround(g', x) + Held(inv', bill', x) - supply'[x]
          = Standing(blocks, x) + OnGround(g, x) + Held(inv, bill, x) - supply[x]
    OBVIOUS
  <2>6. PICK b \in Int, o \in Int, h \in Int, s \in Int :
          b = Standing(blocks', x) /\ o = OnGround(g', x) /\ h = Held(inv', bill', x) /\ s = supply'[x]
    BY <2>1
  <2>7. PICK b0 \in Int, o0 \in Int, h0 \in Int, s0 \in Int :
          b0 = Standing(blocks, x) /\ o0 = OnGround(g, x) /\ h0 = Held(inv, bill, x) /\ s0 = supply[x]
    BY <2>1
  <2>8. b + o + h - s = b0 + o0 + h0 - s0 /\ b0 + o0 + h0 = s0
    BY <2>2, <2>3, <2>5, <2>6, <2>7
  <2>9. b + o + h = s
    BY <2>8
  <2> QED
    BY <2>4, <2>6, <2>9
<1>2. ItemsConserved'
  BY <1>1 DEF ItemsConserved
<1>3. WorkTypeOK'
  <2>1. /\ g'.items \in [ItemIds -> Entity \cup {Absent}] /\ g'.at \in [Cells -> Seq(ItemIds)]
        /\ g'.box \in [Cells -> Container \cup {Absent}] /\ g'.next \in 0..MaxItems
    BY SoundFacts, GroundAssumption
  <2> QED
    BY <2>1 DEF WorkTypeOK, Counts
<1> QED
  BY <1>2, <1>3 DEF WorkInv

LEMMA RequestFacts ==
  ASSUME NEW r \in Requests
  PROVE  /\ r.kind = "MINE" => r.pos \in Cells
         /\ r.kind = "GATHER" => r.id \in ItemIds
         /\ r.kind = "PLACE" => r.pos \in Cells /\ r.item \in Items
         /\ r.kind = "TRANSFER" => r.src \in Store /\ r.dst \in Store /\ r.item \in Items /\ r.n \in Nat
         /\ r.kind = "CRAFT" => r.recipe \in DOMAIN Recipes /\ r.n \in Nat
<1>1. r \in Request
  BY WorkAssumption
<1> QED
  BY <1>1 DEF Request

LEMMA TaskFacts ==
  ASSUME WorkInv, NEW a \in Agents, task[a] # Absent
  PROVE  /\ task[a] \in Task
         /\ task[a].req \in Requests /\ task[a].ticks \in Nat /\ task[a].left \in Nat
         /\ task[a].index \in 0..Len(Blueprint)
BY InvFacts DEF Task

\* An agent that builds nothing has paid nothing.
LEMMA NothingPaid ==
  ASSUME WorkInv, NEW a \in Agents, task[a] = Absent \/ task[a].req.kind # "BUILD" \/ task[a].index = 0
  PROVE  bill[a] = Nothing /\ (task[a] # Absent => task[a].index = 0)
BY DEF WorkInv, BuildState

LEMMA BuildsKept ==
  ASSUME WorkInv, NEW a \in Agents, bill' = bill, credit' = credit, bill[a] = Nothing,
         \A b \in Agents : b # a => task'[b] = task[b], task'[a] # Absent => task'[a].index = 0
  PROVE  BuildState'
BY DEF WorkInv, BuildState

\* A step of the clock, or of one task.
LEMMA OnlyWork ==
  ASSUME WorkInv, tick' = tick, turn' \in 0..Len(AgentOrder) + 2, ops' \in 0..MaxOps,
         UNCHANGED <<site, g, inv, books>>, task' \in [Agents -> Task \cup {Absent}], BuildState'
  PROVE  WorkInv'
BY InvFacts, Assembled DEF site, books

LEMMA OperationFacts ==
  ASSUME WorkInv, Boundary, Operation
  PROVE  tick' = tick /\ turn' \in 0..Len(AgentOrder) + 2 /\ ops' \in 0..MaxOps
BY InvFacts, WorkAssumption DEF Boundary, Operation

LEMMA TurnFacts ==
  ASSUME WorkInv, NEW a, NEW kind, Turn(a, kind)
  PROVE  /\ a \in Agents /\ task[a] # Absent /\ task[a].req.kind = kind /\ task[a].req \in Requests
         /\ tick' = tick /\ turn' \in 0..Len(AgentOrder) + 2 /\ ops' \in 0..MaxOps
<1>1. Len(AgentOrder) \in Nat /\ turn \in 1..Len(AgentOrder) /\ a = AgentOrder[turn] /\ turn' = turn + 1
  BY AgentOrderFacts DEF Turn
<1>2. a \in Agents
  BY <1>1, AgentOrderFacts
<1> QED
  BY <1>1, <1>2, InvFacts, TaskFacts DEF Turn

LEMMA EndsFacts ==
  ASSUME WorkInv, NEW a \in Agents, Ends(a)
  PROVE  /\ task' \in [Agents -> Task \cup {Absent}] /\ task'[a] = Absent
         /\ \A b \in Agents : b # a => task'[b] = task[b]
BY InvFacts DEF Ends

-----------------------------------------------------------------------------
(* Acts and tasks                                                          *)

LEMMA AskKeeps ==
  ASSUME WorkInv, NEW a \in Agents, NEW r \in Requests, Ask(a, r)
  PROVE  WorkInv'
<1>1. task[a] = Absent /\ bill[a] = Nothing /\ Boundary /\ Operation
  BY NothingPaid DEF Ask
<1>2. PICK t : t = [req |-> r, ticks |-> 0, index |-> 0, left |-> IF r.kind = "CRAFT" THEN r.n ELSE 0]
  OBVIOUS
<1>3. t \in Task /\ t.index = 0
  <2>1. (IF r.kind = "CRAFT" THEN r.n ELSE 0) \in Nat
    BY RequestFacts
  <2>2. 0 \in 0..Len(Blueprint)
    BY BlueprintFacts
  <2> QED
    BY <1>2, <2>1, <2>2 DEF Task
<1>4. task' = [task EXCEPT ![a] = t]
  BY <1>2 DEF Ask
<1>5. task' \in [Agents -> Task \cup {Absent}] /\ task'[a] = t /\ \A b \in Agents : b # a => task'[b] = task[b]
  BY <1>3, <1>4, InvFacts
<1>6. UNCHANGED <<site, g, inv, books>> /\ bill' = bill /\ credit' = credit
  BY DEF Ask, books
<1>7. BuildState'
  BY <1>1, <1>3, <1>5, <1>6, BuildsKept
<1> QED
  BY <1>1, <1>5, <1>6, <1>7, OperationFacts, OnlyWork

LEMMA ToggleKeeps ==
  ASSUME WorkInv, NEW p \in Cells, ToggleSwitch(p)
  PROVE  WorkInv'
<1>1. tick' = tick /\ turn' \in 0..Len(AgentOrder) + 2 /\ ops' \in 0..MaxOps
  BY OperationFacts DEF ToggleSwitch
<1>2. switches' \in [Cells -> {"ON", "OFF", Absent}]
  BY InvFacts DEF ToggleSwitch
<1>3. blocks' = blocks /\ belts' = belts /\ g' = g /\ inv' = inv /\ task' = task /\ bill' = bill
      /\ credit' = credit /\ supply' = supply
  BY DEF ToggleSwitch, books
<1>4. BuildState'
  BY <1>3 DEF WorkInv, BuildState
<1> QED
  BY <1>1, <1>2, <1>3, <1>4, InvFacts, Assembled

LEMMA RestsKeeps ==
  ASSUME WorkInv, StartWork \/ Rests
  PROVE  WorkInv'
<1>1. UNCHANGED <<tick, ops, site, g, inv, task, books>> /\ turn' \in 0..Len(AgentOrder) + 2
  BY InvFacts, AgentOrderFacts DEF StartWork, Rests
<1>2. BuildState'
  BY <1>1 DEF WorkInv, BuildState, books
<1> QED
  BY <1>1, <1>2, InvFacts, OnlyWork

LEMMA TaskGoesOn ==
  ASSUME WorkInv, NEW a, NEW kind, kind # "BUILD", Turn(a, kind), UNCHANGED <<site, g, inv, books>>,
         task' = task \/ task' = [task EXCEPT ![a].ticks = @ + 1]
  PROVE  WorkInv'
<1>1. /\ a \in Agents /\ task[a] # Absent /\ tick' = tick
      /\ turn' \in 0..Len(AgentOrder) + 2 /\ ops' \in 0..MaxOps
      /\ bill[a] = Nothing /\ task[a].index = 0
  BY TurnFacts, NothingPaid
<1>2. PICK t : t = [task[a] EXCEPT !.ticks = task[a].ticks + 1]
  OBVIOUS
<1>3. t \in Task /\ t.index = 0
  BY <1>1, <1>2, TaskFacts DEF Task
<1>4. task' \in [Agents -> Task \cup {Absent}] /\ (\A b \in Agents : b # a => task'[b] = task[b]) /\ task'[a].index = 0
  <2>1. CASE task' = task
    BY <1>1, <2>1, InvFacts
  <2>2. CASE task' = [task EXCEPT ![a].ticks = @ + 1]
    <3>1. task' = [task EXCEPT ![a] = t]
      BY <1>1, <1>2, <2>2, InvFacts
    <3> QED
      BY <1>1, <1>3, <3>1, InvFacts
  <2> QED
    BY <2>1, <2>2
<1>5. BuildState'
  BY <1>1, <1>4, BuildsKept DEF books
<1> QED
  BY <1>1, <1>4, <1>5, OnlyWork

LEMMA DoneKeeps ==
  ASSUME WorkInv, NEW a, BuildDone(a)
  PROVE  WorkInv'
<1>1. /\ a \in Agents /\ task[a].index = 0 /\ tick' = tick
      /\ turn' \in 0..Len(AgentOrder) + 2 /\ ops' \in 0..MaxOps /\ Ends(a)
      /\ UNCHANGED <<site, g, inv, books>>
  BY TurnFacts DEF BuildDone
<1>2. bill[a] = Nothing
  BY <1>1, NothingPaid
<1>3. BuildState'
  BY <1>1, <1>2, EndsFacts, BuildsKept DEF books
<1> QED
  BY <1>1, <1>3, EndsFacts, OnlyWork

LEMMA NothingFacts ==
  Nothing \in Bundle /\ Nothing \in Counts /\ \A x \in Items : Nothing[x] = 0
BY DEF Nothing, Bundle, Counts

LEMMA FailsKeeps ==
  ASSUME WorkInv, NEW a, TaskFails(a)
  PROVE  WorkInv'
<1>1. /\ a \in Agents /\ tick' = tick
      /\ turn' \in 0..Len(AgentOrder) + 2 /\ ops' \in 0..MaxOps
  BY TurnFacts DEF TaskFails
<1>2. /\ supply' = Minus(supply, bill[a]) /\ bill' = [bill EXCEPT ![a] = Nothing]
      /\ credit' = [credit EXCEPT ![a] = Nothing] /\ blocks' = blocks /\ belts' = belts /\ switches' = switches
      /\ g' = g /\ inv' = inv /\ Ends(a)
  BY DEF TaskFails, site
<1>3. bill' \in [Agents -> Bundle] /\ bill'[a] = Nothing /\ \A b \in Agents : b # a => bill'[b] = bill[b]
  BY <1>1, <1>2, InvFacts, NothingFacts
<1>4. credit' \in [Agents -> Counts] /\ credit'[a] = Nothing /\ \A b \in Agents : b # a => credit'[b] = credit[b]
  BY <1>1, <1>2, InvFacts, NothingFacts
<1>5. \A b \in Agents, x \in Items : credit'[b][x] >= 0
  BY <1>4, InvFacts, NothingFacts
<1>6. \A x \in Items : supply'[x] = supply[x] - bill[a][x] /\ supply[x] \in Int /\ bill[a][x] \in Nat
  BY <1>1, <1>2, InvFacts, BundleFacts DEF Minus, Counts
<1>7. supply' \in Counts
  <2>1. supply' = [x \in Items |-> supply[x] - bill[a][x]]
    BY <1>2 DEF Minus
  <2> QED
    BY <2>1, <1>6 DEF Counts
<1>8. ASSUME NEW x \in Items
      PROVE  Standing(blocks', x) + OnGround(g', x) + Held(inv', bill', x) - supply'[x]
               = Standing(blocks, x) + OnGround(g, x) + Held(inv, bill, x) - supply[x]
  <2>1. Held(inv', bill', x) = Held(inv, bill, x) + (inv'[a][x] + bill'[a][x]) - (inv[a][x] + bill[a][x])
    BY <1>1, <1>2, <1>3, InvFacts, HoldersChange
  <2>2. inv'[a][x] = inv[a][x] /\ bill'[a][x] = 0 /\ inv[a][x] \in Nat
    BY <1>1, <1>2, <1>3, InvFacts, BundleFacts, NothingFacts
  <2>3. Standing(blocks, x) \in Int /\ OnGround(g, x) \in Int /\ Held(inv, bill, x) \in Int
    BY InvFacts, StandingType, OnGroundType, HeldType
  <2>4. Standing(blocks', x) = Standing(blocks, x) /\ OnGround(g', x) = OnGround(g, x)
    BY <1>2
  <2> QED
    BY <2>1, <2>2, <2>3, <2>4, <1>6
<1>9. BuildState'
  BY <1>1, <1>2, <1>3, <1>4, EndsFacts DEF WorkInv, BuildState
<1> QED
  BY <1>1, <1>2, <1>3, <1>4, <1>5, <1>7, <1>8, <1>9, EndsFacts, InvFacts, Assembled

-----------------------------------------------------------------------------
(* Contracts, and the director                                             *)

OwedBy(c, x) == ByAgent([a \in Agents |-> c.owed[a][x]])

LEMMA KeptParts ==
  ASSUME NEW c \in Container, NEW x \in Items
  PROVE  Kept(c, x) = c.stock[x] + OwedBy(c, x) /\ OwedBy(c, x) \in Int /\ c.stock[x] \in Nat
<1>1. PICK f : f = [a \in Agents |-> c.owed[a][x]]
  OBVIOUS
<1>2. f \in [Agents -> Int]
  BY <1>1, ContainerFacts, BundleFacts
<1>3. ByAgent(f) \in Int
  BY <1>2, ByAgentType
<1>4. c # Absent /\ c.stock[x] \in Nat
  BY ContainerFacts, BundleFacts
<1> QED
  BY <1>1, <1>3, <1>4 DEF Kept, OwedBy

LEMMA OwedChange ==
  ASSUME NEW c \in Container, NEW d \in Container, NEW a \in Agents,
         \A b \in Agents : b # a => d.owed[b] = c.owed[b], NEW x \in Items
  PROVE  OwedBy(d, x) = OwedBy(c, x) + d.owed[a][x] - c.owed[a][x]
<1>1. PICK f : f = [b \in Agents |-> c.owed[b][x]]
  OBVIOUS
<1>2. PICK h : h = [b \in Agents |-> d.owed[b][x]]
  OBVIOUS
<1>3. f \in [Agents -> Int]
  BY <1>1, ContainerFacts, BundleFacts
<1>4. h \in [Agents -> Int]
  BY <1>2, ContainerFacts, BundleFacts
<1>5. \A b \in Agents : b # a => h[b] = f[b]
  BY <1>1, <1>2
<1>6. ByAgent(h) = ByAgent(f) + h[a] - f[a]
  BY <1>3, <1>4, <1>5, ByAgentChange
<1>7. h[a] = d.owed[a][x] /\ f[a] = c.owed[a][x]
  BY <1>1, <1>2
<1> QED
  BY <1>1, <1>2, <1>6, <1>7 DEF OwedBy

Put(h, p, c) == [h EXCEPT !.box = [h.box EXCEPT ![p] = c]]

\* What an agent and a container exchange.
LEMMA ExchangeKeeps ==
  ASSUME WorkInv, Boundary, Operation, UNCHANGED <<site, task, books>>,
         NEW a \in Agents, NEW p \in Cells, NEW c \in Container, c = g.box[p], NEW d \in Container,
         \A x \in Items : d.reserved[x] <= d.stock[x],
         \A b \in Agents : b # a => d.owed[b] = c.owed[b],
         g' = Put(g, p, d), inv' \in [Agents -> Bundle], \A b \in Agents : b # a => inv'[b] = inv[b],
         \A x \in Items : d.stock[x] + d.owed[a][x] + inv'[a][x] = c.stock[x] + c.owed[a][x] + inv[a][x]
  PROVE  WorkInv'
<1>1. /\ blocks' = blocks /\ belts' = belts /\ switches' = switches /\ task' = task
      /\ bill' = bill /\ credit' = credit /\ supply' = supply
  BY DEF site, books
<1>2. PICK k : k = [g EXCEPT !.box = [g.box EXCEPT ![p] = d]]
  OBVIOUS
<1>3. k \in Sound /\ \A x \in Items : OnGround(k, x) = OnGround(g, x) + Kept(d, x) - Kept(c, x)
  BY <1>2, InvFacts, PutSound
<1>4. k.next = g.next /\ g' = k
  BY <1>2, InvFacts, SoundFacts DEF Put
<1>6. ASSUME NEW x \in Items
      PROVE  Standing(blocks', x) + OnGround(g', x) + Held(inv', bill', x) - supply'[x]
               = Standing(blocks, x) + OnGround(g, x) + Held(inv, bill, x) - supply[x]
  <2>1. Held(inv', bill', x) = Held(inv, bill, x) + (inv'[a][x] + bill'[a][x]) - (inv[a][x] + bill[a][x])
    BY <1>1, InvFacts, HoldersChange
  <2>2. PICK ix \in Nat, ex \in Nat, bx \in Nat : ix = inv[a][x] /\ ex = inv'[a][x] /\ bx = bill[a][x]
    BY InvFacts, BundleFacts
  <2>3. PICK cs \in Nat, ds \in Nat, co \in Nat, do \in Nat :
          cs = c.stock[x] /\ ds = d.stock[x] /\ co = c.owed[a][x] /\ do = d.owed[a][x]
    BY ContainerFacts, BundleFacts
  <2>4. PICK oc \in Int, od \in Int : oc = OwedBy(c, x) /\ od = OwedBy(d, x)
    BY KeptParts
  <2>5. PICK b \in Int, o \in Int, h \in Int, s \in Int :
          b = Standing(blocks, x) /\ o = OnGround(g, x) /\ h = Held(inv, bill, x) /\ s = supply[x]
    <3>1. supply[x] \in Int
      BY InvFacts DEF Counts
    <3>2. Standing(blocks, x) \in Int /\ OnGround(g, x) \in Int /\ Held(inv, bill, x) \in Int
      BY InvFacts, StandingType, OnGroundType, HeldType
    <3> QED
      BY <3>1, <3>2
  <2>6. Kept(c, x) = cs + oc /\ Kept(d, x) = ds + od
    BY <2>3, <2>4, KeptParts
  <2>7. od = oc + do - co
    BY <2>3, <2>4, OwedChange
  <2>8. OnGround(g', x) = o + (ds + od) - (cs + oc)
    BY <1>3, <1>4, <2>5, <2>6
  <2>9. Held(inv', bill', x) = h + (ex + bx) - (ix + bx)
    BY <1>1, <2>1, <2>2, <2>5
  <2>10. ds + do + ex = cs + co + ix
    BY <2>2, <2>3
  <2>11. b + (o + (ds + od) - (cs + oc)) + (h + (ex + bx) - (ix + bx)) - s = b + o + h - s
    BY <2>7, <2>10
  <2> QED
    BY <1>1, <2>5, <2>8, <2>9, <2>11
<1>7. BuildState'
  BY <1>1 DEF WorkInv, BuildState
<1> QED
  BY <1>1, <1>3, <1>4, <1>6, <1>7, InvFacts, OperationFacts, Assembled

LEMMA TerminalFacts ==
  ASSUME WorkInv, NEW p \in Cells, Terminal(p)
  PROVE  g.box[p] \in Container /\ \A x \in Items : g.box[p].reserved[x] <= g.box[p].stock[x]
BY InvFacts, SoundFacts DEF Terminal, Backed

LEMMA ReserveFacts ==
  ASSUME NEW c \in Container, \A y \in Items : c.reserved[y] <= c.stock[y],
         NEW x \in Items, NEW n \in Int, c.reserved[x] + n >= 0
  PROVE  /\ Reserve(c, x, n) \in Container /\ Reserve(c, x, n).owed = c.owed
         /\ \A y \in Items : /\ Reserve(c, x, n).reserved[y] <= Reserve(c, x, n).stock[y]
                             /\ Reserve(c, x, n).stock[y] = c.stock[y] + (IF y = x THEN n ELSE 0)
<1>1. \A y \in Items : c.stock[y] \in Nat /\ c.reserved[y] \in Nat
  BY ContainerFacts, BundleFacts
<1>2. PICK s : s = [c.stock EXCEPT ![x] = c.stock[x] + n]
  OBVIOUS
<1>3. PICK r : r = [c.reserved EXCEPT ![x] = c.reserved[x] + n]
  OBVIOUS
<1>4. /\ \A y \in Items : s[y] = c.stock[y] + (IF y = x THEN n ELSE 0)
      /\ \A y \in Items : r[y] = c.reserved[y] + (IF y = x THEN n ELSE 0)
  BY <1>1, <1>2, <1>3, ContainerFacts DEF Bundle
<1>5. c.stock[x] + n \in Nat /\ c.reserved[x] + n \in Nat
  BY <1>1
<1>6. s \in Bundle /\ r \in Bundle
  BY <1>2, <1>3, <1>5, ContainerFacts DEF Bundle
<1>7. Reserve(c, x, n) = [type |-> c.type, stock |-> s, reserved |-> r, owed |-> c.owed]
  <2>1. Reserve(c, x, n) = [c EXCEPT !.stock = s, !.reserved = r]
    BY <1>2, <1>3, ContainerFacts DEF Reserve
  <2> QED
    BY <2>1, ContainerFacts DEF Container
<1>8. \A y \in Items : r[y] <= s[y]
  BY <1>1, <1>4
<1> QED
  BY <1>4, <1>6, <1>7, <1>8, ContainerFacts DEF Container

LEMMA StakeKeeps ==
  ASSUME WorkInv, NEW a \in Agents, NEW p \in Cells, NEW x \in Items, Stake(a, p, x)
  PROVE  WorkInv'
<1>1. Boundary /\ Operation /\ Terminal(p) /\ inv[a][x] > 0 /\ UNCHANGED <<site, task, books>>
  BY DEF Stake
<1>2. PICK c \in Container : c = g.box[p] /\ \A y \in Items : c.reserved[y] <= c.stock[y]
  BY <1>1, TerminalFacts
<1>3. PICK d : d = Reserve(c, x, 1)
  OBVIOUS
<1>4. /\ d \in Container /\ d.owed = c.owed
      /\ \A y \in Items : d.reserved[y] <= d.stock[y] /\ d.stock[y] = c.stock[y] + (IF y = x THEN 1 ELSE 0)
  <2>1. c.reserved[x] \in Nat
    BY ContainerFacts, BundleFacts
  <2>2. c.reserved[x] + 1 >= 0
    BY <2>1
  <2> QED
    BY <1>2, <1>3, <2>2, ReserveFacts
<1>5. PICK e : e = [inv[a] EXCEPT ![x] = inv[a][x] - 1]
  OBVIOUS
<1>6. inv[a] \in Bundle /\ \A y \in Items : inv[a][y] \in Nat
  BY InvFacts, BundleFacts
<1>7. e \in Bundle /\ \A y \in Items : e[y] = inv[a][y] - (IF y = x THEN 1 ELSE 0)
  BY <1>1, <1>5, <1>6 DEF Bundle
<1>8. inv' \in [Agents -> Bundle] /\ inv'[a] = e /\ \A b \in Agents : b # a => inv'[b] = inv[b]
  <2>1. inv' = [inv EXCEPT ![a] = e]
    BY <1>5, InvFacts DEF Stake
  <2> QED
    BY <2>1, <1>7, InvFacts
<1>9. g' = Put(g, p, d)
  BY <1>2, <1>3, InvFacts, SoundFacts DEF Stake, Put
<1>10. ASSUME NEW y \in Items
       PROVE  d.stock[y] + d.owed[a][y] + inv'[a][y] = c.stock[y] + c.owed[a][y] + inv[a][y]
  <2>1. c.stock[y] \in Nat /\ c.owed[a][y] \in Nat /\ inv[a][y] \in Nat
    BY <1>6, ContainerFacts, BundleFacts
  <2> QED
    BY <2>1, <1>4, <1>7, <1>8
<1> QED
  BY <1>1, <1>2, <1>4, <1>8, <1>9, <1>10, ExchangeKeeps

LEMMA SettleKeeps ==
  ASSUME WorkInv, NEW a \in Agents, NEW p \in Cells, NEW x \in Items, Settle(a, p, x)
  PROVE  WorkInv'
<1>1. Boundary /\ Operation /\ Terminal(p) /\ g.box[p].reserved[x] > 0 /\ UNCHANGED <<site, task, books>>
  BY DEF Settle
<1>2. PICK c \in Container : c = g.box[p] /\ \A y \in Items : c.reserved[y] <= c.stock[y]
  BY <1>1, TerminalFacts
<1>3. PICK d : d = Reserve(c, x, -1)
  OBVIOUS
<1>4. /\ d \in Container /\ d.owed = c.owed
      /\ \A y \in Items : d.reserved[y] <= d.stock[y] /\ d.stock[y] = c.stock[y] + (IF y = x THEN -1 ELSE 0)
  <2>1. c.reserved[x] \in Nat /\ c.reserved[x] > 0
    BY <1>1, <1>2, ContainerFacts, BundleFacts
  <2>2. -1 \in Int /\ c.reserved[x] + -1 >= 0
    BY <2>1
  <2> QED
    BY <1>2, <1>3, <2>2, ReserveFacts
<1>5. inv[a] \in Bundle /\ \A y \in Items : inv[a][y] \in Nat
  BY InvFacts, BundleFacts
<1>6. CASE g' = [g EXCEPT !.box[p] = Reserve(@, x, -1)] /\ inv' = [inv EXCEPT ![a][x] = @ + 1]
  <2>1. PICK e : e = [inv[a] EXCEPT ![x] = inv[a][x] + 1]
    OBVIOUS
  <2>2. e \in Bundle /\ \A y \in Items : e[y] = inv[a][y] + (IF y = x THEN 1 ELSE 0)
    BY <2>1, <1>5 DEF Bundle
  <2>3. inv' \in [Agents -> Bundle] /\ inv'[a] = e /\ \A b \in Agents : b # a => inv'[b] = inv[b]
    <3>1. inv' = [inv EXCEPT ![a] = e]
      BY <2>1, <1>6, InvFacts
    <3> QED
      BY <3>1, <2>2, InvFacts
  <2>4. g' = Put(g, p, d)
    BY <1>2, <1>3, <1>6, InvFacts, SoundFacts DEF Put
  <2>5. ASSUME NEW y \in Items
        PROVE  d.stock[y] + d.owed[a][y] + inv'[a][y] = c.stock[y] + c.owed[a][y] + inv[a][y]
    <3>1. c.stock[y] \in Nat /\ c.owed[a][y] \in Nat /\ inv[a][y] \in Nat
      BY <1>5, ContainerFacts, BundleFacts
    <3> QED
      BY <3>1, <1>4, <2>2, <2>3
  <2> QED
    BY <1>1, <1>2, <1>4, <2>3, <2>4, <2>5, ExchangeKeeps
<1>7. CASE g' = [g EXCEPT !.box[p] = Owing(Reserve(@, x, -1), a, x)] /\ inv' = inv
  <2>1. PICK w : w = [c.owed[a] EXCEPT ![x] = c.owed[a][x] + 1]
    OBVIOUS
  <2>2. w \in Bundle /\ \A y \in Items : w[y] = c.owed[a][y] + (IF y = x THEN 1 ELSE 0)
    <3>1. c.owed[a] \in Bundle /\ \A y \in Items : c.owed[a][y] \in Nat
      BY ContainerFacts, BundleFacts
    <3> QED
      BY <2>1, <3>1 DEF Bundle
  <2>3. PICK o : o = [c.owed EXCEPT ![a] = w]
    OBVIOUS
  <2>4. o \in [Agents -> Bundle] /\ o[a] = w /\ \A b \in Agents : b # a => o[b] = c.owed[b]
    BY <2>2, <2>3, ContainerFacts
  <2>5. PICK l : l = [d EXCEPT !.owed = o]
    OBVIOUS
  <2>6. l \in Container /\ l.stock = d.stock /\ l.reserved = d.reserved /\ l.owed = o
    BY <1>4, <2>4, <2>5 DEF Container
  <2>7. g' = Put(g, p, l)
    <3>1. Owing(d, a, x) = l
      BY <1>4, <2>1, <2>3, <2>5, ContainerFacts DEF Owing
    <3>2. Owing(Reserve(c, x, -1), a, x) = l
      BY <3>1, <1>3
    <3> QED
      BY <3>2, <1>2, <1>7, InvFacts, SoundFacts DEF Put
  <2>8. inv' \in [Agents -> Bundle] /\ inv'[a] = inv[a] /\ \A b \in Agents : b # a => inv'[b] = inv[b]
    BY <1>7, InvFacts
  <2>9. ASSUME NEW y \in Items
        PROVE  l.stock[y] + l.owed[a][y] + inv'[a][y] = c.stock[y] + c.owed[a][y] + inv[a][y]
    <3>1. c.stock[y] \in Nat /\ c.owed[a][y] \in Nat /\ inv[a][y] \in Nat
      BY <1>5, ContainerFacts, BundleFacts
    <3> QED
      BY <3>1, <1>4, <2>2, <2>4, <2>6, <2>8
  <2> QED
    BY <1>1, <1>2, <1>4, <2>4, <2>6, <2>7, <2>8, <2>9, ExchangeKeeps
<1> QED
  BY <1>6, <1>7 DEF Settle

LEMMA PlusFacts ==
  ASSUME NEW b \in Bundle, NEW d \in Bundle
  PROVE  Plus(b, d) \in Bundle /\ \A x \in Items : Plus(b, d)[x] = b[x] + d[x]
BY BundleFacts DEF Plus, Bundle

LEMMA ClaimKeeps ==
  ASSUME WorkInv, NEW a \in Agents, NEW p \in Cells, ClaimOwed(a, p)
  PROVE  WorkInv'
<1>1. Boundary /\ Operation /\ Terminal(p) /\ UNCHANGED <<site, task, books>>
  BY DEF ClaimOwed
<1>2. PICK c \in Container : c = g.box[p] /\ \A y \in Items : c.reserved[y] <= c.stock[y]
  BY <1>1, TerminalFacts
<1>3. PICK o : o = [c.owed EXCEPT ![a] = Nothing]
  OBVIOUS
<1>4. o \in [Agents -> Bundle] /\ o[a] = Nothing /\ \A b \in Agents : b # a => o[b] = c.owed[b]
  BY <1>3, ContainerFacts, NothingFacts
<1>5. PICK d : d = [c EXCEPT !.owed = o]
  OBVIOUS
<1>6. d \in Container /\ d.stock = c.stock /\ d.reserved = c.reserved /\ d.owed = o
  BY <1>4, <1>5 DEF Container
<1>7. PICK e : e = Plus(inv[a], c.owed[a])
  OBVIOUS
<1>8. inv[a] \in Bundle /\ c.owed[a] \in Bundle
  BY InvFacts, ContainerFacts
<1>9. e \in Bundle /\ \A y \in Items : e[y] = inv[a][y] + c.owed[a][y]
  BY <1>7, <1>8, PlusFacts
<1>10. inv' \in [Agents -> Bundle] /\ inv'[a] = e /\ \A b \in Agents : b # a => inv'[b] = inv[b]
  <2>1. inv' = [inv EXCEPT ![a] = e]
    BY <1>2, <1>7, InvFacts DEF ClaimOwed
  <2> QED
    BY <2>1, <1>9, InvFacts
<1>11. g' = Put(g, p, d)
  <2>1. [c EXCEPT !.owed[a] = Nothing] = d
    BY <1>3, <1>5
  <2> QED
    BY <2>1, <1>2, InvFacts, SoundFacts DEF ClaimOwed, Put
<1>12. ASSUME NEW y \in Items
       PROVE  d.stock[y] + d.owed[a][y] + inv'[a][y] = c.stock[y] + c.owed[a][y] + inv[a][y]
  <2>1. c.stock[y] \in Nat /\ c.owed[a][y] \in Nat /\ inv[a][y] \in Nat
    BY <1>8, ContainerFacts, BundleFacts
  <2> QED
    BY <2>1, <1>4, <1>6, <1>9, <1>10, NothingFacts
<1> QED
  BY <1>1, <1>2, <1>4, <1>6, <1>10, <1>11, <1>12, ExchangeKeeps

LEMMA StockedSound ==
  ASSUME NEW h \in Sound, NEW p \in Cells, NEW c \in Container, c = h.box[p], NEW b \in Bundle,
         NEW d, d = [c EXCEPT !.stock = Plus(c.stock, b)]
  PROVE  /\ Put(h, p, d) \in Sound /\ Put(h, p, d).next = h.next
         /\ \A x \in Items : OnGround(Put(h, p, d), x) = OnGround(h, x) + b[x]
<1>1. \A x \in Items : c.stock[x] \in Nat /\ c.reserved[x] \in Nat /\ b[x] \in Nat /\ c.reserved[x] <= c.stock[x]
  BY SoundFacts, ContainerFacts, BundleFacts DEF Backed
<1>2. PICK s \in Bundle : s = Plus(c.stock, b) /\ \A x \in Items : s[x] = c.stock[x] + b[x]
  BY ContainerFacts, PlusFacts
<1>3. d \in Container /\ d.stock = s /\ d.reserved = c.reserved /\ d.owed = c.owed
  BY <1>2 DEF Container
<1>4. \A x \in Items : d.reserved[x] <= d.stock[x]
  BY <1>1, <1>2, <1>3
<1>5. /\ Put(h, p, d) \in Sound
      /\ \A x \in Items : OnGround(Put(h, p, d), x) = OnGround(h, x) + Kept(d, x) - Kept(c, x)
  BY <1>3, <1>4, PutSound DEF Put
<1>6. Put(h, p, d).next = h.next
  BY SoundFacts DEF Put
<1>7. ASSUME NEW x \in Items PROVE OnGround(Put(h, p, d), x) = OnGround(h, x) + b[x]
  <2>1. Kept(d, x) = d.stock[x] + OwedBy(d, x) /\ Kept(c, x) = c.stock[x] + OwedBy(c, x) /\ OwedBy(c, x) \in Int
    BY <1>3, KeptParts
  <2>2. OwedBy(d, x) = OwedBy(c, x)
    BY <1>3 DEF OwedBy
  <2>3. PICK cs \in Nat, bx \in Nat, o \in Int, h0 \in Int :
          cs = c.stock[x] /\ bx = b[x] /\ o = OwedBy(c, x) /\ h0 = OnGround(h, x)
    BY <1>1, <2>1, OnGroundType
  <2>4. d.stock[x] = cs + bx
    BY <1>2, <1>3, <2>3
  <2>5. OnGround(Put(h, p, d), x) = h0 + ((cs + bx) + o) - (cs + o)
    BY <1>5, <2>1, <2>2, <2>3, <2>4
  <2> QED
    BY <2>3, <2>5
<1> QED
  BY <1>5, <1>6, <1>7

LEMMA OfFacts ==
  ASSUME NEW b, NEW n \in Nat
  PROVE  Of(b, n) \in Bundle /\ \A x \in Items : Of(b, n)[x] = IF b = x THEN n ELSE 0
BY DEF Of, Bundle

LEMMA OverwriteKeeps ==
  ASSUME WorkInv, NEW p \in Cells, NEW b \in {"IRON_ORE", "CHEST"}, Overwrite(p, b)
  PROVE  WorkInv'
<1>1. /\ tick' = tick /\ turn' \in 0..Len(AgentOrder) + 2 /\ ops' \in 0..MaxOps
  BY OperationFacts DEF Overwrite
<1>2. /\ belts' = belts /\ switches' = switches /\ inv' = inv /\ task' = task /\ bill' = bill /\ credit' = credit
  BY DEF Overwrite
<1>3. b \in Items /\ b \in Blocks
  BY WorkAssumption DEF Blocks
<1>4. PICK bs \in [Cells -> Blocks] : bs = blocks
  BY InvFacts
<1>5. PICK cs \in [Cells -> Blocks] : cs = blocks' /\ cs[p] = b /\ \A q \in Cells : q # p => cs[q] = bs[q]
  BY <1>3, <1>4 DEF Overwrite
<1>6. PICK w \in Bundle : w = IF b = "CHEST" THEN StartStock ELSE Nothing
  BY NothingFacts, WorkAssumption
<1>7. /\ g' \in Sound /\ g'.next = g.next
      /\ \A x \in Items : OnGround(g', x) = OnGround(g, x) + w[x]
  <2>1. CASE b = "CHEST"
    <3>1. PICK k : k = EnsureContainer(g, p, b)
      OBVIOUS
    <3>2. /\ k \in Sound /\ k.next = g.next /\ k.box[p] # Absent
          /\ \A x \in Items : OnGround(k, x) = OnGround(g, x)
      <4>1. b \in ContainerTypes
        BY <2>1 DEF ContainerTypes
      <4> QED
        BY <3>1, <4>1, InvFacts, EnsureSound
    <3>3. PICK c \in Container : c = k.box[p]
      BY <3>2, SoundFacts
    <3>4. PICK d : d = [c EXCEPT !.stock = Plus(c.stock, w)]
      OBVIOUS
    <3>5. g' = Put(k, p, d)
      <4>1. g' = [k EXCEPT !.box[p].stock = Plus(@, w)]
        BY <2>1, <3>1, <1>6 DEF Overwrite
      <4> QED
        BY <4>1, <3>2, <3>3, <3>4, SoundFacts DEF Put
    <3>6. /\ Put(k, p, d) \in Sound /\ Put(k, p, d).next = k.next
          /\ \A x \in Items : OnGround(Put(k, p, d), x) = OnGround(k, x) + w[x]
      BY <3>2, <3>3, <3>4, StockedSound
    <3> QED
      BY <3>2, <3>5, <3>6
  <2>2. CASE b # "CHEST"
    <3>1. g' = g /\ w = Nothing
      BY <2>2, <1>6 DEF Overwrite
    <3>2. \A x \in Items : OnGround(g, x) \in Int
      BY InvFacts, OnGroundType
    <3> QED
      BY <3>1, <3>2, InvFacts, NothingFacts
  <2> QED
    BY <2>1, <2>2
<1>8. ASSUME NEW x \in Items
      PROVE  /\ supply'[x] = supply[x] + (IF b = x THEN 1 ELSE 0) + w[x] - (IF bs[p] = x THEN 1 ELSE 0)
             /\ supply[x] \in Int /\ w[x] \in Nat
  <2>1. supply'[x] = supply[x] + Of(b, 1)[x] + (IF b = "CHEST" THEN StartStock[x] ELSE 0) - Of(blocks[p], 1)[x]
    BY DEF Overwrite
  <2>2. w[x] = IF b = "CHEST" THEN StartStock[x] ELSE 0
    BY <1>6, NothingFacts
  <2>3. Of(b, 1)[x] = (IF b = x THEN 1 ELSE 0) /\ Of(blocks[p], 1)[x] = (IF bs[p] = x THEN 1 ELSE 0)
    BY <1>4, OfFacts
  <2> QED
    BY <2>1, <2>2, <2>3, InvFacts, BundleFacts DEF Counts
<1>9. supply' \in Counts
  <2>1. supply' = [x \in Items |-> supply'[x]]
    BY DEF Overwrite
  <2>2. \A x \in Items : supply'[x] \in Int
    BY <1>8
  <2> QED
    BY <2>1, <2>2 DEF Counts
<1>10. ASSUME NEW x \in Items
       PROVE  Standing(blocks', x) + OnGround(g', x) + Held(inv', bill', x) - supply'[x]
                = Standing(blocks, x) + OnGround(g, x) + Held(inv, bill, x) - supply[x]
  <2>1. Standing(cs, x) = Standing(bs, x) + (IF cs[p] = x THEN 1 ELSE 0) - (IF bs[p] = x THEN 1 ELSE 0)
    BY <1>5, StandingChange
  <2>2. PICK st \in Int, o \in Int, h \in Int, s \in Int, wx \in Nat :
          st = Standing(bs, x) /\ o = OnGround(g, x) /\ h = Held(inv, bill, x) /\ s = supply[x] /\ wx = w[x]
    BY <1>8, InvFacts, StandingType, OnGroundType, HeldType
  <2>3. PICK m \in Int, n \in Int : m = (IF b = x THEN 1 ELSE 0) /\ n = (IF bs[p] = x THEN 1 ELSE 0)
    OBVIOUS
  <2>4. Standing(blocks', x) = st + m - n /\ OnGround(g', x) = o + wx /\ Held(inv', bill', x) = h
        /\ supply'[x] = s + m + wx - n
    BY <1>2, <1>5, <1>7, <1>8, <2>1, <2>2, <2>3
  <2> QED
    BY <1>4, <2>2, <2>3, <2>4
<1>11. BuildState'
  BY <1>2 DEF WorkInv, BuildState
<1> QED
  BY <1>1, <1>2, <1>5, <1>7, <1>9, <1>10, <1>11, InvFacts, Assembled

-----------------------------------------------------------------------------
(* Tasks that change the ground                                            *)

LEMMA OwnFacts ==
  ASSUME WorkInv, NEW a \in Agents
  PROVE  inv[a] \in Bundle /\ \A x \in Items : inv[a][x] \in Int /\ inv[a][x] \in Nat /\ supply[x] \in Int
BY InvFacts, BundleFacts DEF Counts

\* A turn at a task that is no build.
LEMMA TurnKeeps ==
  ASSUME WorkInv, NEW a, NEW kind, Turn(a, kind), kind # "BUILD",
         task' \in [Agents -> Task \cup {Absent}], \A b \in Agents : b # a => task'[b] = task[b],
         task'[a] # Absent => task'[a].index = 0,
         bill' = bill, credit' = credit,
         blocks' \in [Cells -> Blocks], belts' \in [Cells -> {-1, 1, Absent}],
         switches' \in [Cells -> {"ON", "OFF", Absent}], g' \in Sound, g'.next <= MaxItems,
         inv' \in [Agents -> Bundle], \A b \in Agents : b # a => inv'[b] = inv[b], supply' \in Counts,
         \A x \in Items :
           Standing(blocks', x) + OnGround(g', x) + inv'[a][x] - supply'[x]
             = Standing(blocks, x) + OnGround(g, x) + inv[a][x] - supply[x]
  PROVE  WorkInv'
<1>1. /\ a \in Agents /\ tick' = tick /\ turn' \in 0..Len(AgentOrder) + 2 /\ ops' \in 0..MaxOps
      /\ bill[a] = Nothing
  BY TurnFacts, NothingPaid
<1>2. BuildState'
  BY <1>1, BuildsKept
<1>3. ASSUME NEW x \in Items
      PROVE  Standing(blocks', x) + OnGround(g', x) + Held(inv', bill', x) - supply'[x]
               = Standing(blocks, x) + OnGround(g, x) + Held(inv, bill, x) - supply[x]
  <2>1. Held(inv', bill', x) = Held(inv, bill, x) + (inv'[a][x] + bill'[a][x]) - (inv[a][x] + bill[a][x])
    BY <1>1, InvFacts, HoldersChange
  <2>0. bill[a][x] = 0 /\ bill'[a][x] = 0
    BY <1>1, NothingFacts
  <2>2. PICK b0 \in Int, o0 \in Int, h0 \in Int :
          b0 = Standing(blocks, x) /\ o0 = OnGround(g, x) /\ h0 = Held(inv, bill, x)
    BY InvFacts, StandingType, OnGroundType, HeldType
  <2>6. PICK s0 \in Int, i0 \in Int : s0 = supply[x] /\ i0 = inv[a][x]
    BY <1>1, OwnFacts
  <2>3. PICK b1 \in Int, o1 \in Int, s1 \in Int, i1 \in Int :
          b1 = Standing(blocks', x) /\ o1 = OnGround(g', x) /\ s1 = supply'[x] /\ i1 = inv'[a][x]
    <3>1. supply'[x] \in Int /\ inv'[a][x] \in Nat
      BY <1>1, BundleFacts DEF Counts
    <3> QED
      BY <3>1, StandingType, OnGroundType
  <2>4. b1 + o1 + i1 - s1 = b0 + o0 + i0 - s0
    BY <2>2, <2>3, <2>6
  <2>5. Held(inv', bill', x) = h0 + i1 - i0
    BY <2>0, <2>1, <2>2, <2>3, <2>6
  <2>7. b1 + o1 + (h0 + i1 - i0) - s1 = b0 + o0 + h0 - s0
    BY <2>4
  <2> QED
    BY <2>2, <2>3, <2>5, <2>6, <2>7
<1> QED
  BY <1>1, <1>2, <1>3, InvFacts, Assembled

LEMMA CarriedBy ==
  ASSUME WorkInv, NEW a \in Agents, NEW e \in Bundle, inv' = [inv EXCEPT ![a] = e]
  PROVE  inv' \in [Agents -> Bundle] /\ inv'[a] = e /\ \A b \in Agents : b # a => inv'[b] = inv[b]
BY InvFacts

LEMMA GatherKeeps ==
  ASSUME WorkInv, NEW a, Gather(a)
  PROVE  WorkInv'
<1>1. Turn(a, "GATHER") /\ a \in Agents /\ task[a].req \in Requests /\ task[a].req.kind = "GATHER" /\ Ends(a)
  BY TurnFacts DEF Gather
<1>2. PICK i \in ItemIds : i = task[a].req.id
  BY <1>1, RequestFacts
<1>3. PICK e \in Entity : e = g.items[i]
  BY <1>2, InvFacts, SoundFacts DEF Gather
<1>4. PICK got \in Bundle : got = Of(e.item, e.count) /\ \A x \in Items : got[x] = Lying(e, x)
  <2>0. e # Absent /\ e.count \in Nat
    BY EntityFacts
  <2>1. PICK n \in Nat : n = e.count
    BY <2>0
  <2>2. Of(e.item, n) \in Bundle /\ \A x \in Items : Of(e.item, n)[x] = IF e.item = x THEN n ELSE 0
    BY OfFacts
  <2>3. \A x \in Items : Lying(e, x) = IF e.item = x THEN n ELSE 0
    BY <2>0, <2>1 DEF Lying
  <2> QED
    BY <2>1, <2>2, <2>3
<1>5. PICK k : k = RemoveEntity(g, i)
  OBVIOUS
<1>6. /\ k \in Sound /\ k.next = g.next
      /\ \A x \in Items : OnGround(k, x) = OnGround(g, x) - got[x]
  BY <1>3, <1>4, <1>5, InvFacts, RemoveSound
<1>7. g' = k /\ inv' = [inv EXCEPT ![a] = Plus(inv[a], got)] /\ UNCHANGED <<site, books>>
  BY <1>2, <1>3, <1>4, <1>5, InvFacts, Zenon DEF Gather
<1>8. Plus(inv[a], got) \in Bundle /\ \A x \in Items : Plus(inv[a], got)[x] = inv[a][x] + got[x]
  BY <1>1, InvFacts, PlusFacts
<1>9. inv' \in [Agents -> Bundle] /\ inv'[a] = Plus(inv[a], got) /\ \A b \in Agents : b # a => inv'[b] = inv[b]
  BY <1>1, <1>7, <1>8, CarriedBy
<1>10. ASSUME NEW x \in Items
       PROVE  Standing(blocks', x) + OnGround(g', x) + inv'[a][x] - supply'[x]
                = Standing(blocks, x) + OnGround(g, x) + inv[a][x] - supply[x]
  <2>1. PICK st \in Int, o \in Int : st = Standing(blocks, x) /\ o = OnGround(g, x)
    BY InvFacts, StandingType, OnGroundType
  <2>3. PICK n \in Int, ix \in Int, s \in Int : n = got[x] /\ ix = inv[a][x] /\ s = supply[x]
    <3>1. got[x] \in Nat
      BY <1>4, BundleFacts
    <3> QED
      BY <3>1, <1>1, OwnFacts
  <2>2. Standing(blocks', x) = st /\ OnGround(g', x) = o - n /\ inv'[a][x] = ix + n /\ supply'[x] = s
    BY <1>6, <1>7, <1>8, <1>9, <2>1, <2>3 DEF site, books
  <2> QED
    BY <2>1, <2>2, <2>3
<1> QED
  BY <1>1, <1>6, <1>7, <1>9, <1>10, EndsFacts, InvFacts, TurnKeeps DEF site, books

LEMMA PlaceKeeps ==
  ASSUME WorkInv, NEW a, Place(a)
  PROVE  WorkInv'
<1>1. Turn(a, "PLACE") /\ a \in Agents /\ task[a].req \in Requests /\ task[a].req.kind = "PLACE" /\ Ends(a)
  BY TurnFacts DEF Place
<1>2. PICK p \in Cells, y \in Items : p = task[a].req.pos /\ y = task[a].req.item
  BY <1>1, RequestFacts
<1>3. blocks[p] = "AIR" /\ inv[a][y] >= 1 /\ bill' = bill /\ credit' = credit /\ supply' = supply
  BY <1>2 DEF Place, books
<1>4. PICK bs \in [Cells -> Blocks] : bs = blocks
  BY InvFacts
<1>5. PICK cs \in [Cells -> Blocks] : cs = blocks' /\ cs[p] = y /\ \A q \in Cells : q # p => cs[q] = bs[q]
  BY <1>2, <1>4 DEF Place, Blocks
<1>6. /\ g' \in Sound /\ g'.next = g.next /\ \A x \in Items : OnGround(g', x) = OnGround(g, x)
      /\ belts' \in [Cells -> {-1, 1, Absent}] /\ switches' \in [Cells -> {"ON", "OFF", Absent}]
  BY <1>2, InvFacts, EffectsSound DEF Place
<1>7. PICK e : e = [inv[a] EXCEPT ![y] = inv[a][y] - 1]
  OBVIOUS
<1>8. inv[a] \in Bundle /\ \A x \in Items : inv[a][x] \in Nat
  BY <1>1, InvFacts, BundleFacts
<1>9. e \in Bundle /\ \A x \in Items : e[x] = inv[a][x] - (IF x = y THEN 1 ELSE 0)
  BY <1>3, <1>7, <1>8 DEF Bundle
<1>10. inv' = [inv EXCEPT ![a] = e]
  BY <1>1, <1>2, <1>7, InvFacts DEF Place
<1>11. inv' \in [Agents -> Bundle] /\ inv'[a] = e /\ \A b \in Agents : b # a => inv'[b] = inv[b]
  BY <1>1, <1>9, <1>10, CarriedBy
<1>12. ASSUME NEW x \in Items
       PROVE  Standing(blocks', x) + OnGround(g', x) + inv'[a][x] - supply'[x]
                = Standing(blocks, x) + OnGround(g, x) + inv[a][x] - supply[x]
  <2>1. Standing(cs, x) = Standing(bs, x) + (IF cs[p] = x THEN 1 ELSE 0) - (IF bs[p] = x THEN 1 ELSE 0)
    BY <1>5, StandingChange
  <2>2. bs[p] # x
    BY <1>3, <1>4, GroundAssumption
  <2>3. PICK st \in Int, o \in Int, ix \in Int, s \in Int :
          st = Standing(bs, x) /\ o = OnGround(g, x) /\ ix = inv[a][x] /\ s = supply[x]
    <3>1. supply[x] \in Int
      BY InvFacts DEF Counts
    <3> QED
      BY <3>1, <1>8, InvFacts, StandingType, OnGroundType
  <2>4. PICK n \in Int : n = (IF x = y THEN 1 ELSE 0)
    OBVIOUS
  <2>5. Standing(blocks', x) = st + n /\ OnGround(g', x) = o /\ inv'[a][x] = ix - n /\ supply'[x] = s
    BY <1>3, <1>5, <1>6, <1>9, <1>11, <2>1, <2>2, <2>3, <2>4
  <2> QED
    BY <1>4, <2>3, <2>4, <2>5
<1> QED
  BY <1>1, <1>3, <1>5, <1>6, <1>11, <1>12, EndsFacts, InvFacts, TurnKeeps

LEMMA TakenOut ==
  ASSUME NEW h \in Sound, NEW p \in Cells, h.box[p] # Absent, NEW y \in Items, NEW n \in Nat,
         AvailableCount(h.box[p], y) >= n
  PROVE  /\ AddStock(h, p, y, -n) \in Sound /\ AddStock(h, p, y, -n).next = h.next
         /\ \A q \in Cells : h.box[q] # Absent => AddStock(h, p, y, -n).box[q] # Absent
         /\ \A x \in Items : OnGround(AddStock(h, p, y, -n), x) = OnGround(h, x) - (IF x = y THEN n ELSE 0)
<1>1. PICK c \in Container : c = h.box[p]
  BY SoundFacts
<1>2. c.stock[y] \in Nat /\ c.reserved[y] \in Nat
  BY ContainerFacts, BundleFacts
<1>3. c.stock[y] - c.reserved[y] >= n
  BY <1>1 DEF AvailableCount
<1>4. PICK m \in Int : m = -n
  OBVIOUS
<1>5. 0 <= c.stock[y] + m /\ c.reserved[y] <= c.stock[y] + m
  BY <1>2, <1>3, <1>4
<1>6. /\ AddStock(h, p, y, m) \in Sound /\ AddStock(h, p, y, m).next = h.next
      /\ AddStock(h, p, y, m).box[p] # Absent
      /\ \A q \in Cells : q # p => AddStock(h, p, y, m).box[q] = h.box[q]
      /\ \A x \in Items : OnGround(AddStock(h, p, y, m), x) = OnGround(h, x) + (IF x = y THEN m ELSE 0)
  BY <1>1, <1>5, StockSound
<1>7. ASSUME NEW x \in Items PROVE OnGround(AddStock(h, p, y, m), x) = OnGround(h, x) - (IF x = y THEN n ELSE 0)
  <2>1. OnGround(h, x) \in Int
    BY OnGroundType
  <2> QED
    BY <2>1, <1>4, <1>6
<1> QED
  BY <1>4, <1>6, <1>7

LEMMA PutIn ==
  ASSUME NEW h \in Sound, NEW p \in Cells, h.box[p] # Absent, NEW y \in Items, NEW n \in Nat
  PROVE  /\ AddStock(h, p, y, n) \in Sound /\ AddStock(h, p, y, n).next = h.next
         /\ \A x \in Items : OnGround(AddStock(h, p, y, n), x) = OnGround(h, x) + (IF x = y THEN n ELSE 0)
<1>1. PICK c \in Container : c = h.box[p]
  BY SoundFacts
<1>2. c.stock[y] \in Nat /\ c.reserved[y] \in Nat /\ c.reserved[y] <= c.stock[y]
  BY <1>1, ContainerFacts, BundleFacts, SoundFacts DEF Backed
<1>3. 0 <= c.stock[y] + n /\ c.reserved[y] <= c.stock[y] + n
  BY <1>2
<1> QED
  BY <1>1, <1>3, StockSound

LEMMA MinusFacts ==
  ASSUME NEW b \in Bundle, NEW d \in Bundle, \A x \in Items : d[x] <= b[x]
  PROVE  Minus(b, d) \in Bundle /\ \A x \in Items : Minus(b, d)[x] = b[x] - d[x]
<1>1. \A x \in Items : b[x] \in Nat /\ d[x] \in Nat
  BY BundleFacts
<1>2. \A x \in Items : b[x] - d[x] \in Nat
  BY <1>1
<1> QED
  BY <1>2 DEF Minus, Bundle

LEMMA TransferKeeps ==
  ASSUME WorkInv, NEW a, Transfer(a)
  PROVE  WorkInv'
<1>1. Turn(a, "TRANSFER") /\ a \in Agents /\ task[a].req \in Requests /\ task[a].req.kind = "TRANSFER" /\ Ends(a)
  BY TurnFacts DEF Transfer
<1>2. PICK from \in Store, to \in Store : from = task[a].req.src /\ to = task[a].req.dst
  BY <1>1, RequestFacts
<1>3. PICK y \in Items, n \in Nat : y = task[a].req.item /\ n = task[a].req.n
  BY <1>1, RequestFacts
<1>4. /\ UNCHANGED <<site, books>> /\ (from # Self \/ to # Self)
      /\ from = Self => inv[a][y] >= n
      /\ from # Self => AvailableCount(g.box[from.pos], y) >= n
      /\ \A c \in {from, to} : c # Self => c.pos \in Cells /\ g.box[c.pos] # Absent
  BY <1>2, <1>3 DEF Transfer, IsThere, Store
<1>5. PICK out : out = IF from = Self THEN g ELSE AddStock(g, from.pos, y, -n)
  OBVIOUS
<1>6. /\ out \in Sound /\ out.next = g.next /\ \A q \in Cells : g.box[q] # Absent => out.box[q] # Absent
      /\ \A x \in Items : OnGround(out, x) = OnGround(g, x) - (IF from # Self /\ x = y THEN n ELSE 0)
  <2>1. CASE from = Self
    <3>1. \A x \in Items : OnGround(g, x) \in Int
      BY InvFacts, OnGroundType
    <3> QED
      BY <2>1, <3>1, <1>5, InvFacts
  <2>2. CASE from # Self
    BY <2>2, <1>4, <1>5, InvFacts, TakenOut
  <2> QED
    BY <2>1, <2>2
<1>7. /\ g' \in Sound /\ g'.next = g.next
      /\ \A x \in Items : OnGround(g', x) = OnGround(out, x) + (IF to # Self /\ x = y THEN n ELSE 0)
  <2>1. g' = IF to = Self THEN out ELSE AddStock(out, to.pos, y, n)
    BY <1>2, <1>3, <1>5 DEF Transfer
  <2>2. CASE to = Self
    <3>1. \A x \in Items : OnGround(out, x) \in Int
      BY <1>6, OnGroundType
    <3> QED
      BY <2>1, <2>2, <3>1, <1>6
  <2>3. CASE to # Self
    BY <2>1, <2>3, <1>4, <1>6, PutIn
  <2> QED
    BY <2>2, <2>3
<1>8. PICK e \in Bundle :
        /\ inv' = [inv EXCEPT ![a] = e]
        /\ \A x \in Items : e[x] = inv[a][x] + (IF from # Self /\ x = y THEN n ELSE 0)
                                             - (IF to # Self /\ x = y THEN n ELSE 0)
  <2>1. PICK got \in Bundle : got = Of(y, n) /\ \A x \in Items : got[x] = IF y = x THEN n ELSE 0
    BY OfFacts
  <2>2. PICK b \in Bundle : b = inv[a] /\ \A x \in Items : b[x] \in Nat
    BY <1>1, OwnFacts
  <2>3. inv' = [inv EXCEPT ![a] = CASE from = Self -> Minus(inv[a], got) [] to = Self -> Plus(inv[a], got)
                                  [] OTHER -> inv[a]]
    BY <1>1, <1>2, <1>3, <2>1, InvFacts DEF Transfer
  <2>4. CASE from = Self
    <3>1. \A x \in Items : got[x] <= b[x]
      BY <2>1, <2>2, <2>4, <1>4
    <3>4. PICK d \in Bundle : d = Minus(b, got) /\ \A x \in Items : d[x] = b[x] - got[x]
      BY <3>1, MinusFacts
    <3>5. inv' = [inv EXCEPT ![a] = d]
      <4>1. to # Self
        BY <1>4, <2>4
      <4> QED
        BY <4>1, <3>4, <2>2, <2>3, <2>4
    <3>6. \A x \in Items : d[x] = inv[a][x] + (IF from # Self /\ x = y THEN n ELSE 0) - (IF to # Self /\ x = y THEN n ELSE 0)
      BY <3>4, <2>1, <2>2, <2>4, <1>4
    <3> QED
      BY <3>4, <3>5, <3>6
  <2>5. CASE from # Self /\ to = Self
    <3>4. PICK d \in Bundle : d = Plus(b, got) /\ \A x \in Items : d[x] = b[x] + got[x]
      BY PlusFacts
    <3>5. inv' = [inv EXCEPT ![a] = d]
      BY <3>4, <2>2, <2>3, <2>5
    <3>6. \A x \in Items : d[x] = inv[a][x] + (IF from # Self /\ x = y THEN n ELSE 0) - (IF to # Self /\ x = y THEN n ELSE 0)
      BY <3>4, <2>1, <2>2, <2>5
    <3> QED
      BY <3>4, <3>5, <3>6
  <2>6. CASE from # Self /\ to # Self
    <3>1. inv' = [inv EXCEPT ![a] = b]
      BY <2>2, <2>3, <2>6
    <3>2. \A x \in Items : b[x] = inv[a][x] + (IF from # Self /\ x = y THEN n ELSE 0) - (IF to # Self /\ x = y THEN n ELSE 0)
      BY <2>2, <2>6
    <3> QED
      BY <3>1, <3>2
  <2> QED
    BY <2>4, <2>5, <2>6
<1>9. inv' \in [Agents -> Bundle] /\ inv'[a] = e /\ \A b \in Agents : b # a => inv'[b] = inv[b]
  BY <1>1, <1>8, CarriedBy
<1>10. ASSUME NEW x \in Items
       PROVE  Standing(blocks', x) + OnGround(g', x) + inv'[a][x] - supply'[x]
                = Standing(blocks, x) + OnGround(g, x) + inv[a][x] - supply[x]
  <2>1. PICK st \in Int, o \in Int : st = Standing(blocks, x) /\ o = OnGround(g, x)
    BY InvFacts, StandingType, OnGroundType
  <2>2. PICK ix \in Int, s \in Int : ix = inv[a][x] /\ s = supply[x]
    BY <1>1, OwnFacts
  <2>3. PICK u \in Int, v \in Int : u = (IF from # Self /\ x = y THEN n ELSE 0) /\ v = (IF to # Self /\ x = y THEN n ELSE 0)
    OBVIOUS
  <2>4. OnGround(g', x) = (o - u) + v
    BY <1>6, <1>7, <2>1, <2>3
  <2>5. inv'[a][x] = ix + u - v
    BY <1>8, <1>9, <2>2, <2>3
  <2>6. blocks' = blocks /\ supply' = supply
    BY <1>4 DEF site, books
  <2>7. st + ((o - u) + v) + (ix + u - v) - s = st + o + ix - s
    OBVIOUS
  <2> QED
    BY <2>1, <2>2, <2>4, <2>5, <2>6, <2>7
<1> QED
  BY <1>1, <1>4, <1>6, <1>7, <1>9, <1>10, EndsFacts, InvFacts, TurnKeeps DEF site, books

LEMMA CraftKeeps ==
  ASSUME WorkInv, NEW a, Craft(a)
  PROVE  WorkInv'
<1>1. Turn(a, "CRAFT") /\ a \in Agents /\ task[a].req \in Requests /\ task[a].req.kind = "CRAFT"
  BY TurnFacts DEF Craft
<1>2. PICK in \in Bundle, made \in Bundle :
        in = Recipes[task[a].req.recipe].inputs /\ made = Recipes[task[a].req.recipe].outputs
  <2>1. Recipes[task[a].req.recipe] \in Recipe
    BY <1>1, RequestFacts, WorkAssumption
  <2> QED
    BY <2>1 DEF Recipe
<1>3. PICK b \in Bundle : b = inv[a] /\ \A x \in Items : b[x] \in Nat
  BY <1>1, OwnFacts
<1>4. /\ \A x \in Items : b[x] >= in[x]
      /\ inv' = [inv EXCEPT ![a] = Plus(Minus(b, in), made)]
      /\ supply' = [x \in Items |-> supply[x] + made[x] - in[x]]
      /\ UNCHANGED <<site, g, bill, credit>>
  BY <1>1, <1>2, <1>3, InvFacts DEF Craft
<1>5. \A x \in Items : in[x] \in Nat /\ made[x] \in Nat
  BY BundleFacts
<1>6. PICK rest \in Bundle : rest = Minus(b, in) /\ \A x \in Items : rest[x] = b[x] - in[x]
  <2>1. \A x \in Items : in[x] <= b[x]
    BY <1>3, <1>4, <1>5
  <2> QED
    BY <2>1, MinusFacts
<1>7. PICK e \in Bundle : e = Plus(rest, made) /\ \A x \in Items : e[x] = rest[x] + made[x]
  BY PlusFacts
<1>8. inv' \in [Agents -> Bundle] /\ inv'[a] = e /\ \A c \in Agents : c # a => inv'[c] = inv[c]
  BY <1>1, <1>4, <1>6, <1>7, CarriedBy
<1>9. /\ task' \in [Agents -> Task \cup {Absent}] /\ \A c \in Agents : c # a => task'[c] = task[c]
      /\ task'[a] # Absent => task'[a].index = 0
  <2>1. PICK t \in Task : t = task[a] /\ t # Absent /\ t.index = 0 /\ t.left \in Nat
    BY <1>1, TurnFacts, TaskFacts, NothingPaid
  <2>2. PICK u : u = Again(t)
    OBVIOUS
  <2>3. task' = [task EXCEPT ![a] = u]
    BY <1>1, <2>1, <2>2, InvFacts DEF Craft
  <2>4. u \in Task \cup {Absent} /\ (u # Absent => u.index = 0)
    <3>1. CASE t.left > 1
      <4>1. t.left - 1 \in Nat
        BY <2>1, <3>1
      <4>2. u = [t EXCEPT !.left = t.left - 1, !.ticks = 0]
        BY <2>2, <3>1 DEF Again
      <4> QED
        BY <2>1, <4>1, <4>2 DEF Task
    <3>2. CASE ~(t.left > 1)
      BY <2>2, <3>2 DEF Again
    <3> QED
      BY <3>1, <3>2
  <2> QED
    BY <1>1, <2>3, <2>4, InvFacts
<1>10. ASSUME NEW x \in Items
       PROVE  /\ supply'[x] \in Int
              /\ Standing(blocks', x) + OnGround(g', x) + inv'[a][x] - supply'[x]
                   = Standing(blocks, x) + OnGround(g, x) + inv[a][x] - supply[x]
  <2>1. PICK st \in Int, o \in Int : st = Standing(blocks, x) /\ o = OnGround(g, x)
    BY InvFacts, StandingType, OnGroundType
  <2>2. PICK ix \in Int, s \in Int : ix = inv[a][x] /\ s = supply[x]
    BY <1>1, OwnFacts
  <2>3. PICK u \in Int, v \in Int : u = in[x] /\ v = made[x]
    BY <1>5
  <2>4. inv'[a][x] = (ix - u) + v
    BY <1>3, <1>6, <1>7, <1>8, <2>2, <2>3
  <2>5. supply'[x] = s + v - u
    BY <1>4, <2>2, <2>3
  <2>6. Standing(blocks', x) = st /\ OnGround(g', x) = o
    BY <1>4, <2>1 DEF site
  <2>7. st + o + ((ix - u) + v) - (s + v - u) = st + o + ix - s
    OBVIOUS
  <2> QED
    BY <2>1, <2>2, <2>4, <2>5, <2>6, <2>7
<1>11. supply' \in Counts
  BY <1>4, <1>10 DEF Counts
<1> QED
  BY <1>1, <1>4, <1>8, <1>9, <1>10, <1>11, InvFacts, TurnKeeps DEF site

\* What is in a container and what it owes its miner is salvaged, what it owes
\* others is forgotten.
LEMMA SalvageFacts ==
  ASSUME NEW a \in Agents, NEW c \in Container \cup {Absent}
  PROVE  /\ Salvage(a, c) \in Bundle /\ Forgotten(a, c) \in Counts
         /\ \A x \in Items : Kept(c, x) = Salvage(a, c)[x] + Forgotten(a, c)[x]
<1>1. CASE c = Absent
  <2>1. Salvage(a, c) = Nothing /\ Forgotten(a, c) = Nothing
    BY <1>1 DEF Salvage, Forgotten, Nothing
  <2>2. \A x \in Items : Kept(c, x) = 0
    BY <1>1 DEF Kept
  <2> QED
    BY <2>1, <2>2, NothingFacts
<1>2. CASE c \in Container
  <2>1. c # Absent /\ c.stock \in Bundle /\ c.owed \in [Agents -> Bundle] /\ c.owed[a] \in Bundle
    BY <1>2, ContainerFacts
  <2>2. Salvage(a, c) \in Bundle /\ \A x \in Items : Salvage(a, c)[x] = c.stock[x] + c.owed[a][x]
    BY <2>1, PlusFacts DEF Salvage
  <2>3. ASSUME NEW x \in Items
        PROVE  Forgotten(a, c)[x] \in Int /\ Kept(c, x) = Salvage(a, c)[x] + Forgotten(a, c)[x]
    <3>1. \A b \in Agents : c.owed[b][x] \in Nat
      BY <2>1, BundleFacts
    <3>2. PICK f : f = [b \in Agents |-> IF b = a THEN 0 ELSE c.owed[b][x]]
      OBVIOUS
    <3>3. PICK d : d = [b \in Agents |-> c.owed[b][x]]
      OBVIOUS
    <3>4. f \in [Agents -> Int] /\ d \in [Agents -> Int] /\ \A b \in Agents : b # a => d[b] = f[b]
      BY <3>1, <3>2, <3>3
    <3>5. ByAgent(d) = ByAgent(f) + d[a] - f[a] /\ ByAgent(f) \in Int
      BY <3>4, ByAgentChange, ByAgentType
    <3>6. f[a] = 0 /\ d[a] = c.owed[a][x]
      BY <3>2, <3>3
    <3>7. Forgotten(a, c)[x] = ByAgent(f)
      BY <2>1, <3>2 DEF Forgotten
    <3>8. Kept(c, x) = c.stock[x] + ByAgent(d)
      BY <2>1, <3>3 DEF Kept
    <3>9. PICK cs \in Int, o \in Int, m \in Int : cs = c.stock[x] /\ o = c.owed[a][x] /\ m = ByAgent(f)
      <4>1. c.stock[x] \in Nat
        BY <2>1, BundleFacts
      <4> QED
        BY <4>1, <3>1, <3>5
    <3>10. Kept(c, x) = cs + (m + o - 0) /\ Salvage(a, c)[x] = cs + o /\ Forgotten(a, c)[x] = m
      BY <2>2, <3>5, <3>6, <3>7, <3>8, <3>9
    <3> QED
      BY <3>10
  <2>4. Forgotten(a, c) \in Counts
    <3>1. Forgotten(a, c) = [x \in Items |-> Forgotten(a, c)[x]]
      BY DEF Forgotten
    <3> QED
      BY <2>3, <3>1 DEF Counts
  <2> QED
    BY <2>2, <2>3, <2>4
<1> QED
  BY <1>1, <1>2

LEMMA RemovedSound ==
  ASSUME NEW h \in Sound, NEW p \in Cells
  PROVE  /\ RemoveContainer(h, p) \in Sound /\ RemoveContainer(h, p).next = h.next
         /\ \A x \in Items : OnGround(RemoveContainer(h, p), x) = OnGround(h, x) - Kept(h.box[p], x)
<1>1. RemoveContainer(h, p) = Put(h, p, Absent)
  BY SoundFacts DEF RemoveContainer, Put
<1>2. /\ Put(h, p, Absent) \in Sound
      /\ \A x \in Items : OnGround(Put(h, p, Absent), x) = OnGround(h, x) + Kept(Absent, x) - Kept(h.box[p], x)
  BY PutSound DEF Put
<1>3. Put(h, p, Absent).next = h.next
  BY SoundFacts DEF Put
<1>4. ASSUME NEW x \in Items PROVE OnGround(Put(h, p, Absent), x) = OnGround(h, x) - Kept(h.box[p], x)
  <2>1. OnGround(h, x) \in Int /\ Kept(h.box[p], x) \in Int
    BY OnGroundType, KeptType, SoundFacts
  <2>2. Kept(Absent, x) = 0
    BY DEF Kept
  <2> QED
    BY <2>1, <2>2, <1>2
<1> QED
  BY <1>1, <1>2, <1>3, <1>4

LEMMA MineKeeps ==
  ASSUME WorkInv, NEW a, Mine(a)
  PROVE  WorkInv'
<1>1. Turn(a, "MINE") /\ a \in Agents /\ task[a].req \in Requests /\ task[a].req.kind = "MINE" /\ Ends(a)
  BY TurnFacts DEF Mine
<1>2. PICK p \in Cells : p = task[a].req.pos
  BY <1>1, RequestFacts
<1>3. PICK bs \in [Cells -> Blocks] : bs = blocks
  BY InvFacts
<1>4. PICK y \in Items : y = bs[p]
  BY <1>2, <1>3 DEF Mine, Blocks
<1>5. PICK c \in Container \cup {Absent} : c = Holder(p) /\ (c # Absent => c = g.box[p])
  BY InvFacts, SoundFacts DEF Holder
<1>6. PICK k : k = IF c = Absent THEN g ELSE RemoveContainer(g, p)
  OBVIOUS
<1>7. /\ k \in Sound /\ k.next = g.next
      /\ \A x \in Items : OnGround(k, x) = OnGround(g, x) - Kept(c, x)
  <2>1. CASE c = Absent
    <3>1. \A x \in Items : OnGround(g, x) \in Int /\ Kept(c, x) = 0
      BY <2>1, InvFacts, OnGroundType DEF Kept
    <3> QED
      BY <2>1, <3>1, <1>6, InvFacts
  <2>2. CASE c # Absent
    BY <2>2, <1>5, <1>6, InvFacts, RemovedSound
  <2> QED
    BY <2>1, <2>2
<1>8. g' = Spawn(k, tick, p, y, 1) /\ g'.next <= MaxItems
  BY <1>2, <1>3, <1>4, <1>5, <1>6 DEF Mine
<1>9. /\ g' \in Sound /\ \A x \in Items : OnGround(g', x) = OnGround(k, x) + (IF x = y THEN 1 ELSE 0)
  <2>1. tick \in Nat
    BY InvFacts
  <2> QED
    BY <2>1, <1>7, <1>8, SpawnSound
<1>10. /\ Salvage(a, c) \in Bundle /\ Forgotten(a, c) \in Counts
       /\ \A x \in Items : Kept(c, x) = Salvage(a, c)[x] + Forgotten(a, c)[x]
  BY <1>1, SalvageFacts
<1>11. PICK grant \in Bundle :
         /\ inv' = [inv EXCEPT ![a] = Plus(Plus(inv[a], Salvage(a, c)), grant)]
         /\ supply' = Plus(Minus(supply, Forgotten(a, c)), grant)
         /\ bill' = bill /\ credit' = credit
  <2>1. PICK grant \in MineOutcome(y) :
          /\ inv' = [inv EXCEPT ![a] = Plus(Plus(inv[a], Salvage(a, c)), grant)]
          /\ supply' = Plus(Minus(supply, Forgotten(a, c)), grant)
          /\ bill' = bill /\ credit' = credit
    BY <1>1, <1>2, <1>3, <1>4, <1>5, InvFacts DEF Mine
  <2>2. grant = Nothing \/ \E z : grant = Of(z, 1)
    BY <2>1 DEF MineOutcome
  <2>3. grant \in Bundle
    BY <2>2 DEF Nothing, Of, Bundle
  <2> QED
    BY <2>1, <2>3
<1>12. /\ Plus(Plus(inv[a], Salvage(a, c)), grant) \in Bundle
       /\ \A x \in Items : Plus(Plus(inv[a], Salvage(a, c)), grant)[x] = (inv[a][x] + Salvage(a, c)[x]) + grant[x]
  <2>1. /\ Plus(inv[a], Salvage(a, c)) \in Bundle
        /\ \A x \in Items : Plus(inv[a], Salvage(a, c))[x] = inv[a][x] + Salvage(a, c)[x]
    BY <1>1, <1>10, InvFacts, PlusFacts
  <2> QED
    BY <2>1, <1>11, PlusFacts
<1>13. /\ inv' \in [Agents -> Bundle] /\ inv'[a] = Plus(Plus(inv[a], Salvage(a, c)), grant)
       /\ \A b \in Agents : b # a => inv'[b] = inv[b]
  BY <1>1, <1>11, <1>12, CarriedBy
<1>14. PICK cs \in [Cells -> Blocks] : cs = blocks' /\ cs[p] = "AIR" /\ \A q \in Cells : q # p => cs[q] = bs[q]
  <2>1. blocks' = [bs EXCEPT ![p] = "AIR"]
    BY <1>2, <1>3 DEF Mine
  <2> QED
    BY <1>3, <2>1 DEF Blocks
<1>15. belts' \in [Cells -> {-1, 1, Absent}] /\ switches' \in [Cells -> {"ON", "OFF", Absent}]
  <2>1. belts' = belts \/ belts' = [belts EXCEPT ![p] = Absent]
    BY <1>2 DEF Mine
  <2>2. switches' = switches \/ switches' = [switches EXCEPT ![p] = Absent]
    BY <1>2 DEF Mine
  <2>3. belts' \in [Cells -> {-1, 1, Absent}]
    BY <2>1, InvFacts
  <2>4. switches' \in [Cells -> {"ON", "OFF", Absent}]
    BY <2>2, InvFacts
  <2> QED
    BY <2>3, <2>4
<1>16. ASSUME NEW x \in Items
       PROVE  /\ supply'[x] \in Int
              /\ Standing(blocks', x) + OnGround(g', x) + inv'[a][x] - supply'[x]
                   = Standing(blocks, x) + OnGround(g, x) + inv[a][x] - supply[x]
  <2>1. PICK st \in Int, o \in Int : st = Standing(bs, x) /\ o = OnGround(g, x)
    BY InvFacts, StandingType, OnGroundType
  <2>2. PICK ix \in Int, s \in Int : ix = inv[a][x] /\ s = supply[x]
    BY <1>1, OwnFacts
  <2>3. PICK u \in Int, f \in Int : u = Salvage(a, c)[x] /\ f = Forgotten(a, c)[x]
    <3>1. Salvage(a, c)[x] \in Nat /\ Forgotten(a, c)[x] \in Int
      BY <1>10, BundleFacts DEF Counts
    <3> QED
      BY <3>1
  <2>4. PICK m \in Int, gx \in Int : m = (IF x = y THEN 1 ELSE 0) /\ gx = grant[x]
    BY <1>11, BundleFacts
  <2>5. Standing(cs, x) = Standing(bs, x) + (IF cs[p] = x THEN 1 ELSE 0) - (IF bs[p] = x THEN 1 ELSE 0)
    BY <1>14, StandingChange
  <2>6. cs[p] # x
    BY <1>14, GroundAssumption
  <2>7. Standing(blocks', x) = st - m
    BY <1>4, <1>14, <2>1, <2>4, <2>5, <2>6
  <2>8. OnGround(g', x) = (o - (u + f)) + m
    BY <1>7, <1>9, <1>10, <2>1, <2>3, <2>4
  <2>9. inv'[a][x] = (ix + u) + gx
    BY <1>12, <1>13, <2>2, <2>3, <2>4
  <2>10. supply'[x] = (s - f) + gx
    BY <1>11, <2>2, <2>3, <2>4 DEF Plus, Minus
  <2>11. (st - m) + ((o - (u + f)) + m) + ((ix + u) + gx) - ((s - f) + gx) = st + o + ix - s
    OBVIOUS
  <2> QED
    BY <1>3, <2>1, <2>2, <2>7, <2>8, <2>9, <2>10, <2>11
<1>17. supply' \in Counts
  BY <1>11, <1>16 DEF Counts, Plus
<1> QED
  BY <1>1, <1>8, <1>9, <1>11, <1>13, <1>14, <1>15, <1>16, <1>17, EndsFacts, TurnKeeps

-----------------------------------------------------------------------------
(* Conveyors                                                               *)

LEMMA ConveyorsKeeps ==
  ASSUME WorkInv, Conveyors
  PROVE  WorkInv'
<1>1. /\ tick' = tick /\ ops' = ops /\ turn' = Len(AgentOrder) + 2 /\ UNCHANGED <<site, inv, task, books>>
      /\ g' = RunConveyors(g, blocks, switches, belts, tick) /\ g'.next <= MaxItems
  BY InvFacts, AgentOrderFacts DEF Conveyors
<1>2. turn' \in 0..Len(AgentOrder) + 2
  BY <1>1, AgentOrderFacts
<1>3. tick \in Nat
  BY InvFacts
<1>4. g' \in After(g, Nothing)
  BY <1>1, <1>3, InvFacts, ConveyorsSound
<1>5. g' \in Sound
  BY <1>4 DEF After
<1>6. ASSUME NEW x \in Items PROVE OnGround(g', x) = OnGround(g, x)
  <2>1. OnGround(g', x) = OnGround(g, x) + Nothing[x]
    BY <1>1, <1>4 DEF After
  <2>2. OnGround(g, x) \in Int /\ Nothing[x] = 0
    BY InvFacts, OnGroundType, NothingFacts
  <2> QED
    BY <2>1, <2>2
<1>7. blocks' = blocks /\ belts' = belts /\ switches' = switches /\ inv' = inv /\ task' = task
      /\ bill' = bill /\ credit' = credit /\ supply' = supply
  BY <1>1 DEF site, books
<1>8. BuildState'
  BY <1>7, InvFacts DEF BuildState
<1> QED
  BY <1>1, <1>2, <1>5, <1>6, <1>7, <1>8, InvFacts, Assembled

-----------------------------------------------------------------------------
(* A turn of building                                                      *)

LEMMA ResumedBalance ==
  ASSUME NEW a, NEW x
  PROVE  Balance(Resumed(a), x) = Standing(blocks, x) + OnGround(g, x) + inv[a][x] + bill[a][x] - supply[x]
BY DEF Balance, Resumed

LEMMA BuildTurnKeeps ==
  ASSUME WorkInv, NEW a, Turn(a, "BUILD"), NEW s \in Works, Secured(s), s.g.next = g.next,
         \A x \in Items : Balance(s, x) = Balance(Resumed(a), x),
         NEW over \in BOOLEAN, over \/ s.index > 0,
         blocks' = s.blocks, belts' = s.belts, switches' = s.switches, g' = s.g,
         inv' = [inv EXCEPT ![a] = s.inv],
         task' = [task EXCEPT ![a] = IF over THEN Absent ELSE [task[a] EXCEPT !.index = s.index]],
         bill' = [bill EXCEPT ![a] = IF over THEN Nothing ELSE s.bill],
         credit' = [credit EXCEPT ![a] = s.credit],
         supply' = IF over THEN Minus(s.supply, s.bill) ELSE s.supply
  PROVE  WorkInv'
<1>1. /\ a \in Agents /\ task[a] # Absent /\ task[a].req.kind = "BUILD"
      /\ tick' = tick /\ turn' \in 0..Len(AgentOrder) + 2 /\ ops' \in 0..MaxOps
  BY TurnFacts
<1>2. /\ s.blocks \in [Cells -> Blocks] /\ s.g \in Sound /\ s.belts \in [Cells -> {-1, 1, Absent}]
      /\ s.switches \in [Cells -> {"ON", "OFF", Absent}] /\ s.inv \in Bundle
      /\ s.index \in 0..Len(Blueprint) /\ s.bill \in Bundle /\ s.credit \in Counts /\ s.supply \in Counts
  BY DEF Works
<1>3. \A x \in Items : s.credit[x] >= 0 /\ s.credit[x] + s.bill[x] >= Rest(x, s.index)
  BY DEF Secured
<1>4. PICK e \in Bundle : e = IF over THEN Nothing ELSE s.bill
  BY <1>2, NothingFacts
<1>5. inv' \in [Agents -> Bundle] /\ inv'[a] = s.inv /\ \A b \in Agents : b # a => inv'[b] = inv[b]
  BY <1>1, <1>2, InvFacts
<1>6. bill' \in [Agents -> Bundle] /\ bill'[a] = e /\ \A b \in Agents : b # a => bill'[b] = bill[b]
  <2>1. bill' = [bill EXCEPT ![a] = e]
    BY <1>4
  <2> QED
    BY <2>1, <1>1, <1>2, InvFacts
<1>7. credit' \in [Agents -> Counts] /\ credit'[a] = s.credit /\ \A b \in Agents : b # a => credit'[b] = credit[b]
  BY <1>1, <1>2, InvFacts
<1>8. PICK t : t = IF over THEN Absent ELSE [task[a] EXCEPT !.index = s.index]
  OBVIOUS
<1>9. t \in Task \cup {Absent} /\ (~over => t \in Task /\ t.index = s.index /\ t.req = task[a].req)
  <2>1. PICK k \in Task : k = task[a]
    BY <1>1, TaskFacts
  <2>2. ~over => t = [k EXCEPT !.index = s.index]
    BY <1>8, <2>1
  <2>3. ~over => t \in Task /\ t.index = s.index /\ t.req = k.req
    BY <2>2, <1>2 DEF Task
  <2> QED
    BY <2>1, <2>3, <1>8
<1>10. task' \in [Agents -> Task \cup {Absent}] /\ task'[a] = t /\ \A b \in Agents : b # a => task'[b] = task[b]
  <2>1. task' = [task EXCEPT ![a] = t]
    BY <1>8
  <2> QED
    BY <2>1, <1>1, <1>9, InvFacts
<1>11. \A b \in Agents, x \in Items : credit'[b][x] >= 0
  BY <1>3, <1>7, InvFacts
<1>12. BuildState'
  <2>1. ASSUME NEW b \in Agents, b # a
        PROVE  \/ bill'[b] = Nothing /\ (task'[b] # Absent => task'[b].index = 0)
               \/ /\ task'[b] # Absent /\ task'[b].req.kind = "BUILD" /\ task'[b].index > 0
                  /\ \A x \in Items : credit'[b][x] + bill'[b][x] >= Rest(x, task'[b].index)
    <3>1. bill'[b] = bill[b] /\ credit'[b] = credit[b] /\ task'[b] = task[b]
      BY <2>1, <1>6, <1>7, <1>10
    <3> QED
      BY <3>1, InvFacts DEF BuildState
  <2>2. \/ bill'[a] = Nothing /\ (task'[a] # Absent => task'[a].index = 0)
        \/ /\ task'[a] # Absent /\ task'[a].req.kind = "BUILD" /\ task'[a].index > 0
           /\ \A x \in Items : credit'[a][x] + bill'[a][x] >= Rest(x, task'[a].index)
    <3>1. CASE over
      BY <3>1, <1>4, <1>6, <1>8, <1>10
    <3>2. CASE ~over
      <4>1. task'[a] = t /\ t # Absent /\ t.req.kind = "BUILD" /\ t.index = s.index /\ s.index > 0
        <5>1. task[a] \in Task
          BY <1>1, TaskFacts
        <5>2. t = [task[a] EXCEPT !.index = s.index]
          BY <3>2, <1>8
        <5>3. t # Absent
          BY <3>2, <1>9, WorkAssumption
        <5> QED
          BY <3>2, <1>1, <1>9, <1>10, <5>3
      <4>2. credit'[a] = s.credit /\ bill'[a] = s.bill
        BY <3>2, <1>4, <1>6, <1>7
      <4> QED
        BY <4>1, <4>2, <1>3
    <3> QED
      BY <3>1, <3>2
  <2> QED
    BY <2>1, <2>2 DEF BuildState
<1>13. ASSUME NEW x \in Items
       PROVE  /\ supply'[x] \in Int
              /\ Standing(blocks', x) + OnGround(g', x) + Held(inv', bill', x) - supply'[x]
                   = Standing(blocks, x) + OnGround(g, x) + Held(inv, bill, x) - supply[x]
  <2>1. Held(inv', bill', x) = Held(inv, bill, x) + (inv'[a][x] + bill'[a][x]) - (inv[a][x] + bill[a][x])
    BY <1>1, <1>5, <1>6, HoldersChange
  <2>2. Balance(s, x) = Standing(blocks, x) + OnGround(g, x) + inv[a][x] + bill[a][x] - supply[x]
    BY ResumedBalance
  <2>3. PICK st \in Int, o \in Int, h \in Int :
          st = Standing(blocks, x) /\ o = OnGround(g, x) /\ h = Held(inv, bill, x)
    BY InvFacts, StandingType, OnGroundType, HeldType
  <2>4. PICK ix \in Int, bx \in Int, sx \in Int : ix = inv[a][x] /\ bx = bill[a][x] /\ sx = supply[x]
    <3>1. bill[a][x] \in Nat
      BY <1>1, InvFacts, BundleFacts
    <3>2. inv[a][x] \in Int /\ supply[x] \in Int
      BY <1>1, OwnFacts
    <3> QED
      BY <3>1, <3>2
  <2>5. PICK st1 \in Int, o1 \in Int : st1 = Standing(s.blocks, x) /\ o1 = OnGround(s.g, x)
    BY <1>2, StandingType, OnGroundType
  <2>6. PICK ix1 \in Int, bx1 \in Int, sx1 \in Int : ix1 = s.inv[x] /\ bx1 = s.bill[x] /\ sx1 = s.supply[x]
    <3>1. s.inv[x] \in Nat /\ s.bill[x] \in Nat /\ s.supply[x] \in Int
      BY <1>2, BundleFacts DEF Counts
    <3> QED
      BY <3>1
  <2>7. st1 + o1 + ix1 + bx1 - sx1 = st + o + ix + bx - sx
    BY <2>2, <2>3, <2>4, <2>5, <2>6 DEF Balance
  <2>8. PICK bn \in Int, sn \in Int :
          bn = (IF over THEN 0 ELSE bx1) /\ sn = (IF over THEN sx1 - bx1 ELSE sx1)
    <3>1. (IF over THEN 0 ELSE bx1) \in Int /\ (IF over THEN sx1 - bx1 ELSE sx1) \in Int
      OBVIOUS
    <3> QED
      BY <3>1, Zenon
  <2>9. bill'[a][x] = bn
    BY <1>4, <1>6, <2>6, <2>8, NothingFacts
  <2>10. supply'[x] = sn
    BY <2>6, <2>8 DEF Minus
  <2>11. Held(inv', bill', x) = h + (ix1 + bn) - (ix + bx)
    BY <2>1, <2>3, <2>4, <2>6, <2>9, <1>5
  <2>12. st1 + o1 + (h + (ix1 + bn) - (ix + bx)) - sn = st + o + h - sx
    BY <2>7, <2>8
  <2> QED
    BY <2>3, <2>4, <2>5, <2>10, <2>11, <2>12
<1>14. supply' \in Counts
  <2>1. CASE over
    BY <2>1, <1>13 DEF Counts, Minus
  <2>2. CASE ~over
    BY <2>2, <1>2
  <2> QED
    BY <2>1, <2>2
<1> QED
  BY <1>1, <1>2, <1>5, <1>6, <1>7, <1>10, <1>11, <1>12, <1>13, <1>14, InvFacts, Assembled

LEMMA PlacePartsKeeps ==
  ASSUME WorkInv, NEW a, Turn(a, "BUILD"), Len(Blueprint) > 0, NEW s0 \in Works, Secured(s0), s0.g.next = g.next,
         \A x \in Items : Balance(s0, x) = Balance(Resumed(a), x), PlaceParts(a, s0)
  PROVE  WorkInv'
<1>0. a \in Agents
  BY TurnFacts
<1>1. PICK denied :
        LET s == Placed(s0, denied)
            over == s.failed \/ s.index = Len(Blueprint)
        IN  /\ blocks' = s.blocks /\ belts' = s.belts /\ switches' = s.switches
            /\ g' = s.g /\ inv' = [inv EXCEPT ![a] = s.inv]
            /\ task' = [task EXCEPT ![a] = IF over THEN Absent ELSE [task[a] EXCEPT !.index = s.index]]
            /\ bill' = [bill EXCEPT ![a] = IF over THEN Nothing ELSE s.bill]
            /\ credit' = [credit EXCEPT ![a] = s.credit]
            /\ supply' = IF over THEN Minus(s.supply, s.bill) ELSE s.supply
  BY <1>0, InvFacts DEF PlaceParts
<1>2. PICK s : s = Placed(s0, denied)
  OBVIOUS
<1>3. s \in BuiltFrom(s0) /\ (s.failed \/ s.index > 0)
  BY <1>2, PlacedSound
<1>4. s \in Works /\ Secured(s) /\ s.g.next = g.next /\ \A x \in Items : Balance(s, x) = Balance(Resumed(a), x)
  BY <1>3 DEF BuiltFrom
<1>5. PICK over \in BOOLEAN : over = (s.failed \/ s.index = Len(Blueprint))
  <2>1. s.failed \in BOOLEAN
    BY <1>4 DEF Works
  <2> QED
    BY <2>1
<1>6. over \/ s.index > 0
  BY <1>3, <1>5
<1> QED
  BY <1>1, <1>2, <1>4, <1>5, <1>6, BuildTurnKeeps

LEMMA ChargedFacts ==
  ASSUME WorkInv, NEW a \in Agents, task[a] # Absent, task[a].index = 0, Len(Blueprint) > 0,
         NEW usable \in SUBSET {p \in Cells : g.box[p] # Absent},
         \A x \in Items : Charge(a, usable).inv[x] >= 0
  PROVE  /\ Charged(a, usable) \in Works /\ Secured(Charged(a, usable)) /\ Charged(a, usable).g.next = g.next
         /\ \A x \in Items : Balance(Charged(a, usable), x) = Balance(Resumed(a), x)
<1>1. PICK r \in Works : r = Resumed(a)
  BY ResumedFacts
<1>2. PICK h \in Sound, e \in Counts : h = Charge(a, usable).g /\ e = Charge(a, usable).inv
  BY ChargeSound
<1>3. /\ h.next = g.next
      /\ \A x \in Items : e[x] >= 0 /\ OnGround(h, x) + e[x] + RemainingCost[x] = OnGround(g, x) + inv[a][x]
  BY <1>2, ChargeSound
<1>4. e \in Bundle
  BY <1>2, <1>3 DEF Bundle, Counts
<1>5. PICK rc \in Bundle, place \in Counts :
        /\ rc = RemainingCost /\ place = InPlace
        /\ \A x \in Items : place[x] \in Nat /\ place[x] + rc[x] >= Rest(x, 0)
  <2>1. \A x \in Items : InPlace[x] \in Nat
    BY CostFacts, BundleFacts
  <2>2. InPlace \in Counts
    BY <2>1, CostFacts DEF Counts, Bundle
  <2> QED
    BY <2>1, <2>2, CostFacts
<1>6. PICK c : c = [r EXCEPT !.g = h, !.inv = e, !.bill = rc, !.credit = place]
  OBVIOUS
<1>7. Charged(a, usable) = c
  BY <1>1, <1>2, <1>5, <1>6 DEF Charged
<1>8. c \in Works
  BY <1>4, <1>6 DEF Works
<1>9. /\ c.blocks = r.blocks /\ c.g = h /\ c.inv = e /\ c.index = r.index /\ c.placed = r.placed
      /\ c.bill = rc /\ c.credit = place /\ c.supply = r.supply
  BY <1>6 DEF Works
<1>10. r.blocks = blocks /\ r.index = 0 /\ r.placed = 0 /\ r.supply = supply
  BY <1>1 DEF Resumed
<1>11. Secured(c)
  <2>1. \A x \in Items : place[x] >= 0 /\ place[x] + rc[x] >= Rest(x, 0)
    BY <1>5
  <2> QED
    BY <2>1, <1>9, <1>10 DEF Secured
<1>12. ASSUME NEW x \in Items PROVE Balance(c, x) = Balance(Resumed(a), x)
  <2>1. bill[a][x] = 0
    BY NothingPaid, NothingFacts
  <2>2. PICK st \in Int, o \in Int, o1 \in Int :
          st = Standing(blocks, x) /\ o = OnGround(g, x) /\ o1 = OnGround(h, x)
    BY InvFacts, StandingType, OnGroundType
  <2>3. PICK ix \in Int, sx \in Int : ix = inv[a][x] /\ sx = supply[x]
    BY OwnFacts
  <2>4. PICK ex \in Int, rx \in Int : ex = e[x] /\ rx = rc[x]
    <3>1. e[x] \in Nat /\ rc[x] \in Nat
      BY <1>4, BundleFacts
    <3> QED
      BY <3>1
  <2>5. o1 + ex + rx = o + ix
    BY <1>3, <1>5, <2>2, <2>3, <2>4
  <2>6. Balance(c, x) = st + o1 + ex + rx - sx
    BY <1>9, <1>10, <2>2, <2>3, <2>4 DEF Balance
  <2>7. Balance(Resumed(a), x) = st + o + ix + 0 - sx
    BY <2>1, <2>2, <2>3, ResumedBalance
  <2>8. \A h1, h2 \in Int : h1 = h2 => st + h1 - sx = st + h2 - sx
    OBVIOUS
  <2>9. o1 + ex + rx \in Int /\ o + ix \in Int
    OBVIOUS
  <2>10. st + (o1 + ex + rx) - sx = st + (o + ix) - sx
    BY <2>5, <2>8, <2>9
  <2>11. /\ st + o1 + ex + rx - sx = st + (o1 + ex + rx) - sx
         /\ st + o + ix + 0 - sx = st + (o + ix) - sx
    OBVIOUS
  <2> QED
    BY <2>6, <2>7, <2>10, <2>11
<1> QED
  BY <1>3, <1>7, <1>8, <1>9, <1>11, <1>12

LEMMA BuildKeeps ==
  ASSUME WorkInv, NEW a, Build(a)
  PROVE  WorkInv'
<1>1. Turn(a, "BUILD") /\ a \in Agents /\ task[a] # Absent /\ task[a].index = 0
  BY TurnFacts DEF Build
<1>2. Len(Blueprint) > 0
  BY BlueprintFacts DEF Build
<1>3. PICK usable \in SUBSET {p \in Cells : g.box[p] # Absent} :
        (\A x \in Items : Charge(a, usable).inv[x] >= 0) /\ PlaceParts(a, Charged(a, usable))
  BY DEF Build
<1>4. PICK s0 : s0 = Charged(a, usable)
  OBVIOUS
<1>5. s0 \in Works /\ Secured(s0) /\ s0.g.next = g.next /\ \A x \in Items : Balance(s0, x) = Balance(Resumed(a), x)
  BY <1>1, <1>2, <1>3, <1>4, ChargedFacts
<1> QED
  BY <1>1, <1>2, <1>3, <1>4, <1>5, PlacePartsKeeps

LEMMA BuildOnKeeps ==
  ASSUME WorkInv, NEW a, BuildOn(a)
  PROVE  WorkInv'
<1>1. Turn(a, "BUILD") /\ a \in Agents /\ task[a] # Absent /\ task[a].index > 0 /\ task[a].index \in 0..Len(Blueprint)
  BY TurnFacts, TaskFacts DEF BuildOn
<1>2. Len(Blueprint) > 0
  BY <1>1, BlueprintFacts
<1>3. PICK s0 \in Works : s0 = Resumed(a)
  BY <1>1, ResumedFacts
<1>4. s0.placed = 0 /\ s0.index = task[a].index /\ s0.credit = credit[a] /\ s0.bill = bill[a] /\ s0.g = g
  BY <1>3 DEF Resumed
<1>5. \A x \in Items : credit[a][x] >= 0 /\ credit[a][x] + bill[a][x] >= Rest(x, task[a].index)
  BY <1>1, InvFacts DEF BuildState
<1>6. Secured(s0)
  BY <1>4, <1>5 DEF Secured
<1>7. PlaceParts(a, s0)
  BY <1>3 DEF BuildOn
<1> QED
  BY <1>1, <1>2, <1>3, <1>4, <1>6, <1>7, PlacePartsKeeps

-----------------------------------------------------------------------------
(* The environment                                                         *)

LEMMA AgentsFinite == \A S \in SUBSET Agents : Cardinality(S) \in Nat
<1>1. \A a \in Agents : \E n \in 1..Len(AgentOrder) : AgentOrder[n] = a
  BY WorkAssumption, AgentOrderFacts
<1>2. IsFiniteSet(Agents)
  BY <1>1, WorkAssumption DEF IsFiniteSet
<1> QED
  BY <1>2, FS_Subset, FS_CardinalityType

\* What the agents that are down drop.
Shed(down, x) == ByAgent([a \in Agents |-> Lost(a, down)[x]])

LEMMA NoneSwept ==
  ASSUME NEW h, NEW x
  PROVE  Decayed(h, {}, x) = 0
<1>1. PICK f : f = [i \in ItemIds |-> 0]
  OBVIOUS
<1>2. f \in [1..MaxItems -> Int] /\ MaxItems \in Nat
  BY <1>1, GroundAssumption DEF ItemIds
<1>3. Sum(f) = Sum(f) + Sum(f) /\ Sum(f) \in Int
  <2>1. \A k \in 1..MaxItems : f[k] = f[k] + f[k]
    BY <1>1 DEF ItemIds
  <2>2. Sum(f) = Sum(f) + Sum(f)
    BY <2>1, <1>2, SumAdd
  <2> QED
    BY <2>2, <1>2, SumType
<1>4. Sum(f) = 0
  <2>1. PICK b \in Int : b = Sum(f)
    BY <1>3
  <2>2. b = b + b
    BY <2>1, <1>3
  <2>3. b = 0
    BY <2>2
  <2> QED
    BY <2>1, <2>3
<1>5. Decayed(h, {}, x) = Sum(f)
  BY <1>1 DEF Decayed
<1> QED
  BY <1>4, <1>5

LEMMA DecayedType ==
  ASSUME NEW h \in Sound, NEW swept, NEW x
  PROVE  Decayed(h, swept, x) \in Int
<1>1. PICK f : f = [i \in ItemIds |-> IF i \in swept THEN Lying(h.items[i], x) ELSE 0]
  OBVIOUS
<1>2. \A i \in ItemIds : Lying(h.items[i], x) \in Nat
  BY SoundFacts, LyingType
<1>3. f \in [1..MaxItems -> Int]
  BY <1>1, <1>2 DEF ItemIds
<1> QED
  BY <1>1, <1>3, SumType, GroundAssumption DEF Decayed

LEMMA SweptSound ==
  ASSUME NEW h \in Sound, NEW k, NEW swept, swept = {} \/ swept = Expired(h, tick),
         k = IF swept = {} THEN h ELSE CleanupExpired(h, tick)
  PROVE  /\ k \in Sound /\ k.next = h.next
         /\ \A x \in Items : OnGround(k, x) = OnGround(h, x) - Decayed(h, swept, x)
<1>1. CASE swept = {}
  <2>1. \A x \in Items : OnGround(h, x) \in Int /\ Decayed(h, swept, x) = 0
    BY <1>1, OnGroundType, NoneSwept
  <2> QED
    BY <1>1, <2>1
<1>2. CASE swept # {}
  <2>1. k = CleanupExpired(h, tick) /\ swept = Expired(h, tick)
    BY <1>2
  <2>2. \A x \in Items :
          Decayed(h, Expired(h, tick), x)
            = Sum([i \in ItemIds |-> IF i \in Expired(h, tick) THEN Lying(h.items[i], x) ELSE 0])
    BY DEF Decayed
  <2>3. /\ CleanupExpired(h, tick) \in Sound /\ CleanupExpired(h, tick).next = h.next
        /\ \A x \in Items : OnGround(CleanupExpired(h, tick), x) = OnGround(h, x) - Decayed(h, Expired(h, tick), x)
    BY <2>2, CleanupSound
  <2> QED
    BY <2>1, <2>3
<1> QED
  BY <1>1, <1>2

LEMMA RespawnFacts ==
  ASSUME WorkInv, NEW down \in SUBSET Agents,
         inv' = [a \in Agents |-> Minus(inv[a], Lost(a, down))],
         bill' = [a \in Agents |-> IF a \in down THEN Nothing ELSE bill[a]]
  PROVE  /\ inv' \in [Agents -> Bundle] /\ bill' \in [Agents -> Bundle]
         /\ \A x \in Items :
              /\ Shed(down, x) \in Int /\ Spilt(down, x) \in Int
              /\ Held(inv', bill', x) = Held(inv, bill, x) - Shed(down, x) - Spilt(down, x)
<1>1. ASSUME NEW a \in Agents
      PROVE  /\ Minus(inv[a], Lost(a, down)) \in Bundle
             /\ \A x \in Items : /\ Lost(a, down)[x] \in Nat /\ inv[a][x] \in Nat /\ bill[a][x] \in Nat
                                 /\ Minus(inv[a], Lost(a, down))[x] = inv[a][x] - Lost(a, down)[x]
  <2>1. inv[a] \in Bundle /\ bill[a] \in Bundle /\ Lost(a, down) \in Bundle
        /\ \A x \in Items : Lost(a, down)[x] <= inv[a][x]
    BY InvFacts, LostFacts
  <2>2. PICK b \in Bundle, d \in Bundle : b = inv[a] /\ d = Lost(a, down) /\ \A x \in Items : d[x] <= b[x]
    BY <2>1
  <2>3. Minus(b, d) \in Bundle /\ \A x \in Items : Minus(b, d)[x] = b[x] - d[x]
    BY <2>2, MinusFacts
  <2>4. \A x \in Items : d[x] \in Nat /\ b[x] \in Nat /\ bill[a][x] \in Nat
    BY <2>1, BundleFacts
  <2> QED
    BY <2>2, <2>3, <2>4
<1>2. inv' \in [Agents -> Bundle]
  BY <1>1
<1>3. bill' \in [Agents -> Bundle]
  BY InvFacts, NothingFacts
<1>4. ASSUME NEW x \in Items
      PROVE  /\ Shed(down, x) \in Int /\ Spilt(down, x) \in Int
             /\ Held(inv', bill', x) = Held(inv, bill, x) - Shed(down, x) - Spilt(down, x)
  <2>1. PICK f : f = [a \in Agents |-> inv[a][x] + bill[a][x]]
    OBVIOUS
  <2>2. PICK k : k = [a \in Agents |-> inv'[a][x] + bill'[a][x]]
    OBVIOUS
  <2>3. PICK l : l = [a \in Agents |-> Lost(a, down)[x]]
    OBVIOUS
  <2>4. PICK s : s = [a \in Agents |-> IF a \in down THEN bill[a][x] ELSE 0]
    OBVIOUS
  <2>5. PICK m : m = [a \in Agents |-> l[a] + s[a]]
    OBVIOUS
  <2>6. ASSUME NEW a \in Agents
        PROVE  /\ l[a] \in Int /\ s[a] \in Int /\ m[a] \in Int /\ k[a] \in Int /\ f[a] \in Int
               /\ m[a] = l[a] + s[a] /\ f[a] = k[a] + m[a]
    <3>1. PICK ix \in Int, bx \in Int, lx \in Int : ix = inv[a][x] /\ bx = bill[a][x] /\ lx = Lost(a, down)[x]
      BY <1>1
    <3>2. inv'[a][x] = ix - lx
      BY <3>1, <1>1
    <3>3. bill'[a][x] = IF a \in down THEN 0 ELSE bx
      BY <3>1, NothingFacts
    <3>4. f[a] = ix + bx /\ l[a] = lx /\ s[a] = (IF a \in down THEN bx ELSE 0) /\ m[a] = l[a] + s[a]
      BY <3>1, <2>1, <2>3, <2>4, <2>5
    <3>5. k[a] = (ix - lx) + (IF a \in down THEN 0 ELSE bx)
      BY <3>2, <3>3, <2>2
    <3>6. CASE a \in down
      BY <3>4, <3>5, <3>6
    <3>7. CASE a \notin down
      BY <3>4, <3>5, <3>7
    <3> QED
      BY <3>6, <3>7
  <2>7. /\ l \in [Agents -> Int] /\ s \in [Agents -> Int] /\ m \in [Agents -> Int]
        /\ k \in [Agents -> Int] /\ f \in [Agents -> Int]
    BY <2>1, <2>2, <2>3, <2>4, <2>5, <2>6
  <2>8. ByAgent(f) = ByAgent(k) + ByAgent(m)
    BY <2>6, <2>7, ByAgentAdd
  <2>9. ByAgent(m) = ByAgent(l) + ByAgent(s)
    BY <2>6, <2>7, ByAgentAdd
  <2>10. Shed(down, x) = ByAgent(l) /\ Spilt(down, x) = ByAgent(s)
    BY <2>3, <2>4 DEF Shed, Spilt
  <2>11. Held(inv, bill, x) = ByAgent(f) /\ Held(inv', bill', x) = ByAgent(k)
    BY <2>1, <2>2 DEF Held
  <2>12. ByAgent(l) \in Int /\ ByAgent(s) \in Int /\ ByAgent(k) \in Int
    BY <2>7, ByAgentType
  <2>13. PICK li \in Int, si \in Int, ki \in Int : li = ByAgent(l) /\ si = ByAgent(s) /\ ki = ByAgent(k)
    BY <2>12
  <2> QED
    BY <2>8, <2>9, <2>10, <2>11, <2>13
<1> QED
  BY <1>2, <1>3, <1>4

LEMMA EnvironmentKeeps ==
  ASSUME WorkInv, Environment
  PROVE  WorkInv'
<1>1. /\ turn' = 0 /\ tick' = tick + 1 /\ tick < MaxTick /\ UNCHANGED site
  BY DEF Environment
<1>2. PICK down \in SUBSET Agents : \E where \in [down -> Cells] :
        LET dropped == Dropped(down, where)
            swept == IF tick % CleanupEvery = 0 THEN Expired(dropped, tick) ELSE {}
        IN  /\ ops' = ops + Cardinality(down) /\ ops' <= MaxOps
            /\ dropped.next <= MaxItems
            /\ g' = IF swept = {} THEN dropped ELSE CleanupExpired(dropped, tick)
            /\ inv' = [a \in Agents |-> Minus(inv[a], Lost(a, down))]
            /\ task' = [a \in Agents |-> IF a \in down THEN Absent ELSE task[a]]
            /\ bill' = [a \in Agents |-> IF a \in down THEN Nothing ELSE bill[a]]
            /\ credit' = [a \in Agents |-> IF a \in down THEN Nothing ELSE credit[a]]
            /\ supply' = [x \in Items |-> supply[x] - Spilt(down, x) - Decayed(dropped, swept, x)]
  BY DEF Environment
<1>0. PICK where \in [down -> Cells] :
        LET dropped == Dropped(down, where)
            swept == IF tick % CleanupEvery = 0 THEN Expired(dropped, tick) ELSE {}
        IN  /\ ops' = ops + Cardinality(down) /\ ops' <= MaxOps
            /\ dropped.next <= MaxItems
            /\ g' = IF swept = {} THEN dropped ELSE CleanupExpired(dropped, tick)
            /\ inv' = [a \in Agents |-> Minus(inv[a], Lost(a, down))]
            /\ task' = [a \in Agents |-> IF a \in down THEN Absent ELSE task[a]]
            /\ bill' = [a \in Agents |-> IF a \in down THEN Nothing ELSE bill[a]]
            /\ credit' = [a \in Agents |-> IF a \in down THEN Nothing ELSE credit[a]]
            /\ supply' = [x \in Items |-> supply[x] - Spilt(down, x) - Decayed(dropped, swept, x)]
  BY <1>2
<1>3. PICK h : h = Dropped(down, where)
  OBVIOUS
<1>4. PICK swept : swept = IF tick % CleanupEvery = 0 THEN Expired(h, tick) ELSE {}
  OBVIOUS
<1>5. swept = {} \/ swept = Expired(h, tick)
  BY <1>4
<1>6. /\ ops' = ops + Cardinality(down) /\ ops' <= MaxOps /\ h.next <= MaxItems
      /\ g' = IF swept = {} THEN h ELSE CleanupExpired(h, tick)
      /\ supply' = [x \in Items |-> supply[x] - Spilt(down, x) - Decayed(h, swept, x)]
  BY <1>0, <1>3, <1>4
<1>7. /\ inv' = [a \in Agents |-> Minus(inv[a], Lost(a, down))]
      /\ task' = [a \in Agents |-> IF a \in down THEN Absent ELSE task[a]]
      /\ bill' = [a \in Agents |-> IF a \in down THEN Nothing ELSE bill[a]]
      /\ credit' = [a \in Agents |-> IF a \in down THEN Nothing ELSE credit[a]]
  BY <1>0
<1>8. tick' \in 0..MaxTick /\ turn' \in 0..Len(AgentOrder) + 2 /\ ops' \in 0..MaxOps
  <2>1. Cardinality(down) \in Nat
    BY AgentsFinite
  <2> QED
    BY <2>1, <1>1, <1>6, InvFacts, AgentOrderFacts, WorkAssumption
<1>9. /\ h \in Sound
      /\ \A x \in Items : OnGround(h, x) = OnGround(g, x) + Shed(down, x)
  <2>1. tick \in Nat /\ g \in Sound /\ inv \in [Agents -> Bundle]
    BY InvFacts
  <2>2. PICK d : d = [x \in Items |-> ByAgent([a \in Agents |-> Lost(a, down)[x]])]
    OBVIOUS
  <2>3. h \in After(g, d)
    BY <2>1, <2>2, <1>3, DroppedSound
  <2>4. \A x \in Items : d[x] = Shed(down, x)
    BY <2>2 DEF Shed
  <2> QED
    BY <2>3, <2>4, <1>6 DEF After
<1>10. /\ g' \in Sound /\ g'.next = h.next
       /\ \A x \in Items : OnGround(g', x) = OnGround(h, x) - Decayed(h, swept, x)
  BY <1>5, <1>6, <1>9, SweptSound
<1>11. /\ inv' \in [Agents -> Bundle] /\ bill' \in [Agents -> Bundle]
       /\ \A x \in Items :
            /\ Shed(down, x) \in Int /\ Spilt(down, x) \in Int
            /\ Held(inv', bill', x) = Held(inv, bill, x) - Shed(down, x) - Spilt(down, x)
  BY <1>7, RespawnFacts
<1>12. task' \in [Agents -> Task \cup {Absent}]
  BY <1>7, InvFacts
<1>13. credit' \in [Agents -> Counts] /\ \A a \in Agents, x \in Items : credit'[a][x] >= 0
  <2>1. \A x \in Items : Nothing[x] = 0
    BY NothingFacts
  <2> QED
    BY <2>1, <1>7, InvFacts, NothingFacts
<1>14. BuildState'
  <2> SUFFICES ASSUME NEW a \in Agents
               PROVE  \/ bill'[a] = Nothing /\ (task'[a] # Absent => task'[a].index = 0)
                      \/ /\ task'[a] # Absent /\ task'[a].req.kind = "BUILD" /\ task'[a].index > 0
                         /\ \A x \in Items : credit'[a][x] + bill'[a][x] >= Rest(x, task'[a].index)
    BY DEF BuildState
  <2>1. CASE a \in down
    BY <2>1, <1>7
  <2>2. CASE a \notin down
    <3>1. bill'[a] = bill[a] /\ task'[a] = task[a] /\ credit'[a] = credit[a]
      BY <2>2, <1>7
    <3> QED
      BY <3>1, InvFacts DEF BuildState
  <2> QED
    BY <2>1, <2>2
<1>15. ASSUME NEW x \in Items
       PROVE  /\ supply'[x] \in Int
              /\ Standing(blocks', x) + OnGround(g', x) + Held(inv', bill', x) - supply'[x]
                   = Standing(blocks, x) + OnGround(g, x) + Held(inv, bill, x) - supply[x]
  <2>1. PICK st \in Int, o \in Int, hd \in Int :
          st = Standing(blocks, x) /\ o = OnGround(g, x) /\ hd = Held(inv, bill, x)
    BY InvFacts, StandingType, OnGroundType, HeldType
  <2>2. PICK s \in Int : s = supply[x]
    BY InvFacts DEF Counts
  <2>3. PICK l \in Int, sp \in Int, dec \in Int :
          l = Shed(down, x) /\ sp = Spilt(down, x) /\ dec = Decayed(h, swept, x)
    BY <1>9, <1>11, DecayedType
  <2>4. OnGround(g', x) = (o + l) - dec
    BY <1>9, <1>10, <2>1, <2>3
  <2>5. Held(inv', bill', x) = hd - l - sp
    BY <1>11, <2>1, <2>3
  <2>6. supply'[x] = s - sp - dec
    BY <1>6, <2>2, <2>3
  <2>7. blocks' = blocks
    BY <1>1 DEF site
  <2>8. st + ((o + l) - dec) + (hd - l - sp) - (s - sp - dec) = st + o + hd - s
    OBVIOUS
  <2> QED
    BY <2>1, <2>2, <2>4, <2>5, <2>6, <2>7, <2>8
<1>16. supply' \in Counts
  <2>1. supply' = [x \in Items |-> supply'[x]]
    BY <1>6
  <2> QED
    BY <2>1, <1>15 DEF Counts
<1>17. blocks' = blocks /\ belts' = belts /\ switches' = switches /\ g'.next <= MaxItems
  BY <1>1, <1>6, <1>10 DEF site
<1> QED
  BY <1>8, <1>10, <1>11, <1>12, <1>13, <1>14, <1>15, <1>16, <1>17, InvFacts, Assembled

-----------------------------------------------------------------------------
(* The start                                                               *)

LEMMA StartGround ==
  ASSUME NEW bs
  PROVE  [items |-> [i \in ItemIds |-> Absent], at |-> [p \in Cells |-> <<>>], next |-> 0,
          box |-> [p \in Cells |->
            IF bs[p] \in ContainerTypes
            THEN [type |-> bs[p], stock |-> StartStock, reserved |-> Nothing,
                  owed |-> [a \in Agents |-> Nothing]]
            ELSE Absent]] \in Sound
<1>1. PICK I \in [ItemIds -> Entity \cup {Absent}] : I = [i \in ItemIds |-> Absent]
  OBVIOUS
<1>2. PICK A : A = [p \in Cells |-> <<>>]
  OBVIOUS
<1>3. PICK B : B = [p \in Cells |->
                     IF bs[p] \in ContainerTypes
                     THEN [type |-> bs[p], stock |-> StartStock, reserved |-> Nothing,
                           owed |-> [a \in Agents |-> Nothing]]
                     ELSE Absent]
  OBVIOUS
<1>4. I \in [ItemIds -> Entity \cup {Absent}] /\ A \in [Cells -> Seq(ItemIds)] /\ 0 \in 0..MaxItems + 1
  BY <1>1, <1>2, GroundAssumption
<1>5. ASSUME NEW p \in Cells
      PROVE  /\ B[p] \in Container \cup {Absent}
             /\ B[p] # Absent => \A x \in Items : B[p].reserved[x] <= B[p].stock[x]
  <2>1. CASE bs[p] \in ContainerTypes
    <3>1. PICK owing : owing = [a \in Agents |-> Nothing]
      OBVIOUS
    <3>2. B[p] = [type |-> bs[p], stock |-> StartStock, reserved |-> Nothing, owed |-> owing]
      BY <2>1, <1>3, <3>1
    <3>3. owing \in [Agents -> Bundle] /\ Nothing \in Bundle /\ StartStock \in Bundle
      BY <3>1, NothingFacts, WorkAssumption
    <3>4. B[p] \in Container
      BY <2>1, <3>2, <3>3 DEF Container
    <3>5. \A x \in Items : B[p].reserved[x] = 0 /\ B[p].stock[x] \in Nat
      BY <3>2, <3>3, NothingFacts, BundleFacts
    <3> QED
      BY <3>4, <3>5
  <2>2. CASE bs[p] \notin ContainerTypes
    BY <2>2, <1>3
  <2> QED
    BY <2>1, <2>2
<1>6. B \in [Cells -> Container \cup {Absent}] /\ Backed(B)
  <2>1. B = [p \in Cells |-> B[p]]
    BY <1>3
  <2> QED
    BY <2>1, <1>5 DEF Backed
<1>7. Listed(I, A, 0)
  <2>1. ASSUME NEW p \in Cells PROVE Distinct(A[p]) /\ Elements(A[p]) = {}
    <3>1. A[p] = <<>> /\ DOMAIN A[p] = {}
      BY <1>2
    <3> QED
      BY <3>1 DEF Distinct, Elements
  <2>2. \A i \in ItemIds : I[i] = Absent
    BY <1>1
  <2> QED
    BY <2>1, <2>2 DEF Listed
<1>8. [items |-> I, at |-> A, box |-> B, next |-> 0] \in Sound
  BY <1>4, <1>6, <1>7, SoundParts
<1>9. [items |-> I, at |-> A, box |-> B, next |-> 0] = [items |-> I, at |-> A, next |-> 0, box |-> B]
  OBVIOUS
<1> QED
  BY <1>1, <1>2, <1>3, <1>8, <1>9

LEMMA StartsRight ==
  ASSUME WorkInit
  PROVE  WorkInv
<1>1. /\ blocks \in [Cells -> Blocks]
      /\ belts \in [Cells -> {-1, 1, Absent}] /\ switches \in [Cells -> {"ON", "OFF", Absent}]
  BY WorkAssumption DEF WorkInit
<1>2. g \in Sound
  BY StartGround DEF WorkInit
<1>3. g.next = 0 /\ 0 \in 0..MaxItems
  BY GroundAssumption DEF WorkInit
<1>4. inv \in [Agents -> Bundle] /\ task = [a \in Agents |-> Absent] /\ task \in [Agents -> Task \cup {Absent}]
  BY WorkAssumption DEF WorkInit
<1>5. /\ NoBill \in [Agents -> Bundle] /\ NoBill \in [Agents -> Counts]
      /\ \A a \in Agents : NoBill[a] = Nothing
  BY NothingFacts DEF NoBill
<1>6. bill = NoBill /\ credit = NoBill /\ supply = [x \in Items |-> Total(blocks, g, inv, bill, x)]
  BY DEF WorkInit
<1>7. ASSUME NEW x \in Items PROVE Total(blocks, g, inv, bill, x) \in Int
  <2>1. Total(blocks, g, inv, bill, x) = Standing(blocks, x) + OnGround(g, x) + Held(inv, bill, x)
    BY DEF Total, Standing, Held
  <2>2. Standing(blocks, x) \in Int /\ OnGround(g, x) \in Int /\ Held(inv, bill, x) \in Int
    BY <1>2, <1>4, <1>5, <1>6, StandingType, OnGroundType, HeldType
  <2> QED
    BY <2>1, <2>2
<1>8. supply \in Counts /\ \A x \in Items : Total(blocks, g, inv, bill, x) = supply[x]
  BY <1>6, <1>7 DEF Counts
<1>9. \A a \in Agents, x \in Items : credit[a][x] >= 0
  BY <1>5, <1>6, NothingFacts
<1>10. tick \in 0..MaxTick /\ turn \in 0..Len(AgentOrder) + 2 /\ ops \in 0..MaxOps
  BY AgentOrderFacts, WorkAssumption DEF WorkInit
<1>11. WorkTypeOK
  <2>1. /\ g.items \in [ItemIds -> Entity \cup {Absent}] /\ g.at \in [Cells -> Seq(ItemIds)]
        /\ g.box \in [Cells -> Container \cup {Absent}]
    BY <1>2, SoundFacts
  <2>2. supply \in [Items -> Int] /\ credit \in [Agents -> [Items -> Int]] /\ bill \in [Agents -> Bundle]
    BY <1>5, <1>6, <1>8 DEF Counts
  <2> QED
    BY <2>1, <2>2, <1>1, <1>3, <1>4, <1>10 DEF WorkTypeOK
<1>12. BuildState
  BY <1>4, <1>5, <1>6 DEF BuildState
<1> QED
  BY <1>2, <1>8, <1>9, <1>11, <1>12 DEF WorkInv, ItemsConserved

-----------------------------------------------------------------------------
(* Every step                                                              *)

LEMMA WorkKeeps ==
  ASSUME WorkInv, [WorkNext]_workVars
  PROVE  WorkInv'
<1>1. CASE \E a \in Agents, r \in Requests : Ask(a, r)
  BY <1>1, AskKeeps
<1>2. CASE \E p \in Cells : ToggleSwitch(p) \/ (\E b \in {"IRON_ORE", "CHEST"} : Overwrite(p, b))
  BY <1>2, ToggleKeeps, OverwriteKeeps
<1>3. CASE \E a \in Agents, p \in Cells, x \in Items : Stake(a, p, x) \/ Settle(a, p, x)
  BY <1>3, StakeKeeps, SettleKeeps
<1>4. CASE \E a \in Agents, p \in Cells : ClaimOwed(a, p)
  BY <1>4, ClaimKeeps
<1>5. CASE StartWork \/ Rests
  BY <1>5, RestsKeeps
<1>6. ASSUME NEW a, TaskFails(a) \/ MineOn(a) \/ Mine(a) \/ Gather(a) \/ Place(a) \/ Transfer(a)
      PROVE  WorkInv'
  <2>1. CASE MineOn(a)
    <3>1. Turn(a, "MINE") /\ UNCHANGED <<site, g, inv, books>>
          /\ (task' = task \/ task' = [task EXCEPT ![a].ticks = @ + 1])
      BY <2>1 DEF MineOn
    <3> QED
      BY <3>1, TaskGoesOn
  <2> QED
    BY <1>6, <2>1, FailsKeeps, MineKeeps, GatherKeeps, PlaceKeeps, TransferKeeps
<1>7. ASSUME NEW a, CraftOn(a) \/ Craft(a) \/ Build(a) \/ BuildOn(a) \/ BuildDone(a)
      PROVE  WorkInv'
  <2>1. CASE CraftOn(a)
    <3>1. Turn(a, "CRAFT") /\ UNCHANGED <<site, g, inv, books>> /\ task' = [task EXCEPT ![a].ticks = @ + 1]
      BY <2>1 DEF CraftOn
    <3> QED
      BY <3>1, TaskGoesOn
  <2> QED
    BY <1>7, <2>1, CraftKeeps, BuildKeeps, BuildOnKeeps, DoneKeeps
<1>8. CASE Conveyors \/ Environment
  BY <1>8, ConveyorsKeeps, EnvironmentKeeps
<1>9. CASE UNCHANGED workVars
  <2>1. /\ tick' = tick /\ turn' = turn /\ ops' = ops /\ blocks' = blocks /\ belts' = belts /\ switches' = switches
        /\ g' = g /\ inv' = inv /\ task' = task /\ bill' = bill /\ credit' = credit /\ supply' = supply
    BY <1>9 DEF workVars, site, books
  <2>2. UNCHANGED <<site, g, inv, books>>
    BY <2>1 DEF site, books
  <2>3. BuildState'
    BY <2>1, InvFacts DEF BuildState
  <2>4. turn' \in 0..Len(AgentOrder) + 2 /\ ops' \in 0..MaxOps /\ task' \in [Agents -> Task \cup {Absent}]
    BY <2>1, InvFacts
  <2> QED
    BY <2>1, <2>2, <2>3, <2>4, OnlyWork
<1> QED
  BY <1>1, <1>2, <1>3, <1>4, <1>5, <1>6, <1>7, <1>8, <1>9 DEF WorkNext

LEMMA WorkInvariant == WorkSpec => []WorkInv
<1>1. WorkInit => WorkInv
  BY StartsRight
<1>2. WorkInv /\ [WorkNext]_workVars => WorkInv'
  BY WorkKeeps
<1> QED
  BY <1>1, <1>2, PTL DEF WorkSpec

\* The types of what the work of the agents keeps.
THEOREM WorkTypeCorrect == WorkSpec => []WorkTypeOK
<1>1. WorkInv => WorkTypeOK
  BY DEF WorkInv
<1> QED
  BY <1>1, WorkInvariant, PTL

\* What contracts have reserved in a container is in it, whatever transfers,
\* belts, builds and miners take: every taker leaves what AvailableCount does
\* not count, and a container goes only when nothing is reserved in it.
THEOREM ReservationsBacked == WorkSpec => []ReservedBacked
<1>1. WorkInv => ReservedBacked
  BY SoundFacts DEF WorkInv, Backed, ReservedBacked
<1> QED
  BY <1>1, WorkInvariant, PTL

\* Every entity is listed once, where it lies: spawned, merged, moved by belts,
\* inserted into containers, gathered or swept, and however often the lists of
\* one cell are changed within a step.
THEOREM IndexExact == WorkSpec => []EntitiesIndexed
<1>1. ASSUME WorkInv PROVE EntitiesIndexed
  <2>1. Listed(g.items, g.at, g.next)
    BY <1>1, InvFacts, SoundFacts
  <2>2. ASSUME NEW i \in Live(g), NEW p \in Cells
        PROVE  Cardinality({k \in DOMAIN g.at[p] : g.at[p][k] = i}) = IF g.items[i].pos = p THEN 1 ELSE 0
    <3>1. Distinct(g.at[p]) /\ Elements(g.at[p]) = {j \in ItemIds : g.items[j] # Absent /\ g.items[j].pos = p}
      BY <2>1 DEF Listed
    <3>2. PICK T : T = {k \in DOMAIN g.at[p] : g.at[p][k] = i}
      OBVIOUS
    <3>3. CASE g.items[i].pos = p
      <4>1. i \in Elements(g.at[p])
        BY <2>2, <3>1, <3>3 DEF Live
      <4>2. PICK k \in DOMAIN g.at[p] : g.at[p][k] = i
        BY <4>1 DEF Elements
      <4>3. T = {k}
        BY <3>1, <3>2, <4>2 DEF Distinct
      <4> QED
        BY <3>2, <3>3, <4>3, FS_Singleton
    <3>4. CASE g.items[i].pos # p
      <4>1. i \notin Elements(g.at[p])
        BY <3>1, <3>4
      <4>2. T = {}
        BY <3>2, <4>1 DEF Elements
      <4> QED
        BY <3>2, <3>4, <4>2, FS_EmptySet
    <3> QED
      BY <3>3, <3>4
  <2>3. ASSUME NEW p \in Cells, NEW k \in DOMAIN g.at[p] PROVE g.at[p][k] \in Live(g)
    <3>1. Elements(g.at[p]) = {j \in ItemIds : g.items[j] # Absent /\ g.items[j].pos = p}
      BY <2>1 DEF Listed
    <3>2. g.at[p][k] \in Elements(g.at[p])
      BY DEF Elements
    <3> QED
      BY <3>1, <3>2 DEF Live
  <2> QED
    BY <2>2, <2>3 DEF EntitiesIndexed
<1> QED
  BY <1>1, WorkInvariant, PTL

\* Blocks, entities, stock, debts, inventories and open builds together hold
\* what was there at the start with what recipes, builds that place what is
\* already in place and the director have made, less what was lost; and no
\* build puts up more for nothing than was in place when it was charged.
THEOREM WorkConserves == WorkSpec => []ItemsConserved
<1>1. WorkInv => ItemsConserved
  BY DEF WorkInv
<1> QED
  BY <1>1, WorkInvariant, PTL
=============================================================================
