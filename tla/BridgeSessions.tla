--------------------------- MODULE BridgeSessions ---------------------------
(***************************************************************************)
(* The sidecar's pool of WebSocket sessions, one per session key.          *)
(*                                                                         *)
(* A session is a goroutine that dials the server, says HELLO with the     *)
(* resume token it has, reads until the connection breaks, backs off and   *)
(* dials again.  Calls of the MCP server run in goroutines of their own;   *)
(* they find or create their session under the mutex of the manager, which *)
(* a session also takes to report a WELCOME.  The server replaces the      *)
(* resume token of an agent whenever a connection resumes it.              *)
(*                                                                         *)
(* Of the messages only HELLO and WELCOME are kept.  A session that has    *)
(* ended stays ended; its number is not used again.                        *)
(***************************************************************************)
EXTENDS Naturals, Sequences, FiniteSets, SequencesExt

CONSTANTS
  Keys,         \* session keys
  Calls,        \* goroutines of the MCP server
  MaxSessions,  \* Config.MaxSessions
  MaxCreated,   \* bound on the session objects ever created
  MaxDials,     \* bound on the connections ever made
  MaxCrashes,   \* bound on crashes of the sidecar
  None          \* "no value"

Sessions == 1..MaxCreated
Conns == 1..MaxDials

ASSUME BoundsAssumption ==
  /\ MaxSessions \in Nat \ {0}
  /\ MaxCreated \in Nat /\ MaxDials \in Nat /\ MaxCrashes \in Nat
ASSUME NoneAssumption == None \notin Keys \cup Sessions \cup Conns \cup Calls

\* The server names an agent, and a token, after the connection that got it.
AgentIds == Conns
Tokens == Conns

SessionStates ==
  [run : {"new", "top", "dialled", "reading", "reporting", "done"},
   key : Keys \cup {None}, stop : BOOLEAN, conn : Conns \cup {None},
   registered : BOOLEAN, token : Tokens \cup {None}]

ConnStates ==
  [stage : {"new", "hello", "welcome", "used"}, open : BOOLEAN, key : Keys \cup {None},
   token : Tokens \cup {None}]

VARIABLES
  mu,        \* Manager.mu: the call that keeps it while it waits
  closed,    \* Manager.closed
  pool,      \* Manager.sessions
  saved,     \* Manager.state, and the state file written with it
  session,   \* the Session objects
  recency,   \* the pooled sessions by lastUsedAt
  call,      \* the goroutines of the MCP server
  conn,      \* connections: what is on the wire, and whether the client has it
  current,   \* server: the token each agent can be resumed with
  crashes,   \* crashes of the sidecar so far
  met,       \* history: the agents that the server gave to a key
  missed     \* history: the keys one of whose WELCOMEs was not reported, or
             \* whose agent was not resumed by its token

manager == <<mu, closed, pool, saved, recency>>
vars == <<manager, session, call, conn, current, crashes, met, missed>>

TypeOK ==
  /\ mu \in Calls \cup {None}
  /\ closed \in BOOLEAN
  /\ pool \in [Keys -> Sessions \cup {None}]
  /\ saved \in [Keys -> Tokens \cup {None}]
  /\ session \in [Sessions -> SessionStates]
  /\ recency \in Seq(Sessions) /\ IsInjective(recency)
  /\ call \in [Calls ->
       [pc : {"idle", "wants", "has", "evicts", "closes"},
        key : Keys \cup {None}, session : Sessions \cup {None},
        rest : SUBSET Sessions]]
  /\ conn \in [Conns -> ConnStates]
  /\ current \in [AgentIds -> Tokens \cup {None}]
  /\ crashes \in 0..MaxCrashes
  /\ met \in [Keys -> SUBSET AgentIds]
  /\ missed \subseteq Keys

Fresh == [run |-> "new", key |-> None, stop |-> FALSE, conn |-> None,
          registered |-> FALSE, token |-> None]

Idle == [pc |-> "idle", key |-> None, session |-> None, rest |-> {}]

Init ==
  /\ mu = None /\ closed = FALSE
  /\ pool = [k \in Keys |-> None]
  /\ saved = [k \in Keys |-> None]
  /\ session = [s \in Sessions |-> Fresh]
  /\ recency = <<>>
  /\ call = [p \in Calls |-> Idle]
  /\ conn = [c \in Conns |->
               [stage |-> "new", open |-> FALSE, key |-> None, token |-> None]]
  /\ current = [a \in AgentIds |-> None]
  /\ crashes = 0
  /\ met = [k \in Keys |-> {}]
  /\ missed = {}

-----------------------------------------------------------------------------
(* Connections                                                             *)

\* Nothing of a connection is used after its WELCOME was read or lost.
Used(open) == [stage |-> "used", open |-> open, key |-> None, token |-> None]

\* The connections in C are closed.  A HELLO gets through nevertheless.
Closing(C) ==
  [c \in Conns |-> IF c \notin C THEN conn[c]
                   ELSE IF conn[c].stage = "hello"
                        THEN [conn[c] EXCEPT !.open = FALSE]
                   ELSE Used(FALSE)]

\* The keys of the connections in C whose WELCOME nobody will read.
Unread(C) == {conn[c].key : c \in {d \in C : conn[d].stage = "welcome"}}

\* Slip: Disconnect leaves the connection open.
RegisteredNone(s) == {}

\* The connection Session.conn refers to; set only after HELLO was written.
Registered(s) == IF session[s].registered THEN {session[s].conn} ELSE {}

Disconnected(r) == [r EXCEPT !.registered = FALSE]

\* Nothing of a session that has ended is used again.
Dead == [Fresh EXCEPT !.run = "done"]

\* Session.Close up to the wait: stop is closed, Disconnect closes the
\* connection so that a blocked ReadMessage returns.
Stopped(r) == [Disconnected(r) EXCEPT !.stop = TRUE]

\* The agent that the token of a HELLO belongs to, if there is one.
AgentOf(c) == {a \in AgentIds : conn[c].token # None /\ current[a] = conn[c].token}

\* The WELCOME for the agent a, with a new token, whether the client is still
\* there or not.  No token resumes the agents in lost any more.
Welcomes(c, a, lost) ==
  LET h == conn[c] IN
  /\ h.stage = "hello"
  /\ conn' = [conn EXCEPT ![c] = IF h.open THEN [h EXCEPT !.stage = "welcome"]
                                 ELSE Used(FALSE)]
  /\ current' = [b \in AgentIds |-> IF b = a THEN c ELSE IF b \in lost THEN None ELSE current[b]]
  /\ met' = [met EXCEPT ![h.key] = @ \cup {a}]
  /\ UNCHANGED <<manager, session, call, crashes>>

\* The handshake of the server: the agent of the token is resumed; any other
\* token, or none, gets a new agent.
ServerWelcome(c) ==
  /\ \E a \in IF AgentOf(c) = {} THEN {c} ELSE AgentOf(c) : Welcomes(c, a, {})
  /\ missed' = IF conn[c].open THEN missed ELSE missed \cup {conn[c].key}

\* Attach times out in a busy world, or the agent moved between worlds, which
\* takes its token from it.  The handshake ignores the error: a new agent joins.
\* The agent keeps its token, unless it moved or the world attaches it late: then
\* its new token is with nobody.
AttachFails(c) ==
  /\ AgentOf(c) # {}
  /\ \E lost \in SUBSET AgentOf(c) : Welcomes(c, c, lost)
  /\ missed' = missed \cup {conn[c].key}

\* "join failed", a read deadline, or the network.
ServerDrops(c) ==
  /\ conn[c].open
  /\ conn' = [conn EXCEPT ![c] = Used(FALSE)]
  /\ missed' = missed \cup Unread({c})
  /\ UNCHANGED <<manager, session, call, current, crashes, met>>

-----------------------------------------------------------------------------
(* Session.run and Session.connectAndReadLoop                              *)

Goto(s, r) == session' = [session EXCEPT ![s] = r]

\* "new" is before Start; a session that is done stays so.
Running(s) == session[s].run \notin {"new", "done"}

\* stop is seen at the top of the loop and while backing off.
RunStops(s) ==
  /\ session[s].run = "top" /\ session[s].stop
  /\ Goto(s, Dead)
  /\ UNCHANGED <<manager, call, conn, current, crashes, met, missed>>

\* The connection is up and HELLO written.  A dial that fails leaves the session
\* at the top, backing off; a stop that comes while dialling is not noticed.
Dial(s) ==
  \E c \in Conns :
    /\ session[s].run = "top"
    /\ conn[c].stage = "new" /\ \A d \in 1..c - 1 : conn[d].stage # "new"
    /\ conn' = [conn EXCEPT ![c] = [stage |-> "hello", open |-> TRUE, key |-> session[s].key,
                                    token |-> session[s].token]]
    /\ Goto(s, [session[s] EXCEPT !.run = "dialled", !.conn = c])
    /\ UNCHANGED <<manager, call, current, crashes, met, missed>>

\* The read loop asks for stop before every ReadMessage; then it closes the
\* connection and ends without an error.
ReadOn(s, registered) ==
  LET c == session[s].conn IN
  IF session[s].stop
  THEN Goto(s, Dead) /\ conn' = Closing({c})
  ELSE /\ Goto(s, [session[s] EXCEPT !.run = "reading", !.registered = registered])
       /\ UNCHANGED conn

\* s.conn = conn, after which Disconnect can reach the connection.
Register(s) ==
  /\ session[s].run = "dialled"
  /\ ReadOn(s, TRUE)
  /\ missed' = IF session[s].stop THEN missed \cup Unread({session[s].conn}) ELSE missed
  /\ UNCHANGED <<manager, call, current, crashes, met>>

\* The connection was closed, by either side.
ReadFails(s) ==
  LET c == session[s].conn IN
  /\ session[s].run = "reading" /\ ~conn[c].open
  /\ Goto(s, [session[s] EXCEPT !.run = "top", !.conn = None, !.registered = FALSE])
  /\ UNCHANGED <<manager, call, conn, current, crashes, met, missed>>

\* Slip: the session dials with the token it was created with.
TokenOfFirst(s, c) == session[s].token

\* The WELCOME names the token to resume with the next time.
TokenOf(s, c) == c

ReadWelcome(s) ==
  LET c == session[s].conn IN
  /\ session[s].run = "reading"
  /\ conn[c].stage = "welcome" /\ conn[c].open
  /\ conn' = [conn EXCEPT ![c] = Used(TRUE)]
  /\ Goto(s, [session[s] EXCEPT !.run = "reporting", !.token = TokenOf(s, c)])
  /\ UNCHANGED <<manager, call, current, crashes, met, missed>>

Saved(k, token) == [saved EXCEPT ![k] = token]

\* onSessionUpdate, which needs the mutex.
Report(s) ==
  LET k == session[s].key IN
  /\ session[s].run = "reporting" /\ mu = None
  /\ saved' = IF closed THEN saved ELSE Saved(k, session[s].conn)
  /\ missed' = IF closed THEN missed \cup {k} ELSE missed
  /\ ReadOn(s, session[s].registered)
  /\ UNCHANGED <<mu, closed, pool, recency, call, current, crashes, met>>

-----------------------------------------------------------------------------
(* Manager.getOrCreateSession, its callers, and Manager.Close              *)

\* bound: a session object is left for every call that may need one.
Room ==
  Cardinality({q \in Calls : call[q].pc \in {"wants", "evicts"}})
    < Cardinality({s \in Sessions : session[s].run = "new"})

Arrive(p, k) ==
  /\ call[p].pc = "idle" /\ Room
  /\ call' = [call EXCEPT ![p].pc = "wants", ![p].key = k]
  /\ UNCHANGED <<manager, session, conn, current, crashes, met, missed>>

Return(p) == call' = [call EXCEPT ![p] = Idle]

\* The call has the session and no longer the mutex.
Has(p, s) == call' = [call EXCEPT ![p].pc = "has", ![p].session = s]

Pooled == {pool[k] : k \in Keys} \ {None}

Full == Cardinality(Pooled) >= MaxSessions

TokenToResume(k) == saved[k]

\* The pooled sessions by lastUsedAt, except s.
RecencyWithout(s) ==
  IF Contains(recency, s)
  THEN RemoveAt(recency, CHOOSE i \in DOMAIN recency : recency[i] = s)
  ELSE recency

\* NewSession with the saved token, and Start.
Create(p, k, others) ==
  \E s \in Sessions :
    /\ session[s].run = "new" /\ \A r \in 1..s - 1 : session[r].run # "new"
    /\ pool' = [others EXCEPT ![k] = s]
    /\ session' = [session EXCEPT ![s] = [Fresh EXCEPT
                     !.run = "top", !.key = k, !.token = TokenToResume(k)]]
    /\ recency' = Append(RecencyWithout(call[p].session), s)
    /\ Has(p, s)

Refused(p) ==
  /\ call[p].pc = "wants" /\ mu = None
  /\ closed
  /\ Return(p)
  /\ UNCHANGED <<manager, session, conn, current, crashes, met, missed>>

Found(p) ==
  LET k == call[p].key IN
  /\ call[p].pc = "wants" /\ mu = None
  /\ ~closed /\ pool[k] # None
  /\ Has(p, pool[k])
  /\ UNCHANGED <<manager, session, conn, current, crashes, met, missed>>

Created(p) ==
  LET k == call[p].key IN
  /\ call[p].pc = "wants" /\ mu = None
  /\ ~closed /\ pool[k] = None /\ ~Full
  /\ Create(p, k, pool)
  /\ UNCHANGED <<mu, closed, saved, conn, current, crashes, met, missed>>

\* The least recently used session is closed while the mutex is held.
Evict(p) ==
  LET s == Head(recency) IN
  /\ call[p].pc = "wants" /\ mu = None
  /\ ~closed /\ pool[call[p].key] = None /\ Full
  /\ mu' = p
  /\ session' = [session EXCEPT ![s] = Stopped(@)]
  /\ conn' = Closing(Registered(s))
  /\ missed' = missed \cup Unread(Registered(s))
  /\ call' = [call EXCEPT ![p].pc = "evicts", ![p].session = s]
  /\ UNCHANGED <<closed, pool, saved, recency, current, crashes, met>>

\* Slip: Close does not wait for the goroutine.
EndedAtOnce(s) == TRUE

\* Session.done is closed.
Ended(s) == session[s].run = "done"

Evicted(p) ==
  LET s == call[p].session IN
  /\ call[p].pc = "evicts" /\ Ended(s)
  /\ mu' = None
  /\ Create(p, call[p].key, [k \in Keys |-> IF pool[k] = s THEN None ELSE pool[k]])
  /\ UNCHANGED <<closed, saved, conn, current, crashes, met, missed>>

\* The call touches its session and uses it.  The session may have been evicted
\* since; it then only reports that it is not connected.
Use(p) ==
  LET s == call[p].session IN
  /\ call[p].pc = "has"
  /\ recency' = IF Contains(recency, s)
                THEN Append(RecencyWithout(s), s)
                ELSE recency
  /\ Return(p)
  /\ UNCHANGED <<mu, closed, pool, saved, session, conn, current, crashes, met, missed>>

\* The disconnect tool; the session will dial again.
Disconnect(p) ==
  LET s == call[p].session IN
  /\ call[p].pc = "has"
  /\ session' = [session EXCEPT ![s] = Disconnected(@)]
  /\ conn' = Closing(Registered(s))
  /\ missed' = missed \cup Unread(Registered(s))
  /\ Return(p)
  /\ UNCHANGED <<manager, current, crashes, met>>

Close(p) ==
  /\ call[p].pc = "idle" /\ mu = None /\ ~closed
  /\ closed' = TRUE
  /\ call' = [call EXCEPT ![p] = [Idle EXCEPT !.pc = "closes", !.rest = Pooled]]
  /\ UNCHANGED <<mu, pool, saved, recency, session, conn, current, crashes, met, missed>>

\* The sessions are closed one after the other, without the mutex.
CloseNext(p) ==
  \E s \in call[p].rest :
    /\ call[p].pc = "closes"
    /\ call[p].session # None => Ended(call[p].session)
    /\ session' = [session EXCEPT ![s] = Stopped(@)]
    /\ conn' = Closing(Registered(s))
    /\ missed' = missed \cup Unread(Registered(s))
    /\ call' = [call EXCEPT ![p].session = s, ![p].rest = @ \ {s}]
    /\ UNCHANGED <<manager, current, crashes, met>>

CloseEnds(p) ==
  /\ call[p].pc = "closes" /\ call[p].rest = {}
  /\ call[p].session # None => Ended(call[p].session)
  /\ Return(p)
  /\ UNCHANGED <<manager, session, conn, current, crashes, met, missed>>

\* The process dies at any point and starts again from the state file.
Crash ==
  LET live == {s \in Sessions : Running(s)}
      wires == {c \in Conns : conn[c].open} IN
  /\ crashes < MaxCrashes
  /\ crashes' = crashes + 1
  /\ mu' = None /\ closed' = FALSE
  /\ pool' = [k \in Keys |-> None]
  /\ recency' = <<>>
  /\ call' = [p \in Calls |-> Idle]
  /\ session' = [s \in Sessions |->
                   IF s \in live THEN Dead ELSE session[s]]
  /\ conn' = Closing(wires)
  /\ missed' = missed \cup Unread(wires)
       \cup {session[s].key : s \in {r \in live : session[r].run = "reporting"}}
  /\ UNCHANGED <<saved, current, met>>

-----------------------------------------------------------------------------
SessionStep(s) ==
  \/ RunStops(s) \/ Dial(s) \/ Register(s)
  \/ ReadFails(s) \/ ReadWelcome(s) \/ Report(s)

CallStep(p) ==
  \/ Refused(p) \/ Found(p) \/ Created(p) \/ Evict(p) \/ Evicted(p)
  \/ Use(p) \/ CloseNext(p) \/ CloseEnds(p)

Next ==
  \/ \E s \in Sessions : SessionStep(s)
  \/ \E p \in Calls : CallStep(p) \/ Disconnect(p) \/ Close(p)
  \/ \E p \in Calls, k \in Keys : Arrive(p, k)
  \/ \E c \in Conns : ServerWelcome(c) \/ AttachFails(c) \/ ServerDrops(c)
  \/ Crash

Spec == Init /\ [][Next]_vars

\* A session that has something to do other than to dial or to read.
GoesOn(s) == RunStops(s) \/ Register(s) \/ ReadFails(s)

\* Goroutines that can go on do; sync.Mutex hands itself to a goroutine that
\* has waited long enough.  That the server answers is not assumed.
FairSpec ==
  /\ Spec
  /\ \A s \in Sessions : WF_vars(GoesOn(s)) /\ SF_vars(Report(s))
  /\ \A p \in Calls : SF_vars(CallStep(p))

-----------------------------------------------------------------------------
(* Properties                                                              *)

\* A key is served by one goroutine at a time: two of them would take turns in
\* invalidating each other's token.
OneSessionPerKey ==
  \A r, s \in Sessions :
    Running(r) /\ Running(s) /\ session[r].key = session[s].key => r = s

\* However sessions reconnect, are evicted and recreated or restart with the
\* sidecar, a key plays one agent, if every WELCOME was reported and the server
\* resumed the agent when it had its token, and never the agent of another key,
\* whatever was missed.
SameAgent ==
  /\ \A k \in Keys \ missed : Cardinality(met[k]) <= 1
  /\ \A k, l \in Keys : k # l => met[k] \cap met[l] = {}

\* An eviction waits for a session that waits for the mutex the eviction holds.
Stuck ==
  \E p \in Calls :
    call[p].pc = "evicts" /\ session[call[p].session].run = "reporting"

\* A call returns and a closed manager has closed its sessions, unless an
\* eviction has met a WELCOME.
CallsEnd == \A p \in Calls : call[p].pc # "idle" ~> call[p].pc = "idle" \/ Stuck

-----------------------------------------------------------------------------
(* Claims of comments that the code does not live up to                    *)

\* "Ensure any blocking ReadMessage wakes up promptly.": a session that is
\* asked to stop ends.
StopEnds == \A s \in Sessions : session[s].stop ~> session[s].run = "done"
=============================================================================
