--------------------------- MODULE WorldTransfer ---------------------------
(***************************************************************************)
(* The multi-world manager moving agents between world loops.              *)
(*                                                                         *)
(* Every world is one goroutine (World.Run).  It reads requests from one   *)
(* channel per kind and handles what it has read when its ticker fires, in *)
(* the order leaves, joins, transfers out, transfers in.  The manager runs *)
(* in the goroutines of its callers: the reader loop of a connection       *)
(* (Join, SWITCH_WORLD, Leave) and admin handlers (MoveAgentWorld).  A     *)
(* caller sends a request that carries its own answer channel and waits    *)
(* for the answer under one deadline that spans the whole operation; a     *)
(* caller that gives up leaves the request behind and the world handles it *)
(* anyway.                                                                 *)
(*                                                                         *)
(* World ticks, positions, items and organisations are abstracted: they    *)
(* decide whether a switch is allowed or on cooldown, which is a free      *)
(* choice here.                                                            *)
(***************************************************************************)
EXTENDS Naturals, Sequences

CONSTANTS
  Worlds,      \* world ids, each with its own loop goroutine
  JoinWorlds,  \* the worlds that connections ask for (world_preference)
  Conns,       \* client connections, one reader goroutine each
  Admins,      \* admin requests running MoveAgentWorld
  Timeouts,    \* whether a request context may expire
  MaxJoins,    \* bound on the agents a world creates
  MaxCalls,    \* bound on the requests one caller sends
  None         \* "no value": nil agent, nil Out channel, absent map entry

ASSUME WorldsAssumption == JoinWorlds \subseteq Worlds
ASSUME CallersAssumption == Conns \cap Admins = {}
ASSUME BoundsAssumption == MaxJoins \in Nat /\ MaxCalls \in Nat
ASSUME TimeoutsAssumption == Timeouts \in BOOLEAN

Callers == Conns \cup Admins

\* "A%d" of the per-world counter nextAgentNum: worlds number independently.
Ids == 1..MaxJoins

\* A character is identified by where and as what number it was created; the
\* program only knows its id.
Chars == Worlds \X Ids

\* One request value: who sent it and the how-manyth of its requests it is.
Calls == Callers \X (1..MaxCalls)

\* A resume token is named by the connection it was issued to.
Kinds == {"attach", "leave", "join", "out", "in"}

Requests ==
  [kind : Kinds, to : Worlds, id : Ids \cup {None}, char : Chars \cup {None},
   token : Conns \cup {None}, client : Conns \cup {None}, stage : {"sent", "taken", "done"},
   ok : BOOLEAN]

ASSUME NoneAssumption ==
         None \notin Worlds \cup Callers \cup Ids \cup Chars \cup Requests

\* Where a goroutine is, the number of requests it has sent, the agent and the
\* world of its session, and the transfer it is executing.
CallerStates ==
  [pc : {"off", "attaching", "joining", "idle", "out", "got", "in", "back",
         "undo", "placed", "gone"},
   n : 0..MaxCalls, id : Ids \cup {None}, char : Chars \cup {None},
   world : Worlds \cup {None}, src : Worlds \cup {None},
   dst : Worlds \cup {None}, expired : BOOLEAN]

VARIABLES
  agents,     \* World.agents: the character a world keeps under an id
  clients,    \* World.clients: whose Out channel receives the OBS of an id
  tokens,     \* Agent.ResumeToken of the agents a world keeps
  nextNum,    \* World.nextAgentNum
  req,        \* the requests sent and not yet forgotten, by call
  queue,      \* arrival order of the requests a world has not handled
  caller,     \* the manager operation each goroutine is executing
  residency,  \* Manager.agentToWorld
  givenUp     \* history: ids one of whose transfer requests was abandoned

vars ==
  <<agents, clients, tokens, nextNum, req, queue, caller, residency, givenUp>>

TypeOK ==
  /\ agents \in [Worlds -> [Ids -> Chars \cup {None}]]
  /\ clients \in [Worlds -> [Ids -> Conns \cup {None}]]
  /\ tokens \in [Worlds -> [Ids -> Conns \cup {None}]]
  /\ nextNum \in [Worlds -> 0..MaxJoins]
  /\ req \in [Calls -> Requests \cup {None}]
  /\ caller \in [Callers -> CallerStates]
  /\ residency \in [Ids -> Worlds \cup {None}]
  /\ givenUp \subseteq Ids

Init ==
  /\ agents = [w \in Worlds |-> [i \in Ids |-> None]]
  /\ clients = [w \in Worlds |-> [i \in Ids |-> None]]
  /\ tokens = [w \in Worlds |-> [i \in Ids |-> None]]
  /\ nextNum = [w \in Worlds |-> 0]
  /\ req = [t \in Calls |-> None]
  /\ queue = [w \in Worlds |-> <<>>]
  /\ caller = [p \in Callers |->
       [pc |-> IF p \in Conns THEN "off" ELSE "idle",
        n |-> 0, id |-> None, char |-> None, world |-> None,
        src |-> None, dst |-> None, expired |-> FALSE]]
  /\ residency = [i \in Ids |-> None]
  /\ givenUp = {}

-----------------------------------------------------------------------------
(* Sending, answering and abandoning a request                             *)

Current(p) == <<p, caller[p].n>>

\* The goroutine is blocked on the answer channel of its latest request.
Waiting(p) == caller[p].pc \in {"attaching", "joining", "out", "in", "back"}

Awaited(t) == Waiting(t[1]) /\ t = Current(t[1])

Answered(p) == Waiting(p) /\ req[Current(p)].stage = "done"

\* A request of one kind to world w; the fields it does not use are None.
Request(kind, w) ==
  [kind |-> kind, to |-> w, id |-> None, char |-> None, token |-> None,
   client |-> None, stage |-> "sent", ok |-> FALSE]

\* p sends request r; its goroutine continues as `next`.
Send(p, r, next) ==
  LET t == <<p, caller[p].n + 1>> IN
  /\ caller[p].n < MaxCalls
  /\ req' = [req EXCEPT ![t] = r]
  /\ queue' = [queue EXCEPT ![r.to] = Append(@, t)]
  /\ caller' = [caller EXCEPT ![p] = [next EXCEPT !.n = @ + 1]]

\* The operation ends: its context is cancelled, nothing of it is kept.
Ended(p) == [caller[p] EXCEPT !.pc = "idle", !.char = None, !.src = None,
                              !.dst = None, !.expired = FALSE,
                              !.id = IF p \in Conns THEN @ ELSE None]

Return(p) == caller' = [caller EXCEPT ![p] = Ended(p)]

\* p read its answer: the request is garbage.
Forget(p) == req' = [req EXCEPT ![Current(p)] = None]

\* Slip: a rollback does not pass the session's Out channel.
TransferOfNoClient(p, w) ==
  [Request("in", w) EXCEPT
     !.id = caller[p].id, !.char = caller[p].char,
     !.client = IF p \in Conns /\ w # caller[p].src THEN p ELSE None]

\* The transfer p carries, on its way to w; admin moves pass a nil Out.
TransferOf(p, w) ==
  [Request("in", w) EXCEPT !.id = caller[p].id, !.char = caller[p].char,
                           !.client = IF p \in Conns THEN p ELSE None]

-----------------------------------------------------------------------------
(* Manager.Join, Manager.Attach and Manager.Leave                          *)

\* The handshake without a resume token, or after no world knew the token.
Connect(c, w) ==
  /\ caller[c].pc = "off"
  /\ Send(c, [Request("join", w) EXCEPT !.client = c],
          [caller[c] EXCEPT !.pc = "joining", !.world = w, !.expired = FALSE])
  /\ UNCHANGED <<agents, clients, tokens, nextNum, residency, givenUp>>

\* The handshake with the token an earlier connection got; worlds are tried
\* one after the other.
Resume(c, w, token) ==
  /\ caller[c].pc = "off"
  /\ caller[token].id # None
  /\ caller[c].n + 2 <= MaxCalls  \* bound: leaves a call for Connect
  /\ Send(c, [Request("attach", w) EXCEPT !.token = token, !.client = c],
          [caller[c] EXCEPT !.pc = "attaching", !.world = w,
                            !.expired = FALSE])
  /\ UNCHANGED <<agents, clients, tokens, nextNum, residency, givenUp>>

\* The world answered with the agent's id: a session exists.
Joined(c) ==
  /\ caller[c].pc \in {"attaching", "joining"} /\ Answered(c)
  /\ req[Current(c)].ok
  /\ LET i == req[Current(c)].id IN
       /\ caller' = [caller EXCEPT ![c].pc = "idle", ![c].id = i,
                                   ![c].expired = FALSE]
       /\ residency' = [residency EXCEPT ![i] = caller[c].world]
  /\ Forget(c)
  /\ UNCHANGED <<agents, clients, tokens, nextNum, queue, givenUp>>

\* The token is unknown there, or the attach request timed out: go on with the
\* next world or join afresh.
NotResumed(c) ==
  /\ caller[c].pc = "attaching"
  /\ caller[c].expired \/ (Answered(c) /\ ~req[Current(c)].ok)
  /\ caller' = [caller EXCEPT ![c].pc = "off"]
  /\ IF Answered(c) THEN Forget(c) ELSE UNCHANGED req
  /\ UNCHANGED <<agents, clients, tokens, nextNum, queue, residency, givenUp>>

\* The join request timed out: "join failed", the connection is closed.
JoinFailed(c) ==
  /\ caller[c].pc = "joining" /\ caller[c].expired
  /\ caller' = [caller EXCEPT ![c].pc = "gone"]
  /\ IF Answered(c) THEN Forget(c) ELSE UNCHANGED req
  /\ UNCHANGED <<agents, clients, tokens, nextNum, queue, residency, givenUp>>

Disconnect(c) ==
  /\ caller[c].pc = "idle"
  /\ Send(c, [Request("leave", caller[c].world) EXCEPT !.id = caller[c].id],
          [caller[c] EXCEPT !.pc = "gone"])
  /\ UNCHANGED <<agents, clients, tokens, nextNum, residency, givenUp>>

\* The leave channel stays full for worldLeaveSendTimeout.
LeaveDropped(c) ==
  /\ Timeouts
  /\ caller[c].pc = "idle"
  /\ caller' = [caller EXCEPT ![c].pc = "gone"]
  /\ UNCHANGED <<agents, clients, tokens, nextNum, req, queue, residency, givenUp>>

-----------------------------------------------------------------------------
(* Manager.switchWorld and Manager.MoveAgentWorld                          *)

\* SWITCH_WORLD passed the position query, the route, the permit and the entry
\* point; refusals before this point change nothing.
RequestOut(c, dst) ==
  LET s == caller[c] IN
  /\ c \in Conns /\ s.pc = "idle" /\ dst # s.world
  /\ agents[s.world][s.id] # None
  /\ s.n + 3 <= MaxCalls  \* bound: room for the whole operation
  /\ Send(c, [Request("out", s.world) EXCEPT !.id = s.id],
          [s EXCEPT !.pc = "out", !.src = s.world, !.dst = dst])
  /\ UNCHANGED <<agents, clients, tokens, nextNum, residency, givenUp>>

\* An admin moves the agent away from the world the residency map names.
MoveAgentWorld(m, i, dst) ==
  /\ m \in Admins /\ caller[m].pc = "idle"
  /\ residency[i] # None /\ residency[i] # dst
  /\ caller[m].n + 3 <= MaxCalls  \* bound, as above
  /\ Send(m, [Request("out", residency[i]) EXCEPT !.id = i],
          [caller[m] EXCEPT !.pc = "out", !.id = i, !.src = residency[i],
                            !.dst = dst])
  /\ UNCHANGED <<agents, clients, tokens, nextNum, residency, givenUp>>

\* The transfer arrived, or "agent not found": source_busy.
GotOut(p) ==
  /\ caller[p].pc = "out" /\ Answered(p)
  /\ LET r == req[Current(p)] IN
       IF r.ok
       THEN caller' = [caller EXCEPT ![p].pc = "got", ![p].char = r.char]
       ELSE Return(p)
  /\ Forget(p)
  /\ UNCHANGED <<agents, clients, tokens, nextNum, queue, residency, givenUp>>

\* RequestTransferOut returned ctx.Err(): source_busy, nothing is undone.
OutAbandoned(p) ==
  /\ caller[p].pc = "out" /\ caller[p].expired
  /\ Return(p)
  /\ IF Answered(p) THEN Forget(p) ELSE UNCHANGED req
  /\ givenUp' = givenUp \cup {caller[p].id}
  /\ UNCHANGED <<agents, clients, tokens, nextNum, queue, residency>>

\* Slip: the refusal returns without handing the agent back.
CooldownRefusedOnly(c) ==
  /\ c \in Conns /\ caller[c].pc = "got"
  /\ Return(c)
  /\ UNCHANGED <<agents, clients, tokens, nextNum, req, queue, residency,
                 givenUp>>

\* Only switchWorld refuses on cooldown; it hands the agent back to the source.
CooldownRefused(c) ==
  LET s == caller[c] IN
  /\ c \in Conns /\ s.pc = "got"
  /\ Send(c, TransferOf(c, s.src), [s EXCEPT !.pc = "back"])
  /\ UNCHANGED <<agents, clients, tokens, nextNum, residency, givenUp>>

RequestIn(p) ==
  LET s == caller[p] IN
  /\ s.pc = "got"
  /\ Send(p, TransferOf(p, s.dst), [s EXCEPT !.pc = "in"])
  /\ UNCHANGED <<agents, clients, tokens, nextNum, residency, givenUp>>

\* The destination took the agent, or refused it ("agent already present").
GotIn(p) ==
  /\ caller[p].pc = "in" /\ Answered(p)
  /\ caller' = [caller EXCEPT ![p].pc =
                  IF req[Current(p)].ok THEN "placed" ELSE "undo"]
  /\ Forget(p)
  /\ UNCHANGED <<agents, clients, tokens, nextNum, queue, residency, givenUp>>

\* RequestTransferIn returned ctx.Err(), with the request sent ("in") or while
\* the channel had no room ("got").
InAbandoned(p) ==
  /\ caller[p].pc \in {"got", "in"} /\ caller[p].expired
  /\ caller' = [caller EXCEPT ![p].pc = "undo"]
  /\ IF Answered(p) THEN Forget(p) ELSE UNCHANGED req
  /\ givenUp' = givenUp \cup {caller[p].id}
  /\ UNCHANGED <<agents, clients, tokens, nextNum, queue, residency>>

\* The rollback is sent with the context of the failed request.
Rollback(p) ==
  LET s == caller[p] IN
  /\ s.pc = "undo"
  /\ Send(p, TransferOf(p, s.src), [s EXCEPT !.pc = "back"])
  /\ UNCHANGED <<agents, clients, tokens, nextNum, residency, givenUp>>

\* Its error is ignored.
GotBack(p) ==
  /\ caller[p].pc = "back" /\ Answered(p)
  /\ Return(p)
  /\ Forget(p)
  /\ UNCHANGED <<agents, clients, tokens, nextNum, queue, residency, givenUp>>

\* The context was done before the rollback was sent or answered.
BackAbandoned(p) ==
  /\ caller[p].pc \in {"undo", "back"} /\ caller[p].expired
  /\ Return(p)
  /\ IF Answered(p) THEN Forget(p) ELSE UNCHANGED req
  /\ givenUp' = givenUp \cup {caller[p].id}
  /\ UNCHANGED <<agents, clients, tokens, nextNum, queue, residency>>

\* s.CurrentWorld = target (a connection only), then updateResidency.
Settle(p) ==
  LET s == caller[p] IN
  /\ s.pc = "placed"
  /\ caller' = [caller EXCEPT ![p] =
       IF p \in Conns THEN [Ended(p) EXCEPT !.world = s.dst] ELSE Ended(p)]
  /\ residency' = [residency EXCEPT ![s.id] = s.dst]
  /\ UNCHANGED <<agents, clients, tokens, nextNum, req, queue, givenUp>>

\* The three seconds pass, or the connection's writer fails and cancels.
Expire(p) ==
  /\ Timeouts
  /\ caller[p].pc \in {"attaching", "joining", "out", "got", "in", "undo", "back"}
  /\ ~caller[p].expired
  /\ caller' = [caller EXCEPT ![p].expired = TRUE]
  /\ UNCHANGED <<agents, clients, tokens, nextNum, req, queue, residency, givenUp>>

-----------------------------------------------------------------------------
(* World.Run and World.stepInternal                                        *)

\* The requests world w has received and not handled, or not yet received.
At(w, stage) ==
  {t \in Calls : req[t] # None /\ req[t].to = w /\ req[t].stage = stage}

Before(w, u, t) ==
  \E i, j \in 1..Len(queue[w]) : i < j /\ queue[w][i] = u /\ queue[w][j] = t

\* Leaves, joins, transfers out and transfers in are handled in this order.
Rank == [leave |-> 1, join |-> 2, out |-> 3, in |-> 4]

\* What waits in the channels whose requests are handled at a tick.
Pending(w) == {t \in At(w, "sent") : req[t].kind # "attach"}

\* The ticker fires; S is what the select loop has received since the last
\* tick.  A channel is a queue: what S has of a kind is what arrived first.
TickWith(w, S) ==
  /\ S # {}
  /\ At(w, "taken") = {}
  /\ \A t \in S, u \in At(w, "sent") :
       req[u].kind = req[t].kind /\ Before(w, u, t) => u \in S
  /\ req' = [t \in Calls |->
               IF t \in S THEN [req[t] EXCEPT !.stage = "taken"] ELSE req[t]]
  /\ UNCHANGED <<agents, clients, tokens, nextNum, queue, caller, residency, givenUp>>

Tick(w) == 
  \E S \in SUBSET Pending(w) : TickWith(w, S)

\* t is the next request of the tick in progress.
NextOf(w, t) ==
  /\ t \in At(w, "taken")
  /\ \A u \in At(w, "taken") \ {t} :
       \/ Rank[req[t].kind] < Rank[req[u].kind]
       \/ req[t].kind = req[u].kind /\ Before(w, t, u)

Handled(w, t) ==
  queue' = [queue EXCEPT ![w] = SelectSeq(@, LAMBDA u : u # t)]

\* Slip: the early return of an error path skips the answer.
AnswerSuccessOnly(t, answer) ==
  req' = [req EXCEPT ![t] =
            IF Awaited(t)
            THEN [answer EXCEPT !.stage = IF answer.ok THEN "done" ELSE "lost"]
            ELSE None]

\* The answer channel has room for one answer; nobody reads it when the sender
\* has gone.
Answer(t, answer) ==
  req' = [req EXCEPT ![t] =
            IF Awaited(t) THEN [answer EXCEPT !.stage = "done"] ELSE None]

\* Read and handled between two ticks: the token is replaced, the client too.
HandleAttach(w, t) ==
  LET r == req[t]
      found == {i \in Ids : agents[w][i] # None /\ tokens[w][i] = r.token} IN
  /\ t \in At(w, "sent") /\ r.kind = "attach"
  /\ At(w, "taken") = {}
  /\ \A u \in At(w, "sent") : req[u].kind = "attach" => ~Before(w, u, t)
  /\ IF found = {}
     THEN Answer(t, r) /\ UNCHANGED <<clients, tokens>>
     ELSE \E i \in found :
            /\ clients' = [clients EXCEPT ![w][i] = r.client]
            /\ tokens' = [tokens EXCEPT ![w][i] = r.client]
            /\ Answer(t, [r EXCEPT !.id = i, !.ok = TRUE])
  /\ Handled(w, t)
  /\ UNCHANGED <<agents, nextNum, caller, residency, givenUp>>

HandleLeave(w, t) ==
  LET r == req[t] IN
  /\ NextOf(w, t) /\ r.kind = "leave"
  /\ clients' = IF agents[w][r.id] # None
                THEN [clients EXCEPT ![w][r.id] = None] ELSE clients
  /\ Answer(t, r)
  /\ Handled(w, t)
  /\ UNCHANGED <<agents, tokens, nextNum, caller, residency, givenUp>>

HandleJoin(w, t) ==
  LET r == req[t]
      i == nextNum[w] + 1 IN
  /\ NextOf(w, t) /\ r.kind = "join"
  /\ i \in Ids
  /\ nextNum' = [nextNum EXCEPT ![w] = i]
  /\ agents' = [agents EXCEPT ![w][i] = <<w, i>>]
  /\ clients' = [clients EXCEPT ![w][i] = r.client]
  /\ tokens' = [tokens EXCEPT ![w][i] = r.client]
  /\ Answer(t, [r EXCEPT !.id = i, !.ok = TRUE])
  /\ Handled(w, t)
  /\ UNCHANGED <<caller, residency, givenUp>>

\* Slips: the agent, or its client, stays behind.
AgentKept(w, i) == agents
ClientKept(w, i) == clients

\* delete(agents, id) and delete(clients, id).
WithoutAgent(w, i) == [agents EXCEPT ![w][i] = None]
WithoutClient(w, i) == [clients EXCEPT ![w][i] = None]

HandleTransferOut(w, t) ==
  LET r == req[t]
      present == agents[w][r.id] # None IN
  /\ NextOf(w, t) /\ r.kind = "out"
  /\ agents' = WithoutAgent(w, r.id)
  /\ tokens' = [tokens EXCEPT ![w][r.id] = None]
  /\ clients' = IF present THEN WithoutClient(w, r.id) ELSE clients
  /\ Answer(t, [r EXCEPT !.ok = present, !.char = agents[w][r.id]])
  /\ Handled(w, t)
  /\ UNCHANGED <<nextNum, caller, residency, givenUp>>

\* The agent is rebuilt from the transfer, which has no resume token.
HandleTransferIn(w, t) ==
  LET r == req[t]
      absent == agents[w][r.id] = None IN
  /\ NextOf(w, t) /\ r.kind = "in"
  /\ agents' = IF absent
               THEN [agents EXCEPT ![w][r.id] = r.char] ELSE agents
  /\ clients' = IF absent /\ r.client # None
                THEN [clients EXCEPT ![w][r.id] = r.client] ELSE clients
  /\ Answer(t, [r EXCEPT !.ok = absent])
  /\ Handled(w, t)
  /\ UNCHANGED <<tokens, nextNum, caller, residency, givenUp>>

Handle(w) ==
  \E t \in Calls : \/ HandleAttach(w, t)
                   \/ HandleLeave(w, t) \/ HandleJoin(w, t)
                   \/ HandleTransferOut(w, t) \/ HandleTransferIn(w, t)

-----------------------------------------------------------------------------
ConnStep(c) ==
  \/ \E w \in JoinWorlds : Connect(c, w)
  \/ \E w \in Worlds, token \in Conns : Resume(c, w, token)
  \/ Disconnect(c) \/ LeaveDropped(c)
  \/ \E w \in Worlds : RequestOut(c, w)
  \/ CooldownRefused(c)

AdminStep(m) == \E i \in Ids, w \in Worlds : MoveAgentWorld(m, i, w)

\* What a goroutine does once it is inside an operation.
Proceed(p) ==
  \/ GotOut(p) \/ RequestIn(p) \/ GotIn(p) \/ Rollback(p) \/ GotBack(p)
  \/ Settle(p) \/ Joined(p) \/ NotResumed(p)

Abandon(p) == OutAbandoned(p) \/ InAbandoned(p) \/ BackAbandoned(p)
              \/ JoinFailed(p)

Continue(p) == Proceed(p) \/ Abandon(p)

Next ==
  \/ \E c \in Conns : ConnStep(c)
  \/ \E m \in Admins : AdminStep(m)
  \/ \E p \in Callers : Continue(p) \/ Expire(p)
  \/ \E w \in Worlds : Tick(w) \/ Handle(w)

Spec == Init /\ [][Next]_vars

\* A world's loop and the goroutines inside an operation keep running.  The
\* select statement of World.Run picks among its ready channels at random, so
\* again and again it has emptied them before the ticker fires.
Fairness ==
  /\ \A w \in Worlds : WF_vars(Handle(w)) /\ SF_vars(TickWith(w, Pending(w)))
  /\ \A p \in Callers : WF_vars(Continue(p))

FairSpec == Spec /\ Fairness

-----------------------------------------------------------------------------
(* Properties                                                              *)

\* Between the source's answer and the destination's, the caller carries the
\* agent: no world has it.
Carries(p, i) ==
  LET s == caller[p]
      r == req[Current(p)] IN
  /\ s.id = i
  /\ \/ s.pc \in {"got", "undo"}
     \/ s.pc = "out" /\ r.stage = "done" /\ r.ok
     \/ s.pc \in {"in", "back"} /\ ~(r.stage = "done" /\ r.ok)

Present(w, i) == agents[w][i] # None

\* An agent no request of which was given up is never in two worlds, never in
\* a world and in the hands of a caller, and never in two callers' hands.
NoDuplicate ==
  \A i \in Ids \ givenUp :
    /\ \A v, w \in Worlds : Present(v, i) /\ Present(w, i) => v = w
    /\ \A p, q \in Callers : Carries(p, i) /\ Carries(q, i) => p = q
    /\ \A w \in Worlds, p \in Callers : ~(Present(w, i) /\ Carries(p, i))

\* An agent a world created, and no request of which was given up, is in some
\* world or in the hands of some caller, as the same character: switches that
\* are refused, rolled back or that race each other lose nobody.
NoOrphan ==
  \A d \in JoinWorlds : \A i \in 1..nextNum[d] :
    i \notin givenUp =>
      \/ \E w \in Worlds : agents[w][i] = <<d, i>>
      \/ \E p \in Callers : Carries(p, i)

\* A world delivers OBS only for agents it has: the two maps never drift apart.
ClientHasAgent ==
  \A w \in Worlds, i \in Ids : clients[w][i] # None => Present(w, i)

\* The only connection an agent ever had is, between two switches, the one that
\* gets the OBS of the world its session names: switches that are refused or
\* rolled back leave it registered.
Served ==
  \A c \in Conns :
    caller[c].pc = "idle" =>
      \/ clients[caller[c].world][caller[c].id] = c
      \/ \E d \in Conns \ {c} : \/ caller[d].id = caller[c].id
                                \/ caller[d].pc = "attaching"

\* An operation ends: no reader loop or admin handler hangs in a switch.
OperationsEnd ==
  \A p \in Callers :
    caller[p].pc \in {"joining", "out", "got", "in", "undo", "back", "placed"}
      ~> caller[p].pc \in {"idle", "gone"}

\* What switching worlds promises, for the characters clients can see.
Where(x) ==
  LET at == {w \in Worlds : agents[w][x[2]] = x} IN
  IF at = {} THEN IF x[2] <= nextNum[x[1]] THEN "on the way" ELSE "unborn"
  ELSE IF \E w \in at : at = {w} THEN CHOOSE w \in at : TRUE
  ELSE "in two places"

Promise == INSTANCE Placement
  WITH Unborn <- "unborn", OnTheWay <- "on the way",
       place <- [x \in Chars |-> Where(x)]

ImplementsPlacement == Promise!Spec

-----------------------------------------------------------------------------
(* Claims of comments and tests that the code does not live up to          *)

\* "Attempt rollback to source to avoid orphaning the agent."
NeverOrphaned ==
  \A d \in JoinWorlds : \A i \in 1..nextNum[d] :
    \/ \E w \in Worlds : Present(w, i)
    \/ \E p \in Callers : Carries(p, i)

\* "agent should exist in exactly one world runtime": a character is not
\* replaced by another one that a world numbered the same.
NeverReplaced ==
  \A d \in JoinWorlds : \A i \in 1..nextNum[d] :
    \/ \E w \in Worlds : agents[w][i] = <<d, i>>
    \/ \E p \in Callers : caller[p].char = <<d, i>>
    \/ \E t \in Calls : req[t] # None /\ req[t].char = <<d, i>>
=============================================================================
