------------------------ MODULE WorldTransfer_proofs ------------------------
(***************************************************************************)
(* Proofs about WorldTransfer, for any worlds, connections, admin requests *)
(* and bounds.                                                             *)
(***************************************************************************)
EXTENDS WorldTransfer, TLAPS

\* No connection states a world preference, or they all state the same: agent
\* ids, which every world numbers from 1, are then unique.
SingleEntry == \A v, w \in JoinWorlds : v = w

-----------------------------------------------------------------------------
(* The inductive invariant                                                 *)

\* What a goroutine knows, by where it is.
Fields(p, s) ==
  /\ s.pc \in {"out", "got", "in", "back", "undo", "placed"}
       => s.id # None /\ s.src # None /\ s.dst # None
  /\ p \in Conns
       /\ s.pc \in {"idle", "out", "got", "in", "back", "undo", "placed"}
       => s.id # None /\ s.world # None
  /\ s.pc \in {"attaching", "joining"} => p \in Conns /\ s.world # None
  /\ s.pc = "joining" => s.world \in JoinWorlds
  /\ s.pc \in {"got", "in", "back", "undo"} => s.char # None

CallerFields == \A p \in Callers : Fields(p, caller[p])

\* The kind of the request a goroutine waits for.
KindOf(pc) ==
  CASE pc = "attaching" -> "attach"
    [] pc = "joining" -> "join"
    [] pc = "out" -> "out"
    [] OTHER -> "in"

Blocking == {"attaching", "joining", "out", "in", "back"}

\* r is what a goroutine in state s waits for.
Matches(s, r) ==
  /\ r # None
  /\ r.kind = KindOf(s.pc)
  /\ s.pc \in {"out", "in", "back"} => r.id = s.id
  /\ s.pc = "joining" => r.to = s.world
  /\ s.pc \in {"in", "back"} => r.char = s.char
  /\ s.pc \in {"attaching", "joining"} /\ r.stage = "done" /\ r.ok
       => r.id # None
  /\ s.pc = "joining" /\ r.stage = "done" => r.ok

\* A request has its arguments, and no answer before it is handled.
WellFormed(r) ==
  /\ r.kind \in {"leave", "out", "in"} => r.id # None
  /\ r.kind = "join" => r.to \in JoinWorlds
  /\ r.stage # "done" => ~r.ok
  /\ r.kind = "in" \/ (r.kind = "out" /\ r.ok) => r.char # None

\* A request nobody waits for is an abandoned one, or a leave.
Abandoned(r) ==
  /\ r.stage # "done"
  /\ r.kind \in {"out", "in"} => r.id \in givenUp

RequestState ==
  /\ \A p \in Callers : Waiting(p) =>
       caller[p].n # 0 /\ Matches(caller[p], req[Current(p)])
  /\ \A t \in Calls : req[t] # None =>
       /\ t[2] <= caller[t[1]].n
       /\ WellFormed(req[t])
       /\ ~Awaited(t) => Abandoned(req[t])

Shape == TypeOK /\ CallerFields /\ RequestState

\* Ids in circulation have been given out by the world that agents join.
Issued(i) == i \in Ids /\ \A d \in JoinWorlds : i <= nextNum[d]

\* The character behind an id is the one created under that id.
Original(x, i) == x \in Chars /\ x[1] \in JoinWorlds /\ x[2] = i

AgentIds ==
  \A w \in Worlds, i \in Ids :
    agents[w][i] # None => Issued(i) /\ Original(agents[w][i], i)

CallerIds ==
  \A p \in Callers :
    /\ caller[p].id # None => Issued(caller[p].id)
    /\ caller[p].pc \in {"got", "in", "back", "undo"}
         => Original(caller[p].char, caller[p].id)

RequestIds ==
  \A t \in Calls : req[t] # None =>
    /\ req[t].id # None => Issued(req[t].id)
    /\ req[t].kind = "in" => Original(req[t].char, req[t].id)
    /\ req[t].kind = "out" /\ req[t].stage = "done" /\ req[t].ok
         => Original(req[t].char, req[t].id)

ResidencyIds == \A i \in Ids : residency[i] # None => Issued(i)

IssuedIds == AgentIds /\ CallerIds /\ RequestIds /\ ResidencyIds

\* A rollback of an agent nobody gave up on is never refused.
BackTaken ==
  \A p \in Callers :
    caller[p].pc = "back" /\ Answered(p) /\ caller[p].id \notin givenUp
      => req[Current(p)].ok

Safe == BackTaken /\ NoDuplicate /\ NoOrphan

IInv == Shape /\ IssuedIds /\ Safe

-----------------------------------------------------------------------------
(* Type correctness                                                        *)

LEMMA InitTypeOK == Init => TypeOK
<1> SUFFICES ASSUME Init PROVE TypeOK
  OBVIOUS
<1>1. caller \in [Callers -> CallerStates]
  BY BoundsAssumption DEF Init, CallerStates
<1>2. nextNum \in [Worlds -> 0..MaxJoins]
  BY BoundsAssumption DEF Init
<1> QED
  BY <1>1, <1>2 DEF Init, TypeOK

LEMMA CurrentCall ==
  ASSUME TypeOK, NEW p \in Callers, caller[p].n # 0
  PROVE  Current(p) \in Calls
<1>1. caller[p].n \in 1..MaxCalls
  BY BoundsAssumption DEF TypeOK, CallerStates
<1> QED
  BY <1>1 DEF Current, Calls

LEMMA RequestType ==
  ASSUME NEW k \in Kinds, NEW w \in Worlds
  PROVE  Request(k, w) \in Requests
  BY DEF Request, Requests

LEMMA SendType ==
  ASSUME TypeOK, NEW p \in Callers, NEW r \in Requests,
         NEW next \in CallerStates, next.n = caller[p].n,
         Send(p, r, next)
  PROVE  /\ req' \in [Calls -> Requests \cup {None}]
         /\ caller' \in [Callers -> CallerStates]
<1> DEFINE k == caller[p].n + 1
<1>1. caller[p] \in CallerStates
  BY DEF TypeOK
<1>2. k \in 1..MaxCalls
  BY <1>1, BoundsAssumption DEF CallerStates, Send
<1>3. req' \in [Calls -> Requests \cup {None}]
  BY DEF Send, TypeOK
<1>4. [next EXCEPT !.n = k] \in CallerStates
  BY <1>2, BoundsAssumption DEF CallerStates
<1>5. caller' = [caller EXCEPT ![p] = [next EXCEPT !.n = k]]
  BY <1>1 DEF Send, CallerStates
<1> QED
  BY <1>3, <1>4, <1>5 DEF TypeOK

LEMMA AnswerType ==
  ASSUME TypeOK, NEW t \in Calls, NEW answer \in Requests, Answer(t, answer)
  PROVE  req' \in [Calls -> Requests \cup {None}]
<1>1. [answer EXCEPT !.stage = "done"] \in Requests
  BY DEF Requests
<1> QED
  BY <1>1 DEF Answer, TypeOK

LEMMA ForgetType ==
  ASSUME TypeOK, NEW p \in Callers, Forget(p)
  PROVE  req' \in [Calls -> Requests \cup {None}]
  BY DEF Forget, TypeOK

LEMMA ReturnType ==
  ASSUME TypeOK, NEW p \in Callers
  PROVE  /\ Ended(p) \in CallerStates
         /\ Return(p) => caller' \in [Callers -> CallerStates]
<1>1. caller[p] \in CallerStates
  BY DEF TypeOK
<1>2. \A i \in Ids \cup {None} :
        [caller[p] EXCEPT !.pc = "idle", !.char = None, !.src = None,
                          !.dst = None, !.expired = FALSE, !.id = i]
          \in CallerStates
  BY <1>1 DEF CallerStates
<1>3. caller[p].id \in Ids \cup {None}
  BY <1>1 DEF CallerStates
<1>4. Ended(p) \in CallerStates
  <2>1. CASE p \in Conns
    BY <2>1, <1>2, <1>3 DEF Ended
  <2>2. CASE p \notin Conns
    BY <2>2, <1>2 DEF Ended
  <2> QED
    BY <2>1, <2>2
<1> QED
  BY <1>4 DEF Return, TypeOK

LEMMA SendTypeOK ==
  ASSUME TypeOK, NEW p \in Callers, NEW r \in Requests,
         NEW next \in CallerStates, next.n = caller[p].n, Send(p, r, next),
         UNCHANGED <<agents, clients, tokens, nextNum, residency, givenUp>>
  PROVE  TypeOK'
<1>1. /\ req' \in [Calls -> Requests \cup {None}]
      /\ caller' \in [Callers -> CallerStates]
  BY SendType
<1> QED
  BY <1>1 DEF TypeOK

LEMMA TransferType ==
  ASSUME TypeOK, NEW p \in Callers, NEW w \in Worlds
  PROVE  TransferOf(p, w) \in Requests
<1>1. /\ caller[p].id \in Ids \cup {None}
      /\ caller[p].char \in Chars \cup {None}
  BY DEF TypeOK, CallerStates
<1>2. (IF p \in Conns THEN p ELSE None) \in Conns \cup {None}
  OBVIOUS
<1> QED
  BY <1>1, <1>2 DEF TransferOf, Request, Requests, Kinds

\* Steps of a goroutine that send a request.
LEMMA SendingTypeOK ==
  ASSUME TypeOK, CallerFields, NEW p \in Callers,
         \/ p \in Conns /\ \E w \in JoinWorlds : Connect(p, w)
         \/ p \in Conns /\ \E w \in Worlds, k \in Conns : Resume(p, w, k)
         \/ p \in Conns /\ Disconnect(p)
         \/ \E w \in Worlds : RequestOut(p, w)
         \/ \E i \in Ids, w \in Worlds : MoveAgentWorld(p, i, w)
         \/ CooldownRefused(p) \/ RequestIn(p) \/ Rollback(p)
  PROVE  TypeOK'
<1> DEFINE s == caller[p]
<1>0. s \in CallerStates
  BY DEF TypeOK
<1>1. ASSUME p \in Conns, NEW w \in JoinWorlds, Connect(p, w) PROVE TypeOK'
  <2>1. [Request("join", w) EXCEPT !.client = p] \in Requests
    BY <1>1, WorldsAssumption DEF Request, Requests, Kinds, Callers
  <2>2. [s EXCEPT !.pc = "joining", !.world = w, !.expired = FALSE]
          \in CallerStates
    BY <1>0, WorldsAssumption DEF CallerStates
  <2>3. [s EXCEPT !.pc = "joining", !.world = w, !.expired = FALSE].n = s.n
    BY <1>0 DEF CallerStates
  <2> QED
    BY <1>1, <2>1, <2>2, <2>3, SendTypeOK DEF Connect
<1>2. ASSUME p \in Conns, NEW w \in Worlds, NEW k \in Conns, Resume(p, w, k)
      PROVE  TypeOK'
  <2>1. [Request("attach", w) EXCEPT !.token = k, !.client = p] \in Requests
    BY <1>2 DEF Request, Requests, Kinds, Callers
  <2>2. [s EXCEPT !.pc = "attaching", !.world = w, !.expired = FALSE]
          \in CallerStates
    BY <1>0 DEF CallerStates
  <2>3. [s EXCEPT !.pc = "attaching", !.world = w, !.expired = FALSE].n = s.n
    BY <1>0 DEF CallerStates
  <2> QED
    BY <1>2, <2>1, <2>2, <2>3, SendTypeOK DEF Resume
<1>3. ASSUME p \in Conns, Disconnect(p) PROVE TypeOK'
  <2>1. s.world \in Worlds
    BY <1>0, <1>3 DEF CallerFields, Fields, CallerStates, Disconnect
  <2>2. [Request("leave", s.world) EXCEPT !.id = s.id] \in Requests
    BY <1>0, <2>1 DEF Request, Requests, Kinds, CallerStates
  <2>3. /\ [s EXCEPT !.pc = "gone"] \in CallerStates
        /\ [s EXCEPT !.pc = "gone"].n = s.n
    BY <1>0 DEF CallerStates
  <2> QED
    BY <1>3, <2>2, <2>3, SendTypeOK DEF Disconnect
<1>4. ASSUME NEW w \in Worlds, RequestOut(p, w) PROVE TypeOK'
  <2>1. s.world \in Worlds
    BY <1>0, <1>4 DEF CallerFields, Fields, CallerStates, RequestOut
  <2>2. [Request("out", s.world) EXCEPT !.id = s.id] \in Requests
    BY <1>0, <2>1 DEF Request, Requests, Kinds, CallerStates
  <2>3. /\ [s EXCEPT !.pc = "out", !.src = s.world, !.dst = w] \in CallerStates
        /\ [s EXCEPT !.pc = "out", !.src = s.world, !.dst = w].n = s.n
    BY <1>0, <2>1 DEF CallerStates
  <2> QED
    BY <1>4, <2>2, <2>3, SendTypeOK DEF RequestOut
<1>5. ASSUME NEW i \in Ids, NEW w \in Worlds, MoveAgentWorld(p, i, w)
      PROVE  TypeOK'
  <2>1. residency[i] \in Worlds
    BY <1>5 DEF TypeOK, MoveAgentWorld
  <2>2. [Request("out", residency[i]) EXCEPT !.id = i] \in Requests
    BY <2>1 DEF Request, Requests, Kinds
  <2> DEFINE next == [s EXCEPT !.pc = "out", !.id = i, !.src = residency[i],
                               !.dst = w]
  <2>3. next \in CallerStates /\ next.n = s.n
    BY <1>0, <2>1 DEF CallerStates
  <2> QED
    BY <1>5, <2>2, <2>3, SendTypeOK DEF MoveAgentWorld
<1>6. ASSUME CooldownRefused(p) PROVE TypeOK'
  <2>1. TransferOf(p, s.src) \in Requests
    BY <1>0, <1>6, TransferType
       DEF CallerFields, Fields, CallerStates, CooldownRefused
  <2>2. [s EXCEPT !.pc = "back"] \in CallerStates /\ [s EXCEPT !.pc = "back"].n = s.n
    BY <1>0 DEF CallerStates
  <2> QED
    BY <1>6, <2>1, <2>2, SendTypeOK DEF CooldownRefused
<1>7. ASSUME RequestIn(p) PROVE TypeOK'
  <2>1. TransferOf(p, s.dst) \in Requests
    BY <1>0, <1>7, TransferType DEF CallerFields, Fields, CallerStates, RequestIn
  <2>2. [s EXCEPT !.pc = "in"] \in CallerStates /\ [s EXCEPT !.pc = "in"].n = s.n
    BY <1>0 DEF CallerStates
  <2> QED
    BY <1>7, <2>1, <2>2, SendTypeOK DEF RequestIn
<1>8. ASSUME Rollback(p) PROVE TypeOK'
  <2>1. TransferOf(p, s.src) \in Requests
    BY <1>0, <1>8, TransferType DEF CallerFields, Fields, CallerStates, Rollback
  <2>2. [s EXCEPT !.pc = "back"] \in CallerStates /\ [s EXCEPT !.pc = "back"].n = s.n
    BY <1>0 DEF CallerStates
  <2> QED
    BY <1>8, <2>1, <2>2, SendTypeOK DEF Rollback
<1> QED
  BY <1>1, <1>2, <1>3, <1>4, <1>5, <1>6, <1>7, <1>8

\* Steps of a goroutine that read an answer, give up, or end an operation.
LEMMA ReadingTypeOK ==
  ASSUME TypeOK, CallerFields, RequestState, NEW p \in Callers,
         \/ Joined(p) \/ NotResumed(p) \/ JoinFailed(p)
         \/ LeaveDropped(p) \/ GotOut(p) \/ GotIn(p) \/ GotBack(p)
         \/ OutAbandoned(p) \/ InAbandoned(p) \/ BackAbandoned(p)
         \/ Settle(p) \/ Expire(p)
  PROVE  TypeOK'
<1> DEFINE s == caller[p]
           Typed == /\ req' \in [Calls -> Requests \cup {None}]
                    /\ caller' \in [Callers -> CallerStates]
<1>0. s \in CallerStates
  BY DEF TypeOK
<1>1. (Answered(p) => Forget(p)) /\ (~Answered(p) => UNCHANGED req)
        => req' \in [Calls -> Requests \cup {None}]
  BY ForgetType DEF TypeOK
<1>2. ASSUME NEW pc \in {"idle", "off", "gone", "placed", "undo", "got"},
             caller' = [caller EXCEPT ![p].pc = pc]
      PROVE  caller' \in [Callers -> CallerStates]
  <2>1. [s EXCEPT !.pc = pc] \in CallerStates
    BY <1>0 DEF CallerStates
  <2> QED
    BY <1>2, <2>1 DEF TypeOK
<1>3. ASSUME Joined(p) PROVE TypeOK'
  <2> DEFINE i == req[Current(p)].id
  <2>1. i \in Ids /\ s.world \in Worlds
    <3>1. Waiting(p) /\ s.n # 0 /\ req[Current(p)] # None /\ i # None
      BY <1>3 DEF Joined, Answered, Waiting, RequestState, Matches
    <3>2. req[Current(p)] \in Requests
      BY <3>1, CurrentCall DEF TypeOK
    <3> QED
      BY <1>0, <1>3, <3>1, <3>2 DEF Requests, CallerFields, Fields, CallerStates, Joined
  <2>2. [[[s EXCEPT !.pc = "idle"] EXCEPT !.id = i] EXCEPT !.expired = FALSE]
          \in CallerStates
    BY <1>0, <2>1 DEF CallerStates
  <2>3. caller' = [caller EXCEPT ![p] =
          [[[s EXCEPT !.pc = "idle"] EXCEPT !.id = i] EXCEPT !.expired = FALSE]]
    BY <1>3 DEF Joined, TypeOK
  <2>4. caller' \in [Callers -> CallerStates]
    BY <2>2, <2>3 DEF TypeOK
  <2> QED
    BY <1>3, <2>1, <2>4, ForgetType DEF Joined, TypeOK
<1>4. ASSUME NotResumed(p) \/ JoinFailed(p) \/ LeaveDropped(p) PROVE TypeOK'
  BY <1>1, <1>2, <1>4 DEF NotResumed, JoinFailed, LeaveDropped, TypeOK
<1>5. ASSUME GotOut(p) PROVE TypeOK'
  <2> DEFINE r == req[Current(p)]
  <2>1. r \in Requests
    <3>1. Waiting(p) /\ s.n # 0 /\ r # None
      BY <1>5 DEF GotOut, Waiting, RequestState, Matches
    <3> QED
      BY <3>1, CurrentCall DEF TypeOK
  <2>2. [[s EXCEPT !.pc = "got"] EXCEPT !.char = r.char] \in CallerStates
    BY <1>0, <2>1 DEF CallerStates, Requests
  <2>3. CASE r.ok
    <3>1. caller' = [caller EXCEPT ![p] =
                       [[s EXCEPT !.pc = "got"] EXCEPT !.char = r.char]]
      BY <1>5, <2>3 DEF GotOut, TypeOK
    <3> QED
      BY <1>5, <2>2, <3>1, ForgetType DEF GotOut, TypeOK
  <2>4. CASE ~r.ok
    BY <1>5, <2>4, ReturnType, ForgetType DEF GotOut, TypeOK
  <2> QED
    BY <2>3, <2>4
<1>6. ASSUME GotIn(p) PROVE TypeOK'
  BY <1>2, <1>6, ForgetType DEF GotIn, TypeOK
<1>7. ASSUME GotBack(p) PROVE TypeOK'
  BY <1>7, ReturnType, ForgetType DEF GotBack, TypeOK
<1>8. ASSUME OutAbandoned(p) \/ InAbandoned(p) \/ BackAbandoned(p)
      PROVE  TypeOK'
  <2>1. s.id \in Ids
    BY <1>0, <1>8 DEF OutAbandoned, InAbandoned, BackAbandoned, CallerFields,
                      Fields, CallerStates
  <2>2. caller' \in [Callers -> CallerStates]
    BY <1>2, <1>8, ReturnType DEF OutAbandoned, InAbandoned, BackAbandoned
  <2> QED
    BY <1>1, <1>8, <2>1, <2>2
       DEF OutAbandoned, InAbandoned, BackAbandoned, TypeOK
<1>9. ASSUME Settle(p) PROVE TypeOK'
  <2>1. s.id \in Ids /\ s.dst \in Worlds
    BY <1>0, <1>9 DEF Settle, CallerFields, Fields, CallerStates
  <2>2. [Ended(p) EXCEPT !.world = s.dst] \in CallerStates
    BY <2>1, ReturnType DEF CallerStates
  <2>3. caller' \in [Callers -> CallerStates]
    BY <1>9, <2>2, ReturnType DEF Settle, TypeOK
  <2> QED
    BY <1>9, <2>1, <2>3 DEF Settle, TypeOK
<1>10. ASSUME Expire(p) PROVE TypeOK'
  <2>1. [s EXCEPT !.expired = TRUE] \in CallerStates
    BY <1>0 DEF CallerStates
  <2> QED
    BY <1>10, <2>1 DEF Expire, TypeOK
<1> QED
  BY <1>3, <1>4, <1>5, <1>6, <1>7, <1>8, <1>9, <1>10

\* Steps of a world's loop.
LEMMA WorldTypeOK ==
  ASSUME TypeOK, RequestState, NEW w \in Worlds,
         Tick(w) \/ Handle(w)
  PROVE  TypeOK'
<1>1. ASSUME NEW S \in SUBSET Pending(w), TickWith(w, S) PROVE TypeOK'
  <2>1. \A t \in S : t \in Calls /\ req[t] \in Requests
    BY DEF Pending, At, TypeOK
  <2>2. \A t \in S : [req[t] EXCEPT !.stage = "taken"] \in Requests
    BY <2>1 DEF Requests
  <2>3. req' \in [Calls -> Requests \cup {None}]
    BY <1>1, <2>2 DEF TickWith, TypeOK
  <2> QED
    BY <1>1, <2>3 DEF TickWith, TypeOK
<1>2. ASSUME NEW t \in Calls, HandleAttach(w, t) PROVE TypeOK'
  <2> DEFINE r == req[t]
  <2>1. r \in Requests
    BY <1>2 DEF HandleAttach, At, TypeOK
  <2>2. \A i \in Ids : [[r EXCEPT !.id = i] EXCEPT !.ok = TRUE] \in Requests
    BY <2>1 DEF Requests
  <2>3. req' \in [Calls -> Requests \cup {None}]
    BY <1>2, <2>1, <2>2, AnswerType DEF HandleAttach
  <2>4. r.client \in Conns \cup {None}
    BY <2>1 DEF Requests
  <2>5. \/ UNCHANGED <<clients, tokens>>
        \/ \E i \in Ids : /\ clients' = [clients EXCEPT ![w][i] = r.client]
                          /\ tokens' = [tokens EXCEPT ![w][i] = r.client]
    BY <1>2 DEF HandleAttach
  <2>6. /\ clients' \in [Worlds -> [Ids -> Conns \cup {None}]]
        /\ tokens' \in [Worlds -> [Ids -> Conns \cup {None}]]
    <3>1. ASSUME NEW i \in Ids, NEW x \in Conns \cup {None}
          PROVE  /\ [clients EXCEPT ![w][i] = x]
                      \in [Worlds -> [Ids -> Conns \cup {None}]]
                 /\ [tokens EXCEPT ![w][i] = x]
                      \in [Worlds -> [Ids -> Conns \cup {None}]]
      BY <3>1 DEF TypeOK
    <3>2. CASE UNCHANGED <<clients, tokens>>
      BY <3>2 DEF TypeOK
    <3> QED
      BY <2>4, <2>5, <3>1, <3>2
  <2> QED
    BY <1>2, <2>3, <2>6 DEF HandleAttach, TypeOK
<1>3. ASSUME NEW t \in Calls, HandleLeave(w, t) PROVE TypeOK'
  <2> DEFINE r == req[t]
  <2>1. r \in Requests
    BY <1>3 DEF HandleLeave, NextOf, At, TypeOK
  <2>2. req' \in [Calls -> Requests \cup {None}]
    BY <1>3, <2>1, AnswerType DEF HandleLeave
  <2> QED
    BY <1>3, <2>2 DEF HandleLeave, TypeOK
<1>4. ASSUME NEW t \in Calls, HandleJoin(w, t) PROVE TypeOK'
  <2> DEFINE r == req[t]
             i == nextNum[w] + 1
  <2>1. r \in Requests /\ i \in Ids
    BY <1>4 DEF HandleJoin, NextOf, At, TypeOK
  <2>2. [[r EXCEPT !.id = i] EXCEPT !.ok = TRUE] \in Requests
    BY <2>1 DEF Requests
  <2>3. req' \in [Calls -> Requests \cup {None}]
    BY <1>4, <2>2, AnswerType DEF HandleJoin
  <2>4. r.client \in Conns \cup {None}
    BY <2>1 DEF Requests
  <2>5. <<w, i>> \in Chars /\ i \in 0..MaxJoins
    BY <2>1, BoundsAssumption DEF Chars, Ids
  <2> QED
    BY <1>4, <2>1, <2>3, <2>4, <2>5 DEF HandleJoin, TypeOK
<1>5. ASSUME NEW t \in Calls, HandleTransferOut(w, t) PROVE TypeOK'
  <2> DEFINE r == req[t]
             present == agents[w][r.id] # None
  <2>1. r \in Requests /\ r.id \in Ids
    BY <1>5 DEF HandleTransferOut, NextOf, At, TypeOK, RequestState, WellFormed, Requests
  <2>2. agents[w][r.id] \in Chars \cup {None} /\ present \in BOOLEAN
    BY <2>1 DEF TypeOK
  <2>3. [[r EXCEPT !.ok = present] EXCEPT !.char = agents[w][r.id]] \in Requests
    BY <2>1, <2>2 DEF Requests
  <2>4. req' \in [Calls -> Requests \cup {None}]
    BY <1>5, <2>3, AnswerType DEF HandleTransferOut
  <2> QED
    BY <1>5, <2>1, <2>4
       DEF HandleTransferOut, WithoutAgent, WithoutClient, TypeOK
<1>6. ASSUME NEW t \in Calls, HandleTransferIn(w, t) PROVE TypeOK'
  <2> DEFINE r == req[t]
             absent == agents[w][r.id] = None
  <2>1. r \in Requests /\ r.id \in Ids
    BY <1>6 DEF HandleTransferIn, NextOf, At, TypeOK, RequestState, WellFormed, Requests
  <2>2. [r EXCEPT !.ok = absent] \in Requests
    BY <2>1 DEF Requests
  <2>3. req' \in [Calls -> Requests \cup {None}]
    BY <1>6, <2>2, AnswerType DEF HandleTransferIn
  <2>4. r.client \in Conns \cup {None} /\ r.char \in Chars \cup {None}
    BY <2>1 DEF Requests
  <2> QED
    BY <1>6, <2>1, <2>3, <2>4 DEF HandleTransferIn, TypeOK
<1> QED
  BY <1>1, <1>2, <1>3, <1>4, <1>5, <1>6 DEF Tick, Handle

LEMMA StepTypeOK == Shape /\ [Next]_vars => TypeOK'
<1> SUFFICES ASSUME TypeOK, CallerFields, RequestState, [Next]_vars
             PROVE  TypeOK'
  BY DEF Shape
<1>1. ASSUME NEW c \in Conns, ConnStep(c) PROVE TypeOK'
  BY <1>1, SendingTypeOK, ReadingTypeOK DEF ConnStep, Callers
<1>2. ASSUME NEW m \in Admins, AdminStep(m) PROVE TypeOK'
  BY <1>2, SendingTypeOK DEF AdminStep, Callers
<1>3. ASSUME NEW p \in Callers, Continue(p) \/ Expire(p) PROVE TypeOK'
  BY <1>3, SendingTypeOK, ReadingTypeOK DEF Continue, Proceed, Abandon
<1>4. ASSUME NEW w \in Worlds, Tick(w) \/ Handle(w) PROVE TypeOK'
  BY <1>4, WorldTypeOK
<1>5. CASE UNCHANGED vars
  BY <1>5 DEF vars, TypeOK
<1> QED
  BY <1>1, <1>2, <1>3, <1>4, <1>5 DEF Next

-----------------------------------------------------------------------------
(* What goroutines and their requests know of each other                   *)

LEMMA InitShape == Init => Shape
<1> SUFFICES ASSUME Init PROVE Shape
  OBVIOUS
<1>1. CallerFields
  BY CallersAssumption DEF Init, CallerFields, Fields
<1>2. RequestState
  BY DEF Init, RequestState, Waiting
<1> QED
  BY <1>1, <1>2, InitTypeOK DEF Shape

\* One goroutine moves from a state to the state s.
LEMMA MoveFields ==
  ASSUME TypeOK, CallerFields, NEW p \in Callers, NEW s, Fields(p, s),
         caller' = [caller EXCEPT ![p] = s]
  PROVE  CallerFields'
<1> SUFFICES ASSUME NEW q \in Callers PROVE Fields(q, caller'[q])
  BY DEF CallerFields, Fields
<1> QED
  BY DEF CallerFields, TypeOK

\* A goroutine that waits for nothing sends r and goes on as next.
LEMMA SendRequest ==
  ASSUME TypeOK, RequestState, NEW p \in Callers, ~Waiting(p),
         NEW r \in Requests, NEW next \in CallerStates,
         next.n = caller[p].n, Send(p, r, next), UNCHANGED givenUp,
         r.stage = "sent", WellFormed(r),
         next.pc \in Blocking => Matches(next, r),
         next.pc \notin Blocking => Abandoned(r)
  PROVE  RequestState'
<1> DEFINE k == caller[p].n + 1
           s == [next EXCEPT !.n = k]
           t0 == <<p, k>>
<1>0. /\ caller[p] \in CallerStates /\ caller \in [Callers -> CallerStates]
      /\ req \in [Calls -> Requests \cup {None}]
  BY DEF TypeOK
<1>1. k \in 1..MaxCalls /\ t0 \in Calls
  BY <1>0, BoundsAssumption DEF CallerStates, Send, Calls
<1>2. caller' = [caller EXCEPT ![p] = s]
  BY <1>0 DEF Send, CallerStates
<1>3. req' = [req EXCEPT ![t0] = r]
  BY DEF Send
<1>4. /\ s \in CallerStates /\ s.n = k /\ s.pc = next.pc /\ s.id = next.id
      /\ s.world = next.world /\ s.char = next.char
  BY <1>1, BoundsAssumption DEF CallerStates
<1>5. r # None /\ Matches(s, r) = Matches(next, r)
  BY <1>4, NoneAssumption DEF Matches
<1>6. ASSUME NEW q \in Callers, Waiting(q)'
      PROVE  caller'[q].n # 0 /\ Matches(caller'[q], req'[Current(q)'])
  <2>1. CASE q = p
    <3>1. caller'[q] = s /\ Current(q)' = t0
      BY <1>0, <1>2, <1>4, <2>1 DEF Current
    <3>2. next.pc \in Blocking
      BY <1>4, <1>6, <3>1 DEF Waiting, Blocking
    <3>3. req'[t0] = r
      BY <1>0, <1>1, <1>3
    <3> QED
      BY <1>1, <1>4, <1>5, <3>1, <3>2, <3>3
  <2>2. CASE q # p
    <3>1. caller'[q] = caller[q] /\ Current(q)' = Current(q)
      BY <1>0, <1>2, <2>2 DEF Current
    <3>2. Waiting(q)
      BY <1>6, <3>1 DEF Waiting
    <3>3. Current(q) # t0
      BY <2>2 DEF Current
    <3>4. Current(q) \in Calls
      BY <3>2, CurrentCall DEF RequestState
    <3>5. req'[Current(q)] = req[Current(q)]
      BY <1>0, <1>3, <3>3, <3>4
    <3> QED
      BY <3>1, <3>2, <3>5 DEF RequestState
  <2> QED
    BY <2>1, <2>2
<1>7. ASSUME NEW t \in Calls, req'[t] # None
      PROVE  /\ t[2] <= caller'[t[1]].n
             /\ WellFormed(req'[t])
             /\ ~Awaited(t)' => Abandoned(req[t])'
  <2>0. t[1] \in Callers /\ t[2] \in 1..MaxCalls /\ t = <<t[1], t[2]>>
    BY DEF Calls
  <2>1. CASE t = t0
    <3>1. caller'[t[1]] = s /\ req'[t] = r
      BY <1>0, <1>1, <1>2, <1>3, <2>1
    <3>2. next.pc \in Blocking => Awaited(t)'
      BY <1>4, <2>1, <3>1 DEF Awaited, Waiting, Blocking, Current
    <3>3. Abandoned(r) => Abandoned(r)'
      BY DEF Abandoned
    <3> QED
      BY <1>1, <1>4, <2>1, <3>1, <3>2, <3>3
  <2>2. CASE t # t0
    <3>1. req'[t] = req[t]
      BY <1>0, <1>3, <2>2
    <3>2. t[2] <= caller[t[1]].n /\ WellFormed(req[t])
          /\ (~Awaited(t) => Abandoned(req[t]))
      BY <1>7, <3>1 DEF RequestState
    <3>3. CASE t[1] = p
      <4>1. caller'[t[1]].n = k
        BY <1>0, <1>2, <1>4, <3>3
      <4>2. t[2] <= k
        BY <1>0, <1>1, <2>0, <3>2, <3>3, BoundsAssumption DEF CallerStates
      <4>3. ~Awaited(t)
        BY <3>3 DEF Awaited
      <4> QED
        BY <3>1, <3>2, <4>1, <4>2, <4>3 DEF Abandoned
    <3>4. CASE t[1] # p
      <4>1. caller'[t[1]] = caller[t[1]]
        BY <1>0, <1>2, <2>0, <3>4
      <4>2. Awaited(t)' = Awaited(t)
        BY <4>1 DEF Awaited, Waiting, Current
      <4> QED
        BY <3>1, <3>2, <4>1, <4>2 DEF Abandoned
    <3> QED
      BY <3>3, <3>4
  <2> QED
    BY <2>1, <2>2
<1> QED
  BY <1>6, <1>7 DEF RequestState, WellFormed, Matches, Abandoned

\* A goroutine stops waiting, with its answer or without.
LEMMA StopWaiting ==
  ASSUME TypeOK, RequestState, NEW p \in Callers, NEW s \in CallerStates,
         caller' = [caller EXCEPT ![p] = s], s.n = caller[p].n,
         s.pc \notin Blocking,
         IF Answered(p) THEN Forget(p) ELSE UNCHANGED req,
         givenUp \subseteq givenUp',
         caller[p].pc \in {"out", "in", "back"} /\ ~Answered(p)
           => caller[p].id \in givenUp'
  PROVE  RequestState'
<1>0. /\ caller[p] \in CallerStates /\ caller \in [Callers -> CallerStates]
      /\ req \in [Calls -> Requests \cup {None}]
  BY DEF TypeOK
<1>1. ASSUME NEW t \in Calls, t # Current(p) \/ ~Answered(p)
      PROVE  req'[t] = req[t]
  BY <1>0, <1>1 DEF Forget
<1>6. ASSUME NEW q \in Callers, Waiting(q)'
      PROVE  caller'[q].n # 0 /\ Matches(caller'[q], req'[Current(q)'])
  <2>1. q # p
    BY <1>0, <1>6 DEF Waiting, Blocking
  <2>2. caller'[q] = caller[q] /\ Current(q)' = Current(q)
    BY <1>0, <2>1 DEF Current
  <2>3. Waiting(q)
    BY <1>6, <2>2 DEF Waiting
  <2>4. Current(q) \in Calls /\ Current(q) # Current(p)
    BY <2>1, <2>3, CurrentCall DEF RequestState, Current
  <2> QED
    BY <1>1, <2>2, <2>3, <2>4 DEF RequestState
<1>7. ASSUME NEW t \in Calls, req'[t] # None
      PROVE  /\ t[2] <= caller'[t[1]].n
             /\ WellFormed(req'[t])
             /\ ~Awaited(t)' => Abandoned(req[t])'
  <2>0. t[1] \in Callers /\ t[2] \in 1..MaxCalls /\ t = <<t[1], t[2]>>
    BY DEF Calls
  <2>1. t # Current(p) \/ ~Answered(p)
    BY <1>0, <1>7 DEF Forget
  <2>2. req'[t] = req[t]
    BY <1>1, <2>1
  <2>3. t[2] <= caller[t[1]].n /\ WellFormed(req[t])
        /\ (~Awaited(t) => Abandoned(req[t]))
    BY <1>7, <2>2 DEF RequestState
  <2>4. caller'[t[1]].n = caller[t[1]].n
    BY <1>0, <2>0
  <2>5. Abandoned(req[t]) => Abandoned(req[t])'
    BY <2>2 DEF Abandoned
  <2>6. ASSUME Awaited(t), ~Awaited(t)' PROVE Abandoned(req[t])'
    <3>1. t[1] = p /\ Waiting(p) /\ t = Current(p)
      <4>1. CASE t[1] # p
        <5>1. caller'[t[1]] = caller[t[1]]
          BY <1>0, <2>0, <4>1
        <5> QED
          BY <2>6, <5>1 DEF Awaited, Waiting, Current
      <4> QED
        BY <2>6, <4>1 DEF Awaited
    <3>2. ~Answered(p)
      BY <2>1, <3>1
    <3>3. req[t].stage # "done"
      BY <3>1, <3>2 DEF Answered
    <3>4. Matches(caller[p], req[t])
      BY <3>1 DEF RequestState
    <3>5. req[t].kind \in {"out", "in"}
            => /\ caller[p].pc \in {"out", "in", "back"}
               /\ req[t].id = caller[p].id
      BY <3>1, <3>4 DEF Matches, KindOf, Waiting
    <3> QED
      BY <2>2, <3>2, <3>3, <3>5 DEF Abandoned
  <2> QED
    BY <2>2, <2>3, <2>4, <2>5, <2>6
<1> QED
  BY <1>6, <1>7 DEF RequestState, WellFormed, Matches, Abandoned

\* A world answers t.
LEMMA AnswerRequest ==
  ASSUME TypeOK, RequestState, UNCHANGED <<caller, givenUp>>,
         NEW t \in Calls, req[t] # None, NEW a \in Requests, Answer(t, a),
         a.kind = req[t].kind, a.to = req[t].to,
         a.kind \in {"leave", "out", "in"} => a.id = req[t].id,
         a.kind = "in" => a.char = req[t].char,
         a.kind = "out" /\ a.ok => a.char # None,
         a.kind \in {"attach", "join"} /\ a.ok => a.id # None,
         a.kind = "join" => a.ok
  PROVE  RequestState'
<1> DEFINE d == [a EXCEPT !.stage = "done"]
<1>0. caller[t[1]] \in CallerStates /\ req \in [Calls -> Requests \cup {None}]
  BY DEF TypeOK, Calls
<1>1. /\ d # None /\ d.stage = "done" /\ d.kind = a.kind /\ d.to = a.to
      /\ d.id = a.id /\ d.char = a.char /\ d.ok = a.ok
  BY NoneAssumption DEF Requests
<1>2. \A u \in Calls : Awaited(u)' = Awaited(u) /\ (u # t => req'[u] = req[u])
  BY <1>0 DEF Answer, Awaited, Waiting, Current
<1>3. req'[t] = IF Awaited(t) THEN d ELSE None
  BY <1>0 DEF Answer
<1>6. ASSUME NEW q \in Callers, Waiting(q)'
      PROVE  caller'[q].n # 0 /\ Matches(caller'[q], req'[Current(q)'])
  <2>1. /\ caller'[q] = caller[q] /\ Current(q)' = Current(q) /\ Waiting(q)
        /\ caller[q].n # 0 /\ Matches(caller[q], req[Current(q)])
    BY <1>6 DEF Current, Waiting, RequestState
  <2>2. Current(q) \in Calls
    BY <2>1, CurrentCall
  <2>3. CASE Current(q) = t
    <3>1. Awaited(t)
      BY <2>1, <2>3 DEF Awaited, Current
    <3>2. req'[t] = d
      BY <1>3, <3>1
    <3>3. Matches(caller[q], d)
      BY <1>1, <2>1, <2>3 DEF Matches, KindOf
    <3> QED
      BY <2>1, <2>3, <3>2, <3>3
  <2>4. CASE Current(q) # t
    BY <1>2, <2>1, <2>2, <2>4
  <2> QED
    BY <2>3, <2>4
<1>7. ASSUME NEW u \in Calls, req'[u] # None
      PROVE  /\ u[2] <= caller'[u[1]].n
             /\ WellFormed(req'[u])
             /\ ~Awaited(u)' => Abandoned(req[u])'
  <2>1. CASE u = t
    <3>1. Awaited(t) /\ req'[t] = d
      BY <1>3, <1>7, <2>1
    <3>2. WellFormed(req[t]) /\ t[2] <= caller[t[1]].n
      BY DEF RequestState
    <3>3. WellFormed(d)
      BY <1>1, <3>2 DEF WellFormed
    <3> QED
      BY <1>2, <2>1, <3>1, <3>2, <3>3
  <2>2. CASE u # t
    BY <1>2, <1>7, <2>2 DEF RequestState, Abandoned
  <2> QED
    BY <2>1, <2>2
<1> QED
  BY <1>6, <1>7 DEF RequestState, WellFormed, Matches, Abandoned

LEMMA TransferFields ==
  ASSUME TypeOK, NEW p \in Callers, NEW w
  PROVE  LET r == TransferOf(p, w) IN
         /\ r.kind = "in" /\ r.to = w /\ r.stage = "sent" /\ ~r.ok
         /\ r.id = caller[p].id /\ r.char = caller[p].char
  BY DEF TransferOf, Request

LEMMA SendingShape ==
  ASSUME TypeOK, CallerFields, RequestState, NEW p \in Callers,
         \/ p \in Conns /\ \E w \in JoinWorlds : Connect(p, w)
         \/ p \in Conns /\ \E w \in Worlds, k \in Conns : Resume(p, w, k)
         \/ p \in Conns /\ Disconnect(p)
         \/ \E w \in Worlds : RequestOut(p, w)
         \/ \E i \in Ids, w \in Worlds : MoveAgentWorld(p, i, w)
         \/ CooldownRefused(p) \/ RequestIn(p) \/ Rollback(p)
  PROVE  CallerFields' /\ RequestState'
<1> DEFINE s == caller[p]
<1>0. s \in CallerStates /\ Fields(p, s)
  BY DEF TypeOK, CallerFields
<1>s. ASSUME NEW r \in Requests, NEW next \in CallerStates, next.n = s.n,
             ~Waiting(p), Send(p, r, next), UNCHANGED givenUp,
             r.stage = "sent", WellFormed(r), Fields(p, next),
             next.pc \in Blocking => Matches(next, r),
             next.pc \notin Blocking => Abandoned(r)
      PROVE  CallerFields' /\ RequestState'
  <2> DEFINE t == [next EXCEPT !.n = s.n + 1]
  <2>1. caller' = [caller EXCEPT ![p] = t]
    BY <1>s, <1>0 DEF Send, CallerStates
  <2>2. Fields(p, t)
    BY <1>s DEF Fields, CallerStates
  <2> QED
    BY <1>s, <2>1, <2>2, SendRequest, MoveFields
<1>1. ASSUME p \in Conns, NEW w \in JoinWorlds, Connect(p, w)
      PROVE  CallerFields' /\ RequestState'
  <2> DEFINE r == [Request("join", w) EXCEPT !.client = p]
             next == [s EXCEPT !.pc = "joining", !.world = w, !.expired = FALSE]
  <2>1. r \in Requests /\ r.kind = "join" /\ r.to = w /\ r.stage = "sent" /\ ~r.ok
    BY <1>1, WorldsAssumption DEF Request, Requests, Kinds, Callers
  <2>2. /\ next \in CallerStates /\ next.n = s.n /\ next.pc = "joining"
        /\ next.world = w
    BY <1>0, WorldsAssumption DEF CallerStates
  <2>3. WellFormed(r) /\ Matches(next, r) /\ Fields(p, next)
    BY <1>1, <2>1, <2>2, NoneAssumption, WorldsAssumption
       DEF WellFormed, Matches, Fields, KindOf
  <2> QED
    BY <1>1, <1>s, <2>1, <2>2, <2>3 DEF Connect, Waiting, Blocking
<1>2. ASSUME p \in Conns, NEW w \in Worlds, NEW k \in Conns, Resume(p, w, k)
      PROVE  CallerFields' /\ RequestState'
  <2> DEFINE r == [Request("attach", w) EXCEPT !.token = k, !.client = p]
             next == [s EXCEPT !.pc = "attaching", !.world = w,
                               !.expired = FALSE]
  <2>1. r \in Requests /\ r.kind = "attach" /\ r.stage = "sent" /\ ~r.ok
    BY <1>2 DEF Request, Requests, Kinds, Callers
  <2>2. /\ next \in CallerStates /\ next.n = s.n /\ next.pc = "attaching"
        /\ next.world = w
    BY <1>0 DEF CallerStates
  <2>3. WellFormed(r) /\ Matches(next, r) /\ Fields(p, next)
    BY <1>2, <2>1, <2>2, NoneAssumption DEF WellFormed, Matches, Fields, KindOf
  <2> QED
    BY <1>2, <1>s, <2>1, <2>2, <2>3 DEF Resume, Waiting, Blocking
<1>3. ASSUME p \in Conns, Disconnect(p) PROVE CallerFields' /\ RequestState'
  <2> DEFINE r == [Request("leave", s.world) EXCEPT !.id = s.id]
             next == [s EXCEPT !.pc = "gone"]
  <2>0. s.id # None /\ s.world \in Worlds
    BY <1>0, <1>3 DEF Disconnect, Fields, CallerStates
  <2>1. /\ r \in Requests /\ r.kind = "leave" /\ r.stage = "sent"
        /\ r.id = s.id /\ ~r.ok
    BY <1>0, <2>0 DEF Request, Requests, Kinds, CallerStates
  <2>2. next \in CallerStates /\ next.n = s.n /\ next.pc = "gone"
    BY <1>0 DEF CallerStates
  <2>3. WellFormed(r) /\ Abandoned(r) /\ Fields(p, next)
    BY <2>0, <2>1, <2>2 DEF WellFormed, Abandoned, Fields
  <2> QED
    BY <1>3, <1>s, <2>1, <2>2, <2>3 DEF Disconnect, Waiting, Blocking
<1>4. ASSUME NEW w \in Worlds, RequestOut(p, w)
      PROVE  CallerFields' /\ RequestState'
  <2> DEFINE r == [Request("out", s.world) EXCEPT !.id = s.id]
             next == [s EXCEPT !.pc = "out", !.src = s.world, !.dst = w]
  <2>0. s.id # None /\ s.world \in Worlds
    BY <1>0, <1>4 DEF RequestOut, Fields, CallerStates
  <2>1. /\ r \in Requests /\ r.kind = "out" /\ r.stage = "sent" /\ r.id = s.id
        /\ ~r.ok
    BY <1>0, <2>0 DEF Request, Requests, Kinds, CallerStates
  <2>2. /\ next \in CallerStates /\ next.n = s.n /\ next.pc = "out"
        /\ next.id = s.id /\ next.src = s.world /\ next.dst = w
        /\ next.world = s.world
    BY <1>0, <2>0 DEF CallerStates
  <2>3. WellFormed(r) /\ Matches(next, r) /\ Fields(p, next)
    BY <2>0, <2>1, <2>2, NoneAssumption DEF WellFormed, Matches, Fields, KindOf
  <2> QED
    BY <1>4, <1>s, <2>1, <2>2, <2>3 DEF RequestOut, Waiting, Blocking
<1>5. ASSUME NEW i \in Ids, NEW w \in Worlds, MoveAgentWorld(p, i, w)
      PROVE  CallerFields' /\ RequestState'
  <2> DEFINE r == [Request("out", residency[i]) EXCEPT !.id = i]
             next == [s EXCEPT !.pc = "out", !.id = i, !.src = residency[i],
                               !.dst = w]
  <2>0. residency[i] \in Worlds
    BY <1>5 DEF TypeOK, MoveAgentWorld
  <2>1. /\ r \in Requests /\ r.kind = "out" /\ r.stage = "sent" /\ r.id = i
        /\ ~r.ok
    BY <2>0 DEF Request, Requests, Kinds
  <2>2. /\ next \in CallerStates /\ next.n = s.n /\ next.pc = "out"
        /\ next.id = i /\ next.src = residency[i] /\ next.dst = w
    BY <1>0, <2>0 DEF CallerStates
  <2>3. WellFormed(r) /\ Matches(next, r) /\ Fields(p, next)
    BY <1>5, <2>0, <2>1, <2>2, NoneAssumption, CallersAssumption
       DEF MoveAgentWorld, WellFormed, Matches, Fields, KindOf
  <2> QED
    BY <1>5, <1>s, <2>1, <2>2, <2>3 DEF MoveAgentWorld, Waiting, Blocking
<1>6. ASSUME NEW w \in Worlds, NEW pc \in {"in", "back"},
             s.pc \in {"got", "undo"}, UNCHANGED givenUp,
             Send(p, TransferOf(p, w), [s EXCEPT !.pc = pc])
      PROVE  CallerFields' /\ RequestState'
  <2> DEFINE r == TransferOf(p, w)
             next == [s EXCEPT !.pc = pc]
  <2>0. s.id # None /\ s.src # None /\ s.dst # None /\ s.char # None
    BY <1>0, <1>6 DEF Fields
  <2>1. /\ r \in Requests /\ r.kind = "in" /\ r.stage = "sent"
        /\ r.id = s.id /\ r.char = s.char /\ ~r.ok
    BY TransferType, TransferFields
  <2>2. /\ next \in CallerStates /\ next.n = s.n /\ next.pc = pc
        /\ next.id = s.id /\ next.src = s.src /\ next.dst = s.dst
        /\ next.char = s.char /\ next.world = s.world
    BY <1>0 DEF CallerStates
  <2>3. r # None
    BY <2>1, NoneAssumption
  <2>4. WellFormed(r)
    BY <2>0, <2>1 DEF WellFormed
  <2>5. Matches(next, r)
    BY <1>6, <2>1, <2>2, <2>3 DEF Matches, KindOf
  <2>6. Fields(p, next)
    BY <1>0, <1>6, <2>0, <2>2 DEF Fields
  <2>7. next.pc \in Blocking /\ ~Waiting(p)
    BY <1>6, <2>2 DEF Waiting, Blocking
  <2> QED
    BY <1>6, <1>s, <2>1, <2>2, <2>4, <2>5, <2>6, <2>7
<1>7. ASSUME CooldownRefused(p) PROVE CallerFields' /\ RequestState'
  BY <1>0, <1>6, <1>7 DEF CooldownRefused, Fields, CallerStates
<1>8. ASSUME RequestIn(p) PROVE CallerFields' /\ RequestState'
  BY <1>0, <1>6, <1>8 DEF RequestIn, Fields, CallerStates
<1>9. ASSUME Rollback(p) PROVE CallerFields' /\ RequestState'
  BY <1>0, <1>6, <1>9 DEF Rollback, Fields, CallerStates
<1> QED
  BY <1>1, <1>2, <1>3, <1>4, <1>5, <1>7, <1>8, <1>9

LEMMA ReadingShape ==
  ASSUME TypeOK, CallerFields, RequestState, NEW p \in Callers,
         \/ Joined(p) \/ NotResumed(p) \/ JoinFailed(p)
         \/ LeaveDropped(p) \/ GotOut(p) \/ GotIn(p) \/ GotBack(p)
         \/ OutAbandoned(p) \/ InAbandoned(p) \/ BackAbandoned(p)
         \/ Settle(p) \/ Expire(p)
  PROVE  CallerFields' /\ RequestState'
<1> DEFINE s == caller[p]
           r == req[Current(p)]
<1>0. /\ s \in CallerStates /\ Fields(p, s)
      /\ caller \in [Callers -> CallerStates]
  BY DEF TypeOK, CallerFields
<1>r. ASSUME Waiting(p)
      PROVE  s.n # 0 /\ r # None /\ r \in Requests /\ Matches(s, r)
  <2>1. s.n # 0 /\ Matches(s, r)
    BY <1>r DEF RequestState
  <2> QED
    BY <2>1, CurrentCall DEF TypeOK, Matches
<1>s. ASSUME NEW next \in CallerStates, next.n = s.n,
             caller' = [caller EXCEPT ![p] = next],
             next.pc \notin Blocking, Fields(p, next),
             IF Answered(p) THEN Forget(p) ELSE UNCHANGED req,
             givenUp \subseteq givenUp',
             s.pc \in {"out", "in", "back"} /\ ~Answered(p) => s.id \in givenUp'
      PROVE  CallerFields' /\ RequestState'
  BY <1>s, StopWaiting, MoveFields
<1>e. /\ Ended(p) \in CallerStates /\ Ended(p).n = s.n
      /\ Ended(p).pc = "idle" /\ Ended(p).world = s.world
      /\ p \in Conns => Ended(p).id = s.id
  <2>1. ASSUME NEW i
        PROVE  LET t == [s EXCEPT !.pc = "idle", !.char = None, !.src = None,
                                  !.dst = None, !.expired = FALSE, !.id = i]
               IN  t.n = s.n /\ t.pc = "idle" /\ t.world = s.world /\ t.id = i
    BY <1>0 DEF CallerStates
  <2> QED
    BY <2>1, ReturnType DEF Ended
<1>f. ASSUME s.pc \in {"out", "in", "back", "undo", "placed"}
      PROVE  Fields(p, Ended(p))
  BY <1>e, <1>f, <1>0 DEF Fields
<1>1. ASSUME Joined(p) PROVE CallerFields' /\ RequestState'
  <2> DEFINE next == [[[s EXCEPT !.pc = "idle"] EXCEPT !.id = r.id]
                        EXCEPT !.expired = FALSE]
  <2>1. /\ Waiting(p) /\ r.stage = "done" /\ r.ok
        /\ s.pc \in {"attaching", "joining"}
    BY <1>1 DEF Joined, Answered
  <2>2. r.id # None /\ r.id \in Ids
    BY <1>r, <2>1 DEF Matches, Requests
  <2>3. /\ next \in CallerStates /\ next.n = s.n /\ next.pc = "idle"
        /\ next.id = r.id /\ next.world = s.world
    BY <1>0, <2>2 DEF CallerStates
  <2>4. caller' = [caller EXCEPT ![p] = next]
    BY <1>1, <1>0 DEF Joined
  <2>5. Fields(p, next)
    BY <1>0, <2>1, <2>2, <2>3 DEF Fields
  <2> QED
    BY <1>1, <1>s, <2>1, <2>3, <2>4, <2>5 DEF Joined, Blocking, Answered
<1>m. ASSUME NEW pc \in {"off", "gone", "placed", "undo"},
             caller' = [caller EXCEPT ![p].pc = pc],
             pc \in {"placed", "undo"} => s.pc \in {"got", "in"},
             IF Answered(p) THEN Forget(p) ELSE UNCHANGED req,
             givenUp \subseteq givenUp',
             s.pc \in {"out", "in", "back"} /\ ~Answered(p) => s.id \in givenUp'
      PROVE  CallerFields' /\ RequestState'
  <2> DEFINE next == [s EXCEPT !.pc = pc]
  <2>1. /\ next \in CallerStates /\ next.n = s.n /\ next.pc = pc
        /\ next.id = s.id /\ next.src = s.src /\ next.dst = s.dst
        /\ next.world = s.world /\ next.char = s.char
    BY <1>0 DEF CallerStates
  <2>2. Fields(p, next)
    BY <1>0, <1>m, <2>1 DEF Fields
  <2> QED
    BY <1>m, <1>s, <2>1, <2>2 DEF Blocking
<1>2. ASSUME NotResumed(p) \/ JoinFailed(p) \/ LeaveDropped(p)
      PROVE  CallerFields' /\ RequestState'
  BY <1>2, <1>m DEF NotResumed, JoinFailed, LeaveDropped, Answered, Waiting
<1>3. ASSUME GotOut(p) PROVE CallerFields' /\ RequestState'
  <2>1. Waiting(p) /\ Answered(p) /\ s.pc = "out"
    BY <1>3 DEF GotOut, Answered
  <2>2. CASE r.ok
    <3> DEFINE next == [[s EXCEPT !.pc = "got"] EXCEPT !.char = r.char]
    <3>1. r.char \in Chars \cup {None} /\ r.char # None
      <4>1. Current(p) \in Calls /\ r # None /\ r.kind = "out"
        BY <1>r, <2>1, CurrentCall DEF Matches, KindOf
      <4>2. WellFormed(r)
        BY <4>1 DEF RequestState
      <4> QED
        BY <1>r, <2>1, <2>2, <4>1, <4>2 DEF Requests, WellFormed
    <3>2. /\ next \in CallerStates /\ next.n = s.n /\ next.pc = "got"
          /\ next.id = s.id /\ next.src = s.src /\ next.dst = s.dst
          /\ next.world = s.world /\ next.char # None
      BY <1>0, <3>1 DEF CallerStates
    <3>3. caller' = [caller EXCEPT ![p] = next]
      BY <1>0, <1>3, <2>2 DEF GotOut
    <3>4. Fields(p, next)
      BY <1>0, <2>1, <3>2 DEF Fields
    <3> QED
      BY <1>3, <1>s, <2>1, <3>2, <3>3, <3>4 DEF GotOut, Blocking
  <2>3. CASE ~r.ok
    BY <1>3, <1>e, <1>f, <1>s, <2>1, <2>3 DEF GotOut, Return, Blocking
  <2> QED
    BY <2>2, <2>3
<1>4. ASSUME GotIn(p) PROVE CallerFields' /\ RequestState'
  BY <1>4, <1>m DEF GotIn
<1>5. ASSUME GotBack(p) PROVE CallerFields' /\ RequestState'
  BY <1>5, <1>e, <1>f, <1>s DEF GotBack, Return, Blocking
<1>6. ASSUME OutAbandoned(p) PROVE CallerFields' /\ RequestState'
  BY <1>6, <1>e, <1>f, <1>s DEF OutAbandoned, Return, Blocking
<1>10. ASSUME BackAbandoned(p) PROVE CallerFields' /\ RequestState'
  <2>1. s.pc \in {"undo", "back"} /\ s.id \in givenUp'
    BY <1>10 DEF BackAbandoned
  <2> QED
    BY <1>10, <1>e, <1>f, <1>s, <2>1 DEF BackAbandoned, Return, Blocking
<1>7. ASSUME InAbandoned(p) PROVE CallerFields' /\ RequestState'
  BY <1>7, <1>m DEF InAbandoned
<1>8. ASSUME Settle(p) PROVE CallerFields' /\ RequestState'
  <2> DEFINE next == IF p \in Conns THEN [Ended(p) EXCEPT !.world = s.dst]
                                    ELSE Ended(p)
  <2>1. s.pc = "placed" /\ s.dst # None /\ s.dst \in Worlds
    BY <1>0, <1>8 DEF Settle, Fields, CallerStates
  <2>2. next \in CallerStates /\ next.n = s.n /\ next.pc = "idle"
    BY <1>e, <2>1 DEF CallerStates
  <2>3. p \in Conns => next.id = s.id /\ next.world = s.dst
    BY <1>e, <2>1 DEF CallerStates
  <2>4. Fields(p, next)
    BY <1>0, <2>1, <2>2, <2>3 DEF Fields
  <2> QED
    BY <1>8, <1>s, <2>1, <2>2, <2>4 DEF Settle, Blocking, Answered, Waiting
<1>9. ASSUME Expire(p) PROVE CallerFields' /\ RequestState'
  <2> DEFINE next == [s EXCEPT !.expired = TRUE]
  <2>1. /\ next \in CallerStates /\ next.n = s.n /\ next.pc = s.pc
        /\ next.id = s.id /\ next.src = s.src /\ next.dst = s.dst
        /\ next.world = s.world /\ next.char = s.char
    BY <1>0 DEF CallerStates
  <2>2. caller' = [caller EXCEPT ![p] = next]
    BY <1>0, <1>9 DEF Expire
  <2>3. Fields(p, next)
    BY <1>0, <2>1 DEF Fields
  <2>4. \A q \in Callers :
          /\ caller'[q].n = caller[q].n /\ caller'[q].pc = caller[q].pc
          /\ caller'[q].id = caller[q].id
          /\ caller'[q].world = caller[q].world
          /\ caller'[q].char = caller[q].char
    BY <1>0, <2>1, <2>2
  <2>5. \A q \in Callers : Current(q)' = Current(q) /\ Waiting(q)' = Waiting(q)
    BY <2>4 DEF Current, Waiting
  <2>6. \A t \in Calls : Awaited(t)' = Awaited(t) /\ t[1] \in Callers
    BY <2>5 DEF Calls, Awaited
  <2>7. UNCHANGED <<req, givenUp>>
    BY <1>9 DEF Expire
  <2>8. RequestState'
    <3>1. ASSUME NEW q \in Callers, Waiting(q)'
          PROVE  caller'[q].n # 0 /\ Matches(caller'[q], req'[Current(q)'])
      BY <3>1, <2>4, <2>5, <2>7 DEF RequestState, Matches
    <3>2. ASSUME NEW t \in Calls, req'[t] # None
          PROVE  /\ t[2] <= caller'[t[1]].n
                 /\ WellFormed(req'[t])
                 /\ ~Awaited(t)' => Abandoned(req[t])'
      BY <3>2, <2>4, <2>6, <2>7 DEF RequestState, Abandoned
    <3> QED
      BY <3>1, <3>2 DEF RequestState, WellFormed, Matches, Abandoned
  <2> QED
    BY <2>2, <2>3, <2>8, MoveFields
<1> QED
  BY <1>1, <1>2, <1>3, <1>4, <1>5, <1>6, <1>7, <1>8, <1>9, <1>10

LEMMA WorldShape ==
  ASSUME TypeOK, CallerFields, RequestState, NEW w \in Worlds,
         Tick(w) \/ Handle(w)
  PROVE  CallerFields' /\ RequestState'
<1>1. caller' = caller /\ givenUp' = givenUp
  BY DEF Tick, TickWith, Handle, HandleAttach, HandleLeave, HandleJoin,
         HandleTransferOut, HandleTransferIn
<1>2. CallerFields'
  BY <1>1 DEF CallerFields, Fields
<1>3. ASSUME NEW S \in SUBSET Pending(w), TickWith(w, S) PROVE RequestState'
  <2>1. ASSUME NEW t \in Calls
        PROVE  \/ req'[t] = req[t]
               \/ /\ req[t] # None /\ req[t] \in Requests
                  /\ req[t].stage = "sent"
                  /\ req'[t] = [req[t] EXCEPT !.stage = "taken"]
    BY <1>3 DEF TickWith, Pending, At, TypeOK
  <2>2. ASSUME NEW r \in Requests, r.stage = "sent"
        PROVE  LET q == [r EXCEPT !.stage = "taken"] IN
               /\ q # None
               /\ \A s : Matches(s, r) => Matches(s, q)
               /\ WellFormed(r) => WellFormed(q)
               /\ Abandoned(q)' => Abandoned(q)
               /\ Abandoned(r) => Abandoned(q)
    BY <2>2, <1>1, NoneAssumption
       DEF Requests, Matches, WellFormed, Abandoned
  <2>3. \A t \in Calls : Awaited(t)' = Awaited(t)
    BY <1>1 DEF Awaited, Waiting, Current
  <2>4. \A q \in Callers : Current(q)' = Current(q) /\ Waiting(q)' = Waiting(q)
    BY <1>1 DEF Waiting, Current
  <2>5. ASSUME NEW q \in Callers, Waiting(q)'
        PROVE  caller'[q].n # 0 /\ Matches(caller'[q], req'[Current(q)'])
    <3>1. caller[q].n # 0 /\ Matches(caller[q], req[Current(q)])
      BY <2>4, <2>5 DEF RequestState
    <3>2. Current(q) \in Calls
      BY <3>1, CurrentCall
    <3> DEFINE r == req[Current(q)]
    <3>3. r \in Requests /\ r.stage = "sent"
            => Matches(caller[q], [r EXCEPT !.stage = "taken"])
      BY <2>2, <3>1
    <3>4. Matches(caller[q], req'[Current(q)])
      BY <2>1, <3>1, <3>2, <3>3
    <3> QED
      BY <1>1, <2>4, <3>1, <3>4
  <2>6. ASSUME NEW t \in Calls, req'[t] # None
        PROVE  /\ t[2] <= caller'[t[1]].n
               /\ WellFormed(req'[t])
               /\ ~Awaited(t)' => Abandoned(req[t])'
    <3>1. req[t] # None
      BY <2>1, <2>6
    <3>2. /\ t[2] <= caller[t[1]].n
          /\ WellFormed(req[t])
          /\ ~Awaited(t) => Abandoned(req[t])
      BY <3>1 DEF RequestState
    <3>3. CASE req'[t] = req[t]
      BY <1>1, <2>3, <3>2, <3>3 DEF Abandoned
    <3>4. CASE /\ req[t] \in Requests /\ req[t].stage = "sent"
               /\ req'[t] = [req[t] EXCEPT !.stage = "taken"]
      <4>1. req'[t].kind = req[t].kind /\ req'[t].id = req[t].id
            /\ req'[t].stage = "taken"
        BY <3>4 DEF Requests
      <4>2. ~Awaited(t) => Abandoned(req[t])'
        BY <1>1, <3>2, <4>1 DEF Abandoned
      <4> QED
        BY <1>1, <2>2, <2>3, <3>2, <3>4, <4>2
    <3> QED
      BY <2>1, <3>3, <3>4
  <2> QED
    BY <2>5, <2>6 DEF RequestState, WellFormed, Matches, Abandoned
<1>4. ASSUME NEW t \in Calls, HandleAttach(w, t) PROVE RequestState'
  <2> DEFINE r == req[t]
  <2>1. r \in Requests /\ r # None /\ r.kind = "attach"
    BY <1>4, NoneAssumption DEF HandleAttach, At, TypeOK
  <2>2. CASE Answer(t, r)
    <3>1. ~r.ok
      BY <1>4, <2>1 DEF HandleAttach, At, RequestState, WellFormed
    <3> QED
      BY <1>1, <2>1, <2>2, <3>1, AnswerRequest
  <2>3. CASE \E i \in Ids :
               Answer(t, [[r EXCEPT !.id = i] EXCEPT !.ok = TRUE])
    <3>1. PICK i \in Ids : Answer(t, [[r EXCEPT !.id = i] EXCEPT !.ok = TRUE])
      BY <2>3
    <3> DEFINE a == [[r EXCEPT !.id = i] EXCEPT !.ok = TRUE]
    <3>2. /\ a \in Requests /\ a.kind = "attach" /\ a.to = r.to /\ a.id = i
          /\ i # None
      BY <2>1, NoneAssumption DEF Requests
    <3> QED
      BY <1>1, <2>1, <3>1, <3>2, AnswerRequest
  <2> QED
    BY <1>4, <2>2, <2>3 DEF HandleAttach
<1>5. ASSUME NEW t \in Calls, HandleLeave(w, t) PROVE RequestState'
  <2> DEFINE r == req[t]
  <2>1. r \in Requests /\ r # None /\ r.kind = "leave"
    BY <1>5, NoneAssumption DEF HandleLeave, NextOf, At, TypeOK
  <2> QED
    BY <1>1, <1>5, <2>1, AnswerRequest DEF HandleLeave
<1>6. ASSUME NEW t \in Calls, HandleJoin(w, t) PROVE RequestState'
  <2> DEFINE r == req[t]
             i == nextNum[w] + 1
             a == [[r EXCEPT !.id = i] EXCEPT !.ok = TRUE]
  <2>1. r \in Requests /\ r # None /\ r.kind = "join" /\ i \in Ids
    BY <1>6, NoneAssumption DEF HandleJoin, NextOf, At, TypeOK
  <2>2. /\ a \in Requests /\ a.kind = "join" /\ a.to = r.to /\ a.id = i
        /\ i # None /\ a.ok
    BY <2>1, NoneAssumption DEF Requests
  <2>3. Answer(t, a)
    BY <1>6 DEF HandleJoin
  <2> QED
    BY <1>1, <2>1, <2>2, <2>3, AnswerRequest
<1>7. ASSUME NEW t \in Calls, HandleTransferOut(w, t) PROVE RequestState'
  <2> DEFINE r == req[t]
             a == [[r EXCEPT !.ok = agents[w][r.id] # None]
                     EXCEPT !.char = agents[w][r.id]]
  <2>1. r \in Requests /\ r # None /\ r.kind = "out" /\ r.id \in Ids
    BY <1>7, NoneAssumption
       DEF HandleTransferOut, NextOf, At, TypeOK, RequestState, WellFormed,
           Requests
  <2>0. agents[w][r.id] \in Chars \cup {None}
    BY <2>1 DEF TypeOK
  <2>2. /\ a \in Requests /\ a.kind = "out" /\ a.to = r.to /\ a.id = r.id
        /\ a.ok => a.char # None
    BY <2>0, <2>1 DEF Requests
  <2>3. Answer(t, a)
    BY <1>7 DEF HandleTransferOut
  <2> QED
    BY <1>1, <2>1, <2>2, <2>3, AnswerRequest
<1>8. ASSUME NEW t \in Calls, HandleTransferIn(w, t) PROVE RequestState'
  <2> DEFINE r == req[t]
             a == [r EXCEPT !.ok = agents[w][r.id] = None]
  <2>1. r \in Requests /\ r # None /\ r.kind = "in"
    BY <1>8, NoneAssumption DEF HandleTransferIn, NextOf, At, TypeOK
  <2>2. a \in Requests /\ a.kind = "in" /\ a.to = r.to /\ a.id = r.id
        /\ a.char = r.char
    BY <2>1 DEF Requests
  <2>3. Answer(t, a)
    BY <1>8 DEF HandleTransferIn
  <2> QED
    BY <1>1, <2>1, <2>2, <2>3, AnswerRequest
<1> QED
  BY <1>2, <1>3, <1>4, <1>5, <1>6, <1>7, <1>8 DEF Tick, Handle

LEMMA StepShape == Shape /\ [Next]_vars => Shape'
<1> SUFFICES ASSUME TypeOK, CallerFields, RequestState, [Next]_vars
             PROVE  CallerFields' /\ RequestState'
  BY StepTypeOK DEF Shape
<1>1. ASSUME NEW c \in Conns, ConnStep(c) PROVE CallerFields' /\ RequestState'
  BY <1>1, SendingShape, ReadingShape DEF ConnStep, Callers
<1>2. ASSUME NEW m \in Admins, AdminStep(m)
      PROVE  CallerFields' /\ RequestState'
  BY <1>2, SendingShape DEF AdminStep, Callers
<1>3. ASSUME NEW p \in Callers, Continue(p) \/ Expire(p)
      PROVE  CallerFields' /\ RequestState'
  BY <1>3, SendingShape, ReadingShape DEF Continue, Proceed, Abandon
<1>4. ASSUME NEW w \in Worlds, Tick(w) \/ Handle(w)
      PROVE  CallerFields' /\ RequestState'
  BY <1>4, WorldShape
<1>5. CASE UNCHANGED vars
  BY <1>5 DEF vars, CallerFields, Fields, RequestState, WellFormed, Matches,
              Abandoned, Awaited, Waiting, Current
<1> QED
  BY <1>1, <1>2, <1>3, <1>4, <1>5 DEF Next

\* The maps, the requests and the goroutines of the manager and its worlds have
\* their types, and every transfer in progress knows its agent and its worlds,
\* whatever the worlds, the connections and the admin requests.
THEOREM TypeCorrect == Spec => []TypeOK
<1>1. Shape => TypeOK
  BY DEF Shape
<1> QED
  BY <1>1, InitShape, StepShape, PTL DEF Spec

-----------------------------------------------------------------------------
(* Ids in circulation                                                      *)

LEMMA InitIssuedIds == Init => IssuedIds
<1> SUFFICES ASSUME Init PROVE IssuedIds
  OBVIOUS
<1>1. AgentIds /\ RequestIds /\ ResidencyIds
  BY DEF Init, AgentIds, RequestIds, ResidencyIds
<1>2. CallerIds
  BY DEF Init, CallerIds
<1> QED
  BY <1>1, <1>2 DEF IssuedIds

LEMMA SendingIds ==
  ASSUME Shape, IssuedIds, NEW p \in Callers,
         \/ p \in Conns /\ \E w \in JoinWorlds : Connect(p, w)
         \/ p \in Conns /\ \E w \in Worlds, k \in Conns : Resume(p, w, k)
         \/ p \in Conns /\ Disconnect(p)
         \/ \E w \in Worlds : RequestOut(p, w)
         \/ \E i \in Ids, w \in Worlds : MoveAgentWorld(p, i, w)
         \/ CooldownRefused(p) \/ RequestIn(p) \/ Rollback(p)
  PROVE  IssuedIds'
<1> DEFINE s == caller[p]
<1>0. /\ s \in CallerStates /\ Fields(p, s)
      /\ caller \in [Callers -> CallerStates]
      /\ req \in [Calls -> Requests \cup {None}]
  BY DEF Shape, TypeOK, CallerFields
<1>s. ASSUME NEW r, NEW next \in CallerStates, Send(p, r, next),
             UNCHANGED <<agents, nextNum, residency>>,
             r.id # None => Issued(r.id),
             r.kind = "in" => Original(r.char, r.id),
             ~r.ok,
             next.id # None => Issued(next.id),
             next.pc \in {"got", "in", "back", "undo"}
               => Original(next.char, next.id)
      PROVE  IssuedIds'
  <2> DEFINE t == [next EXCEPT !.n = @ + 1]
             c == <<p, s.n + 1>>
  <2>1. caller' = [caller EXCEPT ![p] = t] /\ req' = [req EXCEPT ![c] = r]
    BY <1>s DEF Send
  <2>2. t.id = next.id /\ t.pc = next.pc /\ t.char = next.char
    BY DEF CallerStates
  <2>3. \A i : Issued(i)' <=> Issued(i)
    BY <1>s DEF Issued
  <2>4. CallerIds'
    BY <1>0, <1>s, <2>1, <2>2, <2>3 DEF IssuedIds, CallerIds
  <2>5. RequestIds'
    BY <1>0, <1>s, <2>1, <2>3 DEF IssuedIds, RequestIds
  <2>6. AgentIds' /\ ResidencyIds'
    BY <1>s, <2>3 DEF IssuedIds, AgentIds, ResidencyIds
  <2> QED
    BY <2>4, <2>5, <2>6 DEF IssuedIds
<1>i. s.id # None => Issued(s.id)
  BY DEF IssuedIds, CallerIds
<1>1. ASSUME NEW w \in JoinWorlds, Connect(p, w) PROVE IssuedIds'
  <2> DEFINE r == [Request("join", w) EXCEPT !.client = p]
             next == [s EXCEPT !.pc = "joining", !.world = w, !.expired = FALSE]
  <2>1. r.id = None /\ r.kind = "join" /\ ~r.ok
    BY DEF Request
  <2>2. next \in CallerStates /\ next.pc = "joining" /\ next.id = s.id
    BY <1>0, WorldsAssumption DEF CallerStates
  <2> QED
    BY <1>1, <1>i, <1>s, <2>1, <2>2 DEF Connect
<1>2. ASSUME NEW w \in Worlds, NEW k \in Conns, Resume(p, w, k)
      PROVE  IssuedIds'
  <2> DEFINE r == [Request("attach", w) EXCEPT !.token = k, !.client = p]
             next == [s EXCEPT !.pc = "attaching", !.world = w,
                               !.expired = FALSE]
  <2>1. r.id = None /\ r.kind = "attach" /\ ~r.ok
    BY DEF Request
  <2>2. next \in CallerStates /\ next.pc = "attaching" /\ next.id = s.id
    BY <1>0 DEF CallerStates
  <2> QED
    BY <1>2, <1>i, <1>s, <2>1, <2>2 DEF Resume
<1>3. ASSUME Disconnect(p) PROVE IssuedIds'
  <2> DEFINE r == [Request("leave", s.world) EXCEPT !.id = s.id]
             next == [s EXCEPT !.pc = "gone"]
  <2>1. r.id = s.id /\ r.kind = "leave" /\ ~r.ok
    BY DEF Request
  <2>2. next \in CallerStates /\ next.pc = "gone" /\ next.id = s.id
    BY <1>0 DEF CallerStates
  <2> QED
    BY <1>3, <1>i, <1>s, <2>1, <2>2 DEF Disconnect
<1>4. ASSUME NEW w \in Worlds, RequestOut(p, w) PROVE IssuedIds'
  <2> DEFINE r == [Request("out", s.world) EXCEPT !.id = s.id]
             next == [s EXCEPT !.pc = "out", !.src = s.world, !.dst = w]
  <2>1. r.id = s.id /\ r.kind = "out" /\ ~r.ok
    BY DEF Request
  <2>2. next \in CallerStates /\ next.pc = "out" /\ next.id = s.id
    BY <1>0 DEF CallerStates
  <2> QED
    BY <1>4, <1>i, <1>s, <2>1, <2>2 DEF RequestOut
<1>5. ASSUME NEW i \in Ids, NEW w \in Worlds, MoveAgentWorld(p, i, w)
      PROVE  IssuedIds'
  <2> DEFINE r == [Request("out", residency[i]) EXCEPT !.id = i]
             next == [s EXCEPT !.pc = "out", !.id = i, !.src = residency[i],
                               !.dst = w]
  <2>0. residency[i] \in Worlds /\ Issued(i)
    BY <1>5 DEF Shape, TypeOK, MoveAgentWorld, IssuedIds, ResidencyIds
  <2>1. r.id = i /\ r.kind = "out" /\ ~r.ok
    BY DEF Request
  <2>2. next \in CallerStates /\ next.pc = "out" /\ next.id = i
    BY <1>0, <2>0 DEF CallerStates
  <2> QED
    BY <1>5, <1>s, <2>0, <2>1, <2>2 DEF MoveAgentWorld
<1>6. ASSUME NEW w, NEW pc \in {"in", "back"}, s.pc \in {"got", "undo"},
             Send(p, TransferOf(p, w), [s EXCEPT !.pc = pc]),
             UNCHANGED <<agents, nextNum, residency>>
      PROVE  IssuedIds'
  <2> DEFINE r == TransferOf(p, w)
             next == [s EXCEPT !.pc = pc]
  <2>1. r.kind = "in" /\ r.id = s.id /\ r.char = s.char /\ ~r.ok
    BY TransferFields DEF Shape
  <2>2. next \in CallerStates /\ next.id = s.id /\ next.char = s.char
    BY <1>0 DEF CallerStates
  <2>3. Original(s.char, s.id)
    BY <1>6 DEF IssuedIds, CallerIds
  <2> QED
    BY <1>6, <1>i, <1>s, <2>1, <2>2, <2>3
<1>7. ASSUME CooldownRefused(p) PROVE IssuedIds'
  BY <1>6, <1>7 DEF CooldownRefused
<1>8. ASSUME RequestIn(p) PROVE IssuedIds'
  BY <1>6, <1>8 DEF RequestIn
<1>9. ASSUME Rollback(p) PROVE IssuedIds'
  BY <1>6, <1>9 DEF Rollback
<1> QED
  BY <1>1, <1>2, <1>3, <1>4, <1>5, <1>7, <1>8, <1>9

LEMMA ReadingIds ==
  ASSUME Shape, IssuedIds, NEW p \in Callers,
         \/ Joined(p) \/ NotResumed(p) \/ JoinFailed(p)
         \/ LeaveDropped(p) \/ GotOut(p) \/ GotIn(p) \/ GotBack(p)
         \/ OutAbandoned(p) \/ InAbandoned(p) \/ BackAbandoned(p)
         \/ Settle(p) \/ Expire(p)
  PROVE  IssuedIds'
<1> DEFINE s == caller[p]
           r == req[Current(p)]
<1>0. /\ s \in CallerStates /\ Fields(p, s)
      /\ caller \in [Callers -> CallerStates]
      /\ req \in [Calls -> Requests \cup {None}]
      /\ residency \in [Ids -> Worlds \cup {None}]
  BY DEF Shape, TypeOK, CallerFields
<1>1. /\ agents' = agents /\ nextNum' = nextNum
      /\ \A t \in Calls : req'[t] # None => req'[t] = req[t]
  BY <1>0 DEF Joined, NotResumed, JoinFailed, LeaveDropped, GotOut, GotIn,
              GotBack, OutAbandoned, InAbandoned, BackAbandoned, Settle,
              Expire, Forget
<1>2. \A i : Issued(i)' <=> Issued(i)
  BY <1>1 DEF Issued
<1>3. AgentIds' /\ RequestIds'
  BY <1>1, <1>2 DEF IssuedIds, AgentIds, RequestIds
<1>r. ASSUME Answered(p)
      PROVE  /\ r \in Requests /\ r # None /\ Matches(s, r)
             /\ r.id # None => Issued(r.id)
             /\ r.kind = "out" /\ r.ok => Original(r.char, r.id)
  <2>1. s.n # 0 /\ Matches(s, r) /\ r.stage = "done"
    BY <1>r DEF Shape, RequestState, Answered
  <2>2. r # None /\ Current(p) \in Calls
    BY <2>1, CurrentCall DEF Shape, Matches
  <2> QED
    BY <1>0, <2>1, <2>2 DEF IssuedIds, RequestIds
<1>i. s.id # None => Issued(s.id)
  BY DEF IssuedIds, CallerIds
<1>s. ASSUME NEW next, caller' = [caller EXCEPT ![p] = next],
             next.id # None => Issued(next.id),
             next.pc \in {"got", "in", "back", "undo"}
               => Original(next.char, next.id)
      PROVE  CallerIds'
  BY <1>0, <1>2, <1>s DEF IssuedIds, CallerIds
<1>4. CallerIds'
  <2>e. /\ Ended(p).pc = "idle"
        /\ Ended(p).id # None => Issued(Ended(p).id)
    <3>1. ASSUME NEW i
          PROVE  LET t == [s EXCEPT !.pc = "idle", !.char = None,
                             !.src = None, !.dst = None, !.expired = FALSE,
                             !.id = i]
                 IN  t.pc = "idle" /\ t.id = i
      BY <1>0 DEF CallerStates
    <3> QED
      BY <1>i, <3>1 DEF Ended
  <2>m. ASSUME NEW pc, caller' = [caller EXCEPT ![p].pc = pc],
               pc \in {"got", "in", "back", "undo"} => s.pc \in {"got", "in"}
        PROVE  CallerIds'
    <3> DEFINE next == [s EXCEPT !.pc = pc]
    <3>1. next.id = s.id /\ next.char = s.char /\ next.pc = pc
      BY <1>0 DEF CallerStates
    <3>2. s.pc \in {"got", "in"} => Original(s.char, s.id)
      BY DEF IssuedIds, CallerIds
    <3> QED
      BY <1>i, <1>s, <2>m, <3>1, <3>2
  <2>1. ASSUME Joined(p) PROVE CallerIds'
    <3> DEFINE next == [[[s EXCEPT !.pc = "idle"] EXCEPT !.id = r.id]
                          EXCEPT !.expired = FALSE]
    <3>1. next.id = r.id /\ next.pc = "idle"
      BY <1>0 DEF CallerStates
    <3>2. caller' = [caller EXCEPT ![p] = next]
      BY <1>0, <2>1 DEF Joined
    <3> QED
      BY <1>r, <1>s, <2>1, <3>1, <3>2 DEF Joined
  <2>2. ASSUME NotResumed(p) \/ JoinFailed(p) \/ LeaveDropped(p) PROVE CallerIds'
    BY <2>2, <2>m DEF NotResumed, JoinFailed, LeaveDropped
  <2>3. ASSUME GotOut(p) PROVE CallerIds'
    <3>1. CASE r.ok
      <4> DEFINE next == [[s EXCEPT !.pc = "got"] EXCEPT !.char = r.char]
      <4>1. next.id = s.id /\ next.char = r.char
        BY <1>0 DEF CallerStates
      <4>2. Original(r.char, s.id)
        BY <1>r, <2>3, <3>1 DEF GotOut, Matches, KindOf
      <4>3. caller' = [caller EXCEPT ![p] = next]
        BY <1>0, <2>3, <3>1 DEF GotOut
      <4> QED
        BY <1>i, <1>s, <4>1, <4>2, <4>3
    <3>2. CASE ~r.ok
      BY <1>s, <2>3, <2>e, <3>2 DEF GotOut, Return
    <3> QED
      BY <3>1, <3>2
  <2>4. ASSUME GotIn(p) \/ InAbandoned(p) PROVE CallerIds'
    BY <2>4, <2>m DEF GotIn, InAbandoned
  <2>5. ASSUME GotBack(p) \/ OutAbandoned(p) \/ BackAbandoned(p)
        PROVE  CallerIds'
    BY <1>s, <2>5, <2>e DEF GotBack, OutAbandoned, BackAbandoned, Return
  <2>6. ASSUME Settle(p) PROVE CallerIds'
    <3> DEFINE next == IF p \in Conns THEN [Ended(p) EXCEPT !.world = s.dst]
                                      ELSE Ended(p)
    <3>1. next.id = Ended(p).id /\ next.pc = Ended(p).pc
      BY ReturnType DEF CallerStates, Shape
    <3> QED
      BY <1>s, <2>6, <2>e, <3>1 DEF Settle
  <2>7. ASSUME Expire(p) PROVE CallerIds'
    <3> DEFINE next == [s EXCEPT !.expired = TRUE]
    <3>1. next.id = s.id /\ next.pc = s.pc /\ next.char = s.char
      BY <1>0 DEF CallerStates
    <3>2. s.pc \in {"got", "in", "back", "undo"} => Original(s.char, s.id)
      BY DEF IssuedIds, CallerIds
    <3> QED
      BY <1>i, <1>s, <2>7, <3>1, <3>2 DEF Expire
  <2> QED
    BY <2>1, <2>2, <2>3, <2>4, <2>5, <2>6, <2>7
<1>5. ResidencyIds'
  <2>1. CASE UNCHANGED residency
    BY <1>2, <2>1 DEF IssuedIds, ResidencyIds
  <2>2. CASE Joined(p)
    <3>1. /\ residency' = [residency EXCEPT ![r.id] = s.world]
          /\ Answered(p) /\ r.ok /\ s.pc \in {"attaching", "joining"}
      BY <2>2 DEF Joined
    <3>2. Issued(r.id)
      BY <1>r, <3>1 DEF Matches, Answered
    <3> QED
      BY <1>0, <1>2, <3>1, <3>2 DEF IssuedIds, ResidencyIds
  <2>3. CASE Settle(p)
    <3>1. residency' = [residency EXCEPT ![s.id] = s.dst] /\ s.id # None
      BY <1>0, <2>3 DEF Settle, Fields
    <3> QED
      BY <1>0, <1>2, <1>i, <3>1 DEF IssuedIds, ResidencyIds
  <2> QED
    BY <2>1, <2>2, <2>3 DEF NotResumed, JoinFailed, LeaveDropped, GotOut,
       GotIn, GotBack, OutAbandoned, InAbandoned, BackAbandoned, Expire
<1> QED
  BY <1>3, <1>4, <1>5 DEF IssuedIds

LEMMA WorldIds ==
  ASSUME SingleEntry, Shape, IssuedIds, NEW w \in Worlds, Tick(w) \/ Handle(w)
  PROVE  IssuedIds'
<1>0. /\ req \in [Calls -> Requests \cup {None}]
      /\ nextNum \in [Worlds -> 0..MaxJoins]
      /\ agents \in [Worlds -> [Ids -> Chars \cup {None}]]
  BY DEF Shape, TypeOK
<1> DEFINE Later(i) == i \in Ids /\ \A d \in JoinWorlds : i <= nextNum'[d]
<1>1. caller' = caller /\ residency' = residency
  BY DEF Tick, TickWith, Handle, HandleAttach, HandleLeave, HandleJoin,
         HandleTransferOut, HandleTransferIn
<1>2. /\ \A i : Issued(i) => Later(i)
      /\ (~\E t \in Calls : HandleJoin(w, t)) => nextNum' = nextNum
  <2>1. CASE nextNum' = nextNum
    BY <2>1 DEF Issued
  <2>2. CASE \E t \in Calls : HandleJoin(w, t)
    <3>1. nextNum' = [nextNum EXCEPT ![w] = nextNum[w] + 1]
      BY <2>2 DEF HandleJoin
    <3>2. \A d \in JoinWorlds : nextNum[d] \in Nat /\ nextNum'[d] \in Nat
                                /\ nextNum[d] <= nextNum'[d]
      BY <1>0, <3>1, WorldsAssumption, BoundsAssumption
    <3> QED
      BY <2>2, <3>2, BoundsAssumption DEF Issued, Ids
  <2> QED
    BY <2>1, <2>2 DEF Tick, TickWith, Handle, HandleAttach, HandleLeave,
                      HandleTransferOut, HandleTransferIn
<1>3. CallerIds' /\ ResidencyIds'
  BY <1>1, <1>2 DEF IssuedIds, CallerIds, ResidencyIds, Issued
<1>a. ASSUME UNCHANGED agents PROVE AgentIds'
  BY <1>2, <1>a DEF IssuedIds, AgentIds, Issued
\* One request changes, and its answer is sound.
<1>r. ASSUME NEW t \in Calls, NEW a, Answer(t, a), req[t] # None,
             a.id # None => Later(a.id),
             a.kind = "in" => Original(a.char, a.id),
             a.kind = "out" /\ a.ok => Original(a.char, a.id),
             a \in Requests
      PROVE  RequestIds'
  <2> DEFINE d == [a EXCEPT !.stage = "done"]
  <2>1. d.id = a.id /\ d.char = a.char /\ d.kind = a.kind /\ d.ok = a.ok
    BY <1>r DEF Requests
  <2>2. req' = [req EXCEPT ![t] = IF Awaited(t) THEN d ELSE None]
    BY <1>r DEF Answer
  <2> HIDE DEF d
  <2>3. \A u \in Calls : \/ req'[u] = None
                         \/ u # t /\ req'[u] = req[u]
                         \/ u = t /\ req'[u] = d
    BY <1>0, <2>2
  <2> QED
    BY <1>r, <1>2, <2>1, <2>3 DEF IssuedIds, RequestIds, Issued
<1>q. ASSUME NEW t \in Calls, req[t] # None
      PROVE  /\ req[t] \in Requests
             /\ req[t].id # None => Later(req[t].id)
             /\ req[t].kind = "in" => Original(req[t].char, req[t].id)
  BY <1>0, <1>2, <1>q DEF IssuedIds, RequestIds, Issued
<1>n. ASSUME NEW t \in At(w, "sent") \cup At(w, "taken") PROVE req[t] # None
  BY <1>n DEF At
<1>4. ASSUME NEW S \in SUBSET Pending(w), TickWith(w, S) PROVE IssuedIds'
  <2>1. ASSUME NEW t \in Calls, req'[t] # None
        PROVE  /\ req[t] # None /\ req'[t].id = req[t].id
               /\ req'[t].kind = req[t].kind /\ req'[t].char = req[t].char
               /\ req'[t].stage = "done" => req'[t] = req[t]
    <3>1. CASE t \in S
      <4>1. req[t] # None /\ req[t] \in Requests
        BY <1>0, <3>1 DEF Pending, At
      <4>2. req'[t] = [req[t] EXCEPT !.stage = "taken"]
        BY <1>4, <3>1 DEF TickWith
      <4> QED
        BY <4>1, <4>2 DEF Requests
    <3>2. CASE t \notin S
      BY <1>4, <2>1, <3>2 DEF TickWith
    <3> QED
      BY <3>1, <3>2
  <2>2. RequestIds'
    BY <1>2, <2>1 DEF IssuedIds, RequestIds, Issued
  <2> QED
    BY <1>3, <1>4, <1>a, <2>2 DEF TickWith, IssuedIds
<1>5. ASSUME NEW t \in Calls, HandleAttach(w, t) PROVE IssuedIds'
  <2> DEFINE r == req[t]
  <2>1. r # None /\ r \in Requests /\ r.kind = "attach"
    BY <1>5, <1>n, <1>q DEF HandleAttach
  <2>2. CASE Answer(t, r)
    BY <1>3, <1>5, <1>a, <1>q, <1>r, <2>1, <2>2 DEF HandleAttach, IssuedIds
  <2>3. CASE \E i \in Ids : /\ agents[w][i] # None
                            /\ Answer(t, [r EXCEPT !.id = i, !.ok = TRUE])
    <3>1. PICK i \in Ids : /\ agents[w][i] # None
                           /\ Answer(t, [r EXCEPT !.id = i, !.ok = TRUE])
      BY <2>3
    <3> DEFINE a == [r EXCEPT !.id = i, !.ok = TRUE]
    <3>2. a \in Requests /\ a.kind = "attach" /\ a.id = i
      BY <2>1 DEF Requests
    <3>3. Later(i)
      BY <1>2, <3>1 DEF IssuedIds, AgentIds
    <3>4. Answer(t, a) /\ req[t] # None
      BY <2>1, <3>1
    <3> HIDE DEF a, Later
    <3>5. RequestIds'
      BY <1>r, <3>2, <3>3, <3>4
    <3> QED
      BY <1>3, <1>5, <1>a, <3>5 DEF HandleAttach, IssuedIds
  <2> QED
    BY <1>5, <2>2, <2>3 DEF HandleAttach
<1>6. ASSUME NEW t \in Calls, HandleLeave(w, t) PROVE IssuedIds'
  <2>1. req[t] # None /\ req[t].kind = "leave"
    BY <1>6, <1>n DEF HandleLeave, NextOf
  <2> QED
    BY <1>3, <1>6, <1>a, <1>q, <1>r, <2>1 DEF HandleLeave, IssuedIds
<1>7. ASSUME NEW t \in Calls, HandleJoin(w, t) PROVE IssuedIds'
  <2> DEFINE r == req[t]
             i == nextNum[w] + 1
             a == [r EXCEPT !.id = i, !.ok = TRUE]
  <2>1. /\ r # None /\ r \in Requests /\ r.kind = "join" /\ r.to = w
        /\ i \in Ids
    BY <1>7, <1>n, <1>q DEF HandleJoin, NextOf, At
  <2>2. w \in JoinWorlds
    BY <2>1 DEF Shape, RequestState, WellFormed
  <2>3. a \in Requests /\ a.kind = "join" /\ a.id = i
    BY <2>1 DEF Requests
  <2>4. nextNum' = [nextNum EXCEPT ![w] = i]
    BY <1>7 DEF HandleJoin
  <2>5. Later(i)
    BY <1>0, <2>1, <2>2, <2>4, BoundsAssumption DEF SingleEntry, Ids
  <2>6. RequestIds'
    BY <1>7, <1>r, <2>1, <2>3, <2>5 DEF HandleJoin
  <2>7. Original(<<w, i>>, i)
    BY <2>1, <2>2 DEF Original, Chars
  <2>8. agents' = [agents EXCEPT ![w] = [agents[w] EXCEPT ![i] = <<w, i>>]]
    BY <1>7 DEF HandleJoin
  <2>9. AgentIds'
    BY <1>0, <1>2, <2>1, <2>5, <2>7, <2>8 DEF IssuedIds, AgentIds, Issued
  <2> QED
    BY <1>3, <2>6, <2>9 DEF IssuedIds
<1>8. ASSUME NEW t \in Calls, HandleTransferOut(w, t) PROVE IssuedIds'
  <2> DEFINE r == req[t]
             x == agents[w][r.id]
             a == [r EXCEPT !.ok = x # None, !.char = x]
  <2>1. r # None /\ r \in Requests /\ r.kind = "out" /\ r.id \in Ids
    BY <1>8, <1>n, <1>q
       DEF HandleTransferOut, NextOf, Shape, RequestState, WellFormed, Requests
  <2>2. x \in Chars \cup {None}
    BY <1>0, <2>1
  <2>3. /\ a \in Requests /\ a.kind = "out" /\ a.id = r.id /\ a.char = x
        /\ a.ok => x # None
    BY <2>1, <2>2 DEF Requests
  <2>4. x # None => Original(x, r.id)
    BY <2>1 DEF IssuedIds, AgentIds, Issued
  <2>5. RequestIds'
    BY <1>8, <1>q, <1>r, <2>1, <2>3, <2>4 DEF HandleTransferOut
  <2>6. \A v \in Worlds, i \in Ids :
          agents'[v][i] # None => agents'[v][i] = agents[v][i]
    BY <1>0, <1>8 DEF HandleTransferOut, WithoutAgent
  <2>7. AgentIds'
    BY <1>2, <2>6 DEF IssuedIds, AgentIds, Issued
  <2> QED
    BY <1>3, <2>5, <2>7 DEF IssuedIds
<1>9. ASSUME NEW t \in Calls, HandleTransferIn(w, t) PROVE IssuedIds'
  <2> DEFINE r == req[t]
             a == [r EXCEPT !.ok = agents[w][r.id] = None]
  <2>1. r # None /\ r \in Requests /\ r.kind = "in" /\ r.id \in Ids
    BY <1>9, <1>n, <1>q
       DEF HandleTransferIn, NextOf, Shape, RequestState, WellFormed, Requests
  <2>2. a \in Requests /\ a.kind = "in" /\ a.id = r.id /\ a.char = r.char
    BY <2>1 DEF Requests
  <2>3. Original(r.char, r.id) /\ Later(r.id)
    BY <1>q, <2>1, NoneAssumption
  <2>4. RequestIds'
    BY <1>9, <1>r, <2>1, <2>2, <2>3 DEF HandleTransferIn
  <2>5. \A v \in Worlds, i \in Ids :
          agents'[v][i] = agents[v][i] \/ (i = r.id /\ agents'[v][i] = r.char)
    BY <1>0, <1>9 DEF HandleTransferIn
  <2>6. AgentIds'
    BY <1>2, <2>3, <2>5 DEF IssuedIds, AgentIds, Issued
  <2> QED
    BY <1>3, <2>4, <2>6 DEF IssuedIds
<1> QED
  BY <1>4, <1>5, <1>6, <1>7, <1>8, <1>9 DEF Tick, Handle

LEMMA StepIssuedIds ==
  ASSUME SingleEntry, Shape, IssuedIds, [Next]_vars
  PROVE  IssuedIds'
<1>1. ASSUME NEW c \in Conns, ConnStep(c) PROVE IssuedIds'
  BY <1>1, SendingIds, ReadingIds DEF ConnStep, Callers
<1>2. ASSUME NEW m \in Admins, AdminStep(m) PROVE IssuedIds'
  BY <1>2, SendingIds DEF AdminStep, Callers
<1>3. ASSUME NEW p \in Callers, Continue(p) \/ Expire(p) PROVE IssuedIds'
  BY <1>3, SendingIds, ReadingIds DEF Continue, Proceed, Abandon
<1>4. ASSUME NEW w \in Worlds, Tick(w) \/ Handle(w) PROVE IssuedIds'
  BY <1>4, WorldIds
<1>5. CASE UNCHANGED vars
  BY <1>5 DEF vars, IssuedIds, AgentIds, CallerIds, RequestIds, ResidencyIds,
              Issued
<1> QED
  BY <1>1, <1>2, <1>3, <1>4, <1>5 DEF Next

-----------------------------------------------------------------------------
(* No agent is in two places, and none is lost                             *)

LEMMA InitSafe == Init => Safe
<1> SUFFICES ASSUME Init PROVE Safe
  OBVIOUS
<1>1. \A p \in Callers, i \in Ids : ~Carries(p, i)
  BY NoneAssumption DEF Init, Carries
<1>2. BackTaken
  BY DEF Init, BackTaken, Answered, Waiting
<1>3. NoDuplicate
  BY <1>1 DEF Init, NoDuplicate, Present
<1>4. NoOrphan
  BY WorldsAssumption DEF Init, NoOrphan
<1> QED
  BY <1>2, <1>3, <1>4 DEF Safe

\* Nothing moves as long as the worlds keep their agents and the goroutines
\* what they carry.
LEMMA NothingMoves ==
  ASSUME Shape, Safe, UNCHANGED <<agents, nextNum>>,
         givenUp \subseteq givenUp',
         \A p \in Callers, i \in Ids \ givenUp' :
           Carries(p, i)' <=> Carries(p, i),
         BackTaken'
  PROVE  Safe'
<1>1. NoDuplicate'
  <2> SUFFICES ASSUME NEW i \in Ids \ givenUp'
               PROVE  /\ \A v, w \in Worlds :
                           Present(v, i)' /\ Present(w, i)' => v = w
                      /\ \A p, q \in Callers :
                           Carries(p, i)' /\ Carries(q, i)' => p = q
                      /\ \A w \in Worlds, p \in Callers :
                           ~(Present(w, i)' /\ Carries(p, i)')
    BY DEF NoDuplicate
  <2>1. i \in Ids \ givenUp
    OBVIOUS
  <2>2. \A w \in Worlds : Present(w, i)' <=> Present(w, i)
    BY DEF Present
  <2> QED
    BY <2>1, <2>2 DEF Safe, NoDuplicate
<1>2. NoOrphan'
  <2> SUFFICES ASSUME NEW d \in JoinWorlds, NEW i \in 1..nextNum'[d],
                      i \notin givenUp'
               PROVE  \/ \E w \in Worlds : agents'[w][i] = <<d, i>>
                      \/ \E p \in Callers : Carries(p, i)'
    BY DEF NoOrphan
  <2>1. i \in Ids
    BY WorldsAssumption, BoundsAssumption DEF Shape, TypeOK, Ids
  <2> QED
    BY <2>1 DEF Safe, NoOrphan
<1> QED
  BY <1>1, <1>2 DEF Safe

\* Carries and Answered depend on a goroutine and its request only.
LEMMA SameCaller ==
  ASSUME RequestState, NEW q \in Callers, caller'[q] = caller[q],
         Waiting(q) => req'[Current(q)] = req[Current(q)]
  PROVE  /\ \A i \in Ids : Carries(q, i)' <=> Carries(q, i)
         /\ Answered(q)' <=> Answered(q)
         /\ Waiting(q)' <=> Waiting(q)
         /\ Answered(q) => req'[Current(q)'] = req[Current(q)]
<1>1. Current(q)' = Current(q) /\ (Waiting(q)' <=> Waiting(q))
  BY DEF Current, Waiting
<1> QED
  BY <1>1 DEF Carries, Answered, Waiting

\* The goroutine p moves; the others keep what they have.
LEMMA OneMoves ==
  ASSUME Shape, Safe, UNCHANGED <<agents, nextNum>>,
         givenUp \subseteq givenUp', NEW p \in Callers,
         \A q \in Callers \ {p} : caller'[q] = caller[q],
         \A t \in Calls : t[1] # p => req'[t] = req[t],
         \A i \in Ids \ givenUp' : Carries(p, i)' <=> Carries(p, i),
         caller'[p].pc = "back" /\ Answered(p)' /\ caller'[p].id \notin givenUp'
           => req'[Current(p)'].ok
  PROVE  Safe'
<1>1. ASSUME NEW q \in Callers \ {p}
      PROVE  Waiting(q) => req'[Current(q)] = req[Current(q)]
  <2>1. Waiting(q) => Current(q) \in Calls
    BY CurrentCall DEF Shape, RequestState
  <2> QED
    BY <2>1 DEF Current
<1>2. ASSUME NEW q \in Callers \ {p}
      PROVE  /\ \A i \in Ids : Carries(q, i)' <=> Carries(q, i)
             /\ Answered(q)' => Answered(q)
             /\ Answered(q) => req'[Current(q)'] = req[Current(q)]
  BY <1>1, SameCaller DEF Shape
<1>3. BackTaken'
  <2> SUFFICES ASSUME NEW q \in Callers, caller'[q].pc = "back", Answered(q)',
                      caller'[q].id \notin givenUp'
               PROVE  req'[Current(q)'].ok
    BY DEF BackTaken
  <2>1. CASE q = p
    BY <2>1
  <2>2. CASE q # p
    <3>1. /\ Answered(q) /\ req'[Current(q)'] = req[Current(q)]
          /\ caller[q].pc = "back" /\ caller[q].id \notin givenUp
      BY <1>2, <2>2
    <3> QED
      BY <3>1 DEF Safe, BackTaken
  <2> QED
    BY <2>1, <2>2
<1> QED
  BY <1>2, <1>3, NothingMoves

LEMMA SendingSafe ==
  ASSUME Shape, Safe, NEW p \in Callers,
         \/ p \in Conns /\ \E w \in JoinWorlds : Connect(p, w)
         \/ p \in Conns /\ \E w \in Worlds, k \in Conns : Resume(p, w, k)
         \/ p \in Conns /\ Disconnect(p)
         \/ \E w \in Worlds : RequestOut(p, w)
         \/ \E i \in Ids, w \in Worlds : MoveAgentWorld(p, i, w)
         \/ CooldownRefused(p) \/ RequestIn(p) \/ Rollback(p)
  PROVE  Safe'
<1> DEFINE s == caller[p]
<1>0. /\ s \in CallerStates /\ caller \in [Callers -> CallerStates]
      /\ req \in [Calls -> Requests \cup {None}]
  BY DEF Shape, TypeOK
<1>s. ASSUME NEW r, NEW next \in CallerStates, Send(p, r, next),
             next.n = s.n, r.stage = "sent",
             UNCHANGED <<agents, nextNum, givenUp>>,
             \/ /\ s.pc \in {"off", "idle"}
                /\ next.pc \in {"attaching", "joining", "gone", "out"}
             \/ /\ s.pc \in {"got", "undo"} /\ next.id = s.id
                /\ next.pc \in {"in", "back"}
      PROVE  Safe'
  <2> DEFINE t == [next EXCEPT !.n = s.n + 1]
             c == <<p, s.n + 1>>
  <2>1. caller' = [caller EXCEPT ![p] = t] /\ req' = [req EXCEPT ![c] = r]
    BY <1>0, <1>s DEF Send, CallerStates
  <2>2. t.id = next.id /\ t.pc = next.pc /\ t.n = s.n + 1
    BY DEF CallerStates
  <2>3. c \in Calls
    BY <1>0, <1>s, BoundsAssumption DEF Send, CallerStates, Calls
  <2>4. /\ caller'[p] = t /\ Current(p)' = c /\ req'[c] = r
        /\ \A q \in Callers \ {p} : caller'[q] = caller[q]
        /\ \A u \in Calls : u[1] # p => req'[u] = req[u]
    BY <1>0, <2>1, <2>2, <2>3 DEF Current
  <2>5. \A i \in Ids : Carries(p, i)' <=> Carries(p, i)
    <3> HIDE DEF t, c
    <3> QED
      BY <1>s, <2>2, <2>4 DEF Carries
  <2>6. ~Answered(p)'
    <3> HIDE DEF t, c
    <3> QED
      BY <1>s, <2>4 DEF Answered
  <2> QED
    BY <1>s, <2>4, <2>5, <2>6, OneMoves
<1>1. ASSUME NEW w \in JoinWorlds, Connect(p, w) PROVE Safe'
  <2> DEFINE r == [Request("join", w) EXCEPT !.client = p]
             next == [s EXCEPT !.pc = "joining", !.world = w, !.expired = FALSE]
  <2>1. r.stage = "sent"
    BY DEF Request
  <2>2. next \in CallerStates /\ next.pc = "joining" /\ next.n = s.n
    BY <1>0, WorldsAssumption DEF CallerStates
  <2> QED
    BY <1>1, <1>s, <2>1, <2>2 DEF Connect
<1>2. ASSUME NEW w \in Worlds, NEW k \in Conns, Resume(p, w, k) PROVE Safe'
  <2> DEFINE r == [Request("attach", w) EXCEPT !.token = k, !.client = p]
             next == [s EXCEPT !.pc = "attaching", !.world = w,
                               !.expired = FALSE]
  <2>1. r.stage = "sent"
    BY DEF Request
  <2>2. next \in CallerStates /\ next.pc = "attaching" /\ next.n = s.n
    BY <1>0 DEF CallerStates
  <2> QED
    BY <1>2, <1>s, <2>1, <2>2 DEF Resume
<1>3. ASSUME Disconnect(p) PROVE Safe'
  <2> DEFINE r == [Request("leave", s.world) EXCEPT !.id = s.id]
             next == [s EXCEPT !.pc = "gone"]
  <2>1. r.stage = "sent"
    BY DEF Request
  <2>2. next \in CallerStates /\ next.pc = "gone" /\ next.n = s.n
    BY <1>0 DEF CallerStates
  <2> QED
    BY <1>3, <1>s, <2>1, <2>2 DEF Disconnect
<1>4. ASSUME NEW w \in Worlds, RequestOut(p, w) PROVE Safe'
  <2> DEFINE r == [Request("out", s.world) EXCEPT !.id = s.id]
             next == [s EXCEPT !.pc = "out", !.src = s.world, !.dst = w]
  <2>1. r.stage = "sent"
    BY DEF Request
  <2>2. next \in CallerStates /\ next.pc = "out" /\ next.n = s.n
    BY <1>0 DEF CallerStates
  <2> QED
    BY <1>4, <1>s, <2>1, <2>2 DEF RequestOut
<1>5. ASSUME NEW i \in Ids, NEW w \in Worlds, MoveAgentWorld(p, i, w)
      PROVE  Safe'
  <2> DEFINE r == [Request("out", residency[i]) EXCEPT !.id = i]
             next == [s EXCEPT !.pc = "out", !.id = i, !.src = residency[i],
                               !.dst = w]
  <2>0. residency[i] \in Worlds
    BY <1>5 DEF Shape, TypeOK, MoveAgentWorld
  <2>1. r.stage = "sent"
    BY DEF Request
  <2>2. next \in CallerStates /\ next.pc = "out" /\ next.n = s.n
    BY <1>0, <2>0 DEF CallerStates
  <2> QED
    BY <1>5, <1>s, <2>1, <2>2 DEF MoveAgentWorld
<1>6. ASSUME NEW w, NEW pc \in {"in", "back"}, s.pc \in {"got", "undo"},
             Send(p, TransferOf(p, w), [s EXCEPT !.pc = pc]),
             UNCHANGED <<agents, nextNum, givenUp>>
      PROVE  Safe'
  <2> DEFINE r == TransferOf(p, w)
             next == [s EXCEPT !.pc = pc]
  <2>1. r.stage = "sent"
    BY TransferFields DEF Shape
  <2>2. /\ next \in CallerStates /\ next.id = s.id /\ next.n = s.n
        /\ next.pc = pc
    BY <1>0 DEF CallerStates
  <2> HIDE DEF r
  <2> QED
    BY <1>6, <1>s, <2>1, <2>2 DEF r
<1>7. ASSUME CooldownRefused(p) PROVE Safe'
  BY <1>6, <1>7 DEF CooldownRefused
<1>8. ASSUME RequestIn(p) PROVE Safe'
  BY <1>6, <1>8 DEF RequestIn
<1>9. ASSUME Rollback(p) PROVE Safe'
  BY <1>6, <1>9 DEF Rollback
<1> QED
  BY <1>1, <1>2, <1>3, <1>4, <1>5, <1>7, <1>8, <1>9

LEMMA ReadingSafe ==
  ASSUME Shape, Safe, NEW p \in Callers,
         \/ Joined(p) \/ NotResumed(p) \/ JoinFailed(p)
         \/ LeaveDropped(p) \/ GotOut(p) \/ GotIn(p) \/ GotBack(p)
         \/ OutAbandoned(p) \/ InAbandoned(p) \/ BackAbandoned(p)
         \/ Settle(p) \/ Expire(p)
  PROVE  Safe'
<1> DEFINE s == caller[p]
           r == req[Current(p)]
<1>0. /\ s \in CallerStates /\ caller \in [Callers -> CallerStates]
      /\ req \in [Calls -> Requests \cup {None}]
  BY DEF Shape, TypeOK
<1>1. /\ agents' = agents /\ nextNum' = nextNum
      /\ \A t \in Calls : t[1] # p => req'[t] = req[t]
      /\ givenUp \subseteq givenUp'
  BY <1>0 DEF Joined, NotResumed, JoinFailed, LeaveDropped, GotOut, GotIn,
              GotBack, OutAbandoned, InAbandoned, BackAbandoned, Settle,
              Expire, Forget, Current
<1>s. ASSUME NEW next, caller' = [caller EXCEPT ![p] = next],
             next.pc \notin Blocking,
             \A i \in Ids \ givenUp' :
               (next.id = i /\ next.pc \in {"got", "undo"}) <=> Carries(p, i)
      PROVE  Safe'
  <2>1. caller'[p] = next /\ \A q \in Callers \ {p} : caller'[q] = caller[q]
    BY <1>0, <1>s
  <2>2. \A i \in Ids \ givenUp' : Carries(p, i)' <=> Carries(p, i)
    BY <1>s, <2>1 DEF Carries, Blocking
  <2> QED
    BY <1>1, <1>s, <2>1, <2>2, OneMoves DEF Blocking
<1>e. Ended(p).pc = "idle"
  <2>1. ASSUME NEW i
        PROVE  [s EXCEPT !.pc = "idle", !.char = None, !.src = None,
                         !.dst = None, !.expired = FALSE, !.id = i].pc = "idle"
    BY <1>0 DEF CallerStates
  <2> QED
    BY <2>1 DEF Ended
<1>f. ASSUME Return(p), \A i \in Ids \ givenUp' : ~Carries(p, i) PROVE Safe'
  BY <1>e, <1>f, <1>s DEF Return, Blocking
<1>m. ASSUME NEW pc \in {"off", "gone", "placed", "undo"},
             caller' = [caller EXCEPT ![p].pc = pc],
             \A i \in Ids \ givenUp' :
               (s.id = i /\ pc = "undo") <=> Carries(p, i)
      PROVE  Safe'
  <2> DEFINE next == [s EXCEPT !.pc = pc]
  <2>1. next.id = s.id /\ next.pc = pc
    BY <1>0 DEF CallerStates
  <2> QED
    BY <1>m, <1>s, <2>1 DEF Blocking
<1>2. ASSUME Joined(p) PROVE Safe'
  <2> DEFINE next == [[[s EXCEPT !.pc = "idle"] EXCEPT !.id = r.id]
                        EXCEPT !.expired = FALSE]
  <2>1. next.pc = "idle"
    BY <1>0 DEF CallerStates
  <2>2. caller' = [caller EXCEPT ![p] = next]
    BY <1>0, <1>2 DEF Joined
  <2>3. \A i \in Ids : ~Carries(p, i)
    BY <1>2 DEF Joined, Carries
  <2> HIDE DEF next
  <2> QED
    BY <1>s, <2>1, <2>2, <2>3 DEF Blocking
<1>3. ASSUME NotResumed(p) \/ JoinFailed(p) \/ LeaveDropped(p) PROVE Safe'
  <2>1. \A i \in Ids : ~Carries(p, i)
    BY <1>3 DEF NotResumed, JoinFailed, LeaveDropped, Carries
  <2> QED
    BY <1>3, <1>m, <2>1 DEF NotResumed, JoinFailed, LeaveDropped
<1>4. ASSUME GotOut(p) PROVE Safe'
  <2>1. s.pc = "out" /\ r.stage = "done"
    BY <1>4 DEF GotOut, Answered
  <2>2. CASE r.ok
    <3> DEFINE next == [[s EXCEPT !.pc = "got"] EXCEPT !.char = r.char]
    <3>1. next.id = s.id /\ next.pc = "got"
      BY <1>0 DEF CallerStates
    <3>2. caller' = [caller EXCEPT ![p] = next]
      BY <1>0, <1>4, <2>2 DEF GotOut
    <3>3. \A i \in Ids : Carries(p, i) <=> s.id = i
      BY <2>1, <2>2 DEF Carries
    <3> HIDE DEF next
    <3> QED
      BY <1>s, <3>1, <3>2, <3>3 DEF Blocking
  <2>3. CASE ~r.ok
    BY <1>4, <1>f, <2>1, <2>3 DEF GotOut, Carries
  <2> QED
    BY <2>2, <2>3
<1>5. ASSUME GotIn(p) PROVE Safe'
  <2>1. s.pc = "in" /\ r.stage = "done"
    BY <1>5 DEF GotIn, Answered
  <2>2. CASE r.ok
    BY <1>5, <1>m, <2>1, <2>2 DEF GotIn, Carries
  <2>3. CASE ~r.ok
    BY <1>5, <1>m, <2>1, <2>3 DEF GotIn, Carries
  <2> QED
    BY <2>2, <2>3
<1>6. ASSUME GotBack(p) PROVE Safe'
  <2>1. s.pc = "back" /\ Answered(p) /\ r.stage = "done"
    BY <1>6 DEF GotBack, Answered
  <2>2. s.id \notin givenUp => r.ok
    BY <2>1 DEF Safe, BackTaken
  <2>3. \A i \in Ids \ givenUp' : ~Carries(p, i)
    BY <1>1, <2>1, <2>2 DEF Carries
  <2> QED
    BY <1>6, <1>f, <2>3 DEF GotBack
<1>7. ASSUME OutAbandoned(p) \/ BackAbandoned(p) PROVE Safe'
  <2>1. s.id \in givenUp'
    BY <1>7 DEF OutAbandoned, BackAbandoned
  <2>2. \A i \in Ids \ givenUp' : ~Carries(p, i)
    BY <2>1 DEF Carries
  <2> QED
    BY <1>7, <1>f, <2>2 DEF OutAbandoned, BackAbandoned
<1>8. ASSUME InAbandoned(p) PROVE Safe'
  <2>1. s.id \in givenUp'
    BY <1>8 DEF InAbandoned
  <2>2. \A i \in Ids \ givenUp' : ~Carries(p, i) /\ s.id # i
    BY <2>1 DEF Carries
  <2> QED
    BY <1>8, <1>m, <2>2 DEF InAbandoned
<1>9. ASSUME Settle(p) PROVE Safe'
  <2> DEFINE next == IF p \in Conns THEN [Ended(p) EXCEPT !.world = s.dst]
                                    ELSE Ended(p)
  <2>1. next.pc = "idle"
    BY <1>e, ReturnType DEF CallerStates, Shape
  <2>2. \A i \in Ids : ~Carries(p, i)
    BY <1>9 DEF Settle, Carries
  <2>3. caller' = [caller EXCEPT ![p] = next]
    BY <1>9 DEF Settle
  <2> HIDE DEF next
  <2> QED
    BY <1>s, <2>1, <2>2, <2>3 DEF Blocking
<1>10. ASSUME Expire(p) PROVE Safe'
  <2> DEFINE next == [s EXCEPT !.expired = TRUE]
  <2>1. next.id = s.id /\ next.pc = s.pc /\ next.n = s.n
    BY <1>0 DEF CallerStates
  <2>2. caller' = [caller EXCEPT ![p] = next] /\ UNCHANGED <<req, givenUp>>
    BY <1>0, <1>10 DEF Expire
  <2> HIDE DEF next
  <2>3. caller'[p] = next /\ \A q \in Callers \ {p} : caller'[q] = caller[q]
    BY <1>0, <2>2
  <2>4. Current(p)' = Current(p) /\ (Answered(p)' <=> Answered(p))
    BY <2>1, <2>2, <2>3 DEF Current, Answered, Waiting
  <2>5. \A i \in Ids : Carries(p, i)' <=> Carries(p, i)
    BY <2>1, <2>2, <2>3, <2>4 DEF Carries
  <2>6. s.pc = "back" /\ Answered(p) /\ s.id \notin givenUp => r.ok
    BY DEF Safe, BackTaken
  <2> QED
    BY <1>1, <2>1, <2>2, <2>3, <2>4, <2>5, <2>6, OneMoves
<1> QED
  BY <1>2, <1>3, <1>4, <1>5, <1>6, <1>7, <1>8, <1>9, <1>10

\* Handling an attach, a leave or a join changes no transfer.
LEMMA NoTransferChanges ==
  ASSUME Shape, Safe, UNCHANGED <<caller, givenUp>>,
         NEW t \in Calls, req[t] # None, req[t].kind \notin {"out", "in"},
         \A u \in Calls \ {t} : req'[u] = req[u]
  PROVE  /\ \A p \in Callers, i \in Ids : Carries(p, i)' <=> Carries(p, i)
         /\ BackTaken'
<1>1. \A p \in Callers : Current(p)' = Current(p) /\ (Waiting(p)' <=> Waiting(p))
  BY DEF Current, Waiting
<1>2. ASSUME NEW p \in Callers, caller[p].pc \in {"out", "in", "back"}
      PROVE  req'[Current(p)] = req[Current(p)]
  <2>1. caller[p].n # 0 /\ Matches(caller[p], req[Current(p)])
    BY <1>2 DEF Shape, RequestState, Waiting
  <2>2. Current(p) \in Calls
    BY <2>1, CurrentCall DEF Shape
  <2>3. Current(p) # t
    BY <1>2, <2>1 DEF Matches, KindOf
  <2> QED
    BY <2>2, <2>3
<1>3. \A p \in Callers, i \in Ids : Carries(p, i)' <=> Carries(p, i)
  BY <1>1, <1>2 DEF Carries
<1>4. BackTaken'
  BY <1>1, <1>2 DEF Safe, BackTaken, Answered
<1> QED
  BY <1>3, <1>4

LEMMA TickSafe ==
  ASSUME Shape, Safe, NEW w \in Worlds, NEW S \in SUBSET Pending(w),
         TickWith(w, S)
  PROVE  Safe'
<1>1. UNCHANGED <<agents, nextNum, caller, givenUp>>
  BY DEF TickWith
<1>2. \A p \in Callers : Current(p)' = Current(p) /\ (Waiting(p)' <=> Waiting(p))
  BY <1>1 DEF Current, Waiting
<1>3. ASSUME NEW t \in Calls
      PROVE  \/ req'[t] = req[t]
             \/ req[t].stage # "done" /\ req'[t].stage # "done"
  <2>1. t \in S => req[t] \in Requests /\ req[t].stage = "sent"
    BY DEF Pending, At, Shape, TypeOK
  <2>2. t \in S => req'[t] = [req[t] EXCEPT !.stage = "taken"]
    BY DEF TickWith
  <2>3. t \notin S => req'[t] = req[t]
    BY DEF TickWith
  <2> QED
    BY <2>1, <2>2, <2>3 DEF Requests
<1>4. ASSUME NEW p \in Callers, caller[p].pc \in {"out", "in", "back"}
      PROVE  Current(p) \in Calls
  BY <1>4, CurrentCall DEF Shape, RequestState, Waiting
<1>5. \A p \in Callers, i \in Ids : Carries(p, i)' <=> Carries(p, i)
  BY <1>1, <1>2, <1>3, <1>4 DEF Carries
<1>6. BackTaken'
  BY <1>1, <1>2, <1>3, <1>4 DEF Safe, BackTaken, Answered
<1> QED
  BY <1>1, <1>5, <1>6, NothingMoves

\* An agent that is created has a new id.
LEMMA JoinSafe ==
  ASSUME SingleEntry, Shape, IssuedIds, Safe, NEW w \in Worlds,
         NEW t \in Calls, HandleJoin(w, t)
  PROVE  Safe'
<1> DEFINE i0 == nextNum[w] + 1
<1>0. /\ nextNum \in [Worlds -> 0..MaxJoins]
      /\ agents \in [Worlds -> [Ids -> Chars \cup {None}]]
  BY DEF Shape, TypeOK
<1>1. /\ UNCHANGED <<caller, givenUp>>
      /\ req[t] # None /\ req[t].kind = "join" /\ req[t].to = w
      /\ \A u \in Calls \ {t} : req'[u] = req[u]
      /\ i0 \in Ids
  BY DEF HandleJoin, NextOf, At, Answer
<1>2. /\ \A p \in Callers, i \in Ids : Carries(p, i)' <=> Carries(p, i)
      /\ BackTaken'
  BY <1>1, NoTransferChanges
<1>3. w \in JoinWorlds
  BY <1>1 DEF Shape, RequestState, WellFormed
<1>4. ~Issued(i0)
  BY <1>0, <1>1, <1>3, BoundsAssumption DEF Issued, Ids
<1>5. /\ \A v \in Worlds : ~Present(v, i0)
      /\ \A p \in Callers : ~Carries(p, i0)
  <2>1. \A v \in Worlds : ~Present(v, i0)
    BY <1>1, <1>4 DEF IssuedIds, AgentIds, Present
  <2>2. \A p \in Callers : caller[p].id # i0
    BY <1>1, <1>4, NoneAssumption DEF IssuedIds, CallerIds
  <2> QED
    BY <2>1, <2>2 DEF Carries
<1>6. /\ agents' = [agents EXCEPT ![w] = [agents[w] EXCEPT ![i0] = <<w, i0>>]]
      /\ nextNum' = [nextNum EXCEPT ![w] = i0]
  BY DEF HandleJoin
<1>7. \A v \in Worlds, i \in Ids :
        agents'[v][i] = IF v = w /\ i = i0 THEN <<w, i0>> ELSE agents[v][i]
  BY <1>0, <1>1, <1>6
<1>8. \A v \in Worlds, i \in Ids :
        Present(v, i)' => Present(v, i) \/ (v = w /\ i = i0)
  BY <1>7 DEF Present
<1>9. NoDuplicate'
  <2> SUFFICES ASSUME NEW i \in Ids \ givenUp'
               PROVE  /\ \A v, u \in Worlds :
                           Present(v, i)' /\ Present(u, i)' => v = u
                      /\ \A p, q \in Callers :
                           Carries(p, i)' /\ Carries(q, i)' => p = q
                      /\ \A u \in Worlds, p \in Callers :
                           ~(Present(u, i)' /\ Carries(p, i)')
    BY DEF NoDuplicate
  <2>1. i \in Ids \ givenUp
    BY <1>1
  <2>2. CASE i = i0
    BY <1>2, <1>5, <1>8, <2>2
  <2>3. CASE i # i0
    BY <1>2, <1>8, <2>1, <2>3 DEF Safe, NoDuplicate
  <2> QED
    BY <2>2, <2>3
<1>10. NoOrphan'
  <2> SUFFICES ASSUME NEW d \in JoinWorlds, NEW i \in 1..nextNum'[d],
                      i \notin givenUp'
               PROVE  \/ \E v \in Worlds : agents'[v][i] = <<d, i>>
                      \/ \E p \in Callers : Carries(p, i)'
    BY DEF NoOrphan
  <2>1. d = w
    BY <1>3 DEF SingleEntry
  <2>2. i \in 1..i0 /\ i \in Ids
    BY <1>0, <1>1, <1>6, <2>1, BoundsAssumption DEF Ids
  <2>3. CASE i = i0
    BY <1>1, <1>7, <2>1, <2>3
  <2>4. CASE i # i0
    <3>1. i \in 1..nextNum[d] /\ i \notin givenUp
      BY <1>0, <1>1, <2>1, <2>2, <2>4, BoundsAssumption
    <3>2. \/ \E v \in Worlds : agents[v][i] = <<d, i>>
          \/ \E p \in Callers : Carries(p, i)
      BY <3>1 DEF Safe, NoOrphan
    <3> QED
      BY <1>2, <1>7, <2>2, <2>4, <3>2
  <2> QED
    BY <2>3, <2>4
<1> QED
  BY <1>2, <1>9, <1>10 DEF Safe

\* The goroutine whose transfer a world handles, unless it gave up.
LEMMA Transferring ==
  ASSUME Shape, NEW w \in Worlds, NEW t \in Calls, NextOf(w, t),
         req[t].kind \in {"out", "in"}
  PROVE  /\ req[t] \in Requests /\ req[t] # None /\ req[t].id \in Ids
         /\ req[t].stage = "taken" /\ ~req[t].ok
         /\ ~Awaited(t) => req[t].id \in givenUp
         /\ Awaited(t) =>
              /\ t[1] \in Callers /\ t = Current(t[1])
              /\ Matches(caller[t[1]], req[t])
              /\ req[t].kind = "out" => caller[t[1]].pc = "out"
              /\ req[t].kind = "in" => caller[t[1]].pc \in {"in", "back"}
              /\ caller[t[1]].id = req[t].id
<1>1. req[t] \in Requests /\ req[t] # None /\ req[t].stage = "taken"
  BY DEF NextOf, At, Shape, TypeOK
<1>2. req[t].id \in Ids /\ ~req[t].ok
  BY <1>1 DEF Shape, RequestState, WellFormed, Requests
<1>3. ~Awaited(t) => req[t].id \in givenUp
  BY <1>1 DEF Shape, RequestState, Abandoned
<1>4. ASSUME Awaited(t)
      PROVE  /\ t[1] \in Callers /\ t = Current(t[1])
             /\ Matches(caller[t[1]], req[t])
             /\ req[t].kind = "out" => caller[t[1]].pc = "out"
             /\ req[t].kind = "in" => caller[t[1]].pc \in {"in", "back"}
             /\ caller[t[1]].id = req[t].id
  <2>1. t[1] \in Callers /\ Waiting(t[1]) /\ t = Current(t[1])
    BY <1>4 DEF Awaited, Calls
  <2>2. Matches(caller[t[1]], req[t])
    BY <2>1 DEF Shape, RequestState
  <2> QED
    BY <2>1, <2>2 DEF Matches, KindOf, Waiting
<1> QED
  BY <1>1, <1>2, <1>3, <1>4

\* Goroutines other than the one that is answered keep what they have.
LEMMA OthersKeep ==
  ASSUME Shape, UNCHANGED caller, NEW t \in Calls,
         \A u \in Calls \ {t} : req'[u] = req[u],
         NEW q \in Callers, ~(Awaited(t) /\ q = t[1])
  PROVE  /\ \A i \in Ids : Carries(q, i)' <=> Carries(q, i)
         /\ Answered(q)' <=> Answered(q)
         /\ Answered(q) => req'[Current(q)'] = req[Current(q)]
<1>1. ASSUME Waiting(q) PROVE req'[Current(q)] = req[Current(q)]
  <2>1. Current(q) \in Calls
    BY <1>1, CurrentCall DEF Shape, RequestState
  <2>2. Current(q) # t
    BY <1>1 DEF Awaited, Current
  <2> QED
    BY <2>1, <2>2
<1> QED
  BY <1>1, SameCaller DEF Shape

LEMMA TransferOutSafe ==
  ASSUME Shape, Safe, NEW w \in Worlds, NEW t \in Calls,
         HandleTransferOut(w, t)
  PROVE  Safe'
<1> DEFINE r == req[t]
           j == r.id
           p == t[1]
           x == agents[w][j]
<1>0. /\ agents \in [Worlds -> [Ids -> Chars \cup {None}]]
      /\ req \in [Calls -> Requests \cup {None}]
  BY DEF Shape, TypeOK
<1>1. /\ UNCHANGED <<caller, givenUp, nextNum>>
      /\ NextOf(w, t) /\ r.kind = "out"
      /\ \A u \in Calls \ {t} : req'[u] = req[u]
      /\ agents' = [agents EXCEPT ![w] = [agents[w] EXCEPT ![j] = None]]
  BY DEF HandleTransferOut, Answer, WithoutAgent
<1>2. /\ r \in Requests /\ r # None /\ j \in Ids /\ r.stage = "taken" /\ ~r.ok
      /\ ~Awaited(t) => j \in givenUp
      /\ Awaited(t) => p \in Callers /\ t = Current(p)
                       /\ caller[p].pc = "out" /\ caller[p].id = j
  BY <1>1, Transferring
<1>3. \A v \in Worlds, i \in Ids :
        agents'[v][i] = IF v = w /\ i = j THEN None ELSE agents[v][i]
  BY <1>0, <1>1, <1>2
<1>4. ASSUME NEW q \in Callers, NEW i \in Ids \ givenUp', Carries(q, i)'
      PROVE  \/ Carries(q, i)
             \/ /\ Awaited(t) /\ q = p /\ i = j /\ Present(w, j)
  <2>1. CASE ~(Awaited(t) /\ q = p)
    BY <1>1, <1>4, <2>1, OthersKeep
  <2>2. CASE Awaited(t) /\ q = p
    <3>1. i = j
      BY <1>1, <1>2, <1>4, <2>2 DEF Carries
    <3>2. req'[t].ok
      BY <1>1, <1>2, <1>4, <2>2 DEF Carries, Current
    <3>3. req'[t] = [[[r EXCEPT !.ok = x # None] EXCEPT !.char = x]
                       EXCEPT !.stage = "done"]
      BY <1>0, <2>2 DEF HandleTransferOut, Answer
    <3>4. x # None
      BY <1>2, <3>2, <3>3 DEF Requests
    <3> QED
      BY <2>2, <3>1, <3>4 DEF Present
  <2> QED
    BY <2>1, <2>2
<1>5. ASSUME Awaited(t), x # None, NEW i \in Ids, i = j PROVE Carries(p, i)'
  <2>1. req'[t] = [[[r EXCEPT !.ok = x # None] EXCEPT !.char = x]
                     EXCEPT !.stage = "done"]
    BY <1>0, <1>5 DEF HandleTransferOut, Answer
  <2>2. req'[t].ok /\ req'[t].stage = "done"
    BY <1>2, <1>5, <2>1 DEF Requests
  <2> QED
    BY <1>1, <1>2, <1>5, <2>2 DEF Carries, Current
<1>6. \A v \in Worlds, i \in Ids : Present(v, i)' => Present(v, i)
                                                     /\ ~(v = w /\ i = j)
  BY <1>3 DEF Present
<1>7. NoDuplicate'
  <2> SUFFICES ASSUME NEW i \in Ids \ givenUp'
               PROVE  /\ \A v, u \in Worlds :
                           Present(v, i)' /\ Present(u, i)' => v = u
                      /\ \A q, s \in Callers :
                           Carries(q, i)' /\ Carries(s, i)' => q = s
                      /\ \A u \in Worlds, q \in Callers :
                           ~(Present(u, i)' /\ Carries(q, i)')
    BY DEF NoDuplicate
  <2>1. i \in Ids \ givenUp
    BY <1>1
  <2>2. /\ \A v, u \in Worlds : Present(v, i) /\ Present(u, i) => v = u
        /\ \A q, s \in Callers : Carries(q, i) /\ Carries(s, i) => q = s
        /\ \A u \in Worlds, q \in Callers : ~(Present(u, i) /\ Carries(q, i))
    BY <2>1 DEF Safe, NoDuplicate
  <2>3. CASE Awaited(t) /\ i = j /\ Present(w, j)
    <3>1. \A u \in Worlds : ~Present(u, i)'
      BY <1>6, <2>2, <2>3
    <3>2. \A q \in Callers : Carries(q, i)' => q = p
      BY <1>4, <2>2, <2>3
    <3> QED
      BY <3>1, <3>2
  <2>4. CASE ~(Awaited(t) /\ i = j /\ Present(w, j))
    BY <1>4, <1>6, <2>2, <2>4
  <2> QED
    BY <2>3, <2>4
<1>8. NoOrphan'
  <2> SUFFICES ASSUME NEW d \in JoinWorlds, NEW i \in 1..nextNum'[d],
                      i \notin givenUp'
               PROVE  \/ \E v \in Worlds : agents'[v][i] = <<d, i>>
                      \/ \E q \in Callers : Carries(q, i)'
    BY DEF NoOrphan
  <2>1. i \in Ids /\ i \in 1..nextNum[d] /\ i \notin givenUp
    BY <1>1, WorldsAssumption, BoundsAssumption DEF Shape, TypeOK, Ids
  <2>2. CASE \E q \in Callers : Carries(q, i)
    <3>1. PICK q \in Callers : Carries(q, i)
      BY <2>2
    <3>2. ~(Awaited(t) /\ q = p)
      BY <1>2, <3>1 DEF Carries
    <3> QED
      BY <1>1, <2>1, <3>1, <3>2, OthersKeep
  <2>3. CASE \E v \in Worlds : agents[v][i] = <<d, i>>
    <3>1. PICK v \in Worlds : agents[v][i] = <<d, i>>
      BY <2>3
    <3>2. CASE v = w /\ i = j
      <4>1. x # None
        <5>1. <<d, i>> # None
          BY <2>1, NoneAssumption, WorldsAssumption DEF Chars
        <5> QED
          BY <3>1, <3>2, <5>1
      <4> QED
        BY <1>1, <1>2, <1>5, <2>1, <3>2, <4>1
    <3>3. CASE ~(v = w /\ i = j)
      BY <1>3, <2>1, <3>1, <3>3
    <3> QED
      BY <3>2, <3>3
  <2> QED
    BY <2>1, <2>2, <2>3 DEF Safe, NoOrphan
<1>9. BackTaken'
  <2> SUFFICES ASSUME NEW q \in Callers, caller'[q].pc = "back", Answered(q)',
                      caller'[q].id \notin givenUp'
               PROVE  req'[Current(q)'].ok
    BY DEF BackTaken
  <2>1. ~(Awaited(t) /\ q = p)
    BY <1>1, <1>2
  <2> QED
    BY <1>1, <2>1, OthersKeep DEF Safe, BackTaken
<1> QED
  BY <1>7, <1>8, <1>9 DEF Safe

LEMMA TransferInSafe ==
  ASSUME Shape, IssuedIds, SingleEntry, Safe, NEW w \in Worlds,
         NEW t \in Calls, HandleTransferIn(w, t)
  PROVE  Safe'
<1> DEFINE r == req[t]
           j == r.id
           p == t[1]
           absent == agents[w][j] = None
<1>0. /\ agents \in [Worlds -> [Ids -> Chars \cup {None}]]
      /\ req \in [Calls -> Requests \cup {None}]
  BY DEF Shape, TypeOK
<1>1. /\ UNCHANGED <<caller, givenUp, nextNum>>
      /\ NextOf(w, t) /\ r.kind = "in"
      /\ \A u \in Calls \ {t} : req'[u] = req[u]
      /\ agents' = IF absent
                   THEN [agents EXCEPT ![w] = [agents[w] EXCEPT ![j] = r.char]]
                   ELSE agents
  BY DEF HandleTransferIn, Answer
<1>2. /\ r \in Requests /\ r # None /\ j \in Ids /\ r.stage = "taken" /\ ~r.ok
      /\ ~Awaited(t) => j \in givenUp
      /\ Awaited(t) => p \in Callers /\ t = Current(p)
                       /\ caller[p].pc \in {"in", "back"} /\ caller[p].id = j
  BY <1>1, Transferring
<1>3. \A v \in Worlds, i \in Ids :
        agents'[v][i] = IF absent /\ v = w /\ i = j THEN r.char
                        ELSE agents[v][i]
  BY <1>0, <1>1, <1>2
<1>4. ASSUME Awaited(t) PROVE Carries(p, j)
  BY <1>2, <1>4 DEF Carries
<1>5. ASSUME Awaited(t), j \notin givenUp
      PROVE  absent /\ req'[t].ok /\ req'[t].stage = "done"
  <2>1. absent
    BY <1>2, <1>4, <1>5 DEF Safe, NoDuplicate, Present
  <2>2. req'[t] = [[r EXCEPT !.ok = absent] EXCEPT !.stage = "done"]
    BY <1>0, <1>5 DEF HandleTransferIn, Answer
  <2> QED
    BY <1>2, <2>1, <2>2 DEF Requests
<1>6. ASSUME NEW q \in Callers, NEW i \in Ids \ givenUp', Carries(q, i)'
      PROVE  Carries(q, i) /\ ~(Awaited(t) /\ i = j)
  <2>0. i \notin givenUp
    BY <1>1
  <2>1. ~(Awaited(t) /\ q = p)
    <3>1. SUFFICES ASSUME Awaited(t), q = p PROVE FALSE
      OBVIOUS
    <3>2. i = j
      BY <1>1, <1>2, <1>6, <3>1 DEF Carries
    <3> QED
      BY <1>1, <1>2, <1>5, <1>6, <2>0, <3>1, <3>2 DEF Carries, Current
  <2>2. Carries(q, i)
    BY <1>1, <1>6, <2>1, OthersKeep
  <2>3. Awaited(t) /\ i = j => q = p
    BY <1>2, <1>4, <2>0, <2>2 DEF Safe, NoDuplicate
  <2> QED
    BY <2>1, <2>2, <2>3
<1>7. ASSUME NEW v \in Worlds, NEW i \in Ids \ givenUp', Present(v, i)'
      PROVE  Present(v, i) \/ (Awaited(t) /\ v = w /\ i = j)
  <2>1. i \notin givenUp
    BY <1>1
  <2> QED
    BY <1>2, <1>3, <1>7, <2>1 DEF Present
<1>8. NoDuplicate'
  <2> SUFFICES ASSUME NEW i \in Ids \ givenUp'
               PROVE  /\ \A v, u \in Worlds :
                           Present(v, i)' /\ Present(u, i)' => v = u
                      /\ \A q, s \in Callers :
                           Carries(q, i)' /\ Carries(s, i)' => q = s
                      /\ \A u \in Worlds, q \in Callers :
                           ~(Present(u, i)' /\ Carries(q, i)')
    BY DEF NoDuplicate
  <2>1. i \in Ids \ givenUp
    BY <1>1
  <2>2. /\ \A v, u \in Worlds : Present(v, i) /\ Present(u, i) => v = u
        /\ \A q, s \in Callers : Carries(q, i) /\ Carries(s, i) => q = s
        /\ \A u \in Worlds, q \in Callers : ~(Present(u, i) /\ Carries(q, i))
    BY <2>1 DEF Safe, NoDuplicate
  <2>3. CASE Awaited(t) /\ i = j
    <3>1. \A u \in Worlds : ~Present(u, i)
      BY <1>2, <1>4, <2>2, <2>3
    <3> QED
      BY <1>6, <1>7, <2>3, <3>1
  <2>4. CASE ~(Awaited(t) /\ i = j)
    BY <1>6, <1>7, <2>2, <2>4
  <2> QED
    BY <2>3, <2>4
<1>9. NoOrphan'
  <2> SUFFICES ASSUME NEW d \in JoinWorlds, NEW i \in 1..nextNum'[d],
                      i \notin givenUp'
               PROVE  \/ \E v \in Worlds : agents'[v][i] = <<d, i>>
                      \/ \E q \in Callers : Carries(q, i)'
    BY DEF NoOrphan
  <2>1. i \in Ids /\ i \in 1..nextNum[d] /\ i \notin givenUp
    BY <1>1, WorldsAssumption, BoundsAssumption DEF Shape, TypeOK, Ids
  <2>2. CASE \E q \in Callers : Carries(q, i)
    <3>1. PICK q \in Callers : Carries(q, i)
      BY <2>2
    <3>2. CASE Awaited(t) /\ q = p
      <4>1. i = j
        BY <1>2, <3>1, <3>2 DEF Carries
      <4>2. absent
        BY <1>5, <2>1, <3>2, <4>1
      <4>3. Original(r.char, j)
        BY <1>1, <1>2 DEF IssuedIds, RequestIds
      <4>4. r.char = <<d, i>>
        BY <4>1, <4>3 DEF Original, Chars, SingleEntry
      <4> QED
        BY <1>3, <2>1, <4>1, <4>2, <4>4
    <3>3. CASE ~(Awaited(t) /\ q = p)
      BY <1>1, <2>1, <3>1, <3>3, OthersKeep
    <3> QED
      BY <3>2, <3>3
  <2>3. CASE \E v \in Worlds : agents[v][i] = <<d, i>>
    <3>1. PICK v \in Worlds : agents[v][i] = <<d, i>>
      BY <2>3
    <3>2. <<d, i>> # None
      BY <2>1, NoneAssumption, WorldsAssumption DEF Chars
    <3> QED
      BY <1>3, <2>1, <3>1, <3>2
  <2> QED
    BY <2>1, <2>2, <2>3 DEF Safe, NoOrphan
<1>10. BackTaken'
  <2> SUFFICES ASSUME NEW q \in Callers, caller'[q].pc = "back", Answered(q)',
                      caller'[q].id \notin givenUp'
               PROVE  req'[Current(q)'].ok
    BY DEF BackTaken
  <2>1. CASE Awaited(t) /\ q = p
    BY <1>1, <1>2, <1>5, <2>1 DEF Current
  <2>2. CASE ~(Awaited(t) /\ q = p)
    BY <1>1, <2>2, OthersKeep DEF Safe, BackTaken
  <2> QED
    BY <2>1, <2>2
<1> QED
  BY <1>8, <1>9, <1>10 DEF Safe

LEMMA StepSafe ==
  ASSUME SingleEntry, Shape, IssuedIds, Safe, [Next]_vars
  PROVE  Safe'
<1>1. ASSUME NEW c \in Conns, ConnStep(c) PROVE Safe'
  BY <1>1, SendingSafe, ReadingSafe DEF ConnStep, Callers
<1>2. ASSUME NEW m \in Admins, AdminStep(m) PROVE Safe'
  BY <1>2, SendingSafe DEF AdminStep, Callers
<1>3. ASSUME NEW p \in Callers, Continue(p) \/ Expire(p) PROVE Safe'
  BY <1>3, SendingSafe, ReadingSafe DEF Continue, Proceed, Abandon
<1>4. ASSUME NEW w \in Worlds, NEW t \in Calls,
             HandleAttach(w, t) \/ HandleLeave(w, t)
      PROVE  Safe'
  <2>1. /\ UNCHANGED <<agents, nextNum, caller, givenUp>>
        /\ req[t] # None /\ req[t].kind \notin {"out", "in"}
        /\ \A u \in Calls \ {t} : req'[u] = req[u]
    <3>1. ASSUME NEW a, Answer(t, a)
          PROVE  \A u \in Calls \ {t} : req'[u] = req[u]
      BY <3>1 DEF Answer, Shape, TypeOK
    <3>2. CASE HandleLeave(w, t)
      BY <3>1, <3>2 DEF HandleLeave, NextOf, At
    <3>3. CASE HandleAttach(w, t)
      <4>1. \E a : Answer(t, a)
        BY <3>3 DEF HandleAttach
      <4> QED
        BY <3>1, <3>3, <4>1 DEF HandleAttach, At
    <3> QED
      BY <1>4, <3>2, <3>3
  <2> QED
    BY <2>1, NoTransferChanges, NothingMoves
<1>5. ASSUME NEW w \in Worlds, Tick(w) \/ Handle(w) PROVE Safe'
  BY <1>4, <1>5, TickSafe, JoinSafe, TransferOutSafe, TransferInSafe
     DEF Tick, Handle
<1>6. CASE UNCHANGED vars
  BY <1>6, NothingMoves
     DEF vars, Carries, Current, Safe, BackTaken, Answered, Waiting
<1> QED
  BY <1>1, <1>2, <1>3, <1>5, <1>6 DEF Next

-----------------------------------------------------------------------------
(* The theorems                                                            *)

LEMMA Invariance == ASSUME SingleEntry PROVE Spec => []IInv
<1>1. Init => IInv
  BY InitShape, InitIssuedIds, InitSafe DEF IInv
<1>2. IInv /\ [Next]_vars => IInv'
  BY StepShape, StepIssuedIds, StepSafe DEF IInv
<1> QED
  BY <1>1, <1>2, PTL DEF Spec

\* With one world that agents join, however many worlds, connections and admin
\* moves there are and however requests race: an agent no transfer request of
\* which was given up is never in two worlds at once, nor in a world and in the
\* hands of the manager.
THEOREM NeverDuplicated == ASSUME SingleEntry PROVE Spec => []NoDuplicate
<1>1. IInv => NoDuplicate
  BY DEF IInv, Safe
<1> QED
  BY <1>1, Invariance, PTL

\* Under the same conditions such an agent is never lost: it is in a world as
\* the character it was created as, or the manager carries it.
THEOREM NeverLost == ASSUME SingleEntry PROVE Spec => []NoOrphan
<1>1. IInv => NoOrphan
  BY DEF IInv, Safe
<1> QED
  BY <1>1, Invariance, PTL

-----------------------------------------------------------------------------
(* Clients are registered where their agents are                           *)

\* One step of any goroutine or world keeps clients with their agents.
LEMMA StepClients ==
  ASSUME Shape, ClientHasAgent, [Next]_vars
  PROVE  ClientHasAgent'
<1>0. /\ req \in [Calls -> Requests \cup {None}]
      /\ agents \in [Worlds -> [Ids -> Chars \cup {None}]]
      /\ clients \in [Worlds -> [Ids -> Conns \cup {None}]]
  BY DEF Shape, TypeOK
<1>u. ASSUME UNCHANGED <<agents, clients>> PROVE ClientHasAgent'
  BY <1>u DEF ClientHasAgent, Present
<1>1. ASSUME NEW c \in Conns, ConnStep(c) PROVE ClientHasAgent'
  BY <1>1, <1>u DEF ConnStep, Connect, Resume, Disconnect, LeaveDropped, RequestOut,
                    CooldownRefused
<1>2. ASSUME NEW m \in Admins, AdminStep(m) PROVE ClientHasAgent'
  BY <1>2, <1>u DEF AdminStep, MoveAgentWorld
<1>3. ASSUME NEW p \in Callers, Continue(p) \/ Expire(p) PROVE ClientHasAgent'
  BY <1>3, <1>u DEF Continue, Proceed, Abandon, GotOut, RequestIn, GotIn, Rollback, GotBack,
       Settle, Joined, NotResumed, OutAbandoned, InAbandoned, BackAbandoned, JoinFailed, Expire
<1>4. ASSUME NEW w \in Worlds, Tick(w) PROVE ClientHasAgent'
  BY <1>4, <1>u DEF Tick, TickWith
<1>n. ASSUME NEW w \in Worlds, NEW t \in Calls, NextOf(w, t)
      PROVE  /\ req[t] # None /\ req[t] \in Requests /\ WellFormed(req[t])
             /\ req[t].kind \in {"leave", "out", "in"} => req[t].id \in Ids
  <2>1. req[t] # None /\ req[t] \in Requests
    BY <1>0, <1>n DEF NextOf, At
  <2>2. WellFormed(req[t])
    BY <2>1 DEF Shape, RequestState
  <2> QED
    BY <2>1, <2>2 DEF Requests, WellFormed
<1>5. ASSUME NEW w \in Worlds, NEW t \in Calls, HandleAttach(w, t) PROVE ClientHasAgent'
  <2>1. \/ clients' = clients
        \/ \E i \in Ids : /\ agents[w][i] # None
                          /\ clients' = [clients EXCEPT ![w][i] = req[t].client]
    BY <1>5 DEF HandleAttach
  <2>2. agents' = agents
    BY <1>5 DEF HandleAttach
  <2> QED
    BY <1>0, <2>1, <2>2 DEF ClientHasAgent, Present
<1>6. ASSUME NEW w \in Worlds, NEW t \in Calls, HandleLeave(w, t) PROVE ClientHasAgent'
  BY <1>0, <1>6 DEF HandleLeave, ClientHasAgent, Present
<1>7. ASSUME NEW w \in Worlds, NEW t \in Calls, HandleJoin(w, t) PROVE ClientHasAgent'
  <2> DEFINE i == nextNum[w] + 1
  <2>1. i \in Ids /\ <<w, i>> # None
    BY <1>7, NoneAssumption DEF HandleJoin, Chars
  <2>2. /\ agents' = [agents EXCEPT ![w][i] = <<w, i>>]
        /\ clients' = [clients EXCEPT ![w][i] = req[t].client]
    BY <1>7 DEF HandleJoin
  <2> HIDE DEF i
  <2> QED
    BY <1>0, <2>1, <2>2 DEF ClientHasAgent, Present
<1>8. ASSUME NEW w \in Worlds, NEW t \in Calls, HandleTransferOut(w, t) PROVE ClientHasAgent'
  <2> DEFINE i == req[t].id
  <2>1. i \in Ids
    BY <1>8, <1>n DEF HandleTransferOut
  <2>2. /\ agents' = [agents EXCEPT ![w][i] = None]
        /\ clients' = IF agents[w][i] # None THEN [clients EXCEPT ![w][i] = None] ELSE clients
    BY <1>8 DEF HandleTransferOut, WithoutAgent, WithoutClient
  <2> HIDE DEF i
  <2> QED
    BY <1>0, <2>1, <2>2 DEF ClientHasAgent, Present
<1>9. ASSUME NEW w \in Worlds, NEW t \in Calls, HandleTransferIn(w, t) PROVE ClientHasAgent'
  <2> DEFINE r == req[t]
  <2>1. r.id \in Ids /\ r.char # None
    BY <1>9, <1>n DEF HandleTransferIn, WellFormed
  <2>2. /\ agents' = IF agents[w][r.id] = None
                     THEN [agents EXCEPT ![w][r.id] = r.char] ELSE agents
        /\ clients' = IF agents[w][r.id] = None /\ r.client # None
                      THEN [clients EXCEPT ![w][r.id] = r.client] ELSE clients
    BY <1>9 DEF HandleTransferIn
  <2> HIDE DEF r
  <2> QED
    BY <1>0, <2>1, <2>2 DEF ClientHasAgent, Present
<1>10. CASE UNCHANGED vars
  BY <1>10, <1>u DEF vars
<1> QED
  BY <1>1, <1>2, <1>3, <1>4, <1>5, <1>6, <1>7, <1>8, <1>9, <1>10 DEF Next, Handle

\* A world keeps the Out channel of a client only for an agent it has: leaving,
\* switching, being moved by an admin, resuming and giving up never leave the
\* two maps of World.step apart (delete(agents, id) and delete(clients, id)).
THEOREM ClientsFollowAgents == Spec => []ClientHasAgent
<1>1. Init => Shape /\ ClientHasAgent
  BY InitShape DEF Init, ClientHasAgent
<1>2. Shape /\ ClientHasAgent /\ [Next]_vars => Shape' /\ ClientHasAgent'
  BY StepShape, StepClients
<1> QED
  BY <1>1, <1>2, PTL DEF Spec

-----------------------------------------------------------------------------
(* The protocol implements Placement                                       *)

\* Without deadlines nobody gives up a request.
Patient == givenUp = {} /\ \A p \in Callers : ~caller[p].expired

LEMMA StepPatient ==
  ASSUME ~Timeouts, TypeOK, Patient, [Next]_vars
  PROVE  Patient'
<1>0. caller \in [Callers -> CallerStates]
  BY DEF TypeOK
<1>m. ASSUME NEW p \in Callers, NEW s, caller' = [caller EXCEPT ![p] = s], ~s.expired,
             UNCHANGED givenUp
      PROVE  Patient'
  BY <1>0, <1>m DEF Patient
<1>s. ASSUME NEW p \in Callers, NEW r, NEW s \in CallerStates, Send(p, r, s), ~s.expired,
             UNCHANGED givenUp
      PROVE  Patient'
  <2>1. caller' = [caller EXCEPT ![p] = [s EXCEPT !.n = @ + 1]]
    BY <1>s DEF Send
  <2>2. ~[s EXCEPT !.n = @ + 1].expired
    BY <1>s DEF CallerStates
  <2> QED
    BY <1>m, <1>s, <2>1, <2>2
<1>u. ASSUME UNCHANGED <<caller, givenUp>> PROVE Patient'
  BY <1>u DEF Patient
<1>p. ASSUME NEW p \in Callers
      PROVE  caller[p] \in CallerStates /\ ~caller[p].expired
  BY <1>0 DEF Patient
<1>c. ASSUME NEW p \in Callers, NEW pc,
             caller' = [caller EXCEPT ![p].pc = pc], UNCHANGED givenUp
      PROVE  Patient'
  <2>1. ~[caller[p] EXCEPT !.pc = pc].expired
    BY <1>p DEF CallerStates
  <2> QED
    BY <1>m, <1>c, <2>1
<1>e. ASSUME NEW p \in Callers PROVE ~Ended(p).expired /\ Ended(p) \in CallerStates
  <2>1. ASSUME NEW i
        PROVE  ~[caller[p] EXCEPT !.pc = "idle", !.char = None, !.src = None,
                                  !.dst = None, !.expired = FALSE, !.id = i].expired
    BY <1>p DEF CallerStates
  <2>2. Ended(p) \in CallerStates
    BY ReturnType
  <2> QED
    BY <2>1, <2>2 DEF Ended
<1>1. ASSUME NEW c \in Conns, ConnStep(c) PROVE Patient'
  <2>0. c \in Callers
    BY DEF Callers
  <2>1. ASSUME NEW w \in JoinWorlds, Connect(c, w) PROVE Patient'
    <3>1. /\ [caller[c] EXCEPT !.pc = "joining", !.world = w, !.expired = FALSE] \in CallerStates
          /\ ~[caller[c] EXCEPT !.pc = "joining", !.world = w, !.expired = FALSE].expired
      BY <1>p, <2>0, WorldsAssumption DEF CallerStates
    <3> QED
      BY <1>s, <2>0, <2>1, <3>1 DEF Connect
  <2>2. ASSUME NEW w \in Worlds, NEW k \in Conns, Resume(c, w, k) PROVE Patient'
    <3>1. /\ [caller[c] EXCEPT !.pc = "attaching", !.world = w, !.expired = FALSE] \in CallerStates
          /\ ~[caller[c] EXCEPT !.pc = "attaching", !.world = w, !.expired = FALSE].expired
      BY <1>p, <2>0 DEF CallerStates
    <3> QED
      BY <1>s, <2>0, <2>2, <3>1 DEF Resume
  <2>3. ASSUME Disconnect(c) PROVE Patient'
    <3>1. /\ [caller[c] EXCEPT !.pc = "gone"] \in CallerStates
          /\ ~[caller[c] EXCEPT !.pc = "gone"].expired
      BY <1>p, <2>0 DEF CallerStates
    <3> QED
      BY <1>s, <2>0, <2>3, <3>1 DEF Disconnect
  <2>4. ~LeaveDropped(c)
    BY DEF LeaveDropped
  <2>5. ASSUME NEW w \in Worlds, RequestOut(c, w) PROVE Patient'
    <3> DEFINE s == [caller[c] EXCEPT !.pc = "out", !.src = caller[c].world, !.dst = w]
    <3>1. s \in CallerStates /\ ~s.expired
      BY <1>p, <2>0 DEF CallerStates
    <3>2. Send(c, [Request("out", caller[c].world) EXCEPT !.id = caller[c].id], s)
          /\ UNCHANGED givenUp
      BY <2>5 DEF RequestOut
    <3> HIDE DEF s
    <3> QED
      BY <1>s, <2>0, <3>1, <3>2
  <2>6. ASSUME CooldownRefused(c) PROVE Patient'
    <3>1. /\ [caller[c] EXCEPT !.pc = "back"] \in CallerStates
          /\ ~[caller[c] EXCEPT !.pc = "back"].expired
      BY <1>p, <2>0 DEF CallerStates
    <3> QED
      BY <1>s, <2>0, <2>6, <3>1 DEF CooldownRefused
  <2> QED
    BY <1>1, <2>1, <2>2, <2>3, <2>4, <2>5, <2>6 DEF ConnStep
<1>2. ASSUME NEW m \in Admins, AdminStep(m) PROVE Patient'
  <2>0. m \in Callers
    BY DEF Callers
  <2>1. PICK i \in Ids, w \in Worlds : MoveAgentWorld(m, i, w)
    BY <1>2 DEF AdminStep
  <2> DEFINE s == [caller[m] EXCEPT !.pc = "out", !.id = i, !.src = residency[i], !.dst = w]
  <2>2. residency[i] \in Worlds \cup {None}
    BY DEF TypeOK
  <2>3. s \in CallerStates /\ ~s.expired
    BY <1>p, <2>0, <2>2 DEF CallerStates
  <2>4. Send(m, [Request("out", residency[i]) EXCEPT !.id = i], s) /\ UNCHANGED givenUp
    BY <2>1 DEF MoveAgentWorld
  <2> HIDE DEF s
  <2> QED
    BY <1>s, <2>0, <2>3, <2>4
<1>3. ASSUME NEW p \in Callers, Proceed(p) PROVE Patient'
  <2>1. CASE GotOut(p)
    <3> DEFINE s == [caller[p] EXCEPT !.pc = "got", !.char = req[Current(p)].char]
    <3>1. ~s.expired
      BY <1>p DEF CallerStates
    <3>2. caller' = [caller EXCEPT ![p] = s] \/ caller' = [caller EXCEPT ![p] = Ended(p)]
      BY <1>0, <2>1 DEF GotOut, Return
    <3>3. UNCHANGED givenUp
      BY <2>1 DEF GotOut
    <3> HIDE DEF s
    <3> QED
      BY <1>m, <1>e, <3>1, <3>2, <3>3
  <2>2. ASSUME NEW pc \in {"in", "back"}, NEW r, Send(p, r, [caller[p] EXCEPT !.pc = pc]),
               UNCHANGED givenUp
        PROVE  Patient'
    <3>1. [caller[p] EXCEPT !.pc = pc] \in CallerStates /\ ~[caller[p] EXCEPT !.pc = pc].expired
      BY <1>p DEF CallerStates
    <3> QED
      BY <1>s, <2>2, <3>1
  <2>3. CASE RequestIn(p) \/ Rollback(p)
    BY <2>2, <2>3 DEF RequestIn, Rollback
  <2>4. CASE GotIn(p) \/ NotResumed(p)
    BY <1>c, <2>4 DEF GotIn, NotResumed
  <2>5. CASE GotBack(p)
    BY <1>e, <1>m, <2>5 DEF GotBack, Return
  <2>6. CASE Settle(p)
    <3> DEFINE s == IF p \in Conns THEN [Ended(p) EXCEPT !.world = caller[p].dst] ELSE Ended(p)
    <3>1. ~s.expired
      BY <1>e DEF CallerStates
    <3>2. caller' = [caller EXCEPT ![p] = s] /\ UNCHANGED givenUp
      BY <2>6 DEF Settle
    <3> HIDE DEF s
    <3> QED
      BY <1>m, <3>1, <3>2
  <2>7. CASE Joined(p)
    <3> DEFINE s == [caller[p] EXCEPT !.pc = "idle", !.id = req[Current(p)].id, !.expired = FALSE]
    <3>1. ~s.expired
      BY <1>p DEF CallerStates
    <3>2. caller' = [caller EXCEPT ![p] = s] /\ UNCHANGED givenUp
      BY <1>0, <2>7 DEF Joined
    <3> HIDE DEF s
    <3> QED
      BY <1>m, <3>1, <3>2
  <2> QED
    BY <1>3, <2>1, <2>3, <2>4, <2>5, <2>6, <2>7 DEF Proceed
<1>4. ASSUME NEW p \in Callers, Abandon(p) \/ Expire(p) PROVE FALSE
  BY <1>4, <1>p DEF Abandon, OutAbandoned, InAbandoned, BackAbandoned, JoinFailed, Expire
<1>5. ASSUME NEW w \in Worlds, Tick(w) \/ Handle(w) PROVE Patient'
  BY <1>5, <1>u DEF Tick, TickWith, Handle, HandleAttach, HandleLeave, HandleJoin,
                    HandleTransferOut, HandleTransferIn
<1>6. CASE UNCHANGED vars
  BY <1>6, <1>u DEF vars
<1> QED
  BY <1>1, <1>2, <1>3, <1>4, <1>5, <1>6 DEF Next, Continue

\* Where every character is, as Placement sees it.
Places == [x \in Chars |-> Where(x)]

\* A character that a world has is there, and no longer anywhere else.
LEMMA WhereThere ==
  NoDuplicate /\ givenUp = {} =>
    \A x \in Chars, w \in Worlds : agents[w][x[2]] = x => Where(x) = w
<1> SUFFICES ASSUME NoDuplicate, givenUp = {}, NEW x \in Chars, NEW w \in Worlds,
                    agents[w][x[2]] = x
             PROVE  Where(x) = w
  OBVIOUS
<1>1. x[2] \in Ids /\ x # None
  BY NoneAssumption DEF Chars
<1>2. \A v \in Worlds : agents[v][x[2]] = x => v = w
  BY <1>1 DEF NoDuplicate, Present
<1>3. {v \in Worlds : agents[v][x[2]] = x} = {w}
  BY <1>2
<1> QED
  BY <1>3 DEF Where

\* A character no world has is unborn or on its way.
LEMMA WhereNowhere ==
  \A x \in Chars :
    (\A w \in Worlds : agents[w][x[2]] # x)
      => Where(x) = IF x[2] <= nextNum[x[1]] THEN "on the way" ELSE "unborn"
<1> SUFFICES ASSUME NEW x \in Chars, \A w \in Worlds : agents[w][x[2]] # x
             PROVE  Where(x) = IF x[2] <= nextNum[x[1]] THEN "on the way" ELSE "unborn"
  OBVIOUS
<1>1. {v \in Worlds : agents[v][x[2]] = x} = {}
  OBVIOUS
<1> QED
  BY <1>1 DEF Where

\* A character whose worlds and whose number stay as they are stays in its place.
LEMMA StaysInPlace ==
  ASSUME NEW x \in Chars,
         \A w \in Worlds : (agents'[w][x[2]] = x) <=> (agents[w][x[2]] = x),
         (x[2] <= nextNum'[x[1]]) <=> (x[2] <= nextNum[x[1]])
  PROVE  Where(x)' = Where(x)
<1>1. {v \in Worlds : agents'[v][x[2]] = x} = {v \in Worlds : agents[v][x[2]] = x}
  OBVIOUS
<1> QED
  BY <1>1 DEF Where

\* One character moves.
LEMMA OnePlaceChanges ==
  ASSUME NEW y \in Chars, NEW p, Where(y)' = p,
         \A x \in Chars \ {y} : Where(x)' = Where(x)
  PROVE  Places' = [Places EXCEPT ![y] = p]
  BY DEF Places

LEMMA InitPlaces == Init => Promise!Init
<1> SUFFICES ASSUME Init, NEW x \in Chars PROVE Where(x) = "unborn"
  BY DEF Promise!Init
<1>1. x[1] \in Worlds /\ x[2] \in Ids /\ x # None
  BY NoneAssumption DEF Chars
<1>2. \A w \in Worlds : agents[w][x[2]] # x
  BY <1>1 DEF Init
<1>3. ~(x[2] <= nextNum[x[1]])
  BY <1>1 DEF Init, Ids
<1> QED
  BY <1>2, <1>3, WhereNowhere

LEMMA StepPlaces ==
  ASSUME SingleEntry, IInv, IInv', Patient, Patient', [Next]_vars
  PROVE  [Promise!Next]_Places
<1>0. /\ agents \in [Worlds -> [Ids -> Chars \cup {None}]]
      /\ nextNum \in [Worlds -> 0..MaxJoins]
      /\ req \in [Calls -> Requests \cup {None}]
  BY DEF IInv, Shape, TypeOK
<1>d. /\ NoDuplicate /\ NoDuplicate' /\ givenUp = {} /\ givenUp' = {}
  BY DEF IInv, Safe, Patient
<1>t. /\ \A x \in Chars, w \in Worlds : agents[w][x[2]] = x => Where(x) = w
      /\ (\A x \in Chars, w \in Worlds : agents[w][x[2]] = x => Where(x) = w)'
  <2>1. (NoDuplicate /\ givenUp = {})'
    BY <1>d
  <2> QED
    BY <1>d, <2>1, WhereThere, PTL
<1>n. /\ \A x \in Chars :
           (\A w \in Worlds : agents[w][x[2]] # x)
             => Where(x) = IF x[2] <= nextNum[x[1]] THEN "on the way" ELSE "unborn"
      /\ (\A x \in Chars :
           (\A w \in Worlds : agents[w][x[2]] # x)
             => Where(x) = IF x[2] <= nextNum[x[1]] THEN "on the way" ELSE "unborn")'
  BY WhereNowhere, PTL
<1>x. \A x \in Chars : x[1] \in Worlds /\ x[2] \in Ids /\ x = <<x[1], x[2]>> /\ x # None
  BY NoneAssumption DEF Chars
<1>u. ASSUME UNCHANGED <<agents, nextNum>> PROVE [Promise!Next]_Places
  BY <1>u, StaysInPlace DEF Places
<1>1. ASSUME NEW c \in Conns, ConnStep(c) PROVE [Promise!Next]_Places
  BY <1>1, <1>u DEF ConnStep, Connect, Resume, Disconnect, LeaveDropped, RequestOut,
                    CooldownRefused
<1>2. ASSUME NEW m \in Admins, AdminStep(m) PROVE [Promise!Next]_Places
  BY <1>2, <1>u DEF AdminStep, MoveAgentWorld
<1>3. ASSUME NEW p \in Callers, Continue(p) \/ Expire(p) PROVE [Promise!Next]_Places
  BY <1>3, <1>u DEF Continue, Proceed, Abandon, GotOut, RequestIn, GotIn, Rollback, GotBack,
       Settle, Joined, NotResumed, OutAbandoned, InAbandoned, BackAbandoned, JoinFailed, Expire
<1>4. ASSUME NEW w \in Worlds, Tick(w) PROVE [Promise!Next]_Places
  BY <1>4, <1>u DEF Tick, TickWith
<1>5. ASSUME NEW w \in Worlds, NEW t \in Calls, HandleAttach(w, t) \/ HandleLeave(w, t)
      PROVE  [Promise!Next]_Places
  BY <1>5, <1>u DEF HandleAttach, HandleLeave
<1>6. ASSUME NEW w \in Worlds, NEW t \in Calls, HandleJoin(w, t)
      PROVE  [Promise!Next]_Places
  <2>i. PICK i : i = nextNum[w] + 1
    OBVIOUS
  <2>y. PICK y : y = <<w, i>>
    OBVIOUS
  <2>1. req[t] # None /\ req[t].kind = "join" /\ req[t].to = w /\ i \in Ids
    BY <1>6, <2>i DEF HandleJoin, NextOf, At
  <2>2. w \in JoinWorlds
    BY <2>1 DEF IInv, Shape, RequestState, WellFormed
  <2>3. y \in Chars /\ y[1] = w /\ y[2] = i
    BY <2>1, <2>y DEF Chars
  <2>4. \A v \in Worlds : agents[v][i] = None
    <3>1. ~Issued(i)
      BY <1>0, <2>2, <2>i, BoundsAssumption DEF Issued
    <3> QED
      BY <2>1, <3>1 DEF IInv, IssuedIds, AgentIds
  <2>5. /\ agents' = [agents EXCEPT ![w] = [agents[w] EXCEPT ![i] = y]]
        /\ nextNum' = [nextNum EXCEPT ![w] = i]
    BY <1>6, <2>i, <2>y DEF HandleJoin
  <2>6. nextNum[w] \in Nat
    BY <1>0, BoundsAssumption
  <2>7. Where(y) = "unborn"
    <3>1. ~(y[2] <= nextNum[y[1]])
      BY <2>3, <2>6, <2>i
    <3>2. \A v \in Worlds : agents[v][y[2]] # y
      BY <1>x, <2>3, <2>4
    <3> QED
      BY <1>n, <2>3, <3>1, <3>2
  <2>8. Where(y)' = w
    BY <1>0, <1>t, <2>1, <2>3, <2>5
  <2>9. ASSUME NEW x \in Chars \ {y} PROVE Where(x)' = Where(x)
    <3>1. ASSUME NEW v \in Worlds
          PROVE  (agents'[v][x[2]] = x) <=> (agents[v][x[2]] = x)
      BY <1>0, <1>x, <2>1, <2>4, <2>5
    <3>2. (x[2] <= nextNum'[x[1]]) <=> (x[2] <= nextNum[x[1]])
      <4>1. CASE x[1] # w
        BY <1>0, <1>x, <2>5, <4>1
      <4>2. CASE x[1] = w
        <5>1. x[2] # i
          BY <1>x, <4>2, <2>y
        <5>2. nextNum'[x[1]] = nextNum[w] + 1 /\ x[2] # nextNum[w] + 1 /\ x[2] \in Nat
          BY <1>0, <1>x, <2>5, <2>i, <4>2, <5>1 DEF Ids
        <5> QED
          BY <2>6, <4>2, <5>2
      <4> QED
        BY <4>1, <4>2
    <3> QED
      BY <3>1, <3>2, StaysInPlace
  <2>10. Promise!Create(y, w)
    <3>1. Places' = [Places EXCEPT ![y] = w]
      BY <2>3, <2>8, <2>9, OnePlaceChanges
    <3>2. Places[y] = "unborn"
      BY <2>3, <2>7 DEF Places
    <3> QED
      BY <3>1, <3>2 DEF Promise!Create, Places
  <2> QED
    BY <2>3, <2>10 DEF Promise!Next
<1>7. ASSUME NEW w \in Worlds, NEW t \in Calls, HandleTransferOut(w, t)
      PROVE  [Promise!Next]_Places
  <2>i. PICK i : i = req[t].id
    OBVIOUS
  <2>y. PICK y : y = agents[w][i]
    OBVIOUS
  <2>1. NextOf(w, t) /\ req[t].kind = "out"
    BY <1>7 DEF HandleTransferOut
  <2>2. i \in Ids
    BY <2>1, <2>i, Transferring DEF IInv
  <2>3. agents' = [agents EXCEPT ![w] = [agents[w] EXCEPT ![i] = None]] /\ nextNum' = nextNum
    BY <1>7, <2>i DEF HandleTransferOut, WithoutAgent
  <2>4. CASE y = None
    <3>1. agents' = agents
      BY <1>0, <2>2, <2>3, <2>4, <2>y
    <3> QED
      BY <1>u, <2>3, <3>1
  <2>5. CASE y # None
    <3>1. /\ y \in Chars /\ y[1] \in JoinWorlds /\ y[2] = i /\ Issued(i)
      BY <2>2, <2>5, <2>y DEF IInv, IssuedIds, AgentIds, Original
    <3>2. Where(y) = w
      BY <1>t, <3>1, <2>y
    <3>3. \A v \in Worlds : agents'[v][i] # y
      <4>1. ASSUME NEW v \in Worlds, agents[v][i] = y PROVE v = w
        <5>1. Where(y) = v
          BY <1>t, <3>1, <4>1
        <5> QED
          BY <3>2, <5>1
      <4> QED
        BY <1>0, <2>2, <2>3, <2>5, <4>1
    <3>4. Where(y)' = "on the way"
      <4>1. y[2] <= nextNum'[y[1]]
        BY <2>3, <3>1 DEF Issued
      <4>2. \A v \in Worlds : agents'[v][y[2]] # y
        BY <3>1, <3>3
      <4> QED
        BY <1>n, <3>1, <4>1, <4>2
    <3>5. ASSUME NEW x \in Chars \ {y} PROVE Where(x)' = Where(x)
      <4>1. ASSUME NEW v \in Worlds
            PROVE  (agents'[v][x[2]] = x) <=> (agents[v][x[2]] = x)
        BY <1>0, <1>x, <2>2, <2>3, <2>y
      <4> QED
        BY <2>3, <4>1, StaysInPlace
    <3>6. Promise!Depart(y)
      <4>1. Places' = [Places EXCEPT ![y] = "on the way"]
        BY <3>1, <3>4, <3>5, OnePlaceChanges
      <4>2. Places[y] \in Worlds
        BY <3>1, <3>2 DEF Places
      <4> QED
        BY <4>1, <4>2 DEF Promise!Depart, Places
    <3> QED
      BY <3>1, <3>6 DEF Promise!Next
  <2> QED
    BY <2>4, <2>5
<1>8. ASSUME NEW w \in Worlds, NEW t \in Calls, HandleTransferIn(w, t)
      PROVE  [Promise!Next]_Places
  <2>i. PICK i : i = req[t].id
    OBVIOUS
  <2>y. PICK y : y = req[t].char
    OBVIOUS
  <2>1. NextOf(w, t) /\ req[t].kind = "in"
    BY <1>8 DEF HandleTransferIn
  <2>2. /\ i \in Ids /\ req[t] # None /\ req[t].stage = "taken" /\ ~req[t].ok
        /\ t[1] \in Callers /\ t = Current(t[1])
        /\ caller[t[1]].pc \in {"in", "back"} /\ caller[t[1]].id = i
    BY <1>d, <2>1, <2>i, Transferring DEF IInv
  <2>3. Carries(t[1], i)
    BY <2>2 DEF Carries
  <2>4. \A v \in Worlds : agents[v][i] = None
    BY <1>d, <2>2, <2>3 DEF NoDuplicate, Present
  <2>5. y \in Chars /\ y[1] \in JoinWorlds /\ y[2] = i /\ Issued(i)
    BY <2>1, <2>2, <2>i, <2>y, NoneAssumption DEF IInv, IssuedIds, RequestIds, Original
  <2>6. agents' = [agents EXCEPT ![w] = [agents[w] EXCEPT ![i] = y]] /\ nextNum' = nextNum
    BY <1>8, <2>4, <2>i, <2>y DEF HandleTransferIn
  <2>7. Where(y) = "on the way"
    <3>1. y[2] <= nextNum[y[1]]
      BY <2>5 DEF Issued
    <3>2. \A v \in Worlds : agents[v][y[2]] # y
      BY <1>x, <2>4, <2>5
    <3> QED
      BY <1>n, <2>5, <3>1, <3>2
  <2>8. Where(y)' = w
    BY <1>0, <1>t, <2>2, <2>5, <2>6
  <2>9. ASSUME NEW x \in Chars \ {y} PROVE Where(x)' = Where(x)
    <3>1. ASSUME NEW v \in Worlds
          PROVE  (agents'[v][x[2]] = x) <=> (agents[v][x[2]] = x)
      BY <1>0, <1>x, <2>2, <2>4, <2>6
    <3> QED
      BY <2>6, <3>1, StaysInPlace
  <2>10. Promise!Arrive(y)
    <3>1. Places' = [Places EXCEPT ![y] = w]
      BY <2>5, <2>8, <2>9, OnePlaceChanges
    <3>2. Places[y] = "on the way"
      BY <2>5, <2>7 DEF Places
    <3> QED
      BY <3>1, <3>2 DEF Promise!Arrive, Places
  <2> QED
    BY <2>5, <2>10 DEF Promise!Next
<1>9. CASE UNCHANGED vars
  BY <1>9, <1>u DEF vars
<1> QED
  BY <1>1, <1>2, <1>3, <1>4, <1>5, <1>6, <1>7, <1>8, <1>9 DEF Next, Handle

\* Without deadlines every step of the manager and of the world loops is a step
\* of Placement, or leaves every character where it is: a character is born once,
\* leaves a world when its transfer is answered, travels with the manager, and
\* arrives in one world, by switch, rollback or admin move.
THEOREM StepsKeepPromise ==
  ASSUME SingleEntry, ~Timeouts PROVE Spec => Promise!Init /\ [][Promise!Next]_Places
<1>1. Init => Promise!Init
  BY InitPlaces
<1>2. Init => IInv /\ Patient
  <2>1. Init => Patient
    BY DEF Init, Patient
  <2> QED
    BY <2>1, InitShape, InitIssuedIds, InitSafe DEF IInv
<1>3. IInv /\ Patient /\ [Next]_vars => IInv' /\ Patient'
  BY StepShape, StepIssuedIds, StepSafe, StepPatient DEF IInv, Shape
<1>4. IInv /\ Patient /\ IInv' /\ Patient' /\ [Next]_vars => [Promise!Next]_Places
  BY StepPlaces
<1> QED
  BY <1>1, <1>2, <1>3, <1>4, PTL DEF Spec

-----------------------------------------------------------------------------
(* The only session of an agent stays registered                           *)

\* The answer that gives connection c the agent i waits to be read.
Getting(c, i) ==
  /\ caller[c].pc \in {"attaching", "joining"} /\ Answered(c)
  /\ req[Current(c)].ok /\ req[Current(c)].id = i

HasId(c, i) == caller[c].id = i \/ Getting(c, i)

Sole(c, i) == \A d \in Conns \ {c} : ~HasId(d, i)

\* A session of agent i is registered in the world it names, but while it moves.
Serving(c, i) ==
  LET s == caller[c] IN
  /\ s.pc \in {"idle", "joining"} => clients[s.world][i] = c
  /\ s.pc = "out" => IF Answered(c) THEN req[Current(c)].ok ELSE clients[s.src][i] = c
  /\ (s.pc = "in" /\ Answered(c)) \/ s.pc = "placed" => clients[s.dst][i] = c
  /\ s.pc = "back" /\ Answered(c) => clients[s.src][i] = c

\* A connection has no agent before the handshake ends, moves the agent from
\* the world of its session, and is never refused on arrival.
Session(c) ==
  LET s == caller[c] IN
  /\ s.pc \in {"off", "attaching", "joining"} => s.id = None
  /\ s.pc \in {"out", "got", "in", "back", "placed"} => s.src = s.world
  /\ s.pc # "undo"
  /\ s.pc \in {"in", "back"} /\ Answered(c) => req[Current(c)].ok

\* A request is that of a connection which waits for it, but for a leave.
Owned(t) ==
  LET r == req[t]
      s == caller[t[1]] IN
  /\ r.kind \in {"leave", "out", "in"} => s.id = r.id
  /\ r.kind = "leave" => s.pc = "gone"
  /\ r.kind # "leave" => Awaited(t)
  /\ r.kind \in {"attach", "join"} => r.to = s.world
  /\ r.kind = "out" \/ (r.kind = "in" /\ s.pc = "back") => r.to = s.src
  /\ r.kind = "in" /\ s.pc = "in" => r.to = s.dst
  /\ r.kind \in {"attach", "join", "in"} => r.client = t[1]
  /\ r.kind = "attach" => r.token \in Conns /\ caller[r.token].id # None

Sessions == \A c \in Conns : Session(c)
Ownership == \A t \in Calls : req[t] # None => Owned(t)

\* A token resumes the agent of the connection it was issued to.
TokenOwners ==
  \A w \in Worlds, i \in Ids, d \in Conns : tokens[w][i] = d => HasId(d, i)

\* The id of an agent that was created is new, that of one that was resumed
\* belongs to another connection.
Handshakes ==
  \A c \in Conns, i \in Ids : Getting(c, i) =>
    /\ caller[c].pc = "joining" => Sole(c, i)
    /\ caller[c].pc = "attaching" => \E d \in Conns \ {c} : caller[d].id = i

Attended ==
  \A c \in Conns, i \in Ids : HasId(c, i) /\ Sole(c, i) => Serving(c, i)

Registered == Sessions /\ Ownership /\ TokenOwners /\ Handshakes /\ Attended

\* A goroutine that does not move keeps what it has, and what it was answered.
LEMMA SameSession ==
  ASSUME TypeOK, RequestState, NEW q \in Conns, caller'[q] = caller[q],
         \A t \in Calls : t[1] = q => req'[t] = req[t]
  PROVE  /\ Current(q)' = Current(q) /\ (Answered(q)' <=> Answered(q))
         /\ Answered(q) => req'[Current(q)] = req[Current(q)]
         /\ \A i : Getting(q, i)' <=> Getting(q, i)
         /\ \A i : HasId(q, i)' <=> HasId(q, i)
         /\ Session(q) => Session(q)'
<1>1. Current(q)' = Current(q) /\ (Waiting(q)' <=> Waiting(q))
  BY DEF Current, Waiting
<1>2. ASSUME Waiting(q) PROVE req'[Current(q)] = req[Current(q)]
  <2>1. q \in Callers
    BY DEF Callers
  <2>2. Current(q) \in Calls /\ Current(q)[1] = q
    BY <1>2, <2>1, CurrentCall DEF RequestState, Current
  <2> QED
    BY <2>2
<1>3. Answered(q)' <=> Answered(q)
  BY <1>1, <1>2 DEF Answered
<1>4. \A i : Getting(q, i)' <=> Getting(q, i)
  BY <1>1, <1>2, <1>3 DEF Getting, Answered
<1>5. Session(q) => Session(q)'
  BY <1>1, <1>2, <1>3 DEF Session, Answered
<1> QED
  BY <1>1, <1>2, <1>3, <1>4, <1>5 DEF HasId, Answered

\* A connection moves to the state s: it sends something, or reads its answer.
LEMMA OwnMove ==
  ASSUME TypeOK, RequestState, Registered, Conns = Callers,
         NEW c \in Conns, NEW s \in CallerStates,
         caller' = [caller EXCEPT ![c] = s], UNCHANGED <<clients, tokens>>,
         \A t \in Calls : t[1] # c => req'[t] = req[t],
         \A t \in Calls : t[1] = c /\ req'[t] # None => Owned(t)',
         ~Answered(c)',
         s.pc \in {"off", "attaching", "joining"} => s.id = None,
         s.pc \in {"out", "got", "in", "back", "placed"} => s.src = s.world,
         s.pc # "undo",
         \A i \in Ids : HasId(c, i) <=> s.id = i,
         \A i \in Ids : s.id = i /\ Sole(c, i) =>
           /\ s.pc = "idle" => clients[s.world][i] = c
           /\ s.pc = "out" => clients[s.src][i] = c
           /\ s.pc = "placed" => clients[s.dst][i] = c
  PROVE  Registered'
<1>0. caller'[c] = s /\ \A q \in Conns \ {c} : caller'[q] = caller[q]
  BY DEF TypeOK, Callers
<1>1. ASSUME NEW q \in Conns, q # c
      PROVE  /\ Current(q)' = Current(q) /\ (Answered(q)' <=> Answered(q))
             /\ Answered(q) => req'[Current(q)] = req[Current(q)]
             /\ \A i : Getting(q, i)' <=> Getting(q, i)
             /\ \A i : HasId(q, i)' <=> HasId(q, i)
             /\ Session(q) => Session(q)'
  BY <1>0, <1>1, SameSession
<1>2. ASSUME NEW i \in Ids PROVE ~Getting(c, i)' /\ (HasId(c, i)' <=> HasId(c, i))
  BY <1>0 DEF Getting, HasId
<1>q. ASSUME NEW q \in Conns, q = c PROVE ~Answered(q)'
  BY <1>q DEF Answered, Waiting, Current
<1>h. ASSUME NEW q \in Conns, NEW i \in Ids PROVE HasId(q, i)' <=> HasId(q, i)
  BY <1>1, <1>2
<1>3. ASSUME NEW q \in Conns, NEW i \in Ids
      PROVE  /\ Sole(q, i)' <=> Sole(q, i)
             /\ HasId(q, i)' <=> HasId(q, i)
  BY <1>h DEF Sole
<1>4. \A q \in Conns, i \in Ids : caller[q].id = i => caller'[q].id = i
  BY <1>0 DEF HasId
<1>5. \A q \in Conns : caller[q].id # None => caller'[q].id # None
  <2>1. \A q \in Conns : caller[q].id \in Ids \cup {None}
    BY DEF TypeOK, CallerStates, Callers
  <2>2. \A i \in Ids : i # None
    BY NoneAssumption
  <2> QED
    BY <1>4, <2>1, <2>2
<1>6. Sessions'
  <2>1. Session(c)'
    BY <1>0 DEF Session
  <2> QED
    BY <1>1, <2>1 DEF Registered, Sessions
<1>7. Ownership'
  <2> SUFFICES ASSUME NEW t \in Calls, req'[t] # None, t[1] # c PROVE Owned(t)'
    BY DEF Ownership
  <2>1. t[1] \in Conns /\ req'[t] = req[t] /\ Owned(t)
    BY DEF Calls, Registered, Ownership
  <2>2. caller'[t[1]] = caller[t[1]] /\ (Awaited(t)' <=> Awaited(t))
    BY <1>0, <2>1 DEF Awaited, Current, Waiting
  <2> QED
    BY <1>5, <2>1, <2>2 DEF Owned
<1>8. TokenOwners'
  BY <1>3 DEF Registered, TokenOwners
<1>9. Handshakes'
  <2> SUFFICES ASSUME NEW q \in Conns, NEW i \in Ids, Getting(q, i)'
               PROVE  /\ caller'[q].pc = "joining" => Sole(q, i)'
                      /\ caller'[q].pc = "attaching" => \E d \in Conns \ {q} : caller'[d].id = i
    BY DEF Handshakes
  <2>1. q # c /\ Getting(q, i) /\ caller'[q] = caller[q]
    <3>1. Answered(q)'
      BY DEF Getting
    <3>2. q # c
      BY <1>q, <3>1
    <3> QED
      BY <1>0, <1>1, <3>2
  <2>2. Sole(q, i)' <=> Sole(q, i)
    BY <1>3
  <2>3. /\ caller[q].pc = "joining" => Sole(q, i)
        /\ caller[q].pc = "attaching" => \E d \in Conns \ {q} : caller[d].id = i
    BY <2>1 DEF Registered, Handshakes
  <2> QED
    BY <1>4, <2>1, <2>2, <2>3
<1>10. Attended'
  <2> SUFFICES ASSUME NEW q \in Conns, NEW i \in Ids, HasId(q, i), Sole(q, i)
               PROVE  Serving(q, i)'
    BY <1>3 DEF Attended
  <2>1. CASE q = c
    <3>1. s.id = i
      BY <2>1
    <3>2. s.pc # "joining"
      BY <3>1, NoneAssumption
    <3> QED
      BY <1>0, <2>1, <3>1, <3>2 DEF Serving
  <2>2. CASE q # c
    <3>1. Serving(q, i)
      BY DEF Registered, Attended
    <3> QED
      BY <1>0, <1>1, <2>2, <3>1 DEF Serving
  <2> QED
    BY <2>1, <2>2
<1> QED
  BY <1>6, <1>7, <1>8, <1>9, <1>10 DEF Registered

-----------------------------------------------------------------------------
(* Sending a request                                                       *)

\* The request r is that of connection c in the state s.
OwnedIn(r, s, c) ==
  /\ r.kind \in {"leave", "out", "in"} => s.id = r.id
  /\ r.kind = "leave" => s.pc = "gone"
  /\ r.kind # "leave" => s.pc \in Blocking
  /\ r.kind \in {"attach", "join"} => r.to = s.world
  /\ r.kind = "out" \/ (r.kind = "in" /\ s.pc = "back") => r.to = s.src
  /\ r.kind = "in" /\ s.pc = "in" => r.to = s.dst
  /\ r.kind \in {"attach", "join", "in"} => r.client = c
  /\ r.kind = "attach" => r.token \in Conns /\ caller[r.token].id # None

\* A connection sends a request of its own and waits, or leaves.
LEMMA SendMove ==
  ASSUME TypeOK, RequestState, Registered, Conns = Callers,
         NEW c \in Conns, NEW r \in Requests, NEW next \in CallerStates,
         Send(c, r, next), next.n = caller[c].n, next.id = caller[c].id,
         UNCHANGED <<clients, tokens>>,
         ~Waiting(c), caller[c].pc # "gone", r.stage = "sent", OwnedIn(r, next, c),
         next.pc \in Blocking \cup {"gone"},
         next.pc \in {"attaching", "joining"} => next.id = None,
         next.pc \in {"out", "in", "back"} => next.src = next.world,
         \A i \in Ids : next.pc = "out" /\ next.id = i /\ Sole(c, i)
           => clients[next.src][i] = c
  PROVE  Registered'
<1> DEFINE k == caller[c].n + 1
           s == [next EXCEPT !.n = k]
           t0 == <<c, k>>
<1>0. /\ caller[c] \in CallerStates /\ caller \in [Callers -> CallerStates]
      /\ req \in [Calls -> Requests \cup {None}]
  BY DEF TypeOK
<1>1. k \in 1..MaxCalls /\ t0 \in Calls
  BY <1>0, BoundsAssumption DEF CallerStates, Send, Calls
<1>2. caller' = [caller EXCEPT ![c] = s]
  BY <1>0 DEF Send, CallerStates
<1>3. req' = [req EXCEPT ![t0] = r]
  BY DEF Send
<1>4. /\ s \in CallerStates /\ s.n = k /\ s.pc = next.pc /\ s.id = next.id
      /\ s.world = next.world /\ s.src = next.src /\ s.dst = next.dst
  BY <1>1, BoundsAssumption DEF CallerStates
<1>5. caller'[c] = s
  BY <1>0, <1>2
<1> HIDE DEF s
<1>6. \A t \in Calls : t[1] # c => req'[t] = req[t]
  BY <1>3, <1>0
<1>7. ASSUME NEW t \in Calls, t[1] = c, req'[t] # None PROVE Owned(t)'
  <2>1. CASE t = t0
    <3>1. req'[t] = r /\ caller'[t[1]] = s
      BY <1>0, <1>1, <1>3, <1>5, <2>1
    <3>2. s.pc \in Blocking => Awaited(t)'
      BY <1>4, <2>1, <3>1 DEF Awaited, Waiting, Blocking, Current
    <3>3. r.kind = "attach" => caller'[r.token].id # None
      BY <1>0, <1>2, <1>4, <1>5 DEF OwnedIn
    <3> QED
      BY <1>4, <1>7, <3>1, <3>2, <3>3 DEF Owned, OwnedIn
  <2>2. CASE t # t0
    <3>1. req'[t] = req[t] /\ req[t] # None
      BY <1>0, <1>3, <1>7, <2>2
    <3>2. Owned(t) /\ ~Awaited(t)
      BY <1>7, <3>1 DEF Registered, Ownership, Awaited
    <3> QED
      BY <1>7, <3>1, <3>2 DEF Owned
  <2> QED
    BY <2>1, <2>2
<1>8. ~Answered(c)'
  <2>1. Current(c)' = t0 /\ req'[t0] = r
    BY <1>0, <1>1, <1>3, <1>4, <1>5 DEF Current
  <2> QED
    BY <2>1 DEF Answered
<1>9. \A i \in Ids : HasId(c, i) <=> s.id = i
  BY <1>4 DEF HasId, Getting, Answered
<1>10. next.pc \notin {"idle", "placed", "undo", "off", "got"}
  BY DEF Blocking
<1>11. /\ s.pc \in {"off", "attaching", "joining"} => s.id = None
       /\ s.pc \in {"out", "got", "in", "back", "placed"} => s.src = s.world
       /\ s.pc # "undo"
  BY <1>4, <1>10
<1>12. ASSUME NEW i \in Ids, s.id = i, Sole(c, i)
       PROVE  /\ s.pc = "idle" => clients[s.world][i] = c
              /\ s.pc = "out" => clients[s.src][i] = c
              /\ s.pc = "placed" => clients[s.dst][i] = c
  BY <1>4, <1>10, <1>12
<1>13. \A t \in Calls : t[1] = c /\ req'[t] # None => Owned(t)'
  BY <1>7
<1>14. s \in CallerStates
  BY <1>4
<1> HIDE DEF t0, k
<1> QED
  BY <1>2, <1>6, <1>8, <1>9, <1>11, <1>12, <1>13, <1>14, OwnMove

\* Steps of a goroutine that send a request.
LEMMA SendingRegistered ==
  ASSUME Shape, Registered, Conns = Callers, NEW c \in Conns,
         \/ \E w \in JoinWorlds : Connect(c, w)
         \/ \E w \in Worlds, k \in Conns : Resume(c, w, k)
         \/ Disconnect(c) \/ CooldownRefused(c) \/ RequestIn(c) \/ Rollback(c)
         \/ \E w \in Worlds : RequestOut(c, w)
  PROVE  Registered'
<1> DEFINE s == caller[c]
<1>0. /\ s \in CallerStates /\ Fields(c, s) /\ Session(c)
      /\ TypeOK /\ RequestState
  BY DEF Shape, TypeOK, CallerFields, Registered, Sessions
<1>1. ASSUME NEW w \in JoinWorlds, Connect(c, w) PROVE Registered'
  <2> DEFINE r == [Request("join", w) EXCEPT !.client = c]
             next == [s EXCEPT !.pc = "joining", !.world = w, !.expired = FALSE]
  <2>1. /\ r \in Requests /\ r.kind = "join" /\ r.to = w /\ r.stage = "sent"
        /\ r.client = c
    BY WorldsAssumption DEF Request, Requests, Kinds
  <2>2. /\ next \in CallerStates /\ next.n = s.n /\ next.id = s.id
        /\ next.pc = "joining" /\ next.world = w
    BY <1>0, WorldsAssumption DEF CallerStates
  <2>3. s.pc = "off" /\ s.id = None /\ ~Waiting(c)
    BY <1>0, <1>1 DEF Connect, Session, Waiting
  <2>4. OwnedIn(r, next, c)
    BY <2>1, <2>2 DEF OwnedIn, Blocking
  <2>5. Send(c, r, next) /\ UNCHANGED <<clients, tokens>>
    BY <1>1 DEF Connect
  <2> HIDE DEF r, next
  <2> QED
    BY <1>0, <2>1, <2>2, <2>3, <2>4, <2>5, SendMove DEF Blocking
<1>2. ASSUME NEW w \in Worlds, NEW k \in Conns, Resume(c, w, k) PROVE Registered'
  <2> DEFINE r == [Request("attach", w) EXCEPT !.token = k, !.client = c]
             next == [s EXCEPT !.pc = "attaching", !.world = w, !.expired = FALSE]
  <2>1. /\ r \in Requests /\ r.kind = "attach" /\ r.to = w /\ r.stage = "sent"
        /\ r.client = c /\ r.token = k
    BY DEF Request, Requests, Kinds
  <2>2. /\ next \in CallerStates /\ next.n = s.n /\ next.id = s.id
        /\ next.pc = "attaching" /\ next.world = w
    BY <1>0 DEF CallerStates
  <2>3. s.pc = "off" /\ s.id = None /\ ~Waiting(c) /\ caller[k].id # None
    BY <1>0, <1>2 DEF Resume, Session, Waiting
  <2>4. OwnedIn(r, next, c)
    BY <2>1, <2>2, <2>3 DEF OwnedIn, Blocking
  <2>5. Send(c, r, next) /\ UNCHANGED <<clients, tokens>>
    BY <1>2 DEF Resume
  <2> HIDE DEF r, next
  <2> QED
    BY <1>0, <2>1, <2>2, <2>3, <2>4, <2>5, SendMove DEF Blocking
<1>3. ASSUME Disconnect(c) PROVE Registered'
  <2> DEFINE r == [Request("leave", s.world) EXCEPT !.id = s.id]
             next == [s EXCEPT !.pc = "gone"]
  <2>0. s.pc = "idle" /\ ~Waiting(c) /\ s.id \in Ids /\ s.world \in Worlds
    BY <1>0, <1>3 DEF Disconnect, Waiting, Fields, CallerStates
  <2>1. /\ r \in Requests /\ r.kind = "leave" /\ r.stage = "sent" /\ r.id = s.id
    BY <2>0 DEF Request, Requests, Kinds
  <2>2. /\ next \in CallerStates /\ next.n = s.n /\ next.id = s.id
        /\ next.pc = "gone"
    BY <1>0 DEF CallerStates
  <2>4. OwnedIn(r, next, c)
    BY <2>1, <2>2 DEF OwnedIn, Blocking
  <2>5. Send(c, r, next) /\ UNCHANGED <<clients, tokens>>
    BY <1>3 DEF Disconnect
  <2> HIDE DEF r, next
  <2> QED
    BY <1>0, <2>0, <2>1, <2>2, <2>4, <2>5, SendMove DEF Blocking
<1>4. ASSUME NEW w \in Worlds, RequestOut(c, w) PROVE Registered'
  <2> DEFINE r == [Request("out", s.world) EXCEPT !.id = s.id]
             next == [s EXCEPT !.pc = "out", !.src = s.world, !.dst = w]
  <2>0. s.pc = "idle" /\ ~Waiting(c) /\ s.id \in Ids /\ s.world \in Worlds
    BY <1>0, <1>4 DEF RequestOut, Waiting, Fields, CallerStates
  <2>1. /\ r \in Requests /\ r.kind = "out" /\ r.stage = "sent" /\ r.id = s.id
        /\ r.to = s.world
    BY <2>0 DEF Request, Requests, Kinds
  <2>2. /\ next \in CallerStates /\ next.n = s.n /\ next.id = s.id
        /\ next.pc = "out" /\ next.src = s.world /\ next.world = s.world
    BY <1>0, <2>0 DEF CallerStates
  <2>3. \A i \in Ids : next.id = i /\ Sole(c, i) => clients[next.src][i] = c
    BY <2>0, <2>2 DEF Registered, Attended, HasId, Serving
  <2>4. OwnedIn(r, next, c)
    BY <2>1, <2>2 DEF OwnedIn, Blocking
  <2>5. Send(c, r, next) /\ UNCHANGED <<clients, tokens>>
    BY <1>4 DEF RequestOut
  <2> HIDE DEF r, next
  <2> QED
    BY <1>0, <2>0, <2>1, <2>2, <2>3, <2>4, <2>5, SendMove DEF Blocking
<1>5. ASSUME NEW w \in Worlds, NEW pc \in {"in", "back"}, s.pc = "got",
             w = IF pc = "in" THEN s.dst ELSE s.src,
             Send(c, TransferOf(c, w), [s EXCEPT !.pc = pc]),
             UNCHANGED <<clients, tokens>>
      PROVE  Registered'
  <2> DEFINE r == TransferOf(c, w)
             next == [s EXCEPT !.pc = pc]
  <2>0. ~Waiting(c) /\ s.src = s.world
    BY <1>0, <1>5 DEF Waiting, Session
  <2>1. /\ r \in Requests /\ r.kind = "in" /\ r.stage = "sent" /\ r.id = s.id
        /\ r.to = w /\ r.client = c
    <3>1. r \in Requests /\ c \in Callers
      BY <1>0, TransferType
    <3>2. r.client = c
      BY DEF TransferOf, Request
    <3> QED
      BY <1>0, <3>1, <3>2, TransferFields
  <2>2. /\ next \in CallerStates /\ next.n = s.n /\ next.id = s.id /\ next.pc = pc
        /\ next.src = s.src /\ next.dst = s.dst /\ next.world = s.world
    BY <1>0 DEF CallerStates
  <2>4. OwnedIn(r, next, c)
    BY <1>5, <2>1, <2>2 DEF OwnedIn, Blocking
  <2> HIDE DEF r, next
  <2>5. Send(c, r, next) /\ UNCHANGED <<clients, tokens>>
    BY <1>5 DEF r, next
  <2>6. next.pc # "out" /\ next.pc \notin {"attaching", "joining"} /\ next.pc \in Blocking
        /\ next.src = next.world
    BY <2>0, <2>2 DEF Blocking
  <2>7. caller[c].pc # "gone"
    BY <1>5
  <2> QED
    BY <1>0, <2>0, <2>1, <2>2, <2>4, <2>5, <2>6, <2>7, SendMove
<1>6. ASSUME CooldownRefused(c) PROVE Registered'
  BY <1>0, <1>5, <1>6 DEF CooldownRefused, Fields, CallerStates
<1>7. ASSUME RequestIn(c) PROVE Registered'
  BY <1>0, <1>5, <1>7 DEF RequestIn, Fields, CallerStates
<1>8. ~Rollback(c)
  BY <1>0 DEF Rollback, Session
<1> QED
  BY <1>1, <1>2, <1>3, <1>4, <1>6, <1>7, <1>8

-----------------------------------------------------------------------------
(* Reading an answer                                                       *)

\* A connection reads its answer, if it waited for one, and goes on as s.
Reads(c, s) ==
  /\ caller' = [caller EXCEPT ![c] = s] /\ UNCHANGED <<clients, tokens>>
  /\ IF Waiting(c) THEN Forget(c) ELSE UNCHANGED req
  /\ caller[c].pc # "gone"

\* s is a state to go on as: it keeps the agent, and its world serves it.
GoesOn(c, s) ==
  /\ s.pc \in {"off", "idle", "got", "placed"}
  /\ s.pc = "off" => s.id = None
  /\ s.pc \in {"got", "placed"} => s.src = s.world
  /\ \A i \in Ids : HasId(c, i) <=> s.id = i
  /\ \A i \in Ids : s.id = i /\ Sole(c, i) =>
       /\ s.pc = "idle" => clients[s.world][i] = c
       /\ s.pc = "placed" => clients[s.dst][i] = c

LEMMA ReadMove ==
  ASSUME TypeOK, RequestState, Registered, Conns = Callers,
         NEW c \in Conns, NEW s \in CallerStates, Reads(c, s), GoesOn(c, s)
  PROVE  Registered'
<1>0. req \in [Calls -> Requests \cup {None}] /\ caller'[c] = s
  BY DEF TypeOK, Callers, Reads
<1>1. \A t \in Calls : t[1] # c => req'[t] = req[t]
  BY <1>0 DEF Forget, Current, Reads
<1>2. ASSUME NEW t \in Calls, t[1] = c, req'[t] # None PROVE FALSE
  <2>1. req[t] # None /\ ~Awaited(t)
    BY <1>0, <1>2 DEF Forget, Awaited, Reads
  <2>2. Owned(t)
    BY <2>1 DEF Registered, Ownership
  <2> QED
    BY <1>2, <2>1, <2>2 DEF Owned, Reads
<1>3. ~Answered(c)'
  BY <1>0 DEF Answered, Waiting, GoesOn
<1>4. /\ s.pc \notin {"attaching", "joining", "out", "in", "back", "undo"}
  BY DEF GoesOn
<1>5. \A t \in Calls : t[1] = c /\ req'[t] # None => Owned(t)'
  BY <1>2
<1>6. /\ s.pc \in {"off", "attaching", "joining"} => s.id = None
      /\ s.pc \in {"out", "got", "in", "back", "placed"} => s.src = s.world
  BY DEF GoesOn
<1>7. \A i \in Ids : s.id = i /\ Sole(c, i) =>
        /\ s.pc = "idle" => clients[s.world][i] = c
        /\ s.pc = "out" => clients[s.src][i] = c
        /\ s.pc = "placed" => clients[s.dst][i] = c
  BY <1>4 DEF GoesOn
<1>8. \A i \in Ids : HasId(c, i) <=> s.id = i
  BY DEF GoesOn
<1>9. caller' = [caller EXCEPT ![c] = s] /\ UNCHANGED <<clients, tokens>>
  BY DEF Reads
<1> QED
  BY <1>9, <1>1, <1>3, <1>4, <1>5, <1>6, <1>7, <1>8, OwnMove

\* Steps of a goroutine that read an answer or end an operation.
LEMMA ReadingRegistered ==
  ASSUME IInv, Patient, ClientHasAgent, Registered, Conns = Callers, NEW c \in Conns,
         Proceed(c)
  PROVE  Registered'
<1> DEFINE s == caller[c]
           r == req[Current(c)]
<1>0. /\ s \in CallerStates /\ Fields(c, s) /\ Session(c) /\ c \in Callers
      /\ TypeOK /\ RequestState /\ ~s.expired /\ Shape
      /\ caller \in [Callers -> CallerStates]
  BY DEF IInv, Shape, TypeOK, CallerFields, Registered, Sessions, Patient
<1>r. ASSUME Waiting(c)
      PROVE  r # None /\ r \in Requests /\ Matches(s, r)
  <2>1. s.n # 0 /\ Matches(s, r)
    BY <1>0, <1>r DEF RequestState
  <2> QED
    BY <1>0, <2>1, CurrentCall DEF TypeOK, Matches
<1>e. /\ Ended(c) \in CallerStates /\ Ended(c).pc = "idle"
      /\ Ended(c).world = s.world /\ Ended(c).id = s.id
  <2>1. Ended(c) \in CallerStates
    BY <1>0, ReturnType
  <2>2. /\ Ended(c).pc = "idle" /\ Ended(c).world = s.world
        /\ Ended(c).id = IF c \in Conns THEN s.id ELSE None
    BY <1>0 DEF Ended, CallerStates
  <2> QED
    BY <2>1, <2>2
<1>i. s.pc \notin {"attaching", "joining"} => \A i \in Ids : HasId(c, i) <=> s.id = i
  BY DEF HasId, Getting
<1>a. ASSUME NEW i \in Ids, s.id = i, Sole(c, i) PROVE Serving(c, i)
  BY <1>a DEF HasId, Registered, Attended
<1>1. ASSUME Joined(c) PROVE Registered'
  <2> DEFINE next == [s EXCEPT !.pc = "idle", !.id = r.id, !.expired = FALSE]
  <2>1. /\ Answered(c) /\ Waiting(c) /\ r.stage = "done" /\ r.ok
        /\ s.pc \in {"attaching", "joining"} /\ s.id = None
    BY <1>0, <1>1 DEF Joined, Answered, Session
  <2>2. r.id \in Ids
    BY <1>r, <2>1 DEF Matches, Requests
  <2>3. /\ next \in CallerStates /\ next.pc = "idle" /\ next.id = r.id
        /\ next.world = s.world
    BY <1>0, <2>2 DEF CallerStates
  <2>4. /\ caller' = [caller EXCEPT ![c] = next] /\ UNCHANGED <<clients, tokens>>
        /\ Forget(c)
    BY <1>0, <1>1 DEF Joined
  <2>5. ASSUME NEW i \in Ids PROVE HasId(c, i) <=> next.id = i
    BY <2>1, <2>2, <2>3, NoneAssumption DEF HasId, Getting
  <2>6. ASSUME NEW i \in Ids, next.id = i, Sole(c, i)
        PROVE  clients[next.world][i] = c
    <3>1. HasId(c, i) /\ Getting(c, i)
      BY <2>1, <2>3, <2>5, <2>6 DEF Getting
    <3>2. Serving(c, i)
      BY <2>6, <3>1 DEF Registered, Attended
    <3>3. s.pc # "attaching"
      <4>1. s.pc = "attaching" => \E d \in Conns \ {c} : caller[d].id = i
        BY <3>1 DEF Registered, Handshakes
      <4> QED
        BY <2>6, <4>1 DEF Sole, HasId
    <3> QED
      BY <2>1, <2>3, <3>2, <3>3 DEF Serving
  <2> HIDE DEF next
  <2>8. Reads(c, next)
    BY <1>0, <2>1, <2>3, <2>4, <2>5, <2>6 DEF Reads
  <2>9. GoesOn(c, next)
    BY <1>0, <2>1, <2>3, <2>4, <2>5, <2>6 DEF GoesOn
  <2> QED
    BY <1>0, <2>3, <2>8, <2>9, ReadMove
<1>2. ASSUME NotResumed(c) PROVE Registered'
  <2> DEFINE next == [s EXCEPT !.pc = "off"]
  <2>1. /\ Answered(c) /\ Waiting(c) /\ ~r.ok /\ s.pc = "attaching" /\ s.id = None
    BY <1>0, <1>2 DEF NotResumed, Answered, Session
  <2>2. next \in CallerStates /\ next.pc = "off" /\ next.id = s.id
    BY <1>0 DEF CallerStates
  <2>3. /\ caller' = [caller EXCEPT ![c] = next] /\ UNCHANGED <<clients, tokens>>
        /\ Forget(c)
    BY <1>0, <1>2, <2>1 DEF NotResumed
  <2>4. ASSUME NEW i \in Ids PROVE (HasId(c, i) <=> next.id = i) /\ next.id # i
    BY <2>1, <2>2, NoneAssumption DEF HasId, Getting
  <2> HIDE DEF next
  <2>8. Reads(c, next)
    BY <1>0, <2>1, <2>2, <2>3, <2>4 DEF Reads
  <2>9. GoesOn(c, next)
    BY <1>0, <2>1, <2>2, <2>3, <2>4 DEF GoesOn
  <2> QED
    BY <1>0, <2>2, <2>8, <2>9, ReadMove
<1>3. ASSUME GotOut(c) PROVE Registered'
  <2>1. /\ Answered(c) /\ Waiting(c) /\ s.pc = "out" /\ Forget(c)
        /\ UNCHANGED <<clients, tokens>>
    BY <1>3 DEF GotOut, Answered
  <2>2. CASE r.ok
    <3> DEFINE next == [s EXCEPT !.pc = "got", !.char = r.char]
    <3>1. r.char \in Chars \cup {None}
      BY <1>r, <2>1 DEF Requests
    <3>2. /\ next \in CallerStates /\ next.pc = "got" /\ next.id = s.id
          /\ next.src = s.src /\ next.world = s.world
      BY <1>0, <3>1 DEF CallerStates
    <3>3. caller' = [caller EXCEPT ![c] = next]
      BY <1>0, <1>3, <2>2 DEF GotOut
    <3>4. s.src = s.world
      BY <1>0, <2>1 DEF Session
    <3> HIDE DEF next
    <3>8. Reads(c, next)
      BY <1>0, <1>i, <2>1, <3>2, <3>3, <3>4 DEF Reads
    <3>9. GoesOn(c, next)
      BY <1>0, <1>i, <2>1, <3>2, <3>3, <3>4 DEF GoesOn
    <3> QED
      BY <1>0, <3>2, <3>8, <3>9, ReadMove
  <2>3. CASE ~r.ok
    <3>1. caller' = [caller EXCEPT ![c] = Ended(c)]
      BY <1>3, <2>3 DEF GotOut, Return
    <3>2. ASSUME NEW i \in Ids, s.id = i PROVE ~Sole(c, i)
      BY <1>a, <2>1, <2>3, <3>2 DEF Serving
    <3>8. Reads(c, Ended(c))
      BY <1>0, <1>e, <1>i, <2>1, <3>1, <3>2 DEF Reads
    <3>9. GoesOn(c, Ended(c))
      BY <1>0, <1>e, <1>i, <2>1, <3>1, <3>2 DEF GoesOn
    <3> QED
      BY <1>0, <1>e, <3>8, <3>9, ReadMove
  <2> QED
    BY <2>2, <2>3
<1>4. ASSUME GotIn(c) PROVE Registered'
  <2> DEFINE next == [s EXCEPT !.pc = "placed"]
  <2>1. /\ Answered(c) /\ Waiting(c) /\ s.pc = "in" /\ Forget(c)
        /\ UNCHANGED <<clients, tokens>>
    BY <1>4 DEF GotIn, Answered
  <2>2. r.ok /\ s.src = s.world
    BY <1>0, <2>1 DEF Session
  <2>3. /\ next \in CallerStates /\ next.pc = "placed" /\ next.id = s.id
        /\ next.src = s.src /\ next.dst = s.dst /\ next.world = s.world
    BY <1>0 DEF CallerStates
  <2>4. caller' = [caller EXCEPT ![c] = next]
    BY <1>0, <1>4, <2>2 DEF GotIn
  <2>5. ASSUME NEW i \in Ids, next.id = i, Sole(c, i)
        PROVE  clients[next.dst][i] = c
    BY <1>a, <2>1, <2>3, <2>5 DEF Serving
  <2> HIDE DEF next
  <2>8. Reads(c, next)
    BY <1>0, <1>i, <2>1, <2>2, <2>3, <2>4, <2>5 DEF Reads
  <2>9. GoesOn(c, next)
    BY <1>0, <1>i, <2>1, <2>2, <2>3, <2>4, <2>5 DEF GoesOn
  <2> QED
    BY <1>0, <2>3, <2>8, <2>9, ReadMove
<1>5. ASSUME GotBack(c) PROVE Registered'
  <2>1. /\ Answered(c) /\ Waiting(c) /\ s.pc = "back" /\ Forget(c)
        /\ UNCHANGED <<clients, tokens>> /\ s.src = s.world
        /\ caller' = [caller EXCEPT ![c] = Ended(c)]
    BY <1>0, <1>5 DEF GotBack, Answered, Session, Return
  <2>2. ASSUME NEW i \in Ids, s.id = i, Sole(c, i)
        PROVE  clients[s.world][i] = c
    BY <1>a, <2>1, <2>2 DEF Serving
  <2>8. Reads(c, Ended(c))
    BY <1>0, <1>e, <1>i, <2>1, <2>2 DEF Reads
  <2>9. GoesOn(c, Ended(c))
    BY <1>0, <1>e, <1>i, <2>1, <2>2 DEF GoesOn
  <2> QED
    BY <1>0, <1>e, <2>8, <2>9, ReadMove
<1>6. ASSUME Settle(c) PROVE Registered'
  <2> DEFINE next == [Ended(c) EXCEPT !.world = s.dst]
  <2>1. /\ s.pc = "placed" /\ ~Waiting(c) /\ UNCHANGED <<clients, tokens, req>>
        /\ caller' = [caller EXCEPT ![c] = next] /\ s.dst \in Worlds
    BY <1>0, <1>6 DEF Settle, Waiting, Fields, CallerStates
  <2>2. /\ next \in CallerStates /\ next.pc = "idle" /\ next.id = s.id
        /\ next.world = s.dst
    BY <1>e, <2>1 DEF CallerStates
  <2>3. ASSUME NEW i \in Ids, s.id = i, Sole(c, i)
        PROVE  clients[s.dst][i] = c
    BY <1>a, <2>1, <2>3 DEF Serving
  <2> HIDE DEF next
  <2>8. Reads(c, next)
    BY <1>0, <1>i, <2>1, <2>2, <2>3 DEF Reads
  <2>9. GoesOn(c, next)
    BY <1>0, <1>i, <2>1, <2>2, <2>3 DEF GoesOn
  <2> QED
    BY <1>0, <2>2, <2>8, <2>9, ReadMove
<1>7. ASSUME RequestIn(c) \/ Rollback(c) PROVE Registered'
  BY <1>0, <1>7, SendingRegistered
<1> QED
  BY <1>1, <1>2, <1>3, <1>4, <1>5, <1>6, <1>7 DEF Proceed

-----------------------------------------------------------------------------
(* Steps of a world                                                        *)

\* What the answer a to call t keeps of the request, and what it may say.
Answering(t, a) ==
  LET r == req[t] IN
  /\ a.kind = r.kind /\ a.to = r.to /\ a.client = r.client /\ a.token = r.token
  /\ a.kind \in {"leave", "out", "in"} => a.id = r.id
  /\ a.kind = "attach" /\ a.ok => \E d \in Conns \ {t[1]} : caller[d].id = a.id
  /\ a.kind = "join" => a.ok /\ Sole(t[1], a.id)
  /\ a.kind = "out" /\ Sole(t[1], a.id) => a.ok
  /\ a.kind = "in" => a.ok

\* The world touches what it keeps for the agent of the sender, and serves the
\* sender if that is what it asked for.
Touching(t, a) ==
  LET own(i) == \/ caller[t[1]].id = i
                \/ a.kind \in {"attach", "join"} /\ a.ok /\ a.id = i IN
  /\ \A w \in Worlds, i \in Ids : clients'[w][i] = clients[w][i] \/ own(i)
  /\ \A w \in Worlds, i \in Ids, d \in Conns :
       tokens'[w][i] = d => \/ tokens[w][i] = d
                            \/ d = t[1] /\ own(i)
  /\ a.kind \in {"join", "in"} => clients'[a.to][a.id] = t[1]

\* A world handles a request and answers it.
LEMMA AnswerMove ==
  ASSUME Shape, Registered, Conns = Callers,
         NEW t \in Calls, req[t] # None, req[t].stage # "done",
         NEW a \in Requests, Answer(t, a), UNCHANGED caller,
         Answering(t, a), Touching(t, a)
  PROVE  Registered'
<1> DEFINE c == t[1]
           s == caller[c]
<1>0. /\ c \in Conns /\ req \in [Calls -> Requests \cup {None}] /\ Owned(t)
      /\ Session(c) /\ s \in CallerStates /\ TypeOK /\ RequestState
  BY DEF Shape, TypeOK, Calls, Registered, Sessions, Ownership
<1>1. /\ \A u \in Calls : u # t => req'[u] = req[u]
      /\ Awaited(t) => req'[t] = [a EXCEPT !.stage = "done"]
      /\ ~Awaited(t) => req'[t] = None
  BY <1>0 DEF Answer
<1>2. /\ \A q : Current(q)' = Current(q) /\ (Waiting(q)' <=> Waiting(q))
      /\ \A u : Awaited(u)' <=> Awaited(u)
  BY DEF Current, Waiting, Awaited
<1>3. ASSUME NEW q \in Conns, q # c
      PROVE  /\ Current(q)' = Current(q) /\ (Answered(q)' <=> Answered(q))
             /\ Answered(q) => req'[Current(q)] = req[Current(q)]
             /\ \A i : Getting(q, i)' <=> Getting(q, i)
             /\ \A i : HasId(q, i)' <=> HasId(q, i)
             /\ Session(q) => Session(q)'
  <2>1. \A u \in Calls : u[1] = q => req'[u] = req[u]
    BY <1>1, <1>3
  <2> QED
    BY <1>0, <2>1, SameSession
<1> DEFINE gets(i) == a.kind \in {"attach", "join"} /\ a.ok /\ a.id = i
<1>k. Awaited(t) =>
        /\ a.kind = KindOf(s.pc) /\ s.pc \in Blocking /\ ~Answered(c)
        /\ Answered(c)' /\ req'[Current(c)] = [a EXCEPT !.stage = "done"]
  <2> SUFFICES ASSUME Awaited(t)
               PROVE  /\ a.kind = KindOf(s.pc) /\ s.pc \in Blocking /\ ~Answered(c)
                      /\ Answered(c)' /\ req'[Current(c)] = [a EXCEPT !.stage = "done"]
    OBVIOUS
  <2>1. Waiting(c) /\ t = Current(c) /\ c \in Callers
    BY <1>0 DEF Awaited
  <2>2. Matches(s, req[t])
    BY <1>0, <2>1 DEF RequestState
  <2>3. req'[t].stage = "done" /\ req'[t] = [a EXCEPT !.stage = "done"]
    BY <1>1 DEF Requests
  <2>4. Answered(c)'
    BY <1>2, <2>1, <2>3 DEF Answered
  <2> QED
    BY <2>1, <2>2, <2>3, <2>4 DEF Matches, Answering, Answered, Waiting, Blocking
<1>l. ~Awaited(t) => a.kind = "leave" /\ s.pc = "gone"
  BY <1>0 DEF Owned, Answering
<1>p. /\ a.kind = "attach" <=> s.pc = "attaching"
      /\ a.kind = "join" <=> s.pc = "joining"
      /\ a.kind = "out" <=> s.pc = "out"
      /\ a.kind = "in" <=> s.pc \in {"in", "back"}
      /\ a.kind = "leave" <=> ~Awaited(t)
  BY <1>k, <1>l DEF KindOf, Blocking
<1>4. ASSUME NEW i \in Ids
      PROVE  /\ Getting(c, i)' <=> Getting(c, i) \/ gets(i)
             /\ ~Getting(c, i)
  <2>1. CASE Awaited(t)
    <3>1. /\ req'[Current(c)].ok = a.ok /\ req'[Current(c)].id = a.id
          /\ Current(c)' = Current(c)
      BY <1>k, <1>2, <2>1 DEF Requests
    <3>2. /\ Getting(c, i)' <=> s.pc \in {"attaching", "joining"} /\ a.ok /\ a.id = i
          /\ ~Getting(c, i)
      BY <1>k, <2>1, <3>1 DEF Getting
    <3> QED
      BY <1>p, <3>2
  <2>2. CASE ~Awaited(t)
    BY <1>l, <2>2 DEF Getting
  <2> QED
    BY <2>1, <2>2
<1>5. ASSUME NEW i \in Ids
      PROVE  HasId(c, i)' <=> HasId(c, i) \/ gets(i)
  BY <1>4 DEF HasId
<1>6. ASSUME NEW q \in Conns, NEW i \in Ids PROVE HasId(q, i) => HasId(q, i)'
  BY <1>3, <1>5
<1>7. ASSUME NEW q \in Conns, NEW i \in Ids, Sole(q, i)' PROVE Sole(q, i)
  BY <1>6, <1>7 DEF Sole
<1>8. ASSUME NEW i \in Ids PROVE Sole(c, i)' <=> Sole(c, i)
  BY <1>3 DEF Sole
<1> HIDE DEF gets
<1>9. Sessions'
  <2>1. Session(c)'
    <3>1. s.pc \in {"in", "back"} /\ Answered(c)' => req'[Current(c)].ok
      <4> SUFFICES ASSUME s.pc \in {"in", "back"} PROVE req'[Current(c)].ok
        OBVIOUS
      <4>1. a.kind = "in" /\ Awaited(t)
        BY <1>p
      <4>2. [a EXCEPT !.stage = "done"].ok
        BY <4>1 DEF Answering, Requests
      <4> QED
        BY <1>k, <4>1, <4>2
    <3> QED
      BY <1>0, <1>2, <3>1 DEF Session
  <2> QED
    BY <1>3, <2>1 DEF Registered, Sessions
<1>10. Ownership'
  <2> SUFFICES ASSUME NEW u \in Calls, req'[u] # None PROVE Owned(u)'
    BY DEF Ownership
  <2>1. CASE u = t
    <3>1. Awaited(t) /\ req'[t] = [a EXCEPT !.stage = "done"]
      BY <1>1, <2>1
    <3>2. /\ req'[t].kind = req[t].kind /\ req'[t].to = req[t].to
          /\ req'[t].client = req[t].client /\ req'[t].token = req[t].token
          /\ req[t].kind \in {"leave", "out", "in"} => req'[t].id = req[t].id
      BY <3>1 DEF Requests, Answering
    <3> QED
      BY <1>0, <1>2, <2>1, <3>2 DEF Owned
  <2>2. CASE u # t
    <3>1. req'[u] = req[u] /\ Owned(u)
      BY <1>1, <2>2 DEF Registered, Ownership
    <3> QED
      BY <1>2, <3>1 DEF Owned
  <2> QED
    BY <2>1, <2>2
<1>11. TokenOwners'
  <2> SUFFICES ASSUME NEW w \in Worlds, NEW i \in Ids, NEW d \in Conns,
                      tokens'[w][i] = d
               PROVE  HasId(d, i)'
    BY DEF TokenOwners
  <2>1. CASE tokens[w][i] = d
    BY <1>6, <2>1 DEF Registered, TokenOwners
  <2>2. CASE d = c /\ s.id = i
    BY <1>5, <2>2 DEF HasId
  <2>3. CASE d = c /\ gets(i)
    BY <1>5, <2>3
  <2> QED
    BY <2>1, <2>2, <2>3 DEF Touching, gets
<1>12. Handshakes'
  <2> SUFFICES ASSUME NEW q \in Conns, NEW i \in Ids, Getting(q, i)'
               PROVE  /\ caller[q].pc = "joining" => Sole(q, i)'
                      /\ caller[q].pc = "attaching" => \E d \in Conns \ {q} : caller[d].id = i
    BY DEF Handshakes
  <2>1. CASE q = c
    <3>1. gets(i)
      BY <1>4, <2>1
    <3> QED
      BY <1>8, <1>p, <2>1, <3>1 DEF gets, Answering
  <2>2. CASE q # c
    <3>1. Getting(q, i)
      BY <1>3, <2>2
    <3>2. CASE caller[q].pc = "joining"
      <4>1. Sole(q, i) /\ caller[q].id # i /\ HasId(q, i)
        <5>1. Session(q) /\ i # None
          BY NoneAssumption DEF Registered, Sessions
        <5> QED
          BY <3>1, <3>2, <5>1 DEF Registered, Handshakes, Session, HasId
      <4>2. ~gets(i)
        <5>1. ASSUME gets(i), a.kind = "attach" PROVE FALSE
          <6>1. PICK d \in Conns \ {c} : caller[d].id = i
            BY <5>1 DEF gets, Answering
          <6> QED
            BY <4>1, <6>1 DEF Sole, HasId
        <5>2. ASSUME gets(i), a.kind = "join" PROVE FALSE
          BY <2>2, <4>1, <5>2 DEF gets, Answering, Sole
        <5> QED
          BY <5>1, <5>2 DEF gets
      <4>3. ASSUME NEW d \in Conns, d # q PROVE ~HasId(d, i)'
        <5>1. ~HasId(d, i)
          BY <4>1, <4>3 DEF Sole
        <5>2. CASE d = c
          <6>1. ~HasId(c, i)'
            BY <1>5, <4>2, <5>1, <5>2
          <6> QED
            BY <5>2, <6>1 DEF HasId, Getting, Answered, Waiting, Current
        <5>3. CASE d # c
          BY <1>3, <5>1, <5>3
        <5> QED
          BY <5>2, <5>3
      <4> QED
        BY <3>2, <4>3 DEF Sole
    <3>3. CASE caller[q].pc = "attaching"
      BY <3>1, <3>3 DEF Registered, Handshakes
    <3> QED
      BY <3>1, <3>2, <3>3 DEF Getting
  <2> QED
    BY <2>1, <2>2
<1>13. Attended'
  <2> SUFFICES ASSUME NEW q \in Conns, NEW i \in Ids, HasId(q, i)', Sole(q, i)'
               PROVE  Serving(q, i)'
    BY DEF Attended
  <2>0. Sole(q, i)
    BY <1>7
  <2>1. CASE q # c
    <3>1. HasId(q, i) /\ Serving(q, i) /\ Session(q)
      BY <1>3, <2>0, <2>1 DEF Registered, Attended, Sessions
    <3>2. ~HasId(c, i)'
      BY <1>0, <2>1 DEF Sole
    <3>3. s.id # i /\ ~gets(i)
      BY <1>5, <3>2 DEF HasId
    <3>4. \A w \in Worlds : clients'[w][i] = clients[w][i]
      BY <3>3 DEF Touching, gets
    <3> DEFINE z == caller[q]
    <3>5. /\ z.pc \in {"idle", "joining"} => z.world \in Worlds
          /\ z.pc = "out" => z.src \in Worlds
          /\ z.pc \in {"in", "placed"} => z.dst \in Worlds
          /\ z.pc = "back" => z.src \in Worlds
      <4>1. Fields(q, z) /\ z \in CallerStates
        BY DEF Shape, TypeOK, CallerFields
      <4> QED
        BY <4>1 DEF Fields, CallerStates
    <3> HIDE DEF z
    <3>6. /\ Serving(q, i)' <=>
              /\ z.pc \in {"idle", "joining"} => clients'[z.world][i] = q
              /\ z.pc = "out" => IF Answered(q)' THEN req'[Current(q)'].ok
                                                 ELSE clients'[z.src][i] = q
              /\ (z.pc = "in" /\ Answered(q)') \/ z.pc = "placed" => clients'[z.dst][i] = q
              /\ z.pc = "back" /\ Answered(q)' => clients'[z.src][i] = q
      BY DEF Serving, z
    <3>7. /\ Serving(q, i) <=>
              /\ z.pc \in {"idle", "joining"} => clients[z.world][i] = q
              /\ z.pc = "out" => IF Answered(q) THEN req[Current(q)].ok
                                                 ELSE clients[z.src][i] = q
              /\ (z.pc = "in" /\ Answered(q)) \/ z.pc = "placed" => clients[z.dst][i] = q
              /\ z.pc = "back" /\ Answered(q) => clients[z.src][i] = q
      BY DEF Serving, z
    <3> QED
      BY <1>3, <2>1, <3>1, <3>4, <3>5, <3>6, <3>7
  <2>2. CASE q = c
    <3>1. HasId(c, i) \/ gets(i)
      BY <1>5, <2>2 DEF HasId, Getting, Answered, Waiting, Current
    <3>2. s.id = i \/ gets(i)
      BY <1>4, <3>1 DEF HasId
    <3>3. CASE a.kind = "leave"
      BY <1>l, <1>p, <2>2, <3>3 DEF Serving
    <3>4. CASE a.kind = "attach"
      BY <1>p, <2>2, <3>4 DEF Serving
    <3>5. CASE a.kind = "join"
      <4>1. s.pc = "joining" /\ a.id = i /\ a.to = s.world
        <5>1. s.pc = "joining" /\ s.id = None /\ i # None
          BY <1>0, <1>p, <3>5, NoneAssumption DEF Session
        <5> QED
          BY <1>0, <3>2, <3>5, <5>1 DEF gets, Answering, Owned
      <4> QED
        BY <2>2, <3>5, <4>1 DEF Serving, Touching
    <3>6. CASE a.kind = "out"
      <4>1. s.pc = "out" /\ s.id = i /\ a.id = i /\ Awaited(t)
        BY <1>0, <1>p, <3>2, <3>6 DEF gets, Answering, Owned
      <4>2. a.ok
        BY <2>0, <2>2, <3>6, <4>1 DEF Answering
      <4>3. req'[Current(c)].ok /\ Current(c)' = Current(c) /\ Answered(c)'
        BY <1>2, <1>k, <4>1, <4>2 DEF Requests
      <4> QED
        BY <2>2, <4>1, <4>3 DEF Serving
    <3>7. CASE a.kind = "in"
      <4>1. s.pc \in {"in", "back"} /\ s.id = i /\ a.id = i
        BY <1>0, <1>p, <3>2, <3>7 DEF gets, Answering, Owned
      <4>2. /\ s.pc = "in" => a.to = s.dst
            /\ s.pc = "back" => a.to = s.src
        BY <1>0, <3>7 DEF Answering, Owned
      <4> QED
        BY <2>2, <3>7, <4>1, <4>2 DEF Serving, Touching
    <3> QED
      BY <3>3, <3>4, <3>5, <3>6, <3>7 DEF Requests, Kinds
  <2> QED
    BY <2>1, <2>2
<1> QED
  BY <1>9, <1>10, <1>11, <1>12, <1>13 DEF Registered

\* A tick only takes requests up.
LEMMA TickRegistered ==
  ASSUME TypeOK, RequestState, Registered, Conns = Callers,
         NEW w \in Worlds, Tick(w)
  PROVE  Registered'
<1>0. req \in [Calls -> Requests \cup {None}] /\ UNCHANGED <<caller, clients, tokens>>
  BY DEF TypeOK, Tick, TickWith
<1>1. ASSUME NEW t \in Calls
      PROVE  /\ req'[t] # None <=> req[t] # None
             /\ req[t] # None => /\ req'[t] = [req[t] EXCEPT !.stage = req'[t].stage]
                                 /\ req'[t].stage = "done" <=> req[t].stage = "done"
                                 /\ req[t].stage = "done" => req'[t] = req[t]
  <2>1. PICK S \in SUBSET Pending(w) : TickWith(w, S)
    BY DEF Tick
  <2>2. req'[t] = IF t \in S THEN [req[t] EXCEPT !.stage = "taken"] ELSE req[t]
    BY <2>1 DEF TickWith
  <2>3. t \in S => req[t] # None /\ req[t].stage = "sent"
    BY <2>1 DEF Pending, At
  <2>4. req[t] # None => req[t] \in Requests
    BY <1>0
  <2>5. ASSUME t \in S
        PROVE  /\ req'[t].stage = "taken" /\ req'[t] \in Requests
               /\ req'[t] = [req[t] EXCEPT !.stage = req'[t].stage]
    BY <2>2, <2>3, <2>4, <2>5 DEF Requests
  <2>6. ASSUME t \notin S, req[t] # None
        PROVE  req'[t] = [req[t] EXCEPT !.stage = req'[t].stage]
    BY <2>2, <2>4, <2>6 DEF Requests
  <2>7. None \notin Requests
    BY NoneAssumption
  <2> QED
    BY <2>2, <2>3, <2>5, <2>6, <2>7
<1>2. ASSUME NEW t \in Calls, req[t] # None
      PROVE  /\ req'[t].kind = req[t].kind /\ req'[t].to = req[t].to
             /\ req'[t].id = req[t].id /\ req'[t].ok = req[t].ok
             /\ req'[t].client = req[t].client /\ req'[t].token = req[t].token
  <2>1. req[t] \in Requests
    BY <1>0, <1>2
  <2> QED
    BY <1>1, <1>2, <2>1 DEF Requests
<1>3. /\ \A q : Current(q)' = Current(q) /\ (Waiting(q)' <=> Waiting(q))
      /\ \A u : Awaited(u)' <=> Awaited(u)
  BY <1>0 DEF Current, Waiting, Awaited
<1>4. ASSUME NEW q \in Conns
      PROVE  /\ Answered(q)' <=> Answered(q)
             /\ Answered(q) => req'[Current(q)] = req[Current(q)]
  <2>1. Waiting(q) => Current(q) \in Calls /\ req[Current(q)] # None
    BY CurrentCall DEF RequestState, Matches
  <2> QED
    BY <1>1, <1>3, <2>1 DEF Answered
<1>5. ASSUME NEW q \in Conns, NEW i \in Ids
      PROVE  /\ Getting(q, i)' <=> Getting(q, i)
             /\ HasId(q, i)' <=> HasId(q, i)
  BY <1>0, <1>3, <1>4 DEF Getting, HasId
<1>6. ASSUME NEW q \in Conns, NEW i \in Ids
      PROVE  Sole(q, i)' <=> Sole(q, i)
  BY <1>5 DEF Sole
<1>7. Sessions'
  BY <1>0, <1>3, <1>4 DEF Registered, Sessions, Session
<1>8. Ownership'
  <2> SUFFICES ASSUME NEW t \in Calls, req'[t] # None PROVE Owned(t)'
    BY DEF Ownership
  <2>1. Owned(t)
    BY <1>1 DEF Registered, Ownership
  <2> QED
    BY <1>0, <1>1, <1>2, <1>3, <2>1 DEF Owned
<1>9. TokenOwners'
  BY <1>0, <1>5 DEF Registered, TokenOwners
<1>10. Handshakes'
  BY <1>0, <1>5, <1>6 DEF Registered, Handshakes
<1>11. Attended'
  <2> SUFFICES ASSUME NEW q \in Conns, NEW i \in Ids, HasId(q, i)', Sole(q, i)'
               PROVE  Serving(q, i)'
    BY DEF Attended
  <2>1. Serving(q, i)
    BY <1>5, <1>6 DEF Registered, Attended
  <2> QED
    BY <1>0, <1>3, <1>4, <2>1 DEF Serving
<1> QED
  BY <1>7, <1>8, <1>9, <1>10, <1>11 DEF Registered

\* Every handler answers and touches what AnswerMove allows.
LEMMA HandleRegistered ==
  ASSUME SingleEntry, IInv, Patient, ClientHasAgent, Registered, Conns = Callers,
         NEW w \in Worlds, Handle(w)
  PROVE  Registered'
<1>0. /\ TypeOK /\ RequestState /\ Shape /\ CallerFields
      /\ req \in [Calls -> Requests \cup {None}]
      /\ clients \in [Worlds -> [Ids -> Conns \cup {None}]]
      /\ tokens \in [Worlds -> [Ids -> Conns \cup {None}]]
      /\ agents \in [Worlds -> [Ids -> Chars \cup {None}]]
  BY DEF IInv, Shape, TypeOK
<1>n. None \notin Conns /\ None \notin Ids /\ None \notin Chars
  BY NoneAssumption DEF Callers
<1>g. ASSUME NEW t \in Calls, req[t] # None, req[t].stage # "done"
      PROVE  /\ req[t] \in Requests /\ Owned(t) /\ WellFormed(req[t])
             /\ t[1] \in Conns
             /\ req[t].kind # "leave" => Awaited(t) /\ Matches(caller[t[1]], req[t])
             /\ req[t].kind \in {"attach", "join"} => caller[t[1]].id = None
  <2>1. /\ req[t] \in Requests /\ Owned(t) /\ WellFormed(req[t]) /\ t[1] \in Conns
    BY <1>0, <1>g DEF RequestState, Registered, Ownership, Calls
  <2>2. req[t].kind # "leave" => Awaited(t) /\ Matches(caller[t[1]], req[t])
    BY <1>0, <2>1 DEF RequestState, Owned, Awaited
  <2>3. req[t].kind \in {"attach", "join"} => caller[t[1]].pc \in {"attaching", "joining"}
    BY <2>2 DEF Matches, KindOf, Awaited, Waiting
  <2>4. Session(t[1])
    BY <2>1 DEF Registered, Sessions
  <2> QED
    BY <2>1, <2>2, <2>3, <2>4 DEF Session
<1>1. ASSUME NEW t \in Calls, HandleAttach(w, t) PROVE Registered'
  <2> DEFINE r == req[t]
             found == {i \in Ids : agents[w][i] # None /\ tokens[w][i] = r.token}
  <2>0. /\ r # None /\ r.stage # "done" /\ r.to = w /\ r.kind = "attach"
        /\ UNCHANGED caller
    BY <1>1 DEF HandleAttach, At
  <2>1. /\ r \in Requests /\ Owned(t) /\ t[1] \in Conns /\ r.client = t[1] /\ ~r.ok
        /\ r.token \in Conns /\ caller[r.token].id # None /\ caller[t[1]].id = None
    BY <1>g, <2>0 DEF Owned, WellFormed
  <2>2. CASE found = {}
    <3>1. Answer(t, r) /\ UNCHANGED <<clients, tokens>>
      BY <1>1, <2>2 DEF HandleAttach
    <3>2. Answering(t, r) /\ Touching(t, r)
      BY <2>0, <2>1, <3>1 DEF Answering, Touching
    <3> QED
      BY <1>0, <2>0, <2>1, <3>1, <3>2, AnswerMove
  <2>3. CASE found # {}
    <3>1. PICK i \in found :
            /\ clients' = [clients EXCEPT ![w][i] = r.client]
            /\ tokens' = [tokens EXCEPT ![w][i] = r.client]
            /\ Answer(t, [r EXCEPT !.id = i, !.ok = TRUE])
      BY <1>1, <2>3 DEF HandleAttach
    <3> DEFINE a == [r EXCEPT !.id = i, !.ok = TRUE]
    <3>2. i \in Ids /\ tokens[w][i] = r.token
      OBVIOUS
    <3>3. /\ a \in Requests /\ a.id = i /\ a.ok /\ a.kind = "attach" /\ a.to = r.to
          /\ a.client = r.client /\ a.token = r.token
      BY <2>0, <2>1, <3>2 DEF Requests
    <3>4. caller[r.token].id = i
      <4>1. HasId(r.token, i)
        BY <2>1, <3>2 DEF Registered, TokenOwners
      <4>2. ~Getting(r.token, i)
        BY <2>1 DEF Registered, Sessions, Session, Getting
      <4> QED
        BY <4>1, <4>2 DEF HasId
    <3>5. r.token # t[1]
      BY <2>1
    <3> HIDE DEF a
    <3>6. Answering(t, a)
      BY <2>0, <2>1, <3>3, <3>4, <3>5 DEF Answering
    <3>7. Touching(t, a)
      <4>1. \A v \in Worlds, j \in Ids : clients'[v][j] = clients[v][j] \/ j = i
        BY <1>0, <3>1
      <4>2. \A v \in Worlds, j \in Ids :
              tokens'[v][j] = tokens[v][j] \/ (j = i /\ tokens'[v][j] = t[1])
        BY <1>0, <2>1, <3>1
      <4> QED
        BY <3>3, <4>1, <4>2 DEF Touching
    <3>8. Answer(t, a)
      BY <3>1 DEF a
    <3> QED
      BY <1>0, <2>0, <3>3, <3>6, <3>7, <3>8, AnswerMove
  <2> QED
    BY <2>2, <2>3
<1>2. ASSUME NEW t \in Calls, HandleLeave(w, t) PROVE Registered'
  <2> DEFINE r == req[t]
  <2>0. /\ r # None /\ r.stage # "done" /\ r.kind = "leave"
        /\ UNCHANGED <<caller, tokens>> /\ Answer(t, r)
    BY <1>2 DEF HandleLeave, NextOf, At
  <2>1. r \in Requests /\ caller[t[1]].id = r.id
    BY <1>g, <2>0 DEF Owned
  <2>2. \A v \in Worlds, j \in Ids : clients'[v][j] = clients[v][j] \/ j = r.id
    BY <1>0, <1>2 DEF HandleLeave
  <2>3. Answering(t, r)
    BY <2>0 DEF Answering
  <2>4. Touching(t, r)
    BY <2>0, <2>1, <2>2 DEF Touching
  <2> HIDE DEF r
  <2>5. req[t] # None /\ req[t].stage # "done"
    BY <2>0 DEF r
  <2> QED
    BY <1>0, <2>0, <2>1, <2>3, <2>4, <2>5, AnswerMove
<1>3. ASSUME NEW t \in Calls, HandleJoin(w, t) PROVE Registered'
  <2> DEFINE r == req[t]
             i == nextNum[w] + 1
             a == [r EXCEPT !.id = i, !.ok = TRUE]
  <2>0. /\ r # None /\ r.stage # "done" /\ r.to = w /\ r.kind = "join" /\ i \in Ids
        /\ UNCHANGED caller /\ Answer(t, a)
        /\ clients' = [clients EXCEPT ![w][i] = r.client]
        /\ tokens' = [tokens EXCEPT ![w][i] = r.client]
    BY <1>3 DEF HandleJoin, NextOf, At
  <2>1. /\ r \in Requests /\ Owned(t) /\ t[1] \in Conns /\ r.client = t[1]
        /\ w \in JoinWorlds
    BY <1>g, <2>0 DEF Owned, WellFormed
  <2>2. /\ a \in Requests /\ a.id = i /\ a.ok /\ a.kind = "join" /\ a.to = w
        /\ a.to = r.to /\ a.client = r.client /\ a.token = r.token
    BY <2>0, <2>1 DEF Requests
  <2>3. ~Issued(i)
    <3>1. nextNum[w] \in Nat
      BY <1>0 DEF TypeOK
    <3>2. ~(i <= nextNum[w])
      BY <3>1
    <3> QED
      BY <2>1, <3>2 DEF Issued
  <2>4. Sole(t[1], i)
    <3> SUFFICES ASSUME NEW d \in Conns, HasId(d, i) PROVE FALSE
      BY DEF Sole
    <3>1. d \in Callers /\ i # None
      BY <1>n, <2>0
    <3>2. CASE caller[d].id = i
      BY <2>3, <3>1, <3>2 DEF IInv, IssuedIds, CallerIds
    <3>3. CASE Getting(d, i)
      <4>1. Waiting(d) /\ req[Current(d)].id = i
        BY <3>3 DEF Getting, Answered
      <4>2. Current(d) \in Calls /\ req[Current(d)] # None
        BY <1>0, <3>1, <4>1, CurrentCall DEF RequestState, Matches
      <4> QED
        BY <2>3, <3>1, <4>1, <4>2 DEF IInv, IssuedIds, RequestIds
    <3> QED
      BY <3>2, <3>3 DEF HasId
  <2> HIDE DEF a, i
  <2>5. Answering(t, a)
    BY <2>0, <2>2, <2>4 DEF Answering
  <2>6. Touching(t, a)
    <3>1. \A v \in Worlds, j \in Ids : clients'[v][j] = clients[v][j] \/ j = i
      BY <1>0, <2>0
    <3>2. \A v \in Worlds, j \in Ids :
            tokens'[v][j] = tokens[v][j] \/ (j = i /\ tokens'[v][j] = t[1])
      BY <1>0, <2>0, <2>1
    <3>3. clients'[w][i] = t[1]
      BY <1>0, <2>0, <2>1
    <3> QED
      BY <2>2, <3>1, <3>2, <3>3 DEF Touching
  <2> QED
    BY <1>0, <2>0, <2>2, <2>5, <2>6, AnswerMove
<1>4. ASSUME NEW t \in Calls, HandleTransferOut(w, t) PROVE Registered'
  <2> DEFINE r == req[t]
             present == agents[w][r.id] # None
             a == [r EXCEPT !.ok = present, !.char = agents[w][r.id]]
  <2>0. /\ r # None /\ r.stage # "done" /\ r.to = w /\ r.kind = "out"
        /\ UNCHANGED caller /\ Answer(t, a)
        /\ tokens' = [tokens EXCEPT ![w][r.id] = None]
        /\ clients' = IF present THEN [clients EXCEPT ![w][r.id] = None] ELSE clients
    BY <1>4 DEF HandleTransferOut, NextOf, At, WithoutClient
  <2>1. /\ r \in Requests /\ Owned(t) /\ t[1] \in Conns /\ r.id \in Ids
        /\ caller[t[1]].id = r.id /\ r.to = caller[t[1]].src
        /\ caller[t[1]].pc = "out" /\ ~Answered(t[1])
    <3>1. /\ r \in Requests /\ Owned(t) /\ t[1] \in Conns /\ r.id # None
          /\ Awaited(t) /\ Matches(caller[t[1]], r)
      BY <1>g, <2>0 DEF WellFormed
    <3>2. caller[t[1]].pc = "out" /\ ~Answered(t[1])
      BY <2>0, <3>1 DEF Matches, KindOf, Awaited, Waiting, Answered
    <3> QED
      BY <2>0, <3>1, <3>2 DEF Owned, Requests
  <2>2. /\ a \in Requests /\ a.id = r.id /\ a.ok = present /\ a.kind = "out" /\ a.to = r.to
        /\ a.client = r.client /\ a.token = r.token
    <3>1. agents[w][r.id] \in Chars \cup {None} /\ present \in BOOLEAN
      BY <1>0, <2>1
    <3> HIDE DEF present
    <3> QED
      BY <2>0, <2>1, <3>1 DEF Requests
  <2>3. Sole(t[1], r.id) => present
    <3> SUFFICES ASSUME Sole(t[1], r.id) PROVE present
      OBVIOUS
    <3>1. Serving(t[1], r.id)
      BY <2>1 DEF Registered, Attended, HasId
    <3>2. clients[w][r.id] = t[1]
      BY <2>0, <2>1, <3>1 DEF Serving
    <3> QED
      BY <1>n, <2>1, <3>2 DEF ClientHasAgent, Present
  <2> HIDE DEF a, present
  <2>4. Answering(t, a)
    BY <2>0, <2>2, <2>3 DEF Answering
  <2>5. Touching(t, a)
    <3>1. \A v \in Worlds, j \in Ids : clients'[v][j] = clients[v][j] \/ j = r.id
      BY <1>0, <2>0
    <3>2. \A v \in Worlds, j \in Ids : tokens'[v][j] = tokens[v][j] \/ tokens'[v][j] = None
      BY <1>0, <2>0
    <3> QED
      BY <1>n, <2>1, <2>2, <3>1, <3>2 DEF Touching
  <2> QED
    BY <1>0, <2>0, <2>2, <2>4, <2>5, AnswerMove
<1>5. ASSUME NEW t \in Calls, HandleTransferIn(w, t) PROVE Registered'
  <2> DEFINE r == req[t]
             a == [r EXCEPT !.ok = (agents[w][r.id] = None)]
  <2>0. /\ r # None /\ r.stage # "done" /\ r.to = w /\ r.kind = "in"
        /\ UNCHANGED <<caller, tokens>> /\ Answer(t, a)
        /\ clients' = IF agents[w][r.id] = None /\ r.client # None
                      THEN [clients EXCEPT ![w][r.id] = r.client] ELSE clients
    BY <1>5 DEF HandleTransferIn, NextOf, At
  <2>1. /\ r \in Requests /\ Owned(t) /\ t[1] \in Conns /\ r.id \in Ids
        /\ caller[t[1]].id = r.id /\ r.client = t[1] /\ Carries(t[1], r.id)
    <3>1. /\ r \in Requests /\ Owned(t) /\ t[1] \in Conns /\ r.id # None
          /\ Awaited(t) /\ Matches(caller[t[1]], r)
      BY <1>g, <2>0 DEF WellFormed
    <3>2. caller[t[1]].pc \in {"in", "back"} /\ t = Current(t[1])
      BY <2>0, <3>1 DEF Matches, KindOf, Awaited, Waiting
    <3> QED
      BY <2>0, <3>1, <3>2 DEF Owned, Requests, Carries
  <2>2. agents[w][r.id] = None
    <3>1. r.id \notin givenUp /\ t[1] \in Callers
      BY <2>1 DEF Patient
    <3> QED
      BY <2>1, <3>1 DEF IInv, Safe, NoDuplicate, Present
  <2>3. /\ a \in Requests /\ a.id = r.id /\ a.ok /\ a.kind = "in" /\ a.to = w
        /\ a.to = r.to /\ a.client = r.client /\ a.token = r.token
    BY <2>0, <2>1, <2>2 DEF Requests
  <2> HIDE DEF a
  <2>4. Answering(t, a)
    BY <2>0, <2>3 DEF Answering
  <2>5. Touching(t, a)
    <3>1. clients' = [clients EXCEPT ![w][r.id] = t[1]]
      BY <1>n, <2>0, <2>1, <2>2
    <3>2. \A v \in Worlds, j \in Ids : clients'[v][j] = clients[v][j] \/ j = r.id
      BY <1>0, <3>1
    <3>3. clients'[w][r.id] = t[1]
      BY <1>0, <2>1, <3>1
    <3> QED
      BY <2>0, <2>1, <2>3, <3>2, <3>3 DEF Touching
  <2> QED
    BY <1>0, <2>0, <2>3, <2>4, <2>5, AnswerMove
<1> QED
  BY <1>1, <1>2, <1>3, <1>4, <1>5 DEF Handle

-----------------------------------------------------------------------------
(* The session of every connection                                         *)

LEMMA InitRegistered ==
  ASSUME Init, Conns = Callers
  PROVE  Registered
<1>1. \A c \in Conns : caller[c].pc = "off" /\ caller[c].id = None
  BY DEF Init
<1>2. \A c \in Conns, i \in Ids : ~HasId(c, i)
  BY <1>1, NoneAssumption DEF HasId, Getting
<1>3. Sessions
  BY <1>1 DEF Sessions, Session
<1>4. Ownership
  BY DEF Init, Ownership
<1>5. TokenOwners
  BY NoneAssumption DEF Init, TokenOwners, Callers
<1>6. Handshakes /\ Attended
  BY <1>2 DEF Handshakes, Attended, HasId
<1> QED
  BY <1>3, <1>4, <1>5, <1>6 DEF Registered

LEMMA StepRegistered ==
  ASSUME SingleEntry, ~Timeouts, Admins = {}, IInv, Patient, ClientHasAgent,
         Registered, [Next]_vars
  PROVE  Registered'
<1>0. Conns = Callers /\ Shape /\ TypeOK /\ RequestState
  BY DEF Callers, IInv, Shape
<1>1. ASSUME NEW c \in Conns, ConnStep(c) PROVE Registered'
  <2>1. ~LeaveDropped(c)
    BY DEF LeaveDropped
  <2> QED
    BY <1>0, <1>1, <2>1, SendingRegistered DEF ConnStep
<1>2. ASSUME NEW p \in Callers, Continue(p) PROVE Registered'
  <2>1. ~caller[p].expired
    BY DEF Patient
  <2>2. ~Abandon(p)
    BY <2>1 DEF Abandon, OutAbandoned, InAbandoned, BackAbandoned, JoinFailed
  <2>3. Proceed(p) /\ p \in Conns
    BY <1>0, <1>2, <2>2 DEF Continue
  <2> QED
    BY <1>0, <2>3, ReadingRegistered
<1>3. \A p \in Callers : ~Expire(p)
  BY DEF Expire
<1>4. ASSUME NEW w \in Worlds, Tick(w) PROVE Registered'
  BY <1>0, <1>4, TickRegistered
<1>5. ASSUME NEW w \in Worlds, Handle(w) PROVE Registered'
  BY <1>0, <1>5, HandleRegistered
<1>6. ASSUME UNCHANGED vars PROVE Registered'
  <2>1. UNCHANGED <<caller, req, clients, tokens>>
    BY <1>6 DEF vars
  <2>2. Sessions'
    BY <2>1 DEF Registered, Sessions, Session, Answered, Waiting, Current
  <2>3. Ownership'
    BY <2>1 DEF Registered, Ownership, Owned, Awaited, Waiting, Current
  <2>4. ASSUME NEW q \in Conns, NEW i \in Ids
        PROVE  /\ Getting(q, i)' <=> Getting(q, i)
               /\ HasId(q, i)' <=> HasId(q, i)
    BY <2>1 DEF HasId, Getting, Answered, Waiting, Current
  <2>5. ASSUME NEW q \in Conns, NEW i \in Ids PROVE Sole(q, i)' <=> Sole(q, i)
    BY <2>4 DEF Sole
  <2>6. TokenOwners'
    BY <2>1, <2>4 DEF Registered, TokenOwners
  <2>7. Handshakes'
    BY <2>1, <2>4, <2>5 DEF Registered, Handshakes
  <2>8. ASSUME NEW q \in Conns, NEW i \in Ids PROVE Serving(q, i)' <=> Serving(q, i)
    BY <2>1 DEF Serving, Answered, Waiting, Current
  <2>9. Attended'
    BY <2>4, <2>5, <2>8 DEF Registered, Attended
  <2> QED
    BY <2>2, <2>3, <2>6, <2>7, <2>9 DEF Registered
<1>7. \A m \in Admins : ~AdminStep(m)
  OBVIOUS
<1> QED
  BY <1>1, <1>2, <1>3, <1>4, <1>5, <1>6, <1>7 DEF Next

\* Served: without deadlines and admin moves, and while no token is being
\* presented, the only connection an agent ever had is registered in the world
\* its session names whenever it is between two operations: out and in, refusals
\* on cooldown and the handback to the source all carry the session's Out channel.
THEOREM SessionsServed ==
  ASSUME SingleEntry, ~Timeouts, Admins = {}
  PROVE  Spec => []Served
<1>1. Init => Patient
  BY DEF Init, Patient
<1>2. Init => Registered
  BY InitRegistered DEF Callers
<1>3. IInv /\ Patient /\ ClientHasAgent /\ Registered /\ [Next]_vars
        => Patient' /\ Registered'
  BY StepPatient, StepRegistered DEF IInv, Shape
<1>4. IInv /\ Registered => Served
  <2> SUFFICES ASSUME IInv, Registered, NEW c \in Conns, caller[c].pc = "idle",
                      ~\E d \in Conns \ {c} : \/ caller[d].id = caller[c].id
                                              \/ caller[d].pc = "attaching"
               PROVE  clients[caller[c].world][caller[c].id] = c
    BY DEF Served
  <2> DEFINE i == caller[c].id
  <2>1. i \in Ids /\ HasId(c, i)
    <3>1. caller[c] \in CallerStates /\ Fields(c, caller[c])
      BY DEF IInv, Shape, TypeOK, CallerFields, Callers
    <3> QED
      BY <3>1 DEF Fields, CallerStates, HasId
  <2>2. ASSUME NEW d \in Conns \ {c}, HasId(d, i) PROVE FALSE
    <3>1. Getting(d, i) /\ caller[d].pc = "joining"
      BY <2>2 DEF HasId, Getting
    <3>2. Sole(d, i)
      BY <2>1, <3>1 DEF Registered, Handshakes
    <3> QED
      BY <2>1, <3>2 DEF Sole
  <2>3. Serving(c, i)
    BY <2>1, <2>2 DEF Sole, Registered, Attended
  <2> QED
    BY <2>3 DEF Serving
<1> QED
  BY <1>1, <1>2, <1>3, <1>4, Invariance, ClientsFollowAgents, PTL DEF Spec
=============================================================================
