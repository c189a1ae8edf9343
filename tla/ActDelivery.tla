---------------------------- MODULE ActDelivery ----------------------------
(***************************************************************************)
(* The way of an ACT from a connection to its result, for one agent.       *)
(*                                                                         *)
(* The reader loop of a connection handles one message at a time.  It asks *)
(* the world the client expects whether the act id is known, answers ACK,  *)
(* and routes the ACT: to the inbox of the world its session names, to     *)
(* switchWorld, or, when the client expects another world, to nowhere.     *)
(* The world's loop answers the question between ticks and applies ACTs at *)
(* ticks, after transfers.  A client repeats what it is unsure of, on the  *)
(* same connection or on a new one, while the reader of the old one may    *)
(* still be busy.                                                          *)
(*                                                                         *)
(* Every ACK says accepted: requests that lack a field are refused before  *)
(* anything changes and are left out.  A switch is one step here; what can *)
(* happen within it is the subject of WorldTransfer.                       *)
(***************************************************************************)
EXTENDS Naturals, Sequences, FiniteSets

CONSTANTS
  Acts,      \* act ids
  Switches,  \* the acts that hold a SWITCH_WORLD with a target
  Worlds,    \* world ids
  Home,      \* the world the agent joined
  MaxConns,  \* bound on the connections the agent ever has
  MaxSends,  \* bound on the messages the client sends
  Timeouts,  \* whether the server's deadlines may pass
  None       \* "no value"

ASSUME HomeAssumption == Home \in Worlds
ASSUME ActsAssumption == Switches \subseteq Acts
ASSUME BoundsAssumption == MaxConns \in Nat /\ MaxSends \in Nat
ASSUME TimeoutsAssumption == Timeouts \in BOOLEAN
ASSUME NoneAssumption == None \notin Acts \cup Worlds

Conns == 1..MaxConns

\* A question to the deduplication of a world: who asks, and about what.
Questions == [conn : Conns, act : Acts, world : Worlds]

ConnStates ==
  [pc : {"off", "reading", "asking", "routing", "injecting", "gone"},
   act : Acts \cup {None}, expected : Worlds \cup {None},
   world : Worlds \cup {None}]

VARIABLES
  conn,        \* the reader loops, and connSession.WorldID
  cached,      \* connSession.acksByActID
  asked,       \* questions a world has not handled
  remembered,  \* World.actDedupe
  inbox,       \* World.inbox and the pending slice it is drained into
  at,          \* the world that has the agent
  resumable,   \* whether that world knows a resume token of the agent
  sent,        \* messages sent so far
  runs,        \* history: how often an act took effect in a world
  results,     \* history: the acts whose result is in the agent's event log
  acked,       \* history: the acts that an ACK accepted
  unsure,      \* history: the acts routed without an answer to the question
  untold,      \* history: the acts whose result the world did not take in time
  astray,      \* history: the acts dropped because the agent had left the world
  void         \* history: the acts that were applied with nothing in them

history == <<runs, results, acked, unsure, untold, astray, void>>
vars == <<conn, cached, asked, remembered, inbox, at, resumable, sent, history>>

TypeOK ==
  /\ conn \in [Conns -> ConnStates]
  /\ \A c \in Conns : conn[c].pc # "off" => conn[c].world # None
  /\ cached \in [Conns -> SUBSET Acts]
  /\ asked \subseteq Questions
  /\ remembered \in [Worlds -> SUBSET Acts]
  /\ inbox \in [Worlds -> Seq(Acts)]
  /\ at \in Worlds
  /\ resumable \in BOOLEAN
  /\ sent \in 0..MaxSends
  /\ runs \in [Worlds -> [Acts -> Nat]]
  /\ {results, acked, unsure, untold, astray, void} \subseteq SUBSET Acts

Init ==
  /\ conn = [c \in Conns |-> [pc |-> "off", act |-> None, expected |-> None,
                              world |-> None]]
  /\ cached = [c \in Conns |-> {}]
  /\ asked = {}
  /\ remembered = [w \in Worlds |-> {}]
  /\ inbox = [w \in Worlds |-> <<>>]
  /\ at = Home
  /\ resumable = TRUE
  /\ sent = 0
  /\ runs = [w \in Worlds |-> [a \in Acts |-> 0]]
  /\ results = {} /\ acked = {} /\ unsure = {}
  /\ untold = {} /\ astray = {} /\ void = {}

-----------------------------------------------------------------------------
(* The connection                                                          *)

\* The first connection, or one that resumes the agent.  A world the agent
\* switched to does not know the token, and its next connection gets another
\* agent, whose acts are not this one's.
Connect(c) ==
  /\ conn[c].pc = "off" /\ \A d \in 1..c - 1 : conn[d].pc # "off"
  /\ resumable
  /\ conn' = [conn EXCEPT ![c].pc = "reading", ![c].world = at]
  /\ UNCHANGED <<cached, asked, remembered, inbox, at, resumable, sent, history>>

\* ReadMessage fails; whatever the reader was doing comes first.
Break(c) ==
  /\ conn[c].pc = "reading"
  /\ conn' = [conn EXCEPT ![c].pc = "gone"]
  /\ UNCHANGED <<cached, asked, remembered, inbox, at, resumable, sent, history>>

Done(c) == [conn[c] EXCEPT !.pc = "reading", !.act = None, !.expected = None]

\* A repetition on the same connection is answered from the cache.
Repeated(c, a) ==
  /\ conn[c].pc = "reading" /\ sent < MaxSends
  /\ a \in cached[c]
  /\ sent' = sent + 1
  /\ UNCHANGED <<conn, cached, asked, remembered, inbox, at, resumable, history>>

\* The question goes to the world the client expects.
Receive(c, a, w) ==
  /\ conn[c].pc = "reading" /\ sent < MaxSends
  /\ a \notin cached[c]
  /\ sent' = sent + 1
  /\ conn' = [conn EXCEPT ![c].pc = "asking", ![c].act = a, ![c].expected = w]
  /\ asked' = asked \cup {[conn |-> c, act |-> a, world |-> w]}
  /\ UNCHANGED <<cached, remembered, inbox, at, resumable, history>>

\* rememberAck and the ACK.
Accept(c, a) ==
  /\ cached' = [cached EXCEPT ![c] = @ \cup {a}]
  /\ acked' = acked \cup {a}

\* After two seconds the ACT goes on without an answer.  The question may have
\* been sent, and the world stores the act then.
AskTimesOut(c) ==
  LET a == conn[c].act IN
  /\ Timeouts
  /\ conn[c].pc = "asking"
  /\ asked' \in {asked, {q \in asked : q.conn # c \/ q.act # a}}
  /\ Accept(c, a)
  /\ conn' = [conn EXCEPT ![c].pc = "routing"]
  /\ unsure' = unsure \cup {a}
  /\ UNCHANGED <<remembered, inbox, at, resumable, sent, runs, results, untold, astray,
                 void>>

-----------------------------------------------------------------------------
(* Manager.RouteAct                                                        *)

Inject(c) == conn' = [conn EXCEPT ![c].pc = "injecting"]

\* "expected_world_id mismatch"
RouteMismatch(c) ==
  /\ conn[c].pc = "routing" /\ conn[c].expected # conn[c].world
  /\ Inject(c)
  /\ UNCHANGED <<cached, asked, remembered, inbox, at, resumable, sent, history>>

\* Instants SWITCH_WORLD are taken out.  An ACT that names no target goes on
\* without them, though nothing else be in it.
ToInbox(c) ==
  conn[c].pc = "routing" /\ conn[c].expected = conn[c].world
    /\ conn[c].act \notin Switches

RouteToInbox(c) ==
  /\ ToInbox(c)
  /\ inbox' = [inbox EXCEPT ![conn[c].world] = Append(@, conn[c].act)]
  /\ conn' = [conn EXCEPT ![c] = Done(c)]
  /\ UNCHANGED <<cached, asked, remembered, at, resumable, sent, history>>

\* Slip: nobody is told.
BusyIgnored(c) == conn' = [conn EXCEPT ![c] = Done(c)]

\* "world inbox busy" is injected in place of a result.
Busy(c) == Inject(c)

\* The inbox had no room for three seconds, or the connection broke.
RouteTimesOut(c) ==
  /\ Timeouts
  /\ ToInbox(c)
  /\ Busy(c)
  /\ UNCHANGED <<cached, asked, remembered, inbox, at, resumable, sent, history>>

\* connSession.WorldID after RouteAct.
NextWorld(c, w) == w

\* switchWorld: the agent is transferred, without its resume token.
RouteSwitch(c, w) ==
  LET s == conn[c] IN
  /\ s.pc = "routing" /\ s.expected = s.world /\ s.act \in Switches
  /\ at = s.world /\ w # s.world
  /\ at' = w
  /\ resumable' = FALSE
  /\ runs' = [runs EXCEPT ![s.world][s.act] = @ + 1]
  /\ conn' = [conn EXCEPT ![c].pc = "injecting", ![c].world = w]
  /\ UNCHANGED <<cached, asked, remembered, inbox, sent, results, acked, unsure, untold,
                 astray, void>>

\* The agent is not there, too far from an entry point, on cooldown, ...
RouteSwitchRefused(c) ==
  LET s == conn[c] IN
  /\ s.pc = "routing" /\ s.expected = s.world /\ s.act \in Switches
  /\ conn' = [conn EXCEPT ![c].pc = "injecting",
                          ![c].world = NextWorld(c, s.world)]
  /\ UNCHANGED <<cached, asked, remembered, inbox, at, resumable, sent, history>>

\* injectActionResult waited two seconds for the world.  The world may still
\* handle the request.
InjectTimesOut(c) ==
  LET a == conn[c].act IN
  /\ Timeouts
  /\ conn[c].pc = "injecting"
  /\ conn' = [conn EXCEPT ![c] = Done(c)]
  /\ results' \in {results, results \cup {a}}
  /\ untold' = untold \cup {a}
  /\ UNCHANGED <<cached, asked, remembered, inbox, at, resumable, sent, runs, acked, unsure,
                 astray, void>>

-----------------------------------------------------------------------------
(* The world's loop                                                        *)

\* Slip: the answer is right, but nothing is stored.
RememberNothing(w, a) == remembered

Remember(w, a) == [remembered EXCEPT ![w] = @ \cup {a}]

\* A known act ends with its ACK; an unknown one is stored and goes on.  An
\* answer to a reader that has gone on is dropped.
HandleActDedupe(q) ==
  LET c == q.conn
      waiting == conn[c].pc = "asking" /\ conn[c].act = q.act
      duplicate == q.act \in remembered[q.world] IN
  /\ q \in asked
  /\ asked' = asked \ {q}
  /\ remembered' = Remember(q.world, q.act)
  /\ IF waiting
     THEN /\ Accept(c, q.act)
          /\ conn' = [conn EXCEPT ![c] =
               IF duplicate THEN Done(c) ELSE [@ EXCEPT !.pc = "routing"]]
     ELSE UNCHANGED <<cached, acked, conn>>
  /\ UNCHANGED <<inbox, at, resumable, sent, runs, results, unsure, untold, astray, void>>

\* The event of an agent that is not in this world is dropped.
HandleInject(c) ==
  LET a == conn[c].act IN
  /\ conn[c].pc = "injecting"
  /\ IF at = conn[c].world
     THEN results' = results \cup {a} /\ UNCHANGED astray
     ELSE astray' = astray \cup {a} /\ UNCHANGED results
  /\ conn' = [conn EXCEPT ![c] = Done(c)]
  /\ UNCHANGED <<cached, asked, remembered, inbox, at, resumable, sent, runs, acked, unsure,
                 untold, void>>

\* Slip: a stale ACT is dropped without a word.
StaleSilently(act) == act = "full"

\* An ACT of an agent that is here has a result: E_STALE, or for each cancel,
\* instant and task in it a refusal or that of what it did.
Reported(act) == act \in {"stale", "full"}

\* Transfers come first in a tick: the agent of a queued ACT may have left, and
\* the ACT is skipped.
ApplyAct(w, act) ==
  LET a == Head(inbox[w]) IN
  /\ inbox[w] # <<>>
  /\ inbox' = [inbox EXCEPT ![w] = Tail(@)]
  /\ IF at # w
     THEN astray' = astray \cup {a} /\ UNCHANGED <<runs, results, void>>
     ELSE /\ runs' = IF act = "stale" THEN runs ELSE [runs EXCEPT ![w][a] = @ + 1]
          /\ results' = IF Reported(act) THEN results \cup {a} ELSE results
          /\ void' = IF act = "empty" THEN void \cup {a} ELSE void
          /\ UNCHANGED astray
  /\ UNCHANGED <<conn, cached, asked, remembered, at, resumable, sent, acked, unsure, untold>>

-----------------------------------------------------------------------------
Client ==
  \E c \in Conns :
    \/ Connect(c) \/ Break(c)
    \/ \E a \in Acts : Repeated(c, a) \/ \E w \in Worlds : Receive(c, a, w)

Route(c) ==
  \/ RouteMismatch(c) \/ RouteToInbox(c)
  \/ \E w \in Worlds : RouteSwitch(c, w)
  \/ RouteSwitchRefused(c)

TimesOut(c) == AskTimesOut(c) \/ RouteTimesOut(c) \/ InjectTimesOut(c)

\* "full" holds at least one cancel, instant or task.
Apply(w) == \E act \in {"stale", "empty", "full"} : ApplyAct(w, act)

Next ==
  \/ Client
  \/ \E c \in Conns : Route(c) \/ HandleInject(c) \/ TimesOut(c)
  \/ \E q \in Questions : HandleActDedupe(q)
  \/ \E w \in Worlds : Apply(w)

Spec == Init /\ [][Next]_vars

\* The worlds handle what they have received, and a reader goes on routing.
FairSpec ==
  /\ Spec
  /\ \A c \in Conns : WF_vars(Route(c)) /\ WF_vars(HandleInject(c))
  /\ \A q \in Questions : WF_vars(HandleActDedupe(q))
  /\ \A w \in Worlds : WF_vars(Apply(w))

-----------------------------------------------------------------------------
(* Properties                                                              *)

\* However often a client repeats an ACT, on however many connections, it takes
\* effect once in a world, if the world answered whether it knew the ACT.
AtMostOnce ==
  \A a \in Acts \ unsure, w \in Worlds : runs[w][a] <= 1

\* A reader has the act in its hands, on its way to world w.
InHands(a, w) ==
  \E c \in Conns :
    /\ conn[c].act = a /\ conn[c].expected = w
    /\ conn[c].pc \in {"asking", "routing", "injecting"}

Queued(a, w) == \E i \in 1..Len(inbox[w]) : inbox[w][i] = a

\* The ACTs that the server is through with.
Over == results \cup void \cup untold \cup astray

\* An ACT whose repetitions are swallowed is being handled, has a result or had
\* nothing in it to report.  There are two exceptions: the world did not take the
\* result in time; or the agent had left the world that should have applied the
\* ACT or reported its refusal, which its memory hides when the agent is back.
\* The latter never happens to an agent that made no switch.
NotSwallowed ==
  /\ \A w \in Worlds : \A a \in remembered[w] : InHands(a, w) \/ Queued(a, w) \/ a \in Over
  /\ astray # {} => ~resumable

\* What an ACK accepts ends with a result, or is applied and empty, unless the
\* world did not take the result or the agent had left before the ACT was applied
\* or refused.
AcceptedEnds == \A a \in Acts : a \in acked ~> a \in Over

-----------------------------------------------------------------------------
(* Claims of documents that the code does not live up to                   *)

\* "Completion is still reported by a later ACTION_RESULT in OBS.events."
AcceptedCompletes == \A a \in Acts : a \in acked ~> a \in results
=============================================================================
