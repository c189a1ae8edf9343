------------------------- MODULE ActDelivery_proofs -------------------------
(***************************************************************************)
(* Proofs about what goes through a connection: the acts of an agent       *)
(* (ActDelivery), for any acts, worlds, connections and bounds, and, in    *)
(* the second half, its events (EventLog), for logs, channels and bounds   *)
(* of any size: an event comes under the number its world gave it and,     *)
(* while the agent stays in its world, in order, once, and none is skipped *)
(* that did not fall out of a log, a channel or a connection.              *)
(***************************************************************************)
EXTENDS ActDelivery, EventLog, SequenceTheorems, WellFoundedInduction, TLAPS

-----------------------------------------------------------------------------
(* The inductive invariant                                                 *)

\* A reader that is busy knows the act and the world the client expects.
Occupied(c) == conn[c].pc \in {"asking", "routing", "injecting"}

ReaderFields ==
  \A c \in Conns :
    /\ Occupied(c) => conn[c].act \in Acts /\ conn[c].expected \in Worlds
    /\ conn[c].pc = "asking" => conn[c].act \notin cached[c]

\* A reader has the act in its hands and has heard, or waited, for an answer.
Underway(c, a, w) ==
  /\ conn[c].act = a /\ conn[c].expected = w
  /\ conn[c].pc \in {"routing", "injecting"}

\* The act has a result, or is on its way to one.
Carried(a, w) ==
  \/ \E c \in Conns : Underway(c, a, w)
  \/ Queued(a, w)
  \/ a \in Over

\* A question is that of a reader that waits for the answer; a reader that has
\* gone on keeps the ACK, so that it never asks the same again.
Asked ==
  \A q \in asked :
    \/ /\ conn[q.conn].pc = "asking"
       /\ conn[q.conn].act = q.act /\ conn[q.conn].expected = q.world
    \/ q.act \in cached[q.conn] /\ Carried(q.act, q.world)

\* NotSwallowed without the readers that only ask.
Kept == \A w \in Worlds : \A a \in remembered[w] : Carried(a, w)

\* The reader will take the act to world w, as far as it is concerned.
Routing(c, a, w) ==
  conn[c].pc = "routing" /\ conn[c].act = a /\ conn[c].expected = w

\* Of an act there is at most one copy on the way to a world, and none once it
\* took effect there.
OneCopy(a, w) ==
  /\ runs[w][a] <= 1
  /\ runs[w][a] = 1 \/ Queued(a, w) \/ (\E c \in Conns : Routing(c, a, w))
       => a \in remembered[w]
  /\ runs[w][a] = 1 => ~Queued(a, w) /\ \A c \in Conns : ~Routing(c, a, w)
  /\ Queued(a, w) => \A c \in Conns : ~Routing(c, a, w)
  /\ \A c, d \in Conns : Routing(c, a, w) /\ Routing(d, a, w) => c = d
  /\ \A i, j \in 1..Len(inbox[w]) : inbox[w][i] = a /\ inbox[w][j] = a => i = j

Copies == \A a \in Acts \ unsure, w \in Worlds : OneCopy(a, w)

\* Before its first switch the agent is in its home, and so is all that it sends.
AtHome ==
  resumable =>
    /\ at = Home /\ astray = {}
    /\ \A c \in Conns : conn[c].pc # "off" => conn[c].world = Home
    /\ \A w \in Worlds : inbox[w] # <<>> => w = Home

IInv == TypeOK /\ ReaderFields /\ Asked /\ Kept /\ Copies /\ AtHome

\* What an ACT may be when it is applied.
ActKinds == {"stale", "empty", "full"}

-----------------------------------------------------------------------------
(* Lemmas                                                                  *)

LEMMA QueueGrows ==
  ASSUME NEW q \in Seq(Acts), NEW a \in Acts
  PROVE  /\ Append(q, a) \in Seq(Acts)
         /\ Len(Append(q, a)) = Len(q) + 1
         /\ \A i \in 1..Len(q) : Append(q, a)[i] = q[i]
         /\ Append(q, a)[Len(q) + 1] = a
         /\ Len(q) \in Nat
  BY AppendProperties, LenProperties

LEMMA QueueShrinks ==
  ASSUME NEW q \in Seq(Acts), q # <<>>
  PROVE  /\ Head(q) \in Acts /\ Head(q) = q[1]
         /\ Tail(q) \in Seq(Acts)
         /\ Len(q) \in Nat /\ Len(q) >= 1
         /\ Len(Tail(q)) = Len(q) - 1
         /\ \A i \in 1..Len(q) - 1 : Tail(q)[i] = q[i + 1]
<1>1. Len(q) \in Nat \ {0}
  BY EmptySeq
<1> QED
  BY <1>1, HeadTailProperties

LEMMA InitIInv == Init => IInv
<1> SUFFICES ASSUME Init PROVE IInv
  OBVIOUS
<1>1. TypeOK
  BY HomeAssumption, BoundsAssumption DEF Init, TypeOK, ConnStates, Conns
<1>2. \A a \in Acts, w \in Worlds : ~Queued(a, w) /\ inbox[w] = <<>> /\ Len(inbox[w]) = 0
  BY EmptySeq DEF Init, Queued
<1>3. Copies
  BY <1>2 DEF Init, Copies, OneCopy, Routing
<1> QED
  BY <1>1, <1>2, <1>3 DEF Init, IInv, ReaderFields, Occupied, Asked, Kept, AtHome

-----------------------------------------------------------------------------
(* Type correctness                                                        *)

\* What a step of a reader has to show.
LEMMA ReaderType ==
  ASSUME TypeOK, NEW c \in Conns, NEW s \in ConnStates, s.world # None,
         conn' = [conn EXCEPT ![c] = s]
  PROVE  /\ conn' \in [Conns -> ConnStates]
         /\ \A d \in Conns : conn'[d].pc # "off" => conn'[d].world # None
  BY DEF TypeOK

LEMMA ReaderStates ==
  ASSUME TypeOK, NEW c \in Conns, conn[c].pc # "off"
  PROVE  /\ conn[c] \in ConnStates
         /\ conn[c].world \in Worlds
         /\ Done(c) \in ConnStates
         /\ Done(c).pc = "reading" /\ Done(c).act = None
         /\ Done(c).expected = None /\ Done(c).world = conn[c].world
         /\ \A pc \in {"routing", "injecting", "gone"} :
              /\ [conn[c] EXCEPT !.pc = pc] \in ConnStates
              /\ [conn[c] EXCEPT !.pc = pc].world = conn[c].world
<1>1. conn[c] \in ConnStates /\ conn[c].world # None
  BY DEF TypeOK
<1> QED
  BY <1>1 DEF ConnStates, Done

LEMMA TypeStep ==
  ASSUME TypeOK, ReaderFields, [Next]_vars
  PROVE  TypeOK'
<1>1. ASSUME NEW c \in Conns, Connect(c) PROVE TypeOK'
  <2> DEFINE s == [conn[c] EXCEPT !.pc = "reading", !.world = at]
  <2>0. conn[c] \in ConnStates /\ at \in Worlds
    BY DEF TypeOK
  <2>1. s \in ConnStates /\ s.world = at /\ at # None
    BY <2>0, NoneAssumption DEF ConnStates
  <2>2. conn' = [conn EXCEPT ![c] = s]
    BY <1>1 DEF Connect
  <2> QED
    BY <1>1, <2>1, <2>2, ReaderType DEF Connect, history, TypeOK
<1>2. ASSUME NEW c \in Conns, Break(c) PROVE TypeOK'
  BY <1>2, NoneAssumption, ReaderType, ReaderStates DEF Break, history, TypeOK
<1>3. ASSUME NEW c \in Conns, NEW a \in Acts, Repeated(c, a) PROVE TypeOK'
  BY <1>3, BoundsAssumption DEF Repeated, history, TypeOK
<1>4. ASSUME NEW c \in Conns, NEW a \in Acts, NEW w \in Worlds, Receive(c, a, w)
      PROVE  TypeOK'
  <2> DEFINE s == [conn[c] EXCEPT !.pc = "asking", !.act = a, !.expected = w]
  <2>0. conn[c] \in ConnStates
    BY DEF TypeOK
  <2>1. s \in ConnStates /\ s.world = conn[c].world
    BY <2>0 DEF ConnStates
  <2>2. conn' = [conn EXCEPT ![c] = s] /\ conn[c].world # None
    BY <1>4 DEF Receive, TypeOK
  <2>3. [conn |-> c, act |-> a, world |-> w] \in Questions
    BY DEF Questions
  <2>4. sent' \in 0..MaxSends /\ asked' \subseteq Questions
    BY <1>4, <2>3, BoundsAssumption DEF Receive, TypeOK
  <2> QED
    BY <1>4, <2>1, <2>2, <2>4, ReaderType DEF Receive, history, TypeOK
<1>5. ASSUME NEW c \in Conns, AskTimesOut(c) PROVE TypeOK'
  <2>1. conn[c].act \in Acts /\ conn[c].pc # "off"
    BY <1>5 DEF AskTimesOut, ReaderFields, Occupied
  <2>2. /\ conn' \in [Conns -> ConnStates]
        /\ \A d \in Conns : conn'[d].pc # "off" => conn'[d].world # None
    BY <1>5, <2>1, NoneAssumption, ReaderType, ReaderStates DEF AskTimesOut
  <2> QED
    BY <1>5, <2>1, <2>2 DEF AskTimesOut, Accept, TypeOK
<1>6. ASSUME NEW c \in Conns, RouteMismatch(c) PROVE TypeOK'
  BY <1>6, NoneAssumption, ReaderType, ReaderStates
     DEF RouteMismatch, Inject, history, TypeOK
<1>7. ASSUME NEW c \in Conns, RouteToInbox(c) PROVE TypeOK'
  <2>1. conn[c].act \in Acts /\ conn[c].world \in Worlds /\ conn[c].pc # "off"
    BY <1>7, ReaderStates DEF RouteToInbox, ToInbox, ReaderFields, Occupied
  <2>2. Append(inbox[conn[c].world], conn[c].act) \in Seq(Acts)
    BY <2>1, QueueGrows DEF TypeOK
  <2>3. inbox' \in [Worlds -> Seq(Acts)]
    BY <1>7, <2>1, <2>2 DEF RouteToInbox, TypeOK
  <2>4. /\ conn' \in [Conns -> ConnStates]
        /\ \A d \in Conns : conn'[d].pc # "off" => conn'[d].world # None
    BY <1>7, <2>1, NoneAssumption, ReaderType, ReaderStates DEF RouteToInbox
  <2> QED
    BY <1>7, <2>3, <2>4 DEF RouteToInbox, history, TypeOK
<1>8. ASSUME NEW c \in Conns, RouteTimesOut(c) PROVE TypeOK'
  BY <1>8, NoneAssumption, ReaderType, ReaderStates
     DEF RouteTimesOut, ToInbox, Busy, Inject, history, TypeOK
<1>9. ASSUME NEW c \in Conns, NEW w \in Worlds, RouteSwitch(c, w) PROVE TypeOK'
  <2>1. conn[c].act \in Acts /\ conn[c].world \in Worlds
    BY <1>9, ReaderStates DEF RouteSwitch, ReaderFields, Occupied
  <2>2. runs' \in [Worlds -> [Acts -> Nat]]
    <3>1. runs[conn[c].world][conn[c].act] + 1 \in Nat
      BY <2>1 DEF TypeOK
    <3> QED
      BY <1>9, <2>1, <3>1 DEF RouteSwitch, TypeOK
  <2> DEFINE s == [conn[c] EXCEPT !.pc = "injecting", !.world = w]
  <2>0. conn[c] \in ConnStates
    BY DEF TypeOK
  <2>3. s \in ConnStates /\ s.world # None
    BY <2>0, NoneAssumption DEF ConnStates
  <2>4. conn' = [conn EXCEPT ![c] = s]
    BY <1>9 DEF RouteSwitch
  <2>5. /\ conn' \in [Conns -> ConnStates]
        /\ \A d \in Conns : conn'[d].pc # "off" => conn'[d].world # None
    BY <2>3, <2>4, ReaderType
  <2> QED
    BY <1>9, <2>2, <2>5 DEF RouteSwitch, TypeOK
<1>10. ASSUME NEW c \in Conns, RouteSwitchRefused(c) PROVE TypeOK'
  <2> DEFINE s == [conn[c] EXCEPT !.pc = "injecting", !.world = conn[c].world]
  <2>1. s \in ConnStates /\ s.world # None
    BY <1>10, ReaderStates, NoneAssumption DEF RouteSwitchRefused, ConnStates
  <2>2. conn' = [conn EXCEPT ![c] = s]
    BY <1>10 DEF RouteSwitchRefused, NextWorld
  <2> QED
    BY <1>10, <2>1, <2>2, ReaderType DEF RouteSwitchRefused, history, TypeOK
<1>11. ASSUME NEW c \in Conns, InjectTimesOut(c) PROVE TypeOK'
  <2>1. conn[c].act \in Acts /\ conn[c].pc # "off"
    BY <1>11 DEF InjectTimesOut, ReaderFields, Occupied
  <2>2. /\ conn' \in [Conns -> ConnStates]
        /\ \A d \in Conns : conn'[d].pc # "off" => conn'[d].world # None
    BY <1>11, <2>1, NoneAssumption, ReaderType, ReaderStates DEF InjectTimesOut
  <2> QED
    BY <1>11, <2>1, <2>2 DEF InjectTimesOut, TypeOK
<1>12. ASSUME NEW q \in Questions, HandleActDedupe(q) PROVE TypeOK'
  <2>1. q.conn \in Conns /\ q.act \in Acts /\ q.world \in Worlds
    BY DEF Questions
  <2> DEFINE c == q.conn
             waiting == conn[c].pc = "asking" /\ conn[c].act = q.act
  <2>2. /\ conn' \in [Conns -> ConnStates]
        /\ \A d \in Conns : conn'[d].pc # "off" => conn'[d].world # None
    <3>1. CASE ~waiting
      BY <1>12, <3>1 DEF HandleActDedupe, TypeOK
    <3>2. CASE waiting
      <4>1. CASE q.act \in remembered[q.world]
        <5>1. conn' = [conn EXCEPT ![c] = Done(c)]
          BY <1>12, <3>2, <4>1 DEF HandleActDedupe
        <5> QED
          BY <5>1, <3>2, <2>1, NoneAssumption, ReaderType, ReaderStates
      <4>2. CASE q.act \notin remembered[q.world]
        <5>1. conn' = [conn EXCEPT ![c] = [conn[c] EXCEPT !.pc = "routing"]]
          BY <1>12, <3>2, <4>2 DEF HandleActDedupe
        <5> QED
          BY <5>1, <3>2, <2>1, NoneAssumption, ReaderType, ReaderStates
      <4> QED
        BY <4>1, <4>2
    <3> QED
      BY <3>1, <3>2
  <2>3. cached' \in [Conns -> SUBSET Acts] /\ acked' \in SUBSET Acts
    <3>1. cached \in [Conns -> SUBSET Acts] /\ acked \in SUBSET Acts
      BY DEF TypeOK
    <3>2. \/ UNCHANGED <<cached, acked>>
          \/ cached' = [cached EXCEPT ![c] = @ \cup {q.act}] /\ acked' = acked \cup {q.act}
      BY <1>12 DEF HandleActDedupe, Accept
    <3> QED
      BY <2>1, <3>1, <3>2
  <2>4. remembered' \in [Worlds -> SUBSET Acts]
    BY <1>12, <2>1 DEF HandleActDedupe, Remember, TypeOK
  <2> QED
    BY <1>12, <2>2, <2>3, <2>4 DEF HandleActDedupe, TypeOK
<1>13. ASSUME NEW c \in Conns, HandleInject(c) PROVE TypeOK'
  <2>1. conn[c].act \in Acts /\ conn[c].pc # "off"
    BY <1>13 DEF HandleInject, ReaderFields, Occupied
  <2>2. /\ conn' \in [Conns -> ConnStates]
        /\ \A d \in Conns : conn'[d].pc # "off" => conn'[d].world # None
    BY <1>13, <2>1, NoneAssumption, ReaderType, ReaderStates DEF HandleInject
  <2> QED
    BY <1>13, <2>1, <2>2 DEF HandleInject, TypeOK
<1>14. ASSUME NEW w \in Worlds, NEW act \in ActKinds, ApplyAct(w, act)
       PROVE  TypeOK'
  <2>1. Head(inbox[w]) \in Acts /\ Tail(inbox[w]) \in Seq(Acts)
    BY <1>14, QueueShrinks DEF ApplyAct, TypeOK
  <2>2. runs' \in [Worlds -> [Acts -> Nat]]
    <3>1. runs[w][Head(inbox[w])] + 1 \in Nat
      BY <2>1 DEF TypeOK
    <3>2. \/ runs' = runs
          \/ runs' = [runs EXCEPT ![w][Head(inbox[w])] = @ + 1]
      BY <1>14 DEF ApplyAct
    <3>3. runs \in [Worlds -> [Acts -> Nat]]
      BY DEF TypeOK
    <3>4. [runs[w] EXCEPT ![Head(inbox[w])] = @ + 1] \in [Acts -> Nat]
      BY <2>1, <3>1, <3>3
    <3> QED
      BY <3>2, <3>3, <3>4
  <2>3. inbox' \in [Worlds -> Seq(Acts)]
    BY <1>14, <2>1 DEF ApplyAct, TypeOK
  <2>4. results' \in SUBSET Acts /\ astray' \in SUBSET Acts /\ void' \in SUBSET Acts
    <3>1. results \in SUBSET Acts /\ astray \in SUBSET Acts /\ void \in SUBSET Acts
      BY DEF TypeOK
    <3>2. /\ results' = results \/ results' = results \cup {Head(inbox[w])}
          /\ astray' = astray \/ astray' = astray \cup {Head(inbox[w])}
          /\ void' = void \/ void' = void \cup {Head(inbox[w])}
      BY <1>14 DEF ApplyAct
    <3> QED
      BY <2>1, <3>1, <3>2
  <2> QED
    BY <1>14, <2>2, <2>3, <2>4 DEF ApplyAct, TypeOK
<1>15. CASE UNCHANGED vars
  BY <1>15 DEF vars, history, TypeOK
<1> QED
  BY <1>1, <1>2, <1>3, <1>4, <1>5, <1>6, <1>7, <1>8, <1>9, <1>10, <1>11, <1>12,
     <1>13, <1>14, <1>15 DEF Next, Client, Route, TimesOut, Apply, ActKinds

-----------------------------------------------------------------------------
(* Nothing that is carried is dropped                                      *)

\* A queue that only grows, or loses its head, keeps everything else.
LEMMA CarriedStep ==
  ASSUME TypeOK, TypeOK', ReaderFields, [Next]_vars,
         NEW a \in Acts, NEW w \in Worlds, Carried(a, w)
  PROVE  Carried(a, w)'
<1> DEFINE Same == UNCHANGED <<inbox, results, void, untold, astray>>
<1>0. ASSUME NEW c \in Conns, Same,
             \A d \in Conns \ {c} : conn'[d] = conn[d],
             Underway(c, a, w) => Underway(c, a, w)'
      PROVE  Carried(a, w)'
  BY <1>0 DEF Carried, Underway, Queued, Over
<1>1. ASSUME NEW c \in Conns, Connect(c) \/ Break(c) PROVE Carried(a, w)'
  BY <1>0, <1>1 DEF Connect, Break, Underway, history, TypeOK
<1>2. ASSUME NEW c \in Conns, NEW b \in Acts, Repeated(c, b) PROVE Carried(a, w)'
  BY <1>2 DEF Repeated, Carried, Underway, Queued, Over, history
<1>3. ASSUME NEW c \in Conns, NEW b \in Acts, NEW v \in Worlds, Receive(c, b, v)
      PROVE  Carried(a, w)'
  BY <1>0, <1>3 DEF Receive, Underway, history, TypeOK
<1>4. ASSUME NEW c \in Conns, AskTimesOut(c) PROVE Carried(a, w)'
  BY <1>0, <1>4 DEF AskTimesOut, Underway, Accept, TypeOK
<1>5. ASSUME NEW c \in Conns,
             \/ RouteMismatch(c) \/ RouteTimesOut(c) \/ RouteSwitchRefused(c)
             \/ \E v \in Worlds : RouteSwitch(c, v)
      PROVE  Carried(a, w)'
  <2>1. conn[c] \in ConnStates
    BY DEF TypeOK
  <2>2. Underway(c, a, w) => Underway(c, a, w)'
    <3>1. \E v \in Worlds \cup {None} :
            conn' = [conn EXCEPT ![c] = [conn[c] EXCEPT !.pc = "injecting", !.world = v]]
      <4>1. CASE RouteMismatch(c) \/ RouteTimesOut(c)
        <5>1. [conn[c] EXCEPT !.pc = "injecting"]
                = [conn[c] EXCEPT !.pc = "injecting", !.world = conn[c].world]
          BY <2>1 DEF ConnStates
        <5> QED
          BY <2>1, <4>1, <5>1 DEF RouteMismatch, RouteTimesOut, Inject, Busy, ConnStates
      <4>2. CASE RouteSwitchRefused(c)
        <5>1. conn' = [conn EXCEPT ![c] =
                         [conn[c] EXCEPT !.pc = "injecting", !.world = conn[c].world]]
          BY <4>2 DEF RouteSwitchRefused, NextWorld
        <5> QED
          BY <2>1, <5>1 DEF ConnStates
      <4>3. ASSUME NEW v \in Worlds, RouteSwitch(c, v)
            PROVE  conn' = [conn EXCEPT ![c] =
                              [conn[c] EXCEPT !.pc = "injecting", !.world = v]]
        BY <4>3 DEF RouteSwitch
      <4> QED
        BY <1>5, <4>1, <4>2, <4>3
    <3> QED
      BY <2>1, <3>1 DEF Underway, ConnStates, TypeOK
  <2>3. Same /\ \A d \in Conns \ {c} : conn'[d] = conn[d]
    BY <1>5
       DEF RouteMismatch, RouteTimesOut, RouteSwitchRefused, RouteSwitch, Inject, Busy,
           NextWorld, history, TypeOK
  <2> QED
    BY <1>0, <2>2, <2>3
<1>6. ASSUME NEW c \in Conns, RouteToInbox(c) PROVE Carried(a, w)'
  <2> DEFINE v == conn[c].world
             b == conn[c].act
  <2>1. b \in Acts /\ v \in Worlds /\ conn[c].expected = v
    BY <1>6, ReaderStates DEF RouteToInbox, ToInbox, ReaderFields, Occupied
  <2>2. inbox' = [inbox EXCEPT ![v] = Append(inbox[v], b)]
    BY <1>6 DEF RouteToInbox
  <2>3. \A d \in Conns \ {c} : conn'[d] = conn[d]
    BY <1>6 DEF RouteToInbox, TypeOK
  <2>4. Queued(a, w) \/ (a = b /\ w = v) => Queued(a, w)'
    <3>1. inbox[v] \in Seq(Acts) /\ inbox'[v] = Append(inbox[v], b)
      BY <2>1, <2>2 DEF TypeOK
    <3>2. CASE w = v
      <4>1. /\ Len(inbox'[v]) = Len(inbox[v]) + 1 /\ Len(inbox[v]) \in Nat
            /\ inbox'[v][Len(inbox[v]) + 1] = b
            /\ \A i \in 1..Len(inbox[v]) : inbox'[v][i] = inbox[v][i]
        BY <3>1, <2>1, QueueGrows
      <4>2. Len(inbox[v]) + 1 \in 1..Len(inbox'[v])
        BY <4>1
      <4>3. a = b => Queued(a, w)'
        BY <3>2, <4>1, <4>2 DEF Queued
      <4>4. \A i \in 1..Len(inbox[v]) : i \in 1..Len(inbox'[v])
        BY <4>1
      <4>5. Queued(a, w) => Queued(a, w)'
        BY <3>2, <4>1, <4>4 DEF Queued
      <4> QED
        BY <4>3, <4>5
    <3>3. CASE w # v
      BY <2>2, <3>3 DEF Queued, TypeOK
    <3> QED
      BY <3>2, <3>3
  <2>5. Underway(c, a, w) => a = b /\ w = v
    BY <2>1 DEF Underway
  <2> QED
    BY <1>6, <2>3, <2>4, <2>5 DEF RouteToInbox, Carried, Underway, Over, history
<1>7. ASSUME NEW c \in Conns, InjectTimesOut(c) \/ HandleInject(c) PROVE Carried(a, w)'
  <2>1. conn[c].act \in Over'
    BY <1>7 DEF InjectTimesOut, HandleInject, Over
  <2>2. Over \subseteq Over' /\ UNCHANGED inbox
    BY <1>7 DEF InjectTimesOut, HandleInject, Over
  <2>3. \A d \in Conns \ {c} : conn'[d] = conn[d]
    BY <1>7 DEF InjectTimesOut, HandleInject, TypeOK
  <2> QED
    BY <2>1, <2>2, <2>3 DEF Carried, Underway, Queued
<1>8. ASSUME NEW q \in Questions, HandleActDedupe(q) PROVE Carried(a, w)'
  <2>1. \A d \in Conns : conn[d].pc # "asking" => conn'[d] = conn[d]
    BY <1>8 DEF HandleActDedupe, TypeOK, Questions
  <2> QED
    BY <1>8, <2>1 DEF HandleActDedupe, Carried, Underway, Queued, Over
<1>9. ASSUME NEW v \in Worlds, NEW act \in ActKinds, ApplyAct(v, act)
      PROVE  Carried(a, w)'
  <2>1. /\ inbox[v] \in Seq(Acts) /\ inbox[v] # <<>>
        /\ inbox' = [inbox EXCEPT ![v] = Tail(inbox[v])]
    BY <1>9 DEF ApplyAct, TypeOK
  <2>2. Head(inbox[v]) \in Over'
    BY <1>9 DEF ApplyAct, Reported, Over, ActKinds
  <2>3. Over \subseteq Over' /\ UNCHANGED conn
    BY <1>9 DEF ApplyAct, Over
  <2>4. Queued(a, w) => Queued(a, w)' \/ a = Head(inbox[v])
    <3>1. ASSUME NEW i \in 1..Len(inbox[w]), inbox[w][i] = a, w = v, i # 1
          PROVE  Queued(a, w)'
      <4>1. i - 1 \in 1..Len(Tail(inbox[v])) /\ Tail(inbox[v])[i - 1] = a
        BY <2>1, <3>1, QueueShrinks
      <4> QED
        BY <2>1, <3>1, <4>1 DEF Queued, TypeOK
    <3> QED
      BY <2>1, <3>1, QueueShrinks DEF Queued, TypeOK
  <2> QED
    BY <2>2, <2>3, <2>4 DEF Carried, Underway
<1>10. CASE UNCHANGED vars
  BY <1>10 DEF vars, history, Carried, Underway, Queued, Over
<1> QED
  BY <1>1, <1>2, <1>3, <1>4, <1>5, <1>6, <1>7, <1>8, <1>9, <1>10
     DEF Next, Client, Route, TimesOut, Apply, ActKinds

-----------------------------------------------------------------------------
(* The readers and their questions                                         *)

LEMMA FieldsStep ==
  ASSUME TypeOK, ReaderFields, [Next]_vars
  PROVE  ReaderFields'
<1>0. ASSUME NEW c \in Conns,
             \A d \in Conns \ {c} : conn'[d] = conn[d] /\ cached'[d] = cached[d],
             ~Occupied(c)' \/
               /\ Occupied(c) /\ conn'[c].pc # "asking"
               /\ conn'[c].act = conn[c].act /\ conn'[c].expected = conn[c].expected
      PROVE  ReaderFields'
  BY <1>0 DEF ReaderFields, Occupied
<1>1. \A c \in Conns : conn[c] \in ConnStates
  BY DEF TypeOK
<1>2. ASSUME NEW c \in Conns, Connect(c) \/ Break(c) PROVE ReaderFields'
  <2>1. conn'[c].pc \in {"reading", "gone"}
    BY <1>1, <1>2 DEF Connect, Break, ConnStates, TypeOK
  <2>2. \A d \in Conns \ {c} : conn'[d] = conn[d] /\ cached'[d] = cached[d]
    BY <1>2 DEF Connect, Break, TypeOK
  <2> QED
    BY <1>0, <2>1, <2>2 DEF Occupied
<1>3. ASSUME NEW c \in Conns, NEW b \in Acts, Repeated(c, b) PROVE ReaderFields'
  BY <1>3 DEF Repeated, ReaderFields, Occupied
<1>4. ASSUME NEW c \in Conns, NEW b \in Acts, NEW v \in Worlds, Receive(c, b, v)
      PROVE  ReaderFields'
  <2>1. /\ conn'[c].act = b /\ conn'[c].expected = v /\ b \notin cached'[c]
        /\ \A d \in Conns \ {c} : conn'[d] = conn[d] /\ cached'[d] = cached[d]
    BY <1>1, <1>4 DEF Receive, ConnStates, TypeOK
  <2> QED
    BY <2>1 DEF ReaderFields, Occupied
<1>5. ASSUME NEW c \in Conns,
             \/ AskTimesOut(c) \/ RouteMismatch(c) \/ RouteTimesOut(c)
             \/ RouteSwitchRefused(c) \/ \E v \in Worlds : RouteSwitch(c, v)
      PROVE  ReaderFields'
  <2>1. \A d \in Conns \ {c} : conn'[d] = conn[d] /\ cached'[d] = cached[d]
    BY <1>5
       DEF AskTimesOut, RouteMismatch, RouteTimesOut, RouteSwitchRefused, RouteSwitch,
           Accept, Inject, Busy, NextWorld, TypeOK
  <2>2. Occupied(c)
    BY <1>5
       DEF AskTimesOut, RouteMismatch, RouteTimesOut, RouteSwitchRefused, RouteSwitch,
           ToInbox, Occupied
  <2>3. /\ conn'[c].pc # "asking"
        /\ conn'[c].act = conn[c].act /\ conn'[c].expected = conn[c].expected
    BY <1>1, <1>5
       DEF AskTimesOut, RouteMismatch, RouteTimesOut, RouteSwitchRefused, RouteSwitch,
           Inject, Busy, NextWorld, ConnStates, TypeOK
  <2> QED
    BY <1>0, <2>1, <2>2, <2>3
<1>6. ASSUME NEW c \in Conns, RouteToInbox(c) \/ InjectTimesOut(c) \/ HandleInject(c)
      PROVE  ReaderFields'
  <2>1. conn' = [conn EXCEPT ![c] = Done(c)] /\ UNCHANGED cached /\ conn[c].pc # "off"
    BY <1>6 DEF RouteToInbox, ToInbox, InjectTimesOut, HandleInject
  <2> QED
    BY <1>0, <2>1, ReaderStates DEF Occupied, TypeOK
<1>7. ASSUME NEW q \in Questions, HandleActDedupe(q) PROVE ReaderFields'
  <2> DEFINE c == q.conn
             waiting == conn[c].pc = "asking" /\ conn[c].act = q.act
  <2>0. c \in Conns
    BY DEF Questions
  <2>1. CASE ~waiting
    BY <1>7, <2>1 DEF HandleActDedupe, ReaderFields, Occupied
  <2>2. CASE waiting
    <3>1. \A d \in Conns \ {c} : conn'[d] = conn[d] /\ cached'[d] = cached[d]
      BY <1>7, <2>0, <2>2 DEF HandleActDedupe, Accept, TypeOK
    <3>2. \/ conn'[c] = Done(c)
          \/ conn'[c] = [conn[c] EXCEPT !.pc = "routing"]
      <4>1. conn' = [conn EXCEPT ![c] = IF q.act \in remembered[q.world] THEN Done(c)
                                        ELSE [conn[c] EXCEPT !.pc = "routing"]]
        BY <1>7, <2>0, <2>2 DEF HandleActDedupe
      <4> QED
        BY <4>1, <2>0 DEF TypeOK
    <3> QED
      <4>1. CASE conn'[c] = Done(c)
        BY <1>0, <2>0, <2>2, <3>1, <4>1, ReaderStates DEF Occupied
      <4>2. CASE conn'[c] = [conn[c] EXCEPT !.pc = "routing"]
        <5>1. /\ conn'[c].pc = "routing" /\ conn'[c].act = conn[c].act
              /\ conn'[c].expected = conn[c].expected
          BY <1>1, <2>0, <4>2 DEF ConnStates
        <5> QED
          BY <1>0, <2>0, <2>2, <3>1, <5>1 DEF Occupied
      <4> QED
        BY <3>2, <4>1, <4>2
  <2> QED
    BY <2>1, <2>2
<1>8. ASSUME NEW v \in Worlds, NEW act \in ActKinds, ApplyAct(v, act)
      PROVE  ReaderFields'
  BY <1>8 DEF ApplyAct, ReaderFields, Occupied
<1>9. CASE UNCHANGED vars
  BY <1>9 DEF vars, ReaderFields, Occupied
<1> QED
  BY <1>2, <1>3, <1>4, <1>5, <1>6, <1>7, <1>8, <1>9 DEF Next, Client, Route, TimesOut, Apply, ActKinds

LEMMA AskedStep ==
  ASSUME TypeOK, TypeOK', ReaderFields, Asked, [Next]_vars
  PROVE  Asked'
<1>0. ASSUME NEW q \in asked, q.act \in cached[q.conn], Carried(q.act, q.world)
      PROVE  q.act \in cached'[q.conn] /\ Carried(q.act, q.world)'
  <2>1. q.conn \in Conns /\ q.act \in Acts /\ q.world \in Worlds
    BY DEF TypeOK, Questions
  <2>2. \A c \in Conns : cached[c] \subseteq cached'[c]
    <3>1. \/ UNCHANGED cached
          \/ \E c \in Conns, a \in Acts : cached' = [cached EXCEPT ![c] = @ \cup {a}]
      BY DEF Next, Client, Route, TimesOut, Apply, Connect, Break, Repeated, Receive,
             AskTimesOut, RouteMismatch, RouteToInbox, RouteTimesOut, RouteSwitch,
             RouteSwitchRefused, InjectTimesOut, HandleActDedupe, HandleInject, ApplyAct,
             Accept, Questions, ReaderFields, Occupied, vars
    <3> QED
      BY <3>1 DEF TypeOK
  <2> QED
    BY <1>0, <2>1, <2>2, CarriedStep
<1>1. ASSUME UNCHANGED asked,
             \A c \in Conns : conn[c].pc = "asking" => conn'[c] = conn[c]
      PROVE  Asked'
  BY <1>0, <1>1 DEF Asked, TypeOK, Questions
<1>2. ASSUME NEW c \in Conns,
             \/ Connect(c) \/ Break(c) \/ RouteMismatch(c) \/ RouteToInbox(c)
             \/ RouteTimesOut(c) \/ RouteSwitchRefused(c) \/ InjectTimesOut(c)
             \/ HandleInject(c) \/ \E v \in Worlds : RouteSwitch(c, v)
      PROVE  Asked'
  <2>1. UNCHANGED asked /\ conn[c].pc # "asking"
    BY <1>2
       DEF Connect, Break, RouteMismatch, RouteToInbox, ToInbox, RouteTimesOut,
           RouteSwitchRefused, InjectTimesOut, HandleInject, RouteSwitch
  <2>2. \A d \in Conns \ {c} : conn'[d] = conn[d]
    BY <1>2
       DEF Connect, Break, RouteMismatch, RouteToInbox, RouteTimesOut, RouteSwitchRefused,
           InjectTimesOut, HandleInject, RouteSwitch, Inject, Busy, NextWorld, TypeOK
  <2> QED
    BY <1>1, <2>1, <2>2
<1>3. ASSUME NEW c \in Conns, NEW a \in Acts, Repeated(c, a) PROVE Asked'
  BY <1>1, <1>3 DEF Repeated
<1>4. ASSUME NEW c \in Conns, NEW a \in Acts, NEW w \in Worlds, Receive(c, a, w)
      PROVE  Asked'
  <2> DEFINE q0 == [conn |-> c, act |-> a, world |-> w]
  <2>1. /\ conn'[c].pc = "asking" /\ conn'[c].act = a /\ conn'[c].expected = w
        /\ conn[c].pc = "reading" /\ asked' = asked \cup {q0}
        /\ \A d \in Conns \ {c} : conn'[d] = conn[d]
    BY <1>4 DEF Receive, ConnStates, TypeOK
  <2>2. ASSUME NEW q \in asked
        PROVE  \/ /\ conn'[q.conn].pc = "asking"
                  /\ conn'[q.conn].act = q.act /\ conn'[q.conn].expected = q.world
               \/ q.act \in cached'[q.conn] /\ Carried(q.act, q.world)'
    BY <1>0, <2>1 DEF Asked, TypeOK, Questions
  <2> QED
    BY <2>1, <2>2 DEF Asked
<1>5. ASSUME NEW c \in Conns, AskTimesOut(c) PROVE Asked'
  <2> DEFINE a == conn[c].act
             w == conn[c].expected
  <2>1. /\ conn'[c].pc = "routing" /\ conn'[c].act = a /\ conn'[c].expected = w
        /\ conn[c].pc = "asking" /\ asked' \subseteq asked /\ a \in cached'[c]
        /\ \A d \in Conns \ {c} : conn'[d] = conn[d]
    BY <1>5 DEF AskTimesOut, Accept, ConnStates, TypeOK
  <2>2. Carried(a, w)'
    BY <2>1 DEF Carried, Underway
  <2>3. ASSUME NEW q \in asked
        PROVE  \/ /\ conn'[q.conn].pc = "asking"
                  /\ conn'[q.conn].act = q.act /\ conn'[q.conn].expected = q.world
               \/ q.act \in cached'[q.conn] /\ Carried(q.act, q.world)'
    BY <1>0, <2>1, <2>2 DEF Asked, TypeOK, Questions
  <2> QED
    BY <2>1, <2>3 DEF Asked
<1>6. ASSUME NEW p \in Questions, HandleActDedupe(p) PROVE Asked'
  <2> DEFINE c == p.conn
             waiting == conn[c].pc = "asking" /\ conn[c].act = p.act
  <2>1. c \in Conns /\ p \in asked /\ asked' = asked \ {p}
    BY <1>6 DEF HandleActDedupe, Questions
  <2>2. CASE ~waiting
    <3>1. UNCHANGED conn
      BY <1>6, <2>2 DEF HandleActDedupe
    <3> QED
      BY <1>0, <2>1, <3>1 DEF Asked
  <2>3. CASE waiting
    <3>1. \A d \in Conns \ {c} : conn'[d] = conn[d]
      BY <1>6, <2>3 DEF HandleActDedupe, TypeOK
    <3>2. p.world = conn[c].expected
      BY <2>1, <2>3 DEF Asked, ReaderFields
    <3>3. ASSUME NEW q \in asked', q.conn = c
          PROVE  q.act \in cached[c] /\ Carried(q.act, q.world)
      <4>1. q # p /\ q \in asked /\ q \in Questions /\ p \in Questions
        BY <2>1 DEF TypeOK
      <4>2. ~(q.act = p.act /\ q.world = p.world)
        BY <3>3, <4>1 DEF Questions
      <4> QED
        BY <2>3, <3>2, <3>3, <4>1, <4>2 DEF Asked
    <3>4. ASSUME NEW q \in asked', q.conn # c
          PROVE  \/ /\ conn'[q.conn].pc = "asking"
                    /\ conn'[q.conn].act = q.act /\ conn'[q.conn].expected = q.world
                 \/ q.act \in cached[q.conn] /\ Carried(q.act, q.world)
      BY <2>1, <3>1, <3>4 DEF Asked, TypeOK, Questions
    <3> QED
      BY <1>0, <2>1, <3>3, <3>4 DEF Asked
  <2> QED
    BY <2>2, <2>3
<1>7. ASSUME NEW v \in Worlds, NEW act \in ActKinds, ApplyAct(v, act)
      PROVE  Asked'
  BY <1>1, <1>7 DEF ApplyAct
<1>8. CASE UNCHANGED vars
  BY <1>1, <1>8 DEF vars
<1> QED
  BY <1>2, <1>3, <1>4, <1>5, <1>6, <1>7, <1>8 DEF Next, Client, Route, TimesOut, Apply, ActKinds

LEMMA KeptStep ==
  ASSUME TypeOK, TypeOK', ReaderFields, Asked, Kept, [Next]_vars
  PROVE  Kept'
<1>1. ASSUME UNCHANGED remembered PROVE Kept'
  BY <1>1, CarriedStep DEF Kept, TypeOK
<1>2. ASSUME NEW q \in Questions, HandleActDedupe(q) PROVE Kept'
  <2> DEFINE c == q.conn
             waiting == conn[c].pc = "asking" /\ conn[c].act = q.act
  <2>1. /\ c \in Conns /\ q.act \in Acts /\ q.world \in Worlds /\ q \in asked
        /\ remembered' = [remembered EXCEPT ![q.world] = @ \cup {q.act}]
    BY <1>2 DEF HandleActDedupe, Remember, Questions
  <2>2. Carried(q.act, q.world)'
    <3>1. CASE ~waiting
      BY <2>1, <3>1, CarriedStep DEF Asked
    <3>2. CASE waiting /\ q.act \in remembered[q.world]
      BY <2>1, <3>2, CarriedStep DEF Kept
    <3>3. CASE waiting /\ q.act \notin remembered[q.world]
      <4>1. conn[c].expected = q.world
        BY <2>1, <3>3 DEF Asked, ReaderFields
      <4>2. conn'[c] = [conn[c] EXCEPT !.pc = "routing"] /\ conn[c] \in ConnStates
        BY <1>2, <2>1, <3>3 DEF HandleActDedupe, TypeOK
      <4>3. Underway(c, q.act, q.world)'
        BY <3>3, <4>1, <4>2 DEF Underway, ConnStates
      <4> QED
        BY <2>1, <4>3 DEF Carried
    <3> QED
      BY <3>1, <3>2, <3>3
  <2>3. \A w \in Worlds : \A a \in remembered[w] : a \in Acts /\ Carried(a, w)'
    BY CarriedStep DEF Kept, TypeOK
  <2> QED
    BY <2>1, <2>2, <2>3 DEF Kept, TypeOK
<1>3. UNCHANGED remembered \/ \E q \in Questions : HandleActDedupe(q)
  BY DEF Next, Client, Route, TimesOut, Apply, Connect, Break, Repeated, Receive,
         AskTimesOut, RouteMismatch, RouteToInbox, RouteTimesOut, RouteSwitch,
         RouteSwitchRefused, InjectTimesOut, HandleInject, ApplyAct, vars
<1> QED
  BY <1>1, <1>2, <1>3

-----------------------------------------------------------------------------
(* One copy                                                                *)

\* Neither the queues nor the runs change, and no reader starts to route.
LEMMA OneCopyStays ==
  ASSUME TypeOK, NEW a \in Acts, NEW w \in Worlds, OneCopy(a, w),
         UNCHANGED <<inbox, runs>>, remembered[w] \subseteq remembered'[w],
         \A c \in Conns : Routing(c, a, w)' => Routing(c, a, w)
  PROVE  OneCopy(a, w)'
  BY DEF OneCopy, Queued

LEMMA OneCopyStep ==
  ASSUME TypeOK, TypeOK', ReaderFields, Asked, [Next]_vars,
         NEW a \in Acts \ unsure', NEW w \in Worlds, OneCopy(a, w)
  PROVE  OneCopy(a, w)'
<1>0. \A c \in Conns : conn[c] \in ConnStates
  BY DEF TypeOK
<1>n. a \in Acts /\ runs[w][a] \in Nat /\ runs \in [Worlds -> [Acts -> Nat]]
  BY DEF TypeOK
<1>1. ASSUME NEW c \in Conns, Connect(c) \/ Break(c) PROVE OneCopy(a, w)'
  <2>1. conn'[c].pc \in {"reading", "gone"}
    BY <1>0, <1>1 DEF Connect, Break, ConnStates, TypeOK
  <2>2. \A d \in Conns \ {c} : conn'[d] = conn[d]
    BY <1>1 DEF Connect, Break, TypeOK
  <2> QED
    BY <1>1, <2>1, <2>2, OneCopyStays DEF Connect, Break, Routing, history
<1>2. ASSUME NEW c \in Conns, NEW b \in Acts, Repeated(c, b) PROVE OneCopy(a, w)'
  BY <1>2, OneCopyStays DEF Repeated, Routing, history
<1>3. ASSUME NEW c \in Conns, NEW b \in Acts, NEW v \in Worlds, Receive(c, b, v)
      PROVE  OneCopy(a, w)'
  <2>1. conn'[c].pc = "asking"
    BY <1>0, <1>3 DEF Receive, ConnStates, TypeOK
  <2>2. \A d \in Conns \ {c} : conn'[d] = conn[d]
    BY <1>3 DEF Receive, TypeOK
  <2> QED
    <3>1. \A d \in Conns : Routing(d, a, w)' => Routing(d, a, w)
      BY <2>1, <2>2 DEF Routing
    <3> QED
      BY <1>3, <1>n, <3>1, OneCopyStays DEF Receive, history
<1>4. ASSUME NEW c \in Conns, AskTimesOut(c) PROVE OneCopy(a, w)'
  <2>1. conn'[c].act = conn[c].act /\ a # conn[c].act
    BY <1>0, <1>4 DEF AskTimesOut, ConnStates, TypeOK
  <2>2. \A d \in Conns \ {c} : conn'[d] = conn[d]
    BY <1>4 DEF AskTimesOut, TypeOK
  <2> QED
    BY <1>4, <2>1, <2>2, OneCopyStays DEF AskTimesOut, Routing
<1>5. ASSUME NEW c \in Conns,
             \/ RouteMismatch(c) \/ RouteTimesOut(c) \/ RouteSwitchRefused(c)
             \/ InjectTimesOut(c) \/ HandleInject(c)
      PROVE  OneCopy(a, w)'
  <2>1. conn'[c].pc \in {"reading", "injecting"}
    <3>1. CASE RouteMismatch(c) \/ RouteTimesOut(c) \/ RouteSwitchRefused(c)
      BY <1>0, <3>1
         DEF RouteMismatch, RouteTimesOut, RouteSwitchRefused, Inject, Busy, NextWorld,
             ConnStates, TypeOK
    <3>2. CASE InjectTimesOut(c) \/ HandleInject(c)
      <4>1. conn' = [conn EXCEPT ![c] = Done(c)] /\ conn[c].pc # "off"
        BY <3>2 DEF InjectTimesOut, HandleInject
      <4> QED
        BY <4>1, ReaderStates DEF TypeOK
    <3> QED
      BY <1>5, <3>1, <3>2
  <2>2. \A d \in Conns \ {c} : conn'[d] = conn[d]
    BY <1>5
       DEF RouteMismatch, RouteTimesOut, RouteSwitchRefused, InjectTimesOut, HandleInject,
           Inject, Busy, NextWorld, TypeOK
  <2>3. UNCHANGED <<inbox, runs, remembered>>
    BY <1>5
       DEF RouteMismatch, RouteTimesOut, RouteSwitchRefused, InjectTimesOut, HandleInject,
           history
  <2> QED
    BY <2>1, <2>2, <2>3, OneCopyStays DEF Routing
<1>6. ASSUME NEW c \in Conns, RouteToInbox(c) PROVE OneCopy(a, w)'
  <2> DEFINE v == conn[c].world
             b == conn[c].act
  <2>1. b \in Acts /\ v \in Worlds /\ conn[c].expected = v /\ conn[c].pc = "routing"
    BY <1>6, ReaderStates DEF RouteToInbox, ToInbox, ReaderFields, Occupied
  <2>2. /\ inbox[v] \in Seq(Acts) /\ inbox'[v] = Append(inbox[v], b)
        /\ \A u \in Worlds \ {v} : inbox'[u] = inbox[u]
        /\ UNCHANGED <<runs, remembered>>
    BY <1>6, <2>1 DEF RouteToInbox, history, TypeOK
  <2>3. /\ conn'[c].pc = "reading" /\ \A d \in Conns \ {c} : conn'[d] = conn[d]
    BY <1>6, <2>1, ReaderStates DEF RouteToInbox, TypeOK
  <2>4. \A d \in Conns : Routing(d, a, w)' => d # c /\ Routing(d, a, w)
    BY <2>3 DEF Routing
  <2>5. /\ Len(inbox'[v]) = Len(inbox[v]) + 1 /\ Len(inbox[v]) \in Nat
        /\ inbox'[v][Len(inbox[v]) + 1] = b
        /\ \A i \in 1..Len(inbox[v]) : inbox'[v][i] = inbox[v][i]
    BY <2>1, <2>2, QueueGrows
  <2>6. CASE w = v /\ a = b
    <3>1. Routing(c, a, w)
      BY <2>1, <2>6 DEF Routing
    <3>2. ~Queued(a, w) /\ a \in remembered[w] /\ runs[w][a] # 1
      BY <3>1 DEF OneCopy
    <3>3. \A d \in Conns : ~Routing(d, a, w)'
      BY <2>4, <3>1 DEF OneCopy
    <3>4. \A i \in 1..Len(inbox'[w]) : inbox'[w][i] = a => i = Len(inbox[w]) + 1
      BY <2>5, <2>6, <3>2 DEF Queued
    <3> QED
      BY <2>2, <3>2, <3>3, <3>4 DEF OneCopy
  <2>7. CASE w = v /\ a # b
    <3>1. \A i \in 1..Len(inbox'[w]) :
            inbox'[w][i] = a => i \in 1..Len(inbox[w]) /\ inbox[w][i] = a
      BY <2>5, <2>7
    <3>2. Queued(a, w)' => Queued(a, w)
      BY <3>1 DEF Queued
    <3> QED
      BY <2>2, <2>4, <3>1, <3>2 DEF OneCopy
  <2>8. CASE w # v
    BY <2>2, <2>4, <2>8 DEF OneCopy, Queued
  <2> QED
    BY <2>6, <2>7, <2>8
<1>7. ASSUME NEW c \in Conns, NEW v \in Worlds, RouteSwitch(c, v) PROVE OneCopy(a, w)'
  <2> DEFINE u == conn[c].world
             b == conn[c].act
  <2>1. b \in Acts /\ u \in Worlds /\ conn[c].expected = u /\ conn[c].pc = "routing"
    BY <1>7, ReaderStates DEF RouteSwitch, ReaderFields, Occupied
  <2>2. conn'[c].pc = "injecting" /\ \A d \in Conns \ {c} : conn'[d] = conn[d]
    BY <1>0, <1>7 DEF RouteSwitch, ConnStates, TypeOK
  <2>3. \A d \in Conns : Routing(d, a, w)' => d # c /\ Routing(d, a, w)
    BY <2>2 DEF Routing
  <2>4. UNCHANGED <<inbox, remembered>> /\ runs' = [runs EXCEPT ![u][b] = @ + 1]
    BY <1>7 DEF RouteSwitch
  <2>5. CASE w = u /\ a = b
    <3>1. Routing(c, a, w)
      BY <2>1, <2>5 DEF Routing
    <3>2. ~Queued(a, w) /\ a \in remembered[w] /\ runs[w][a] = 0
      BY <1>n, <3>1 DEF OneCopy
    <3>3. \A d \in Conns : ~Routing(d, a, w)'
      BY <2>3, <3>1 DEF OneCopy
    <3>4. runs'[w][a] = 1
      BY <2>1, <2>4, <2>5, <3>2 DEF TypeOK
    <3> QED
      BY <2>4, <3>2, <3>3, <3>4 DEF OneCopy, Queued
  <2>6. CASE w # u \/ a # b
    <3>1. runs'[w][a] = runs[w][a]
      BY <2>1, <2>4, <2>6 DEF TypeOK
    <3> QED
      BY <2>3, <2>4, <3>1 DEF OneCopy, Queued
  <2> QED
    BY <2>5, <2>6
<1>8. ASSUME NEW q \in Questions, HandleActDedupe(q) PROVE OneCopy(a, w)'
  <2> DEFINE c == q.conn
             starts == /\ conn[c].pc = "asking" /\ conn[c].act = q.act
                       /\ q.act \notin remembered[q.world]
  <2>1. /\ c \in Conns /\ q.act \in Acts /\ q.world \in Worlds /\ q \in asked
        /\ remembered' = [remembered EXCEPT ![q.world] = @ \cup {q.act}]
        /\ UNCHANGED <<inbox, runs>>
    BY <1>8 DEF HandleActDedupe, Remember, Questions
  <2>2. CASE ~starts
    <3>1. CASE UNCHANGED conn
      BY <2>1, <3>1, OneCopyStays DEF Routing, TypeOK
    <3>2. CASE conn' = [conn EXCEPT ![c] = Done(c)] /\ conn[c].pc = "asking"
      <4>1. conn'[c].pc = "reading" /\ \A d \in Conns \ {c} : conn'[d] = conn[d]
        BY <2>1, <3>2, ReaderStates DEF TypeOK
      <4> QED
        BY <2>1, <4>1, OneCopyStays DEF Routing, TypeOK
    <3> QED
      BY <1>8, <2>2, <3>1, <3>2 DEF HandleActDedupe
  <2>3. CASE starts
    <3>1. conn[c].expected = q.world
      BY <2>1, <2>3 DEF Asked, ReaderFields
    <3>2. conn' = [conn EXCEPT ![c] = [conn[c] EXCEPT !.pc = "routing"]]
      BY <1>8, <2>3 DEF HandleActDedupe
    <3>3. /\ conn'[c].pc = "routing" /\ conn'[c].act = q.act
          /\ conn'[c].expected = q.world
          /\ \A d \in Conns \ {c} : conn'[d] = conn[d]
      BY <1>0, <2>1, <2>3, <3>1, <3>2 DEF ConnStates, TypeOK
    <3>4. CASE a = q.act /\ w = q.world
      <4>1. /\ runs[w][a] # 1 /\ ~Queued(a, w)
            /\ \A d \in Conns : ~Routing(d, a, w)
        BY <2>3, <3>4 DEF OneCopy
      <4>2. \A d \in Conns : Routing(d, a, w)' => d = c
        BY <3>3, <4>1 DEF Routing
      <4>3. a \in remembered'[w] /\ ~Queued(a, w)'
        BY <2>1, <3>4, <4>1 DEF Queued, TypeOK
      <4> QED
        BY <2>1, <4>1, <4>2, <4>3 DEF OneCopy
    <3>5. CASE a # q.act \/ w # q.world
      <4>1. \A d \in Conns : Routing(d, a, w)' => Routing(d, a, w)
        BY <3>3, <3>5 DEF Routing
      <4>2. remembered[w] \subseteq remembered'[w]
        BY <2>1 DEF TypeOK
      <4> QED
        BY <1>n, <2>1, <4>1, <4>2, OneCopyStays
    <3> QED
      BY <3>4, <3>5
  <2> QED
    BY <2>2, <2>3
<1>9. ASSUME NEW v \in Worlds, NEW act \in ActKinds, ApplyAct(v, act)
      PROVE  OneCopy(a, w)'
  <2> DEFINE q == inbox[v]
  <2>1. /\ q \in Seq(Acts) /\ q # <<>> /\ inbox'[v] = Tail(q)
        /\ \A u \in Worlds \ {v} : inbox'[u] = inbox[u]
        /\ UNCHANGED <<conn, remembered>>
    BY <1>9 DEF ApplyAct, TypeOK
  <2>2. /\ Head(q) \in Acts /\ Head(q) = q[1] /\ Len(q) \in Nat /\ Len(q) >= 1
        /\ Len(Tail(q)) = Len(q) - 1
        /\ \A i \in 1..Len(q) - 1 : Tail(q)[i] = q[i + 1]
    BY <2>1, QueueShrinks
  <2>3. \A d \in Conns : Routing(d, a, w)' <=> Routing(d, a, w)
    BY <2>1 DEF Routing
  <2>4. runs' = runs \/ runs' = [runs EXCEPT ![v][Head(q)] = @ + 1]
    BY <1>9 DEF ApplyAct
  <2>5. ASSUME w = v
        PROVE  /\ inbox[w][1] = Head(q) /\ 1 \in 1..Len(inbox[w])
               /\ \A i \in 1..Len(inbox'[w]) :
                    /\ i + 1 \in 1..Len(inbox[w]) /\ i + 1 # 1
                    /\ inbox'[w][i] = inbox[w][i + 1]
    <3>1. inbox[w] = q /\ inbox'[w] = Tail(q)
      BY <2>1, <2>5
    <3> QED
      BY <2>2, <3>1
  <2>6. CASE w = v /\ a = Head(q)
    <3>1. Queued(a, w)
      BY <2>5, <2>6 DEF Queued
    <3>2. a \in remembered[w] /\ runs[w][a] = 0 /\ \A d \in Conns : ~Routing(d, a, w)
      BY <1>n, <3>1 DEF OneCopy
    <3>3. \A i \in 1..Len(inbox'[w]) : inbox'[w][i] # a
      BY <2>5, <2>6 DEF OneCopy
    <3>4. runs'[w][a] <= 1
      BY <1>n, <2>2, <2>4, <2>6, <3>2
    <3> QED
      BY <2>1, <2>3, <3>2, <3>3, <3>4 DEF OneCopy, Queued
  <2>8. CASE w = v /\ a # Head(q)
    <3>1. runs'[w][a] = runs[w][a]
      BY <1>n, <2>2, <2>4, <2>8
    <3>2. Queued(a, w)' => Queued(a, w)
      BY <2>5, <2>8 DEF Queued
    <3>3. \A i, j \in 1..Len(inbox'[w]) : inbox'[w][i] = a /\ inbox'[w][j] = a => i = j
      <4> SUFFICES ASSUME NEW i \in 1..Len(inbox'[w]), NEW j \in 1..Len(inbox'[w]),
                          inbox'[w][i] = a, inbox'[w][j] = a
                   PROVE  i = j
        OBVIOUS
      <4>1. /\ i + 1 \in 1..Len(inbox[w]) /\ inbox[w][i + 1] = a
            /\ j + 1 \in 1..Len(inbox[w]) /\ inbox[w][j + 1] = a
        BY <2>5, <2>8
      <4>2. \A k, l \in 1..Len(inbox[w]) : inbox[w][k] = a /\ inbox[w][l] = a => k = l
        BY DEF OneCopy
      <4>3. i + 1 = j + 1
        BY ONLY <4>1, <4>2
      <4>4. i \in Int /\ j \in Int
        OBVIOUS
      <4> QED
        BY ONLY <4>3, <4>4
    <3> QED
      BY <2>1, <2>3, <3>1, <3>2, <3>3 DEF OneCopy
  <2>7. CASE w # v
    <3>1. runs'[w][a] = runs[w][a] /\ inbox'[w] = inbox[w]
      BY <2>1, <2>2, <2>4, <2>7 DEF TypeOK
    <3> QED
      BY <2>1, <2>3, <3>1 DEF OneCopy, Queued
  <2> QED
    BY <2>6, <2>7, <2>8
<1>10. CASE UNCHANGED vars
  BY <1>10, OneCopyStays DEF vars, history, Routing
<1> QED
  BY <1>1, <1>2, <1>3, <1>4, <1>5, <1>6, <1>7, <1>8, <1>9, <1>10
     DEF Next, Client, Route, TimesOut, Apply, ActKinds

LEMMA CopiesStep ==
  ASSUME TypeOK, TypeOK', ReaderFields, Asked, Copies, [Next]_vars
  PROVE  Copies'
<1>1. unsure \subseteq unsure'
  BY DEF Next, Client, Route, TimesOut, Apply, Connect, Break, Repeated, Receive,
         AskTimesOut, RouteMismatch, RouteToInbox, RouteTimesOut, RouteSwitch,
         RouteSwitchRefused, InjectTimesOut, HandleActDedupe, HandleInject, ApplyAct,
         vars, history
<1> QED
  BY <1>1, OneCopyStep DEF Copies

-----------------------------------------------------------------------------
(* Nothing goes astray before the first switch                             *)

LEMMA AtHomeStep ==
  ASSUME TypeOK, AtHome, [Next]_vars
  PROVE  AtHome'
<1> SUFFICES ASSUME resumable'
             PROVE  /\ at' = Home /\ astray' = {}
                    /\ \A c \in Conns : conn'[c].pc # "off" => conn'[c].world = Home
                    /\ \A w \in Worlds : inbox'[w] # <<>> => w = Home
  BY DEF AtHome
<1>0. resumable' => resumable /\ at' = at
  BY DEF Next, Client, Route, TimesOut, Apply, Connect, Break, Repeated, Receive,
         AskTimesOut, RouteMismatch, RouteToInbox, RouteTimesOut, RouteSwitch,
         RouteSwitchRefused, InjectTimesOut, HandleActDedupe, HandleInject, ApplyAct, vars
<1>1. /\ at = Home /\ at' = Home /\ astray = {}
      /\ \A c \in Conns : conn[c].pc # "off" => conn[c].world = Home
      /\ \A w \in Worlds : inbox[w] # <<>> => w = Home
  BY <1>0 DEF AtHome
<1>2. astray' = {}
  <2>1. ASSUME NEW c \in Conns, HandleInject(c) PROVE astray' = {}
    BY <1>1, <2>1 DEF HandleInject
  <2>2. ASSUME NEW w \in Worlds, NEW act \in ActKinds, ApplyAct(w, act) PROVE astray' = {}
    BY <1>1, <2>2 DEF ApplyAct
  <2>3. \/ UNCHANGED astray
        \/ \E c \in Conns : HandleInject(c)
        \/ \E w \in Worlds, act \in ActKinds : ApplyAct(w, act)
    BY DEF Next, Client, Route, TimesOut, Apply, Connect, Break, Repeated, Receive,
           AskTimesOut, RouteMismatch, RouteToInbox, RouteTimesOut, RouteSwitch,
           RouteSwitchRefused, InjectTimesOut, HandleActDedupe, vars, history, ActKinds
  <2> QED
    BY <1>1, <2>1, <2>2, <2>3
<1>3. \A c \in Conns : conn'[c].pc # "off" => conn'[c].world = Home
  <2>1. \/ UNCHANGED conn
        \/ \E c \in Conns, r \in ConnStates :
             /\ conn' = [conn EXCEPT ![c] = r]
             /\ r.world = at \/ (conn[c].pc # "off" /\ r.world = conn[c].world)
    <3>1. ASSUME NEW c \in Conns, Connect(c)
          PROVE  \E r \in ConnStates : conn' = [conn EXCEPT ![c] = r] /\ r.world = at
      <4> DEFINE r == [conn[c] EXCEPT !.pc = "reading", !.world = at]
      <4>1. conn[c] \in ConnStates /\ at \in Worlds
        BY DEF TypeOK
      <4>2. r \in ConnStates /\ r.world = at
        BY <4>1 DEF ConnStates
      <4> QED
        BY <3>1, <4>2 DEF Connect
    <3>2. ASSUME NEW c \in Conns, NEW a \in Acts, NEW w \in Worlds, Receive(c, a, w)
          PROVE  \E r \in ConnStates :
                   /\ conn' = [conn EXCEPT ![c] = r]
                   /\ conn[c].pc # "off" /\ r.world = conn[c].world
      <4> DEFINE r == [conn[c] EXCEPT !.pc = "asking", !.act = a, !.expected = w]
      <4>1. conn[c] \in ConnStates
        BY DEF TypeOK
      <4>2. r \in ConnStates /\ r.world = conn[c].world
        BY <4>1 DEF ConnStates
      <4> QED
        BY <3>2, <4>2 DEF Receive
    <3>3. ASSUME NEW c \in Conns,
                 \/ Break(c) \/ AskTimesOut(c) \/ RouteMismatch(c) \/ RouteTimesOut(c)
                 \/ RouteToInbox(c) \/ InjectTimesOut(c) \/ HandleInject(c)
          PROVE  \E r \in ConnStates :
                   /\ conn' = [conn EXCEPT ![c] = r]
                   /\ conn[c].pc # "off" /\ r.world = conn[c].world
      <4>1. conn[c].pc # "off"
        BY <3>3 DEF Break, AskTimesOut, RouteMismatch, RouteTimesOut, RouteToInbox, ToInbox,
                    InjectTimesOut, HandleInject
      <4>2. \/ conn' = [conn EXCEPT ![c] = Done(c)]
            \/ \E pc \in {"routing", "injecting", "gone"} :
                 conn' = [conn EXCEPT ![c] = [conn[c] EXCEPT !.pc = pc]]
        BY <3>3 DEF Break, AskTimesOut, RouteMismatch, RouteTimesOut, RouteToInbox,
                    InjectTimesOut, HandleInject, Inject, Busy
      <4> QED
        BY <4>1, <4>2, ReaderStates
    <3>4. ASSUME NEW c \in Conns, RouteSwitchRefused(c)
          PROVE  \E r \in ConnStates :
                   /\ conn' = [conn EXCEPT ![c] = r]
                   /\ conn[c].pc # "off" /\ r.world = conn[c].world
      <4> DEFINE r == [conn[c] EXCEPT !.pc = "injecting", !.world = conn[c].world]
      <4>1. conn[c] \in ConnStates
        BY DEF TypeOK
      <4>2. r \in ConnStates /\ r.world = conn[c].world
        BY <4>1 DEF ConnStates
      <4> QED
        BY <3>4, <4>2 DEF RouteSwitchRefused, NextWorld
    <3>5. ASSUME NEW q \in Questions, HandleActDedupe(q)
          PROVE  \/ UNCHANGED conn
                 \/ \E r \in ConnStates :
                      /\ q.conn \in Conns /\ conn' = [conn EXCEPT ![q.conn] = r]
                      /\ conn[q.conn].pc # "off" /\ r.world = conn[q.conn].world
      <4> DEFINE c == q.conn
                 waiting == conn[c].pc = "asking" /\ conn[c].act = q.act
      <4>1. c \in Conns
        BY DEF Questions
      <4>2. CASE ~waiting
        BY <3>5, <4>2 DEF HandleActDedupe
      <4>3. CASE waiting
        <5>1. \/ conn' = [conn EXCEPT ![c] = Done(c)]
              \/ conn' = [conn EXCEPT ![c] = [conn[c] EXCEPT !.pc = "routing"]]
          BY <3>5, <4>3 DEF HandleActDedupe
        <5>2. conn[c].pc # "off"
          BY <4>3
        <5> QED
          BY <4>1, <5>1, <5>2, ReaderStates
      <4> QED
        BY <4>2, <4>3
    <3>6. ASSUME NEW c \in Conns, NEW w \in Worlds, RouteSwitch(c, w) PROVE FALSE
      BY <3>6 DEF RouteSwitch
    <3>7. ASSUME \/ UNCHANGED vars
                 \/ \E c \in Conns, a \in Acts : Repeated(c, a)
                 \/ \E w \in Worlds, act \in ActKinds : ApplyAct(w, act)
          PROVE  UNCHANGED conn
      BY <3>7 DEF vars, Repeated, ApplyAct
    <3>8. \/ UNCHANGED conn
          \/ \E c \in Conns :
               \/ Connect(c) \/ Break(c) \/ AskTimesOut(c) \/ RouteMismatch(c)
               \/ RouteTimesOut(c) \/ RouteToInbox(c) \/ InjectTimesOut(c) \/ HandleInject(c)
               \/ RouteSwitchRefused(c)
          \/ \E c \in Conns, a \in Acts, w \in Worlds : Receive(c, a, w)
          \/ \E q \in Questions : HandleActDedupe(q)
      BY <3>6, <3>7 DEF Next, Client, Route, TimesOut, Apply, ActKinds
    <3>9. CASE \E q \in Questions : HandleActDedupe(q)
      BY <3>5, <3>9
    <3> QED
      BY <3>1, <3>2, <3>3, <3>4, <3>8, <3>9
  <2> QED
    BY <1>1, <2>1 DEF TypeOK
<1>4. \A w \in Worlds : inbox'[w] # <<>> => w = Home
  <2>1. ASSUME NEW c \in Conns, RouteToInbox(c)
        PROVE  \A w \in Worlds : inbox'[w] # <<>> => w = Home
    <3>1. conn[c].world = Home
      BY <1>1, <2>1 DEF RouteToInbox, ToInbox
    <3> QED
      BY <1>1, <2>1, <3>1 DEF RouteToInbox, TypeOK
  <2>2. ASSUME NEW v \in Worlds, NEW act \in ActKinds, ApplyAct(v, act)
        PROVE  \A w \in Worlds : inbox'[w] # <<>> => w = Home
    BY <1>1, <2>2 DEF ApplyAct, TypeOK
  <2>3. \/ UNCHANGED inbox
        \/ \E c \in Conns : RouteToInbox(c)
        \/ \E w \in Worlds, act \in ActKinds : ApplyAct(w, act)
    BY DEF Next, Client, Route, TimesOut, Apply, Connect, Break, Repeated, Receive,
           AskTimesOut, RouteMismatch, RouteTimesOut, RouteSwitch, HandleInject,
           RouteSwitchRefused, InjectTimesOut, HandleActDedupe, vars, ActKinds
  <2> QED
    BY <1>1, <2>1, <2>2, <2>3
<1> QED
  BY <1>1, <1>2, <1>3, <1>4

-----------------------------------------------------------------------------
(* Theorems                                                                *)

LEMMA Inductive == Spec => []IInv
<1>1. Init => IInv
  BY InitIInv
<1>2. IInv /\ [Next]_vars => IInv'
  <2> SUFFICES ASSUME IInv, [Next]_vars PROVE IInv'
    OBVIOUS
  <2>1. TypeOK'
    BY TypeStep DEF IInv
  <2> QED
    BY <2>1, FieldsStep, AskedStep, KeptStep, CopiesStep, AtHomeStep DEF IInv
<1> QED
  BY <1>1, <1>2, PTL DEF Spec

\* The connections, queues and memories keep their types, for any acts, worlds
\* and bounds.
THEOREM DeliveryTypeCorrect == Spec => []TypeOK
<1>1. IInv => TypeOK
  BY DEF IInv
<1> QED
  BY <1>1, Inductive, PTL

\* An act whose deduplication was always answered takes effect at most once in
\* a world, on however many connections it is repeated: actDedupe and the ACK
\* cache leave one copy of it.
THEOREM EffectOnce == Spec => []AtMostOnce
<1>1. IInv => AtMostOnce
  BY DEF IInv, Copies, OneCopy, AtMostOnce
<1> QED
  BY <1>1, Inductive, PTL

\* What a world remembers, and therefore swallows, is on its way, has a result or
\* was applied and empty; or the world did not take its result in time, or the
\* agent had left when the ACT was applied or refused (stepInternal,
\* RequestInjectEvent), for which it must have switched worlds before.
THEOREM MemoryHonest == Spec => []NotSwallowed
<1>1. \A a, w : Carried(a, w) => InHands(a, w) \/ Queued(a, w) \/ a \in Over
  BY DEF Carried, Underway, InHands
<1>2. IInv => NotSwallowed
  BY <1>1 DEF IInv, Kept, NotSwallowed, AtHome
<1> QED
  BY <1>2, Inductive, PTL

-----------------------------------------------------------------------------
(* The events of an agent: the inductive invariant                         *)

\* Entries under the numbers their world gave them.
Counted(entries, numbers) ==
  \A i \in 1..Len(entries) :
    entries[i].event \in DOMAIN numbers /\ numbers[entries[i].event] = entries[i].cursor

\* Events whose numbers are the last ones up to c.
Announced(es, c, numbers) ==
  /\ Len(es) <= c
  /\ \A i \in 1..Len(es) : es[i] \in DOMAIN numbers /\ numbers[es[i]] = c - Len(es) + i

Truthful(m, numbers) ==
  /\ m.type = "OBS" => Announced(m.events, m.cursor, numbers)
  /\ m.type = "EVENT_BATCH" => Counted(m.items, numbers)

Labels ==
  /\ Counted(log, number) /\ Counted(ring, number) /\ Counted(got, number)
  /\ Announced(events, cursor, number)
  /\ \A i \in 1..Len(out) : Truthful(out[i], number)

\* Entries with growing cursors, all of them after b and up to c.
Within(entries, b, c) ==
  /\ b <= c
  /\ \A i \in 1..Len(entries) : b < entries[i].cursor /\ entries[i].cursor <= c
  /\ \A i, j \in 1..Len(entries) : i < j => entries[i].cursor < entries[j].cursor

\* Nothing between two cursors is missing from the entries.
Complete(entries, b, c, missing) ==
  \A e \in Nat : b < e /\ e <= c => e \in Names(entries) \cup missing

\* An event is in the log, and in one of the places between the log and the
\* caller, unless it fell out of one.
Contents(messages) == UNION {CarriedEvents(messages[i]) : i \in DOMAIN messages}
Held ==
  \A e \in DOMAIN number :
    /\ e \in Names(log) \cup gone
    /\ e \in Names(ring) \cup Contents(out) \cup Elements(events) \cup gone

\* The events of OBS messages follow one another, behind those of the ring and
\* ahead of those not yet sent.
IsObs(m) == m.type = "OBS"
Chained ==
  /\ last + Len(events) <= cursor
  /\ \A i \in 1..Len(out) : IsObs(out[i]) =>
       /\ last + Len(out[i].events) <= out[i].cursor
       /\ out[i].cursor + Len(events) <= cursor
  /\ \A i, j \in 1..Len(out) : i < j /\ IsObs(out[i]) /\ IsObs(out[j]) =>
       out[i].cursor + Len(out[j].events) <= out[j].cursor

\* A call waits for the answer to its request, which goes on where the caller
\* is.
WaitsFor(call, req) == call # NoPoll /\ call.req = req
Fits(items, next, b, c, missing) ==
  Within(items, b, next) /\ next <= c /\ Complete(items, b, next, missing)
Awaited ==
  /\ poll # NoPoll => poll.since = since /\ poll.req <= polls
  /\ \A i \in 1..Len(requests) :
       /\ requests[i].req <= polls
       /\ WaitsFor(poll, requests[i].req) => requests[i].since = since
  /\ \A i \in 1..Len(out) : ~IsObs(out[i]) =>
       /\ out[i].req <= polls
       /\ WaitsFor(poll, out[i].req) => Fits(out[i].items, out[i].next, since, cursor, gone)

\* While the agent stays in its world.
Stays ==
  /\ cursor = Len(number) /\ \A e \in DOMAIN number : number[e] = e
  /\ Within(log, 0, cursor) /\ Within(ring, 0, last) /\ Within(got, 0, since)
  /\ since <= cursor /\ Complete(got, 0, since, gone)
  /\ Held /\ Chained /\ Awaited

EventInv ==
  /\ LogTypeOK /\ Len(number) <= MaxEvents
  /\ Labels
  /\ moves = 0 => Stays

-----------------------------------------------------------------------------
(* Entries                                                                 *)

\* The least number principle.
LEMMA Least ==
  ASSUME NEW T \in SUBSET Nat, T # {}
  PROVE  \E x \in T : \A y \in T : x <= y
<1>1. PICK x \in T : \A y \in T : ~(<<y, x>> \in OpToRel(<, Nat))
  BY NatLessThanWellFounded, WFMin
<1>2. \A y \in T : ~(y < x)
  BY <1>1, Zenon DEF OpToRel
<1> QED
  BY <1>2

\* f collects, entry by entry, those after c among the first m.
Collects(f, m, entries, c, limit) ==
  f = [n \in 0..m |->
         IF n = 0 THEN <<>>
         ELSE IF entries[n].cursor > c /\ Len(f[n - 1]) < limit
         THEN Append(f[n - 1], entries[n])
         ELSE f[n - 1]]

LEMMA CollectExists ==
  ASSUME NEW entries, NEW c, NEW limit, NEW m \in Nat
  PROVE  \E f : Collects(f, m, entries, c, limit)
<1> DEFINE T == {n \in Nat : ~\E f : Collects(f, n, entries, c, limit)}
           More(s, n) == IF entries[n].cursor > c /\ Len(s) < limit
                         THEN Append(s, entries[n]) ELSE s
<1>0. ASSUME NEW f, NEW n
      PROVE  Collects(f, n, entries, c, limit)
             <=> f = [k \in 0..n |-> IF k = 0 THEN <<>> ELSE More(f[k - 1], k)]
  BY DEF Collects
<1>1. SUFFICES ASSUME T # {} PROVE FALSE
  OBVIOUS
<1>2. PICK n \in T : \A k \in T : n <= k
  <2> HIDE DEF T
  <2>1. T \in SUBSET Nat
    BY DEF T
  <2> QED
    BY <1>1, <2>1, Least
<1>3. n \in Nat /\ ~\E f : Collects(f, n, entries, c, limit)
  OBVIOUS
<1> HIDE DEF More
<1>4. CASE n = 0
  <2> DEFINE f == [k \in 0..0 |-> <<>>]
  <2>1. f = [k \in 0..0 |-> IF k = 0 THEN <<>> ELSE More(f[k - 1], k)]
    OBVIOUS
  <2>2. Collects(f, 0, entries, c, limit)
    BY <2>1, <1>0
  <2> QED
    BY <2>2, <1>3, <1>4
<1>5. CASE n # 0
  <2>1. n - 1 \in Nat /\ n - 1 \notin T
    BY <1>2, <1>3, <1>5
  <2>2. PICK g : Collects(g, n - 1, entries, c, limit)
    BY <2>1
  <2>0. g = [k \in 0..n - 1 |-> IF k = 0 THEN <<>> ELSE More(g[k - 1], k)]
    BY <2>2, <1>0
  <2> DEFINE f == [k \in 0..n |-> IF k = n THEN More(g[n - 1], n) ELSE g[k]]
  <2>3. ASSUME NEW k \in 0..n
        PROVE  f[k] = IF k = 0 THEN <<>> ELSE More(f[k - 1], k)
    <3>1. CASE k = n
      <4>1. n - 1 \in 0..n /\ n - 1 # n
        BY <1>3, <1>5
      <4>2. f[n - 1] = g[n - 1]
        BY <4>1
      <4> QED
        BY <3>1, <4>2, <1>5
    <3>2. CASE k # n
      <4>1. k \in 0..n - 1
        BY <3>2, <1>3
      <4>2. g[k] = IF k = 0 THEN <<>> ELSE More(g[k - 1], k)
        BY <2>0, <4>1
      <4>3. k # 0 => k - 1 \in 0..n /\ k - 1 # n
        BY <4>1, <1>3
      <4>4. k # 0 => f[k - 1] = g[k - 1]
        BY <4>3
      <4> QED
        BY <3>2, <4>2, <4>4
    <3> QED
      BY <3>1, <3>2
  <2>4. f = [k \in 0..n |-> IF k = 0 THEN <<>> ELSE More(f[k - 1], k)]
    BY <2>3
  <2>5. Collects(f, n, entries, c, limit)
    BY <2>4, <1>0
  <2> QED
    BY <2>5, <1>3
<1> QED
  BY <1>4, <1>5

LEMMA Collected ==
  ASSUME NEW entries, Len(entries) \in Nat, NEW c, NEW limit
  PROVE  \E f : /\ Collects(f, Len(entries), entries, c, limit)
                /\ After(entries, c, limit) = f[Len(entries)]
<1> DEFINE f == CHOOSE f : f = [n \in 0..Len(entries) |->
                     IF n = 0 THEN <<>>
                     ELSE IF entries[n].cursor > c /\ Len(f[n - 1]) < limit
                     THEN Append(f[n - 1], entries[n])
                     ELSE f[n - 1]]
<1>1. After(entries, c, limit) = f[Len(entries)]
  BY DEF After
<1>2. \E g : g = [n \in 0..Len(entries) |->
                     IF n = 0 THEN <<>>
                     ELSE IF entries[n].cursor > c /\ Len(g[n - 1]) < limit
                     THEN Append(g[n - 1], entries[n])
                     ELSE g[n - 1]]
  <2>1. \E g : Collects(g, Len(entries), entries, c, limit)
    BY CollectExists
  <2> QED
    BY <2>1 DEF Collects
<1>3. f = [n \in 0..Len(entries) |->
                     IF n = 0 THEN <<>>
                     ELSE IF entries[n].cursor > c /\ Len(f[n - 1]) < limit
                     THEN Append(f[n - 1], entries[n])
                     ELSE f[n - 1]]
  BY <1>2
<1> QED
  BY <1>1, <1>3 DEF Collects

\* What the first n entries yield: those after c, in their order, and all of
\* them unless the limit is reached by earlier ones.
Gathers(items, n, entries, c, limit) ==
  /\ items \in Seq(Entry) /\ Len(items) <= limit
  /\ \A k \in 1..Len(items) : \E i \in 1..n : items[k] = entries[i] /\ entries[i].cursor > c
  /\ \A k, l \in 1..Len(items) : k < l =>
       \E i, j \in 1..n : i < j /\ items[k] = entries[i] /\ items[l] = entries[j]
  /\ \A i \in 1..n : entries[i].cursor > c =>
       \/ \E k \in 1..Len(items) : items[k] = entries[i]
       \/ /\ Len(items) = limit
          /\ \A k \in 1..Len(items) : \E j \in 1..i - 1 : items[k] = entries[j]

LEMMA GatherAppend ==
  ASSUME NEW entries \in Seq(Entry), NEW c \in Nat, NEW limit \in Nat, NEW n \in 1..Len(entries),
         NEW items, Gathers(items, n - 1, entries, c, limit),
         entries[n].cursor > c, Len(items) < limit
  PROVE  Gathers(Append(items, entries[n]), n, entries, c, limit)
<1>1. items \in Seq(Entry) /\ Len(items) \in Nat /\ entries[n] \in Entry /\ n \in Nat
  BY ElementOfSeq, LenProperties DEF Gathers
<1> DEFINE more == Append(items, entries[n])
<1>2. /\ more \in Seq(Entry) /\ Len(more) = Len(items) + 1
      /\ \A k \in 1..Len(items) : more[k] = items[k]
      /\ more[Len(items) + 1] = entries[n]
  BY <1>1
<1> HIDE DEF more
<1>3. ASSUME NEW k \in 1..Len(more)
      PROVE  \E i \in 1..n : more[k] = entries[i] /\ entries[i].cursor > c
  <2>1. CASE k = Len(items) + 1
    BY <2>1, <1>1, <1>2
  <2>2. CASE k \in 1..Len(items)
    <3>1. PICK i \in 1..n - 1 : items[k] = entries[i] /\ entries[i].cursor > c
      BY <2>2 DEF Gathers
    <3> QED
      BY <3>1, <2>2, <1>1, <1>2
  <2> QED
    BY <2>1, <2>2, <1>1, <1>2
<1>4. ASSUME NEW k \in 1..Len(more), NEW l \in 1..Len(more), k < l
      PROVE  \E i, j \in 1..n : i < j /\ more[k] = entries[i] /\ more[l] = entries[j]
  <2>0. k \in 1..Len(items)
    BY <1>1, <1>2, <1>4
  <2>1. CASE l = Len(items) + 1
    <3>1. PICK i \in 1..n - 1 : items[k] = entries[i]
      BY <2>0 DEF Gathers
    <3>2. i \in 1..n /\ n \in 1..n /\ i < n
      BY <1>1
    <3> QED
      BY <3>1, <3>2, <2>0, <2>1, <1>2
  <2>2. CASE l \in 1..Len(items)
    <3>1. PICK i \in 1..n - 1, j \in 1..n - 1 : i < j /\ items[k] = entries[i] /\ items[l] = entries[j]
      BY <2>0, <2>2, <1>4 DEF Gathers
    <3>2. i \in 1..n /\ j \in 1..n
      BY <1>1
    <3> QED
      BY <3>1, <3>2, <2>0, <2>2, <1>2
  <2> QED
    BY <2>1, <2>2, <1>1, <1>2
<1>5. ASSUME NEW i \in 1..n, entries[i].cursor > c
      PROVE  \E k \in 1..Len(more) : more[k] = entries[i]
  <2>0. Len(items) + 1 \in 1..Len(more) /\ \A k \in 1..Len(items) : k \in 1..Len(more)
    BY <1>1, <1>2
  <2>1. CASE i = n
    BY <2>0, <2>1, <1>2
  <2>2. CASE i # n
    <3>1. i \in 1..n - 1
      BY <2>2, <1>1
    <3>2. PICK k \in 1..Len(items) : items[k] = entries[i]
      <4>1. Len(items) # limit
        BY <1>1
      <4> QED
        BY <3>1, <4>1, <1>5 DEF Gathers
    <3> QED
      BY <3>2, <2>0, <1>2
  <2> QED
    BY <2>1, <2>2
<1>6. Len(more) <= limit
  BY <1>1, <1>2
<1> QED
  BY <1>2, <1>3, <1>4, <1>5, <1>6 DEF Gathers, more

LEMMA GatherSkip ==
  ASSUME NEW entries \in Seq(Entry), NEW c \in Nat, NEW limit \in Nat, NEW n \in 1..Len(entries),
         NEW items, Gathers(items, n - 1, entries, c, limit),
         ~(entries[n].cursor > c /\ Len(items) < limit)
  PROVE  Gathers(items, n, entries, c, limit)
<1>1. items \in Seq(Entry) /\ Len(items) \in Nat /\ n \in Nat /\ \A i \in 1..n - 1 : i \in 1..n
  BY LenProperties DEF Gathers
<1>2. \A k \in 1..Len(items) : \E i \in 1..n : items[k] = entries[i] /\ entries[i].cursor > c
  BY <1>1 DEF Gathers
<1>3. \A k, l \in 1..Len(items) : k < l =>
        \E i, j \in 1..n : i < j /\ items[k] = entries[i] /\ items[l] = entries[j]
  BY <1>1 DEF Gathers
<1>4. ASSUME NEW i \in 1..n, entries[i].cursor > c
      PROVE  \/ \E k \in 1..Len(items) : items[k] = entries[i]
             \/ /\ Len(items) = limit
                /\ \A k \in 1..Len(items) : \E j \in 1..i - 1 : items[k] = entries[j]
  <2>1. CASE i = n
    <3>1. Len(items) = limit
      BY <2>1, <1>1, <1>4 DEF Gathers
    <3> QED
      BY <3>1, <2>1 DEF Gathers
  <2>2. CASE i # n
    <3>1. i \in 1..n - 1
      BY <2>2, <1>1
    <3> QED
      BY <3>1, <1>4 DEF Gathers
  <2> QED
    BY <2>1, <2>2
<1> QED
  BY <1>1, <1>2, <1>3, <1>4 DEF Gathers

LEMMA AfterGathers ==
  ASSUME NEW entries \in Seq(Entry), NEW c \in Nat, NEW limit \in Nat
  PROVE  Gathers(After(entries, c, limit), Len(entries), entries, c, limit)
<1> DEFINE m == Len(entries)
<1>0. m \in Nat
  BY LenProperties
<1>1. PICK f : Collects(f, m, entries, c, limit) /\ After(entries, c, limit) = f[m]
  BY <1>0, Collected
<1> DEFINE T == {n \in 0..m : ~Gathers(f[n], n, entries, c, limit)}
<1>2. SUFFICES ASSUME T # {} PROVE FALSE
  BY <1>0, <1>1
<1>3. PICK n \in T : \A k \in T : n <= k
  <2> HIDE DEF T
  <2>1. T \in SUBSET Nat
    BY <1>0 DEF T
  <2> QED
    BY <1>2, <2>1, Least
<1>4. n \in 0..m /\ ~Gathers(f[n], n, entries, c, limit)
  OBVIOUS
<1>5. n # 0
  <2>1. f[0] = <<>>
    BY <1>0, <1>1 DEF Collects
  <2>2. Gathers(<<>>, 0, entries, c, limit)
    BY DEF Gathers
  <2> QED
    BY <2>1, <2>2, <1>4
<1>6. n \in 1..m /\ n - 1 \in 0..m /\ n - 1 \notin T
  BY <1>0, <1>3, <1>4, <1>5
<1>7. Gathers(f[n - 1], n - 1, entries, c, limit)
  BY <1>6
<1>8. f[n] = IF entries[n].cursor > c /\ Len(f[n - 1]) < limit
             THEN Append(f[n - 1], entries[n]) ELSE f[n - 1]
  BY <1>1, <1>4, <1>5 DEF Collects
<1> HIDE DEF T
<1>9. CASE entries[n].cursor > c /\ Len(f[n - 1]) < limit
  <2>1. f[n] = Append(f[n - 1], entries[n])
    BY <1>8, <1>9
  <2>2. Gathers(Append(f[n - 1], entries[n]), n, entries, c, limit)
    BY <1>6, <1>7, <1>9, GatherAppend
  <2> QED
    BY <2>1, <2>2, <1>4
<1>10. CASE ~(entries[n].cursor > c /\ Len(f[n - 1]) < limit)
  <2>1. f[n] = f[n - 1]
    BY <1>8, <1>10
  <2>2. Gathers(f[n - 1], n, entries, c, limit)
    BY <1>6, <1>7, <1>10, GatherSkip
  <2> QED
    BY <2>1, <2>2, <1>4
<1> QED
  BY <1>9, <1>10

LEMMA EntryTypes ==
  ASSUME NEW entries \in Seq(Entry)
  PROVE  /\ Len(entries) \in Nat /\ DOMAIN entries = 1..Len(entries)
         /\ \A i \in 1..Len(entries) :
              entries[i].cursor \in Nat /\ entries[i].event \in 1..MaxEvents
<1>1. \A i \in 1..Len(entries) : entries[i] \in Entry
  BY ElementOfSeq
<1>2. \A e \in Entry : e.cursor \in Nat /\ e.event \in 1..MaxEvents
  BY DEF Entry
<1> QED
  BY <1>1, <1>2, LenProperties

\* The answer to a caller: entries of the log, growing from its cursor to the
\* one it is told to go on with, and all the log has in between.
LEMMA AnswerType ==
  ASSUME NEW entries \in Seq(Entry), NEW c \in Nat, NEW limit \in Nat
  PROVE  /\ After(entries, c, limit) \in Seq(Entry)
         /\ NextCursor(After(entries, c, limit), c) \in Nat
<1>1. PICK items : items = After(entries, c, limit)
  OBVIOUS
<1>0. Gathers(items, Len(entries), entries, c, limit)
  BY <1>1, AfterGathers
<1>2. items \in Seq(Entry)
  BY <1>0 DEF Gathers
<1>3. CASE items = <<>>
  BY <1>1, <1>2, <1>3 DEF NextCursor
<1>4. CASE items # <<>>
  <2>1. Len(items) \in 1..Len(items)
    BY <1>2, <1>4, EmptySeq
  <2>2. items[Len(items)] \in Entry
    BY <2>1, <1>2, ElementOfSeq
  <2> QED
    BY <2>2, <1>1, <1>2, <1>4 DEF NextCursor, Entry
<1> QED
  BY <1>3, <1>4

LEMMA AnswerCounted ==
  ASSUME NEW entries \in Seq(Entry), NEW c \in Nat, NEW limit \in Nat, NEW numbers, Counted(entries, numbers)
  PROVE  Counted(After(entries, c, limit), numbers)
<1>1. PICK items : items = After(entries, c, limit)
  OBVIOUS
<1>0. Gathers(items, Len(entries), entries, c, limit)
  BY <1>1, AfterGathers
<1>2. /\ items \in Seq(Entry)
      /\ \A k \in 1..Len(items) : \E i \in 1..Len(entries) : items[k] = entries[i]
  BY <1>0 DEF Gathers
<1>3. DOMAIN items = 1..Len(items) /\ DOMAIN entries = 1..Len(entries)
  BY <1>2, LenProperties
<1> QED
  BY <1>1, <1>2, <1>3 DEF Counted

LEMMA AnswerWithin ==
  ASSUME NEW entries \in Seq(Entry), NEW c \in Nat, NEW limit \in Nat,
         NEW b, NEW d \in Nat, Within(entries, b, d)
  PROVE  LET items == After(entries, c, limit)
             next == NextCursor(items, c)
         IN  Within(items, c, next) /\ (next <= d \/ next = c)
<1>1. PICK items : items = After(entries, c, limit)
  OBVIOUS
<1>0. Gathers(items, Len(entries), entries, c, limit)
  BY <1>1, AfterGathers
<1>2. items \in Seq(Entry) /\ Len(items) \in Nat
  BY <1>0, LenProperties DEF Gathers
<1>3. /\ DOMAIN items = 1..Len(items) /\ DOMAIN entries = 1..Len(entries)
      /\ \A k \in 1..Len(items) : items[k].cursor \in Nat
  BY <1>2, EntryTypes
<1>4. \A k \in 1..Len(items) : c < items[k].cursor /\ items[k].cursor <= d
  <2>1. \A k \in 1..Len(items) : \E i \in 1..Len(entries) : items[k] = entries[i] /\ entries[i].cursor > c
    BY <1>0 DEF Gathers
  <2>2. \A i \in 1..Len(entries) : entries[i].cursor \in Nat /\ entries[i].cursor <= d
    BY <1>3, EntryTypes DEF Within
  <2> QED
    BY <2>1, <2>2
<1>5. ASSUME NEW k \in 1..Len(items), NEW l \in 1..Len(items), k < l
      PROVE  items[k].cursor < items[l].cursor
  <2>1. PICK i \in 1..Len(entries), j \in 1..Len(entries) :
          i < j /\ items[k] = entries[i] /\ items[l] = entries[j]
    BY <1>0, <1>5 DEF Gathers
  <2> QED
    BY <2>1, <1>3 DEF Within
<1>6. CASE items = <<>>
  BY <1>1, <1>2, <1>3, <1>6 DEF NextCursor, Within
<1>7. CASE items # <<>>
  <2>1. Len(items) \in 1..Len(items)
    BY <1>2, <1>7, EmptySeq
  <2>2. NextCursor(items, c) = items[Len(items)].cursor
    BY <1>7 DEF NextCursor
  <2>3. \A k \in 1..Len(items) : items[k].cursor <= items[Len(items)].cursor
    BY <2>1, <1>2, <1>3, <1>5
  <2> QED
    BY <2>1, <2>2, <2>3, <1>1, <1>3, <1>4, <1>5 DEF Within
<1> QED
  BY <1>6, <1>7

\* Nothing the log has up to the next cursor is skipped.
LEMMA AnswerWhole ==
  ASSUME NEW entries \in Seq(Entry), NEW c \in Nat, NEW limit \in Nat \ {0},
         NEW b, NEW d \in Nat, Within(entries, b, d), NEW i \in 1..Len(entries),
         c < entries[i].cursor,
         entries[i].cursor <= NextCursor(After(entries, c, limit), c)
  PROVE  entries[i].event \in Names(After(entries, c, limit))
<1>1. PICK items : items = After(entries, c, limit)
  OBVIOUS
<1>0. Gathers(items, Len(entries), entries, c, limit)
  BY <1>1, AfterGathers
<1>2. items \in Seq(Entry) /\ Len(items) \in Nat
  BY <1>0, LenProperties DEF Gathers
<1>3. /\ DOMAIN items = 1..Len(items) /\ DOMAIN entries = 1..Len(entries)
      /\ \A k \in 1..Len(items) : items[k].cursor \in Nat
      /\ \A k \in 1..Len(entries) : entries[k].cursor \in Nat
  BY <1>2, EntryTypes
<1>4. \E k \in 1..Len(items) : items[k] = entries[i]
  <2>1. SUFFICES ASSUME Len(items) = limit,
                        \A k \in 1..Len(items) : \E j \in 1..i - 1 : items[k] = entries[j]
                 PROVE  FALSE
    BY <1>0, <1>3 DEF Gathers
  <2>2. Len(items) \in 1..Len(items) /\ items # <<>>
    BY <2>1, <1>2
  <2>3. PICK j \in 1..i - 1 : items[Len(items)] = entries[j]
    BY <2>1, <2>2
  <2>4. j \in 1..Len(entries) /\ j < i /\ i \in Nat /\ j \in Nat
    OBVIOUS
  <2>5. entries[j].cursor < entries[i].cursor
    BY <2>4, <1>3 DEF Within
  <2>6. NextCursor(items, c) = entries[j].cursor
    BY <2>2, <2>3 DEF NextCursor
  <2> QED
    BY <2>4, <2>5, <2>6, <1>1, <1>3
<1> QED
  BY <1>1, <1>3, <1>4 DEF Names

-----------------------------------------------------------------------------
(* Logs and the channel                                                    *)

LEMMA NamesType ==
  ASSUME NEW entries \in Seq(Entry)
  PROVE  Names(entries) \subseteq 1..MaxEvents
  BY EntryTypes DEF Names

LEMMA NamesIn ==
  ASSUME NEW entries \in Seq(Entry), NEW i \in 1..Len(entries)
  PROVE  entries[i].event \in Names(entries)
  BY EntryTypes DEF Names

\* What a log keeps is the end of what it had.
LEMMA TrimEnd ==
  ASSUME Sizes, NEW entries \in Seq(Entry)
  PROVE  /\ Trim(entries) \in Seq(Entry) /\ Len(Trim(entries)) <= LogCap
         /\ \E k \in Nat : \A i \in 1..Len(Trim(entries)) :
              i + k \in 1..Len(entries) /\ Trim(entries)[i] = entries[i + k]
<1> DEFINE n == Len(entries)
           m == IF n > LogCap THEN n - LogCap + 1 ELSE 1
<1>1. n \in Nat /\ LogCap \in Nat \ {0} /\ m \in Nat \ {0} /\ m <= n + 1 /\ n - m + 1 <= LogCap
  BY LenProperties DEF Sizes
<1>2. Trim(entries) = SubSeq(entries, m, n)
  BY DEF Trim
<1> HIDE DEF m
<1>3. \A i \in m..n : entries[i] \in Entry
  BY <1>1, ElementOfSeq
<1>4. /\ SubSeq(entries, m, n) \in Seq(Entry)
      /\ Len(SubSeq(entries, m, n)) = IF m <= n THEN n - m + 1 ELSE 0
      /\ \A i \in 1..n - m + 1 : SubSeq(entries, m, n)[i] = entries[m + i - 1]
  <2> HIDE DEF n
  <2>1. m \in Int /\ n \in Int
    BY <1>1
  <2> QED
    BY <1>3, <2>1, SubSeqProperties
<1>5. Len(SubSeq(entries, m, n)) = n - m + 1
  BY <1>1, <1>4
<1>6. \A i \in 1..n - m + 1 : i + (m - 1) \in 1..n /\ m + i - 1 = i + (m - 1)
  BY <1>1
<1>7. m - 1 \in Nat
  BY <1>1
<1> HIDE DEF n
<1> QED
  BY <1>1, <1>2, <1>4, <1>5, <1>6, <1>7 DEF n

LEMMA TrimCounted ==
  ASSUME Sizes, NEW entries \in Seq(Entry), NEW numbers, Counted(entries, numbers)
  PROVE  Counted(Trim(entries), numbers)
  BY TrimEnd DEF Counted

LEMMA TrimWithin ==
  ASSUME Sizes, NEW entries \in Seq(Entry), NEW b, NEW c, Within(entries, b, c)
  PROVE  Within(Trim(entries), b, c)
<1>1. PICK t : t = Trim(entries)
  OBVIOUS
<1>2. t \in Seq(Entry) /\ Len(t) \in Nat /\ Len(entries) \in Nat
  BY <1>1, TrimEnd, LenProperties
<1>3. PICK k \in Nat : \A i \in 1..Len(t) : i + k \in 1..Len(entries) /\ t[i] = entries[i + k]
  BY <1>1, TrimEnd
<1>4. \A i, j \in 1..Len(t) : i < j => t[i].cursor < t[j].cursor
  <2> SUFFICES ASSUME NEW i \in 1..Len(t), NEW j \in 1..Len(t), i < j
               PROVE  t[i].cursor < t[j].cursor
    OBVIOUS
  <2>1. i + k < j + k /\ i + k \in 1..Len(entries) /\ j + k \in 1..Len(entries)
    BY <1>2, <1>3
  <2> QED
    BY <2>1, <1>3 DEF Within
<1> QED
  BY <1>1, <1>3, <1>4 DEF Within

LEMMA Kinds ==
  ASSUME NEW m \in Obs \cup Batch
  PROVE  /\ IsObs(m) => /\ m \in Obs /\ m.events \in Seq(1..MaxEvents) /\ m.cursor \in Nat
                        /\ Len(m.events) \in Nat
         /\ ~IsObs(m) => /\ m \in Batch /\ m.type = "EVENT_BATCH" /\ m.req \in 1..MaxPolls
                         /\ m.items \in Seq(Entry) /\ m.next \in Nat
<1>1. CASE m \in Obs
  <2>1. IsObs(m) /\ m.events \in Seq(1..MaxEvents) /\ m.cursor \in Nat
    BY <1>1 DEF Obs, IsObs
  <2> QED
    BY <2>1, <1>1, LenProperties
<1>2. CASE m \in Batch
  <2>1. /\ m.type = "EVENT_BATCH" /\ m.req \in 1..MaxPolls
        /\ m.items \in Seq(Entry) /\ m.next \in Nat
    BY <1>2 DEF Batch
  <2> QED
    BY <2>1, <1>2 DEF IsObs
<1> QED
  BY <1>1, <1>2

LEMMA ElementsType ==
  ASSUME NEW S, NEW s \in Seq(S)
  PROVE  Elements(s) \subseteq S
  BY LenProperties, ElementOfSeq DEF Elements

LEMMA CarriedType ==
  ASSUME NEW m \in Obs \cup Batch
  PROVE  CarriedEvents(m) \subseteq 1..MaxEvents
<1>1. CASE IsObs(m)
  <2>1. Elements(m.events) \subseteq 1..MaxEvents
    BY <1>1, Kinds, ElementsType
  <2> QED
    BY <1>1, <2>1 DEF IsObs, CarriedEvents
<1>2. CASE ~IsObs(m)
  BY <1>2 DEF IsObs, CarriedEvents
<1> QED
  BY <1>1, <1>2

LEMMA ContentsType ==
  ASSUME NEW messages \in Seq(Obs \cup Batch)
  PROVE  Contents(messages) \subseteq 1..MaxEvents
<1>1. \A i \in DOMAIN messages : messages[i] \in Obs \cup Batch
  BY LenProperties, ElementOfSeq
<1> QED
  BY <1>1, CarriedType DEF Contents

\* The messages of a channel after those before them: each has moved up by k,
\* or is the new one, behind the others.
MovedUp(before, after, k, m) ==
  \A i \in 1..Len(after) :
    \/ i + k \in 1..Len(before) /\ after[i] = before[i + k]
    \/ after[i] = m /\ \A j \in 1..Len(after) : j <= i

LEMMA Sending ==
  ASSUME Sizes, NEW S, out \in Seq(S), Len(out) <= OutCap, NEW m \in S, SendLatest(m)
  PROVE  /\ out' \in Seq(S) /\ Len(out') <= OutCap
         /\ \E k \in {0, 1} : MovedUp(out, out', k, m)
         /\ gone \subseteq gone' /\ gone' \subseteq gone \cup Contents(out) \cup CarriedEvents(m)
         /\ Contents(out) \cup CarriedEvents(m) \subseteq Contents(out') \cup gone'
<1>0. OutCap \in Nat \ {0} /\ Len(out) \in Nat /\ DOMAIN out = 1..Len(out)
  BY LenProperties DEF Sizes
<1>1. CASE out' = Append(out, m) /\ gone' = gone /\ Len(out) < OutCap
  <2>1. /\ out' \in Seq(S) /\ Len(out') = Len(out) + 1
        /\ \A i \in 1..Len(out) : out'[i] = out[i]
        /\ out'[Len(out) + 1] = m
    BY <1>1
  <2>2. DOMAIN out' = 1..Len(out) + 1
    BY <2>1, LenProperties
  <2>3. MovedUp(out, out', 0, m)
    BY <1>0, <2>1 DEF MovedUp
  <2>4. \A i \in 1..Len(out) : CarriedEvents(out[i]) \subseteq Contents(out')
    BY <1>0, <2>1, <2>2 DEF Contents
  <2>5. CarriedEvents(m) \subseteq Contents(out')
    BY <1>0, <2>1, <2>2 DEF Contents
  <2>6. Contents(out) \subseteq Contents(out')
    BY <1>0, <2>4 DEF Contents
  <2> QED
    BY <1>0, <1>1, <2>1, <2>3, <2>5, <2>6
<1>2. CASE Len(out) >= OutCap /\ out' = Append(Tail(out), m) /\ gone' = gone \cup CarriedEvents(Head(out))
  <2>0. out # <<>>
    BY <1>0, <1>2
  <2>1. /\ Tail(out) \in Seq(S) /\ Len(Tail(out)) = Len(out) - 1
        /\ \A i \in 1..Len(out) - 1 : Tail(out)[i] = out[i + 1]
    BY <2>0, HeadTailProperties
  <2>2. /\ out' \in Seq(S) /\ Len(out') = Len(out)
        /\ \A i \in 1..Len(out) - 1 : out'[i] = out[i + 1]
        /\ out'[Len(out)] = m
    BY <1>0, <1>2, <2>0, <2>1
  <2>3. DOMAIN out' = 1..Len(out)
    BY <2>2, LenProperties
  <2>4. MovedUp(out, out', 1, m)
    BY <1>0, <2>2 DEF MovedUp
  <2>5. ASSUME NEW i \in 1..Len(out)
        PROVE  CarriedEvents(out[i]) \subseteq Contents(out') \cup gone'
    <3>1. CASE i = 1
      BY <3>1, <1>2, <2>0 DEF Contents
    <3>2. CASE i # 1
      <4>1. i - 1 \in 1..Len(out) - 1 /\ i - 1 \in 1..Len(out) /\ (i - 1) + 1 = i
        BY <3>2, <1>0
      <4>2. out'[i - 1] = out[i]
        BY <4>1, <2>2
      <4> QED
        BY <4>1, <4>2, <2>3 DEF Contents
    <3> QED
      BY <3>1, <3>2
  <2>6. Len(out) \in 1..Len(out)
    BY <1>0, <2>0
  <2>7. CarriedEvents(m) \subseteq Contents(out')
    BY <2>6, <2>2, <2>3 DEF Contents
  <2>8. Contents(out) \subseteq Contents(out') \cup gone'
    BY <1>0, <2>5 DEF Contents
  <2>9. CarriedEvents(Head(out)) \subseteq Contents(out)
    BY <1>0, <2>0 DEF Contents
  <2> QED
    BY <1>0, <1>2, <2>2, <2>4, <2>7, <2>8, <2>9
<1>3. CASE /\ Len(out) >= OutCap /\ out' = Tail(out)
           /\ gone' = gone \cup CarriedEvents(Head(out)) \cup CarriedEvents(m)
  <2>0. out # <<>>
    BY <1>0, <1>3
  <2>1. /\ out' \in Seq(S) /\ Len(out') = Len(out) - 1
        /\ \A i \in 1..Len(out) - 1 : out'[i] = out[i + 1]
    BY <2>0, <1>3, HeadTailProperties
  <2>3. DOMAIN out' = 1..Len(out) - 1
    BY <2>1, LenProperties
  <2>4. MovedUp(out, out', 1, m)
    BY <1>0, <2>1 DEF MovedUp
  <2>5. ASSUME NEW i \in 1..Len(out)
        PROVE  CarriedEvents(out[i]) \subseteq Contents(out') \cup gone'
    <3>1. CASE i = 1
      BY <3>1, <1>3, <2>0 DEF Contents
    <3>2. CASE i # 1
      <4>1. i - 1 \in 1..Len(out) - 1 /\ (i - 1) + 1 = i
        BY <3>2, <1>0
      <4>2. out'[i - 1] = out[i]
        BY <4>1, <2>1
      <4> QED
        BY <4>1, <4>2, <2>3 DEF Contents
    <3> QED
      BY <3>1, <3>2
  <2>8. Contents(out) \subseteq Contents(out') \cup gone'
    BY <1>0, <2>5 DEF Contents
  <2>9. CarriedEvents(Head(out)) \subseteq Contents(out)
    BY <1>0, <2>0 DEF Contents
  <2> QED
    BY <1>0, <1>3, <2>1, <2>4, <2>8, <2>9
<1> QED
  BY <1>0, <1>1, <1>2, <1>3 DEF SendLatest

\* The reader takes the oldest message.
LEMMA Reading ==
  ASSUME NEW S, out \in Seq(S), out # <<>>, out' = Tail(out)
  PROVE  /\ out' \in Seq(S) /\ Len(out') = Len(out) - 1 /\ Head(out) \in S
         /\ 1 \in 1..Len(out) /\ Head(out) = out[1]
         /\ \A i \in 1..Len(out') : i + 1 \in 1..Len(out) /\ out'[i] = out[i + 1]
         /\ Contents(out) \subseteq Contents(out') \cup CarriedEvents(Head(out))
<1>0. Len(out) \in Nat \ {0} /\ DOMAIN out = 1..Len(out)
  BY LenProperties, EmptySeq
<1>1. /\ out' \in Seq(S) /\ Len(out') = Len(out) - 1 /\ Head(out) \in S
      /\ \A i \in 1..Len(out') : out'[i] = out[i + 1]
  BY HeadTailProperties
<1>2. DOMAIN out' = 1..Len(out) - 1 /\ Head(out) = out[1]
  BY <1>0, <1>1, LenProperties
<1>3. ASSUME NEW i \in 1..Len(out)
      PROVE  CarriedEvents(out[i]) \subseteq Contents(out') \cup CarriedEvents(Head(out))
  <2>1. CASE i = 1
    BY <2>1, <1>2
  <2>2. CASE i # 1
    <3>1. i - 1 \in 1..Len(out) - 1 /\ (i - 1) + 1 = i
      BY <2>2, <1>0
    <3>2. out'[i - 1] = out[i]
      BY <3>1, <1>1
    <3> QED
      BY <3>1, <3>2, <1>2 DEF Contents
  <2> QED
    BY <2>1, <2>2
<1>4. Contents(out) \subseteq Contents(out') \cup CarriedEvents(Head(out))
  BY <1>0, <1>3 DEF Contents
<1> QED
  BY <1>0, <1>1, <1>2, <1>4

-----------------------------------------------------------------------------
(* Types                                                                   *)

Typed == LogTypeOK /\ Len(number) <= MaxEvents

\* The entry of the next event.
LEMMA GrownType ==
  ASSUME Sizes, Typed, Len(number) < MaxEvents
  PROVE  /\ Len(number) + 1 \in 1..MaxEvents /\ Len(number) \in Nat
         /\ Grown \in Seq(Entry) /\ Len(Grown) = Len(log) + 1
         /\ \A i \in 1..Len(log) : Grown[i] = log[i]
         /\ Grown[Len(log) + 1] = [cursor |-> cursor + 1, event |-> Len(number) + 1]
<1>1. Len(number) \in Nat /\ log \in Seq(Entry) /\ cursor \in Nat
  BY LenProperties DEF Typed, LogTypeOK
<1>2. Len(number) + 1 \in 1..MaxEvents
  BY <1>1 DEF Sizes
<1>3. PICK e : e = [cursor |-> cursor + 1, event |-> Len(number) + 1]
  OBVIOUS
<1>4. e \in Entry
  BY <1>1, <1>2, <1>3 DEF Entry
<1>5. Grown = Append(log, e)
  BY <1>3 DEF Grown
<1> QED
  BY <1>1, <1>2, <1>3, <1>4, <1>5

\* The entries an OBS adds to the ring, numbered from a base.
LEMMA AppendedType ==
  ASSUME Typed, NEW o \in Obs, Len(o.events) <= o.cursor
  PROVE  /\ Appended(o) \in Seq(Entry)
         /\ Len(Appended(o)) = Len(ring) + Len(o.events)
         /\ \A i \in 1..Len(ring) : Appended(o)[i] = ring[i]
         /\ \A i \in 1..Len(o.events) :
              Appended(o)[Len(ring) + i]
                = [cursor |-> o.cursor - Len(o.events) + i, event |-> o.events[i]]
<1>1. /\ ring \in Seq(Entry) /\ Len(ring) \in Nat /\ last \in Nat
      /\ o.events \in Seq(1..MaxEvents) /\ o.cursor \in Nat /\ Len(o.events) \in Nat
      /\ DOMAIN o.events = 1..Len(o.events)
  BY LenProperties DEF Typed, LogTypeOK, Obs
<1> DEFINE base == IF o.cursor > 0 /\ o.cursor >= Len(o.events)
                   THEN o.cursor - Len(o.events) ELSE last
           more == [i \in 1..Len(o.events) |-> [cursor |-> base + i, event |-> o.events[i]]]
<1>2. base \in Nat
  BY <1>1
<1>3. \A i \in 1..Len(o.events) : base + i = o.cursor - Len(o.events) + i
  BY <1>1
<1> HIDE DEF base
<1>4. ASSUME NEW i \in 1..Len(o.events)
      PROVE  [cursor |-> base + i, event |-> o.events[i]] \in Entry
  <2>1. o.events[i] \in 1..MaxEvents
    BY <1>1, ElementOfSeq
  <2>2. base + i \in Nat
    BY <1>1, <1>2
  <2> QED
    BY <2>1, <2>2 DEF Entry
<1>5. more \in Seq(Entry) /\ Len(more) = Len(o.events)
  BY <1>1, <1>4
<1>6. \A i \in 1..Len(o.events) : more[i] = [cursor |-> base + i, event |-> o.events[i]]
  OBVIOUS
<1>7. Appended(o) = ring \o more
  BY <1>1 DEF Appended, base
<1> HIDE DEF more
<1>8. /\ ring \o more \in Seq(Entry) /\ Len(ring \o more) = Len(ring) + Len(more)
      /\ \A i \in 1..Len(ring) + Len(more) :
           (ring \o more)[i] = IF i <= Len(ring) THEN ring[i] ELSE more[i - Len(ring)]
  BY <1>1, <1>5, ConcatProperties
<1>9. \A i \in 1..Len(ring) : (ring \o more)[i] = ring[i]
  BY <1>1, <1>5, <1>8
<1>10. ASSUME NEW i \in 1..Len(o.events)
       PROVE  (ring \o more)[Len(ring) + i] = more[i]
  <2>1. /\ Len(ring) + i \in 1..Len(ring) + Len(more) /\ ~(Len(ring) + i <= Len(ring))
        /\ (Len(ring) + i) - Len(ring) = i
    BY <1>1, <1>5
  <2> QED
    BY <2>1, <1>8
<1> QED
  BY <1>3, <1>5, <1>6, <1>7, <1>8, <1>9, <1>10

LEMMA TypeSame ==
  ASSUME Typed, UNCHANGED logVars
  PROVE  Typed'
  BY DEF Typed, LogTypeOK, logVars, agent, link, bridge, caller

LEMMA TypeAddEvent ==
  ASSUME Sizes, Typed, AddEvent
  PROVE  Typed'
<1>1. Len(number) < MaxEvents
  BY DEF AddEvent
<1>2. Len(number) + 1 \in 1..MaxEvents /\ Grown \in Seq(Entry) /\ Len(number) \in Nat
  BY <1>1, GrownType
<1>3. Trim(Grown) \in Seq(Entry) /\ Len(Trim(Grown)) <= LogCap
  BY <1>2, TrimEnd
<1>4. Trimmed(Grown) \subseteq 1..MaxEvents
  BY <1>2, NamesType DEF Trimmed
<1>5. number' \in Seq(Nat) /\ Len(number') <= MaxEvents /\ cursor' \in Nat
  BY <1>2 DEF Typed, LogTypeOK, AddEvent
<1>6. events' \in Seq(1..MaxEvents)
  BY <1>2 DEF Typed, LogTypeOK, AddEvent
<1>7. log' \in Seq(Entry) /\ Len(log') <= LogCap /\ gone' \subseteq 1..MaxEvents
  BY <1>3, <1>4 DEF Typed, LogTypeOK, AddEvent
<1> QED
  BY <1>5, <1>6, <1>7 DEF Typed, LogTypeOK, AddEvent, link, bridge, caller

LEMMA SendType ==
  ASSUME Sizes, Typed, NEW m \in Obs \cup Batch, SendLatest(m)
  PROVE  out' \in Seq(Obs \cup Batch) /\ Len(out') <= OutCap /\ gone' \subseteq 1..MaxEvents
<1>1. out \in Seq(Obs \cup Batch) /\ Len(out) <= OutCap /\ gone \subseteq 1..MaxEvents
  BY DEF Typed, LogTypeOK
<1>2. /\ out' \in Seq(Obs \cup Batch) /\ Len(out') <= OutCap
      /\ gone' \subseteq gone \cup Contents(out) \cup CarriedEvents(m)
  BY <1>1, Sending
<1> QED
  BY <1>1, <1>2, ContentsType, CarriedType

LEMMA ObserveMessage ==
  ASSUME Typed
  PROVE  [type |-> "OBS", events |-> events, cursor |-> cursor] \in Obs
  BY DEF Typed, LogTypeOK, Obs

LEMMA TypeObserve ==
  ASSUME Sizes, Typed, Observe
  PROVE  Typed'
<1>1. out' \in Seq(Obs \cup Batch) /\ Len(out') <= OutCap /\ gone' \subseteq 1..MaxEvents
  BY SendType, ObserveMessage DEF Observe
<1>2. events' \in Seq(1..MaxEvents)
  BY DEF Observe
<1> QED
  BY <1>1, <1>2 DEF Typed, LogTypeOK, Observe, bridge, caller

LEMMA TypeObserveInVain ==
  ASSUME Typed, ObserveInVain
  PROVE  Typed'
<1>1. Elements(events) \subseteq 1..MaxEvents
  BY ElementsType DEF Typed, LogTypeOK
<1>2. events' \in Seq(1..MaxEvents)
  BY DEF ObserveInVain
<1>3. gone' \subseteq 1..MaxEvents
  BY <1>1 DEF ObserveInVain, Typed, LogTypeOK
<1> QED
  BY <1>2, <1>3 DEF Typed, LogTypeOK, ObserveInVain, link, bridge, caller

LEMMA TypeSwitch ==
  ASSUME Sizes, Typed, Switch
  PROVE  Typed'
<1>1. Len(number) \in Nat /\ Len(number) + 1 \in 1..MaxEvents /\ MaxMoves \in Nat /\ 1 <= LogCap
  BY LenProperties DEF Typed, LogTypeOK, Switch, Sizes
<1>2. PICK e : e = [cursor |-> 1, event |-> Len(number) + 1]
  OBVIOUS
<1>3. e \in Entry
  BY <1>1, <1>2 DEF Entry
<1>4. log' = <<e>>
  BY <1>2 DEF Switch
<1>5. log' \in Seq(Entry) /\ Len(log') <= LogCap
  BY <1>1, <1>3, <1>4
<1>6. Elements(events) \subseteq 1..MaxEvents
  BY ElementsType DEF Typed, LogTypeOK
<1>7. /\ number' \in Seq(Nat) /\ Len(number') <= MaxEvents /\ cursor' \in Nat
      /\ events' \in Seq(1..MaxEvents)
  BY <1>1 DEF Switch, Typed, LogTypeOK
<1>8. moves' \in 0..MaxMoves
  BY <1>1 DEF Switch, Typed, LogTypeOK
<1>9. gone' \subseteq 1..MaxEvents
  BY <1>6 DEF Switch, Typed, LogTypeOK
<1> QED
  BY <1>5, <1>7, <1>8, <1>9 DEF Typed, LogTypeOK, Switch, link, bridge, caller

LEMMA EmptyChannel ==
  ASSUME Sizes
  PROVE  /\ <<>> \in Seq(Obs \cup Batch) /\ <<>> \in Seq(Request)
         /\ <<>> \in Seq(Entry) /\ <<>> \in Seq(1..MaxEvents) /\ <<>> \in Seq(Nat)
         /\ Len(<<>>) <= OutCap /\ Len(<<>>) <= LogCap
  BY DEF Sizes

LEMMA TypeRestart ==
  ASSUME Sizes, Typed, Restart
  PROVE  Typed'
<1>1. Elements(events) \subseteq 1..MaxEvents
  BY ElementsType DEF Typed, LogTypeOK
<1>2. Contents(out) \subseteq 1..MaxEvents
  BY ContentsType DEF Typed, LogTypeOK
<1>3. gone' \subseteq 1..MaxEvents
  BY <1>1, <1>2 DEF Restart, Typed, LogTypeOK, Contents
<1>4. moves' \in 0..MaxMoves
  BY DEF Restart, Typed, LogTypeOK, Sizes
<1> QED
  BY <1>3, <1>4, EmptyChannel DEF Typed, LogTypeOK, Restart, bridge, caller

\* The answer to the oldest request.
BatchMessage(r, items) ==
  [type |-> "EVENT_BATCH", req |-> r.req, items |-> items,
   next |-> NextCursor(items, r.since)]

LEMMA AnswerMessage ==
  ASSUME Sizes, NEW r \in Request, NEW entries \in Seq(Entry)
  PROVE  /\ BatchMessage(r, After(entries, r.since, r.limit)) \in Batch
         /\ BatchMessage(r, <<>>) \in Batch
         /\ NextCursor(<<>>, r.since) = r.since
         /\ r.req \in 1..MaxPolls /\ r.since \in Nat /\ r.limit \in Nat \ {0}
<1>1. r.req \in 1..MaxPolls /\ r.since \in Nat /\ r.limit \in Nat \ {0}
  BY DEF Request, Sizes
<1>2. /\ After(entries, r.since, r.limit) \in Seq(Entry)
      /\ NextCursor(After(entries, r.since, r.limit), r.since) \in Nat
  BY <1>1, AnswerType
<1>3. NextCursor(<<>>, r.since) = r.since
  BY DEF NextCursor
<1> QED
  BY <1>1, <1>2, <1>3 DEF BatchMessage, Batch

LEMMA OldestRequest ==
  ASSUME Typed, requests # <<>>
  PROVE  /\ Head(requests) \in Request /\ Tail(requests) \in Seq(Request)
         /\ 1 \in 1..Len(requests) /\ Head(requests) = requests[1]
         /\ \A i \in 1..Len(Tail(requests)) :
              i + 1 \in 1..Len(requests) /\ Tail(requests)[i] = requests[i + 1]
<1>1. requests \in Seq(Request)
  BY DEF Typed, LogTypeOK
<1>2. Len(requests) \in Nat \ {0}
  BY <1>1, EmptySeq
<1>3. /\ Head(requests) \in Request /\ Tail(requests) \in Seq(Request)
      /\ Len(Tail(requests)) = Len(requests) - 1
      /\ \A i \in 1..Len(Tail(requests)) : Tail(requests)[i] = requests[i + 1]
  BY <1>1, HeadTailProperties
<1> QED
  BY <1>1, <1>2, <1>3

LEMMA TypeAnswer ==
  ASSUME Sizes, Typed, HandleEventBatchReq \/ EventBatchFails
  PROVE  Typed'
<1>1. requests # <<>>
  BY DEF HandleEventBatchReq, EventBatchFails
<1>2. PICK r : r = Head(requests)
  OBVIOUS
<1>3. r \in Request /\ Tail(requests) \in Seq(Request)
  BY <1>1, <1>2, OldestRequest
<1>4. log \in Seq(Entry)
  BY DEF Typed, LogTypeOK
<1>5. \E m \in Obs \cup Batch : SendLatest(m)
  <2>1. CASE HandleEventBatchReq
    <3>1. SendLatest(BatchMessage(r, After(log, r.since, r.limit)))
      BY <2>1, <1>2 DEF HandleEventBatchReq, BatchMessage
    <3> QED
      BY <3>1, <1>3, <1>4, AnswerMessage
  <2>2. CASE EventBatchFails
    <3>1. NextCursor(<<>>, r.since) = r.since
      BY DEF NextCursor
    <3>2. SendLatest(BatchMessage(r, <<>>))
      BY <2>2, <1>2, <3>1 DEF EventBatchFails, BatchMessage
    <3> QED
      BY <3>2, <1>3, <1>4, AnswerMessage
  <2> QED
    BY <2>1, <2>2
<1>6. out' \in Seq(Obs \cup Batch) /\ Len(out') <= OutCap /\ gone' \subseteq 1..MaxEvents
  BY <1>5, SendType
<1>7. requests' \in Seq(Request)
  BY <1>2, <1>3 DEF HandleEventBatchReq, EventBatchFails
<1> QED
  BY <1>6, <1>7 DEF Typed, LogTypeOK, HandleEventBatchReq, EventBatchFails,
                    agent, bridge, caller

LEMMA TypeConnection ==
  ASSUME Sizes, Typed, Disconnect \/ Reconnect
  PROVE  Typed'
<1>1. CASE Disconnect
  <2>1. Contents(out) \subseteq 1..MaxEvents
    BY ContentsType DEF Typed, LogTypeOK
  <2>2. gone' \subseteq 1..MaxEvents
    BY <1>1, <2>1 DEF Disconnect, Typed, LogTypeOK, Contents
  <2>3. drops' \in 0..MaxDrops
    BY <1>1 DEF Disconnect, Typed, LogTypeOK, Sizes
  <2> QED
    BY <1>1, <2>2, <2>3, EmptyChannel DEF Typed, LogTypeOK, Disconnect, agent,
                                          bridge, caller
<1>2. CASE Reconnect
  BY <1>2 DEF Typed, LogTypeOK, Reconnect, agent, bridge, caller
<1> QED
  BY <1>1, <1>2

LEMMA TypeReadObs ==
  ASSUME Sizes, Typed, Labels, ReadObs
  PROVE  Typed'
<1>1. out # <<>> /\ out \in Seq(Obs \cup Batch) /\ out' = Tail(out)
  BY DEF ReadObs, Typed, LogTypeOK
<1>2. PICK o : o = Head(out)
  OBVIOUS
<1>3. /\ out' \in Seq(Obs \cup Batch) /\ Len(out') = Len(out) - 1
      /\ o \in Obs \cup Batch /\ 1 \in 1..Len(out) /\ o = out[1]
  BY <1>1, <1>2, Reading
<1>4. IsObs(o)
  BY <1>2 DEF ReadObs, IsObs
<1>5. o \in Obs /\ o.cursor \in Nat /\ Len(o.events) \in Nat
  BY <1>3, <1>4, Kinds
<1>6. Len(o.events) <= o.cursor
  BY <1>3, <1>4 DEF Labels, Truthful, IsObs, Announced
<1>7. Appended(o) \in Seq(Entry)
  BY <1>5, <1>6, AppendedType
<1>8. Trim(Appended(o)) \in Seq(Entry) /\ Len(Trim(Appended(o))) <= LogCap
  BY <1>7, TrimEnd
<1>9. Trimmed(Appended(o)) \subseteq 1..MaxEvents
  BY <1>7, NamesType DEF Trimmed
<1>10. ring' \in Seq(Entry) /\ Len(ring') <= LogCap /\ gone' \subseteq 1..MaxEvents
  BY <1>2, <1>8, <1>9 DEF ReadObs, Typed, LogTypeOK
<1>11. last' \in Nat
  BY <1>2, <1>5 DEF ReadObs, Typed, LogTypeOK
<1>12. Len(out') <= OutCap
  <2>1. Len(out) <= OutCap /\ Len(out) \in Nat /\ OutCap \in Nat
    BY <1>1, LenProperties DEF Typed, LogTypeOK, Sizes
  <2> QED
    BY <2>1, <1>3
<1> QED
  BY <1>3, <1>10, <1>11, <1>12 DEF Typed, LogTypeOK, ReadObs, agent, caller

LEMMA ReturnType ==
  ASSUME Typed, NEW items \in Seq(Entry), NEW next \in Nat, Return(items, next)
  PROVE  got' \in Seq(Entry) /\ since' \in Nat /\ poll' \in Request \cup {NoPoll}
<1>1. got \in Seq(Entry)
  BY DEF Typed, LogTypeOK
<1>2. got \o items \in Seq(Entry)
  BY <1>1, ConcatProperties
<1> QED
  BY <1>2 DEF Return

LEMMA TypeReadBatch ==
  ASSUME Sizes, Typed, ReadBatch
  PROVE  Typed'
<1>1. out # <<>> /\ out \in Seq(Obs \cup Batch) /\ out' = Tail(out)
  BY DEF ReadBatch, Typed, LogTypeOK
<1>2. PICK m : m = Head(out)
  OBVIOUS
<1>3. /\ out' \in Seq(Obs \cup Batch) /\ Len(out') = Len(out) - 1
      /\ m \in Obs \cup Batch
  BY <1>1, <1>2, Reading
<1>4. m.items \in Seq(Entry) /\ m.next \in Nat
  <2>1. ~IsObs(m)
    BY <1>2 DEF ReadBatch, IsObs
  <2> QED
    BY <2>1, <1>3, Kinds
<1>5. got' \in Seq(Entry) /\ since' \in Nat /\ poll' \in Request \cup {NoPoll}
  <2>1. CASE Return(m.items, m.next)
    BY <2>1, <1>4, ReturnType
  <2>2. CASE UNCHANGED <<got, since, poll>>
    BY <2>2 DEF Typed, LogTypeOK
  <2> QED
    BY <2>1, <2>2, <1>2 DEF ReadBatch
<1>6. Len(out') <= OutCap
  <2>1. Len(out) <= OutCap /\ Len(out) \in Nat /\ OutCap \in Nat
    BY <1>1, LenProperties DEF Typed, LogTypeOK, Sizes
  <2> QED
    BY <2>1, <1>3
<1> QED
  BY <1>3, <1>5, <1>6 DEF Typed, LogTypeOK, ReadBatch, agent, bridge

LEMMA TypeGetEvents ==
  ASSUME Sizes, Typed, NEW limit \in Limits, GetEvents(limit)
  PROVE  Typed'
<1>1. polls + 1 \in 1..MaxPolls /\ polls' \in 0..MaxPolls /\ since \in Nat
  BY DEF Typed, LogTypeOK, GetEvents, Sizes
<1>2. poll' \in Request
  BY <1>1 DEF GetEvents, Request
<1>3. requests' \in Seq(Request)
  BY <1>2 DEF GetEvents, Typed, LogTypeOK
<1> QED
  BY <1>1, <1>2, <1>3 DEF Typed, LogTypeOK, GetEvents, agent, bridge

LEMMA TypeFromRing ==
  ASSUME Sizes, Typed, FromRing
  PROVE  Typed'
<1>1. poll \in Request /\ ring \in Seq(Entry)
  BY DEF Typed, LogTypeOK, FromRing
<1>2. poll.since \in Nat /\ poll.limit \in Nat
  BY <1>1 DEF Request, Sizes
<1>3. PICK items : items = After(ring, poll.since, poll.limit)
  OBVIOUS
<1>4. items \in Seq(Entry) /\ NextCursor(items, poll.since) \in Nat
  BY <1>1, <1>2, <1>3, AnswerType
<1>5. Return(items, NextCursor(items, poll.since))
  BY <1>3 DEF FromRing
<1>6. got' \in Seq(Entry) /\ since' \in Nat /\ poll' \in Request \cup {NoPoll}
  BY <1>4, <1>5, ReturnType
<1> QED
  BY <1>6 DEF Typed, LogTypeOK, FromRing, agent, link, bridge

LEMMA EventTypeStep ==
  ASSUME Sizes, Typed, Labels, [LogNext]_logVars
  PROVE  Typed'
<1>1. CASE LogNext
  BY <1>1, TypeAddEvent, TypeObserve, TypeObserveInVain, TypeSwitch, TypeRestart, TypeAnswer,
     TypeConnection, TypeReadObs, TypeReadBatch, TypeGetEvents, TypeFromRing DEF LogNext
<1>2. CASE UNCHANGED logVars
  BY <1>2, TypeSame
<1> QED
  BY <1>1, <1>2

-----------------------------------------------------------------------------
(* The numbers of events                                                   *)

\* A further number takes nothing back.
LEMMA NumberMore ==
  ASSUME NEW numbers \in Seq(Nat), NEW n \in Nat
  PROVE  /\ Append(numbers, n)[Len(numbers) + 1] = n
         /\ DOMAIN Append(numbers, n) = 1..Len(numbers) + 1
         /\ \A i \in DOMAIN numbers :
              i \in DOMAIN Append(numbers, n) /\ Append(numbers, n)[i] = numbers[i]
<1>1. PICK more : more = Append(numbers, n)
  OBVIOUS
<1>2. /\ more \in Seq(Nat) /\ Len(more) = Len(numbers) + 1 /\ Len(numbers) \in Nat
      /\ \A i \in 1..Len(numbers) : more[i] = numbers[i]
      /\ more[Len(numbers) + 1] = n
  BY <1>1, LenProperties
<1>3. DOMAIN more = 1..Len(numbers) + 1 /\ DOMAIN numbers = 1..Len(numbers)
  BY <1>2, LenProperties
<1> QED
  BY <1>1, <1>2, <1>3

LEMMA StillCounted ==
  ASSUME NEW numbers \in Seq(Nat), NEW n \in Nat, NEW entries, Counted(entries, numbers)
  PROVE  Counted(entries, Append(numbers, n))
  BY NumberMore DEF Counted

LEMMA StillAnnounced ==
  ASSUME NEW numbers \in Seq(Nat), NEW n \in Nat, NEW es, NEW c, Announced(es, c, numbers)
  PROVE  Announced(es, c, Append(numbers, n))
  BY NumberMore DEF Announced

LEMMA StillTruthful ==
  ASSUME NEW numbers \in Seq(Nat), NEW n \in Nat, NEW m, Truthful(m, numbers)
  PROVE  Truthful(m, Append(numbers, n))
  BY StillCounted, StillAnnounced DEF Truthful

LEMMA SendTruthful ==
  ASSUME Sizes, Typed, Labels, NEW m \in Obs \cup Batch, Truthful(m, number),
         SendLatest(m)
  PROVE  \A i \in 1..Len(out') : Truthful(out'[i], number)
<1>1. out \in Seq(Obs \cup Batch) /\ Len(out) <= OutCap
  BY DEF Typed, LogTypeOK
<1>2. \E k \in {0, 1} : MovedUp(out, out', k, m)
  BY <1>1, Sending
<1> QED
  BY <1>2 DEF MovedUp, Labels

LEMMA ReadTruthful ==
  ASSUME Typed, Labels, out # <<>>, out' = Tail(out)
  PROVE  \A i \in 1..Len(out') : Truthful(out'[i], number)
<1>1. out \in Seq(Obs \cup Batch)
  BY DEF Typed, LogTypeOK
<1>2. \A i \in 1..Len(out') : i + 1 \in 1..Len(out) /\ out'[i] = out[i + 1]
  BY <1>1, Reading
<1> QED
  BY <1>2 DEF Labels

LEMMA NothingCounted ==
  ASSUME NEW numbers, NEW c \in Nat
  PROVE  Counted(<<>>, numbers) /\ Announced(<<>>, c, numbers)
  BY DEF Counted, Announced

LEMMA LabelsAddEvent ==
  ASSUME Sizes, Typed, Labels, AddEvent
  PROVE  Labels'
<1>1. /\ number \in Seq(Nat) /\ cursor \in Nat /\ events \in Seq(1..MaxEvents)
      /\ log \in Seq(Entry) /\ Len(number) \in Nat /\ Len(events) \in Nat /\ Len(log) \in Nat
  BY LenProperties DEF Typed, LogTypeOK
<1>2. PICK more : more = Append(number, cursor + 1)
  OBVIOUS
<1>3. /\ number' = more /\ cursor' = cursor + 1 /\ log' = Trim(Grown)
      /\ events' = Append(events, Len(number) + 1)
      /\ ring' = ring /\ got' = got /\ out' = out
  BY <1>2 DEF AddEvent, link, bridge, caller
<1>4. /\ more[Len(number) + 1] = cursor + 1 /\ Len(number) + 1 \in DOMAIN more
      /\ \A i \in DOMAIN number : i \in DOMAIN more /\ more[i] = number[i]
  <2>1. cursor + 1 \in Nat
    BY <1>1
  <2> QED
    BY <1>1, <1>2, <2>1, NumberMore
<1>5. Counted(ring, more) /\ Counted(got, more) /\ Counted(log, more)
  BY <1>1, <1>2, StillCounted DEF Labels
<1>6. \A i \in 1..Len(out) : Truthful(out[i], more)
  BY <1>1, <1>2, StillTruthful DEF Labels
<1>7. Counted(Trim(Grown), more)
  <2>1. /\ Grown \in Seq(Entry) /\ Len(Grown) = Len(log) + 1
        /\ \A i \in 1..Len(log) : Grown[i] = log[i]
        /\ Grown[Len(log) + 1] = [cursor |-> cursor + 1, event |-> Len(number) + 1]
    BY GrownType DEF AddEvent
  <2>2. ASSUME NEW i \in 1..Len(Grown)
        PROVE  /\ Grown[i].event \in DOMAIN more
               /\ more[Grown[i].event] = Grown[i].cursor
    <3>1. CASE i = Len(log) + 1
      BY <3>1, <2>1, <1>4
    <3>2. CASE i # Len(log) + 1
      <4>1. i \in 1..Len(log)
        BY <3>2, <2>1, <1>1
      <4> QED
        BY <4>1, <2>1, <1>5 DEF Counted
    <3> QED
      BY <3>1, <3>2
  <2>3. Counted(Grown, more)
    BY <2>2 DEF Counted
  <2> QED
    BY <2>1, <2>3, TrimCounted
<1>8. Announced(Append(events, Len(number) + 1), cursor + 1, more)
  <2>1. PICK es : es = Append(events, Len(number) + 1)
    OBVIOUS
  <2>2. /\ Len(es) = Len(events) + 1 /\ \A i \in 1..Len(events) : es[i] = events[i]
        /\ es[Len(events) + 1] = Len(number) + 1
    BY <1>1, <2>1
  <2>3. ASSUME NEW i \in 1..Len(es)
        PROVE  es[i] \in DOMAIN more /\ more[es[i]] = (cursor + 1) - Len(es) + i
    <3>1. CASE i = Len(events) + 1
      BY <3>1, <2>2, <1>1, <1>4
    <3>2. CASE i # Len(events) + 1
      <4>1. i \in 1..Len(events)
        BY <3>2, <2>2, <1>1
      <4>2. events[i] \in DOMAIN number /\ number[events[i]] = cursor - Len(events) + i
        BY <4>1 DEF Labels, Announced
      <4>3. more[es[i]] = cursor - Len(events) + i /\ es[i] \in DOMAIN more
        BY <4>1, <4>2, <2>2, <1>4
      <4>4. cursor - Len(events) + i = (cursor + 1) - Len(es) + i
        BY <1>1, <2>2
      <4> QED
        BY <4>3, <4>4
    <3> QED
      BY <3>1, <3>2
  <2>4. Len(es) <= cursor + 1
    <3>1. Len(events) <= cursor
      BY DEF Labels, Announced
    <3> QED
      BY <3>1, <2>2, <1>1
  <2> QED
    BY <2>1, <2>3, <2>4 DEF Announced
<1> QED
  BY <1>3, <1>5, <1>6, <1>7, <1>8 DEF Labels

LEMMA LabelsObserve ==
  ASSUME Sizes, Typed, Labels, Observe
  PROVE  Labels'
<1>1. PICK m : m = [type |-> "OBS", events |-> events, cursor |-> cursor]
  OBVIOUS
<1>2. m \in Obs \cup Batch
  BY <1>1, ObserveMessage
<1>3. Truthful(m, number)
  BY <1>1 DEF Truthful, Labels
<1>4. \A i \in 1..Len(out') : Truthful(out'[i], number)
  BY <1>1, <1>2, <1>3, SendTruthful DEF Observe
<1>5. Announced(<<>>, cursor, number)
  BY NothingCounted DEF Typed, LogTypeOK
<1> QED
  BY <1>4, <1>5 DEF Labels, Observe, bridge, caller

LEMMA LabelsObserveInVain ==
  ASSUME Typed, Labels, ObserveInVain
  PROVE  Labels'
<1>1. Announced(<<>>, cursor, number)
  BY NothingCounted DEF Typed, LogTypeOK
<1> QED
  BY <1>1 DEF Labels, ObserveInVain, link, bridge, caller

LEMMA LabelsSwitch ==
  ASSUME Sizes, Typed, Labels, Switch
  PROVE  Labels'
<1>1. number \in Seq(Nat) /\ Len(number) \in Nat
  BY LenProperties DEF Typed, LogTypeOK
<1>2. PICK more : more = Append(number, 1)
  OBVIOUS
<1>3. PICK e : e = [cursor |-> 1, event |-> Len(number) + 1]
  OBVIOUS
<1>4. /\ number' = more /\ cursor' = 1 /\ log' = <<e>> /\ events' = <<Len(number) + 1>>
      /\ ring' = ring /\ got' = got /\ out' = out
  BY <1>2, <1>3 DEF Switch, link, bridge, caller
<1>5. more[Len(number) + 1] = 1 /\ Len(number) + 1 \in DOMAIN more
  BY <1>1, <1>2, NumberMore
<1>6. Counted(ring, more) /\ Counted(got, more)
  BY <1>1, <1>2, StillCounted DEF Labels
<1>7. \A i \in 1..Len(out) : Truthful(out[i], more)
  BY <1>1, <1>2, StillTruthful DEF Labels
<1>8. Counted(<<e>>, more)
  BY <1>3, <1>5 DEF Counted
<1>9. Announced(<<Len(number) + 1>>, 1, more)
  BY <1>5 DEF Announced
<1> QED
  BY <1>4, <1>6, <1>7, <1>8, <1>9 DEF Labels

LEMMA LabelsRestart ==
  ASSUME Typed, Labels, Restart
  PROVE  Labels'
<1>1. Counted(<<>>, number) /\ Announced(<<>>, 0, number)
  BY NothingCounted
<1>2. /\ number' = number /\ cursor' = 0 /\ log' = <<>> /\ events' = <<>> /\ out' = <<>>
      /\ ring' = ring /\ got' = got
  BY DEF Restart, bridge, caller
<1> QED
  BY <1>1, <1>2 DEF Labels

LEMMA LabelsAnswer ==
  ASSUME Sizes, Typed, Labels, HandleEventBatchReq \/ EventBatchFails
  PROVE  Labels'
<1>1. requests # <<>>
  BY DEF HandleEventBatchReq, EventBatchFails
<1>2. PICK r : r = Head(requests)
  OBVIOUS
<1>3. r \in Request
  BY <1>1, <1>2, OldestRequest
<1>4. log \in Seq(Entry) /\ r.since \in Nat /\ r.limit \in Nat
  BY <1>3 DEF Typed, LogTypeOK, Request, Sizes
<1>5. PICK m \in Obs \cup Batch : Truthful(m, number) /\ SendLatest(m)
  <2>1. CASE HandleEventBatchReq
    <3>1. PICK items : items = After(log, r.since, r.limit)
      OBVIOUS
    <3>2. SendLatest(BatchMessage(r, items))
      BY <2>1, <1>2, <3>1 DEF HandleEventBatchReq, BatchMessage
    <3>3. Counted(items, number)
      BY <3>1, <1>4, AnswerCounted DEF Labels
    <3>4. Truthful(BatchMessage(r, items), number)
      BY <3>3 DEF BatchMessage, Truthful
    <3>5. BatchMessage(r, items) \in Batch
      BY <3>1, <1>3, <1>4, AnswerMessage
    <3> QED
      BY <3>2, <3>4, <3>5
  <2>2. CASE EventBatchFails
    <3>1. NextCursor(<<>>, r.since) = r.since
      BY DEF NextCursor
    <3>2. SendLatest(BatchMessage(r, <<>>))
      BY <2>2, <1>2, <3>1 DEF EventBatchFails, BatchMessage
    <3>3. Counted(<<>>, number)
      BY DEF Counted
    <3>4. Truthful(BatchMessage(r, <<>>), number)
      BY <3>3 DEF BatchMessage, Truthful
    <3>5. BatchMessage(r, <<>>) \in Batch
      BY <1>3, <1>4, AnswerMessage
    <3> QED
      BY <3>2, <3>4, <3>5
  <2> QED
    BY <2>1, <2>2
<1>6. \A i \in 1..Len(out') : Truthful(out'[i], number)
  BY <1>5, SendTruthful
<1> QED
  BY <1>6 DEF Labels, HandleEventBatchReq, EventBatchFails, agent, bridge,
              caller

LEMMA LabelsConnection ==
  ASSUME Labels, Disconnect \/ Reconnect
  PROVE  Labels'
<1>1. /\ number' = number /\ cursor' = cursor /\ log' = log /\ events' = events
      /\ ring' = ring /\ got' = got /\ (out' = <<>> \/ out' = out)
  BY DEF Disconnect, Reconnect, agent, bridge, caller
<1> QED
  BY <1>1 DEF Labels

LEMMA LabelsReadObs ==
  ASSUME Sizes, Typed, Labels, ReadObs
  PROVE  Labels'
<1>1. out # <<>> /\ out \in Seq(Obs \cup Batch) /\ out' = Tail(out)
  BY DEF ReadObs, Typed, LogTypeOK
<1>2. PICK o : o = Head(out)
  OBVIOUS
<1>3. o \in Obs \cup Batch /\ 1 \in 1..Len(out) /\ o = out[1]
  BY <1>1, <1>2, Reading
<1>4. IsObs(o)
  BY <1>2 DEF ReadObs, IsObs
<1>5. o \in Obs /\ o.cursor \in Nat /\ Len(o.events) \in Nat
  BY <1>3, <1>4, Kinds
<1>6. Announced(o.events, o.cursor, number)
  BY <1>3, <1>4 DEF Labels, Truthful, IsObs
<1>7. PICK more : more = Appended(o)
  OBVIOUS
<1>8. /\ more \in Seq(Entry) /\ Len(more) = Len(ring) + Len(o.events)
      /\ \A i \in 1..Len(ring) : more[i] = ring[i]
      /\ \A i \in 1..Len(o.events) :
           more[Len(ring) + i]
             = [cursor |-> o.cursor - Len(o.events) + i, event |-> o.events[i]]
  BY <1>5, <1>6, <1>7, AppendedType DEF Announced
<1>9. Len(ring) \in Nat
  BY LenProperties DEF Typed, LogTypeOK
<1>10. ASSUME NEW i \in 1..Len(more)
       PROVE  more[i].event \in DOMAIN number /\ number[more[i].event] = more[i].cursor
  <2>1. CASE i \in 1..Len(ring)
    BY <2>1, <1>8 DEF Labels, Counted
  <2>2. CASE i \notin 1..Len(ring)
    <3>1. PICK j \in 1..Len(o.events) : i = Len(ring) + j
      <4>1. i - Len(ring) \in 1..Len(o.events) /\ i = Len(ring) + (i - Len(ring))
        BY <2>2, <1>5, <1>8, <1>9
      <4> QED
        BY <4>1
    <3>2. /\ o.events[j] \in DOMAIN number
          /\ number[o.events[j]] = o.cursor - Len(o.events) + j
      BY <1>6 DEF Announced
    <3>3. more[i].event = o.events[j] /\ more[i].cursor = o.cursor - Len(o.events) + j
      <4>1. more[i] = [cursor |-> o.cursor - Len(o.events) + j, event |-> o.events[j]]
        BY <3>1, <1>8
      <4> QED
        BY <4>1
    <3> QED
      BY <3>2, <3>3
  <2> QED
    BY <2>1, <2>2
<1>11. Counted(Trim(more), number)
  BY <1>8, <1>10, TrimCounted DEF Counted
<1>12. \A i \in 1..Len(out') : Truthful(out'[i], number)
  BY <1>1, ReadTruthful
<1>13. ring' = Trim(more)
  BY <1>2, <1>7 DEF ReadObs
<1> QED
  BY <1>11, <1>12, <1>13 DEF Labels, ReadObs, agent, caller

LEMMA ReturnCounted ==
  ASSUME Typed, Labels, NEW items \in Seq(Entry), Counted(items, number)
  PROVE  Counted(got \o items, number)
<1>1. got \in Seq(Entry) /\ Len(got) \in Nat /\ Len(items) \in Nat
  BY LenProperties DEF Typed, LogTypeOK
<1>2. /\ Len(got \o items) = Len(got) + Len(items)
      /\ \A i \in 1..Len(got) + Len(items) :
           (got \o items)[i] = IF i <= Len(got) THEN got[i] ELSE items[i - Len(got)]
  BY <1>1, ConcatProperties
<1>3. ASSUME NEW i \in 1..Len(got) + Len(items)
      PROVE  /\ (got \o items)[i].event \in DOMAIN number
             /\ number[(got \o items)[i].event] = (got \o items)[i].cursor
  <2>1. CASE i <= Len(got)
    <3>1. i \in 1..Len(got)
      BY <2>1, <1>1
    <3> QED
      BY <2>1, <3>1, <1>2 DEF Labels, Counted
  <2>2. CASE ~(i <= Len(got))
    <3>1. i - Len(got) \in 1..Len(items)
      BY <2>2, <1>1
    <3> QED
      BY <2>2, <3>1, <1>2 DEF Counted
  <2> QED
    BY <2>1, <2>2
<1> QED
  BY <1>2, <1>3 DEF Counted

LEMMA LabelsReadBatch ==
  ASSUME Sizes, Typed, Labels, ReadBatch
  PROVE  Labels'
<1>1. out # <<>> /\ out \in Seq(Obs \cup Batch) /\ out' = Tail(out)
  BY DEF ReadBatch, Typed, LogTypeOK
<1>2. PICK m : m = Head(out)
  OBVIOUS
<1>3. m \in Obs \cup Batch /\ 1 \in 1..Len(out) /\ m = out[1]
  BY <1>1, <1>2, Reading
<1>4. m.type = "EVENT_BATCH"
  BY <1>2 DEF ReadBatch
<1>5. m.items \in Seq(Entry)
  BY <1>3, <1>4, Kinds DEF IsObs
<1>6. Counted(m.items, number)
  BY <1>3, <1>4 DEF Labels, Truthful
<1>7. got' = got \o m.items \/ got' = got
  BY <1>2 DEF ReadBatch, Return
<1>8. Counted(got', number)
  BY <1>5, <1>6, <1>7, ReturnCounted DEF Labels
<1>9. \A i \in 1..Len(out') : Truthful(out'[i], number)
  BY <1>1, ReadTruthful
<1>10. UNCHANGED <<number, cursor, log, events, ring>>
  BY DEF ReadBatch, agent, bridge
<1> QED
  BY <1>8, <1>9, <1>10 DEF Labels

LEMMA LabelsFromRing ==
  ASSUME Sizes, Typed, Labels, FromRing
  PROVE  Labels'
<1>1. poll \in Request /\ ring \in Seq(Entry)
  BY DEF Typed, LogTypeOK, FromRing
<1>2. poll.since \in Nat /\ poll.limit \in Nat
  BY <1>1 DEF Request, Sizes
<1>3. PICK items : items = After(ring, poll.since, poll.limit)
  OBVIOUS
<1>4. items \in Seq(Entry)
  BY <1>1, <1>2, <1>3, AnswerType
<1>5. Counted(items, number)
  BY <1>1, <1>2, <1>3, AnswerCounted DEF Labels
<1>6. Counted(got \o items, number)
  BY <1>4, <1>5, ReturnCounted
<1>7. got' = got \o items
  BY <1>3 DEF FromRing, Return
<1>8. UNCHANGED <<number, cursor, log, events, ring, out>>
  BY DEF FromRing, agent, bridge, link
<1> QED
  BY <1>6, <1>7, <1>8 DEF Labels

LEMMA LabelsStep ==
  ASSUME Sizes, Typed, Labels, [LogNext]_logVars
  PROVE  Labels'
<1>1. ASSUME NEW limit \in Limits, GetEvents(limit)
      PROVE  Labels'
  BY <1>1 DEF Labels, GetEvents, agent, bridge
<1>2. CASE UNCHANGED logVars
  BY <1>2 DEF Labels, logVars, agent, link, bridge, caller
<1>3. CASE LogNext
  BY <1>1, <1>3, LabelsAddEvent, LabelsObserve, LabelsObserveInVain, LabelsSwitch, LabelsRestart,
     LabelsAnswer, LabelsConnection, LabelsReadObs, LabelsReadBatch, LabelsFromRing DEF LogNext
<1> QED
  BY <1>2, <1>3

-----------------------------------------------------------------------------
(* In one world                                                            *)

\* What one knows of the numbers there.
LEMMA InOneWorld ==
  ASSUME Typed, Labels, Stays
  PROVE  /\ cursor \in Nat /\ last \in Nat /\ since \in Nat /\ polls \in Nat
         /\ Len(events) \in Nat /\ Len(out) \in Nat /\ Len(number) \in Nat
         /\ DOMAIN number = 1..cursor /\ cursor = Len(number)
         /\ out \in Seq(Obs \cup Batch)
         /\ ring \in Seq(Entry) /\ log \in Seq(Entry) /\ got \in Seq(Entry)
<1>1. number \in Seq(Nat) /\ cursor = Len(number)
  BY DEF Typed, LogTypeOK, Stays
<1>2. DOMAIN number = 1..cursor /\ Len(number) \in Nat
  BY <1>1, LenProperties
<1>3. /\ last \in Nat /\ since \in Nat /\ polls \in 0..MaxPolls
      /\ events \in Seq(1..MaxEvents) /\ out \in Seq(Obs \cup Batch)
      /\ ring \in Seq(Entry) /\ log \in Seq(Entry) /\ got \in Seq(Entry)
  BY DEF Typed, LogTypeOK
<1> QED
  BY <1>1, <1>2, <1>3, LenProperties

\* An event is its number.
LEMMA EventIsCursor ==
  ASSUME Stays, NEW entries, Counted(entries, number), NEW i \in 1..Len(entries)
  PROVE  entries[i].event = entries[i].cursor
  BY DEF Stays, Counted

LEMMA EventAnnounced ==
  ASSUME Stays, NEW es, NEW c, Announced(es, c, number), NEW i \in 1..Len(es)
  PROVE  es[i] = c - Len(es) + i
  BY DEF Stays, Announced

LEMMA MessageFacts ==
  ASSUME Typed, Labels, NEW i \in 1..Len(out)
  PROVE  /\ out[i] \in Obs \cup Batch
         /\ IsObs(out[i]) => /\ Announced(out[i].events, out[i].cursor, number)
                             /\ out[i].events \in Seq(1..MaxEvents)
                             /\ out[i].cursor \in Nat /\ Len(out[i].events) \in Nat
         /\ ~IsObs(out[i]) => /\ Counted(out[i].items, number)
                              /\ out[i].items \in Seq(Entry) /\ out[i].next \in Nat
                              /\ out[i].req \in Nat
<1>1. out[i] \in Obs \cup Batch
  BY ElementOfSeq DEF Typed, LogTypeOK
<1>2. PICK m : m = out[i]
  OBVIOUS
<1>3. Truthful(m, number)
  BY <1>2 DEF Labels
<1>4. IsObs(m) => Announced(m.events, m.cursor, number)
  BY <1>3 DEF Truthful, IsObs
<1>5. CASE IsObs(m)
  <2>1. /\ m.events \in Seq(1..MaxEvents) /\ m.cursor \in Nat /\ Len(m.events) \in Nat
    BY <1>1, <1>2, <1>5, Kinds
  <2> QED
    BY <1>1, <1>2, <1>4, <1>5, <2>1
<1>6. CASE ~IsObs(m)
  <2>1. /\ m.type = "EVENT_BATCH" /\ m.req \in 1..MaxPolls
        /\ m.items \in Seq(Entry) /\ m.next \in Nat
    BY <1>1, <1>2, <1>6, Kinds
  <2>2. Counted(m.items, number) /\ m.req \in Nat
    BY <1>3, <2>1 DEF Truthful
  <2> QED
    BY <1>1, <1>2, <1>6, <2>1, <2>2
<1> QED
  BY <1>5, <1>6

LEMMA CompleteMore ==
  ASSUME NEW entries, NEW b, NEW c, NEW S, NEW T, S \subseteq T, Complete(entries, b, c, S)
  PROVE  Complete(entries, b, c, T)
  BY DEF Complete

\* An answer stays right while events are added or lost.
LEMMA FitsMore ==
  ASSUME NEW c \in Nat, NEW d \in Nat, c <= d, NEW S, NEW T, S \subseteq T,
         NEW items, NEW next \in Nat, NEW b, Fits(items, next, b, c, S)
  PROVE  Fits(items, next, b, d, T)
<1>1. Complete(items, b, next, T)
  BY CompleteMore DEF Fits
<1>2. next <= d
  BY DEF Fits
<1> QED
  BY <1>1, <1>2 DEF Fits

Answers(m) ==
  m.req <= polls /\ (WaitsFor(poll, m.req) => Fits(m.items, m.next, since, cursor, gone))

\* The call under way goes on waiting.
LEMMA StillAwaited ==
  ASSUME Typed, Labels, Stays, cursor' \in Nat, cursor <= cursor', gone \subseteq gone',
         UNCHANGED <<polls, poll, since>>,
         \A i \in 1..Len(requests') : \E j \in 1..Len(requests) : requests'[i] = requests[j],
         \A i \in 1..Len(out') :
           \/ IsObs(out'[i])
           \/ \E j \in 1..Len(out) : out'[i] = out[j]
           \/ out'[i].next \in Nat /\ Answers(out'[i])
  PROVE  Awaited'
<1>1. poll' # NoPoll => poll'.since = since' /\ poll'.req <= polls'
  BY DEF Stays, Awaited
<1>2. ASSUME NEW i \in 1..Len(requests')
      PROVE  /\ requests'[i].req <= polls'
             /\ WaitsFor(poll', requests'[i].req) => requests'[i].since = since'
  <2>1. PICK j \in 1..Len(requests) : requests'[i] = requests[j]
    OBVIOUS
  <2>2. requests[j].req <= polls /\ (WaitsFor(poll, requests[j].req) => requests[j].since = since)
    BY DEF Stays, Awaited
  <2> QED
    BY <2>1, <2>2
<1>3. ASSUME NEW i \in 1..Len(out'), ~IsObs(out'[i])
      PROVE  /\ out'[i].req <= polls'
             /\ WaitsFor(poll', out'[i].req) =>
                  Fits(out'[i].items, out'[i].next, since', cursor', gone')
  <2>1. PICK m : m = out'[i]
    OBVIOUS
  <2>2. m.next \in Nat /\ Answers(m)
    <3>1. CASE \E j \in 1..Len(out) : m = out[j]
      <4>1. PICK j \in 1..Len(out) : m = out[j]
        BY <3>1
      <4>2. m.next \in Nat
        BY <4>1, <2>1, <1>3, MessageFacts
      <4>3. Answers(m)
        BY <4>1, <2>1, <1>3 DEF Stays, Awaited, Answers
      <4> QED
        BY <4>2, <4>3
    <3> QED
      BY <3>1, <2>1, <1>3
  <2>3. m.req <= polls'
    BY <2>2 DEF Answers
  <2>4. ASSUME WaitsFor(poll, m.req)
        PROVE  Fits(m.items, m.next, since, cursor', gone')
    <3>1. Fits(m.items, m.next, since, cursor, gone)
      BY <2>2, <2>4 DEF Answers
    <3>2. cursor \in Nat
      BY InOneWorld
    <3> QED
      BY <3>1, <3>2, <2>2, FitsMore
  <2> QED
    BY <2>1, <2>3, <2>4
<1> QED
  BY <1>1, <1>2, <1>3 DEF Awaited

\* The channel keeps its order when messages leave it and another joins.
LEMMA StillChained ==
  ASSUME Typed, Labels, Stays, NEW k \in Nat, NEW m \in Obs \cup Batch,
         MovedUp(out, out', k, m), UNCHANGED <<last, cursor>>,
         \/ ~IsObs(m) /\ events' = events
         \/ m.events = events /\ m.cursor = cursor /\ events' = <<>>
  PROVE  Chained'
<1>1. /\ last + Len(events) <= cursor /\ last \in Nat /\ Len(events) \in Nat /\ cursor \in Nat
      /\ Len(events') \in Nat /\ Len(events') <= Len(events)
  BY InOneWorld DEF Stays, Chained
<1>2. last' + Len(events') <= cursor'
  BY <1>1
<1>3. ASSUME NEW i \in 1..Len(out'), IsObs(out'[i])
      PROVE  /\ last + Len(out'[i].events) <= out'[i].cursor
             /\ out'[i].cursor + Len(events') <= cursor
  <2>1. CASE i + k \in 1..Len(out) /\ out'[i] = out[i + k]
    <3>1. PICK n : n = out[i + k]
      OBVIOUS
    <3>2. n.cursor \in Nat /\ last + Len(n.events) <= n.cursor /\ n.cursor + Len(events) <= cursor
      BY <2>1, <3>1, <1>3, MessageFacts DEF Stays, Chained
    <3> QED
      BY <2>1, <3>1, <3>2, <1>1
  <2>2. CASE out'[i] = m
    <3>1. m.events = events /\ m.cursor = cursor /\ events' = <<>>
      BY <2>2, <1>3
    <3> QED
      BY <3>1, <2>2, <1>1
  <2> QED
    BY <2>1, <2>2 DEF MovedUp
<1>4. ASSUME NEW i \in 1..Len(out'), NEW j \in 1..Len(out'), i < j, IsObs(out'[i]), IsObs(out'[j])
      PROVE  out'[i].cursor + Len(out'[j].events) <= out'[j].cursor
  <2>1. i + k \in 1..Len(out) /\ out'[i] = out[i + k]
    BY <1>4 DEF MovedUp
  <2>2. CASE j + k \in 1..Len(out) /\ out'[j] = out[j + k]
    <3>1. i + k < j + k
      BY <1>4
    <3> QED
      BY <2>1, <2>2, <3>1, <1>4 DEF Stays, Chained
  <2>3. CASE out'[j] = m
    <3>1. m.events = events /\ m.cursor = cursor
      BY <2>3, <1>4
    <3> QED
      BY <3>1, <2>1, <2>3, <1>4 DEF Stays, Chained
  <2> QED
    BY <2>2, <2>3 DEF MovedUp
<1> QED
  BY <1>2, <1>3, <1>4 DEF Chained

\* The messages behind a sent one.
LEMMA SentMessages ==
  ASSUME NEW k \in Nat, NEW m, MovedUp(out, out', k, m), NEW i \in 1..Len(out')
  PROVE  (\E j \in 1..Len(out) : out'[i] = out[j]) \/ out'[i] = m
  BY DEF MovedUp

LEMMA StaysAddEvent ==
  ASSUME Sizes, Typed, Labels, Stays, AddEvent
  PROVE  Stays'
<1>0. /\ cursor \in Nat /\ last \in Nat /\ since \in Nat /\ Len(events) \in Nat
      /\ DOMAIN number = 1..cursor /\ cursor = Len(number) /\ log \in Seq(Entry)
      /\ since <= cursor /\ \A e \in 1..cursor : number[e] = e
  BY InOneWorld DEF Stays
<1>1. /\ number' = Append(number, cursor + 1) /\ cursor' = cursor + 1
      /\ events' = Append(events, cursor + 1) /\ log' = Trim(Grown)
      /\ gone' = gone \cup Trimmed(Grown)
      /\ UNCHANGED <<ring, last, got, since, poll, polls, out, requests>>
  BY <1>0 DEF AddEvent, link, bridge, caller
<1>2. cursor' = Len(number') /\ DOMAIN number' = 1..cursor + 1 /\ \A e \in 1..cursor + 1 : number'[e] = e
  <2>1. number \in Seq(Nat) /\ cursor + 1 \in Nat
    BY <1>0 DEF Typed, LogTypeOK
  <2>2. /\ number'[cursor + 1] = cursor + 1 /\ DOMAIN number' = 1..cursor + 1
        /\ \A e \in 1..cursor : number'[e] = number[e]
    BY <1>0, <1>1, <2>1, NumberMore
  <2>3. Len(number') = cursor + 1
    BY <1>0, <1>1, <2>1
  <2> QED
    BY <1>0, <1>1, <2>2, <2>3
<1>3. /\ Grown \in Seq(Entry) /\ Len(Grown) = Len(log) + 1 /\ Len(log) \in Nat
      /\ \A i \in 1..Len(log) : Grown[i] = log[i]
      /\ Grown[Len(log) + 1] = [cursor |-> cursor + 1, event |-> cursor + 1]
  <2>1. Len(number) < MaxEvents
    BY DEF AddEvent
  <2> QED
    BY <2>1, <1>0, GrownType, LenProperties
<1>4. PICK grown : grown = Grown
  OBVIOUS
<1>5. grown[Len(log) + 1].cursor = cursor + 1 /\ grown[Len(log) + 1].event = cursor + 1
  BY <1>3, <1>4
<1>6. Within(log', 0, cursor')
  <2>0. \A i \in 1..Len(log) : log[i].cursor \in Nat
    BY <1>0, EntryTypes
  <2>1. \A i \in 1..Len(log) : 0 < log[i].cursor /\ log[i].cursor < cursor + 1
    BY <1>0, <2>0 DEF Stays, Within
  <2>2. \A i, j \in 1..Len(log) : i < j => log[i].cursor < log[j].cursor
    BY DEF Stays, Within
  <2>3. \A i \in 1..Len(grown) : i = Len(log) + 1 \/ i \in 1..Len(log)
    BY <1>3, <1>4
  <2>4. \A i \in 1..Len(grown) : 0 < grown[i].cursor /\ grown[i].cursor <= cursor + 1
    BY <1>0, <1>3, <1>4, <1>5, <2>0, <2>1, <2>3
  <2>5. ASSUME NEW i \in 1..Len(grown), NEW j \in 1..Len(grown), i < j
        PROVE  grown[i].cursor < grown[j].cursor
    <3>1. i \in 1..Len(log) /\ grown[i] = log[i]
      BY <1>3, <1>4, <2>5
    <3>2. CASE j = Len(log) + 1
      BY <3>1, <3>2, <1>5, <2>1
    <3>3. CASE j \in 1..Len(log)
      BY <3>1, <3>3, <1>3, <1>4, <2>2, <2>5
    <3> QED
      BY <3>2, <3>3, <2>3
  <2>6. Within(grown, 0, cursor + 1)
    BY <1>0, <2>4, <2>5 DEF Within
  <2> QED
    BY <1>1, <1>3, <1>4, <2>6, TrimWithin
<1>7. gone \subseteq gone' /\ Names(Grown) \subseteq Names(log') \cup gone'
  BY <1>1 DEF Trimmed
<1>8. Held'
  <2>1. Names(log) \cup {cursor + 1} \subseteq Names(Grown)
    <3>1. DOMAIN grown = 1..Len(log) + 1 /\ DOMAIN log = 1..Len(log)
      BY <1>0, <1>3, <1>4, LenProperties
    <3>2. Len(log) + 1 \in DOMAIN grown /\ \A i \in DOMAIN log : i \in DOMAIN grown /\ grown[i] = log[i]
      BY <3>1, <1>3, <1>4
    <3> QED
      BY <3>2, <1>4, <1>5 DEF Names
  <2>2. Elements(events) \cup {cursor + 1} \subseteq Elements(events')
    <3>1. events \in Seq(Int) /\ cursor + 1 \in Int
      <4>1. events \in Seq(1..MaxEvents)
        BY DEF Typed, LogTypeOK
      <4>2. 1..MaxEvents \subseteq Int
        OBVIOUS
      <4>3. events \in Seq(Int)
        BY <4>1, <4>2, SeqMonotonic
      <4> QED
        BY <4>3, <1>0
    <3>2. /\ Len(events') = Len(events) + 1 /\ events' \in Seq(Int)
          /\ \A i \in 1..Len(events) : events'[i] = events[i]
          /\ events'[Len(events) + 1] = cursor + 1
      BY <3>1, <1>0, <1>1
    <3>3. DOMAIN events' = 1..Len(events) + 1 /\ DOMAIN events = 1..Len(events)
      BY <3>1, <3>2, LenProperties
    <3>4. Len(events) + 1 \in DOMAIN events'
      BY <3>3, <1>0
    <3>5. \A i \in DOMAIN events : i \in DOMAIN events' /\ events'[i] = events[i]
      BY <3>2, <3>3, <1>0
    <3> QED
      BY <3>2, <3>4, <3>5 DEF Elements
  <2>3. ASSUME NEW e \in 1..cursor + 1
        PROVE  /\ e \in Names(log') \cup gone'
               /\ e \in Names(ring) \cup Contents(out) \cup Elements(events') \cup gone'
    <3>1. CASE e = cursor + 1
      BY <3>1, <1>7, <2>1, <2>2
    <3>2. CASE e # cursor + 1
      <4>1. e \in 1..cursor
        BY <3>2, <1>0
      <4>2. /\ e \in Names(log) \cup gone
            /\ e \in Names(ring) \cup Contents(out) \cup Elements(events) \cup gone
        BY <4>1, <1>0 DEF Stays, Held
      <4> QED
        BY <4>2, <1>7, <2>1, <2>2
    <3> QED
      BY <3>1, <3>2
  <2> QED
    BY <2>3, <1>1, <1>2 DEF Held
<1>9. Chained'
  <2>1. Len(events') = Len(events) + 1
    BY <1>0, <1>1 DEF Typed, LogTypeOK
  <2>2. \A i \in 1..Len(out) : IsObs(out[i]) => out[i].cursor \in Nat
    BY MessageFacts
  <2>3. last + Len(events') <= cursor + 1
    BY <2>1, <1>0 DEF Stays, Chained
  <2>4. \A i \in 1..Len(out) : IsObs(out[i]) => out[i].cursor + Len(events') <= cursor + 1
    BY <2>1, <2>2, <1>0 DEF Stays, Chained
  <2>5. \A i \in 1..Len(out) : IsObs(out[i]) => last + Len(out[i].events) <= out[i].cursor
    BY DEF Stays, Chained
  <2>6. \A i, j \in 1..Len(out) : i < j /\ IsObs(out[i]) /\ IsObs(out[j]) =>
          out[i].cursor + Len(out[j].events) <= out[j].cursor
    BY DEF Stays, Chained
  <2> QED
    BY <2>3, <2>4, <2>5, <2>6, <1>1 DEF Chained
<1>10. Awaited'
  <2>1. cursor' \in Nat /\ cursor <= cursor'
    BY <1>0, <1>1
  <2> QED
    BY <2>1, <1>1, <1>7, StillAwaited
<1>11. Complete(got, 0, since, gone')
  BY <1>7, CompleteMore DEF Stays
<1>12. since' <= cursor'
  BY <1>0, <1>1
<1> QED
  BY <1>1, <1>2, <1>6, <1>8, <1>9, <1>10, <1>11, <1>12 DEF Stays

\* Of an event that was sent, kept or lost.
LEMMA StillHeld ==
  ASSUME Stays, UNCHANGED <<number, log, ring>>, gone \subseteq gone',
         Contents(out) \cup Elements(events) \subseteq Contents(out') \cup Elements(events') \cup gone'
  PROVE  Held'
  BY DEF Stays, Held

LEMMA StaysObserve ==
  ASSUME Sizes, Typed, Labels, Stays, Observe
  PROVE  Stays'
<1>1. PICK m : m = [type |-> "OBS", events |-> events, cursor |-> cursor]
  OBVIOUS
<1>2. m \in Obs \cup Batch /\ SendLatest(m)
  BY <1>1, ObserveMessage DEF Observe
<1>3. /\ events' = <<>>
      /\ UNCHANGED <<number, cursor, log, ring, last, got, since, poll, polls, requests>>
  BY DEF Observe, bridge, caller
<1>4. out \in Seq(Obs \cup Batch) /\ Len(out) <= OutCap /\ cursor \in Nat
  BY DEF Typed, LogTypeOK
<1>5. /\ gone \subseteq gone'
      /\ Contents(out) \cup CarriedEvents(m) \subseteq Contents(out') \cup gone'
  BY <1>2, <1>4, Sending
<1>6. PICK k \in {0, 1} : MovedUp(out, out', k, m)
  BY <1>2, <1>4, Sending
<1>7. m.events = events /\ m.cursor = cursor /\ IsObs(m) /\ CarriedEvents(m) = Elements(events)
  BY <1>1 DEF IsObs, CarriedEvents
<1>8. Chained'
  BY <1>2, <1>3, <1>6, <1>7, StillChained
<1>9. Held'
  BY <1>3, <1>5, <1>7, StillHeld
<1>10. Awaited'
  <2>1. \A i \in 1..Len(out') : IsObs(out'[i]) \/ \E j \in 1..Len(out) : out'[i] = out[j]
    BY <1>6, <1>7, SentMessages
  <2> QED
    BY <2>1, <1>3, <1>4, <1>5, StillAwaited
<1>11. Complete(got, 0, since, gone')
  BY <1>5, CompleteMore DEF Stays
<1> QED
  BY <1>3, <1>8, <1>9, <1>10, <1>11 DEF Stays

LEMMA StaysObserveInVain ==
  ASSUME Typed, Labels, Stays, ObserveInVain
  PROVE  Stays'
<1>1. /\ events' = <<>> /\ gone' = gone \cup Elements(events)
      /\ UNCHANGED <<number, cursor, log, ring, last, got, since, poll, polls, out, requests>>
  BY DEF ObserveInVain, link, bridge, caller
<1>2. Held'
  BY <1>1, StillHeld
<1>3. Chained'
  <2>1. /\ last \in Nat /\ cursor \in Nat /\ Len(events) \in Nat /\ Len(events') = 0
        /\ \A i \in 1..Len(out) : IsObs(out[i]) => out[i].cursor \in Nat
    BY <1>1, InOneWorld, MessageFacts
  <2>2. last + Len(events') <= cursor
    BY <2>1 DEF Stays, Chained
  <2>3. \A i \in 1..Len(out) : IsObs(out[i]) => out[i].cursor + Len(events') <= cursor
    BY <2>1 DEF Stays, Chained
  <2> QED
    BY <2>2, <2>3, <1>1 DEF Stays, Chained
<1>4. Awaited'
  <2>1. cursor \in Nat
    BY InOneWorld
  <2> QED
    BY <2>1, <1>1, StillAwaited
<1>5. Complete(got, 0, since, gone')
  BY <1>1, CompleteMore DEF Stays
<1> QED
  BY <1>1, <1>2, <1>3, <1>4, <1>5 DEF Stays

\* The world answers what its log has after the caller's cursor.
LEMMA AnswerRight ==
  ASSUME Sizes, Typed, Labels, Stays, requests # <<>>, NEW r, r = Head(requests)
  PROVE  /\ Answers(BatchMessage(r, After(log, r.since, r.limit)))
         /\ Answers(BatchMessage(r, <<>>))
<1>1. /\ r \in Request /\ r.req <= polls /\ (WaitsFor(poll, r.req) => r.since = since)
  BY OldestRequest DEF Stays, Awaited
<1>2. /\ cursor \in Nat /\ since \in Nat /\ since <= cursor /\ log \in Seq(Entry)
      /\ DOMAIN number = 1..cursor
  BY InOneWorld DEF Stays
<1>3. r.since \in Nat /\ r.limit \in Nat \ {0} /\ NextCursor(<<>>, r.since) = r.since
  BY <1>1, <1>2, AnswerMessage
<1>4. ASSUME WaitsFor(poll, r.req)
      PROVE  Fits(<<>>, r.since, since, cursor, gone)
  <2>1. r.since = since
    BY <1>1, <1>4
  <2>2. Within(<<>>, since, since)
    BY <1>2 DEF Within
  <2>3. Complete(<<>>, since, since, gone)
    BY <1>2 DEF Complete
  <2> QED
    BY <2>1, <2>2, <2>3, <1>2 DEF Fits
<1>5. PICK items, next : items = After(log, r.since, r.limit) /\ next = NextCursor(items, r.since)
  OBVIOUS
<1>6. ASSUME WaitsFor(poll, r.req)
      PROVE  Fits(items, next, since, cursor, gone)
  <2>1. r.since = since
    BY <1>1, <1>6
  <2>2. Within(log, 0, cursor) /\ r.limit \in Nat
    BY <1>3 DEF Stays
  <2>3. Within(items, since, next) /\ (next <= cursor \/ next = since)
    BY <2>1, <2>2, <1>2, <1>3, <1>5, AnswerWithin
  <2>4. next \in Nat
    BY <1>2, <1>3, <1>5, AnswerType
  <2>5. ASSUME NEW e \in Nat, since < e, e <= next
        PROVE  e \in Names(items) \cup gone
    <3>1. e \in DOMAIN number
      BY <2>3, <2>4, <2>5, <1>2
    <3>2. CASE e \in gone
      BY <3>2
    <3>3. CASE e \in Names(log)
      <4>1. PICK i \in 1..Len(log) : log[i].event = e
        BY <3>3, <1>2, LenProperties DEF Names
      <4>2. log[i].cursor = e
        BY <4>1, EventIsCursor DEF Labels
      <4> QED
        BY <4>1, <4>2, <2>1, <2>2, <2>5, <1>2, <1>3, <1>5, AnswerWhole
    <3> QED
      BY <3>1, <3>2, <3>3 DEF Stays, Held
  <2>6. Complete(items, since, next, gone)
    BY <2>5 DEF Complete
  <2> QED
    BY <2>3, <2>4, <2>6, <1>2 DEF Fits
<1>7. Answers(BatchMessage(r, items))
  BY <1>1, <1>5, <1>6 DEF Answers, BatchMessage
<1>8. Answers(BatchMessage(r, <<>>))
  BY <1>1, <1>3, <1>4 DEF Answers, BatchMessage
<1> QED
  BY <1>5, <1>7, <1>8

LEMMA StaysAnswer ==
  ASSUME Sizes, Typed, Labels, Stays, HandleEventBatchReq \/ EventBatchFails
  PROVE  Stays'
<1>1. requests # <<>> /\ requests' = Tail(requests)
  BY DEF HandleEventBatchReq, EventBatchFails
<1>2. PICK r : r = Head(requests)
  OBVIOUS
<1>3. r \in Request /\ log \in Seq(Entry)
  BY <1>1, <1>2, OldestRequest DEF Typed, LogTypeOK
<1>4. PICK m \in Batch : SendLatest(m) /\ Answers(m)
  <2>1. CASE HandleEventBatchReq
    <3>1. SendLatest(BatchMessage(r, After(log, r.since, r.limit)))
      BY <2>1, <1>2 DEF HandleEventBatchReq, BatchMessage
    <3> QED
      BY <3>1, <1>1, <1>2, <1>3, AnswerMessage, AnswerRight
  <2>2. CASE EventBatchFails
    <3>1. NextCursor(<<>>, r.since) = r.since
      BY DEF NextCursor
    <3>2. SendLatest(BatchMessage(r, <<>>))
      BY <2>2, <1>2, <3>1 DEF EventBatchFails, BatchMessage
    <3> QED
      BY <3>2, <1>1, <1>2, <1>3, AnswerMessage, AnswerRight
  <2> QED
    BY <2>1, <2>2
<1>5. /\ m \in Obs \cup Batch /\ ~IsObs(m) /\ m.next \in Nat /\ CarriedEvents(m) = {}
  BY DEF Batch, IsObs, CarriedEvents
<1>6. UNCHANGED <<number, cursor, log, events, ring, last, got, since, poll, polls>>
  BY DEF HandleEventBatchReq, EventBatchFails, agent, bridge, caller
<1>7. out \in Seq(Obs \cup Batch) /\ Len(out) <= OutCap /\ cursor \in Nat
  BY DEF Typed, LogTypeOK
<1>8. gone \subseteq gone' /\ Contents(out) \subseteq Contents(out') \cup gone'
  BY <1>4, <1>5, <1>7, Sending
<1>9. PICK k \in {0, 1} : MovedUp(out, out', k, m)
  BY <1>4, <1>5, <1>7, Sending
<1>10. Chained'
  BY <1>5, <1>6, <1>9, StillChained
<1>11. Held'
  BY <1>6, <1>8, StillHeld
<1>12. Awaited'
  <2>1. \A i \in 1..Len(out') :
          \/ \E j \in 1..Len(out) : out'[i] = out[j]
          \/ out'[i].next \in Nat /\ Answers(out'[i])
    BY <1>4, <1>5, <1>9, SentMessages
  <2>2. \A i \in 1..Len(requests') : \E j \in 1..Len(requests) : requests'[i] = requests[j]
    BY <1>1, OldestRequest
  <2> QED
    BY <2>1, <2>2, <1>6, <1>7, <1>8, StillAwaited
<1>13. Complete(got, 0, since, gone')
  BY <1>8, CompleteMore DEF Stays
<1> QED
  BY <1>6, <1>10, <1>11, <1>12, <1>13 DEF Stays

LEMMA StaysConnection ==
  ASSUME Typed, Labels, Stays, Disconnect \/ Reconnect
  PROVE  Stays'
<1>1. UNCHANGED <<number, cursor, log, events, ring, last, got, since, poll, polls>>
  BY DEF Disconnect, Reconnect, agent, bridge, caller
<1>2. /\ gone \subseteq gone'
      /\ \/ out' = <<>> /\ requests' = <<>> /\ Contents(out) \subseteq gone'
         \/ UNCHANGED <<out, requests>>
  BY DEF Disconnect, Reconnect, Contents
<1>3. Held'
  BY <1>1, <1>2, StillHeld
<1>4. Chained'
  BY <1>1, <1>2 DEF Stays, Chained
<1>5. Awaited'
  <2>1. /\ \A i \in 1..Len(requests') : \E j \in 1..Len(requests) : requests'[i] = requests[j]
        /\ \A i \in 1..Len(out') : \E j \in 1..Len(out) : out'[i] = out[j]
    BY <1>2
  <2>2. cursor \in Nat
    BY InOneWorld
  <2> QED
    BY <2>1, <2>2, <1>1, <1>2, StillAwaited
<1>6. Complete(got, 0, since, gone')
  BY <1>2, CompleteMore DEF Stays
<1> QED
  BY <1>1, <1>3, <1>4, <1>5, <1>6 DEF Stays

LEMMA StaysReadObs ==
  ASSUME Sizes, Typed, Labels, Stays, ReadObs
  PROVE  Stays'
<1>0. /\ cursor \in Nat /\ last \in Nat /\ Len(events) \in Nat /\ Len(out) \in Nat
      /\ out \in Seq(Obs \cup Batch) /\ ring \in Seq(Entry)
  BY InOneWorld
<1>1. out # <<>> /\ out' = Tail(out)
  BY DEF ReadObs
<1>2. PICK o : o = Head(out)
  OBVIOUS
<1>3. /\ 1 \in 1..Len(out) /\ o = out[1] /\ IsObs(o)
      /\ \A i \in 1..Len(out') : i + 1 \in 1..Len(out) /\ out'[i] = out[i + 1]
      /\ Contents(out) \subseteq Contents(out') \cup CarriedEvents(o)
  BY <1>0, <1>1, <1>2, Reading DEF ReadObs, IsObs
<1>4. /\ o \in Obs /\ o.cursor \in Nat /\ Len(o.events) \in Nat
      /\ o.events \in Seq(1..MaxEvents) /\ Announced(o.events, o.cursor, number)
  <2>1. o \in Obs \cup Batch
    BY <1>3, MessageFacts
  <2> QED
    BY <2>1, <1>3, Kinds, MessageFacts
<1>5. last + Len(o.events) <= o.cursor /\ o.cursor + Len(events) <= cursor
  BY <1>3 DEF Stays, Chained
<1>6. last' = o.cursor
  <2>1. last' = IF o.cursor > 0 THEN o.cursor ELSE last + Len(o.events)
    BY <1>2 DEF ReadObs
  <2> QED
    BY <2>1, <1>0, <1>4, <1>5
<1>7. PICK more : more = Appended(o)
  OBVIOUS
<1>8. /\ more \in Seq(Entry) /\ Len(more) = Len(ring) + Len(o.events) /\ Len(ring) \in Nat
      /\ \A i \in 1..Len(ring) : more[i] = ring[i]
      /\ \A i \in 1..Len(o.events) :
           more[Len(ring) + i]
             = [cursor |-> o.cursor - Len(o.events) + i, event |-> o.events[i]]
  BY <1>0, <1>4, <1>7, AppendedType, LenProperties DEF Announced
<1>9. ASSUME NEW i \in 1..Len(o.events)
      PROVE  more[Len(ring) + i].cursor = o.cursor - Len(o.events) + i
             /\ more[Len(ring) + i].event = o.events[i]
  <2>1. more[Len(ring) + i] = [cursor |-> o.cursor - Len(o.events) + i, event |-> o.events[i]]
    BY <1>8
  <2> QED
    BY <2>1
<1>10. ASSUME NEW i \in 1..Len(more), i \notin 1..Len(ring)
       PROVE  i - Len(ring) \in 1..Len(o.events) /\ i = Len(ring) + (i - Len(ring))
  BY <1>4, <1>8, <1>10
<1>11. ring' = Trim(more) /\ gone' = gone \cup Trimmed(more)
       /\ UNCHANGED <<number, cursor, log, events, got, since, poll, polls, requests>>
  BY <1>2, <1>7 DEF ReadObs, agent, caller
<1>12. Within(ring', 0, last')
  <2>0. \A i \in 1..Len(ring) : ring[i].cursor \in Nat /\ 0 < ring[i].cursor /\ ring[i].cursor <= last
    BY <1>0, EntryTypes DEF Stays, Within
  <2>1. ASSUME NEW i \in 1..Len(more)
        PROVE  0 < more[i].cursor /\ more[i].cursor <= o.cursor
    <3>1. CASE i \in 1..Len(ring)
      <4>1. more[i] = ring[i] /\ last <= o.cursor
        BY <3>1, <1>0, <1>4, <1>5, <1>8
      <4> QED
        BY <3>1, <4>1, <2>0, <1>0, <1>4
    <3>2. CASE i \notin 1..Len(ring)
      <4>1. PICK j \in 1..Len(o.events) : i = Len(ring) + j
        BY <3>2, <1>10
      <4>2. more[i].cursor = o.cursor - Len(o.events) + j
        BY <4>1, <1>9
      <4> QED
        BY <4>2, <1>0, <1>4, <1>5
    <3> QED
      BY <3>1, <3>2
  <2>2. ASSUME NEW i \in 1..Len(more), NEW j \in 1..Len(more), i < j
        PROVE  more[i].cursor < more[j].cursor
    <3>1. CASE j \in 1..Len(ring)
      <4>1. i \in 1..Len(ring)
        BY <3>1, <2>2, <1>8
      <4> QED
        BY <3>1, <4>1, <2>2, <1>8 DEF Stays, Within
    <3>2. CASE j \notin 1..Len(ring)
      <4>1. PICK l \in 1..Len(o.events) : j = Len(ring) + l
        BY <3>2, <1>10
      <4>2. more[j].cursor = o.cursor - Len(o.events) + l
        BY <4>1, <1>9
      <4>3. CASE i \in 1..Len(ring)
        <5>1. more[i] = ring[i] /\ last < o.cursor - Len(o.events) + l
          BY <4>3, <1>0, <1>4, <1>5, <1>8
        <5>2. ring[i].cursor \in Nat /\ ring[i].cursor <= last
          BY <4>3, <2>0
        <5>3. more[i].cursor = ring[i].cursor
          BY <5>1
        <5>4. ring[i].cursor < o.cursor - Len(o.events) + l
          BY <5>1, <5>2, <1>0, <1>4
        <5> QED
          BY <4>2, <5>3, <5>4
      <4>4. CASE i \notin 1..Len(ring)
        <5>1. PICK k \in 1..Len(o.events) : i = Len(ring) + k
          BY <4>4, <1>10
        <5>2. more[i].cursor = o.cursor - Len(o.events) + k
          BY <5>1, <1>9
        <5> QED
          BY <5>1, <5>2, <4>1, <4>2, <2>2, <1>4, <1>8
      <4> QED
        BY <4>3, <4>4
    <3> QED
      BY <3>1, <3>2
  <2>3. Within(more, 0, o.cursor)
    BY <1>4, <2>1, <2>2 DEF Within
  <2> QED
    BY <2>3, <1>6, <1>8, <1>11, TrimWithin
<1>13. gone \subseteq gone' /\ Names(more) \subseteq Names(ring') \cup gone'
  BY <1>11 DEF Trimmed
<1>14. Names(ring) \cup CarriedEvents(o) \subseteq Names(more)
  <2>1. DOMAIN more = 1..Len(more) /\ DOMAIN ring = 1..Len(ring) /\ DOMAIN o.events = 1..Len(o.events)
    BY <1>0, <1>4, <1>8, LenProperties
  <2>2. \A i \in DOMAIN ring : i \in DOMAIN more /\ more[i] = ring[i]
    BY <2>1, <1>4, <1>8
  <2>3. \A i \in DOMAIN o.events : Len(ring) + i \in DOMAIN more /\ more[Len(ring) + i].event = o.events[i]
    <3>1. \A i \in 1..Len(o.events) : Len(ring) + i \in 1..Len(more)
      BY <1>4, <1>8
    <3>2. \A i \in 1..Len(o.events) : more[Len(ring) + i].event = o.events[i]
      BY <1>9
    <3> QED
      BY <2>1, <3>1, <3>2
  <2>4. Names(ring) \subseteq Names(more)
    BY <2>2 DEF Names
  <2>5. Elements(o.events) \subseteq Names(more)
    BY <2>3 DEF Names, Elements
  <2>6. CarriedEvents(o) = Elements(o.events)
    BY <1>3 DEF CarriedEvents, IsObs
  <2> QED
    BY <2>4, <2>5, <2>6
<1>15. Held'
  BY <1>3, <1>11, <1>13, <1>14 DEF Stays, Held
<1>16. Chained'
  <2>1. last' + Len(events) <= cursor
    BY <1>5, <1>6
  <2>2. ASSUME NEW i \in 1..Len(out'), IsObs(out'[i])
        PROVE  /\ last' + Len(out'[i].events) <= out'[i].cursor
               /\ out'[i].cursor + Len(events) <= cursor
    <3>1. i + 1 \in 1..Len(out) /\ out'[i] = out[i + 1] /\ 1 < i + 1
      BY <1>3
    <3> QED
      BY <3>1, <2>2, <1>3, <1>6 DEF Stays, Chained
  <2>3. ASSUME NEW i \in 1..Len(out'), NEW j \in 1..Len(out'), i < j, IsObs(out'[i]), IsObs(out'[j])
        PROVE  out'[i].cursor + Len(out'[j].events) <= out'[j].cursor
    <3>1. /\ i + 1 \in 1..Len(out) /\ out'[i] = out[i + 1]
          /\ j + 1 \in 1..Len(out) /\ out'[j] = out[j + 1] /\ i + 1 < j + 1
      BY <1>3, <2>3
    <3> QED
      BY <3>1, <2>3 DEF Stays, Chained
  <2> QED
    BY <2>1, <2>2, <2>3, <1>11 DEF Chained
<1>17. Awaited'
  BY <1>0, <1>3, <1>11, <1>13, StillAwaited
<1>18. Complete(got, 0, since, gone')
  BY <1>13, CompleteMore DEF Stays
<1> QED
  BY <1>11, <1>12, <1>15, <1>16, <1>17, <1>18 DEF Stays

\* What a call returns follows what the caller has.
LEMMA ReturnStays ==
  ASSUME Typed, Labels, Stays, NEW items \in Seq(Entry), NEW next \in Nat,
         Fits(items, next, since, cursor, gone)
  PROVE  /\ Within(got \o items, 0, next) /\ next <= cursor
         /\ Complete(got \o items, 0, next, gone)
<1>0. /\ since \in Nat /\ got \in Seq(Entry) /\ Len(got) \in Nat /\ Len(items) \in Nat
      /\ DOMAIN got = 1..Len(got) /\ DOMAIN items = 1..Len(items)
  BY InOneWorld, LenProperties
<1>1. PICK all : all = got \o items
  OBVIOUS
<1>2. /\ all \in Seq(Entry) /\ Len(all) = Len(got) + Len(items)
      /\ DOMAIN all = 1..Len(got) + Len(items)
      /\ \A i \in 1..Len(got) + Len(items) : all[i] = IF i <= Len(got) THEN got[i] ELSE items[i - Len(got)]
  <2>1. /\ all \in Seq(Entry) /\ Len(all) = Len(got) + Len(items)
        /\ \A i \in 1..Len(got) + Len(items) : all[i] = IF i <= Len(got) THEN got[i] ELSE items[i - Len(got)]
    BY <1>0, <1>1, ConcatProperties
  <2> QED
    BY <2>1, LenProperties
<1>3. \A i \in 1..Len(got) : all[i] = got[i] /\ i \in 1..Len(all)
  BY <1>0, <1>2
<1>4. \A i \in 1..Len(items) : all[Len(got) + i] = items[i] /\ Len(got) + i \in 1..Len(all)
  BY <1>0, <1>2
<1>5. ASSUME NEW i \in 1..Len(all), i \notin 1..Len(got)
      PROVE  \E j \in 1..Len(items) : i = Len(got) + j
  <2>1. i - Len(got) \in 1..Len(items) /\ i = Len(got) + (i - Len(got))
    BY <1>0, <1>2, <1>5
  <2> QED
    BY <2>1
<1>6. /\ \A i \in 1..Len(got) : got[i].cursor \in Nat /\ 0 < got[i].cursor /\ got[i].cursor <= since
      /\ \A i, j \in 1..Len(got) : i < j => got[i].cursor < got[j].cursor
  BY <1>0, EntryTypes DEF Stays, Within
<1>7. /\ \A i \in 1..Len(items) : items[i].cursor \in Nat /\ since < items[i].cursor /\ items[i].cursor <= next
      /\ \A i, j \in 1..Len(items) : i < j => items[i].cursor < items[j].cursor
      /\ since <= next /\ next <= cursor
  BY <1>0, EntryTypes DEF Fits, Within
<1>8. ASSUME NEW i \in 1..Len(all)
      PROVE  0 < all[i].cursor /\ all[i].cursor <= next
  <2>1. CASE i \in 1..Len(got)
    BY <2>1, <1>0, <1>3, <1>6, <1>7
  <2>2. CASE i \notin 1..Len(got)
    <3>1. PICK j \in 1..Len(items) : i = Len(got) + j
      BY <2>2, <1>5
    <3> QED
      BY <3>1, <1>0, <1>4, <1>7
  <2> QED
    BY <2>1, <2>2
<1>9. ASSUME NEW i \in 1..Len(all), NEW j \in 1..Len(all), i < j
      PROVE  all[i].cursor < all[j].cursor
  <2>1. CASE j \in 1..Len(got)
    <3>1. i \in 1..Len(got)
      BY <2>1, <1>0, <1>9
    <3> QED
      BY <2>1, <3>1, <1>3, <1>6, <1>9
  <2>2. CASE j \notin 1..Len(got)
    <3>1. PICK l \in 1..Len(items) : j = Len(got) + l
      BY <2>2, <1>5
    <3>2. all[j].cursor = items[l].cursor
      BY <3>1, <1>4
    <3>3. CASE i \in 1..Len(got)
      <4>1. all[i].cursor = got[i].cursor
        BY <3>3, <1>3
      <4> QED
        BY <4>1, <3>2, <3>3, <1>0, <1>6, <1>7
    <3>4. CASE i \notin 1..Len(got)
      <4>1. PICK k \in 1..Len(items) : i = Len(got) + k
        BY <3>4, <1>5
      <4>2. all[i].cursor = items[k].cursor /\ k < l
        BY <4>1, <3>1, <1>0, <1>4, <1>9
      <4> QED
        BY <4>2, <3>2, <1>7
    <3> QED
      BY <3>3, <3>4
  <2> QED
    BY <2>1, <2>2
<1>10. Within(all, 0, next)
  BY <1>8, <1>9 DEF Within
<1>11. Names(got) \cup Names(items) \subseteq Names(all)
  <2>1. Names(got) \subseteq Names(all)
    BY <1>0, <1>2, <1>3 DEF Names
  <2>2. Names(items) \subseteq Names(all)
    <3>1. \A i \in DOMAIN items : Len(got) + i \in DOMAIN all /\ all[Len(got) + i] = items[i]
      BY <1>0, <1>2, <1>4
    <3> QED
      BY <3>1 DEF Names
  <2> QED
    BY <2>1, <2>2
<1>12. ASSUME NEW e \in Nat, 0 < e, e <= next
       PROVE  e \in Names(all) \cup gone
  <2>1. CASE e <= since
    <3>1. e \in Names(got) \cup gone
      BY <2>1, <1>12 DEF Stays, Complete
    <3> QED
      BY <3>1, <1>11
  <2>2. CASE ~(e <= since)
    <3>1. e \in Names(items) \cup gone
      BY <2>2, <1>0, <1>12 DEF Fits, Complete
    <3> QED
      BY <3>1, <1>11
  <2> QED
    BY <2>1, <2>2
<1>13. Complete(all, 0, next, gone)
  BY <1>12 DEF Complete
<1> QED
  BY <1>1, <1>7, <1>10, <1>13

LEMMA StaysReadBatch ==
  ASSUME Sizes, Typed, Labels, Stays, ReadBatch
  PROVE  Stays'
<1>0. cursor \in Nat /\ out \in Seq(Obs \cup Batch)
  BY InOneWorld
<1>1. out # <<>> /\ out' = Tail(out)
  BY DEF ReadBatch
<1>2. PICK m : m = Head(out)
  OBVIOUS
<1>3. /\ 1 \in 1..Len(out) /\ m = out[1]
      /\ \A i \in 1..Len(out') : i + 1 \in 1..Len(out) /\ out'[i] = out[i + 1]
      /\ Contents(out) \subseteq Contents(out') \cup CarriedEvents(m)
  BY <1>0, <1>1, <1>2, Reading
<1>4. ~IsObs(m) /\ CarriedEvents(m) = {}
  BY <1>2 DEF ReadBatch, IsObs, CarriedEvents
<1>5. /\ m \in Obs \cup Batch /\ m.items \in Seq(Entry) /\ m.next \in Nat
  BY <1>3, <1>4, MessageFacts
<1>6. UNCHANGED <<number, cursor, log, events, ring, last, polls, requests, gone>>
  BY DEF ReadBatch, agent, bridge
<1>7. MovedUp(out, out', 1, m)
  BY <1>3 DEF MovedUp
<1>8. Chained'
  BY <1>4, <1>5, <1>6, <1>7, StillChained
<1>9. Held'
  BY <1>3, <1>4, <1>6, StillHeld
<1>10. CASE poll # NoPoll /\ poll.req = m.req
  <2>1. Return(m.items, m.next)
    BY <1>2, <1>10 DEF ReadBatch
  <2>2. got' = got \o m.items /\ since' = m.next /\ poll' = NoPoll
    BY <2>1 DEF Return
  <2>3. Fits(m.items, m.next, since, cursor, gone)
    BY <1>3, <1>4, <1>10 DEF Stays, Awaited, WaitsFor
  <2>4. Within(got', 0, since') /\ since' <= cursor /\ Complete(got', 0, since', gone)
    BY <2>2, <2>3, <1>5, ReturnStays
  <2>5. Awaited'
    <3>1. \A i \in 1..Len(requests) : requests[i].req <= polls
      BY DEF Stays, Awaited
    <3>2. \A i \in 1..Len(out') : ~IsObs(out'[i]) => out'[i].req <= polls
      BY <1>3 DEF Stays, Awaited
    <3> QED
      BY <3>1, <3>2, <2>2, <1>6 DEF Awaited, WaitsFor
  <2> QED
    BY <1>6, <1>8, <1>9, <2>4, <2>5 DEF Stays
<1>11. CASE ~(poll # NoPoll /\ poll.req = m.req)
  <2>1. UNCHANGED <<got, since, poll>>
    BY <1>2, <1>11 DEF ReadBatch
  <2>2. Awaited'
    BY <2>1, <1>0, <1>3, <1>6, StillAwaited
  <2> QED
    BY <2>1, <2>2, <1>6, <1>8, <1>9 DEF Stays
<1> QED
  BY <1>10, <1>11

LEMMA StaysGetEvents ==
  ASSUME Sizes, Typed, Labels, Stays, NEW limit \in Limits, GetEvents(limit)
  PROVE  Stays'
<1>0. polls \in Nat /\ since \in Nat /\ requests \in Seq(Request)
  BY InOneWorld DEF Typed, LogTypeOK
<1>1. PICK r : r = [req |-> polls + 1, since |-> since, limit |-> limit]
  OBVIOUS
<1>2. r.req = polls + 1 /\ r.since = since
  BY <1>1
<1>3. /\ polls' = polls + 1 /\ poll' = r
      /\ requests' = Append(requests, r) \/ requests' = requests
      /\ UNCHANGED <<number, cursor, log, events, ring, last, got, since, out, gone>>
  BY <1>1 DEF GetEvents, agent, bridge
<1>4. Chained' /\ Held'
  BY <1>3 DEF Stays, Chained, Held
<1>5. ASSUME NEW i \in 1..Len(requests')
      PROVE  /\ requests'[i].req <= polls'
             /\ WaitsFor(poll', requests'[i].req) => requests'[i].since = since'
  <2>1. requests'[i] = r \/ \E j \in 1..Len(requests) : requests'[i] = requests[j]
    <3>1. CASE requests' = requests
      BY <3>1
    <3>2. CASE requests' = Append(requests, r)
      <4>0. Len(requests) \in Nat /\ r \in Request
        <5>1. poll' \in Request \cup {NoPoll} /\ polls + 1 \in 1..MaxPolls
          BY <1>0, TypeGetEvents DEF Typed, LogTypeOK, GetEvents, Sizes
        <5> QED
          BY <5>1, <1>0, <1>1, LenProperties DEF Request
      <4>1. /\ Len(requests') = Len(requests) + 1
            /\ \A j \in 1..Len(requests) : requests'[j] = requests[j]
            /\ requests'[Len(requests) + 1] = r
        BY <3>2, <4>0, <1>0
      <4>2. i = Len(requests) + 1 \/ i \in 1..Len(requests)
        BY <4>0, <4>1
      <4> QED
        BY <4>1, <4>2
    <3> QED
      BY <3>1, <3>2, <1>3
  <2>2. CASE requests'[i] = r
    BY <2>2, <1>0, <1>2, <1>3
  <2>3. CASE \E j \in 1..Len(requests) : requests'[i] = requests[j]
    <3>1. PICK j \in 1..Len(requests) : requests'[i] = requests[j]
      BY <2>3
    <3>2. requests[j].req <= polls /\ requests[j].req \in Nat
      <4>1. requests[j] \in Request
        BY <1>0, ElementOfSeq
      <4> QED
        BY <4>1 DEF Request, Stays, Awaited
    <3>3. requests'[i].req <= polls' /\ requests'[i].req # polls + 1
      BY <3>1, <3>2, <1>0, <1>3
    <3> QED
      BY <3>3, <1>2, <1>3 DEF WaitsFor
  <2> QED
    BY <2>1, <2>2, <2>3
<1>6. ASSUME NEW i \in 1..Len(out), ~IsObs(out[i])
      PROVE  out[i].req <= polls' /\ ~WaitsFor(poll', out[i].req)
  <2>1. out[i].req <= polls /\ out[i].req \in Nat
    BY <1>6, MessageFacts DEF Stays, Awaited
  <2> QED
    BY <2>1, <1>0, <1>2, <1>3 DEF WaitsFor
<1>7. Awaited'
  <2>1. poll'.since = since' /\ poll'.req <= polls'
    BY <1>0, <1>2, <1>3
  <2> QED
    BY <2>1, <1>3, <1>5, <1>6 DEF Awaited
<1> QED
  BY <1>3, <1>4, <1>7 DEF Stays

\* So does the ring: what it lacks behind its last cursor is gone.
LEMMA RingRight ==
  ASSUME Sizes, Typed, Labels, Stays, NEW limit \in Nat \ {0}
  PROVE  LET items == After(ring, since, limit)
         IN  Fits(items, NextCursor(items, since), since, cursor, gone)
<1>0. /\ cursor \in Nat /\ since \in Nat /\ last \in Nat /\ since <= cursor /\ last <= cursor
      /\ ring \in Seq(Entry) /\ DOMAIN number = 1..cursor /\ Len(events) \in Nat
      /\ out \in Seq(Obs \cup Batch)
  BY InOneWorld DEF Stays, Chained
<1>1. PICK items, next : items = After(ring, since, limit) /\ next = NextCursor(items, since)
  OBVIOUS
<1>2. Within(ring, 0, last) /\ limit \in Nat
  BY DEF Stays
<1>3. Within(items, since, next) /\ (next <= last \/ next = since)
  BY <1>0, <1>1, <1>2, AnswerWithin
<1>4. next \in Nat
  BY <1>0, <1>1, AnswerType
<1>5. ASSUME NEW e \in Nat, since < e, e <= next
      PROVE  e \in Names(items) \cup gone
  <2>0. e <= last /\ e \in 1..cursor
    BY <1>0, <1>3, <1>4, <1>5
  <2>1. e \in Names(ring) \cup Contents(out) \cup Elements(events) \cup gone
    BY <2>0, <1>0 DEF Stays, Held
  <2>2. e \notin Contents(out)
    <3>1. SUFFICES ASSUME NEW i \in 1..Len(out), e \in CarriedEvents(out[i])
                   PROVE  FALSE
      BY <1>0, LenProperties DEF Contents
    <3>2. PICK m : m = out[i]
      OBVIOUS
    <3>3. IsObs(m) /\ e \in Elements(m.events)
      BY <3>1, <3>2 DEF CarriedEvents, IsObs
    <3>4. /\ Announced(m.events, m.cursor, number) /\ m.events \in Seq(1..MaxEvents)
          /\ m.cursor \in Nat /\ Len(m.events) \in Nat
          /\ last + Len(m.events) <= m.cursor
      BY <3>2, <3>3, MessageFacts DEF Stays, Chained
    <3>5. PICK k \in 1..Len(m.events) : m.events[k] = e
      BY <3>3, <3>4, LenProperties DEF Elements
    <3>6. e = m.cursor - Len(m.events) + k
      BY <3>4, <3>5, EventAnnounced
    <3> QED
      BY <3>4, <3>6, <2>0, <1>0
  <2>3. e \notin Elements(events)
    <3>1. SUFFICES ASSUME e \in Elements(events)
                   PROVE  FALSE
      OBVIOUS
    <3>2. events \in Seq(1..MaxEvents)
      BY DEF Typed, LogTypeOK
    <3>3. PICK k \in 1..Len(events) : events[k] = e
      BY <3>1, <3>2, LenProperties DEF Elements
    <3>4. e = cursor - Len(events) + k
      BY <3>3, EventAnnounced DEF Labels
    <3>5. last + Len(events) <= cursor
      BY DEF Stays, Chained
    <3> QED
      BY <3>4, <3>5, <2>0, <1>0
  <2>4. CASE e \in Names(ring)
    <3>1. PICK i \in 1..Len(ring) : ring[i].event = e
      BY <2>4, <1>0, LenProperties DEF Names
    <3>2. ring[i].cursor = e
      BY <3>1, EventIsCursor DEF Labels
    <3> QED
      BY <3>1, <3>2, <1>0, <1>1, <1>2, <1>5, AnswerWhole
  <2> QED
    BY <2>1, <2>2, <2>3, <2>4
<1>6. Complete(items, since, next, gone)
  BY <1>5 DEF Complete
<1>7. next <= cursor
  BY <1>0, <1>3, <1>4
<1> QED
  BY <1>1, <1>3, <1>6, <1>7 DEF Fits

LEMMA StaysFromRing ==
  ASSUME Sizes, Typed, Labels, Stays, FromRing
  PROVE  Stays'
<1>1. poll # NoPoll /\ poll \in Request /\ ring \in Seq(Entry) /\ since \in Nat
  BY DEF Typed, LogTypeOK, FromRing
<1>2. poll.limit \in Nat \ {0} /\ poll.since = since
  BY <1>1 DEF Request, Sizes, Stays, Awaited
<1>3. PICK items, next : items = After(ring, since, poll.limit) /\ next = NextCursor(items, since)
  OBVIOUS
<1>4. items \in Seq(Entry) /\ next \in Nat /\ Fits(items, next, since, cursor, gone)
  BY <1>1, <1>2, <1>3, AnswerType, RingRight
<1>5. got' = got \o items /\ since' = next /\ poll' = NoPoll
  BY <1>2, <1>3 DEF FromRing, Return
<1>6. UNCHANGED <<number, cursor, log, events, ring, last, polls, requests, out, gone>>
  BY DEF FromRing, agent, link, bridge
<1>7. Within(got', 0, since') /\ since' <= cursor /\ Complete(got', 0, since', gone)
  BY <1>4, <1>5, ReturnStays
<1>8. Awaited'
  BY <1>5, <1>6 DEF Stays, Awaited, WaitsFor
<1>9. Chained' /\ Held'
  BY <1>6 DEF Stays, Chained, Held
<1> QED
  BY <1>6, <1>7, <1>8, <1>9 DEF Stays

LEMMA StaysSame ==
  ASSUME Stays, UNCHANGED logVars
  PROVE  Stays'
<1>1. UNCHANGED <<number, cursor, log, events, ring, last, got, since, poll, polls, requests, out, gone>>
  BY DEF logVars, agent, link, bridge, caller
<1>2. Held' /\ Chained' /\ Awaited'
  BY <1>1 DEF Stays, Held, Chained, Awaited
<1> QED
  BY <1>1, <1>2 DEF Stays

LEMMA StaysStep ==
  ASSUME Sizes, Typed, Labels, moves = 0 => Stays, [LogNext]_logVars, moves' = 0
  PROVE  Stays'
<1>1. CASE Switch \/ Restart
  <2>1. moves \in Nat /\ moves' = moves + 1
    BY <1>1 DEF Typed, LogTypeOK, Switch, Restart
  <2> QED
    BY <2>1
<1>2. CASE ~(Switch \/ Restart)
  <2>1. Stays
    <3>1. moves' = moves
      BY <1>2 DEF LogNext, logVars, AddEvent, Observe, ObserveInVain,
         HandleEventBatchReq, EventBatchFails, Disconnect, Reconnect,
         ReadObs, ReadBatch, GetEvents, FromRing
    <3> QED
      BY <3>1
  <2>2. CASE LogNext
    BY <1>2, <2>1, <2>2, StaysAddEvent, StaysObserve, StaysObserveInVain, StaysAnswer,
       StaysConnection, StaysReadObs, StaysReadBatch, StaysGetEvents, StaysFromRing DEF LogNext
  <2>3. CASE UNCHANGED logVars
    BY <2>1, <2>3, StaysSame
  <2> QED
    BY <2>2, <2>3
<1> QED
  BY <1>1, <1>2

-----------------------------------------------------------------------------
(* Theorems about events                                                   *)

LEMMA EventInit ==
  ASSUME Sizes, LogInit
  PROVE  EventInv
<1>1. LogTypeOK
  <2>1. NoPoll \in Request \cup {NoPoll} /\ 0 \in 0..MaxMoves /\ 0 \in 0..MaxDrops /\ 0 \in 0..MaxPolls
    BY DEF Sizes
  <2> QED
    BY <2>1, EmptyChannel DEF LogInit, LogTypeOK
<1>2. Len(number) <= MaxEvents
  BY DEF LogInit, Sizes
<1>3. Labels
  BY DEF LogInit, Labels, Counted, Announced
<1>4. Within(<<>>, 0, 0) /\ Complete(<<>>, 0, 0, {})
  BY DEF Within, Complete
<1>5. Held /\ Chained /\ Awaited
  BY DEF LogInit, Held, Chained, Awaited
<1> QED
  BY <1>1, <1>2, <1>3, <1>4, <1>5 DEF EventInv, Stays, LogInit

LEMMA EventInductive == LogSpec => []EventInv
<1>1. LogInit => EventInv
  BY LogAssumption, EventInit
<1>2. EventInv /\ [LogNext]_logVars => EventInv'
  <2> SUFFICES ASSUME EventInv, [LogNext]_logVars PROVE EventInv'
    OBVIOUS
  <2>1. Typed /\ Labels /\ (moves = 0 => Stays)
    BY DEF EventInv, Typed
  <2>2. Typed' /\ Labels'
    BY LogAssumption, <2>1, EventTypeStep, LabelsStep
  <2>3. moves' = 0 => Stays'
    BY LogAssumption, <2>1, StaysStep
  <2> QED
    BY <2>2, <2>3 DEF EventInv, Typed
<1> QED
  BY <1>1, <1>2, PTL DEF LogSpec

\* Logs, messages, requests and cursors keep their types, and no log or channel
\* grows past its size.
THEOREM EventTypeCorrect == LogSpec => []LogTypeOK
<1>1. EventInv => LogTypeOK
  BY DEF EventInv
<1> QED
  BY <1>1, EventInductive, PTL

\* Whoever answers get_events, the world or the ring of the bridge, gives an
\* event the number its world gave it, across dropped messages, new
\* connections, switches of world and restarts.
THEOREM NumbersTrue == LogSpec => []Labelled
<1>1. EventInv => Labelled
  <2> SUFFICES ASSUME EventInv PROVE Labelled
    OBVIOUS
  <2>1. Counted(got, number) /\ got \in Seq(Entry)
    BY DEF EventInv, Labels, LogTypeOK
  <2> QED
    BY <2>1, LenProperties DEF Counted, Labelled
<1> QED
  BY <1>1, EventInductive, PTL

\* While the agent stays in its world, the caller gets its events in their
\* order, none twice, and whatever its cursor has passed it was given, or it is
\* lost to a full log, a full channel or a broken connection.
THEOREM EventsInOrder == LogSpec => []PulledInOrder
<1>1. EventInv => PulledInOrder
  <2> SUFFICES ASSUME EventInv, moves = 0
               PROVE  /\ \A i, j \in DOMAIN got : i < j => got[i].event < got[j].event
                      /\ \A e \in DOMAIN number : number[e] <= since => e \in Given \cup gone
    BY DEF PulledInOrder
  <2>1. Typed /\ Labels /\ Stays
    BY DEF EventInv, Typed
  <2>2. DOMAIN got = 1..Len(got) /\ DOMAIN number = 1..cursor /\ cursor \in Nat
    BY <2>1, InOneWorld, LenProperties
  <2>3. \A i \in 1..Len(got) : got[i].event = got[i].cursor
    BY <2>1, EventIsCursor DEF Labels
  <2>4. \A i, j \in 1..Len(got) : i < j => got[i].cursor < got[j].cursor
    BY <2>1 DEF Stays, Within
  <2>5. ASSUME NEW e \in DOMAIN number, number[e] <= since
        PROVE  e \in Given \cup gone
    <3>1. e \in Nat /\ 0 < e /\ number[e] = e
      BY <2>1, <2>2 DEF Stays
    <3> QED
      BY <3>1, <2>1, <2>5 DEF Stays, Complete, Given
  <2> QED
    BY <2>2, <2>3, <2>4, <2>5
<1> QED
  BY <1>1, EventInductive, PTL
=============================================================================
