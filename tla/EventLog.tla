------------------------------ MODULE EventLog ------------------------------
(***************************************************************************)
(* The events of an agent, from the world to the caller of get_events.     *)
(*                                                                         *)
(* The world numbers the events of an agent and keeps the last of them     *)
(* (Agent.EventLog).  Each step sends the new ones with OBS, into a        *)
(* channel that drops its oldest message when it is full.  The bridge      *)
(* keeps what OBS brings in a ring of its own, numbered from the cursor in *)
(* OBS.  A caller asks for what comes after its cursor and takes over the  *)
(* cursor of the answer: the world answers (EVENT_BATCH, through the same  *)
(* channel), or after a while the ring does.                               *)
(*                                                                         *)
(* Events are named by the order in which they happen.  ActDelivery is the *)
(* other half of the connection; the two modules share no name, and the    *)
(* proofs about both extend both.                                          *)
(***************************************************************************)
EXTENDS Integers, Sequences, FiniteSets

CONSTANTS
  LogCap,      \* entries of a log: 4096 in the world and in the bridge
  OutCap,      \* capacity of the channel of a connection
  Limits,      \* limits callers ask with
  MaxEvents,   \* bound on events
  MaxPolls,    \* bound on calls of get_events
  MaxMoves,    \* bound on switches of world and restarts
  MaxDrops,    \* bound on lost connections
  NoPoll       \* "no call"

Sizes ==
  /\ LogCap \in Nat \ {0} /\ OutCap \in Nat \ {0}
  /\ Limits \subseteq Nat \ {0}
  /\ MaxEvents \in Nat /\ MaxPolls \in Nat /\ MaxMoves \in Nat /\ MaxDrops \in Nat

ASSUME LogAssumption == Sizes

VARIABLES
  number,  \* of every event so far, the cursor its world gave it
  moves, drops,
  cursor,  \* Agent.EventCursor
  log,     \* Agent.EventLog
  events,  \* Agent.Events: not yet sent
  linked,  \* the bridge is connected
  out,     \* the channel of the connection
  requests, \* on their way to the server
  ring,    \* Session.eventRing
  last,    \* Session.lastEventsCursor
  polls,   \* calls of get_events so far
  poll,    \* the call under way, or NoPoll
  since,   \* the caller's cursor
  got,     \* the entries the caller was given
  gone     \* events that fell out of a log, or of the channel

agent == <<number, cursor, log, events>>
link == <<linked, out, requests, drops>>
bridge == <<ring, last>>
caller == <<polls, poll, since, got>>
logVars == <<agent, moves, link, bridge, caller, gone>>

Entry == [cursor : Nat, event : 1..MaxEvents]
Obs == [type : {"OBS"}, events : Seq(1..MaxEvents), cursor : Nat]
Batch == [type : {"EVENT_BATCH"}, req : 1..MaxPolls, items : Seq(Entry), next : Nat]
Request == [req : 1..MaxPolls, since : Nat, limit : Limits]

LogTypeOK ==
  /\ number \in Seq(Nat) /\ moves \in 0..MaxMoves /\ drops \in 0..MaxDrops
  /\ cursor \in Nat
  /\ log \in Seq(Entry) /\ Len(log) <= LogCap
  /\ events \in Seq(1..MaxEvents)
  /\ linked \in BOOLEAN
  /\ out \in Seq(Obs \cup Batch) /\ Len(out) <= OutCap
  /\ requests \in Seq(Request)
  /\ ring \in Seq(Entry) /\ Len(ring) <= LogCap
  /\ last \in Nat
  /\ polls \in 0..MaxPolls /\ poll \in Request \cup {NoPoll}
  /\ since \in Nat /\ got \in Seq(Entry)
  /\ gone \subseteq 1..MaxEvents

Names(entries) == {entries[i].event : i \in DOMAIN entries}

\* The last entries a log keeps.
Trim(entries) ==
  SubSeq(entries, IF Len(entries) > LogCap THEN Len(entries) - LogCap + 1 ELSE 1, Len(entries))
Trimmed(entries) == Names(entries) \ Names(Trim(entries))

\* EventsAfter, and what GetEvents takes from the ring: the first entries after
\* a cursor, at most limit of them.
After(entries, c, limit) ==
  LET items[n \in 0..Len(entries)] ==
        IF n = 0 THEN <<>>
        ELSE IF entries[n].cursor > c /\ Len(items[n - 1]) < limit
        THEN Append(items[n - 1], entries[n])
        ELSE items[n - 1]
  IN  items[Len(entries)]
NextCursor(items, c) == IF items = <<>> THEN c ELSE items[Len(items)].cursor

LogInit ==
  /\ number = <<>> /\ moves = 0 /\ drops = 0
  /\ cursor = 0 /\ log = <<>> /\ events = <<>>
  /\ linked = TRUE /\ out = <<>> /\ requests = <<>>
  /\ ring = <<>> /\ last = 0
  /\ polls = 0 /\ poll = NoPoll /\ since = 0 /\ got = <<>>
  /\ gone = {}

-----------------------------------------------------------------------------
(* The world. *)

Grown == Append(log, [cursor |-> cursor + 1, event |-> Len(number) + 1])

AddEvent ==
  /\ Len(number) < MaxEvents
  /\ number' = Append(number, cursor + 1)
  /\ cursor' = cursor + 1
  /\ events' = Append(events, Len(number) + 1)
  /\ log' = Trim(Grown)
  /\ gone' = gone \cup Trimmed(Grown)
  /\ UNCHANGED <<moves, link, bridge, caller>>

Elements(s) == {s[i] : i \in DOMAIN s}
CarriedEvents(m) == IF m.type = "OBS" THEN Elements(m.events) ELSE {}

\* A full channel loses its oldest message; when the reader of the connection
\* and the loop of the world send at once, the new one may be lost as well.
SendLatest(m) ==
  IF Len(out) < OutCap
  THEN out' = Append(out, m) /\ gone' = gone
  ELSE \/ out' = Append(Tail(out), m) /\ gone' = gone \cup CarriedEvents(Head(out))
       \/ out' = Tail(out) /\ gone' = gone \cup CarriedEvents(Head(out)) \cup CarriedEvents(m)

\* The step of the world, to an agent whose client is connected.
Observe ==
  /\ linked
  /\ SendLatest([type |-> "OBS", events |-> events, cursor |-> cursor])
  /\ events' = <<>>
  /\ UNCHANGED <<number, cursor, log, moves, linked, requests, drops, bridge, caller>>

\* The connection is lost and its leave has not been handled.
ObserveInVain ==
  /\ ~linked
  /\ events' = <<>>
  /\ gone' = gone \cup Elements(events)
  /\ UNCHANGED <<number, cursor, log, moves, link, bridge, caller>>

\* HandleTransferOut, BuildIncomingAgent and HandleTransferIn: the agent of
\* the other world has no events but the switch.
Switch ==
  /\ moves < MaxMoves /\ moves' = moves + 1
  /\ Len(number) < MaxEvents
  /\ number' = Append(number, 1)
  /\ cursor' = 1
  /\ log' = <<[cursor |-> 1, event |-> Len(number) + 1]>>
  /\ events' = <<Len(number) + 1>>
  /\ gone' = gone \cup Elements(events)
  /\ UNCHANGED <<link, bridge, caller>>

\* A snapshot holds no events.
Restart ==
  /\ moves < MaxMoves /\ moves' = moves + 1
  /\ cursor' = 0 /\ log' = <<>> /\ events' = <<>>
  /\ gone' = gone \cup Elements(events) \cup UNION {CarriedEvents(out[i]) : i \in DOMAIN out}
  /\ linked' = FALSE /\ out' = <<>> /\ requests' = <<>>
  /\ UNCHANGED <<number, drops, bridge, caller>>

-----------------------------------------------------------------------------
(* The connection. *)

\* handleEventBatchReq, while the world answers in time.
HandleEventBatchReq ==
  /\ linked /\ requests # <<>>
  /\ LET r == Head(requests)
         items == After(log, r.since, r.limit)
     IN SendLatest([type |-> "EVENT_BATCH", req |-> r.req, items |-> items,
                    next |-> NextCursor(items, r.since)])
  /\ requests' = Tail(requests)
  /\ UNCHANGED <<agent, moves, linked, drops, bridge, caller>>

\* The world does not, or does not have the agent: nothing is new.
EventBatchFails ==
  /\ linked /\ requests # <<>>
  /\ LET r == Head(requests)
     IN SendLatest([type |-> "EVENT_BATCH", req |-> r.req, items |-> <<>>, next |-> r.since])
  /\ requests' = Tail(requests)
  /\ UNCHANGED <<agent, moves, linked, drops, bridge, caller>>

Disconnect ==
  /\ linked /\ drops < MaxDrops /\ drops' = drops + 1
  /\ linked' = FALSE /\ out' = <<>> /\ requests' = <<>>
  /\ gone' = gone \cup UNION {CarriedEvents(out[i]) : i \in DOMAIN out}
  /\ UNCHANGED <<agent, moves, bridge, caller>>

Reconnect ==
  /\ ~linked /\ linked' = TRUE
  /\ UNCHANGED <<agent, moves, out, requests, drops, bridge, caller, gone>>

-----------------------------------------------------------------------------
(* The bridge: the reader of a session, and get_events. *)

\* Slip: the events of an OBS follow those of the one before.
AppendedBlindly(o) ==
  ring \o [i \in DOMAIN o.events |-> [cursor |-> last + i, event |-> o.events[i]]]

\* The ring with the events of an OBS.
Appended(o) ==
  LET base == IF o.cursor > 0 /\ o.cursor >= Len(o.events) THEN o.cursor - Len(o.events) ELSE last
  IN ring \o [i \in DOMAIN o.events |-> [cursor |-> base + i, event |-> o.events[i]]]

ReadObs ==
  /\ out # <<>> /\ Head(out).type = "OBS"
  /\ ring' = Trim(Appended(Head(out)))
  /\ last' = IF Head(out).cursor > 0 THEN Head(out).cursor ELSE last + Len(Head(out).events)
  /\ gone' = gone \cup Trimmed(Appended(Head(out)))
  /\ out' = Tail(out)
  /\ UNCHANGED <<agent, moves, linked, requests, drops, caller>>

\* The call ends: the caller takes over the cursor.
Return(items, next) ==
  /\ got' = got \o items
  /\ since' = next
  /\ poll' = NoPoll

\* Slip: whoever waits gets the answer, also to an earlier request.
ReadAnyBatch ==
  /\ out # <<>> /\ Head(out).type = "EVENT_BATCH"
  /\ IF poll # NoPoll THEN Return(Head(out).items, Head(out).next)
     ELSE UNCHANGED <<got, since, poll>>
  /\ out' = Tail(out)
  /\ UNCHANGED <<agent, moves, linked, requests, drops, bridge, polls, gone>>

\* An answer nobody waits for any longer is dropped.
ReadBatch ==
  /\ out # <<>> /\ Head(out).type = "EVENT_BATCH"
  /\ IF poll # NoPoll /\ poll.req = Head(out).req
     THEN Return(Head(out).items, Head(out).next)
     ELSE UNCHANGED <<got, since, poll>>
  /\ out' = Tail(out)
  /\ UNCHANGED <<agent, moves, linked, requests, drops, bridge, polls, gone>>

GetEvents(limit) ==
  /\ poll = NoPoll /\ polls < MaxPolls
  /\ polls' = polls + 1
  /\ poll' = [req |-> polls + 1, since |-> since, limit |-> limit]
  /\ requests' = IF linked THEN Append(requests, poll') ELSE requests
  /\ UNCHANGED <<agent, moves, linked, out, drops, bridge, since, got, gone>>

\* No connection, or no answer within two seconds.
FromRing ==
  /\ poll # NoPoll
  /\ LET items == After(ring, poll.since, poll.limit)
     IN Return(items, NextCursor(items, poll.since))
  /\ UNCHANGED <<agent, moves, link, bridge, polls, gone>>

LogNext ==
  \/ AddEvent \/ Observe \/ ObserveInVain \/ Switch \/ Restart
  \/ HandleEventBatchReq \/ EventBatchFails \/ Disconnect \/ Reconnect
  \/ ReadObs \/ ReadBatch \/ (\E limit \in Limits : GetEvents(limit)) \/ FromRing

LogSpec == LogInit /\ [][LogNext]_logVars

-----------------------------------------------------------------------------
(* Properties. *)

Given == Names(got)

\* The caller is given an event under the number its world gave it, whether
\* the world or the ring answers: the cursors the bridge counts up from OBS
\* are those of the log, across dropped messages, new connections, switches
\* of world and restarts.
Labelled == \A i \in DOMAIN got : number[got[i].event] = got[i].cursor

\* As long as the agent stays in its world, the caller gets its events in the
\* order they happened, none twice, and one that its cursor has passed without
\* delivering it fell out of a log or of the channel.  (Answers come from two
\* sources that know different events, and late.)
PulledInOrder ==
  moves = 0 =>
    /\ \A i, j \in DOMAIN got : i < j => got[i].event < got[j].event
    /\ \A e \in DOMAIN number : number[e] <= since => e \in Given \cup gone

\* Pulling by cursor is reliable: "used to pull events reliably" (3.5 of
\* docs/spec/agent_protocol_v0.9.md:83), and the cursor moves with the agent
\* (internal/sim/world/ARCHITECTURE.md:86).  An event the cursor has passed was
\* delivered, unless it fell out of a log or of the channel.
PullsReliable == \A i \in DOMAIN log : log[i].cursor <= since => log[i].event \in Given \cup gone
=============================================================================
