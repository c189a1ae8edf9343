# A TLA+ model of voxelcraft.ai

This directory holds a formal model of the VoxelCraft server: TLA+ modules for its
stateful parts, TLC configurations that model-check them on small instances, and
proofs that TLAPS checks for every instance. `PROJECT.json` lists the components,
the runs, the map from every definition to the source lines it stands for, the
hazards of the code and the theorems. Paths below are relative to `src/`.

To repeat the checks, in this directory:

    tlc -workers 2 -config transfer_timeouts.cfg MCWorldTransfer.tla
    tlapm WorldTransfer_proofs.tla        (and the other modules named *_proofs)

## 1. The system

VoxelCraft is a headless server for worlds that are played by programs. A client
(a bot, or an OpenClaw agent behind the MCP sidecar `cmd/mcp`) opens a WebSocket,
gets an agent, receives one OBS message per tick and sends ACT messages.

| part | state it keeps | operations | talks to |
|---|---|---|---|
| World loop (`internal/sim/world/runtime_loop.go`, `runtime_step.go`) | agents, clients, claims, laws, containers, contracts, trades, conveyors, tick | one goroutine: receives from one channel per kind of request, applies at each tick in a fixed order | answers requests through a channel each of them carries; sends OBS; snapshot and log sinks |
| Multi-world manager (`internal/sim/multiworld/manager.go`) | residency map, organization metadata, switch cooldowns, `state.json` | Join, Attach, Leave, RouteAct, switchWorld, MoveAgentWorld, RefreshOrgMeta, persistLoop | runs in the goroutines of its callers; sends requests to worlds and waits with a timeout |
| WS session (`internal/transport/ws/server.go`) | the session's agent and world, the cache of ACKs | handshake, ACT, EVENT_BATCH, cleanup; a reader and a writer goroutine | manager, world |
| ACT deduplication (`world/act_dedupe.go`) | answered ACTs, by agent, world and act id | check or remember, expire | world loop |
| Event log (`kernel/model/agent.go`) | last 4096 events of an agent, cursor | AddEvent, TakeEvents, EventsAfter | OBS, EVENT_BATCH |
| Contracts and terminals (`feature/contracts`, `kernel/model/container.go`) | contracts, stock, reservations and debts of terminals | POST, ACCEPT, SUBMIT, CLAIM_OWED, tickContracts | inventories; every task that uses containers |
| Trades (`feature/economy`) | open offers | OFFER, ACCEPT, DECLINE | inventories, law taxes |
| Governance (`feature/governance`) | claims, members, laws, votes, maintenance | claim, deed, propose, vote, TickLaws, TickClaimsMaintenance | permissions of every other action |
| Organizations (`feature/transfer/org`) | members and roles, with a version, in every world and in the manager | create, join, leave, merge on transfer, periodic refresh | manager, worlds |
| Work, movement, conveyors, survival, director (`feature/*`) | tasks, positions, belts, vitals, events | one system each per tick | inventories, containers, terrain |
| Seasons and admin (`season_facade.go`, `runtime_api_admin.go`) | season, seed | roll over, reset, snapshot | snapshot sink |
| Snapshots, archives, logs, mirror, index (`internal/persistence`, `cmd/server`) | files, bounded queues | export, import, archive, rotate, upload, index | goroutines behind channels |
| OpenClaw bridge (`internal/openclaw/bridge`) | pool of WS sessions by session key, resume tokens on disk | get or create, evict, reconnect, Act, GetEvents | the server's WebSocket |
| MCP sidecar (`internal/openclaw/mcp`) | replay guard | HTTP JSON-RPC with HMAC | bridge |
| Observer stream (`internal/transport/observer`) | subscriptions, chunk versions | join, leave, patches | world loop |

What is hard about it: requests that outlive the caller that gave up on them;
world loops and callers that interleave; agents that are in no world while they
travel, or belong to another world when somebody wants to pay, tax or enforce
something on them; counts in shared containers that several subsystems change;
bounded queues that drop; locks that are held while waiting for a goroutine; what
a restart keeps. The hazards in `PROJECT.json` name each at its line.

### What makes each part correct

* Manager and worlds: an agent is in exactly one place, never lost, never copied;
  a client is registered where its agent is; every operation ends.
* Contracts: whatever happens to a terminal, every stake can be paid; a contract is
  settled once, in favour of the right agents; items are neither made nor destroyed;
  every contract ends; the outcome of a tick is determined.
* ACT delivery: an act id is executed at most once; an accepted ACT has a result.
* Event log: events are delivered in order, once, under the number of their world.
* Organizations: an agent is listed by the organization it belongs to, wherever it is;
  a refresh leaves no world behind the manager.
* Governance: claims do not overlap; the terms of a claim come from a law that was
  passed; an agent is a member of its organization, and an organization that no other
  world had a hand in keeps one leader; items change hands and do not vanish.
* Work and ground: items are neither made nor destroyed but where the code names the
  loss; what a contract reserved is not taken by belts, builders or miners.
* Persistence: a snapshot restores what it was taken of but for losses that can be named;
  a log replays to what was logged but for the chunks connections load; a season starts
  once and is archived; a request is in SQLite whole or not at all; state.json is current
  when the server rests.
* Bridge: one session per key, an agent of its own for each key, no call waits forever.

## 2. Modules

| module | models |
|---|---|
| `Placement` | abstract promise of the multi-world part: a character is unborn, in one world, or on the way |
| `WorldTransfer` | manager, world loops and callers; implements `Placement` |
| `MCWorldTransfer` | instance for TLC |
| `WorldTransfer_proofs` | type correctness, no copies, no losses, clients, sessions, steps of `Placement` |
| `ContractEscrow` | contracts and terminals of one world, tick by tick |
| `MCContractEscrow` | instance for TLC: one item |
| `ContractEscrow_proofs` | type correctness, stakes are backed, terminals stay, items conserved, fair settlement |
| `BridgeSessions` | the sidecar's session pool and its mutex, against the server's handshake |
| `BridgeSessions_proofs` | type correctness, one goroutine for a key, one agent for a key; of `WorkTick`: types, items conserved, reservations backed, the index exact |
| `ActDelivery` | the way of an ACT: ACK cache, deduplication, routing, inbox, result |
| `ActDelivery_proofs` | type correctness, effect at most once, honest answers from memory; of `EventLog`: types, true numbers, events in order and once |
| `EventLog` | the way of an event: log, OBS, EVENT_BATCH, the bridge's ring, get_events |
| `OrgSync` | the copies of an organization in the worlds and the manager; state.json |
| `OrgSync_proofs` | type correctness, memberships agree, versions grow, refreshes reconcile, the file is current |
| `WorldState` | what a world keeps: digest, export and import of each part |
| `ServerHistory` | one world over crashes and restarts: snapshots, archive, log, replay |
| `ServerHistory_proofs` | type correctness, seasons entered once and never again, snapshots restore, logs replay |
| `IndexPipeline` | the index: queue, SQLite writer, D1 writer, ingesting worker |
| `IndexPipeline_proofs` | type correctness, requests whole, audits apart, acknowledged rows are there |
| `LandLaw` | squares of land, permissions, law terms, item maps |
| `Governance` | claims, laws, organizations, trades and taxes of one world |
| `Governance_proofs` | type correctness, claims apart, laws and terms, roles agree, items conserved |
| `Ground` | dropped items, containers and belts, as operators |
| `WorkTick` | the tasks of agents, belts, respawns and director events, turn by turn |
| `MCBridgeSessions`, `MCActDelivery`, `MCEventLog`, `MCOrgSync`, `MCServerHistory`, `MCIndexPipeline`, `MCGovernance`, `MCWorkTick` | instances for TLC |

`WorkTick` extends `Ground`, `Governance` extends `LandLaw` and `ServerHistory` extends
`WorldState`; otherwise the modules share no variables. They meet where one takes as a
single step what another one unfolds: a switch in `ActDelivery`, `EventLog` and `OrgSync` is
the protocol of `WorldTransfer`, `Travel` in `ContractEscrow` and `Depart` and `Arrive` in
`Governance` are its transfers, `Stake` and `Settle` in `WorkTick` are the contracts of `ContractEscrow`, an input
of `ServerHistory` is what the other modules do in a tick, and the handshake in
`BridgeSessions` is the `Resume` and `Connect` of `WorldTransfer`, seen from the client.

Every module with variables defines its type invariant, `TypeOK` (`LogTypeOK` and
`WorkTypeOK` where two modules meet in one of proofs). No run checks it any more: it is
proved for each of them.

### 2.1 WorldTransfer

Processes are connections and admin requests (callers) and worlds. `caller[p]` is
where the goroutine of `p` is in `Join`, `Attach`, `switchWorld` or
`MoveAgentWorld`: `pc = "out"` is blocked in `RequestTransferOut`, `"got"` has the
transfer in its hands, `"in"` is blocked in `RequestTransferIn`, `"undo"` is about to
roll back, `"back"` waits for the answer of the rollback, `"placed"` is about to
write the residency map. A request is a record in `req` under the call `<<p, n>>`
that sent it; its stage is `sent` (in the channel or in a pending slice of the
world), `taken` (part of the tick in progress) or `done` (answered, not read).
`queue[w]` is the order of arrival. `Tick` chooses what the select loop received
before the ticker fired, per channel a prefix; `Handle*` apply it one by one, in
the order of `stepInternal`. The answer channel is buffered: an answer to a caller
that has gone is dropped, which is where agents get lost.

`expired` says that the context of an operation is done. It is one context for
the whole operation, rollback included, as in `requestCtx`; `Expire` sets it at any
time, which also stands for a connection whose writer failed. With `Timeouts = FALSE`
contexts do not expire.

A character (`Chars`) is the world that created it with the number it got there; the
program knows only the number, as `A1`, `A2`, ... in every world.

`givenUp` is a history variable: the ids of which a request for a transfer was
abandoned. It bounds exactly what the safety properties leave out, and section 3.4
says why they have to.

Abstracted: world ticks, positions, inventories, organizations, entry points and
cooldowns (free choices of a refusal); tokens are named after the connection that got
them. Join requests carry no check that the id is free, as in the code. Agents created
by a world are never removed otherwise; the code has no operation for that.

### 2.2 ContractEscrow

One world. `phase` is the stage of `stepInternal` (boundary: joins, leaves, transfers
and rollovers; acts; work; contracts), `todo` the contracts `tickContracts` has not
visited; any order of visits is possible, as for a Go map. A terminal is `stock`,
`reserved` and `owed`, as `Container.Inventory`, `Reserved` and `Owed`. `Settled` is
`PlanSettlement` with the transfers it plans carried out on a record of the books.
`Minus` deletes an entry that would fall below zero, as the maps of the code do, so a
stake that has gone would be paid from nothing: `EscrowBacked` shows it never has.

`TransferIn` and `TransferOut` stand for every task that puts items into a terminal
or takes them out: TRANSFER, blueprint pulls and conveyors, all of which go through
`AvailableCount`. `TickMine` breaks a terminal. `Travel` is an agent that leaves for
another world or comes back with its inventory; a payout to it becomes a debt. Free
choices: whether a blueprint stands (`built`), distances and permissions, and the
reputation that decides the multiplier of a deposit.

Arithmetic is on natural numbers: the counts of the code are `int` and far from their
limit. An explicit deadline in a POST may lie in the past, as the code allows.

### 2.3 BridgeSessions

`session[s]` is a Session object: where its goroutine is in `run` and
`connectAndReadLoop`, whether `stop` is closed, the connection and the token it has.
`run = "dialled"` is between writing HELLO and `s.conn = conn`, when `Disconnect` cannot
reach the connection. `conn[c]` is a connection with what is on the wire; a HELLO that
was written reaches the server even when the client has closed. `call[p]` is a goroutine
of the MCP server in `getOrCreateSession`: `wants` waits for the mutex, `evicts` holds it
(`mu`) while `Session.Close` waits, `has` has a session and no mutex, `closes` is
`Manager.Close`. Critical sections that wait for nothing are one step. `recency` stands
for `lastUsedAt`.

The server is modelled by the handshake: `current[a]` is the only token that resumes
agent `a`; every resumption replaces it. `AttachFails` is the handshake whose
`Manager.Attach` did not find the agent of a good token: it timed out, or the agent was
between two worlds or had come to one without its token. The server then joins a new agent;
the old one keeps its token, unless it moved or the request was handled after the time-out
(`lost`). A crash of the sidecar keeps `saved`, the state
file, which is written in the critical section that changes `Manager.state`.

`missed` is a history variable: the keys one of whose WELCOMEs the server sent and the
manager did not get to store, and those whose agent was not resumed by its token. They may
get a second agent; `SameAgent` says of them only that it is not the agent of another key.

### 2.4 ActDelivery

One agent. `conn[c]` is the reader loop of a connection: `asking` waits for the
deduplication, `routing` is in `RouteAct`, `injecting` waits for `RequestInjectEvent`.
`asked` are the questions in the worlds' channels, also those nobody waits for any
more. `inbox[w]` is the channel and the slice it is drained into. `at` is the world of the
agent; the session's world (`conn[c].world`) differs from it for a connection that did not
make the switch. `AskTimesOut`, `RouteTimesOut` and `InjectTimesOut` are the three deadlines.

History variables record what the properties are about: `runs` (an act took effect),
`results` (an event in the agent's log), `acked`, `unsure` (routed without an answer
of the deduplication), `untold` (the world did not take the result in time), `astray` (dropped
because the agent had left the world) and `void` (applied with nothing in it).

An ACT is its id, the world the client expects and whether it names a world to switch to;
what it does is left to the other modules. When it is applied it is stale, or holds something
to report, or is empty: `RouteAct` takes SWITCH_WORLD out of every ACT, also when it names no
target, and `applyAct` adds no event for an ACT without cancels, instants and tasks. The id in the result of a refusal is the word "ACT" in the
code, so that a client cannot always tell which ACT it belongs to; the model can.

### 2.5 EventLog

One agent, its events named by their order. `cursor`, `log` and `events` are
`Agent.EventCursor`, `EventLog` and `Events`; `out` is the channel to the connection's
writer, which `sendLatest` empties at its head when it is full (its caller and the
reader of the connection may race, so the new message can be lost too); `ring` and `last`
are the bridge's `eventRing` and `lastEventsCursor`; `since` is what the caller of
`get_events` keeps between calls. `FromRing` is the fallback after two seconds or without a
connection. `Switch` and `Restart` make an agent without a log, whose numbers start again.
History variables: `number` (the cursor an event got), `got` (what the caller was given)
and `gone` (what fell out of a log or a channel).

### 2.6 OrgSync

`orgs[w]` is a world's copy of the organizations, `global` the manager's. `refresh[r]` is a
call of `RefreshOrgMeta`: `collect` reads the worlds one by one and merges what it reads
(`Merged`: a higher version replaces, an equal one adds members), `Store` replaces `global`
unless `orgMetaEqual`, `upsert` writes to the worlds one by one (`MergeMeta`, then
`OwnerByAgent` for every agent). Acts, switches, timeouts and late writes (`late`) fall in
between. `move[a]` is a switch: the copy an agent takes along, the merge into `global`, the
copy attached from it, the arrival or the way back. `wake`, `writer` and `file` are the
channel of `persistLoop`, what the loop does, and `state.json`. `calm` records whether a
call of `RefreshOrgMeta` ran undisturbed.

An organization is its version and its members. Its number stands for it, as in the
code; names, kinds and treasuries travel with it and are left out.

### 2.7 WorldState and ServerHistory

`WorldState` abstracts the content of a world to the set of fields that hold something
(`<<part, name>>`), so that each export, import and digest is the list of the fields it
carries over, and a field that one of them forgets shows as a difference. Kept as values:
tick, seed, season length, expiry ticks of item entities, ids, the id counter, loaded
chunks. `ServerHistory` runs such a world: `Tick` is one round of the loop (rollover,
inputs, systems, log entry, periodic and admin snapshots), `sink` the channel of two
snapshots, `OpenFile`, `CloseFile` and `FailFile` the writer goroutine, `Start` and `Crash`
the process, `Tune` an operator who edits the season length while it is down. A file is
truncated before it is written, so a crash leaves it torn. The copy of a season's last
snapshot into the archive may fail; like a failed write it sets `broken`.

`ImportAgents` runs `InitDefaults`, which takes a zero for a missing value: `spent` (a
hunger or stamina of zero) and `shunned` (a reputation of zero) are fields of an agent that
no import brings back. `Observe` loads the chunks around an agent that walks, for
connected agents only. `Replay` is `cmd/replay`: it steps without connections, and its
verdict `same` compares whole digests, as the program does; `alike` compares them without
the loaded chunks.

### 2.8 IndexPipeline

`ch` is the queue that never blocks its senders. With SQLite, `tx` is the open transaction
and `Take` one round of the writer: the rows of a request join it, and it is committed when
it is large or old; an error rolls all of it back. With D1, `batch` is posted up to
`Attempts` times; `posts` are what the worker is at, also posts whose answer came too late;
the worker applies the events of a post one by one. The channel of a sender that saw the
index open and sends after `Close` panics (`SendOnClosed`).

### 2.9 LandLaw and Governance

`LandLaw` has the pure parts: squares and their overlap, permission flags, the terms each
law template sets, `NormalizeLawParams`, taxes on item maps. `Governance` is one world in
phases: the boundary (travel), the maintenance of the claims that are due, claim by claim
in any order, as a Go map is walked, the acts (claims, upgrades, deeds,
members, policies, laws, organizations, trades, work on blocks that pays fines and tickets)
and the laws at the end of the step. Deadlines are kept as the ticks that remain.
`LandAt` may answer any claim that contains a position, as a search through a Go map does.
`spent` collects prices and payments to owners who are not there. `Depart` takes an agent
out with its trades and leaves its roles behind. `Arrive` brings it back with any
organization, as it may have joined and left in the other world, and any copy of its
members, which `MergedRoles` adds to those here, as `UpsertIncomingOrg` does.
`elsewhere` is a history variable: the organizations that another world had a hand in. The run starts from
`MCInit`, a state some days after the start, because the interesting laws need a claim,
an organization and a law in force.

### 2.10 Ground and WorkTick

The cells lie in a row. `Ground` has the operators: spawn and merge of item entities,
containers with reservations and debts, pulls, wires and switches, and `RunConveyors`, one
pass of the belts over the positions in their order. `WorkTick` runs the acts, one turn of
every agent in the order of their ids, the belts and the environment. A task holds its
target and not what it was; `TaskFails` stands for the refusals by position and permission.
`supply` is what there should be of every item: changed by the steps that make or destroy
items by intention (crafting, spawns of the director, what its events grant to miners, decay, debts lost with a terminal,
materials lost with a failed build), and compared with all there is. `bill` is what a build
has paid and not yet placed. `credit` is, of every item, what it need not pay: the blocks in
place when it was charged, less those it placed without having paid, because somebody
mined them meanwhile. Loops over items, cells and entities are folds (`Through`), as the code
runs them in order.

`WorkAssumption` and `GroundAssumption`: the orders list every agent and every item once; a
director may bring ore and chests, which are items; a blueprint costs at least its
blocks, as every file under `configs/blueprints` does (`credit` may fall below zero otherwise);
a recipe names amounts; `Absent` is no entity, container or task.


## 3. Runs

| run | instance | properties | shows |
|---|---|---|---|
| `transfer_timeouts` (passes) | 1 connection, 1 admin, 2 worlds, 1 agent, 5 requests each | `NoDuplicate`, `NoOrphan`, `ClientHasAgent` | A connection and an admin move the same agent between two worlds while any request context may expire: agents none of whose requests was given up are neither copied nor lost, and no world keeps a client without its agent. |
| `transfer_promise` (passes) | 2 connections, 2 worlds, 2 agents, 6 requests each, no expiry | `Served`, `ImplementsPlacement`, `OperationsEnd` | Two connections join, resume one another's agent, switch, are refused or rolled back and leave while no context expires: the protocol implements Placement (a character is in one place and being on the way ends), every operation ends, and the only session of an agent stays registered in the world it names. |
| `escrow_stakes` (passes) | 2 agents, 1 terminal, 1 item, 2 contracts, 2 ticks, 1 rollover | `EscrowBacked`, `LiveHasTerminal`, `ItemsConserved`, `FairSettlement`, `ContractsEnd` | Two contracts with deposits share a terminal with transfers, mining and agents that travel, and a season rollover between any two ticks: every stake stays reserved and backed, no live contract loses its terminal, items are conserved, every settlement pays the right agents and every contract ends. |
| `bridge_pool` (passes) | 2 keys, 2 calls, pool of 1, 3 sessions, 2 connections, 1 crash | `OneSessionPerKey`, `SameAgent`, `CallsEnd` | Two calls use two session keys in a pool of one session, with evictions, reconnects, the disconnect tool, shutdown, a crash and a restart: a key has one goroutine; it keeps one agent while its WELCOMEs are reported and the server resumes the agent, and never gets that of the other key; every call ends unless an eviction meets a WELCOME. An attach may fail for a token that is good. |
| `act_retries` (passes) | 2 acts, one of them a switch, 2 worlds, 2 connections, 3 messages | `AtMostOnce`, `NotSwallowed`, `AcceptedEnds` | A client repeats an ACT and a SWITCH_WORLD on two connections while any deadline of the server may pass: an ACT of which the world said whether it knew it takes effect at most once; a repetition that is swallowed repeats an ACT that is being handled, has a result or was empty, or whose result was not taken or whose agent had left, the last only after a switch; every accepted ACT comes to one of these ends. |
| `history_restarts` (passes) | 1 world, 2 starts, 4 ticks, 2 batches of inputs | `RestoreKeeps`, `ReplayFaithful`, `SeasonOnce`, `SeasonsStayEnded`, `SeasonArchived` | One world over a crash and a restart at any point, with the snapshot writer behind, periodic, admin and season-end snapshots, torn files and a changed tuning file: what a snapshot restores and what it is known to lose, what the tick log replays but for the chunks that observations load, and each season rolled over and archived once. |
| `land_laws` (passes) | 2 agents, 2 organizations, 2 claims, 2 laws, 1 trade, 3 operations | `LandsApart`, `TermsFromLaws`, `RolesAgree`, `ItemsConserved`, `LawsEnd`, `NeglectedOpens` | Two agents, two organizations and two anchors over any three operations on claims, laws, organizations, trades and travel, with the maintenance and the votes that fall due between and after them: no two claims overlap, the terms of a claim come from laws that had a majority, an agent is a member of the organization it carries and, as far as no other world had a hand in it, an organization has exactly the members that carry it and one leader, no item appears or disappears, every law ends, and a claim nobody can pay for opens. |
| `index_rows` (passes) | queue of 2, 1 tick, 2 audits, 3 faults; 2 starts with SQLite | `RequestsWhole`, `AckedRows`, `AuditsApart`, `CloseEnds` | A tick with two audits and a snapshot through a channel of two into SQLite, over two runs of the server, or into D1 and its worker, with any three row errors, lost transactions, worker errors, posts that time out and run on, and crashes: SQLite never holds part of a request, no audit takes the row of another of its run, what D1 acknowledged, the rows of agents left out, stays in the tables, and closing the index ends. |
| `work_items` (passes) | 2 agents, 4 cells in 3 layouts, 3 operations, 3 ticks | `ItemsConserved`, `ReservedBacked`, `EntitiesIndexed` | Two agents and three operations over three ticks on a row of four cells with a terminal, belts, a switch, a sensor and a blueprint: tasks of both agents meet the belts, contracts that reserve and pay out, respawns, expiry and director events, and no item is duplicated or lost beyond what the steps name (crafting, spawns and grants of events, decay, lost debts and materials), no reservation is taken, and the index of the entities by cell stays exact. |
| `org_meta` (passes) | 2 worlds, 2 agents, 2 organizations, 3 operations, 1 fault | `AgentsBacked`, `RefreshAgrees`, `FileCurrent` | Two worlds, two agents, two organizations, three acts or switches of world, one timeout, failed write or restart: whatever copies refreshes, late writes and arriving agents bring, an agent stays listed by its organization, a quiet refresh leaves no world behind the manager, and state.json is current whenever the persistence loop rests. |
| `event_log` (passes) | 4 events, logs and channel of 2, 3 calls, 1 switch or restart, 1 lost connection | `Labelled`, `PulledInOrder` | Four events of an agent through logs of two entries and a channel of two messages, three calls of get_events with limits one and two answered by the world or by the ring of the bridge, one switch of world or restart and one lost connection: events come under the numbers of their world, and without a switch in order, once, and none is skipped that has not fallen out of a log, a channel or a connection (one dropped from the channel counts, though the log may still have it). |
| `event_switch` (violated) | the same without lost connections | `PullsReliable` | The cursor of an agent starts anew with every switch of world: a caller that goes on with its cursor skips the events of the new world. |

### 3.1 Bounds

* `MaxJoins`, `MaxCalls`: one agent with five requests of a connection and an admin
  each is enough for a switch with its rollback (three requests) after a join, with a
  leave or another switch behind it; the races found have two operations on one
  agent. Two connections with six requests (`transfer_promise`) add the resumption of
  one another's agents. A third world would only be a second destination.
* `MaxContracts = 2` with one terminal and one item: every hazard of a terminal is a
  competition for the same count, and two contracts, two agents and transfers compete
  for it. `MaxTick = 2`: a deadline before, at and after the current tick. The clock
  stands still at `MaxTick`, where every deadline has passed. `MaxSeasons = 1`: a
  rollover with everything before and after it. One unit of the item per agent: a
  delivery of one unit with a deposit of one unit cannot both be met, but each is with
  the other absent (a BUILD contract, or a deposit of nothing). The theorems hold for
  all of these constants.
* `bridge_pool`: a pool of one with two keys makes every creation an eviction; three
  sessions allow a key to come back after its eviction, two connections a resumption.
* `act_retries`: three messages over two connections are an ACT, its repetition and a
  switch in any order; a fourth multiplies the states without a new situation: the
  properties are about one act or a pair of acts.
* `event_log`: a log of two entries and a channel of two messages overflow with the third
  event; three calls are one before a gap, one that times out and one after it. The
  property about order is stated without a switch; `event_switch` shows why.
* `org_meta`: three acts or switches are a foundation, a join and a switch or a leave, in
  any order with the steps of a refresh; one timeout, failed write or restart among them.
  One caller of `RefreshOrgMeta`; two callers with three operations and no fault, and with
  two operations and a fault, were explored while writing and showed nothing else.
* `history_restarts`: seasons of three or four ticks, a clock to four, two starts: a
  rollover before and after a restart, with each length, and a changed tuning file.
  The batches of inputs between them fill every field of `WorldState`.
* `index_rows`: batches of two and transactions of three rows split requests; three faults
  are a post that fails, its repetition that times out, and a crash.
* `land_laws`: two anchors as far apart as two usual claims, and nearer than two grown
  ones; three operations after `MCInit` with days of two ticks.
* `work_items`: four cells in three layouts, three operations in three ticks; every kind of
  task is among the requests, and both agents may ask for the same target.

`CHECK_DEADLOCK FALSE` is used for `WorldTransfer`, where connections end and calls are
bounded, for `ActDelivery`, where the client stops, for `BridgeSessions`, where calls
and connections are bounded and where the code can really deadlock (section 3.4), and for
`ServerHistory`, `IndexPipeline` and `WorkTick`, whose clocks end at their bound. `ContractEscrow` is checked for deadlock: its clock always runs.

### 3.2 Fairness

`WorldTransfer`: the loop of a world goes on handling (weak fairness of `Handle`), and a
goroutine inside an operation goes on (weak fairness of `Continue`). The tick is
strongly fair for the set of all pending requests: the select statement of `World.Run`
picks among ready channels at random, so a request that stays in a channel is received
before some tick. No fairness for clients, admins and expiry. `ContractEscrow`: the stages of the tick and the
visits of `tickContracts` go on, nothing else is fair; `ContractsEnd` therefore does
not depend on any agent.
`BridgeSessions`: a session that can go on without the network does; a
call and a report get the mutex sooner or later, as `sync.Mutex` guarantees by its
starvation mode. That the server answers, or that a dial succeeds, is not assumed.
`ActDelivery`: the loops of the worlds handle questions, injected events and ACTs, and a
reader goes on routing. No fairness for clients and timeouts.
`ServerHistory`: the writer opens the next file and ends the one it has, by success or by
an error; nothing about starts and crashes. `IndexPipeline`: the writer takes, commits,
receives and posts, and the worker answers. `Governance`: steps of the world begin,
their maintenance goes on and they end; no agent need act, travel or come back. `EventLog`, `OrgSync` and `WorkTick` state no
liveness and no fairness.

### 3.3 Disagreement between the code and what it says

* `PullsReliable` in `event_switch` (internal/sim/world/feature/transfer/runtime/agent_transfer.go:10): docs/spec/agent_protocol_v0.9.md:83 says of EVENT_BATCH "用于可靠补拉事件" (to pull events reliably), line 88 advises to consume by a kept cursor, and src/internal/sim/world/ARCHITECTURE.md:86 says of transfer "跨 world agent/org/event cursor 迁移" (the event cursor moves between worlds), but BuildIncomingAgent makes an agent whose EventCursor starts at 0 with an empty log: the new world numbers its events from 1, EventsAfter answers a caller that goes on with its cursor with nothing until the new numbers pass it, and everything numbered below is never delivered.

### 3.4 Formulas that TLC refutes

These state what a comment, a test or a document says, are defined at the end of their
modules, and are violated. Each takes one line more in a configuration to see.

* `WorldTransfer!NeverOrphaned`, as an invariant of `transfer_timeouts.cfg`:
  `multiworld/manager.go:520` says "Attempt rollback to source to avoid orphaning the
  agent.", but a context that expires after `RequestTransferOut` was enqueued (:495)
  returns `source_busy` while the world still executes the request: the agent is deleted
  and the answer that carries it is read by nobody.
* `WorldTransfer!NeverReplaced`, as an invariant of `transfer_promise.cfg` with
  `JoinWorlds = {over, mine}`: `manager_switch_regression_test.go:92` says "agent should
  exist in exactly one world runtime", but every world numbers its agents from 1 and
  `joinAgent` (`session_facade.go:105`) does not look whether the id is taken.
* `ContractEscrow!OrderIrrelevant`, as an invariant of `escrow_stakes.cfg`:
  `world/ARCHITECTURE.md:9` calls the writes of the world loop deterministic, but
  `tickContracts` (`contracts_facade.go:40`) settles in the order of a Go map: of two
  contracts that want the same delivered items either may complete.
* `BridgeSessions!StopEnds`, as a property of `bridge_pool.cfg`: `session.go:126` says
  "Ensure any blocking ReadMessage wakes up promptly.", but `getOrCreateSession` closes a
  session while it holds `Manager.mu` (`manager.go:155`) and waits for its goroutine, which
  may wait for the same mutex in `onSessionUpdate` (:172): nothing ends any more.
* `ActDelivery!AcceptedCompletes`, as a property of `act_retries.cfg`:
  `docs/spec/agent_protocol_v0.9.md:80` promises a later result for every accepted ACT, but
  `stepInternal` (`runtime_step.go:74`) skips the ACT of an agent that left in that tick.
* `OrgSync!RefreshConverges`, as an invariant of `org_meta.cfg` with `MaxOps = 4`,
  `MaxOrgs = 1` and `MaxFaults = 0`: `org_meta_stress_test.go:297-298` expects equal member
  counts after a refresh, but `orgMetaEqual` (`manager.go:1209`) ignores the version: the
  manager keeps an old version with the members of a new one, and a world at the new
  version refuses its copies from then on.

## 4. Proofs

`WorldTransfer_proofs`. `TypeCorrect` is proved from the invariant `Shape`: types of all
variables, the queues hold calls, an operation under way knows its agent and its
worlds, a request that waits at a world has the fields its kind needs. `NeverDuplicated`
and `NeverLost` need `SingleEntry` (all connections join the same world; without it a
join can replace an agent, section 3.4) and count holders: an agent that was not given up
is held by exactly one of a world that has it, an answered request that carries it, a
caller that carries it or a request to put it somewhere that is not handled. Each
action moves the agent from one holder to another. The sentence "not given up" is kept
by every step because abandoning adds the id to `givenUp`.

`ContractEscrow_proofs`. The inductive invariant is `TypeOK`, the numbering of contracts (no
contract above `posted`), `Unvisited` (what is to be visited is under way),
`EscrowBacked` and `LiveHasTerminal`. The two properties need each other: a terminal with
a live contract has a reservation because no reward is empty (`RewardsAssumption`, from
`ValidatePostInput`), and a terminal with a reservation cannot be mined. Sums are
cardinalities of sets of units, so that they can be proved about with the theorems on
finite sets; lemmas state what happens to a sum when one term changes. Assumptions:
the sets of agents and items may be anything, contracts are bounded by `MaxContracts`.

`WorldTransfer_proofs` goes on with three more results. `ClientsFollowAgents` needs only `Shape`:
every step that takes an agent from a world removes its client first. `StepsKeepPromise` is
the step simulation of `Placement` without deadlines: as nothing is given up and no context
expires (`Patient`), an agent is in one place at a time by `IInv`, so that each step is a birth, a
departure, an arrival or a stutter for every character. `SessionsServed` holds without
deadlines and admins. Its invariant `Registered` ties together what the connection knows
(`Sessions`), that a request in flight has what its session says (`Ownership`), who got which
token (`TokenOwners`), that the id of an agent being created is new and one being resumed
belongs to another connection (`Handshakes`), and where the agent of an idle connection is
attended (`Attended`): none of them is inductive alone.

`ContractEscrow_proofs` goes on with conservation of items and fair settlement. Every step
is shown to move items between inventories, stocks and debts, term by term; mining a terminal is the
only one that loses any. A contract ends only in a step of the form `Ends`, whose three kinds
pay the party the state of the contract names. Sums over agents and terminals take
`FiniteAssumption`: both sets are finite.

`ActDelivery_proofs`. `AtMostOnce` needs that of an act there is at most one copy between
the reader loops and the world (`Copies`), and `NotSwallowed` that what the deduplication
remembers is on its way or over (`Kept`), and that before its first switch the agent and all it
sends are in one world (`AtHome`). Both rest on `Asked`: a question in the
channel of a world is that of a reader that waits, or its act is in the ACK cache.

The second half of `ActDelivery_proofs` is about `EventLog`, whose names are all different
from `ActDelivery`'s so that one module can extend both. `Labelled` rests on `Labels`: in the
log, the ring and every message an entry has its world's number, and the events of an OBS are
the last ones up to its cursor (`Announced`), so that counting up from the cursor gives the
same. `PulledInOrder` rests on `Stays`: OBS messages follow one another between the ring and
what is not yet sent (`Chained`), an event is in one of these places and in the log, or gone
(`Held`), and a message that answers the call under way goes on where the caller is, with
nothing left out (`Fits`); an answer that comes late has another request's number. What
`EventsAfter` selects is a recursive function, of which `AfterGathers` says what it returns.
`EventInv` was checked with TLC in the place of the two invariants of `event_log`.

`BridgeSessions_proofs`. `OneSessionPerKey` follows from `PoolState` (a session that runs is
the one in the pool) with `CallState` (an eviction keeps the mutex). `SameAgent` needs the
way of a token: from the server (`TokenState`) over the wire (`WireOfSession`,
`WireHasSession`) to the session, and to the state file (`Chain`).

The second half of `BridgeSessions_proofs` is about `WorkTick`, whose names are different from
those of `BridgeSessions` for the same reason. Its invariant `WorkInv` is the types, a sound ground
(`Sound`), `ItemsConserved` and the state of the builds. A ground is sound when every
cell lists the entities that lie there, each once, and numbers not given out are free (`Listed`), and
when what is reserved is in stock (`Backed`). Each operation of `Ground` takes a sound ground to
a sound one and is shown to add, remove or move so much of one item: an entity that goes
was counted where it lay, because it is listed; a belt and a pull take what `AvailableCount` leaves,
because it is backed. The folds keep what each of their steps keeps (`Least`: the first place where it
fails would have a place before it), and a sum changes by what one of its terms changes.
`Total` then changes by what `supply` does: the fold over a turn of a build, the drops of all
agents that are down, the sweep of the expired. That `credit` stays at zero or above needs
`BuildState`: of every item, the credit and the bill cover what the rest of the blueprint may
still need, whatever others place or mine between turns; `Cost` covers the whole of it at the
start. `WorkInv` was checked with TLC in the run `work_items` before it was proved.

`Governance_proofs`. The invariant is the conjunction of the properties of the run with
`Numbered` (fresh numbers are free) and `LawsSane` (parameters in the range of their
template). `LandsApart` uses only how the squares are tested when a claim is made and
grown. `TermsFromLaws` needs `LawsOnLand`, and the mining of a claim ends its laws. That no
count falls below zero, although a trade deducts without looking, uses that the rate of a
tax is at most a quarter. `LawsOnLand` is checked by no run. `ItemsConserved` is shown for sums of integer
counts (`Amount`), because between the legs of a trade a count may be negative; where none is,
they are the cardinalities of `Total`. It takes finitely many organizations. `RolesAgree`
needs no strengthening: an arrival puts the organizations of the agent, the one it left with
and the one it comes with, into `elsewhere`, so that nothing exact is said of them any more,
and that an agent here is listed by its organization survives any copy, because the merge
only adds and makes the agent a member.

`OrgSync_proofs`. `AgentsBacked` and the growth of versions need that numbers which the founder has not given are in no
copy, wherever it is (`Numbered`), so that a late write cannot bring an organization back under
a number that is given out later; both take `OneFounder`, as the run does (section 5).
The other two do not:
`RefreshAgrees` needs only how far an undisturbed call has come (`Undisturbed`), and
`FileCurrent` what is being written (`Written`).

`IndexPipeline_proofs`. In SQLite the order of the queue makes the number of the next audit a
new one (`InOrder`, `RowsNumbered`), and the rows of a request are there all or none, in the
open transaction as in the tables (`TablesWhole`). With D1 a number names one request,
wherever it is on its way (`NumbersApart`); the post that is waited for holds the rest of
its batch, and the events before it are stored (`Progress`), so that what is acknowledged is
stored (`AllStored`), the rows of agents left out, which a later post deletes first. There is always a post to use, because those that run on after their
deadline cost a fault each (`Room`, by the cardinality of the posts in use).

`ServerHistory_proofs`. A world is sound (`WorldOK`) when its ids are among those counted and its
season is its clock divided by the length of a season; so is a snapshot, wherever it is kept
(`Taken`), and the world is past every file, torn ones included (`Past`), so that a start never
goes back into an archived season (`Filed`). `RestoreKeeps` follows from soundness alone, part by
part of the content, with the losses in `Lost`. `ReplayFaithful` needs the worlds the server went through: `Logged` says
that some sequence of worlds explains the log, each the step of the one before in the same
run, and that every snapshot of a run is an export of the world of its tick. A complete
snapshot restores that world whole, because what an export or an import leaves out is in the
digest, and two worlds that differ only in their loaded chunks (`Alike`) still do after the
same step. The inputs of a tick and the entries of a replay are applied by recursive
functions; that they exist, and what they keep, is shown from the least number for which it
fails (`Least`), since the induction rules of the library cannot be instantiated.
`BatchesAssumption` says that a batch is a sequence of the inputs the model has.

The assumptions named `NoneAssumption` only keep "no value" apart from the values.


What stays with TLC. No safety invariant of a passing run is among it. Liveness: `OperationsEnd`, `ContractsEnd`, `CloseEnds`,
`SeasonArchived` and the other properties under fairness, with the fair part of `Placement`;
the prover has no rules for `ENABLED`.


## 5. Limits of what is shown

* An agent one of whose requests was given up can be lost, and can
  be in two worlds when the rollback and the destination both take it. The safety
  properties say nothing of such an agent; its residency may name a world that does
  not have it.
* Two sessions of one agent share it: the older one may switch, or leave, and take the
  client of the newer one with it. `Served` is stated for the only session.
* Mining a terminal destroys its debts to agents other than the miner.
  `ItemsConserved` allows a loss only in the step that removes a terminal.
* A switch changes the terminals' world too: `ContractEscrow` has one world and an
  `inventory` that travels.
* A transfer carries neither the resume token nor the event log of an agent: after a
  switch a connection cannot resume it, and events not yet delivered are gone.
  `WorldTransfer` and `ActDelivery` have this behaviour; no property states otherwise.
* That a key keeps its agent is said only of keys that missed no WELCOME and whose agent was
  resumed every time: a disconnect, an eviction or a crash during the handshake costs the key
  its agent, and so does an attach that times out or comes while or after the agent switches
  worlds, because the server ignores the error and joins a new agent (`server.go:309`).
  Restarts of the server, after which tokens are unknown and agents are numbered
  from the snapshot again, are not modelled.
* `AtMostOnce` excludes acts whose deduplication timed out, and is stated per world, as
  the key of the code is. `NotSwallowed` and `AcceptedEnds` count as settled what the code
  drops without a result: an ACT whose agent left before the tick, a result the world did
  not take within two seconds, an empty ACT. The memory of a world lasts 3000 ticks in the code and for
  ever in the model; the ACK cache of a connection never overflows in the model.
* An ACT that came back with "world inbox busy" is remembered as accepted; repeating
  it under the same id has no effect.
* Events: a switch or a restart starts the numbers again, and a caller that goes on with
  its cursor skips what follows (`event_switch`). Two requests in one millisecond get the
  same id in the bridge; the model gives every request its own. An agent without a client
  collects events without bound.
* Organizations: one world founds. With two, equal numbers name different organizations,
  and the refresh mixes them; of the properties only `RefreshAgrees` and `FileCurrent` then
  hold. A member who left may come back with an
  older copy, and an organization may get a second leader, both by the union of members.
  An organization is dropped when the only world that has it does not answer in time. The
  race on the members map in `attachOrgMetaToTransfer` (`manager.go:821`) is taken as one
  step.
* Persistence: a torn newest snapshot makes every later start give up, as the code does.
  Signs, conveyors and switches whose block was replaced are dropped by the import, the
  empty entry of a treasury by the export, and hunger, stamina and reputations of zero become
  their defaults, by the import as by every transfer (`agent_transfer.go:41`): `RestoreKeeps`
  names them in `Lost`. `cmd/replay` reports a mismatch as soon as an agent with a connection
  walked into a chunk that the snapshot does not have loaded, although nothing else differs;
  `ReplayFaithful` promises its verdict only for stretches without such a step. A log of two runs in
  one file does not replay; `ReplayFaithful` is about the entries of one run. In
  multi-world mode no world loads a snapshot, while `state.json` is restored.
* Index: requests that do not fit the queue are dropped, a rolled-back transaction loses
  up to 2000 rows, a batch is lost after three posts; the properties are about what is
  there, and `AckedRows` leaves out the rows of the agents of a snapshot, which a repeated
  post deletes and may fail to insert. Rows of an earlier run under the same tick stay until they are replaced.
* Governance: three operations at a time, from `MCInit`. Left out: rate limits, reputation,
  rounding of taxes, the season reset of claims, what an agent gains or loses in other
  worlds. After another world had a hand in an organization it may have two leaders, and
  members that had left: `RolesAgree` then says only that agents here are members. `Arrive`
  may bring an id that this world would give out later; it is then not given again. A tax to an owner who is away is
  destroyed; votes of former members count; `spent` holds both.
* Work: one line of cells; the positions, permissions and stamina that refuse a task are a
  free failure. What the code loses is in `supply`: the materials of a build whose later
  turn fails, debts of a mined terminal to others, what decays.

## 6. Plan

In order of importance; the first two are the core, the others extend it.

1. `WorldTransfer` with `Placement` and proofs. Done.
2. `ContractEscrow` with proofs. Done.
3. `BridgeSessions`, `ActDelivery`: the concurrent clients of the server. Done.
4. `EventLog` and `OrgSync`: the rest of the protocol between clients, manager and worlds.
   Done.
5. `ServerHistory` and `IndexPipeline`: crashes, restarts and what is on disk. Done.
6. `Governance` and `WorkTick`: the rules of a world. Done.
7. Proofs of the invariants of `BridgeSessions`, `ActDelivery`, `OrgSync`, `Governance`,
   `IndexPipeline` and `ServerHistory`, conservation in `ContractEscrow`, the step simulation of
   `Placement`, `EventLog`, `WorkTick`. Done.
8. Later: the waiters of `BridgeSessions` (GetObs, Act), the season reset of claims in
   `Governance`, organizations founded in two worlds, the observer's channels.

## 7. Not modelled

Movement and detours (sequential geometry over a large terrain), terrain generation,
the director's choice of events and the fun score (floating point without protocol
state), the observer stream (a read-only view that drops), log rotation and the R2
mirror (nothing reads them back), the MCP sidecar's HTTP layer and request
authentication, catalogs and configuration (parsing), and the command line tools.
`PROJECT.json` gives the reason for each, and what is left out of the components that
are modelled in part.
