------------------------------ MODULE OrgSync ------------------------------
(***************************************************************************)
(* The organizations of a server of several worlds.  Every world keeps a   *)
(* copy of an organization, with a version counted up by its own joins and *)
(* leaves.  The manager keeps one more (globalOrgMeta) and brings the      *)
(* copies together in two ways: an agent that changes world carries the    *)
(* copy of its organization along, and RefreshOrgMeta reads every world,   *)
(* merges, and writes the result back.  RefreshOrgMeta runs on a ticker    *)
(* and after acts on organizations, so two may run at once, and no lock is *)
(* held from its reading to its writing.  A persistence loop writes the    *)
(* manager's copy and the residency of the agents to state.json.           *)
(*                                                                         *)
(* What an organization is called, its kind and the tick of its creation   *)
(* are the founder's, the same in every copy as long as one world founds.  *)
(***************************************************************************)
EXTENDS Integers, Sequences, FiniteSets, FiniteSetsExt

CONSTANTS
  WorldOrder,  \* the worlds, by id
  AgentOrder,  \* the agents, by id
  Founding,    \* the worlds where organizations are founded
  Refreshers,  \* the callers of RefreshOrgMeta
  MaxOrgs,     \* bound on organizations
  MaxOps,      \* bound on acts and switches of world
  MaxFaults,   \* bound on timeouts, failed writes and restarts
  None

Worlds == {WorldOrder[i] : i \in 1..Len(WorldOrder)}
Agents == {AgentOrder[i] : i \in 1..Len(AgentOrder)}
Orgs == 1..MaxOrgs

Members == UNION {[S -> {"LEADER", "MEMBER"}] : S \in SUBSET Agents}
Meta == [version : Nat, members : Members]
Metas == [Orgs -> Meta \cup {None}]

ASSUME OrgAssumption ==
  /\ WorldOrder \in Seq(Worlds) /\ Founding \subseteq Worlds
  /\ MaxOrgs \in Nat /\ MaxOps \in Nat /\ MaxFaults \in Nat
ASSUME NoneAssumption == None \notin Worlds \cup Orgs \cup Meta

VARIABLES
  ops, faults, \* so far
  home,        \* the world an agent is in, None while it is on its way
  orgOf,       \* Agent.OrgID
  orgs,        \* World.orgs, by world
  nextOrg,     \* World.nextOrgNum
  late,        \* a write of RefreshOrgMeta in the channel of a world after
               \* its caller gave up, or None
  global,      \* Manager.globalOrgMeta
  residency,   \* Manager.agentToWorld
  refresh,     \* the calls of RefreshOrgMeta
  move,        \* the switches of world under way
  wake,        \* persistCh holds its token
  writer,      \* persistLoop: what it does and what it writes
  file,        \* state.json
  calm         \* "settled" once a call of RefreshOrgMeta was done and nothing
               \* else was going on since it began

copies == <<home, orgOf, orgs, nextOrg, late>>
manager == <<global, residency>>
disk == <<wake, writer, file>>
vars == <<ops, faults, copies, manager, refresh, move, disk, calm>>

State == [residency : [Agents -> Worlds], orgs : Metas]
Nothing == [o \in Orgs |-> None]

\* An organization without members is deleted by whoever empties it, so the
\* empty copy stands for one that is not there yet.
Blank == [version |-> 0, members |-> [a \in {} |-> "MEMBER"]]

Idle == [pc |-> "idle", at |-> 1, got |-> Nothing, sent |-> Nothing]

TypeOK ==
  /\ ops \in 0..MaxOps /\ faults \in 0..MaxFaults
  /\ home \in [Agents -> Worlds \cup {None}]
  /\ orgOf \in [Agents -> Orgs \cup {None}]
  /\ orgs \in [Worlds -> Metas]
  /\ nextOrg \in [Worlds -> 0..MaxOrgs]
  /\ late \in [Worlds -> Metas \cup {None}]
  /\ global \in Metas
  /\ residency \in [Agents -> Worlds]
  /\ refresh \in [Refreshers -> [pc : {"idle", "collect", "send", "upsert"},
                                 at : 1..Len(WorldOrder) + 1, got : Metas, sent : Metas]]
  /\ move \in [Agents -> [step : {"merge", "attach", "arrive", "back", "record"}, from : Worlds,
                          to : Worlds, meta : Meta \cup {None}] \cup {None}]
  /\ wake \in BOOLEAN
  /\ writer \in [pc : {"idle", "armed", "failed"}, st : {None}] \cup [pc : {"writing"}, st : State]
  /\ file \in State
  /\ calm \in {"busy", "refresh", "settled"}

-----------------------------------------------------------------------------
(* Merging copies. *)

Union(old, new) ==
  [a \in DOMAIN old \cup DOMAIN new |-> IF a \in DOMAIN new THEN new[a] ELSE old[a]]

\* The manager, on a copy of a world: a higher version replaces, the same
\* version adds its members.
Merged(old, new) ==
  CASE new = None -> old
    [] old = None -> new
    [] OTHER -> IF new.version > old.version THEN new
                ELSE IF new.version = old.version
                     THEN [old EXCEPT !.members = Union(old.members, new.members)]
                     ELSE old

\* A world, on the manager's copy.
\* Slip: the older copy wins.
MergeMetaOlder(old, new) ==
  IF new = None \/ (old # None /\ new.version > old.version) THEN old ELSE new

MergeMeta(old, new) ==
  IF new = None \/ (old # None /\ new.version < old.version) THEN old ELSE new

\* A world, on the copy an agent brings.
UpsertIncomingOrg(org, meta, a) ==
  LET old == IF org = None THEN Blank ELSE org
      new == IF meta = None THEN Blank ELSE meta
      both == Union(old.members, new.members)
  IN [version |-> Max({old.version, new.version}),
      members |-> IF a \in DOMAIN both THEN both ELSE Union(both, [b \in {a} |-> "MEMBER"])]

\* orgMetaEqual: the version does not count.
Alike(x, y) == (x = None) = (y = None) /\ (x # None => x.members = y.members)

\* The smallest organization that lists the agent.
Owner(metas, a) ==
  LET listed == {o \in Orgs : metas[o] # None /\ a \in DOMAIN metas[o].members}
  IN IF listed = {} THEN None ELSE Min(listed)

Lists(org, a) == org # None /\ a \in DOMAIN org.members

Init ==
  /\ ops = 0 /\ faults = 0
  /\ home \in [Agents -> Worlds]
  /\ orgOf = [a \in Agents |-> None]
  /\ orgs = [w \in Worlds |-> Nothing]
  /\ nextOrg = [w \in Worlds |-> 0]
  /\ late = [w \in Worlds |-> None]
  /\ global = Nothing
  /\ residency = home
  /\ refresh = [r \in Refreshers |-> Idle]
  /\ move = [a \in Agents |-> None]
  /\ wake = FALSE
  /\ writer = [pc |-> "idle", st |-> None]
  /\ file = [residency |-> home, orgs |-> Nothing]
  /\ calm = "busy"

-----------------------------------------------------------------------------
(* Acts on organizations, in the world the agent is in. *)

Operate == ops < MaxOps /\ ops' = ops + 1 /\ calm' = "busy"
Act(a) ==
  /\ Operate
  /\ home[a] # None
  /\ UNCHANGED <<faults, home, late, manager, refresh, move, disk>>

HandleCreateOrg(a) ==
  LET w == home[a] IN
  /\ Act(a)
  /\ w \in Founding /\ orgOf[a] = None
  /\ nextOrg[w] < MaxOrgs
  /\ nextOrg' = [nextOrg EXCEPT ![w] = @ + 1]
  /\ orgs' = [orgs EXCEPT ![w][nextOrg'[w]] = [version |-> 1, members |-> [b \in {a} |-> "LEADER"]]]
  /\ orgOf' = [orgOf EXCEPT ![a] = nextOrg'[w]]

HandleJoinOrg(a) ==
  LET w == home[a] IN
  /\ Act(a)
  /\ orgOf[a] = None
  /\ \E o \in Orgs :
       /\ orgs[w][o] # None
       /\ orgs' = [orgs EXCEPT ![w][o] =
                     [version |-> @.version + 1,
                      members |-> Union(@.members, [b \in {a} |-> "MEMBER"])]]
       /\ orgOf' = [orgOf EXCEPT ![a] = o]
  /\ UNCHANGED nextOrg

\* SelectNextLeader: the smallest id.
Heir(S) == AgentOrder[Min({i \in 1..Len(AgentOrder) : AgentOrder[i] \in S})]

\* What is left of an organization without the agent, if anything.
Departed(org, a) ==
  LET rest == DOMAIN org.members \ {a}
      members == [b \in rest |-> org.members[b]]
      led == Lists(org, a) /\ org.members[a] = "LEADER"
  IN IF rest = {} THEN None
     ELSE IF led THEN [version |-> org.version + 2,
                       members |-> [members EXCEPT ![Heir(rest)] = "LEADER"]]
     ELSE [version |-> org.version + 1, members |-> members]

HandleLeaveOrg(a) ==
  LET w == home[a] o == orgOf[a] IN
  /\ Act(a)
  /\ o # None
  /\ orgOf' = [orgOf EXCEPT ![a] = None]
  /\ orgs' = IF orgs[w][o] = None THEN orgs
             ELSE [orgs EXCEPT ![w][o] = Departed(@, a)]
  /\ UNCHANGED nextOrg

-----------------------------------------------------------------------------
(* An agent changes world: switchWorld and MoveAgentWorld.  A late answer  *)
(* of a world and what becomes of the agent then belong to the transfers.  *)

schedule == wake' = TRUE /\ UNCHANGED <<writer, file>>

HandleTransferOut(a, to) ==
  LET w == home[a] o == orgOf[a] IN
  /\ Operate
  /\ move[a] = None
  /\ w # None /\ w # to
  /\ home' = [home EXCEPT ![a] = None]
  /\ \E step \in {"merge", "back"} :   \* back: the cooldown is not over
       move' = [move EXCEPT ![a] = [step |-> step, from |-> w, to |-> to,
                                    meta |-> IF o = None THEN None ELSE orgs[w][o]]]
  /\ UNCHANGED <<faults, orgOf, orgs, nextOrg, late, manager, refresh, disk>>

Step(a, step) == move' = [move EXCEPT ![a].step = step]

MergeOrgMetaFromTransfer(a) ==
  /\ move[a] # None /\ move[a].step = "merge"
  /\ IF move[a].meta = None THEN UNCHANGED <<global, disk>>
     ELSE /\ global' = [global EXCEPT ![orgOf[a]] = Merged(@, move[a].meta)]
          /\ schedule
  /\ Step(a, "attach") /\ calm' = "busy"
  /\ UNCHANGED <<ops, faults, copies, residency, refresh>>

AttachOrgMetaToTransfer(a) ==
  /\ move[a] # None /\ move[a].step = "attach"
  /\ LET known == orgOf[a] # None /\ global[orgOf[a]] # None
         meta == IF known THEN global[orgOf[a]] ELSE move[a].meta
     IN move' = [move EXCEPT ![a] = [@ EXCEPT !.step = "arrive", !.meta = meta]]
  /\ calm' = "busy"
  /\ UNCHANGED <<ops, faults, copies, manager, refresh, disk>>

\* HandleTransferIn.
Enter(a, w) ==
  LET o == orgOf[a] IN
  /\ home' = [home EXCEPT ![a] = w]
  /\ IF o = None THEN UNCHANGED <<orgs, nextOrg>>
     ELSE /\ orgs' = [orgs EXCEPT ![w][o] = UpsertIncomingOrg(@, move[a].meta, a)]
          /\ nextOrg' = IF orgs[w][o] # None THEN nextOrg
                        ELSE [nextOrg EXCEPT ![w] = Max({@, o})]
  /\ calm' = "busy"
  /\ UNCHANGED <<ops, orgOf, late, manager, refresh>>

HandleTransferIn(a) ==
  /\ move[a] # None /\ move[a].step = "arrive"
  /\ Enter(a, move[a].to)
  /\ Step(a, "record")
  /\ UNCHANGED <<faults, disk>>

Fault == faults < MaxFaults /\ faults' = faults + 1

TargetBusy(a) ==
  /\ move[a] # None /\ move[a].step = "arrive"
  /\ Fault
  /\ Step(a, "back") /\ calm' = "busy"
  /\ UNCHANGED <<ops, copies, manager, refresh, disk>>

RollBack(a) ==
  /\ move[a] # None /\ move[a].step = "back"
  /\ Enter(a, move[a].from)
  /\ move' = [move EXCEPT ![a] = None]
  /\ schedule                          \* recordSwitch
  /\ UNCHANGED faults

UpdateResidency(a) ==
  /\ move[a] # None /\ move[a].step = "record"
  /\ residency' = [residency EXCEPT ![a] = move[a].to]
  /\ move' = [move EXCEPT ![a] = None]
  /\ schedule /\ calm' = "busy"
  /\ UNCHANGED <<ops, faults, copies, global, refresh>>

-----------------------------------------------------------------------------
(* RefreshOrgMeta: one request to every world, in the order of their ids.  *)

At(r) == WorldOrder[refresh[r].at]
Goes(r, pc) == refresh[r].pc = pc

RefreshBegin(r) ==
  /\ Goes(r, "idle")
  /\ refresh' = [refresh EXCEPT ![r].pc = "collect", ![r].at = 1]
  /\ calm' = IF /\ \A q \in Refreshers \ {r} : Goes(q, "idle")
                /\ \A a \in Agents : move[a] = None
                /\ \A w \in Worlds : late[w] = None
             THEN "refresh" ELSE "busy"
  /\ UNCHANGED <<ops, faults, copies, manager, move, disk>>

Skip(r) == refresh' = [refresh EXCEPT ![r].at = @ + 1]

Collect(r) ==
  /\ Goes(r, "collect") /\ refresh[r].at <= Len(WorldOrder)
  /\ refresh' = [refresh EXCEPT
       ![r].got = [o \in Orgs |-> Merged(@[o], orgs[At(r)][o])], ![r].at = @ + 1]
  /\ UNCHANGED <<ops, faults, copies, manager, move, disk, calm>>

\* The world does not answer in time: it counts as one without organizations.
CollectFails(r) ==
  /\ Goes(r, "collect") /\ refresh[r].at <= Len(WorldOrder)
  /\ Fault /\ Skip(r) /\ calm' = "busy"
  /\ UNCHANGED <<ops, copies, manager, move, disk>>

\* Slip: organizations no world reports are dropped without a write.
StoreSilently(r) ==
  LET got == refresh[r].got IN
  /\ Goes(r, "collect") /\ refresh[r].at > Len(WorldOrder)
  /\ global' = [o \in Orgs |-> IF Alike(global[o], got[o]) THEN global[o] ELSE got[o]]
  /\ IF \E o \in Orgs : got[o] # None /\ ~Alike(global[o], got[o])
     THEN schedule ELSE UNCHANGED disk
  /\ refresh' = [refresh EXCEPT ![r].pc = "send"]
  /\ UNCHANGED <<ops, faults, copies, residency, move, calm>>

Store(r) ==
  LET got == refresh[r].got IN
  /\ Goes(r, "collect") /\ refresh[r].at > Len(WorldOrder)
  /\ global' = [o \in Orgs |-> IF Alike(global[o], got[o]) THEN global[o] ELSE got[o]]
  /\ IF \E o \in Orgs : ~Alike(global[o], got[o]) THEN schedule ELSE UNCHANGED disk
  /\ refresh' = [refresh EXCEPT ![r].pc = "send"]
  /\ UNCHANGED <<ops, faults, copies, residency, move, calm>>

SnapshotOrgTransfers(r) ==
  /\ Goes(r, "send")
  /\ refresh' = [refresh EXCEPT ![r] = [pc |-> "upsert", at |-> 1, got |-> Nothing, sent |-> global]]
  /\ UNCHANGED <<ops, faults, copies, manager, move, disk, calm>>

\* Slip: an agent that no copy lists keeps its organization.
ApplyOrgMetaKeeping(w, sent) ==
  LET new == [o \in Orgs |-> MergeMeta(orgs[w][o], sent[o])] IN
  IF sent = Nothing THEN UNCHANGED <<orgs, orgOf>>
  ELSE /\ orgs' = [orgs EXCEPT ![w] = new]
       /\ orgOf' = [a \in Agents |-> IF home[a] = w /\ Owner(new, a) # None
                                     THEN Owner(new, a) ELSE orgOf[a]]

ApplyOrgMetaUpsert(w, sent) ==
  LET new == [o \in Orgs |-> MergeMeta(orgs[w][o], sent[o])] IN
  IF sent = Nothing THEN UNCHANGED <<orgs, orgOf>>
  ELSE /\ orgs' = [orgs EXCEPT ![w] = new]
       /\ orgOf' = [a \in Agents |-> IF home[a] = w THEN Owner(new, a) ELSE orgOf[a]]

Upsert(r) ==
  /\ Goes(r, "upsert") /\ refresh[r].at <= Len(WorldOrder)
  /\ late[At(r)] = None
  /\ ApplyOrgMetaUpsert(At(r), refresh[r].sent)
  /\ Skip(r)
  /\ UNCHANGED <<ops, faults, home, nextOrg, late, manager, move, disk, calm>>

\* The caller gives up; the world may already hold the request.
UpsertFails(r) ==
  /\ Goes(r, "upsert") /\ refresh[r].at <= Len(WorldOrder)
  /\ Fault /\ Skip(r) /\ calm' = "busy"
  /\ \/ UNCHANGED late
     \/ late[At(r)] = None /\ late' = [late EXCEPT ![At(r)] = refresh[r].sent]
  /\ UNCHANGED <<ops, home, orgOf, orgs, nextOrg, manager, move, disk>>

UpsertLate(w) ==
  /\ late[w] # None
  /\ ApplyOrgMetaUpsert(w, late[w])
  /\ late' = [late EXCEPT ![w] = None]
  /\ calm' = "busy"
  /\ UNCHANGED <<ops, faults, home, nextOrg, manager, refresh, move, disk>>

RefreshEnd(r) ==
  /\ Goes(r, "upsert") /\ refresh[r].at > Len(WorldOrder)
  /\ refresh' = [refresh EXCEPT ![r] = Idle]
  /\ calm' = IF calm = "refresh" THEN "settled" ELSE calm
  /\ UNCHANGED <<ops, faults, copies, manager, move, disk>>

-----------------------------------------------------------------------------
(* persistLoop: a change arms the timer, the timer takes a snapshot and    *)
(* writes it.  The channel holds one token, taken while nothing is written.*)

SnapshotState == [residency |-> residency, orgs |-> global]
busy == <<ops, copies, manager, refresh, move, calm>>

PersistArm ==
  /\ wake /\ writer.pc # "writing"
  /\ wake' = FALSE
  /\ writer' = [pc |-> "armed", st |-> None]
  /\ UNCHANGED <<faults, file, busy>>

PersistFires ==
  /\ writer.pc = "armed"
  /\ writer' = [pc |-> "writing", st |-> SnapshotState]
  /\ UNCHANGED <<faults, wake, file, busy>>

WriteState ==
  /\ writer.pc = "writing"
  /\ file' = writer.st
  /\ writer' = [pc |-> "idle", st |-> None]
  /\ UNCHANGED <<faults, wake, busy>>

\* The error of the temporary file is not reported.
WriteFails ==
  /\ writer.pc = "writing"
  /\ Fault
  /\ writer' = [pc |-> "failed", st |-> None]
  /\ UNCHANGED <<wake, file, busy>>

\* A server of several worlds starts them empty and loads state.json.
Restart ==
  /\ Fault
  /\ home' = [a \in Agents |-> None]
  /\ orgOf' = [a \in Agents |-> None]
  /\ orgs' = [w \in Worlds |-> Nothing]
  /\ nextOrg' = [w \in Worlds |-> 0]
  /\ late' = [w \in Worlds |-> None]
  /\ global' = file.orgs
  /\ residency' = file.residency
  /\ refresh' = [r \in Refreshers |-> Idle]
  /\ move' = [a \in Agents |-> None]
  /\ wake' = FALSE
  /\ writer' = [pc |-> "idle", st |-> None]
  /\ calm' = "busy"
  /\ UNCHANGED <<ops, file>>

AgentStep(a) ==
  \/ HandleCreateOrg(a) \/ HandleJoinOrg(a) \/ HandleLeaveOrg(a)
  \/ \E w \in Worlds : HandleTransferOut(a, w)
  \/ MergeOrgMetaFromTransfer(a) \/ AttachOrgMetaToTransfer(a)
  \/ HandleTransferIn(a) \/ TargetBusy(a) \/ RollBack(a) \/ UpdateResidency(a)

RefreshStep(r) ==
  \/ RefreshBegin(r) \/ Collect(r) \/ CollectFails(r) \/ Store(r)
  \/ SnapshotOrgTransfers(r) \/ Upsert(r) \/ UpsertFails(r) \/ RefreshEnd(r)

PersistStep == PersistArm \/ PersistFires \/ WriteState \/ WriteFails

Next ==
  \/ \E a \in Agents : AgentStep(a)
  \/ \E r \in Refreshers : RefreshStep(r)
  \/ \E w \in Worlds : UpsertLate(w)
  \/ PersistStep
  \/ Restart

Spec == Init /\ [][Next]_vars

-----------------------------------------------------------------------------
(* Properties. *)

\* The organization an agent belongs to lists it as a member in the world the
\* agent is in: whatever copies a refresh, a late write or an arriving agent
\* brings, ReconcileAgentsOrg and UpsertIncomingOrg keep the two sides of the
\* membership together.
AgentsBacked ==
  \A a \in Agents :
    (home[a] # None /\ orgOf[a] # None) => Lists(orgs[home[a]][orgOf[a]], a)

\* The version of a world's copy never goes down: neither a late write of
\* RefreshOrgMeta nor an agent with an old copy undoes what the world counted.
VersionsGrow ==
  [][\A w \in Worlds, o \in Orgs :
       (orgs[w][o] # None /\ orgs'[w][o] # None) => orgs'[w][o].version >= orgs[w][o].version]_orgs

\* When RefreshOrgMeta was done and nothing else went on since it began, every
\* world knows the organizations the manager knows, and where a world's copy
\* has the manager's version or a lower one, it has the manager's members.
RefreshAgrees ==
  calm = "settled" =>
    \A w \in Worlds, o \in Orgs :
      /\ (orgs[w][o] = None) = (global[o] = None)
      /\ (global[o] # None /\ orgs[w][o].version <= global[o].version) =>
            orgs[w][o] = global[o]

\* state.json holds the residency and the organizations of the manager
\* whenever the persistence loop is at rest: no change is missed between the
\* snapshot and the end of the write, whoever makes it.  A write that failed
\* is not repeated until the next change.
FileCurrent == (writer.pc = "idle" /\ ~wake) => file = SnapshotState

\* After a refresh every world has the members the manager has: "world %s member
\* count mismatch" is an error of org_meta_stress_test.go:297-298.
RefreshConverges ==
  calm = "settled" =>
    \A w \in Worlds, o \in Orgs : Alike(orgs[w][o], global[o])
=============================================================================
