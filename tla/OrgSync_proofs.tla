--------------------------- MODULE OrgSync_proofs ---------------------------
(***************************************************************************)
(* Proofs about OrgSync: an agent and the organization it belongs to agree *)
(* in the world the agent is in, and the version of a copy never goes      *)
(* down, if one world founds organizations; an undisturbed refresh brings  *)
(* the worlds and the manager together, and state.json is current when the *)
(* persistence loop rests, wherever they are founded.  For any worlds,     *)
(* agents and callers of RefreshOrgMeta.                                   *)
(***************************************************************************)
EXTENDS OrgSync, WellFoundedInduction, TLAPS

\* One world founds: each numbers its organizations from 1.
OneFounder == \A v, w \in Founding : v = w

-----------------------------------------------------------------------------
(* The inductive invariant                                                 *)

\* No agent is in a world or between two: the server was restarted.
Away == \A a \in Agents : home[a] = None /\ move[a] = None

\* Only numbers the founder has given are in use, wherever a copy is kept.
Unused(o) ==
  /\ \A w \in Worlds : orgs[w][o] = None /\ (late[w] # None => late[w][o] = None)
  /\ global[o] = None
  /\ \A r \in Refreshers : refresh[r].got[o] = None /\ refresh[r].sent[o] = None
  /\ \A a \in Agents : orgOf[a] # o
Numbered ==
  \/ Away
  \/ \A f \in Founding : \A o \in Orgs : nextOrg[f] < o => Unused(o)

\* What is being written is current unless another write has been asked for.
Written ==
  /\ writer.pc = "writing" /\ ~wake => writer.st = SnapshotState
  /\ FileCurrent

\* The organizations of some worlds are among those of the manager.
Among(metas, W) ==
  \A w \in W, o \in Orgs : orgs[w][o] # None => metas[o] # None

\* The worlds a call has been through.
Before(r) == {WorldOrder[i] : i \in {j \in 1..Len(WorldOrder) : j < refresh[r].at}}

Agreed(w) ==
  \A o \in Orgs :
    /\ (orgs[w][o] = None) = (global[o] = None)
    /\ (global[o] # None /\ orgs[w][o].version <= global[o].version) => orgs[w][o] = global[o]

\* How far an undisturbed call has come.
Stage(r) ==
  /\ ~Goes(r, "idle")
  /\ \A q \in Refreshers \ {r} : Goes(q, "idle")
  /\ Goes(r, "collect") => Among(refresh[r].got, Before(r))
  /\ ~Goes(r, "collect") => Among(global, Worlds)
  /\ Goes(r, "upsert") => refresh[r].sent = global /\ \A w \in Before(r) : Agreed(w)

Undisturbed ==
  /\ calm # "busy" => \A a \in Agents : move[a] = None
  /\ calm # "busy" => \A w \in Worlds : late[w] = None
  /\ calm = "refresh" => \E r \in Refreshers : Stage(r)
  /\ calm = "settled" => \A r \in Refreshers : Goes(r, "idle")
  /\ calm = "settled" => \A w \in Worlds : Agreed(w)

IInv == TypeOK /\ AgentsBacked /\ Numbered

-----------------------------------------------------------------------------
(* Merging copies                                                          *)

\* The members of an organization are a map from some agents to roles.
LEMMA MemberMap ==
  \A m : m \in Members <=>
           DOMAIN m \in SUBSET Agents /\ m \in [DOMAIN m -> {"LEADER", "MEMBER"}]
  BY DEF Members

\* A map of some agents to roles is one of members.
LEMMA MapOfMembers ==
  ASSUME NEW S \in SUBSET Agents, NEW m \in [S -> {"LEADER", "MEMBER"}]
  PROVE  m \in Members
  BY DEF Members

\* The members of two copies together.
LEMMA UnionType ==
  ASSUME NEW old \in Members, NEW new \in Members
  PROVE  Union(old, new) \in Members /\ DOMAIN Union(old, new) = DOMAIN old \cup DOMAIN new
<1>1. /\ DOMAIN old \in SUBSET Agents /\ old \in [DOMAIN old -> {"LEADER", "MEMBER"}]
      /\ DOMAIN new \in SUBSET Agents /\ new \in [DOMAIN new -> {"LEADER", "MEMBER"}]
  BY MemberMap
<1> DEFINE S == DOMAIN old \cup DOMAIN new
<1>2. Union(old, new) \in [S -> {"LEADER", "MEMBER"}] /\ S \in SUBSET Agents
  BY <1>1 DEF Union
<1> QED
  BY <1>2, MapOfMembers DEF Union

\* The greater of two versions.
LEMMA MaxOfTwo ==
  ASSUME NEW x \in Nat, NEW y \in Nat
  PROVE  Max({x, y}) \in {x, y} /\ Max({x, y}) >= x /\ Max({x, y}) >= y
<1>1. \E m \in {x, y} : \A n \in {x, y} : m >= n
  OBVIOUS
<1> QED
  BY <1>1 DEF Max

\* The manager has an organization after merging a copy if it had it or the
\* copy is one.
LEMMA MergedType ==
  ASSUME NEW old \in Meta \cup {None}, NEW new \in Meta \cup {None}
  PROVE  /\ Merged(old, new) \in Meta \cup {None}
         /\ Merged(old, new) = None <=> old = None /\ new = None
<1>1. None \notin Meta
  BY NoneAssumption
<1>2. CASE old = None \/ new = None
  BY <1>2 DEF Merged
<1>3. CASE old \in Meta /\ new \in Meta
  <2>1. Union(old.members, new.members) \in Members
    BY <1>3, UnionType DEF Meta
  <2>2. [old EXCEPT !.members = Union(old.members, new.members)] \in Meta
    BY <1>3, <2>1 DEF Meta
  <2> QED
    BY <1>1, <1>3, <2>2 DEF Merged
<1> QED
  BY <1>2, <1>3

\* A world has an organization after a write if it had it or is sent it, with
\* a version that is no lower; below the version it is sent it takes the copy.
LEMMA MergeMetaType ==
  ASSUME NEW old \in Meta \cup {None}, NEW new \in Meta \cup {None}
  PROVE  /\ MergeMeta(old, new) \in Meta \cup {None}
         /\ MergeMeta(old, new) = None <=> old = None /\ new = None
         /\ old # None => MergeMeta(old, new).version >= old.version
         /\ (new # None /\ MergeMeta(old, new).version <= new.version)
              => MergeMeta(old, new) = new
<1>1. None \notin Meta /\ \A m \in Meta : m.version \in Nat
  BY NoneAssumption DEF Meta
<1>2. CASE new = None
  BY <1>1, <1>2 DEF MergeMeta
<1>3. CASE new # None /\ old = None
  BY <1>1, <1>3 DEF MergeMeta
<1>4. CASE new # None /\ old # None
  <2>1. old.version \in Nat /\ new.version \in Nat
    BY <1>1, <1>4
  <2>2. CASE new.version < old.version
    BY <1>4, <2>1, <2>2 DEF MergeMeta
  <2>3. CASE ~(new.version < old.version)
    BY <1>4, <2>1, <2>3 DEF MergeMeta
  <2> QED
    BY <2>2, <2>3
<1> QED
  BY <1>2, <1>3, <1>4

\* What a world has after an agent has come: the agent is listed, with all
\* who were, and the version is no lower.
LEMMA UpsertType ==
  ASSUME NEW org \in Meta \cup {None}, NEW meta \in Meta \cup {None}, NEW a \in Agents
  PROVE  /\ UpsertIncomingOrg(org, meta, a) \in Meta
         /\ Lists(UpsertIncomingOrg(org, meta, a), a)
         /\ \A b \in Agents : Lists(org, b) => Lists(UpsertIncomingOrg(org, meta, a), b)
         /\ org # None => UpsertIncomingOrg(org, meta, a).version >= org.version
<1> DEFINE old == IF org = None THEN Blank ELSE org
           new == IF meta = None THEN Blank ELSE meta
           both == Union(old.members, new.members)
           self == [b \in {a} |-> "MEMBER"]
           all == IF a \in DOMAIN both THEN both ELSE Union(both, self)
           up == [version |-> Max({old.version, new.version}), members |-> all]
<1>1. Blank \in Meta
  <2>1. [b \in {} |-> "MEMBER"] \in [{} -> {"LEADER", "MEMBER"}] /\ {} \in SUBSET Agents
    OBVIOUS
  <2>2. [b \in {} |-> "MEMBER"] \in Members
    BY <2>1 DEF Members
  <2> QED
    BY <2>2 DEF Blank, Meta
<1>2. old \in Meta /\ new \in Meta
  BY <1>1
<1>3. both \in Members /\ DOMAIN both = DOMAIN old.members \cup DOMAIN new.members
  BY <1>2, UnionType DEF Meta
<1>4. self \in Members /\ DOMAIN self = {a}
  <2>1. self \in [{a} -> {"LEADER", "MEMBER"}] /\ {a} \in SUBSET Agents
    OBVIOUS
  <2> QED
    BY <2>1, MapOfMembers
<1>5. all \in Members /\ DOMAIN all = DOMAIN both \cup {a}
  <2> HIDE DEF both, self
  <2>1. Union(both, self) \in Members /\ DOMAIN Union(both, self) = DOMAIN both \cup {a}
    <3>1. DOMAIN Union(both, self) = DOMAIN both \cup DOMAIN self
      BY <1>3, <1>4, UnionType
    <3> QED
      BY <1>3, <1>4, <3>1, UnionType
  <2>2. CASE a \in DOMAIN both
    BY <1>3, <2>2
  <2>3. CASE a \notin DOMAIN both
    BY <2>1, <2>3
  <2> QED
    BY <2>2, <2>3
<1>6. Max({old.version, new.version}) \in Nat /\ Max({old.version, new.version}) >= old.version
  <2>1. old.version \in Nat /\ new.version \in Nat
    BY <1>2 DEF Meta
  <2> QED
    BY <2>1, MaxOfTwo
<1>7. UpsertIncomingOrg(org, meta, a) = up
  BY DEF UpsertIncomingOrg
<1>8. up \in Meta /\ up.version >= old.version /\ up.members = all
  <2> HIDE DEF all, old, new
  <2> QED
    BY <1>5, <1>6 DEF Meta
<1>9. up # None
  BY <1>8, NoneAssumption
<1> HIDE DEF up, all, both
<1> QED
  BY <1>3, <1>5, <1>7, <1>8, <1>9 DEF Lists

\* What a world has after a member has left: all the others, with a higher
\* version.
LEMMA DepartedType ==
  ASSUME NEW org \in Meta, NEW a \in Agents
  PROVE  /\ Departed(org, a) \in Meta \cup {None}
         /\ Departed(org, a) # None => Departed(org, a).version >= org.version
         /\ \A b \in Agents \ {a} : Lists(org, b) => Lists(Departed(org, a), b)
<1> DEFINE rest == DOMAIN org.members \ {a}
           kept == [b \in rest |-> org.members[b]]
           led == [kept EXCEPT ![Heir(rest)] = "LEADER"]
<1>1. /\ org.version \in Nat /\ DOMAIN org.members \in SUBSET Agents
      /\ org.members \in [DOMAIN org.members -> {"LEADER", "MEMBER"}]
  BY MemberMap DEF Meta
<1>2. kept \in [rest -> {"LEADER", "MEMBER"}] /\ rest \in SUBSET Agents
  BY <1>1
<1>3. led \in [rest -> {"LEADER", "MEMBER"}]
  BY <1>2
<1>4. kept \in Members /\ led \in Members /\ DOMAIN kept = rest /\ DOMAIN led = rest
  BY <1>2, <1>3, MapOfMembers
<1>5. Departed(org, a) \in IF rest = {} THEN {None}
                           ELSE {[version |-> org.version + 2, members |-> led],
                                 [version |-> org.version + 1, members |-> kept]}
  BY DEF Departed
<1>6. \A m : m \in Meta => m # None
  BY NoneAssumption
<1> HIDE DEF led, kept
<1>7. /\ [version |-> org.version + 2, members |-> led] \in Meta
      /\ [version |-> org.version + 1, members |-> kept] \in Meta
  BY <1>1, <1>4 DEF Meta
<1>8. CASE rest = {}
  BY <1>5, <1>8 DEF Lists
<1>9. CASE rest # {}
  BY <1>1, <1>4, <1>5, <1>6, <1>7, <1>9 DEF Lists
<1> QED
  BY <1>8, <1>9

\* A set of numbers that is not empty has a least one.
LEMMA Least ==
  ASSUME NEW S \in SUBSET Nat, S # {}
  PROVE  \E x \in S : \A y \in S : x <= y
<1>1. PICK x \in S : \A y \in S : ~(<<y, x>> \in OpToRel(<, Nat))
  BY NatLessThanWellFounded, WFMin
<1>2. \A y \in S : ~(y < x)
  BY <1>1, Zenon DEF OpToRel
<1> QED
  BY <1>2

\* The organization an agent belongs to by the copies of a world lists it.
LEMMA OwnerLists ==
  ASSUME NEW metas \in Metas, NEW a \in Agents
  PROVE  \/ Owner(metas, a) = None
         \/ Owner(metas, a) \in Orgs /\ Lists(metas[Owner(metas, a)], a)
<1> DEFINE listed == {o \in Orgs : metas[o] # None /\ a \in DOMAIN metas[o].members}
<1>1. CASE listed = {}
  BY <1>1 DEF Owner
<1>2. CASE listed # {}
  <2>1. listed \in SUBSET Nat
    BY OrgAssumption DEF Orgs
  <2>2. Min(listed) \in listed
    <3> HIDE DEF listed
    <3>1. \E x \in listed : \A y \in listed : x <= y
      BY <1>2, <2>1, Least
    <3> QED
      BY <3>1 DEF Min
  <2>3. Owner(metas, a) = Min(listed)
    BY <1>2 DEF Owner
  <2> QED
    BY <2>2, <2>3 DEF Lists
<1> QED
  BY <1>1, <1>2

-----------------------------------------------------------------------------
(* Types                                                                   *)

Calls == [pc : {"idle", "collect", "send", "upsert"},
          at : 1..Len(WorldOrder) + 1, got : Metas, sent : Metas]
Moves == [step : {"merge", "attach", "arrive", "back", "record"}, from : Worlds,
          to : Worlds, meta : Meta \cup {None}]
Writers == [pc : {"idle", "armed", "failed"}, st : {None}] \cup [pc : {"writing"}, st : State]

\* Where the agents are, what the worlds keep, and what the manager keeps.
CopiesOK ==
  /\ home \in [Agents -> Worlds \cup {None}]
  /\ orgOf \in [Agents -> Orgs \cup {None}]
  /\ orgs \in [Worlds -> Metas]
  /\ nextOrg \in [Worlds -> 0..MaxOrgs]
  /\ late \in [Worlds -> Metas \cup {None}]
ManagerOK == global \in Metas /\ residency \in [Agents -> Worlds]
DiskOK == wake \in BOOLEAN /\ writer \in Writers /\ file \in State
CallsOK == refresh \in [Refreshers -> Calls]
MovesOK == move \in [Agents -> Moves \cup {None}]
CountsOK ==
  /\ ops \in 0..MaxOps /\ faults \in 0..MaxFaults
  /\ calm \in {"busy", "refresh", "settled"}

\* The type invariant by its parts.
LEMMA TypeParts ==
  TypeOK <=> CopiesOK /\ ManagerOK /\ DiskOK /\ CallsOK /\ MovesOK /\ CountsOK
  BY DEF TypeOK, CopiesOK, ManagerOK, DiskOK, CallsOK, MovesOK, CountsOK,
         Calls, Moves, Writers

\* The bounds of an instance.
LEMMA Bounds ==
  /\ MaxOps \in Nat /\ MaxFaults \in Nat /\ MaxOrgs \in Nat /\ Len(WorldOrder) \in Nat
  /\ \A i \in 1..Len(WorldOrder) : WorldOrder[i] \in Worlds
  /\ None \notin Worlds /\ None \notin Orgs /\ None \notin Meta
  BY OrgAssumption, NoneAssumption DEF Worlds

\* The counts after an operation, after a fault, and otherwise.
LEMMA CountSteps ==
  ASSUME CountsOK
  PROVE  /\ Operate /\ UNCHANGED faults => CountsOK'
         /\ Fault /\ UNCHANGED ops /\ calm' = "busy" => CountsOK'
         /\ UNCHANGED <<ops, faults>> /\ calm' \in {"busy", "refresh", "settled"} => CountsOK'
  BY Bounds DEF CountsOK, Operate, Fault

\* Maps of copies.
LEMMA MetasType ==
  /\ Nothing \in Metas
  /\ \A m \in Metas, o \in Orgs : m[o] \in Meta \cup {None}
  /\ \A m \in Metas, o \in Orgs, x \in Meta \cup {None} :
        [m EXCEPT ![o] = x] \in Metas
  BY DEF Metas, Nothing

\* The copies of a world change by one organization.
LEMMA OneCopy ==
  ASSUME CopiesOK, NEW w \in Worlds, NEW o \in Orgs, NEW x \in Meta \cup {None}
  PROVE  [orgs EXCEPT ![w][o] = x] \in [Worlds -> Metas]
<1>1. orgs \in [Worlds -> Metas] /\ orgs[w] \in Metas
  BY DEF CopiesOK
<1>2. [orgs[w] EXCEPT ![o] = x] \in Metas
  BY <1>1, MetasType
<1> QED
  BY <1>1, <1>2

\* An act on organizations keeps the types.
LEMMA ActTypes ==
  ASSUME TypeOK, NEW a \in Agents,
         HandleCreateOrg(a) \/ HandleJoinOrg(a) \/ HandleLeaveOrg(a)
  PROVE  TypeOK'
<1>0. CopiesOK /\ ManagerOK /\ DiskOK /\ CallsOK /\ MovesOK /\ CountsOK
  BY TypeParts
<1>1. Act(a)
  BY DEF HandleCreateOrg, HandleJoinOrg, HandleLeaveOrg
<1>2. /\ UNCHANGED <<faults, home, late, manager, refresh, move, disk>> /\ Operate
      /\ home[a] # None
  BY <1>1 DEF Act
<1>3. ManagerOK' /\ DiskOK' /\ CallsOK' /\ MovesOK' /\ CountsOK'
  BY <1>0, <1>2, CountSteps DEF ManagerOK, DiskOK, CallsOK, MovesOK, manager, disk
<1> DEFINE w == home[a]
<1>4. w \in Worlds
  BY <1>0, <1>2 DEF CopiesOK
<1>5. orgOf' \in [Agents -> Orgs \cup {None}] /\ orgs' \in [Worlds -> Metas]
      /\ nextOrg' \in [Worlds -> 0..MaxOrgs]
  <2>1. CASE HandleCreateOrg(a)
    <3> DEFINE n == nextOrg[w] + 1
               new == [version |-> 1, members |-> [b \in {a} |-> "LEADER"]]
    <3>1. n \in Orgs /\ n \in 0..MaxOrgs
      BY <1>0, <1>4, <2>1, Bounds DEF CopiesOK, HandleCreateOrg, Orgs
    <3>2. new \in Meta
      <4>1. [b \in {a} |-> "LEADER"] \in [{a} -> {"LEADER", "MEMBER"}] /\ {a} \in SUBSET Agents
        OBVIOUS
      <4>2. [b \in {a} |-> "LEADER"] \in Members
        BY <4>1, MapOfMembers
      <4> QED
        BY <4>2 DEF Meta
    <3>3. nextOrg' = [nextOrg EXCEPT ![w] = n]
      BY <2>1 DEF HandleCreateOrg
    <3>4. nextOrg'[w] = n
      BY <1>0, <1>4, <3>3 DEF CopiesOK
    <3>5. orgs' = [orgs EXCEPT ![w][n] = new] /\ orgOf' = [orgOf EXCEPT ![a] = n]
      BY <2>1, <3>4 DEF HandleCreateOrg
    <3> HIDE DEF n, new, w
    <3> QED
      BY <1>0, <1>4, <3>1, <3>2, <3>3, <3>5, OneCopy DEF CopiesOK
  <2>2. CASE HandleJoinOrg(a)
    <3>1. PICK o \in Orgs :
            /\ orgs[w][o] # None
            /\ orgs' = [orgs EXCEPT ![w][o] =
                          [version |-> @.version + 1,
                           members |-> Union(@.members, [b \in {a} |-> "MEMBER"])]]
            /\ orgOf' = [orgOf EXCEPT ![a] = o]
      BY <2>2 DEF HandleJoinOrg
    <3> DEFINE x == [version |-> orgs[w][o].version + 1,
                     members |-> Union(orgs[w][o].members, [b \in {a} |-> "MEMBER"])]
    <3>2. orgs[w][o] \in Meta
      BY <1>0, <1>4, <3>1, MetasType DEF CopiesOK
    <3>3. x \in Meta
      <4>1. [b \in {a} |-> "MEMBER"] \in [{a} -> {"LEADER", "MEMBER"}] /\ {a} \in SUBSET Agents
        OBVIOUS
      <4>2. [b \in {a} |-> "MEMBER"] \in Members
        BY <4>1, MapOfMembers
      <4>3. orgs[w][o].version \in Nat /\ orgs[w][o].members \in Members
        BY <3>2 DEF Meta
      <4>4. Union(orgs[w][o].members, [b \in {a} |-> "MEMBER"]) \in Members
        BY ONLY <4>2, <4>3, UnionType
      <4> QED
        BY <4>3, <4>4 DEF Meta
    <3>4. orgs' = [orgs EXCEPT ![w][o] = x] /\ nextOrg' = nextOrg
      BY <2>2, <3>1 DEF HandleJoinOrg
    <3>5. orgOf' \in [Agents -> Orgs \cup {None}] /\ nextOrg' \in [Worlds -> 0..MaxOrgs]
      BY <1>0, <3>1, <3>4 DEF CopiesOK
    <3> HIDE DEF x, w
    <3>6. orgs' \in [Worlds -> Metas]
      BY <1>0, <1>4, <3>3, <3>4, OneCopy
    <3> QED
      BY <3>5, <3>6
  <2>3. CASE HandleLeaveOrg(a)
    <3> DEFINE o == orgOf[a]
    <3>1. o \in Orgs /\ nextOrg' = nextOrg /\ orgOf' = [orgOf EXCEPT ![a] = None]
      BY <1>0, <2>3 DEF HandleLeaveOrg, CopiesOK
    <3>2. CASE orgs[w][o] = None
      BY <1>0, <2>3, <3>1, <3>2 DEF HandleLeaveOrg, CopiesOK
    <3>3. CASE orgs[w][o] # None
      <4>1. orgs[w][o] \in Meta
        BY <1>0, <1>4, <3>1, <3>3, MetasType DEF CopiesOK
      <4>2. Departed(orgs[w][o], a) \in Meta \cup {None}
        BY <4>1, DepartedType
      <4>3. orgs' = [orgs EXCEPT ![w][o] = Departed(orgs[w][o], a)]
        BY <2>3, <3>3 DEF HandleLeaveOrg
      <4> HIDE DEF o, w
      <4> QED
        BY <1>0, <1>4, <3>1, <4>2, <4>3, OneCopy DEF CopiesOK
    <3> QED
      BY <3>2, <3>3
  <2> QED
    BY <2>1, <2>2, <2>3
<1>6. CopiesOK'
  BY <1>0, <1>2, <1>5 DEF CopiesOK
<1> QED
  BY <1>3, <1>6, TypeParts, PTL

\* One agent's switch goes on.
LEMMA MoveSteps ==
  ASSUME MovesOK, NEW a \in Agents
  PROVE  /\ \A s \in {"merge", "attach", "arrive", "back", "record"} :
              move[a] # None /\ Step(a, s) => MovesOK'
         /\ \A m \in Moves \cup {None} : move' = [move EXCEPT ![a] = m] => MovesOK'
<1>1. ASSUME NEW s \in {"merge", "attach", "arrive", "back", "record"},
             move[a] # None, Step(a, s)
      PROVE  MovesOK'
  <2>1. move[a] \in Moves
    BY <1>1 DEF MovesOK
  <2> DEFINE m == [step |-> s, from |-> move[a].from, to |-> move[a].to, meta |-> move[a].meta]
  <2>2. m \in Moves
    BY <2>1 DEF Moves
  <2>3. move' = [move EXCEPT ![a] = m]
    <3>1. [move[a] EXCEPT !.step = s] = m
      BY <2>1 DEF Moves
    <3>2. move' = [move EXCEPT ![a] = [move[a] EXCEPT !.step = s]]
      BY <1>1 DEF Step
    <3> HIDE DEF m
    <3> QED
      BY <3>1, <3>2
  <2> HIDE DEF m
  <2> QED
    BY <2>2, <2>3 DEF MovesOK
<1>2. ASSUME NEW m \in Moves \cup {None}, move' = [move EXCEPT ![a] = m]
      PROVE  MovesOK'
  BY <1>2 DEF MovesOK
<1> QED
  BY <1>1, <1>2

\* The arrival of an agent in a world keeps the types.
LEMMA EnterTypes ==
  ASSUME TypeOK, NEW a \in Agents, NEW w \in Worlds, move[a] # None, Enter(a, w)
  PROVE  CopiesOK' /\ ManagerOK' /\ CallsOK'
<1>0. CopiesOK /\ ManagerOK /\ CallsOK /\ MovesOK
  BY TypeParts
<1>1. UNCHANGED <<orgOf, late, manager, refresh>> /\ home' = [home EXCEPT ![a] = w]
  BY DEF Enter
<1>2. move[a].meta \in Meta \cup {None}
  BY <1>0 DEF MovesOK, Moves
<1>3. orgs' \in [Worlds -> Metas] /\ nextOrg' \in [Worlds -> 0..MaxOrgs]
  <2>1. CASE orgOf[a] = None
    BY <1>0, <2>1 DEF Enter, CopiesOK
  <2>2. CASE orgOf[a] # None
    <3> DEFINE o == orgOf[a]
               x == UpsertIncomingOrg(orgs[w][o], move[a].meta, a)
               n == Max({nextOrg[w], o})
    <3>1. o \in Orgs /\ orgs[w][o] \in Meta \cup {None}
      BY <1>0, <2>2, MetasType DEF CopiesOK
    <3>2. x \in Meta
      BY <1>2, <3>1, UpsertType
    <3>3. orgs' = [orgs EXCEPT ![w][o] = x]
      BY <2>2 DEF Enter
    <3>4. n \in 0..MaxOrgs
      <4>1. nextOrg[w] \in 0..MaxOrgs /\ o \in 0..MaxOrgs /\ nextOrg[w] \in Nat /\ o \in Nat
        BY <1>0, <3>1, Bounds DEF CopiesOK, Orgs
      <4>2. n \in {nextOrg[w], o}
        BY <4>1, MaxOfTwo
      <4> QED
        BY <4>1, <4>2
    <3>5. nextOrg' \in {nextOrg, [nextOrg EXCEPT ![w] = n]}
      BY <2>2 DEF Enter
    <3> HIDE DEF x, n, o
    <3>6. nextOrg' \in [Worlds -> 0..MaxOrgs]
      BY <1>0, <3>4, <3>5 DEF CopiesOK
    <3> QED
      BY <1>0, <3>1, <3>2, <3>3, <3>6, OneCopy
  <2> QED
    BY <2>1, <2>2
<1> QED
  BY <1>0, <1>1, <1>3 DEF CopiesOK, ManagerOK, CallsOK, manager

\* A switch of world keeps the types.
LEMMA MoveTypes ==
  ASSUME TypeOK, NEW a \in Agents,
         \/ \E w \in Worlds : HandleTransferOut(a, w)
         \/ MergeOrgMetaFromTransfer(a) \/ AttachOrgMetaToTransfer(a)
         \/ HandleTransferIn(a) \/ TargetBusy(a) \/ RollBack(a) \/ UpdateResidency(a)
  PROVE  TypeOK'
<1>0. CopiesOK /\ ManagerOK /\ DiskOK /\ CallsOK /\ MovesOK /\ CountsOK
  BY TypeParts
<1>s. wake' \in BOOLEAN /\ UNCHANGED <<writer, file>> => DiskOK'
  BY <1>0 DEF DiskOK
<1>1. ASSUME NEW to \in Worlds, HandleTransferOut(a, to) PROVE TypeOK'
  <2>1. /\ UNCHANGED <<faults, orgOf, orgs, nextOrg, late, manager, refresh, disk>> /\ Operate
        /\ home' = [home EXCEPT ![a] = None]
    BY <1>1 DEF HandleTransferOut
  <2>2. CopiesOK' /\ ManagerOK' /\ DiskOK' /\ CallsOK' /\ CountsOK'
    BY <1>0, <2>1, CountSteps DEF CopiesOK, ManagerOK, DiskOK, CallsOK, manager, disk
  <2>3. home[a] \in Worlds
    BY <1>0, <1>1 DEF HandleTransferOut, CopiesOK
  <2> DEFINE x == IF orgOf[a] = None THEN None ELSE orgs[home[a]][orgOf[a]]
  <2>4. x \in Meta \cup {None}
    BY <1>0, <2>3, MetasType DEF CopiesOK
  <2>5. PICK step \in {"merge", "back"} :
          move' = [move EXCEPT ![a] = [step |-> step, from |-> home[a], to |-> to, meta |-> x]]
    BY <1>1 DEF HandleTransferOut
  <2> HIDE DEF x
  <2>6. [step |-> step, from |-> home[a], to |-> to, meta |-> x] \in Moves
    BY <2>3, <2>4 DEF Moves
  <2>7. MovesOK'
    BY <1>0, <2>5, <2>6, MoveSteps
  <2> QED
    BY <2>2, <2>7, TypeParts, PTL
<1>2. CASE MergeOrgMetaFromTransfer(a)
  <2>1. /\ UNCHANGED <<ops, faults, copies, residency, refresh>> /\ calm' = "busy"
        /\ move[a] # None /\ Step(a, "attach")
    BY <1>2 DEF MergeOrgMetaFromTransfer
  <2>2. CopiesOK' /\ CallsOK' /\ CountsOK' /\ MovesOK'
    BY <1>0, <2>1, CountSteps, MoveSteps DEF CopiesOK, CallsOK, copies
  <2>3. global' \in Metas /\ DiskOK'
    <3>1. CASE move[a].meta = None
      BY <1>0, <1>2, <3>1 DEF MergeOrgMetaFromTransfer, ManagerOK, DiskOK, disk
    <3>2. CASE move[a].meta # None
      <4>1. move[a].meta \in Meta
        BY <1>0, <2>1, <3>2 DEF MovesOK, Moves
      <4>2. /\ global' = [global EXCEPT ![orgOf[a]] = Merged(global[orgOf[a]], move[a].meta)]
            /\ schedule
        BY <1>2, <3>2 DEF MergeOrgMetaFromTransfer
      <4>3. CASE orgOf[a] \in Orgs
        <5>1. Merged(global[orgOf[a]], move[a].meta) \in Meta \cup {None}
          BY <1>0, <4>1, <4>3, MergedType, MetasType DEF ManagerOK
        <5> QED
          BY <1>0, <1>s, <4>2, <4>3, <5>1, MetasType DEF ManagerOK, schedule
      <4>4. CASE orgOf[a] \notin Orgs
        <5>1. DOMAIN global = Orgs
          BY <1>0 DEF ManagerOK, Metas
        <5>2. global' = global
          BY <1>0, <4>2, <4>4, <5>1 DEF ManagerOK, Metas
        <5> QED
          BY <1>0, <1>s, <4>2, <5>2 DEF ManagerOK, schedule
      <4> QED
        BY <4>3, <4>4
    <3> QED
      BY <3>1, <3>2
  <2>4. ManagerOK'
    BY <1>0, <2>1, <2>3 DEF ManagerOK
  <2> QED
    BY <2>2, <2>3, <2>4, TypeParts, PTL
<1>3. CASE AttachOrgMetaToTransfer(a)
  <2>1. /\ UNCHANGED <<ops, faults, copies, manager, refresh, disk>> /\ calm' = "busy"
        /\ move[a] # None
    BY <1>3 DEF AttachOrgMetaToTransfer
  <2>2. CopiesOK' /\ ManagerOK' /\ DiskOK' /\ CallsOK' /\ CountsOK'
    BY <1>0, <2>1, CountSteps DEF CopiesOK, ManagerOK, DiskOK, CallsOK, copies, manager, disk
  <2>3. move[a] \in Moves
    BY <1>0, <2>1 DEF MovesOK
  <2> DEFINE x == IF orgOf[a] # None /\ global[orgOf[a]] # None
                  THEN global[orgOf[a]] ELSE move[a].meta
             m == [move[a] EXCEPT !.step = "arrive", !.meta = x]
  <2>4. x \in Meta \cup {None}
    BY <1>0, <2>3, MetasType DEF CopiesOK, ManagerOK, Moves
  <2>5. move' = [move EXCEPT ![a] = m]
    BY <1>3 DEF AttachOrgMetaToTransfer
  <2>6. m \in Moves
    <3> HIDE DEF x
    <3> QED
      BY <2>3, <2>4 DEF Moves
  <2> HIDE DEF m
  <2>7. MovesOK'
    BY <1>0, <2>5, <2>6, MoveSteps
  <2> QED
    BY <2>2, <2>7, TypeParts, PTL
<1>4. CASE HandleTransferIn(a)
  <2>1. /\ move[a] # None /\ Enter(a, move[a].to) /\ Step(a, "record")
        /\ UNCHANGED <<faults, disk>>
    BY <1>4 DEF HandleTransferIn
  <2>2. move[a].to \in Worlds
    BY <1>0, <2>1 DEF MovesOK, Moves
  <2>3. CopiesOK' /\ ManagerOK' /\ CallsOK'
    BY <2>1, <2>2, EnterTypes
  <2>4. UNCHANGED ops /\ calm' = "busy"
    BY <2>1 DEF Enter
  <2>5. DiskOK' /\ MovesOK' /\ CountsOK'
    BY <1>0, <2>1, <2>4, CountSteps, MoveSteps DEF DiskOK, disk
  <2> QED
    BY <2>3, <2>5, TypeParts, PTL
<1>5. CASE TargetBusy(a)
  <2>1. /\ UNCHANGED <<ops, copies, manager, refresh, disk>> /\ calm' = "busy"
        /\ Fault /\ move[a] # None /\ Step(a, "back")
    BY <1>5 DEF TargetBusy
  <2>2. CopiesOK' /\ ManagerOK' /\ DiskOK' /\ CallsOK' /\ CountsOK' /\ MovesOK'
    BY <1>0, <2>1, CountSteps, MoveSteps
       DEF CopiesOK, ManagerOK, DiskOK, CallsOK, copies, manager, disk
  <2> QED
    BY <2>2, TypeParts, PTL
<1>6. CASE RollBack(a)
  <2>1. /\ move[a] # None /\ Enter(a, move[a].from) /\ schedule
        /\ move' = [move EXCEPT ![a] = None] /\ UNCHANGED faults
    BY <1>6 DEF RollBack
  <2>2. move[a].from \in Worlds
    BY <1>0, <2>1 DEF MovesOK, Moves
  <2>3. CopiesOK' /\ ManagerOK' /\ CallsOK'
    BY <2>1, <2>2, EnterTypes
  <2>4. UNCHANGED ops /\ calm' = "busy"
    BY <2>1 DEF Enter
  <2>5. DiskOK' /\ MovesOK' /\ CountsOK'
    BY <1>0, <1>s, <2>1, <2>4, CountSteps, MoveSteps DEF schedule
  <2> QED
    BY <2>3, <2>5, TypeParts, PTL
<1>7. CASE UpdateResidency(a)
  <2>1. /\ move[a] # None /\ schedule /\ calm' = "busy"
        /\ residency' = [residency EXCEPT ![a] = move[a].to]
        /\ move' = [move EXCEPT ![a] = None]
        /\ UNCHANGED <<ops, faults, copies, global, refresh>>
    BY <1>7 DEF UpdateResidency
  <2>2. move[a].to \in Worlds
    BY <1>0, <2>1 DEF MovesOK, Moves
  <2>3. CopiesOK' /\ ManagerOK' /\ CallsOK'
    BY <1>0, <2>1, <2>2 DEF CopiesOK, ManagerOK, CallsOK, copies
  <2>4. DiskOK' /\ MovesOK' /\ CountsOK'
    BY <1>0, <1>s, <2>1, CountSteps, MoveSteps DEF schedule
  <2> QED
    BY <2>3, <2>4, TypeParts, PTL
<1> QED
  BY <1>1, <1>2, <1>3, <1>4, <1>5, <1>6, <1>7

\* One call of RefreshOrgMeta goes on.
LEMMA CallSteps ==
  ASSUME CallsOK, NEW r \in Refreshers
  PROVE  /\ \A c \in Calls : refresh' = [refresh EXCEPT ![r] = c] => CallsOK'
         /\ refresh[r].at \in 1..Len(WorldOrder) + 1
         /\ refresh[r].got \in Metas /\ refresh[r].sent \in Metas
         /\ \A n \in 1..Len(WorldOrder) + 1 : [refresh[r] EXCEPT !.at = n] \in Calls
<1>1. refresh[r] \in Calls
  BY DEF CallsOK
<1>2. ASSUME NEW c \in Calls, refresh' = [refresh EXCEPT ![r] = c] PROVE CallsOK'
  BY <1>2 DEF CallsOK
<1>3. /\ refresh[r].at \in 1..Len(WorldOrder) + 1
      /\ refresh[r].got \in Metas /\ refresh[r].sent \in Metas
  BY <1>1 DEF Calls
<1>4. ASSUME NEW n \in 1..Len(WorldOrder) + 1 PROVE [refresh[r] EXCEPT !.at = n] \in Calls
  BY <1>1 DEF Calls
<1> QED
  BY <1>2, <1>3, <1>4

\* A call that is in the middle is at a world.
LEMMA AtWorld ==
  ASSUME CallsOK, NEW r \in Refreshers, refresh[r].at <= Len(WorldOrder)
  PROVE  /\ At(r) \in Worlds /\ refresh[r].at \in 1..Len(WorldOrder)
         /\ refresh[r].at + 1 \in 1..Len(WorldOrder) + 1
<1>1. refresh[r].at \in 1..Len(WorldOrder) + 1
  BY CallSteps
<1>2. refresh[r].at \in 1..Len(WorldOrder) /\ refresh[r].at + 1 \in 1..Len(WorldOrder) + 1
  BY <1>1, Bounds
<1> QED
  BY <1>2, Bounds DEF At

\* A write in a world keeps the types of what the worlds keep.
LEMMA WriteTypes ==
  ASSUME CopiesOK, NEW w \in Worlds, NEW sent \in Metas, ApplyOrgMetaUpsert(w, sent)
  PROVE  orgs' \in [Worlds -> Metas] /\ orgOf' \in [Agents -> Orgs \cup {None}]
<1> DEFINE new == [o \in Orgs |-> MergeMeta(orgs[w][o], sent[o])]
<1>1. CASE sent = Nothing
  BY <1>1 DEF ApplyOrgMetaUpsert, CopiesOK
<1>2. CASE sent # Nothing
  <2>1. new \in Metas
    <3>1. \A o \in Orgs : MergeMeta(orgs[w][o], sent[o]) \in Meta \cup {None}
      BY MetasType, MergeMetaType DEF CopiesOK
    <3> QED
      BY <3>1 DEF Metas
  <2>2. /\ orgs' = [orgs EXCEPT ![w] = new]
        /\ orgOf' = [a \in Agents |-> IF home[a] = w THEN Owner(new, a) ELSE orgOf[a]]
    BY <1>2 DEF ApplyOrgMetaUpsert
  <2> HIDE DEF new
  <2>3. \A a \in Agents : Owner(new, a) \in Orgs \cup {None}
    BY <2>1, OwnerLists
  <2> QED
    BY <2>1, <2>2, <2>3 DEF CopiesOK
<1> QED
  BY <1>1, <1>2

\* A step of RefreshOrgMeta, or a late write of it, keeps the types.
LEMMA RefreshTypes ==
  ASSUME TypeOK,
         \/ \E r \in Refreshers : RefreshStep(r)
         \/ \E w \in Worlds : UpsertLate(w)
  PROVE  TypeOK'
<1>0. CopiesOK /\ ManagerOK /\ DiskOK /\ CallsOK /\ MovesOK /\ CountsOK
  BY TypeParts
<1>c. UNCHANGED copies => CopiesOK'
  BY <1>0 DEF CopiesOK, copies
<1>m. UNCHANGED manager => ManagerOK'
  BY <1>0 DEF ManagerOK, manager
<1>v. UNCHANGED move => MovesOK'
  BY <1>0 DEF MovesOK
<1>d. UNCHANGED disk => DiskOK'
  BY <1>0 DEF DiskOK, disk
<1>n. calm \in {"busy", "refresh", "settled"}
  BY <1>0 DEF CountsOK
<1>1. ASSUME NEW r \in Refreshers, RefreshBegin(r) PROVE TypeOK'
  <2>1. /\ UNCHANGED <<ops, faults, copies, manager, move, disk>>
        /\ calm' \in {"busy", "refresh"}
        /\ refresh' = [refresh EXCEPT ![r].pc = "collect", ![r].at = 1]
    BY <1>1 DEF RefreshBegin
  <2> DEFINE c == [refresh[r] EXCEPT !.pc = "collect", !.at = 1]
  <2>2. refresh' = [refresh EXCEPT ![r] = c]
    BY <2>1
  <2>3. c \in Calls
    <3>1. 1 \in 1..Len(WorldOrder) + 1
      BY Bounds
    <3>2. refresh[r] \in Calls
      BY <1>0 DEF CallsOK
    <3> QED
      BY <3>1, <3>2 DEF Calls
  <2> HIDE DEF c
  <2>4. CallsOK' /\ CountsOK'
    BY <1>0, <2>1, <2>2, <2>3, CallSteps, CountSteps
  <2>9. CopiesOK' /\ ManagerOK' /\ MovesOK' /\ DiskOK'
    BY <1>c, <1>m, <1>v, <1>d, <2>1
  <2> QED
    BY <2>4, <2>9, TypeParts, PTL
<1>2. ASSUME NEW r \in Refreshers, Collect(r) PROVE TypeOK'
  <2>1. UNCHANGED <<ops, faults, copies, manager, move, disk, calm>>
    BY <1>2 DEF Collect
  <2>2. /\ At(r) \in Worlds /\ refresh[r].at + 1 \in 1..Len(WorldOrder) + 1
        /\ refresh[r].got \in Metas
    BY <1>0, <1>2, AtWorld, CallSteps DEF Collect
  <2> DEFINE g == [o \in Orgs |-> Merged(refresh[r].got[o], orgs[At(r)][o])]
             n == refresh[r].at + 1
             c == [refresh[r] EXCEPT !.got = g, !.at = n]
  <2>3. g \in Metas
    <3>1. \A o \in Orgs : Merged(refresh[r].got[o], orgs[At(r)][o]) \in Meta \cup {None}
      BY <1>0, <2>2, MetasType, MergedType DEF CopiesOK
    <3> QED
      BY <3>1 DEF Metas
  <2>4. refresh' = [refresh EXCEPT ![r] = c]
    BY <1>2 DEF Collect
  <2>5. c \in Calls
    <3>1. n \in 1..Len(WorldOrder) + 1
      BY <2>2
    <3>2. refresh[r] \in Calls
      BY <1>0 DEF CallsOK
    <3> HIDE DEF g, n
    <3> QED
      BY <2>3, <3>1, <3>2 DEF Calls
  <2> HIDE DEF c
  <2>6. CallsOK' /\ CountsOK'
    BY <1>0, <1>n, <2>1, <2>4, <2>5, CallSteps, CountSteps
  <2>9. CopiesOK' /\ ManagerOK' /\ MovesOK' /\ DiskOK'
    BY <1>c, <1>m, <1>v, <1>d, <2>1
  <2> QED
    BY <2>6, <2>9, TypeParts, PTL
<1>s. ASSUME NEW r \in Refreshers, refresh[r].at <= Len(WorldOrder), Skip(r) PROVE CallsOK'
  <2> DEFINE c == [refresh[r] EXCEPT !.at = refresh[r].at + 1]
  <2>1. refresh' = [refresh EXCEPT ![r] = c]
    BY <1>s DEF Skip
  <2>2. refresh[r].at + 1 \in 1..Len(WorldOrder) + 1
    BY <1>0, <1>s, AtWorld
  <2>3. c \in Calls
    BY <1>0, <2>2, CallSteps
  <2> HIDE DEF c
  <2> QED
    BY <1>0, <2>1, <2>3, CallSteps
<1>3. ASSUME NEW r \in Refreshers, CollectFails(r) PROVE TypeOK'
  <2>1. /\ UNCHANGED <<ops, copies, manager, move, disk>> /\ calm' = "busy"
        /\ Fault /\ Skip(r) /\ refresh[r].at <= Len(WorldOrder)
    BY <1>3 DEF CollectFails
  <2>2. CallsOK' /\ CountsOK'
    BY <1>0, <1>s, <2>1, CountSteps
  <2>9. CopiesOK' /\ ManagerOK' /\ MovesOK' /\ DiskOK'
    BY <1>c, <1>m, <1>v, <1>d, <2>1
  <2> QED
    BY <2>2, <2>9, TypeParts, PTL
<1>4. ASSUME NEW r \in Refreshers, Store(r) PROVE TypeOK'
  <2>1. /\ UNCHANGED <<ops, faults, copies, residency, move, calm>>
        /\ refresh' = [refresh EXCEPT ![r].pc = "send"]
        /\ schedule \/ UNCHANGED disk
        /\ global' = [o \in Orgs |-> IF Alike(global[o], refresh[r].got[o])
                                     THEN global[o] ELSE refresh[r].got[o]]
    BY <1>4 DEF Store
  <2>2. global' \in Metas
    <3>1. \A o \in Orgs : global[o] \in Meta \cup {None} /\ refresh[r].got[o] \in Meta \cup {None}
      BY <1>0, MetasType, CallSteps DEF ManagerOK
    <3> QED
      BY <2>1, <3>1 DEF Metas
  <2>3. ManagerOK' /\ DiskOK'
    BY <1>0, <2>1, <2>2 DEF ManagerOK, DiskOK, disk, schedule
  <2> DEFINE c == [refresh[r] EXCEPT !.pc = "send"]
  <2>4. c \in Calls
    BY <1>0 DEF CallsOK, Calls
  <2>5. refresh' = [refresh EXCEPT ![r] = c]
    BY <2>1
  <2> HIDE DEF c
  <2>6. CallsOK' /\ CountsOK'
    BY <1>0, <1>n, <2>1, <2>4, <2>5, CallSteps, CountSteps
  <2>9. CopiesOK' /\ MovesOK'
    BY <1>c, <1>v, <2>1
  <2> QED
    BY <2>3, <2>6, <2>9, TypeParts, PTL
<1>5. ASSUME NEW r \in Refreshers, SnapshotOrgTransfers(r) PROVE TypeOK'
  <2> DEFINE c == [pc |-> "upsert", at |-> 1, got |-> Nothing, sent |-> global]
  <2>1. /\ UNCHANGED <<ops, faults, copies, manager, move, disk, calm>>
        /\ refresh' = [refresh EXCEPT ![r] = c]
    BY <1>5 DEF SnapshotOrgTransfers
  <2>2. c \in Calls
    BY <1>0, Bounds, MetasType DEF Calls, ManagerOK
  <2> HIDE DEF c
  <2>3. CallsOK' /\ CountsOK'
    BY <1>0, <1>n, <2>1, <2>2, CallSteps, CountSteps
  <2>9. CopiesOK' /\ ManagerOK' /\ MovesOK' /\ DiskOK'
    BY <1>c, <1>m, <1>v, <1>d, <2>1
  <2> QED
    BY <2>3, <2>9, TypeParts, PTL
<1>6. ASSUME NEW r \in Refreshers, Upsert(r) PROVE TypeOK'
  <2>1. /\ UNCHANGED <<ops, faults, home, nextOrg, late, manager, move, disk, calm>>
        /\ Skip(r) /\ refresh[r].at <= Len(WorldOrder)
        /\ ApplyOrgMetaUpsert(At(r), refresh[r].sent)
    BY <1>6 DEF Upsert
  <2>2. CopiesOK'
    <3>1. At(r) \in Worlds /\ refresh[r].sent \in Metas
      BY <1>0, <2>1, AtWorld, CallSteps
    <3>2. orgs' \in [Worlds -> Metas] /\ orgOf' \in [Agents -> Orgs \cup {None}]
      BY <1>0, <2>1, <3>1, WriteTypes
    <3> QED
      BY <1>0, <2>1, <3>2 DEF CopiesOK
  <2>3. CallsOK' /\ CountsOK'
    BY <1>0, <1>n, <1>s, <2>1, CountSteps
  <2>9. ManagerOK' /\ MovesOK' /\ DiskOK'
    BY <1>m, <1>v, <1>d, <2>1
  <2> QED
    BY <2>2, <2>3, <2>9, TypeParts, PTL
<1>7. ASSUME NEW r \in Refreshers, UpsertFails(r) PROVE TypeOK'
  <2>1. /\ UNCHANGED <<ops, home, orgOf, orgs, nextOrg, manager, move, disk>> /\ calm' = "busy"
        /\ Fault /\ Skip(r) /\ refresh[r].at <= Len(WorldOrder)
        /\ late' \in {late, [late EXCEPT ![At(r)] = refresh[r].sent]}
    BY <1>7 DEF UpsertFails
  <2>2. refresh[r].sent \in Metas
    BY <1>0, CallSteps
  <2>3. CopiesOK'
    BY <1>0, <2>1, <2>2 DEF CopiesOK
  <2>4. CallsOK' /\ CountsOK'
    BY <1>0, <1>s, <2>1, CountSteps
  <2>9. ManagerOK' /\ MovesOK' /\ DiskOK'
    BY <1>m, <1>v, <1>d, <2>1
  <2> QED
    BY <2>3, <2>4, <2>9, TypeParts, PTL
<1>8. ASSUME NEW r \in Refreshers, RefreshEnd(r) PROVE TypeOK'
  <2>1. /\ UNCHANGED <<ops, faults, copies, manager, move, disk>>
        /\ refresh' = [refresh EXCEPT ![r] = Idle]
        /\ calm' \in {"settled", calm}
    BY <1>8 DEF RefreshEnd
  <2>2. Idle \in Calls
    BY Bounds, MetasType DEF Calls, Idle
  <2>3. CallsOK' /\ CountsOK'
    BY <1>0, <1>n, <2>1, <2>2, CallSteps, CountSteps
  <2>9. CopiesOK' /\ ManagerOK' /\ MovesOK' /\ DiskOK'
    BY <1>c, <1>m, <1>v, <1>d, <2>1
  <2> QED
    BY <2>3, <2>9, TypeParts, PTL
<1>9. ASSUME NEW w \in Worlds, UpsertLate(w) PROVE TypeOK'
  <2>1. /\ UNCHANGED <<ops, faults, home, nextOrg, manager, refresh, move, disk>>
        /\ calm' = "busy" /\ late' = [late EXCEPT ![w] = None]
        /\ ApplyOrgMetaUpsert(w, late[w]) /\ late[w] # None
    BY <1>9 DEF UpsertLate
  <2>2. CopiesOK'
    <3>1. late[w] \in Metas
      BY <1>0, <2>1 DEF CopiesOK
    <3>2. orgs' \in [Worlds -> Metas] /\ orgOf' \in [Agents -> Orgs \cup {None}]
      BY <1>0, <2>1, <3>1, WriteTypes
    <3> QED
      BY <1>0, <2>1, <3>2 DEF CopiesOK
  <2>3. CallsOK' /\ CountsOK'
    BY <1>0, <2>1, CountSteps DEF CallsOK
  <2>9. ManagerOK' /\ MovesOK' /\ DiskOK'
    BY <1>m, <1>v, <1>d, <2>1
  <2> QED
    BY <2>2, <2>3, <2>9, TypeParts, PTL
<1> QED
  BY <1>1, <1>2, <1>3, <1>4, <1>5, <1>6, <1>7, <1>8, <1>9 DEF RefreshStep

\* A step of the persistence loop keeps the types.
LEMMA PersistTypes ==
  ASSUME TypeOK, PersistStep
  PROVE  TypeOK'
<1>0. CopiesOK /\ ManagerOK /\ DiskOK /\ CallsOK /\ MovesOK /\ CountsOK
  BY TypeParts
<1>1. UNCHANGED <<ops, copies, manager, refresh, move, calm>>
  BY DEF PersistStep, PersistArm, PersistFires, WriteState, WriteFails, busy
<1>2. UNCHANGED faults \/ Fault
  BY DEF PersistStep, PersistArm, PersistFires, WriteState, WriteFails
<1>3. CountsOK'
  BY <1>0, <1>1, <1>2, Bounds DEF CountsOK, Fault
<1>4. CopiesOK' /\ ManagerOK' /\ CallsOK' /\ MovesOK'
  BY <1>0, <1>1 DEF CopiesOK, ManagerOK, CallsOK, MovesOK, copies, manager
<1>5. SnapshotState \in State
  BY <1>0 DEF ManagerOK, SnapshotState, State
<1>6. /\ [pc |-> "armed", st |-> None] \in Writers /\ [pc |-> "idle", st |-> None] \in Writers
      /\ [pc |-> "failed", st |-> None] \in Writers
      /\ \A st \in State : [pc |-> "writing", st |-> st] \in Writers
  BY DEF Writers
<1>7. DiskOK'
  <2>1. CASE PersistArm
    BY <1>0, <1>6, <2>1 DEF PersistArm, DiskOK
  <2>2. CASE PersistFires
    BY <1>0, <1>5, <1>6, <2>2 DEF PersistFires, DiskOK
  <2>3. CASE WriteState
    <3>1. writer.st \in State
      BY <1>0, <2>3 DEF WriteState, DiskOK, Writers
    <3> QED
      BY <1>0, <1>6, <2>3, <3>1 DEF WriteState, DiskOK
  <2>4. CASE WriteFails
    BY <1>0, <1>6, <2>4 DEF WriteFails, DiskOK
  <2> QED
    BY <2>1, <2>2, <2>3, <2>4 DEF PersistStep
<1> QED
  BY <1>3, <1>4, <1>7, TypeParts, PTL

\* So does a restart.
LEMMA RestartTypes ==
  ASSUME TypeOK, Restart
  PROVE  TypeOK'
<1>0. CopiesOK /\ ManagerOK /\ DiskOK /\ CallsOK /\ MovesOK /\ CountsOK
  BY TypeParts
<1>1. UNCHANGED <<ops, file>> /\ Fault /\ calm' = "busy"
  BY DEF Restart
<1>2. CountsOK'
  BY <1>0, <1>1, CountSteps
<1>3. home' \in [Agents -> Worlds \cup {None}] /\ orgOf' \in [Agents -> Orgs \cup {None}]
  BY DEF Restart
<1>4. nextOrg' \in [Worlds -> 0..MaxOrgs]
  BY Bounds DEF Restart
<1>5. orgs' \in [Worlds -> Metas] /\ late' \in [Worlds -> Metas \cup {None}]
  BY MetasType DEF Restart
<1>6. ManagerOK' /\ DiskOK'
  BY <1>0 DEF Restart, ManagerOK, DiskOK, State, Writers
<1>7. Idle \in Calls
  BY Bounds, MetasType DEF Calls, Idle
<1>8. CallsOK' /\ MovesOK'
  BY <1>7 DEF Restart, CallsOK, MovesOK
<1>9. CopiesOK'
  BY <1>3, <1>4, <1>5 DEF CopiesOK
<1> QED
  BY <1>2, <1>6, <1>8, <1>9, TypeParts, PTL

\* The type invariant at the start.
LEMMA TypeInit == Init => TypeOK
<1> SUFFICES ASSUME Init PROVE TypeOK
  OBVIOUS
<1>1. home \in [Agents -> Worlds]
  BY DEF Init
<1>2. CountsOK /\ MovesOK
  BY Bounds DEF Init, CountsOK, MovesOK
<1>3. ManagerOK /\ DiskOK
  BY <1>1, MetasType DEF Init, ManagerOK, DiskOK, State, Writers
<1>4. Idle \in Calls
  BY Bounds, MetasType DEF Calls, Idle
<1>5. CallsOK
  BY <1>4 DEF Init, CallsOK
<1>6. CopiesOK
  BY <1>1, Bounds, MetasType DEF Init, CopiesOK
<1> QED
  BY <1>2, <1>3, <1>5, <1>6, TypeParts

\* Every step keeps the types.
LEMMA TypeStep == TypeOK /\ [Next]_vars => TypeOK'
<1> SUFFICES ASSUME TypeOK, [Next]_vars PROVE TypeOK'
  OBVIOUS
<1>1. ASSUME NEW a \in Agents, AgentStep(a) PROVE TypeOK'
  BY <1>1, ActTypes, MoveTypes DEF AgentStep
<1>2. ASSUME NEW r \in Refreshers, RefreshStep(r) PROVE TypeOK'
  BY <1>2, RefreshTypes
<1>3. ASSUME NEW w \in Worlds, UpsertLate(w) PROVE TypeOK'
  BY <1>3, RefreshTypes
<1>4. CASE PersistStep
  BY <1>4, PersistTypes
<1>5. CASE Restart
  BY <1>5, RestartTypes
<1>6. CASE UNCHANGED vars
  <2>1. UNCHANGED <<ops, faults, home, orgOf, orgs, nextOrg, late, global, residency,
                    refresh, move, wake, writer, file, calm>>
    BY <1>6 DEF vars, copies, manager, disk
  <2> QED
    BY <2>1 DEF TypeOK
<1> QED
  BY <1>1, <1>2, <1>3, <1>4, <1>5, <1>6 DEF Next

\* The types of all variables: copies are copies of the given organizations and
\* agents, and a version is never below zero (OrgTransfer, globalOrgMeta).
THEOREM OrgTypeCorrect == Spec => []TypeOK
  BY TypeInit, TypeStep, PTL DEF Spec

-----------------------------------------------------------------------------
(* state.json                                                              *)

\* The manager's copies stay as they are where they are alike.
LEMMA StoreAlike ==
  ASSUME TypeOK, NEW r \in Refreshers, Store(r)
  PROVE  schedule \/ UNCHANGED <<global, residency, disk>>
<1>1. residency' = residency
  BY DEF Store
<1>2. CASE \E o \in Orgs : ~Alike(global[o], refresh[r].got[o])
  BY <1>2 DEF Store
<1>3. CASE \A o \in Orgs : Alike(global[o], refresh[r].got[o])
  <2>1. UNCHANGED disk /\ global' = [o \in Orgs |-> global[o]]
    BY <1>3 DEF Store
  <2>2. global' = global
    BY <2>1 DEF TypeOK, Metas
  <2> QED
    BY <1>1, <2>1, <2>2
<1> QED
  BY <1>2, <1>3

\* A step of an agent or of a refresh asks for a write, or leaves the manager's
\* state and the file alone.
LEMMA Scheduled ==
  ASSUME TypeOK,
         \/ \E a \in Agents : AgentStep(a)
         \/ \E r \in Refreshers : RefreshStep(r)
         \/ \E w \in Worlds : UpsertLate(w)
  PROVE  schedule \/ UNCHANGED <<global, residency, wake, writer, file>>
<1>1. ASSUME NEW a \in Agents, AgentStep(a)
      PROVE  schedule \/ UNCHANGED <<global, residency, disk>>
  <2>1. CASE HandleCreateOrg(a) \/ HandleJoinOrg(a) \/ HandleLeaveOrg(a)
    BY <2>1 DEF HandleCreateOrg, HandleJoinOrg, HandleLeaveOrg, Act, manager
  <2>2. CASE \E w \in Worlds : HandleTransferOut(a, w)
    BY <2>2 DEF HandleTransferOut, manager
  <2>3. CASE MergeOrgMetaFromTransfer(a)
    BY <2>3 DEF MergeOrgMetaFromTransfer
  <2>4. CASE AttachOrgMetaToTransfer(a) \/ HandleTransferIn(a) \/ TargetBusy(a)
    BY <2>4 DEF AttachOrgMetaToTransfer, HandleTransferIn, TargetBusy, Enter, manager
  <2>5. CASE RollBack(a) \/ UpdateResidency(a)
    BY <2>5 DEF RollBack, UpdateResidency
  <2> QED
    BY <1>1, <2>1, <2>2, <2>3, <2>4, <2>5 DEF AgentStep
<1>2. ASSUME NEW r \in Refreshers, RefreshStep(r)
      PROVE  schedule \/ UNCHANGED <<global, residency, disk>>
  <2>1. CASE Store(r)
    BY <2>1, StoreAlike
  <2>2. CASE ~Store(r)
    BY <1>2, <2>2 DEF RefreshStep, RefreshBegin, Collect, CollectFails, SnapshotOrgTransfers,
                      Upsert, UpsertFails, RefreshEnd, manager
  <2> QED
    BY <2>1, <2>2
<1>3. ASSUME NEW w \in Worlds, UpsertLate(w)
      PROVE  schedule \/ UNCHANGED <<global, residency, disk>>
  BY <1>3 DEF UpsertLate, manager
<1> QED
  BY <1>1, <1>2, <1>3 DEF disk

\* What is written is current, unless another write has been asked for.
LEMMA WrittenStep == TypeOK /\ Written /\ [Next]_vars => Written'
<1> SUFFICES ASSUME TypeOK, Written, [Next]_vars PROVE Written'
  OBVIOUS
<1>1. CASE schedule
  BY <1>1 DEF schedule, Written, FileCurrent
<1>2. CASE UNCHANGED <<global, residency, wake, writer, file>>
  BY <1>2 DEF Written, FileCurrent, SnapshotState
<1>3. CASE PersistStep
  <2>1. UNCHANGED <<global, residency>>
    BY <1>3 DEF PersistStep, PersistArm, PersistFires, WriteState, WriteFails, busy, manager
  <2>2. SnapshotState' = SnapshotState
    BY <2>1 DEF SnapshotState
  <2> QED
    BY <1>3, <2>2 DEF PersistStep, PersistArm, PersistFires, WriteState, WriteFails,
                      Written, FileCurrent
<1>4. CASE Restart
  <2>1. file \in State
    BY DEF TypeOK
  <2>2. file = [residency |-> file.residency, orgs |-> file.orgs]
    BY <2>1 DEF State
  <2>3. writer'.pc = "idle" /\ file' = file /\ residency' = file.residency /\ global' = file.orgs
    BY <1>4 DEF Restart
  <2> QED
    BY <2>2, <2>3 DEF Written, FileCurrent, SnapshotState
<1>5. CASE UNCHANGED vars
  BY <1>2, <1>5 DEF vars, manager, disk
<1> QED
  BY <1>1, <1>2, <1>3, <1>4, <1>5, Scheduled DEF Next

-----------------------------------------------------------------------------
(* Members, numbers and versions                                           *)

\* No copy of a world falls back to a lower version.
Grown ==
  \A w \in Worlds, o \in Orgs :
    (orgs[w][o] # None /\ orgs'[w][o] # None) => orgs'[w][o].version >= orgs[w][o].version

\* What changes when one copy does.
LEMMA OneChange ==
  ASSUME CopiesOK, NEW w \in Worlds, NEW o \in Orgs, NEW x, orgs' = [orgs EXCEPT ![w][o] = x]
  PROVE  /\ orgs'[w][o] = x
         /\ \A v \in Worlds, p \in Orgs : v # w \/ p # o => orgs'[v][p] = orgs[v][p]
<1>1. orgs \in [Worlds -> Metas] /\ \A v \in Worlds : DOMAIN orgs[v] = Orgs
  BY DEF CopiesOK, Metas
<1> QED
  BY <1>1

\* Versions are numbers.
LEMMA VersionType ==
  ASSUME CopiesOK, NEW w \in Worlds, NEW o \in Orgs, orgs[w][o] # None
  PROVE  orgs[w][o] \in Meta /\ orgs[w][o].version \in Nat
<1>1. orgs[w][o] \in Meta
  BY MetasType DEF CopiesOK
<1> QED
  BY <1>1 DEF Meta

\* Versions grow when one copy is replaced by one that is no older.
LEMMA GrownBy ==
  ASSUME CopiesOK, NEW w \in Worlds, NEW o \in Orgs, NEW x, orgs' = [orgs EXCEPT ![w][o] = x],
         orgs[w][o] # None /\ x # None => x.version >= orgs[w][o].version
  PROVE  Grown
<1> SUFFICES ASSUME NEW v \in Worlds, NEW p \in Orgs, orgs[v][p] # None, orgs'[v][p] # None
             PROVE  orgs'[v][p].version >= orgs[v][p].version
  BY DEF Grown
<1>1. CASE v = w /\ p = o
  <2>1. orgs'[v][p] = x
    BY <1>1 DEF CopiesOK, Metas
  <2> QED
    BY <1>1, <2>1
<1>2. CASE v # w \/ p # o
  <2>1. orgs'[v][p] = orgs[v][p] /\ orgs[v][p].version \in Nat
    BY <1>2, OneChange, VersionType
  <2> QED
    BY <2>1
<1> QED
  BY <1>1, <1>2

\* Versions that stay have not fallen.
LEMMA GrownSame ==
  ASSUME CopiesOK, UNCHANGED orgs
  PROVE  Grown
  BY VersionType DEF Grown

\* The copy of o in w becomes x, and the agent a, alone, changes with it: the
\* others are listed as before, and a is listed if it is a member there.
Replaces(w, o, x, a) ==
  /\ orgs' = [orgs EXCEPT ![w][o] = x]
  /\ \A b \in Agents \ {a} : home'[b] = home[b] /\ orgOf'[b] = orgOf[b]
  /\ \A b \in Agents \ {a} :
        home[b] = w /\ orgOf[b] = o /\ Lists(orgs[w][o], b) => Lists(x, b)
  /\ home'[a] # None /\ orgOf'[a] # None => home'[a] = w /\ orgOf'[a] = o /\ Lists(x, a)

\* The members then agree with the agents.
LEMMA BackedBy ==
  ASSUME CopiesOK, AgentsBacked, NEW w \in Worlds, NEW o \in Orgs, NEW x, NEW a \in Agents,
         Replaces(w, o, x, a)
  PROVE  AgentsBacked'
<1>0. /\ orgs' = [orgs EXCEPT ![w][o] = x]
      /\ \A b \in Agents \ {a} : home'[b] = home[b] /\ orgOf'[b] = orgOf[b]
      /\ \A b \in Agents \ {a} :
            home[b] = w /\ orgOf[b] = o /\ Lists(orgs[w][o], b) => Lists(x, b)
      /\ home'[a] # None /\ orgOf'[a] # None => home'[a] = w /\ orgOf'[a] = o /\ Lists(x, a)
  BY DEF Replaces
<1> SUFFICES ASSUME NEW b \in Agents, home'[b] # None, orgOf'[b] # None
             PROVE  Lists(orgs'[home'[b]][orgOf'[b]], b)
  BY DEF AgentsBacked, Lists
<1>1. orgs'[w][o] = x
  BY <1>0 DEF CopiesOK, Metas
<1>2. CASE b = a
  BY <1>0, <1>1, <1>2
<1>3. CASE b # a
  <2>1. home'[b] = home[b] /\ orgOf'[b] = orgOf[b]
    BY <1>0, <1>3
  <2>2. home[b] \in Worlds /\ orgOf[b] \in Orgs /\ Lists(orgs[home[b]][orgOf[b]], b)
    BY <2>1 DEF AgentsBacked, CopiesOK
  <2>3. CASE home[b] = w /\ orgOf[b] = o
    BY <1>0, <1>1, <1>3, <2>1, <2>2, <2>3
  <2>4. CASE home[b] # w \/ orgOf[b] # o
    <3>1. orgs'[home[b]][orgOf[b]] = orgs[home[b]][orgOf[b]]
      BY <1>0, <2>2, <2>4, OneChange
    <3> QED
      BY <2>1, <2>2, <3>1
  <2> QED
    BY <2>3, <2>4
<1> QED
  BY <1>2, <1>3

\* They agree when an agent leaves its world.
LEMMA BackedAway ==
  ASSUME AgentsBacked, UNCHANGED <<orgOf, orgs>>,
         \A b \in Agents : home'[b] = None \/ home'[b] = home[b]
  PROVE  AgentsBacked'
  BY DEF AgentsBacked, Lists

\* A number that is not in use stays so when one other copy changes.
LEMMA UnusedBy ==
  ASSUME CopiesOK, NEW w \in Worlds, NEW p \in Orgs, NEW x, orgs' = [orgs EXCEPT ![w][p] = x],
         UNCHANGED <<late, global, refresh>>,
         NEW o \in Orgs, Unused(o), o # p,
         \A b \in Agents : orgOf'[b] # o
  PROVE  Unused(o)'
<1>1. \A v \in Worlds : orgs'[v][o] = orgs[v][o]
  BY OneChange
<1> QED
  BY <1>1 DEF Unused

\* An act on organizations: nobody else's membership changes, the founder gives
\* a new number, and a version goes up.
LEMMA ActKeeps ==
  ASSUME OneFounder, TypeOK, Numbered, AgentsBacked, NEW a \in Agents,
         HandleCreateOrg(a) \/ HandleJoinOrg(a) \/ HandleLeaveOrg(a)
  PROVE  Numbered' /\ AgentsBacked' /\ Grown
<1>0. CopiesOK
  BY TypeParts
<1>1. /\ UNCHANGED <<home, late, global, refresh, move>>
      /\ home[a] # None /\ home[a] \in Worlds
  BY <1>0 DEF HandleCreateOrg, HandleJoinOrg, HandleLeaveOrg, Act, CopiesOK, manager
<1>2. ASSUME NEW f \in Founding, NEW o \in Orgs, nextOrg[f] < o PROVE Unused(o)
  BY <1>1, <1>2 DEF Numbered, Away
<1>b. \A w \in Worlds : nextOrg[w] \in Nat
  BY <1>0, Bounds DEF CopiesOK
<1>f. Founding \subseteq Worlds /\ \A o \in Orgs : o \in Nat
  BY OrgAssumption DEF Orgs
<1> DEFINE w == home[a]
<1>3. CASE HandleCreateOrg(a)
  <2> DEFINE n == nextOrg[w] + 1
             x == [version |-> 1, members |-> [b \in {a} |-> "LEADER"]]
  <2>1. n \in Orgs /\ n \in Nat /\ nextOrg[w] < n /\ w \in Founding
    BY <1>0, <1>1, <1>3, <1>b, Bounds DEF HandleCreateOrg, Orgs
  <2>2. nextOrg' = [nextOrg EXCEPT ![w] = n] /\ nextOrg'[w] = n
    BY <1>0, <1>1, <1>3 DEF HandleCreateOrg, CopiesOK
  <2>3. orgs' = [orgs EXCEPT ![w][n] = x] /\ orgOf' = [orgOf EXCEPT ![a] = n]
    BY <1>3, <2>2 DEF HandleCreateOrg
  <2>4. Unused(n)
    BY <1>2, <2>1
  <2>5. orgOf'[a] = n /\ \A b \in Agents \ {a} : orgOf'[b] = orgOf[b]
    BY <1>0, <2>3 DEF CopiesOK
  <2>6. Lists(x, a)
    <3>1. [b \in {a} |-> "LEADER"] \in [{a} -> {"LEADER", "MEMBER"}] /\ {a} \in SUBSET Agents
      OBVIOUS
    <3>2. [b \in {a} |-> "LEADER"] \in Members
      BY <3>1, MapOfMembers
    <3>3. x \in Meta
      BY <3>2 DEF Meta
    <3> QED
      BY <3>3, NoneAssumption DEF Lists
  <2> HIDE DEF n, x, w
  <2>7. AgentsBacked'
    <3>1. \A b \in Agents \ {a} : orgOf[b] # n
      BY <2>4 DEF Unused
    <3>2. home'[a] = w
      BY <1>1 DEF w
    <3>3. w \in Worlds
      BY <1>1 DEF w
    <3> QED
      <4>1. /\ orgs' = [orgs EXCEPT ![w][n] = x]
            /\ \A b \in Agents \ {a} : home'[b] = home[b] /\ orgOf'[b] = orgOf[b]
        BY <1>1, <2>3, <2>5
      <4>2. \A b \in Agents \ {a} :
               home[b] = w /\ orgOf[b] = n /\ Lists(orgs[w][n], b) => Lists(x, b)
        BY <3>1
      <4>3. home'[a] # None /\ orgOf'[a] # None => home'[a] = w /\ orgOf'[a] = n /\ Lists(x, a)
        BY <2>5, <2>6, <3>2
      <4> QED
        <5>1. Replaces(w, n, x, a)
          BY <4>1, <4>2, <4>3 DEF Replaces
        <5> QED
          BY <1>0, <2>1, <3>3, <5>1, BackedBy
  <2>8. w \in Worlds
    BY <1>1 DEF w
  <2>9. Grown
    <3>1. orgs[w][n] = None
      BY <2>4, <2>8 DEF Unused
    <3> QED
      BY <1>0, <2>1, <2>3, <2>8, <3>1, GrownBy
  <2>10. ASSUME NEW f \in Founding, NEW o \in Orgs, nextOrg'[f] < o PROVE Unused(o)'
    <3>1. f = w
      BY <2>1 DEF OneFounder
    <3>2. nextOrg[f] < o /\ o # n
      BY <1>b, <1>f, <2>1, <2>2, <2>8, <2>10, <3>1
    <3>3. Unused(o)
      BY <1>2, <3>2
    <3>4. \A b \in Agents : orgOf'[b] # o
      BY <2>5, <3>2, <3>3 DEF Unused
    <3> QED
      BY <1>0, <1>1, <2>1, <2>3, <2>8, <3>2, <3>3, <3>4, UnusedBy
  <2> QED
    BY <2>7, <2>9, <2>10 DEF Numbered
<1>4. CASE HandleJoinOrg(a)
  <2>1. PICK o \in Orgs :
          /\ orgs[w][o] # None
          /\ orgs' = [orgs EXCEPT ![w][o] =
                        [version |-> @.version + 1,
                         members |-> Union(@.members, [b \in {a} |-> "MEMBER"])]]
          /\ orgOf' = [orgOf EXCEPT ![a] = o]
    BY <1>4 DEF HandleJoinOrg
  <2> DEFINE u == Union(orgs[w][o].members, [b \in {a} |-> "MEMBER"])
             x == [version |-> orgs[w][o].version + 1, members |-> u]
  <2>2. orgs' = [orgs EXCEPT ![w][o] = x] /\ nextOrg' = nextOrg
    BY <1>4, <2>1 DEF HandleJoinOrg
  <2>3. orgs[w][o] \in Meta /\ orgs[w][o].version \in Nat
    BY <1>0, <1>1, <2>1, VersionType
  <2>4. u \in Members /\ DOMAIN u = DOMAIN orgs[w][o].members \cup {a}
    <3>1. [b \in {a} |-> "MEMBER"] \in [{a} -> {"LEADER", "MEMBER"}] /\ {a} \in SUBSET Agents
      OBVIOUS
    <3>2. [b \in {a} |-> "MEMBER"] \in Members /\ DOMAIN [b \in {a} |-> "MEMBER"] = {a}
      BY <3>1, MapOfMembers
    <3>3. orgs[w][o].members \in Members
      BY <2>3 DEF Meta
    <3> QED
      BY ONLY <3>2, <3>3, UnionType
  <2>5. x \in Meta /\ x.version >= orgs[w][o].version /\ x # None /\ x.members = u
    <3> HIDE DEF u
    <3>1. x \in Meta
      BY <2>3, <2>4 DEF Meta
    <3> QED
      BY <2>3, <3>1, NoneAssumption
  <2>6. orgOf'[a] = o /\ \A b \in Agents \ {a} : orgOf'[b] = orgOf[b]
    BY <1>0, <2>1 DEF CopiesOK
  <2> HIDE DEF u, x
  <2>7. AgentsBacked'
    <3>1. Lists(x, a) /\ \A b \in Agents : Lists(orgs[w][o], b) => Lists(x, b)
      BY <2>4, <2>5 DEF Lists
    <3>2. /\ orgs' = [orgs EXCEPT ![w][o] = x]
          /\ \A b \in Agents \ {a} : home'[b] = home[b] /\ orgOf'[b] = orgOf[b]
      BY <1>1, <2>2, <2>6
    <3>3. \A b \in Agents \ {a} :
             home[b] = w /\ orgOf[b] = o /\ Lists(orgs[w][o], b) => Lists(x, b)
      BY <3>1
    <3>4. home'[a] # None /\ orgOf'[a] # None => home'[a] = w /\ orgOf'[a] = o /\ Lists(x, a)
      BY <1>1, <2>6, <3>1
    <3>5. w \in Worlds
      BY <1>1
    <3> HIDE DEF w
    <3> QED
      <4>1. Replaces(w, o, x, a)
        BY <3>2, <3>3, <3>4 DEF Replaces
      <4> QED
        BY <1>0, <3>5, <4>1, BackedBy
  <2>8. Grown
    BY <1>0, <1>1, <2>2, <2>5, GrownBy
  <2>9. ASSUME NEW f \in Founding, NEW p \in Orgs, nextOrg'[f] < p PROVE Unused(p)'
    <3>1. Unused(p)
      BY <1>2, <2>2, <2>9
    <3>2. p # o
      BY <1>1, <2>1, <3>1 DEF Unused
    <3>3. \A b \in Agents : orgOf'[b] # p
      BY <2>6, <3>1, <3>2 DEF Unused
    <3> QED
      BY <1>0, <1>1, <2>2, <3>1, <3>2, <3>3, UnusedBy
  <2> QED
    BY <2>7, <2>8, <2>9 DEF Numbered
<1>5. CASE HandleLeaveOrg(a)
  <2> DEFINE o == orgOf[a]
             x == IF orgs[w][o] = None THEN None ELSE Departed(orgs[w][o], a)
  <2>1. o \in Orgs /\ nextOrg' = nextOrg /\ orgOf' = [orgOf EXCEPT ![a] = None]
    BY <1>0, <1>5 DEF HandleLeaveOrg, CopiesOK
  <2>2. orgs[w][o] \in Meta /\ orgs[w][o] # None
    <3>1. orgs[w][o] # None
      BY <1>1, <2>1, Bounds DEF AgentsBacked, Lists
    <3> QED
      BY <1>0, <1>1, <2>1, <3>1, VersionType
  <2>3. x = Departed(orgs[w][o], a) /\ orgs' = [orgs EXCEPT ![w][o] = x]
    BY <1>5, <2>2 DEF HandleLeaveOrg
  <2>4. /\ x # None => x.version >= orgs[w][o].version
        /\ \A b \in Agents \ {a} : Lists(orgs[w][o], b) => Lists(x, b)
    BY <2>2, <2>3, DepartedType
  <2>5. orgOf'[a] = None /\ \A b \in Agents \ {a} : orgOf'[b] = orgOf[b]
    BY <1>0, <2>1 DEF CopiesOK
  <2>6. orgs' = [orgs EXCEPT ![w][o] = x]
    BY <2>3
  <2> HIDE DEF x, o
  <2>7. AgentsBacked'
    <3>2. /\ orgs' = [orgs EXCEPT ![w][o] = x]
          /\ \A b \in Agents \ {a} : home'[b] = home[b] /\ orgOf'[b] = orgOf[b]
      BY <1>1, <2>5, <2>6
    <3>3. \A b \in Agents \ {a} :
             home[b] = w /\ orgOf[b] = o /\ Lists(orgs[w][o], b) => Lists(x, b)
      BY <2>4
    <3>4. home'[a] # None /\ orgOf'[a] # None => home'[a] = w /\ orgOf'[a] = o /\ Lists(x, a)
      BY <2>5
    <3>5. w \in Worlds
      BY <1>1
    <3> HIDE DEF w
    <3> QED
      <4>1. Replaces(w, o, x, a)
        BY <3>2, <3>3, <3>4 DEF Replaces
      <4> QED
        BY <1>0, <2>1, <3>5, <4>1, BackedBy
  <2>8. Grown
    BY <1>0, <1>1, <2>1, <2>4, <2>6, GrownBy
  <2>9. ASSUME NEW f \in Founding, NEW p \in Orgs, nextOrg'[f] < p PROVE Unused(p)'
    <3>1. Unused(p)
      BY <1>2, <2>1, <2>9
    <3>2. p # o
      BY <3>1 DEF Unused, o
    <3>3. \A b \in Agents : orgOf'[b] # p
      BY <2>5, <3>1, Bounds DEF Unused
    <3> QED
      BY <1>0, <1>1, <2>1, <2>6, <3>1, <3>2, <3>3, UnusedBy
  <2> QED
    BY <2>7, <2>8, <2>9 DEF Numbered
<1> QED
  BY <1>3, <1>4, <1>5

\* An agent that enters a world with its organization is listed there.
LEMMA EnterKeeps ==
  ASSUME TypeOK, Numbered, AgentsBacked, NEW a \in Agents, NEW w \in Worlds, move[a] # None,
         Enter(a, w)
  PROVE  Numbered' /\ AgentsBacked' /\ Grown
<1>0. CopiesOK /\ MovesOK
  BY TypeParts
<1>1. UNCHANGED <<orgOf, late, global, refresh>> /\ home' = [home EXCEPT ![a] = w]
  BY DEF Enter, manager
<1>2. home'[a] = w /\ \A b \in Agents \ {a} : home'[b] = home[b]
  BY <1>0, <1>1 DEF CopiesOK
<1>3. ASSUME NEW f \in Founding, NEW o \in Orgs, nextOrg[f] < o PROVE Unused(o)
  BY <1>3 DEF Numbered, Away
<1>b. /\ \A v \in Worlds : nextOrg[v] \in Nat
      /\ Founding \subseteq Worlds /\ \A o \in Orgs : o \in Nat
  BY <1>0, Bounds, OrgAssumption DEF CopiesOK, Orgs
<1>4. CASE orgOf[a] = None
  <2>1. orgs' = orgs /\ nextOrg' = nextOrg
    BY <1>4 DEF Enter
  <2>2. AgentsBacked'
    <3> SUFFICES ASSUME NEW b \in Agents, home'[b] # None, orgOf'[b] # None
                 PROVE  Lists(orgs'[home'[b]][orgOf'[b]], b)
      BY DEF AgentsBacked, Lists
    <3>1. b # a /\ home'[b] = home[b] /\ orgOf'[b] = orgOf[b]
      BY <1>1, <1>2, <1>4
    <3> QED
      BY <2>1, <3>1 DEF AgentsBacked
  <2>3. ASSUME NEW f \in Founding, NEW o \in Orgs, nextOrg'[f] < o PROVE Unused(o)'
    <3>1. Unused(o)
      BY <1>3, <2>1, <2>3
    <3> QED
      BY <1>1, <2>1, <3>1 DEF Unused
  <2> QED
    BY <1>0, <2>1, <2>2, <2>3, GrownSame DEF Numbered
<1>5. CASE orgOf[a] # None
  <2> DEFINE o == orgOf[a]
             x == UpsertIncomingOrg(orgs[w][o], move[a].meta, a)
             n == Max({nextOrg[w], o})
  <2>1. /\ o \in Orgs /\ orgs[w][o] \in Meta \cup {None}
        /\ move[a].meta \in Meta \cup {None}
    BY <1>0, <1>5, MetasType DEF CopiesOK, MovesOK, Moves
  <2>2. /\ x \in Meta /\ Lists(x, a) /\ \A b \in Agents : Lists(orgs[w][o], b) => Lists(x, b)
        /\ orgs[w][o] # None => x.version >= orgs[w][o].version
    BY <2>1, UpsertType
  <2>3. orgs' = [orgs EXCEPT ![w][o] = x]
    BY <1>5 DEF Enter
  <2>4. nextOrg' = nextOrg \/ nextOrg' = [nextOrg EXCEPT ![w] = n]
    BY <1>5 DEF Enter
  <2>5. n \in Nat /\ n >= nextOrg[w]
    <3>1. nextOrg[w] \in Nat /\ o \in Nat
      BY <1>b, <2>1
    <3> HIDE DEF o
    <3> QED
      BY <3>1, MaxOfTwo
  <2>6. o # None /\ orgOf'[a] = o
    BY <1>1, <1>5
  <2> HIDE DEF x, n
  <2>7. AgentsBacked'
    <3>1. Replaces(w, o, x, a)
      BY <1>1, <1>2, <2>2, <2>3, <2>6 DEF Replaces
    <3> HIDE DEF o
    <3> QED
      BY <1>0, <2>1, <3>1, BackedBy
  <2>8. Grown
    <3> HIDE DEF o
    <3> QED
      BY <1>0, <2>1, <2>2, <2>3, GrownBy
  <2>9. ASSUME NEW f \in Founding, NEW p \in Orgs, nextOrg'[f] < p PROVE Unused(p)'
    <3>1. nextOrg'[f] \in Nat /\ nextOrg'[f] >= nextOrg[f] /\ f \in Worlds
      BY <1>0, <1>b, <2>4, <2>5 DEF CopiesOK
    <3>2. nextOrg[f] < p
      BY <1>b, <2>9, <3>1
    <3>3. Unused(p)
      BY <1>3, <3>2
    <3>4. p # o /\ \A b \in Agents : orgOf'[b] # p
      BY <1>1, <3>3 DEF Unused
    <3> HIDE DEF o
    <3> QED
      BY <1>0, <1>1, <2>1, <2>3, <3>3, <3>4, UnusedBy
  <2> QED
    BY <2>7, <2>8, <2>9 DEF Numbered
<1> QED
  BY <1>4, <1>5

\* A step that leaves what the worlds keep alone, and puts no number to use.
LEMMA CopiesStay ==
  ASSUME TypeOK, Numbered, AgentsBacked, UNCHANGED <<orgOf, orgs, nextOrg>>,
         \A a \in Agents : home'[a] = None \/ home'[a] = home[a],
         Away => Away',
         \A o \in Orgs : Unused(o) => Unused(o)'
  PROVE  Numbered' /\ AgentsBacked' /\ Grown
<1>1. AgentsBacked'
  BY BackedAway
<1>2. Grown
  BY GrownSame, TypeParts
<1>3. CASE Away
  BY <1>1, <1>2, <1>3 DEF Numbered
<1>4. CASE \A f \in Founding : \A o \in Orgs : nextOrg[f] < o => Unused(o)
  BY <1>1, <1>2, <1>4 DEF Numbered
<1> QED
  BY <1>1, <1>2, <1>3, <1>4 DEF Numbered

\* A switch of world: a copy that is merged or taken along is of an
\* organization the agent belongs to.
LEMMA MoveKeeps ==
  ASSUME TypeOK, Numbered, AgentsBacked, NEW a \in Agents,
         \/ \E w \in Worlds : HandleTransferOut(a, w)
         \/ MergeOrgMetaFromTransfer(a) \/ AttachOrgMetaToTransfer(a)
         \/ HandleTransferIn(a) \/ TargetBusy(a) \/ RollBack(a) \/ UpdateResidency(a)
  PROVE  Numbered' /\ AgentsBacked' /\ Grown
<1>0. CopiesOK /\ MovesOK /\ ManagerOK
  BY TypeParts
<1>1. ASSUME NEW w \in Worlds, HandleTransferOut(a, w) PROVE Numbered' /\ AgentsBacked' /\ Grown
  <2>1. /\ UNCHANGED <<orgOf, orgs, nextOrg, late, global, refresh>> /\ home[a] # None
        /\ home' = [home EXCEPT ![a] = None]
    BY <1>1 DEF HandleTransferOut, manager
  <2>2. \A b \in Agents : home'[b] = None \/ home'[b] = home[b]
    BY <1>0, <2>1 DEF CopiesOK
  <2>3. ~Away
    BY <2>1 DEF Away
  <2>4. \A o \in Orgs : Unused(o) => Unused(o)'
    BY <2>1 DEF Unused
  <2> QED
    BY <2>1, <2>2, <2>3, <2>4, CopiesStay
<1>2. ASSUME MergeOrgMetaFromTransfer(a) \/ AttachOrgMetaToTransfer(a) \/ TargetBusy(a)
               \/ UpdateResidency(a)
      PROVE  Numbered' /\ AgentsBacked' /\ Grown
  <2>1. UNCHANGED <<home, orgOf, orgs, nextOrg, late, refresh>> /\ move[a] # None
    BY <1>2 DEF MergeOrgMetaFromTransfer, AttachOrgMetaToTransfer, TargetBusy,
                UpdateResidency, copies
  <2>2. ~Away
    BY <2>1 DEF Away
  <2>3. global' = global \/ global' = [global EXCEPT ![orgOf[a]] =
                                         Merged(global[orgOf[a]], move[a].meta)]
    BY <1>2 DEF MergeOrgMetaFromTransfer, AttachOrgMetaToTransfer, TargetBusy,
                UpdateResidency, manager
  <2>4. ASSUME NEW o \in Orgs, Unused(o) PROVE Unused(o)'
    <3>1. orgOf[a] # o /\ global[o] = None
      BY <2>4 DEF Unused
    <3>2. global'[o] = None
      BY <1>0, <2>3, <3>1 DEF ManagerOK, Metas
    <3> QED
      BY <2>1, <2>4, <3>2 DEF Unused
  <2> QED
    BY <2>1, <2>2, <2>4, CopiesStay
<1>3. CASE HandleTransferIn(a)
  <2>1. move[a] # None /\ Enter(a, move[a].to) /\ move[a].to \in Worlds
    BY <1>0, <1>3 DEF HandleTransferIn, MovesOK, Moves
  <2> QED
    BY <2>1, EnterKeeps
<1>4. CASE RollBack(a)
  <2>1. move[a] # None /\ Enter(a, move[a].from) /\ move[a].from \in Worlds
    BY <1>0, <1>4 DEF RollBack, MovesOK, Moves
  <2> QED
    BY <2>1, EnterKeeps
<1> QED
  BY <1>1, <1>2, <1>3, <1>4

\* A write in a world: its agents belong to the organizations that list them, no
\* version falls, and no number is put to use.
LEMMA WriteKeeps ==
  ASSUME TypeOK, AgentsBacked, NEW w \in Worlds, NEW sent \in Metas, UNCHANGED home,
         ApplyOrgMetaUpsert(w, sent)
  PROVE  /\ AgentsBacked' /\ Grown
         /\ \A o \in Orgs : Unused(o) /\ sent[o] = None =>
               /\ \A v \in Worlds : orgs'[v][o] = None
               /\ \A a \in Agents : orgOf'[a] # o
<1>0. CopiesOK
  BY TypeParts
<1> DEFINE new == [o \in Orgs |-> MergeMeta(orgs[w][o], sent[o])]
<1>1. CASE sent = Nothing
  <2>1. orgs' = orgs /\ orgOf' = orgOf
    BY <1>1 DEF ApplyOrgMetaUpsert
  <2>2. AgentsBacked' /\ Grown
    BY <1>0, <2>1, GrownSame, BackedAway
  <2> QED
    BY <2>1, <2>2 DEF Unused
<1>2. CASE sent # Nothing
  <2>1. \A o \in Orgs : orgs[w][o] \in Meta \cup {None} /\ sent[o] \in Meta \cup {None}
    BY <1>0, MetasType DEF CopiesOK
  <2>2. \A o \in Orgs : new[o] \in Meta \cup {None}
    BY <2>1, MergeMetaType
  <2>3. new \in Metas
    BY <2>2 DEF Metas
  <2>4. /\ orgs' = [orgs EXCEPT ![w] = new]
        /\ orgOf' = [a \in Agents |-> IF home[a] = w THEN Owner(new, a) ELSE orgOf[a]]
    BY <1>2 DEF ApplyOrgMetaUpsert
  <2>5. \A o \in Orgs : new[o] = MergeMeta(orgs[w][o], sent[o])
    OBVIOUS
  <2> HIDE DEF new
  <2>6. orgs'[w] = new /\ \A v \in Worlds \ {w} : orgs'[v] = orgs[v]
    BY <1>0, <2>4 DEF CopiesOK
  <2>7. AgentsBacked'
    <3> SUFFICES ASSUME NEW a \in Agents, home'[a] # None, orgOf'[a] # None
                 PROVE  Lists(orgs'[home'[a]][orgOf'[a]], a)
      BY DEF AgentsBacked, Lists
    <3>1. home'[a] = home[a] /\ home[a] \in Worlds
      BY <1>0 DEF CopiesOK
    <3>2. CASE home[a] = w
      <4>1. orgOf'[a] = Owner(new, a)
        BY <2>4, <3>2
      <4>2. Lists(new[Owner(new, a)], a)
        BY <2>3, <4>1, OwnerLists
      <4> QED
        BY <2>6, <3>1, <3>2, <4>1, <4>2
    <3>3. CASE home[a] # w
      <4>1. orgOf'[a] = orgOf[a] /\ orgs'[home[a]] = orgs[home[a]]
        BY <2>4, <2>6, <3>1, <3>3
      <4> QED
        BY <3>1, <4>1 DEF AgentsBacked
    <3> QED
      BY <3>2, <3>3
  <2>8. Grown
    <3> SUFFICES ASSUME NEW v \in Worlds, NEW o \in Orgs, orgs[v][o] # None, orgs'[v][o] # None
                 PROVE  orgs'[v][o].version >= orgs[v][o].version
      BY DEF Grown
    <3>1. CASE v = w
      <4>1. orgs[w][o] \in Meta \cup {None} /\ sent[o] \in Meta \cup {None} /\ orgs[w][o] # None
        BY <2>1, <3>1
      <4>2. MergeMeta(orgs[w][o], sent[o]).version >= orgs[w][o].version
        BY ONLY <4>1, MergeMetaType
      <4>3. orgs'[w][o] = MergeMeta(orgs[w][o], sent[o])
        BY <2>5, <2>6
      <4> QED
        BY <3>1, <4>2, <4>3
    <3>2. CASE v # w
      <4>1. orgs'[v][o] = orgs[v][o] /\ orgs[v][o].version \in Nat
        BY <1>0, <2>6, <3>2, VersionType
      <4> QED
        BY <4>1
    <3> QED
      BY <3>1, <3>2
  <2>9. ASSUME NEW o \in Orgs, Unused(o), sent[o] = None
        PROVE  /\ \A v \in Worlds : orgs'[v][o] = None
               /\ \A a \in Agents : orgOf'[a] # o
    <3>1. orgs[w][o] = None /\ new[o] = None
      <4>1. orgs[w][o] = None
        BY <2>9 DEF Unused
      <4>2. MergeMeta(None, None) = None
        BY DEF MergeMeta
      <4> QED
        BY <2>5, <2>9, <4>1, <4>2
    <3>2. \A v \in Worlds : orgs'[v][o] = None
      BY <2>6, <2>9, <3>1 DEF Unused
    <3>3. ASSUME NEW a \in Agents PROVE orgOf'[a] # o
      <4>1. CASE home[a] = w
        <5>1. orgOf'[a] = Owner(new, a)
          BY <2>4, <4>1
        <5>2. \/ Owner(new, a) = None
              \/ Lists(new[Owner(new, a)], a)
          BY <2>3, OwnerLists
        <5> QED
          BY <3>1, <5>1, <5>2, Bounds DEF Lists
      <4>2. CASE home[a] # w
        BY <2>4, <2>9, <4>2 DEF Unused
      <4> QED
        BY <4>1, <4>2
    <3> QED
      BY <3>2, <3>3
  <2> QED
    BY <2>7, <2>8, <2>9
<1> QED
  BY <1>1, <1>2

\* A step of RefreshOrgMeta puts no number to use.
LEMMA RefreshUnused ==
  ASSUME TypeOK, NEW r \in Refreshers, RefreshStep(r), ~Upsert(r), NEW o \in Orgs, Unused(o)
  PROVE  Unused(o)'
<1>0. CallsOK /\ CopiesOK
  BY TypeParts
<1>1. UNCHANGED <<orgOf, orgs>>
  BY DEF RefreshStep, RefreshBegin, Collect, CollectFails, Store, SnapshotOrgTransfers,
         UpsertFails, RefreshEnd, copies
<1>2. \A q \in Refreshers : refresh[q] \in Calls
  BY <1>0 DEF CallsOK
<1>3. global[o] = None /\ refresh[r].got[o] = None /\ refresh[r].sent[o] = None
  BY DEF Unused
<1>4. ASSUME UNCHANGED <<late, global>>, NEW c, refresh' = [refresh EXCEPT ![r] = c],
             c.got[o] = None, c.sent[o] = None
      PROVE  Unused(o)'
  <2>1. ASSUME NEW q \in Refreshers PROVE refresh'[q].got[o] = None /\ refresh'[q].sent[o] = None
    BY <1>0, <1>4, <2>1 DEF Unused, CallsOK
  <2> QED
    BY <1>1, <1>4, <2>1 DEF Unused
<1>5. CASE RefreshBegin(r)
  <2> DEFINE c == [refresh[r] EXCEPT !.pc = "collect", !.at = 1]
  <2>1. refresh' = [refresh EXCEPT ![r] = c] /\ UNCHANGED <<late, global>>
    BY <1>5 DEF RefreshBegin, copies, manager
  <2>2. c.got = refresh[r].got /\ c.sent = refresh[r].sent
    BY <1>2 DEF Calls
  <2> HIDE DEF c
  <2> QED
    BY <1>3, <1>4, <2>1, <2>2
<1>s. ASSUME Skip(r), UNCHANGED <<late, global>> PROVE Unused(o)'
  <2> DEFINE c == [refresh[r] EXCEPT !.at = refresh[r].at + 1]
  <2>1. refresh' = [refresh EXCEPT ![r] = c]
    BY <1>s DEF Skip
  <2>2. c.got = refresh[r].got /\ c.sent = refresh[r].sent
    BY <1>2 DEF Calls
  <2> HIDE DEF c
  <2> QED
    BY <1>3, <1>4, <1>s, <2>1, <2>2
<1>6. CASE Collect(r)
  <2> DEFINE g == [p \in Orgs |-> Merged(refresh[r].got[p], orgs[At(r)][p])]
             c == [refresh[r] EXCEPT !.got = g, !.at = refresh[r].at + 1]
  <2>1. refresh' = [refresh EXCEPT ![r] = c] /\ UNCHANGED <<late, global>>
    BY <1>6 DEF Collect, copies, manager
  <2>2. At(r) \in Worlds
    BY <1>0, <1>6, AtWorld DEF Collect
  <2>3. g[o] = None
    BY <1>3, <2>2 DEF Unused, Merged
  <2>4. c.got = g /\ c.sent = refresh[r].sent
    <3> HIDE DEF g
    <3> QED
      BY <1>2 DEF Calls
  <2> HIDE DEF c, g
  <2> QED
    BY <1>3, <1>4, <2>1, <2>3, <2>4
<1>7. CASE CollectFails(r)
  BY <1>7, <1>s DEF CollectFails, copies, manager
<1>8. CASE Store(r)
  <2> DEFINE c == [refresh[r] EXCEPT !.pc = "send"]
  <2>1. refresh' = [refresh EXCEPT ![r] = c] /\ UNCHANGED late
    BY <1>8 DEF Store, copies
  <2>2. c.got = refresh[r].got /\ c.sent = refresh[r].sent
    BY <1>2 DEF Calls
  <2>3. global'[o] = None
    BY <1>3, <1>8 DEF Store
  <2> HIDE DEF c
  <2>4. ASSUME NEW q \in Refreshers PROVE refresh'[q].got[o] = None /\ refresh'[q].sent[o] = None
    BY <1>0, <1>3, <2>1, <2>2, <2>4 DEF Unused, CallsOK
  <2> QED
    BY <1>1, <2>1, <2>3, <2>4 DEF Unused
<1>9. CASE SnapshotOrgTransfers(r)
  <2> DEFINE c == [pc |-> "upsert", at |-> 1, got |-> Nothing, sent |-> global]
  <2>1. refresh' = [refresh EXCEPT ![r] = c] /\ UNCHANGED <<late, global>>
    BY <1>9 DEF SnapshotOrgTransfers, copies, manager
  <2>2. c.got[o] = None /\ c.sent[o] = None
    BY <1>3 DEF Nothing
  <2> HIDE DEF c
  <2> QED
    BY <1>4, <2>1, <2>2
<1>10. CASE UpsertFails(r)
  <2>1. Skip(r) /\ UNCHANGED global
    BY <1>10 DEF UpsertFails, manager
  <2>2. late' = late \/ late' = [late EXCEPT ![At(r)] = refresh[r].sent]
    BY <1>10 DEF UpsertFails
  <2>3. \A w \in Worlds : late'[w] # None => late'[w][o] = None
    BY <1>0, <1>3, <2>2 DEF Unused, CopiesOK
  <2> DEFINE c == [refresh[r] EXCEPT !.at = refresh[r].at + 1]
  <2>4. refresh' = [refresh EXCEPT ![r] = c]
    BY <2>1 DEF Skip
  <2>5. c.got = refresh[r].got /\ c.sent = refresh[r].sent
    BY <1>2 DEF Calls
  <2> HIDE DEF c
  <2>6. ASSUME NEW q \in Refreshers PROVE refresh'[q].got[o] = None /\ refresh'[q].sent[o] = None
    BY <1>0, <1>3, <2>4, <2>5, <2>6 DEF Unused, CallsOK
  <2> QED
    BY <1>1, <2>1, <2>3, <2>6 DEF Unused
<1>11. CASE RefreshEnd(r)
  <2>1. refresh' = [refresh EXCEPT ![r] = Idle] /\ UNCHANGED <<late, global>>
    BY <1>11 DEF RefreshEnd, copies, manager
  <2>2. Idle.got[o] = None /\ Idle.sent[o] = None
    BY DEF Idle, Nothing
  <2> QED
    BY <1>4, <2>1, <2>2
<1> QED
  BY <1>5, <1>6, <1>7, <1>8, <1>9, <1>10, <1>11 DEF RefreshStep

\* A refresh, and a late write of it, keep members, numbers and versions.
LEMMA RefreshKeeps ==
  ASSUME TypeOK, Numbered, AgentsBacked,
         \/ \E r \in Refreshers : RefreshStep(r)
         \/ \E w \in Worlds : UpsertLate(w)
  PROVE  Numbered' /\ AgentsBacked' /\ Grown
<1>0. CallsOK /\ CopiesOK
  BY TypeParts
<1>1. ASSUME NEW r \in Refreshers, RefreshStep(r), ~Upsert(r)
      PROVE  Numbered' /\ AgentsBacked' /\ Grown
  <2>1. UNCHANGED <<home, orgOf, orgs, nextOrg, move>>
    BY <1>1 DEF RefreshStep, RefreshBegin, Collect, CollectFails, Store, SnapshotOrgTransfers,
                UpsertFails, RefreshEnd, copies
  <2>2. \A o \in Orgs : Unused(o) => Unused(o)'
    BY <1>1, RefreshUnused
  <2>3. Away => Away'
    BY <2>1 DEF Away
  <2> QED
    BY <2>1, <2>2, <2>3, CopiesStay
<1>w. ASSUME NEW w \in Worlds, NEW sent \in Metas, ApplyOrgMetaUpsert(w, sent),
             UNCHANGED <<home, nextOrg, move>>,
             \A o \in Orgs : Unused(o) =>
                /\ sent[o] = None
                /\ (\A v \in Worlds : orgs'[v][o] = None) /\ (\A a \in Agents : orgOf'[a] # o)
                     => Unused(o)'
      PROVE  Numbered' /\ AgentsBacked' /\ Grown
  <2>1. AgentsBacked' /\ Grown
    BY <1>w, WriteKeeps
  <2>2. \A o \in Orgs : Unused(o) => Unused(o)'
    <3> SUFFICES ASSUME NEW o \in Orgs, Unused(o) PROVE Unused(o)'
      OBVIOUS
    <3>1. (\A v \in Worlds : orgs'[v][o] = None) /\ (\A a \in Agents : orgOf'[a] # o)
      BY <1>w, WriteKeeps
    <3> QED
      BY <1>w, <3>1
  <2>3. Away => Away'
    BY <1>w DEF Away
  <2> QED
    BY <1>w, <2>1, <2>2, <2>3 DEF Numbered
<1>2. ASSUME NEW r \in Refreshers, Upsert(r) PROVE Numbered' /\ AgentsBacked' /\ Grown
  <2>1. /\ UNCHANGED <<home, nextOrg, late, global, move>> /\ Skip(r)
        /\ refresh[r].at <= Len(WorldOrder)
        /\ ApplyOrgMetaUpsert(At(r), refresh[r].sent)
    BY <1>2 DEF Upsert, manager
  <2>2. At(r) \in Worlds /\ refresh[r].sent \in Metas /\ refresh[r] \in Calls
    BY <1>0, <2>1, AtWorld, CallSteps DEF CallsOK
  <2>3. ASSUME NEW o \in Orgs, Unused(o)
        PROVE  /\ refresh[r].sent[o] = None
               /\ (\A v \in Worlds : orgs'[v][o] = None) /\ (\A a \in Agents : orgOf'[a] # o)
                    => Unused(o)'
    <3> DEFINE c == [refresh[r] EXCEPT !.at = refresh[r].at + 1]
    <3>1. refresh' = [refresh EXCEPT ![r] = c]
      BY <2>1 DEF Skip
    <3>2. c.got = refresh[r].got /\ c.sent = refresh[r].sent
      BY <2>2 DEF Calls
    <3> HIDE DEF c
    <3>3. ASSUME NEW q \in Refreshers PROVE refresh'[q].got[o] = None /\ refresh'[q].sent[o] = None
      BY <1>0, <2>3, <3>1, <3>2, <3>3 DEF Unused, CallsOK
    <3>4. refresh[r].sent[o] = None
      BY <2>3 DEF Unused
    <3>5. ASSUME \A v \in Worlds : orgs'[v][o] = None, \A a \in Agents : orgOf'[a] # o
          PROVE  Unused(o)'
      BY <2>1, <2>3, <3>3, <3>5 DEF Unused
    <3> QED
      BY <3>4, <3>5
  <2> QED
    BY <1>w, <2>1, <2>2, <2>3
<1>3. ASSUME NEW w \in Worlds, UpsertLate(w) PROVE Numbered' /\ AgentsBacked' /\ Grown
  <2>1. /\ UNCHANGED <<home, nextOrg, global, refresh, move>>
        /\ ApplyOrgMetaUpsert(w, late[w]) /\ late' = [late EXCEPT ![w] = None] /\ late[w] # None
    BY <1>3 DEF UpsertLate, manager
  <2>2. late[w] \in Metas
    BY <1>0, <2>1 DEF CopiesOK
  <2>3. \A v \in Worlds : late'[v] \in {late[v], None}
    BY <1>0, <2>1 DEF CopiesOK
  <2>4. ASSUME NEW o \in Orgs, Unused(o)
        PROVE  /\ late[w][o] = None
               /\ (\A v \in Worlds : orgs'[v][o] = None) /\ (\A a \in Agents : orgOf'[a] # o)
                    => Unused(o)'
    BY <2>1, <2>3, <2>4 DEF Unused
  <2> QED
    BY <1>w, <2>1, <2>2, <2>4
<1> QED
  BY <1>1, <1>2, <1>3

\* Members, numbers and versions over a step of the system.
LEMMA MembersStep ==
  ASSUME OneFounder, TypeOK, Numbered, AgentsBacked, [Next]_vars
  PROVE  Numbered' /\ AgentsBacked' /\ Grown
<1>1. ASSUME NEW a \in Agents, AgentStep(a) PROVE Numbered' /\ AgentsBacked' /\ Grown
  <2>1. CASE HandleCreateOrg(a) \/ HandleJoinOrg(a) \/ HandleLeaveOrg(a)
    BY <2>1, ActKeeps
  <2>2. CASE ~(HandleCreateOrg(a) \/ HandleJoinOrg(a) \/ HandleLeaveOrg(a))
    <3>1. \/ \E w \in Worlds : HandleTransferOut(a, w)
          \/ MergeOrgMetaFromTransfer(a) \/ AttachOrgMetaToTransfer(a)
          \/ HandleTransferIn(a) \/ TargetBusy(a) \/ RollBack(a) \/ UpdateResidency(a)
      BY <1>1, <2>2 DEF AgentStep
    <3> QED
      BY <3>1, MoveKeeps
  <2> QED
    BY <2>1, <2>2
<1>2. CASE (\E r \in Refreshers : RefreshStep(r)) \/ (\E w \in Worlds : UpsertLate(w))
  BY <1>2, RefreshKeeps
<1>3. CASE PersistStep \/ UNCHANGED vars
  <2>1. UNCHANGED <<home, orgOf, orgs, nextOrg, late, global, refresh, move>>
    BY <1>3 DEF PersistStep, PersistArm, PersistFires, WriteState, WriteFails, busy, vars,
                copies, manager
  <2>2. (Away => Away') /\ \A o \in Orgs : Unused(o) => Unused(o)'
    BY <2>1 DEF Away, Unused
  <2> QED
    BY <2>1, <2>2, CopiesStay
<1>4. CASE Restart
  <2>1. /\ \A a \in Agents : home'[a] = None /\ move'[a] = None
        /\ orgs' = [w \in Worlds |-> Nothing]
    BY <1>4 DEF Restart
  <2>2. \A w \in Worlds, o \in Orgs : orgs'[w][o] = None
    BY <2>1 DEF Nothing
  <2> QED
    BY <2>1, <2>2 DEF Numbered, Away, AgentsBacked, Grown
<1> QED
  BY <1>1, <1>2, <1>3, <1>4 DEF Next

-----------------------------------------------------------------------------
(* An undisturbed refresh                                                  *)

\* The worlds before the first place, and those before the next one.
LEMMA BeforeFirst ==
  ASSUME NEW r \in Refreshers, refresh[r].at = 1
  PROVE  Before(r) = {}
  BY Bounds DEF Before

\* A call that is through has been to all worlds.
LEMMA BeforeEnd ==
  ASSUME CallsOK, NEW r \in Refreshers, refresh[r].at > Len(WorldOrder)
  PROVE  Before(r) = Worlds
<1>1. \A j \in 1..Len(WorldOrder) : j < refresh[r].at
  <2>1. refresh[r].at \in 1..Len(WorldOrder) + 1
    BY CallSteps
  <2> QED
    BY <2>1, Bounds
<1> QED
  BY <1>1 DEF Before, Worlds

\* The world a call was at joins those it has been through.
LEMMA BeforeNext ==
  ASSUME CallsOK, NEW r \in Refreshers, refresh[r].at <= Len(WorldOrder),
         refresh'[r].at = refresh[r].at + 1
  PROVE  Before(r)' = Before(r) \cup {At(r)}
<1> DEFINE n == refresh[r].at
<1>1. n \in 1..Len(WorldOrder) /\ n \in Nat
  BY AtWorld, Bounds
<1>2. {j \in 1..Len(WorldOrder) : j < n + 1} = {j \in 1..Len(WorldOrder) : j < n} \cup {n}
  <2> HIDE DEF n
  <2> QED
    BY <1>1, Bounds
<1>3. Before(r)' = {WorldOrder[i] : i \in {j \in 1..Len(WorldOrder) : j < n + 1}}
  BY DEF Before
<1>4. Before(r) = {WorldOrder[i] : i \in {j \in 1..Len(WorldOrder) : j < n}} /\ At(r) = WorldOrder[n]
  BY DEF Before, At
<1> HIDE DEF n
<1> QED
  BY <1>2, <1>3, <1>4

\* One call changes, the others stay as they are.
LEMMA OneCall ==
  ASSUME CallsOK, NEW r \in Refreshers, NEW c, refresh' = [refresh EXCEPT ![r] = c]
  PROVE  refresh'[r] = c /\ \A q \in Refreshers \ {r} : refresh'[q] = refresh[q]
  BY DEF CallsOK

\* A call begins while nothing else goes on.
LEMMA BeginsUndisturbed ==
  ASSUME CallsOK, NEW r \in Refreshers, RefreshBegin(r)
  PROVE  Undisturbed'
<1>1. CASE calm' = "busy"
  BY <1>1 DEF Undisturbed
<1>2. CASE calm' # "busy"
  <2>1. /\ calm' = "refresh" /\ UNCHANGED <<copies, move>>
        /\ \A q \in Refreshers \ {r} : Goes(q, "idle")
        /\ \A a \in Agents : move[a] = None
        /\ \A w \in Worlds : late[w] = None
    BY <1>2 DEF RefreshBegin
  <2> DEFINE c == [refresh[r] EXCEPT !.pc = "collect", !.at = 1]
  <2>2. refresh' = [refresh EXCEPT ![r] = c]
    BY DEF RefreshBegin
  <2>3. c.pc = "collect" /\ c.at = 1
    BY DEF CallsOK, Calls
  <2> HIDE DEF c
  <2>4. refresh'[r] = c /\ \A q \in Refreshers \ {r} : refresh'[q] = refresh[q]
    BY <2>2, OneCall
  <2>5. Before(r)' = {}
    BY <2>3, <2>4, Bounds DEF Before
  <2>6. Stage(r)'
    BY <2>1, <2>3, <2>4, <2>5 DEF Stage, Goes, Among
  <2> QED
    BY <2>1, <2>6 DEF Undisturbed, copies
<1> QED
  BY <1>1, <1>2

\* A call collects the copies of one more world.
LEMMA CollectStage ==
  ASSUME TypeOK, NEW r \in Refreshers, Stage(r), Collect(r)
  PROVE  Stage(r)'
<1>0. CallsOK /\ CopiesOK /\ refresh[r] \in Calls
  BY TypeParts DEF CallsOK
<1> DEFINE g == [o \in Orgs |-> Merged(refresh[r].got[o], orgs[At(r)][o])]
           c == [refresh[r] EXCEPT !.got = g, !.at = refresh[r].at + 1]
<1>1. /\ refresh' = [refresh EXCEPT ![r] = c] /\ orgs' = orgs
      /\ refresh[r].pc = "collect" /\ refresh[r].at <= Len(WorldOrder)
  BY DEF Collect, Goes, copies
<1>2. c.got = g /\ c.at = refresh[r].at + 1 /\ c.pc = "collect"
  <2> HIDE DEF g
  <2> QED
    BY <1>0, <1>1 DEF Calls
<1>3. At(r) \in Worlds /\ refresh[r].got \in Metas
  BY <1>0, <1>1, AtWorld, CallSteps
<1>4. \A o \in Orgs : g[o] = None <=> refresh[r].got[o] = None /\ orgs[At(r)][o] = None
  <2> SUFFICES ASSUME NEW o \in Orgs
               PROVE  g[o] = None <=> refresh[r].got[o] = None /\ orgs[At(r)][o] = None
    OBVIOUS
  <2>1. refresh[r].got[o] \in Meta \cup {None} /\ orgs[At(r)][o] \in Meta \cup {None}
    BY <1>0, <1>3, MetasType DEF CopiesOK
  <2>2. g[o] = Merged(refresh[r].got[o], orgs[At(r)][o])
    OBVIOUS
  <2> HIDE DEF g
  <2> QED
    BY <2>1, <2>2, MergedType
<1> HIDE DEF g, c
<1>5. refresh'[r] = c /\ \A q \in Refreshers \ {r} : refresh'[q] = refresh[q]
  BY <1>0, <1>1, OneCall
<1>6. Before(r)' = Before(r) \cup {At(r)}
  BY <1>0, <1>1, <1>2, <1>5, BeforeNext
<1>7. Among(refresh[r].got, Before(r))
  BY <1>1 DEF Stage, Goes
<1>8. \A w \in Before(r) \cup {At(r)}, o \in Orgs : orgs[w][o] # None => g[o] # None
  BY <1>4, <1>7 DEF Among
<1>9. Among(refresh[r].got, Before(r))'
  BY <1>1, <1>2, <1>5, <1>6, <1>8 DEF Among
<1> QED
  BY <1>1, <1>2, <1>5, <1>9 DEF Stage, Goes

\* The manager takes over what was collected.
LEMMA StoreStage ==
  ASSUME TypeOK, NEW r \in Refreshers, Stage(r), Store(r)
  PROVE  Stage(r)'
<1>0. CallsOK /\ CopiesOK /\ refresh[r] \in Calls
  BY TypeParts DEF CallsOK
<1> DEFINE c == [refresh[r] EXCEPT !.pc = "send"]
<1>1. /\ refresh' = [refresh EXCEPT ![r] = c] /\ orgs' = orgs
      /\ refresh[r].pc = "collect" /\ refresh[r].at > Len(WorldOrder)
      /\ global' = [o \in Orgs |-> IF Alike(global[o], refresh[r].got[o])
                                   THEN global[o] ELSE refresh[r].got[o]]
  BY DEF Store, Goes, copies
<1>2. c.pc = "send"
  BY <1>0 DEF Calls
<1> HIDE DEF c
<1>3. refresh'[r] = c /\ \A q \in Refreshers \ {r} : refresh'[q] = refresh[q]
  BY <1>0, <1>1, OneCall
<1>4. Among(refresh[r].got, Worlds)
  BY <1>0, <1>1, BeforeEnd DEF Stage, Goes
<1>5. \A o \in Orgs : refresh[r].got[o] # None => global'[o] # None
  BY <1>1 DEF Alike
<1>6. Among(global, Worlds)'
  BY <1>1, <1>4, <1>5 DEF Among
<1> QED
  BY <1>2, <1>3, <1>6 DEF Stage, Goes

\* The call takes what it will write.
LEMMA SnapshotStage ==
  ASSUME TypeOK, NEW r \in Refreshers, Stage(r), SnapshotOrgTransfers(r)
  PROVE  Stage(r)'
<1>0. CallsOK
  BY TypeParts
<1> DEFINE c == [pc |-> "upsert", at |-> 1, got |-> Nothing, sent |-> global]
<1>1. /\ refresh' = [refresh EXCEPT ![r] = c] /\ UNCHANGED <<orgs, global>>
      /\ refresh[r].pc = "send"
  BY DEF SnapshotOrgTransfers, Goes, copies, manager
<1>2. c.pc = "upsert" /\ c.at = 1 /\ c.sent = global
  OBVIOUS
<1> HIDE DEF c
<1>3. refresh'[r] = c /\ \A q \in Refreshers \ {r} : refresh'[q] = refresh[q]
  BY <1>0, <1>1, OneCall
<1>4. Before(r)' = {}
  BY <1>2, <1>3, Bounds DEF Before
<1>5. Among(global, Worlds)'
  BY <1>1 DEF Stage, Goes, Among
<1> QED
  BY <1>1, <1>2, <1>3, <1>4, <1>5 DEF Stage, Goes

\* One more world agrees with the manager.
LEMMA UpsertStage ==
  ASSUME TypeOK, NEW r \in Refreshers, Stage(r), Upsert(r)
  PROVE  Stage(r)'
<1>0. CallsOK /\ CopiesOK /\ ManagerOK /\ refresh[r] \in Calls
  BY TypeParts DEF CallsOK
<1>w. PICK w \in Worlds : w = At(r)
  BY <1>0, AtWorld DEF Upsert
<1> DEFINE c == [refresh[r] EXCEPT !.at = refresh[r].at + 1]
<1>1. /\ refresh' = [refresh EXCEPT ![r] = c] /\ global' = global
      /\ refresh[r].pc = "upsert" /\ refresh[r].at <= Len(WorldOrder)
      /\ ApplyOrgMetaUpsert(w, refresh[r].sent)
  BY <1>w DEF Upsert, Skip, Goes, manager
<1>2. c.pc = "upsert" /\ c.at = refresh[r].at + 1 /\ c.sent = refresh[r].sent
  BY <1>0, <1>1 DEF Calls
<1>3. /\ refresh[r].sent = global /\ Among(global, Worlds)
      /\ \A v \in Before(r) : Agreed(v)
  BY <1>1 DEF Stage, Goes
<1> HIDE DEF c
<1>4. refresh'[r] = c /\ \A q \in Refreshers \ {r} : refresh'[q] = refresh[q]
  BY <1>0, <1>1, OneCall
<1>5. Before(r)' = Before(r) \cup {w}
  BY <1>0, <1>1, <1>2, <1>4, <1>w, BeforeNext
<1>6. \A v \in Before(r) : v \in Worlds
  BY Bounds DEF Before
<1>7. Among(global, Worlds)' /\ \A v \in Before(r) \cup {w} : Agreed(v)'
  <2>1. CASE global = Nothing
    <3>1. orgs' = orgs
      BY <1>1, <1>3, <2>1 DEF ApplyOrgMetaUpsert
    <3>2. \A o \in Orgs : global[o] = None
      BY <2>1 DEF Nothing
    <3>3. \A o \in Orgs : orgs[w][o] = None
      BY <1>3, <3>2 DEF Among
    <3>4. Agreed(w)
      BY <3>2, <3>3 DEF Agreed
    <3>5. \A v \in Before(r) \cup {w} : Agreed(v)
      BY <1>3, <3>4
    <3> QED
      BY <1>1, <1>3, <3>1, <3>5 DEF Among, Agreed
  <2>2. CASE global # Nothing
    <3> DEFINE new == [o \in Orgs |-> MergeMeta(orgs[w][o], global[o])]
    <3>1. orgs' = [orgs EXCEPT ![w] = new]
      BY <1>1, <1>3, <2>2 DEF ApplyOrgMetaUpsert
    <3>2. \A o \in Orgs : new[o] = MergeMeta(orgs[w][o], global[o])
      OBVIOUS
    <3> HIDE DEF new
    <3>3. orgs'[w] = new /\ \A v \in Worlds \ {w} : orgs'[v] = orgs[v]
      BY <1>0, <3>1 DEF CopiesOK
    <3>4. ASSUME NEW o \in Orgs
          PROVE  /\ new[o] = None <=> global[o] = None
                 /\ (global[o] # None /\ new[o].version <= global[o].version) => new[o] = global[o]
      <4>1. orgs[w][o] \in Meta \cup {None} /\ global[o] \in Meta \cup {None}
        BY <1>0, MetasType DEF CopiesOK, ManagerOK
      <4>2. /\ MergeMeta(orgs[w][o], global[o]) = None <=> orgs[w][o] = None /\ global[o] = None
            /\ (global[o] # None /\ MergeMeta(orgs[w][o], global[o]).version <= global[o].version)
                 => MergeMeta(orgs[w][o], global[o]) = global[o]
        BY ONLY <4>1, MergeMetaType
      <4>3. global[o] = None => orgs[w][o] = None
        BY <1>3 DEF Among
      <4> QED
        BY <3>2, <4>2, <4>3
    <3>5. Agreed(w)'
      BY <1>1, <3>3, <3>4 DEF Agreed
    <3>6. ASSUME NEW v \in Before(r), v # w PROVE Agreed(v)'
      BY <1>1, <1>3, <1>6, <3>3, <3>6 DEF Agreed
    <3>7. \A v \in Before(r) \cup {w} : Agreed(v)'
      BY <3>5, <3>6
    <3>8. ASSUME NEW v \in Worlds, NEW o \in Orgs, orgs'[v][o] # None PROVE global[o] # None
      <4>1. CASE v = w
        BY <3>3, <3>4, <3>8, <4>1
      <4>2. CASE v # w
        BY <1>3, <3>3, <3>8, <4>2 DEF Among
      <4> QED
        BY <4>1, <4>2
    <3>9. Among(global, Worlds)'
      BY <1>1, <3>8 DEF Among
    <3> QED
      BY <3>7, <3>9
  <2> QED
    BY <2>1, <2>2
<1>8. refresh'[r].sent = global'
  BY <1>1, <1>2, <1>3, <1>4
<1> QED
  BY <1>2, <1>4, <1>5, <1>7, <1>8 DEF Stage, Goes

\* Only the steps of a refresh keep it undisturbed, and they bring it to its end.
LEMMA UndisturbedStep ==
  ASSUME TypeOK, Undisturbed, [Next]_vars
  PROVE  Undisturbed'
<1>0. CallsOK
  BY TypeParts
<1>1. CASE calm' = "busy"
  BY <1>1 DEF Undisturbed
<1>2. ASSUME NEW a \in Agents, AgentStep(a) PROVE calm' = "busy"
  BY <1>2 DEF AgentStep, HandleCreateOrg, HandleJoinOrg, HandleLeaveOrg, Act, Operate,
              HandleTransferOut, MergeOrgMetaFromTransfer, AttachOrgMetaToTransfer,
              HandleTransferIn, TargetBusy, RollBack, UpdateResidency, Enter
<1>3. ASSUME NEW r \in Refreshers, RefreshStep(r), calm' # "busy"
      PROVE  Undisturbed'
  <2>1. CASE RefreshBegin(r)
    BY <1>0, <2>1, BeginsUndisturbed
  <2>2. CASE Collect(r) \/ Store(r) \/ SnapshotOrgTransfers(r) \/ Upsert(r) \/ RefreshEnd(r)
    <3>1. /\ UNCHANGED <<move, late>> /\ ~Goes(r, "idle")
          /\ RefreshEnd(r) \/ calm' = calm
      BY <2>2 DEF Collect, Store, SnapshotOrgTransfers, Upsert, RefreshEnd, Goes, copies
    <3>2. calm = "refresh"
      <4>1. calm # "busy"
        BY <1>3, <3>1 DEF RefreshEnd
      <4> QED
        BY <3>1, <4>1, TypeParts DEF Undisturbed, CountsOK
    <3>3. Stage(r)
      <4>1. PICK q \in Refreshers : Stage(q)
        BY <3>2 DEF Undisturbed
      <4> QED
        BY <3>1, <4>1 DEF Stage
    <3>4. CASE RefreshEnd(r)
      <4>1. /\ refresh' = [refresh EXCEPT ![r] = Idle] /\ calm' = "settled"
            /\ UNCHANGED <<orgs, global>> /\ refresh[r].at > Len(WorldOrder)
            /\ Goes(r, "upsert")
        BY <3>2, <3>4 DEF RefreshEnd, copies, manager
      <4>2. \A q \in Refreshers : Goes(q, "idle")'
        <5>1. refresh'[r] = Idle /\ \A q \in Refreshers \ {r} : refresh'[q] = refresh[q]
          BY <1>0, <4>1, OneCall
        <5> QED
          BY <3>3, <5>1 DEF Stage, Goes, Idle
      <4>3. \A w \in Worlds : Agreed(w)
        BY <1>0, <3>3, <4>1, BeforeEnd DEF Stage
      <4>4. \A w \in Worlds : Agreed(w)'
        BY <4>1, <4>3 DEF Agreed
      <4> QED
        BY <3>1, <3>2, <4>1, <4>2, <4>4 DEF Undisturbed
    <3>5. CASE ~RefreshEnd(r)
      <4>1. Stage(r)'
        BY <2>2, <3>3, <3>5, CollectStage, StoreStage, SnapshotStage, UpsertStage
      <4>2. calm' = "refresh"
        BY <3>1, <3>2, <3>5
      <4> QED
        BY <3>1, <3>2, <4>1, <4>2 DEF Undisturbed
    <3> QED
      BY <3>4, <3>5
  <2>3. CASE CollectFails(r) \/ UpsertFails(r)
    BY <1>3, <2>3 DEF CollectFails, UpsertFails
  <2> QED
    BY <1>3, <2>1, <2>2, <2>3 DEF RefreshStep
<1>4. ASSUME NEW w \in Worlds, UpsertLate(w) PROVE calm' = "busy"
  BY <1>4 DEF UpsertLate
<1>5. CASE PersistStep \/ UNCHANGED vars
  <2>1. UNCHANGED <<orgs, late, global, refresh, move, calm>>
    BY <1>5 DEF PersistStep, PersistArm, PersistFires, WriteState, WriteFails, busy, vars,
                copies, manager
  <2>2. \A w \in Worlds : Agreed(w)' <=> Agreed(w)
    BY <2>1 DEF Agreed
  <2>3. \A r \in Refreshers, s \in {"idle", "collect", "upsert"} : Goes(r, s)' <=> Goes(r, s)
    BY <2>1 DEF Goes
  <2>4. \A r \in Refreshers : Before(r)' = Before(r)
    BY <2>1 DEF Before
  <2>5. \A r \in Refreshers : Stage(r) => Stage(r)'
    <3> SUFFICES ASSUME NEW r \in Refreshers, Stage(r) PROVE Stage(r)'
      OBVIOUS
    <3>1. \A v \in Before(r) : v \in Worlds
      BY Bounds DEF Before
    <3> QED
      BY <2>1, <2>2, <2>3, <2>4, <3>1 DEF Stage, Among
  <2> QED
    BY <2>1, <2>2, <2>3, <2>5 DEF Undisturbed
<1>6. CASE Restart
  BY <1>1, <1>6 DEF Restart
<1> QED
  BY <1>1, <1>2, <1>3, <1>4, <1>5, <1>6 DEF Next

-----------------------------------------------------------------------------
(* The theorems                                                            *)

\* The invariant holds at the start.
LEMMA InvInit == Init => IInv
<1> SUFFICES ASSUME Init PROVE IInv
  OBVIOUS
<1>1. TypeOK
  BY TypeInit
<1>2. AgentsBacked
  BY DEF Init, AgentsBacked
<1>3. Numbered
  <2>1. \A o \in Orgs : Unused(o)
    BY Bounds DEF Init, Unused, Nothing, Idle
  <2> QED
    BY <2>1 DEF Numbered
<1> QED
  BY <1>1, <1>2, <1>3 DEF IInv

\* Every step keeps it.
LEMMA InvStep ==
  ASSUME OneFounder, IInv, [Next]_vars
  PROVE  IInv' /\ Grown
<1>1. TypeOK /\ AgentsBacked /\ Numbered
  BY DEF IInv
<1>2. TypeOK'
  BY <1>1, TypeStep
<1>3. Numbered' /\ AgentsBacked' /\ Grown
  BY <1>1, MembersStep
<1> QED
  BY <1>2, <1>3 DEF IInv

\* The invariant holds always, where one world founds.
LEMMA Invariance == ASSUME OneFounder PROVE Spec => []IInv
<1>1. IInv /\ [Next]_vars => IInv'
  BY InvStep
<1> QED
  BY <1>1, InvInit, PTL DEF Spec

\* An agent is listed by its organization in the world it is in, whatever a
\* refresh, a late write or another agent brings (ReconcileAgentsOrg,
\* UpsertIncomingOrg), as long as one world numbers the organizations.
THEOREM MembershipsAgree == ASSUME OneFounder PROVE Spec => []AgentsBacked
<1>1. IInv => AgentsBacked
  BY DEF IInv
<1> QED
  BY <1>1, Invariance, PTL

\* The version of a world's copy never goes down (MergeMeta, UpsertIncomingOrg),
\* with late writes, agents with old copies and restarts, as long as one world
\* numbers the organizations: an organization founded under a number that the
\* world already has from elsewhere would start again at version 1.
THEOREM VersionsNeverFall == ASSUME OneFounder PROVE Spec => VersionsGrow
<1>1. IInv /\ [Next]_vars =>
        [\A w \in Worlds, o \in Orgs :
           (orgs[w][o] # None /\ orgs'[w][o] # None)
             => orgs'[w][o].version >= orgs[w][o].version]_orgs
  BY InvStep DEF Grown
<1> QED
  BY <1>1, Invariance, PTL DEF Spec, VersionsGrow

\* After a call of RefreshOrgMeta that nothing disturbed, the worlds know the
\* manager's organizations, and have its copy unless theirs is newer, wherever
\* organizations are founded.
THEOREM RefreshReconciles == Spec => []RefreshAgrees
<1>1. Init => TypeOK /\ Undisturbed
  BY TypeInit DEF Init, Undisturbed
<1>2. (TypeOK /\ Undisturbed) /\ [Next]_vars => (TypeOK /\ Undisturbed)'
  BY TypeStep, UndisturbedStep
<1>3. TypeOK /\ Undisturbed => RefreshAgrees
  BY DEF Undisturbed, Agreed, RefreshAgrees
<1> QED
  BY <1>1, <1>2, <1>3, PTL DEF Spec

\* state.json is current when the persistence loop is at rest (persistLoop,
\* schedulePersist): no change falls between the snapshot and the end of the write.
THEOREM FileUpToDate == Spec => []FileCurrent
<1>1. Init => TypeOK /\ Written
  BY TypeInit DEF Init, Written, FileCurrent, SnapshotState
<1>2. (TypeOK /\ Written) /\ [Next]_vars => (TypeOK /\ Written)'
  BY TypeStep, WrittenStep
<1>3. TypeOK /\ Written => FileCurrent
  BY DEF Written
<1> QED
  BY <1>1, <1>2, <1>3, PTL DEF Spec
====
