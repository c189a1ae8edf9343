------------------------------ MODULE WorkTick ------------------------------
(***************************************************************************)
(* The work of the agents within a step of the world: tasks asked for by   *)
(* acts, then one turn of every agent in the order of their ids, then the  *)
(* conveyors, then the environment.                                        *)
(*                                                                         *)
(* A task holds its target, not what it was when the task was asked for:   *)
(* between two turns other agents mine, place, take and build, contracts   *)
(* reserve items and pay them out, belts carry items, and the director     *)
(* turns blocks to ore.  Where an agent stands and what it may do there    *)
(* belong to other parts of the world: a task may fail at any turn.        *)
(***************************************************************************)
EXTENDS Ground

CONSTANTS
  AgentOrder,    \* the agents, by id
  Requests,      \* the tasks that may be asked for
  Layouts,       \* the blocks there may be at the start
  StartStock,    \* what a container holds at the start
  StartKit,      \* what every agent holds at the start
  Recipes,       \* by name: station, time, inputs and outputs
  Blueprint,     \* the blocks of the blueprint: cell and name
  Cost,          \* and its price, which pays for all of them
  MineTicks,     \* turns to mine a block
  BlocksPerTick, \* ClampBlocksPerTick(cfg.BlueprintBlocksPerTick)
  CleanupEvery,  \* ticks between cleanups of expired items
  MaxOps,        \* bound on requests, instants, respawns and director events
  MaxTick        \* bound on the ticks

Self == [type |-> "SELF", pos |-> 0]

\* What a task asks for; the type is part of the id of a container.
Store == [type : ContainerTypes, pos : Cells] \cup {Self}
Request ==
  [kind : {"MINE"}, pos : Cells] \cup [kind : {"GATHER"}, id : ItemIds]
  \cup [kind : {"PLACE"}, pos : Cells, item : Items]
  \cup [kind : {"TRANSFER"}, src : Store, dst : Store, item : Items, n : Nat]
  \cup [kind : {"CRAFT"}, recipe : DOMAIN Recipes, n : Nat] \cup [kind : {"BUILD"}]

Recipe == [station : STRING, time : Nat, inputs : Bundle, outputs : Bundle]
Task == [req : Requests, ticks : Nat, left : Nat, index : 0..Len(Blueprint)]

ASSUME WorkAssumption ==
  /\ AgentOrder \in Seq(Agents) /\ Agents = {AgentOrder[i] : i \in DOMAIN AgentOrder}
  /\ \A j, k \in DOMAIN AgentOrder : AgentOrder[j] = AgentOrder[k] => j = k
  /\ Requests \subseteq Request /\ Absent \notin Task /\ \A r \in DOMAIN Recipes : Recipes[r] \in Recipe
  /\ Layouts \subseteq [Cells -> Blocks] /\ {"CHEST", "IRON_ORE"} \subseteq Items
  /\ StartStock \in Bundle /\ StartKit \in Bundle /\ Cost \in Bundle
  /\ MineTicks \in Nat \ {0} /\ BlocksPerTick \in Nat \ {0} /\ CleanupEvery \in Nat \ {0}
  /\ MaxOps \in Nat /\ MaxTick \in Nat
  /\ Blueprint \in Seq([pos : Cells, block : Items])
  /\ \A x \in Items : Cardinality({i \in 1..Len(Blueprint) : Blueprint[i].block = x}) <= Cost[x]

VARIABLES
  tick,     \* World.tick
  turn,     \* 0: acts, then the agents, the conveyors, the environment
  ops,      \* operations so far
  blocks,   \* ChunkStore, by cell
  belts,    \* World.conveyors: by cell, the direction or Absent
  switches, \* World.switches
  g,        \* items and containers
  inv,      \* Agent.Inventory
  task,     \* Agent.WorkTask
  bill,     \* what the open build of an agent has paid and not yet placed
  credit,   \* of every item the blocks that were in place when the open build was
            \* charged, less those placed without having been paid
  supply    \* what there should be of every item

site == <<blocks, belts, switches>>
books == <<bill, credit, supply>>
workVars == <<tick, turn, ops, site, g, inv, task, books>>

WorkTypeOK ==
  /\ tick \in 0..MaxTick /\ turn \in 0..Len(AgentOrder) + 2 /\ ops \in 0..MaxOps
  /\ blocks \in [Cells -> Blocks]
  /\ belts \in [Cells -> {-1, 1, Absent}] /\ switches \in [Cells -> {"ON", "OFF", Absent}]
  /\ g.items \in [ItemIds -> Entity \cup {Absent}] /\ g.at \in [Cells -> Seq(ItemIds)]
  /\ g.box \in [Cells -> Container \cup {Absent}] /\ g.next \in 0..MaxItems
  /\ inv \in [Agents -> Bundle] /\ task \in [Agents -> Task \cup {Absent}]
  /\ bill \in [Agents -> Bundle] /\ credit \in [Agents -> [Items -> Int]] /\ supply \in [Items -> Int]

-----------------------------------------------------------------------------
(* All there is of an item                                                 *)

ByAgent(f) == Sum([k \in DOMAIN AgentOrder |-> f[AgentOrder[k]]])

Lying(e, x) == IF e # Absent /\ e.item = x THEN e.count ELSE 0
Kept(c, x) == IF c = Absent THEN 0 ELSE c.stock[x] + ByAgent([a \in Agents |-> c.owed[a][x]])
OnGround(ground, x) ==
  Sum([i \in ItemIds |-> Lying(ground.items[i], x)]) + Sum([p \in Cells |-> Kept(ground.box[p], x)])

Total(bs, ground, inventory, bills, x) ==
  Sum([p \in Cells |-> IF bs[p] = x THEN 1 ELSE 0]) + OnGround(ground, x)
  + ByAgent([a \in Agents |-> inventory[a][x] + bills[a][x]])

NoBill == [a \in Agents |-> Nothing]

WorkInit ==
  /\ tick = 0 /\ turn = 0 /\ ops = 0
  /\ blocks \in Layouts
  /\ belts = [p \in Cells |-> IF blocks[p] = "CONVEYOR" THEN 1 ELSE Absent]
  /\ switches = [p \in Cells |-> IF blocks[p] = "SWITCH" THEN "OFF" ELSE Absent]
  /\ g = [items |-> [i \in ItemIds |-> Absent], at |-> [p \in Cells |-> <<>>], next |-> 0,
          box |-> [p \in Cells |->
            IF blocks[p] \in ContainerTypes
            THEN [type |-> blocks[p], stock |-> StartStock, reserved |-> Nothing,
                  owed |-> [a \in Agents |-> Nothing]]
            ELSE Absent]]
  /\ inv = [a \in Agents |-> StartKit]
  /\ task = [a \in Agents |-> Absent]
  /\ bill = NoBill /\ credit = NoBill
  /\ supply = [x \in Items |-> Total(blocks, g, inv, NoBill, x)]

-----------------------------------------------------------------------------
(* Acts, and what else happens between the turns                           *)

Boundary == turn = 0 /\ UNCHANGED <<tick, turn>>
Operation == ops < MaxOps /\ ops' = ops + 1

\* HandleTaskMine and its like: one task at a time.
Ask(a, r) ==
  /\ Boundary /\ Operation
  /\ task[a] = Absent
  /\ r.kind = "GATHER" => g.items[r.id] # Absent
  /\ task' = [task EXCEPT ![a] = [req |-> r, ticks |-> 0, index |-> 0,
                                  left |-> IF r.kind = "CRAFT" THEN r.n ELSE 0]]
  /\ UNCHANGED <<site, g, inv, books>>

\* HandleToggleSwitch
ToggleSwitch(p) ==
  /\ Boundary /\ Operation
  /\ blocks[p] = "SWITCH"
  /\ switches' = [switches EXCEPT ![p] = IF @ = "ON" THEN "OFF" ELSE "ON"]
  /\ UNCHANGED <<blocks, belts, g, inv, task, books>>

Terminal(p) == g.box[p] # Absent /\ g.box[p].type = "CONTRACT_TERMINAL"

\* So much more of an item is in stock and reserved.
Reserve(c, x, n) == [c EXCEPT !.stock[x] = @ + n, !.reserved[x] = @ + n]

Owing(c, a, x) == [c EXCEPT !.owed[a][x] = @ + 1]

\* A contract is posted: its reward moves into the terminal and is reserved.
Stake(a, p, x) ==
  /\ Boundary /\ Operation
  /\ Terminal(p) /\ inv[a][x] > 0
  /\ inv' = [inv EXCEPT ![a][x] = @ - 1]
  /\ g' = [g EXCEPT !.box[p] = Reserve(@, x, 1)]
  /\ UNCHANGED <<site, task, books>>

\* A contract ends: a stake is paid out, or owed when its agent is away.
Settle(a, p, x) ==
  /\ Boundary /\ Operation
  /\ Terminal(p) /\ g.box[p].reserved[x] > 0
  /\ \/ /\ g' = [g EXCEPT !.box[p] = Reserve(@, x, -1)]
        /\ inv' = [inv EXCEPT ![a][x] = @ + 1]
     \/ /\ g' = [g EXCEPT !.box[p] = Owing(Reserve(@, x, -1), a, x)]
        /\ UNCHANGED inv
  /\ UNCHANGED <<site, task, books>>

\* HandleClaimOwed
ClaimOwed(a, p) ==
  /\ Boundary /\ Operation
  /\ Terminal(p) /\ g.box[p].owed[a] # Nothing
  /\ inv' = [inv EXCEPT ![a] = Plus(@, g.box[p].owed[a])]
  /\ g' = [g EXCEPT !.box[p].owed[a] = Nothing]
  /\ UNCHANGED <<site, task, books>>

\* applySpawnPlan: the director sets a block and looks at nothing else; a chest
\* comes with goods, in the container that may be there already.
Overwrite(p, b) ==
  /\ Boundary /\ Operation
  /\ blocks[p] # b
  /\ blocks' = [blocks EXCEPT ![p] = b]
  /\ g' = IF b # "CHEST" THEN g
          ELSE [EnsureContainer(g, p, b) EXCEPT !.box[p].stock = Plus(@, StartStock)]
  /\ supply' = [x \in Items |-> supply[x] + Of(b, 1)[x] + (IF b = "CHEST" THEN StartStock[x] ELSE 0)
                                          - Of(blocks[p], 1)[x]]
  /\ UNCHANGED <<belts, switches, inv, task, bill, credit>>

StartWork ==
  /\ turn = 0 /\ turn' = 1
  /\ UNCHANGED <<tick, ops, site, g, inv, task, books>>

-----------------------------------------------------------------------------
(* The turn of an agent                                                    *)

Turn(a, kind) ==
  /\ turn \in 1..Len(AgentOrder) /\ a = AgentOrder[turn] /\ turn' = turn + 1
  /\ task[a] # Absent /\ task[a].req.kind = kind
  /\ UNCHANGED <<tick, ops>>

Ends(a) == task' = [task EXCEPT ![a] = Absent]

\* Too far away, not allowed, or gone: TASK_FAIL.  What a build has paid and
\* did not place is lost.
TaskFails(a) ==
  /\ \E kind \in {"MINE", "GATHER", "PLACE", "TRANSFER", "CRAFT", "BUILD"} : Turn(a, kind)
  /\ Ends(a)
  /\ supply' = Minus(supply, bill[a])
  /\ bill' = [bill EXCEPT ![a] = Nothing] /\ credit' = [credit EXCEPT ![a] = Nothing]
  /\ UNCHANGED <<site, g, inv>>

Rests ==
  /\ turn \in 1..Len(AgentOrder) /\ turn' = turn + 1
  /\ task[AgentOrder[turn]] = Absent
  /\ UNCHANGED <<tick, ops, site, g, inv, task, books>>

\* TickMine, not done yet: the turn adds to the work, or the agent is tired.
MineOn(a) ==
  /\ Turn(a, "MINE")
  /\ blocks[task[a].req.pos] # "AIR"
  /\ \/ /\ task[a].ticks + 1 < MineTicks
        /\ task' = [task EXCEPT ![a].ticks = @ + 1]
     \/ UNCHANGED task
  /\ UNCHANGED <<site, g, inv, books>>

Holder(p) == IF blocks[p] \in ContainerTypes THEN g.box[p] ELSE Absent

\* Everything in the container, and what it owes the miner, goes to the miner;
\* what it owes others is lost.
Salvage(a, c) == IF c = Absent THEN Nothing ELSE Plus(c.stock, c.owed[a])
Forgotten(a, c) ==
  [x \in Items |-> IF c = Absent THEN 0
                   ELSE ByAgent([b \in Agents |-> IF b = a THEN 0 ELSE c.owed[b][x]])]

\* MineOutcome: what an event that is on around the block grants its miner.
MineOutcome(b) ==
  CASE b = "CRYSTAL_ORE" -> {Nothing, Of("CRYSTAL_SHARD", 1)}
    [] b \in {"IRON_ORE", "COPPER_ORE"} -> {Nothing, Of(b, 1)}
    [] OTHER -> {Nothing}

\* TickMine, the last turn.
Mine(a) ==
  LET p == task[a].req.pos
      c == Holder(p)
      emptied == IF c = Absent THEN g ELSE RemoveContainer(g, p)
  IN  /\ Turn(a, "MINE")
      /\ blocks[p] # "AIR" /\ task[a].ticks + 1 >= MineTicks
      /\ c # Absent => c.reserved = Nothing
      /\ \E grant \in MineOutcome(blocks[p]) :
           /\ inv' = [inv EXCEPT ![a] = Plus(Plus(@, Salvage(a, c)), grant)]
           /\ supply' = Plus(Minus(supply, Forgotten(a, c)), grant)
      /\ g' = IF blocks[p] \in Items THEN Spawn(emptied, tick, p, blocks[p], 1) ELSE emptied
      /\ g'.next <= MaxItems
      /\ blocks' = [blocks EXCEPT ![p] = "AIR"]
      /\ belts' = IF blocks[p] = "CONVEYOR" THEN [belts EXCEPT ![p] = Absent] ELSE belts
      /\ switches' = IF blocks[p] = "SWITCH" THEN [switches EXCEPT ![p] = Absent] ELSE switches
      /\ Ends(a)
      /\ UNCHANGED <<bill, credit>>

\* TickGather: the first to come has it.
Gather(a) ==
  LET i == task[a].req.id
  IN  /\ Turn(a, "GATHER")
      /\ g.items[i] # Absent
      /\ inv' = [inv EXCEPT ![a] = Plus(@, Of(g.items[i].item, g.items[i].count))]
      /\ g' = RemoveEntity(g, i)
      /\ Ends(a)
      /\ UNCHANGED <<site, books>>

\* EffectsForPlacedBlock
PlaceEffects(ground, p, b) ==
  IF b \in ContainerTypes THEN EnsureContainer(ground, p, b) ELSE ground
BeltsAfter(bs, p, b, direction) == IF b = "CONVEYOR" THEN [bs EXCEPT ![p] = direction] ELSE bs
SwitchesAfter(ss, p, b) == IF b = "SWITCH" THEN [ss EXCEPT ![p] = "OFF"] ELSE ss

\* TickPlace
Place(a) ==
  LET p == task[a].req.pos
      x == task[a].req.item
  IN  /\ Turn(a, "PLACE")
      /\ blocks[p] = "AIR" /\ inv[a][x] >= 1
      /\ inv' = [inv EXCEPT ![a][x] = @ - 1]
      /\ blocks' = [blocks EXCEPT ![p] = x]
      /\ g' = PlaceEffects(g, p, x)
      /\ \E direction \in {-1, 1} : belts' = BeltsAfter(belts, p, x, direction)
      /\ switches' = SwitchesAfter(switches, p, x)
      /\ Ends(a)
      /\ UNCHANGED books

\* GetContainerByID
IsThere(c) == g.box[c.pos] # Absent /\ g.box[c.pos].type = c.type

\* TickTransfer: between a container and the agent, or two containers.
Transfer(a) ==
  LET r == task[a].req
      from == r.src
      to == r.dst
      out == IF from = Self THEN g ELSE AddStock(g, from.pos, r.item, -r.n)
      got == Of(r.item, r.n)
  IN  /\ Turn(a, "TRANSFER")
      /\ from # Self \/ to # Self
      /\ \A c \in {from, to} \ {Self} : IsThere(c)
      /\ IF from = Self THEN inv[a][r.item] >= r.n
         ELSE AvailableCount(g.box[from.pos], r.item) >= r.n
      /\ g' = IF to = Self THEN out ELSE AddStock(out, to.pos, r.item, r.n)
      /\ inv' = [inv EXCEPT ![a] =
           CASE from = Self -> Minus(@, got) [] to = Self -> Plus(@, got) [] OTHER -> @]
      /\ Ends(a)
      /\ UNCHANGED <<site, books>>

NearBlock(station) == station = "HAND" \/ \E p \in Cells : blocks[p] = station

\* TickCraft and TickSmelt: the inputs are looked at when the time is over.
CraftOn(a) ==
  LET r == Recipes[task[a].req.recipe]
  IN  /\ Turn(a, "CRAFT")
      /\ NearBlock(r.station) /\ task[a].ticks + 1 < r.time
      /\ task' = [task EXCEPT ![a].ticks = @ + 1]
      /\ UNCHANGED <<site, g, inv, books>>

\* What is left of a task when one of what it makes is made.
Again(t) == IF t.left > 1 THEN [t EXCEPT !.left = t.left - 1, !.ticks = 0] ELSE Absent

Craft(a) ==
  LET r == Recipes[task[a].req.recipe]
  IN  /\ Turn(a, "CRAFT")
      /\ NearBlock(r.station) /\ task[a].ticks + 1 >= r.time
      /\ \A x \in Items : inv[a][x] >= r.inputs[x]
      /\ inv' = [inv EXCEPT ![a] = Plus(Minus(@, r.inputs), r.outputs)]
      /\ supply' = [x \in Items |-> supply[x] + r.outputs[x] - r.inputs[x]]
      /\ task' = [task EXCEPT ![a] = Again(@)]
      /\ UNCHANGED <<site, g, bill, credit>>

-----------------------------------------------------------------------------
(* Building a blueprint                                                    *)

Correct(i) == blocks[Blueprint[i].pos] = Blueprint[i].block
Free(i) == blocks[Blueprint[i].pos] = "AIR"
Parts == 1..Len(Blueprint)

\* RemainingCost: less the blocks that are in place.
InPlace == [x \in Items |-> Cardinality({i \in Parts : Correct(i) /\ Blueprint[i].block = x})]
RemainingCost == [x \in Items |-> IF InPlace[x] >= Cost[x] THEN 0 ELSE Cost[x] - InPlace[x]]

\* Slip: the rest is not charged when some of the blueprint is in place.
RemainingCostOnce == IF \E i \in Parts : Correct(i) THEN Nothing ELSE Cost

Anchor == Blueprint[1].pos

\* What is missing is paid out of the containers around as far as the agent has
\* it not: what is left on the ground and with the agent.
Charge(a, usable) ==
  LET p == IF \A x \in Items : inv[a][x] >= RemainingCost[x] THEN [g |-> g, inv |-> inv[a]]
           ELSE EnsureBlueprintMaterials(g, inv[a], RemainingCost, Anchor, Candidates(g, usable))
  IN  [p EXCEPT !.inv = Minus(@, RemainingCost)]

\* The state of a build before the blocks of a turn: in the first turn all that
\* is missing is charged, in a later one nothing.
Resumed(a) ==
  [blocks |-> blocks, g |-> g, belts |-> belts, switches |-> switches, inv |-> inv[a],
   index |-> task[a].index, placed |-> 0, failed |-> FALSE,
   bill |-> bill[a], credit |-> credit[a], supply |-> supply]
Charged(a, usable) ==
  LET p == Charge(a, usable)
  IN  [Resumed(a) EXCEPT !.g = p.g, !.inv = p.inv, !.bill = RemainingCost,
                         !.credit = InPlace]

\* A block is put up: from what was paid, or else for nothing.
PutUp(s, p, x) ==
  LET paid == s.bill[x] > 0
  IN  [blocks |-> [s.blocks EXCEPT ![p] = x],
       g |-> PlaceEffects(s.g, p, x),
       belts |-> BeltsAfter(s.belts, p, x, 1),
       switches |-> SwitchesAfter(s.switches, p, x),
       inv |-> s.inv, index |-> s.index + 1, placed |-> s.placed + 1, failed |-> FALSE,
       bill |-> [s.bill EXCEPT ![x] = IF paid THEN @ - 1 ELSE @],
       credit |-> [s.credit EXCEPT ![x] = IF paid THEN @ ELSE @ - 1],
       supply |-> [s.supply EXCEPT ![x] = IF paid THEN @ ELSE @ + 1]]

\* One pass of the loop, denied the block at which the agent may not build.
BuildNext(s, denied) ==
  LET b == Blueprint[s.index + 1]
  IN  IF s.failed \/ s.index = Len(Blueprint) \/ s.placed = BlocksPerTick THEN s
      ELSE IF s.index + 1 = denied THEN [s EXCEPT !.failed = TRUE]
      ELSE IF s.blocks[b.pos] = b.block THEN [s EXCEPT !.index = @ + 1]
      ELSE IF s.blocks[b.pos] # "AIR" THEN [s EXCEPT !.failed = TRUE]
      ELSE PutUp(s, b.pos, b.block)

\* The blocks of a turn.
Placed(s0, denied) == Through(LAMBDA t, i : BuildNext(t, denied), s0, [i \in Parts |-> i])

PlaceParts(a, s0) ==
  \E denied \in Parts \cup {0} :
    LET s == Placed(s0, denied)
        over == s.failed \/ s.index = Len(Blueprint)
    IN  /\ denied = 0 \/ s.failed
        /\ blocks' = s.blocks /\ belts' = s.belts /\ switches' = s.switches
        /\ g' = s.g /\ inv' = [inv EXCEPT ![a] = s.inv]
        /\ task' = [task EXCEPT ![a] = IF over THEN Absent ELSE [@ EXCEPT !.index = s.index]]
        /\ bill' = [bill EXCEPT ![a] = IF over THEN Nothing ELSE s.bill]
        /\ credit' = [credit EXCEPT ![a] = s.credit]
        /\ supply' = IF over THEN Minus(s.supply, s.bill) ELSE s.supply

\* TickBuildBlueprint, the first turn.
Build(a) ==
  /\ Turn(a, "BUILD") /\ task[a].index = 0
  /\ \A i \in Parts : Correct(i) \/ Free(i)
  /\ \E i \in Parts : ~Correct(i)
  /\ \E usable \in SUBSET {p \in Cells : g.box[p] # Absent} :
       /\ \A x \in Items : Charge(a, usable).inv[x] >= 0
       /\ PlaceParts(a, Charged(a, usable))

\* Later turns: no more is looked at than the blocks of the turn.
BuildOn(a) ==
  /\ Turn(a, "BUILD") /\ task[a].index > 0
  /\ PlaceParts(a, Resumed(a))

\* Everything is in place: nothing is charged.
BuildDone(a) ==
  /\ Turn(a, "BUILD") /\ task[a].index = 0
  /\ \A i \in Parts : Correct(i)
  /\ Ends(a)
  /\ UNCHANGED <<site, g, inv, books>>

-----------------------------------------------------------------------------
(* After the agents                                                        *)

Conveyors ==
  /\ turn = Len(AgentOrder) + 1 /\ turn' = turn + 1
  /\ g' = RunConveyors(g, blocks, switches, belts, tick)
  /\ g'.next <= MaxItems
  /\ UNCHANGED <<tick, ops, site, inv, task, books>>

Lost(a, down) == IF a \in down THEN ComputeInventoryLoss(inv[a]) ELSE Nothing

\* What the agents that are down leave where they are.
Dropped(down, where) ==
  Through(LAMBDA h, a : IF a \in down THEN DropAll(h, tick, where[a], Lost(a, down)) ELSE h,
          g, AgentOrder)

\* What they have paid for their builds, and what is swept off the ground.
Spilt(down, x) == ByAgent([a \in Agents |-> IF a \in down THEN bill[a][x] ELSE 0])
Decayed(ground, swept, x) ==
  Sum([i \in ItemIds |-> IF i \in swept THEN Lying(ground.items[i], x) ELSE 0])

\* systemEnvironment: the agents that are down come to life elsewhere, without
\* their task and with less than they had, and every so often what has lain too
\* long on the ground is removed.
Environment ==
  /\ turn = Len(AgentOrder) + 2 /\ tick < MaxTick
  /\ turn' = 0 /\ tick' = tick + 1
  /\ \E down \in SUBSET Agents : \E where \in [down -> Cells] :
       LET dropped == Dropped(down, where)
           swept == IF tick % CleanupEvery = 0 THEN Expired(dropped, tick) ELSE {}
       IN  /\ ops' = ops + Cardinality(down) /\ ops' <= MaxOps
           /\ dropped.next <= MaxItems
           /\ g' = IF swept = {} THEN dropped ELSE CleanupExpired(dropped, tick)
           /\ inv' = [a \in Agents |-> Minus(inv[a], Lost(a, down))]
           /\ task' = [a \in Agents |-> IF a \in down THEN Absent ELSE task[a]]
           /\ bill' = [a \in Agents |-> IF a \in down THEN Nothing ELSE bill[a]]
           /\ credit' = [a \in Agents |-> IF a \in down THEN Nothing ELSE credit[a]]
           /\ supply' = [x \in Items |-> supply[x] - Spilt(down, x) - Decayed(dropped, swept, x)]
  /\ UNCHANGED site

WorkNext ==
  \/ \E a \in Agents, r \in Requests : Ask(a, r)
  \/ \E p \in Cells : ToggleSwitch(p) \/ (\E b \in {"IRON_ORE", "CHEST"} : Overwrite(p, b))
  \/ \E a \in Agents, p \in Cells, x \in Items : Stake(a, p, x) \/ Settle(a, p, x)
  \/ \E a \in Agents, p \in Cells : ClaimOwed(a, p)
  \/ StartWork \/ Rests
  \/ \E a \in Agents : TaskFails(a) \/ MineOn(a) \/ Mine(a) \/ Gather(a) \/ Place(a)
                       \/ Transfer(a) \/ CraftOn(a) \/ Craft(a)
                       \/ Build(a) \/ BuildOn(a) \/ BuildDone(a)
  \/ Conveyors \/ Environment

WorkSpec == WorkInit /\ [][WorkNext]_workVars

-----------------------------------------------------------------------------
\* Whatever agents, belts, contracts and the director do to the same blocks and
\* containers, no item appears twice or is lost but for the losses named above;
\* and a build puts up at most as many blocks of an item it has not paid for as
\* were in place when it was charged, whoever mines or places them meanwhile.
ItemsConserved ==
  /\ \A x \in Items : Total(blocks, g, inv, bill, x) = supply[x]
  /\ \A a \in Agents, x \in Items : credit[a][x] >= 0

\* What contracts have reserved in a container is there, whoever takes from it:
\* transfers, belts, builds that pull their materials, and miners.
ReservedBacked ==
  \A p \in Cells : g.box[p] # Absent =>
    \A x \in Items : g.box[p].reserved[x] <= g.box[p].stock[x]

\* World.itemsAt lists every entity once, at the cell where it lies, and nothing
\* else, however it came and went: sensors, merges and empty belts go by it.
EntitiesIndexed ==
  /\ \A i \in Live(g), p \in Cells :
       Cardinality({k \in DOMAIN g.at[p] : g.at[p][k] = i}) = IF g.items[i].pos = p THEN 1 ELSE 0
  /\ \A p \in Cells : \A k \in DOMAIN g.at[p] : g.at[p][k] \in Live(g)
=============================================================================
