------------------------------- MODULE Ground -------------------------------
(***************************************************************************)
(* What lies on the ground: dropped items, containers and conveyor belts,  *)
(* as operators on a record g                                              *)
(*                                                                         *)
(*   g.items  World.items: by number, the entity or Absent                  *)
(*   g.at     World.itemsAt: by cell, the numbers of the entities there    *)
(*   g.box    World.containers: by cell, the container or Absent           *)
(*   g.next   World.nextItemNum                                            *)
(*                                                                         *)
(* The cells lie in a row between walls.  They stand for the plane y = 0   *)
(* along one line: a belt moves to the left or to the right, and the       *)
(* neighbours of a cell are the cells beside it.                           *)
(***************************************************************************)
EXTENDS Integers, Sequences, FiniteSets

CONSTANTS
  Agents,
  Width,       \* the cells are 1..Width
  ItemOrder,   \* the items, by name
  Absent,      \* no entity, container, belt, switch or task
  MaxItems,    \* bound on the entities ever dropped
  TTL          \* EntityTTLTicksDefault

Cells == 1..Width
Items == {ItemOrder[i] : i \in 1..Len(ItemOrder)}
Blocks == Items \cup {"AIR"}
ItemIds == 1..MaxItems
ContainerTypes == {"CHEST", "FURNACE", "CONTRACT_TERMINAL"}

Bundle == [Items -> Nat]
Nothing == [x \in Items |-> 0]
Of(x, n) == [y \in Items |-> IF y = x THEN n ELSE 0]
Plus(b, d) == [x \in Items |-> b[x] + d[x]]
Minus(b, d) == [x \in Items |-> b[x] - d[x]]

Entity == [pos : Cells, item : Items, count : Nat \ {0}, expires : Nat]
Container == [type : ContainerTypes, stock : Bundle, reserved : Bundle,
              owed : [Agents -> Bundle]]

ASSUME GroundAssumption ==
  /\ Width \in Nat \ {0} /\ MaxItems \in Nat /\ TTL \in Nat
  /\ ItemOrder \in Seq(Items) /\ "AIR" \notin Items
  /\ \A j, k \in DOMAIN ItemOrder : ItemOrder[j] = ItemOrder[k] => j = k
  /\ Absent \notin Entity /\ Absent \notin Container

\* What step makes of base along a sequence.
Through(step(_, _), base, seq) ==
  LET f[n \in 0..Len(seq)] == IF n = 0 THEN base ELSE step(f[n - 1], seq[n])
  IN  f[Len(seq)]

Sum(f) == Through(LAMBDA m, n : m + n, 0, f)

Earliest(S) == CHOOSE k \in S : \A j \in S : k <= j

-----------------------------------------------------------------------------
(* Dropped items                                                           *)

\* The first entry of the entity goes.
RemoveID(ids, i) ==
  LET places == {k \in DOMAIN ids : ids[k] = i}
  IN  IF places = {} THEN ids
      ELSE [k \in 1..Len(ids) - 1 |-> IF k < Earliest(places) THEN ids[k] ELSE ids[k + 1]]

\* FindMergeTarget: the first entity of the item in the cell.
SameItem(g, pos, item) == {k \in DOMAIN g.at[pos] : g.items[g.at[pos][k]].item = item}
FindMergeTarget(g, pos, item) == g.at[pos][Earliest(SameItem(g, pos, item))]

Later(s, t) == IF s > t THEN s ELSE t
Merged(e, count, now) ==
  [pos |-> e.pos, item |-> e.item, count |-> e.count + count, expires |-> Later(now + TTL, e.expires)]
Merge(g, i, count, now) == [g EXCEPT !.items[i] = Merged(g.items[i], count, now)]

\* Past the bound on the entities the ground stays as it is; no step ends there.
Spawn(g, now, pos, item, count) ==
  IF SameItem(g, pos, item) # {} THEN Merge(g, FindMergeTarget(g, pos, item), count, now)
  ELSE IF g.next >= MaxItems THEN [g EXCEPT !.next = MaxItems + 1]
  ELSE [g EXCEPT !.next = @ + 1,
                 !.items[g.next + 1] = [pos |-> pos, item |-> item, count |-> count,
                                        expires |-> now + TTL],
                 !.at[pos] = Append(@, g.next + 1)]

RemoveEntity(g, i) ==
  IF g.items[i] = Absent THEN g
  ELSE [g EXCEPT !.items[i] = Absent, !.at[g.items[i].pos] = RemoveID(@, i)]

\* Slip: the list of the cell it leaves keeps the entity.
MoveLeft(g, i, to) ==
  [g EXCEPT !.items[i].pos = to, !.at[to] = Append(@, i)]

Move(g, i, to) ==
  IF g.items[i].pos = to THEN g
  ELSE [g EXCEPT !.items[i].pos = to,
                 !.at[g.items[i].pos] = RemoveID(@, i),
                 !.at[to] = Append(@, i)]

Live(g) == {i \in ItemIds : g.items[i] # Absent}

\* A step for every entity of a set, by their numbers.
InOrder(step(_, _), base, S) ==
  Through(LAMBDA h, i : IF i \in S THEN step(h, i) ELSE h, base, [i \in ItemIds |-> i])

Expired(g, now) == {i \in Live(g) : now >= g.items[i].expires}

CleanupExpired(g, now) == InOrder(RemoveEntity, g, Expired(g, now))

-----------------------------------------------------------------------------
(* Containers                                                              *)

AddStock(g, p, x, n) == [g EXCEPT !.box[p].stock[x] = @ + n]

AvailableCount(c, item) == c.stock[item] - c.reserved[item]

\* EnsureContainer: a container that is still there gets the new type.
EnsureContainer(g, pos, type) ==
  [g EXCEPT !.box[pos] =
     IF @ # Absent THEN [@ EXCEPT !.type = type]
     ELSE [type |-> type, stock |-> Nothing, reserved |-> Nothing,
           owed |-> [a \in Agents |-> Nothing]]]

RemoveContainer(g, pos) == [g EXCEPT !.box[pos] = Absent]

\* BuildStorageCandidates: those the builder may use, the nearest first and
\* the one with the smaller coordinate before the other.
Candidates(g, usable) == {c \in usable : g.box[c] # Absent /\ g.box[c].type # "FURNACE"}

Around(anchor) ==
  [k \in 1..2 * Width |-> IF k % 2 = 0 THEN anchor - k \div 2 ELSE anchor + k \div 2]

Lesser(m, n) == IF m < n THEN m ELSE n

\* Slip: what is reserved is taken as well.
TakenFromStock(c, item, want) == Lesser(c.stock[item], want)

\* What a container gives of an item of which so much is wanted.
Taken(c, item, want) ==
  IF AvailableCount(c, item) > 0 THEN Lesser(AvailableCount(c, item), want) ELSE 0

\* EnsureBlueprintMaterials, for one item: what a candidate gives.  p.g is the
\* ground, p.inv the inventory of the builder.
Pull(p, item, required, c) ==
  LET n == IF p.inv[item] < required
           THEN Taken(p.g.box[c], item, required - p.inv[item]) ELSE 0
  IN  [g |-> AddStock(p.g, c, item, -n),
       inv |-> [p.inv EXCEPT ![item] = @ + n]]

PullItem(p, item, required, anchor, cands) ==
  Through(LAMBDA q, c : IF c \in cands THEN Pull(q, item, required, c) ELSE q, p, Around(anchor))

EnsureBlueprintMaterials(g, inv, cost, anchor, cands) ==
  Through(LAMBDA p, item : PullItem(p, item, cost[item], anchor, cands),
          [g |-> g, inv |-> inv], ItemOrder)

-----------------------------------------------------------------------------
(* Switches, sensors and wires                                             *)

Beside(p) == {p - 1, p + 1} \cap Cells

HasAvailable(c) == c # Absent /\ \E x \in Items : AvailableCount(c, x) > 0

SensorOn(g, blocks, p) ==
  blocks[p] = "SENSOR" /\ \E q \in Beside(p) \cup {p} : g.at[q] # <<>> \/ HasAvailable(g.box[q])

Signal(g, blocks, switches, p) ==
  \/ blocks[p] = "SWITCH" /\ switches[p] = "ON"
  \/ SensorOn(g, blocks, p)

\* The wires that are joined to q by wires.
Network(blocks, q) ==
  {r \in Cells : \A s \in Cells : (q <= s /\ s <= r) \/ (r <= s /\ s <= q) => blocks[s] = "WIRE"}

\* Enabled: a switch or a sensor beside the belt decides; else the wires
\* beside it do; else the belt runs.
Enabled(g, blocks, switches, p) ==
  LET controls == {q \in Beside(p) : blocks[q] \in {"SWITCH", "SENSOR"}}
      wires == {q \in Beside(p) : blocks[q] = "WIRE"}
  IN  IF controls # {} THEN \E q \in controls : Signal(g, blocks, switches, q)
      ELSE wires = {} \/ \E w \in wires : \E r \in Network(blocks, w) :
             \E q \in Beside(r) : Signal(g, blocks, switches, q)

-----------------------------------------------------------------------------
(* Conveyors: first every entity on a belt moves by one cell or into the   *)
(* container there, then every empty belt pulls one item from the          *)
(* container behind it.                                                    *)

BeltRuns(g, blocks, switches, belts, p) ==
  blocks[p] = "CONVEYOR" /\ belts[p] # Absent /\ Enabled(g, blocks, switches, p)

Passable(blocks, p) == p \in Cells /\ blocks[p] \in {"AIR", "WIRE", "CONVEYOR"}

\* Slip: what is put into a container stays on the belt.
InsertKept(g, i, to) == AddStock(g, to, g.items[i].item, g.items[i].count)

Insert(g, i, to) == RemoveEntity(AddStock(g, to, g.items[i].item, g.items[i].count), i)

Carry(g, blocks, switches, belts, i) ==
  LET p == g.items[i].pos
      to == p + belts[p]
  IN  IF g.items[i] = Absent THEN g
      ELSE IF ~BeltRuns(g, blocks, switches, belts, p) THEN g
      ELSE IF to \in Cells /\ g.box[to] # Absent THEN Insert(g, i, to)
      ELSE IF Passable(blocks, to) THEN Move(g, i, to)
      ELSE g

Offered(c) ==
  {k \in DOMAIN ItemOrder : c.stock[ItemOrder[k]] > 0 /\ AvailableCount(c, ItemOrder[k]) > 0}
PickAvailableItem(c) == ItemOrder[Earliest(Offered(c))]

PullOne(g, blocks, switches, belts, now, p) ==
  LET back == p - belts[p]
      picked == PickAvailableItem(g.box[back])
  IN  IF \/ ~BeltRuns(g, blocks, switches, belts, p) \/ g.at[p] # <<>>
         \/ back \notin Cells
      THEN g
      ELSE IF g.box[back] = Absent THEN g
      ELSE IF Offered(g.box[back]) = {} THEN g
      ELSE Spawn(AddStock(g, back, picked, -1), now, p, picked, 1)

CarryAll(g, blocks, switches, belts) ==
  InOrder(LAMBDA h, i : Carry(h, blocks, switches, belts, i), g, Live(g))
PullAll(g, blocks, switches, belts, now) ==
  Through(LAMBDA h, p : PullOne(h, blocks, switches, belts, now, p), g, [p \in Cells |-> p])
RunConveyors(g, blocks, switches, belts, now) ==
  PullAll(CarryAll(g, blocks, switches, belts), blocks, switches, belts, now)

-----------------------------------------------------------------------------
\* Apply, of a respawn: three tenths of every stack are dropped, at least one
\* item of all.
Tenths(b) == [x \in Items |-> (b[x] * 3) \div 10]

ComputeInventoryLoss(b) ==
  LET held == {k \in DOMAIN ItemOrder : b[ItemOrder[k]] > 0}
  IN  IF Tenths(b) # Nothing \/ held = {} THEN Tenths(b) ELSE Of(ItemOrder[Earliest(held)], 1)

DropAll(g, now, pos, lost) ==
  Through(LAMBDA h, x : IF lost[x] > 0 THEN Spawn(h, now, pos, x, lost[x]) ELSE h, g, ItemOrder)
=============================================================================
