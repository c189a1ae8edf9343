\* Two agents, four cells; three operations within three ticks, 0 to 2.
SPECIFICATION WorkSpec
CONSTANTS
  alice = alice
  bob = bob
  Absent = Absent
  Agents = {alice, bob}
  AgentOrder <- MCOrder
  ItemOrder <- MCItems
  Width = 4
  MaxItems = 4
  TTL = 1
  Requests <- MCRequests
  Layouts <- MCLayouts
  StartStock <- MCStock
  StartKit <- MCKit
  Recipes <- MCRecipes
  Blueprint <- MCBlueprint
  Cost <- MCCost
  MineTicks = 1
  BlocksPerTick = 1
  CleanupEvery = 1
  MaxOps = 3
  MaxTick = 2
CHECK_DEADLOCK FALSE
INVARIANTS ItemsConserved ReservedBacked EntitiesIndexed
