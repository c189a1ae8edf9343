\* Two agents, two organizations, two anchors; three operations after MCInit.
SPECIFICATION MCSpec
CONSTANTS
  alice = alice
  bob = bob
  org = org
  guild = guild
  COAL = COAL
  SHARD = SHARD
  None = None
  Agents = {alice, bob}
  Orgs = {org, guild}
  Items = {COAL, SHARD}
  Rank <- MCRank
  Anchors <- MCAnchors
  MaxLands = 2
  MaxLaws = 2
  MaxTrades = 1
  MaxOps = 3
  DayTicks = 2
  NoticeTicks = 1
  VoteTicks = 1
  WorldType = "CITY_HUB"
  ClaimCost <- MCClaimCost
  MaintenanceCost <- MCMaintenanceCost
  UpgradeCost <- MCUpgradeCost
  Radii = {64}
  Kinds = {"OTHER"}
  Deals <- MCDeals
  Policies <- MCPolicies
  Bills <- MCBills
  Offers <- MCOffers
  Kit <- MCKit
INVARIANTS LandsApart TermsFromLaws  ItemsConserved
PROPERTIES LawsEnd NeglectedOpens
