\* Two worlds, two agents; three acts or switches and one fault.
SPECIFICATION Spec
CONSTANTS
  city = city
  wild = wild
  alice = alice
  bob = bob
  ticker = ticker
  None = None
  WorldOrder <- MCWorlds
  AgentOrder <- MCAgents
  Founding = {city}
  Refreshers = {ticker}
  MaxOrgs = 2
  MaxOps = 3
  MaxFaults = 1
INVARIANTS AgentsBacked RefreshAgrees FileCurrent
