SPECIFICATION FairSpec
CONSTANTS
  Agents = {A1, A2}
  A1 = A1
  A2 = A2
  Terminals = {T1}
  T1 = T1
  gold = gold
  Items = {gold}
  MaxContracts = 2
  Rewards <- OneGold
  Requirements <- OneGold
  Deposits <- NoneOrOneGold
  Counts = {1}
  StarterKit <- AGoldEach
  MaxTick = 2
  MaxSeasons = 1
  None = None
INVARIANTS EscrowBacked LiveHasTerminal
PROPERTIES ItemsConserved FairSettlement ContractsEnd
