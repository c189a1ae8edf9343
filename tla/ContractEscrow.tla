--------------------------- MODULE ContractEscrow ---------------------------
(***************************************************************************)
(* Contracts and the terminals that hold their stakes, in one world.       *)
(*                                                                         *)
(* A poster moves the reward into a terminal and reserves it; an acceptor  *)
(* does the same with a deposit.  A contract is settled either by the      *)
(* acceptor's SUBMIT or, at the end of every tick, by tickContracts.  A    *)
(* terminal keeps counts only: what is reserved is not labelled with the   *)
(* contract it belongs to, and the same counts are used by everything else *)
(* that puts items into a container or takes them out.                     *)
(*                                                                         *)
(* One tick runs the stages of stepInternal in their order.  Distances,    *)
(* permissions and the progress of a task are free choices here: where     *)
(* they refuse, nothing changes.  Reputation is kept only as the deposit   *)
(* multiplier it leads to, a free choice too.                              *)
(***************************************************************************)
EXTENDS Naturals, FiniteSets

CONSTANTS
  Agents,        \* agent ids that play in this world
  Terminals,     \* positions of contract terminals
  Items,         \* item ids
  MaxContracts,  \* bound on the contracts ever posted
  Rewards, Requirements, Deposits,  \* item maps that requests carry
  Counts,        \* counts that TRANSFER tasks carry
  StarterKit,    \* inventory of a fresh agent
  MaxTick,       \* the clock stands still here; deadlines lie before
  MaxSeasons,    \* bound on season rollovers
  None           \* "no value"

\* A Go map from items to counts; an absent key counts zero.
Bundles == [Items -> Nat]

Nothing == [x \in Items |-> 0]

ASSUME BundlesAssumption ==
  /\ Rewards \subseteq Bundles /\ Requirements \subseteq Bundles
  /\ Deposits \subseteq Bundles /\ StarterKit \in Bundles
  /\ Counts \subseteq Nat
ASSUME RewardsAssumption == Nothing \notin Rewards  \* ValidatePostInput
ASSUME FiniteAssumption == IsFiniteSet(Agents) /\ IsFiniteSet(Terminals)
ASSUME BoundsAssumption ==
  MaxContracts \in Nat /\ MaxTick \in Nat \ {0} /\ MaxSeasons \in Nat

Ids == 1..MaxContracts

Contract ==
  [state : {"OPEN", "ACCEPTED", "COMPLETED", "FAILED"},
   kind : {"DELIVER", "BUILD"}, terminal : Terminals,
   poster : Agents, acceptor : Agents \cup {None},
   requirements : Bundles, reward : Bundles, deposit : Bundles,
   deadline : 0..MaxTick - 1]

ASSUME NoneAssumption == None \notin Agents \cup Contract

VARIABLES
  phase,      \* the stage of stepInternal under way
  tick,       \* World.tick
  todo,       \* the contracts tickContracts has not visited yet
  contracts,  \* World.contracts
  posted,     \* World.nextContractNum
  exists,     \* World.containers: the positions that have a terminal
  stock,      \* Container.Inventory
  reserved,   \* Container.Reserved
  owed,       \* Container.Owed
  inventory,  \* Agent.Inventory, also while the agent is in another world
  present,    \* World.agents
  season      \* season rollovers so far

clock == <<phase, tick, todo, season>>
books == <<contracts, stock, reserved, owed, inventory>>
vars == <<clock, books, posted, exists, present>>

TypeOK ==
  /\ phase \in {"boundary", "acts", "work", "contracts"}
  /\ tick \in 0..MaxTick
  /\ todo \subseteq Ids
  /\ contracts \in [Ids -> Contract \cup {None}]
  /\ posted \in 0..MaxContracts
  /\ exists \subseteq Terminals
  /\ stock \in [Terminals -> Bundles]
  /\ reserved \in [Terminals -> Bundles]
  /\ owed \in [Terminals -> [Agents -> Bundles]]
  /\ inventory \in [Agents -> Bundles]
  /\ present \subseteq Agents
  /\ season \in 0..MaxSeasons

Init ==
  /\ phase = "boundary" /\ tick = 0 /\ todo = {} /\ season = 0
  /\ contracts = [c \in Ids |-> None]
  /\ posted = 0
  /\ exists = {}
  /\ stock = [t \in Terminals |-> Nothing]
  /\ reserved = [t \in Terminals |-> Nothing]
  /\ owed = [t \in Terminals |-> [a \in Agents |-> Nothing]]
  /\ inventory = [a \in Agents |-> StarterKit]
  /\ present = Agents

-----------------------------------------------------------------------------
(* Item maps                                                               *)

Plus(b, d) == [x \in Items |-> b[x] + d[x]]

\* A count that would fall to zero or below is deleted from the map.
Minus(b, d) == [x \in Items |-> IF d[x] < b[x] THEN b[x] - d[x] ELSE 0]

Has(b, d) == \A x \in Items : b[x] >= d[x]

\* AvailableCount: of a container that holds b and reserves r of it, d can be
\* had.
Available(b, r, d) == \A x \in Items : d[x] > 0 => b[x] >= r[x] + d[x]

Times(k, d) == [x \in Items |-> k * d[x]]

One(x, n) == [y \in Items |-> IF y = x THEN n ELSE 0]

\* The books of the world, as one value that a settlement changes.
Books == [contracts |-> contracts, stock |-> stock, reserved |-> reserved,
          owed |-> owed, inventory |-> inventory]

-----------------------------------------------------------------------------
(* ACTs: POST_CONTRACT, ACCEPT_CONTRACT, SUBMIT_CONTRACT, CLAIM_OWED       *)

Is(c, state) == contracts[c] # None /\ contracts[c].state = state

Live(c) == Is(c, "OPEN") \/ Is(c, "ACCEPTED")

Late(c) == tick > contracts[c].deadline

\* a puts a stake into terminal t, which reserves it.
Stake(a, t, d) ==
  /\ Has(inventory[a], d)
  /\ inventory' = [inventory EXCEPT ![a] = Minus(@, d)]
  /\ stock' = [stock EXCEPT ![t] = Plus(@, d)]
  /\ reserved' = [reserved EXCEPT ![t] = Plus(@, d)]

\* An explicit deadline may lie in the past.
HandlePostContract(a, t, kind, requirements, reward, deposit, deadline) ==
  /\ phase = "acts" /\ a \in present /\ t \in exists
  /\ posted < MaxContracts  \* bound
  /\ kind # "BUILD" => requirements # Nothing
  /\ Stake(a, t, reward)
  /\ posted' = posted + 1
  /\ contracts' = [contracts EXCEPT ![posted + 1] =
       [state |-> "OPEN", kind |-> kind, terminal |-> t, poster |-> a,
        acceptor |-> None, requirements |-> requirements, reward |-> reward,
        deposit |-> deposit, deadline |-> deadline]]
  /\ UNCHANGED <<clock, owed, exists, present>>

\* DepositMultiplier of a RepTrade of 500 or more, of 300 or more, of less.
Multipliers == 1..3

HandleAcceptContract(a, c, k) ==
  /\ phase = "acts" /\ a \in present
  /\ Is(c, "OPEN") /\ ~Late(c)
  /\ contracts[c].terminal \in exists
  /\ LET deposit == Times(k, contracts[c].deposit) IN
       /\ Stake(a, contracts[c].terminal, deposit)
       /\ contracts' = [contracts EXCEPT ![c].state = "ACCEPTED",
                                         ![c].acceptor = a,
                                         ![c].deposit = deposit]
  /\ UNCHANGED <<clock, posted, owed, exists, present>>

\* The requirements lie in the terminal, or the blueprint stands.
Met(b, c, built) ==
  LET k == b.contracts[c] IN
  IF k.kind = "BUILD" THEN built
  ELSE Available(b.stock[k.terminal], b.reserved[k.terminal], k.requirements)

\* Slip: the requirements are checked, not consumed.
DueNothing(k) == Nothing

\* What the terminal hands over to the poster of contract k.
Due(k) == IF k.kind = "BUILD" THEN Nothing ELSE k.requirements

\* What a contract under way holds in its terminal.
Stakes(k) ==
  IF k.state = "ACCEPTED" THEN Plus(k.reward, k.deposit) ELSE k.reward

\* Requirements become a debt to the poster, whether present or not.
HandleSubmitContract(a, c, built) ==
  LET k == contracts[c]
      t == k.terminal IN
  /\ phase = "acts" /\ a \in present
  /\ Is(c, "ACCEPTED") /\ k.acceptor = a /\ ~Late(c)
  /\ t \in exists
  /\ Met(Books, c, built)
  /\ stock' = [stock EXCEPT ![t] = Minus(Minus(@, Due(k)), Stakes(k))]
  /\ reserved' = [reserved EXCEPT ![t] = Minus(@, Stakes(k))]
  /\ owed' = [owed EXCEPT ![t][k.poster] = Plus(@, Due(k))]
  /\ inventory' = [inventory EXCEPT ![a] = Plus(@, Stakes(k))]
  /\ contracts' = [contracts EXCEPT ![c].state = "COMPLETED"]
  /\ UNCHANGED <<clock, posted, exists, present>>

\* Slip: the debt is paid and kept.
StillOwed(t, a) == owed

DebtsWithout(t, a) == [owed EXCEPT ![t][a] = Nothing]

HandleClaimOwed(a, t) ==
  /\ phase = "acts" /\ a \in present /\ t \in exists
  /\ owed[t][a] # Nothing
  /\ inventory' = [inventory EXCEPT ![a] = Plus(@, owed[t][a])]
  /\ owed' = DebtsWithout(t, a)
  /\ UNCHANGED <<clock, contracts, posted, exists, stock, reserved, present>>

-----------------------------------------------------------------------------
(* Work tasks that touch terminals                                         *)

\* Placing a CONTRACT_TERMINAL block.
EnsureContainer(t) ==
  /\ phase = "work" /\ t \notin exists
  /\ exists' = exists \cup {t}
  /\ UNCHANGED <<clock, books, posted, present>>

\* TRANSFER from the agent; conveyors insert likewise.
TransferIn(a, t, d) ==
  /\ phase = "work" /\ a \in present /\ t \in exists
  /\ Has(inventory[a], d)
  /\ inventory' = [inventory EXCEPT ![a] = Minus(@, d)]
  /\ stock' = [stock EXCEPT ![t] = Plus(@, d)]
  /\ UNCHANGED <<clock, contracts, posted, exists, reserved, owed, present>>

\* TRANSFER to the agent; blueprint pulls and conveyors take likewise.
TransferOut(a, t, d) ==
  /\ phase = "work" /\ a \in present /\ t \in exists
  /\ Available(stock[t], reserved[t], d)
  /\ stock' = [stock EXCEPT ![t] = Minus(@, d)]
  /\ inventory' = [inventory EXCEPT ![a] = Plus(@, d)]
  /\ UNCHANGED <<clock, contracts, posted, exists, reserved, owed, present>>

\* Slip: MINE does not look at what is reserved.
MineableAlways(t) == t \in exists

Mineable(t) == t \in exists /\ reserved[t] = Nothing

\* MINE breaks the terminal: the miner gets what it holds and what it owes to
\* the miner; what it owes to others goes with it.
TickMine(a, t) ==
  /\ phase = "work" /\ a \in present
  /\ Mineable(t)
  /\ inventory' = [inventory EXCEPT ![a] = Plus(Plus(@, stock[t]), owed[t][a])]
  /\ exists' = exists \ {t}
  /\ stock' = [stock EXCEPT ![t] = Nothing]
  /\ reserved' = [reserved EXCEPT ![t] = Nothing]
  /\ owed' = [owed EXCEPT ![t] = [b \in Agents |-> Nothing]]
  /\ UNCHANGED <<clock, contracts, posted, present>>

-----------------------------------------------------------------------------
(* tickContracts                                                           *)

\* Slip: the stake stays reserved.
PaidReserved(b, t, d, release, a) ==
  [b EXCEPT !.stock[t] = Minus(@, d),
            !.inventory[a] = IF a \in present THEN Plus(@, d) ELSE @,
            !.owed[t][a] = IF a \in present THEN @ ELSE Plus(@, d)]

\* Terminal t pays d to a, or owes it to an agent who is not in this world,
\* and gives up the reservation of `release`.
Paid(b, t, d, release, a) ==
  [b EXCEPT !.stock[t] = Minus(@, d),
            !.reserved[t] = Minus(@, release),
            !.inventory[a] = IF a \in present THEN Plus(@, d) ELSE @,
            !.owed[t][a] = IF a \in present THEN @ ELSE Plus(@, d)]

Closed(b, c, state) == [b EXCEPT !.contracts[c].state = state]

\* Slip: only an open contract is looked at when its deadline has passed.
DecisionKeepsAccepted(b, c, built) ==
  LET k == b.contracts[c] IN
  IF k.terminal \notin exists THEN "missing"
  ELSE IF tick > k.deadline /\ k.state = "OPEN" THEN "expire"
  ELSE IF k.state = "ACCEPTED" /\ Met(b, c, built) THEN "complete" ELSE "noop"

\* DecideTick for a contract under way.
Decision(b, c, built) ==
  LET k == b.contracts[c] IN
  IF k.terminal \notin exists THEN "missing"
  ELSE IF tick > k.deadline
       THEN IF k.state = "OPEN" THEN "expire" ELSE "timeout"
  ELSE IF k.state = "ACCEPTED" /\ Met(b, c, built) THEN "complete" ELSE "noop"

\* PlanSettlement: the books after decision d about contract c.
Settled(b, c, d) ==
  LET k == b.contracts[c]
      t == k.terminal
      refunded == Paid(b, t, Stakes(k), Stakes(k), k.poster)
      delivered == Paid(b, t, Due(k), Nothing, k.poster) IN
  CASE d = "noop" -> b
    [] d = "missing" -> Closed(b, c, "FAILED")
    [] d \in {"expire", "timeout"} -> Closed(refunded, c, "FAILED")
    [] d = "complete" ->
         Closed(Paid(delivered, t, Stakes(k), Stakes(k), k.acceptor), c,
                "COMPLETED")

\* One iteration; a Go map is iterated in any order.
TickContract(c, built) ==
  LET b == Settled(Books, c, Decision(Books, c, built)) IN
  /\ phase = "contracts" /\ c \in todo
  /\ todo' = todo \ {c}
  /\ contracts' = b.contracts
  /\ stock' = b.stock
  /\ reserved' = b.reserved
  /\ owed' = b.owed
  /\ inventory' = b.inventory
  /\ UNCHANGED <<phase, tick, season, posted, exists, present>>

-----------------------------------------------------------------------------
(* stepInternal, agents that change worlds, and season rollover            *)

\* The stages of one tick.
Stages ==
  \/ /\ phase = "boundary" /\ phase' = "acts" /\ UNCHANGED <<tick, todo>>
  \/ /\ phase = "acts" /\ phase' = "work" /\ UNCHANGED <<tick, todo>>
  \/ /\ phase = "work" /\ phase' = "contracts"
     /\ todo' = {c \in Ids : Live(c)}
     /\ UNCHANGED tick
  \/ /\ phase = "contracts" /\ todo = {} /\ phase' = "boundary"
     /\ tick' = IF tick < MaxTick THEN tick + 1 ELSE tick
     /\ UNCHANGED todo

Step == Stages /\ UNCHANGED <<season, books, posted, exists, present>>

\* A transfer out or in; the inventory travels with the agent.
Travel(a) ==
  /\ phase = "boundary"
  /\ present' = IF a \in present THEN present \ {a} ELSE present \cup {a}
  /\ UNCHANGED <<clock, books, posted, exists>>

\* resetWorldForNewSeason: containers and contracts go, contract numbers go on.
SeasonRollover ==
  /\ phase = "boundary" /\ season < MaxSeasons
  /\ season' = season + 1
  /\ contracts' = [c \in Ids |-> None]
  /\ exists' = {}
  /\ stock' = [t \in Terminals |-> Nothing]
  /\ reserved' = [t \in Terminals |-> Nothing]
  /\ owed' = [t \in Terminals |-> [a \in Agents |-> Nothing]]
  /\ inventory' = [a \in Agents |->
                     IF a \in present THEN StarterKit ELSE inventory[a]]
  /\ UNCHANGED <<phase, tick, todo, posted, present>>

Act(a) ==
  \/ \E t \in Terminals, q \in Requirements, r \in Rewards, d \in Deposits,
        kind \in {"DELIVER", "BUILD"}, deadline \in 0..MaxTick - 1 :
       HandlePostContract(a, t, kind, q, r, d, deadline)
  \/ \E c \in Ids, k \in Multipliers : HandleAcceptContract(a, c, k)
  \/ \E c \in Ids, built \in BOOLEAN : HandleSubmitContract(a, c, built)
  \/ \E t \in Terminals : HandleClaimOwed(a, t)

Work(a) ==
  \/ \E t \in Terminals, x \in Items, n \in Counts :
       TransferIn(a, t, One(x, n)) \/ TransferOut(a, t, One(x, n))
  \/ \E t \in Terminals : TickMine(a, t)

Next ==
  \/ \E a \in Agents : Act(a) \/ Work(a) \/ Travel(a)
  \/ \E t \in Terminals : EnsureContainer(t)
  \/ \E c \in Ids, built \in BOOLEAN : TickContract(c, built)
  \/ Step
  \/ SeasonRollover

Spec == Init /\ [][Next]_vars

\* The loop of a world goes on from stage to stage and from tick to tick.
FairSpec ==
  /\ Spec
  /\ WF_vars(Step)
  /\ WF_vars(\E c \in Ids, built \in BOOLEAN : TickContract(c, built))

-----------------------------------------------------------------------------
(* Properties                                                              *)

\* The sum of f over S, as the number of pairs of an s and one of its units.
Units(S, f) == UNION {{s} \X (1..f[s]) : s \in S}

Total(S, f) == Cardinality(Units(S, f))

\* The items x that the contracts under way have in terminal t.
Held(t, x) ==
  [c \in Ids |-> IF Live(c) /\ contracts[c].terminal = t
                 THEN Stakes(contracts[c])[x] ELSE 0]

\* A terminal reserves exactly the stakes of the contracts under way there, and
\* holds them: whoever else takes items out of it, every stake can be paid.
EscrowBacked ==
  \A t \in Terminals, x \in Items :
    /\ reserved[t][x] = Total(Ids, Held(t, x))
    /\ reserved[t][x] <= stock[t][x]

\* No contract under way loses its terminal: FAIL_MISSING_TERMINAL, which
\* refunds nobody, is never decided.
LiveHasTerminal ==
  \A c \in Ids : Live(c) => contracts[c].terminal \in exists

\* All the items x there are.
Worth(x) ==
  Total(Agents, [a \in Agents |-> inventory[a][x]])
  + Total(Terminals, [t \in Terminals |-> stock[t][x]])
  + Total(Terminals \X Agents, [u \in Terminals \X Agents |-> owed[u[1]][u[2]][x]])

\* No step of a season makes items, and none destroys items but the removal of
\* a terminal.
ItemsConserved ==
  [][season' = season =>
       \A x \in Items :
         /\ Worth(x)' <= Worth(x)
         /\ exists \subseteq exists' => Worth(x)' = Worth(x)]_vars

\* What agent a owns of item x, in the inventory and in debts to be claimed.
Owns(a, x) ==
  inventory[a][x] + Total(Terminals, [t \in Terminals |-> owed[t][a][x]])

\* What a contract asked the acceptor to deliver.
Asked(k) == IF k.kind = "DELIVER" THEN k.requirements ELSE Nothing

\* What a settlement of contract k gives to agent a.
Share(k, a, completed) ==
  LET staked == IF k.acceptor = None THEN k.reward ELSE Plus(k.reward, k.deposit) IN
  Plus(IF a # k.poster THEN Nothing ELSE IF completed THEN Asked(k) ELSE staked,
       IF completed /\ a = k.acceptor THEN staked ELSE Nothing)

\* A contract ends once, in favour of the right agents, wherever they are: in
\* time, the poster gets what the contract asked for and the acceptor the
\* reward and the deposit; too late, the poster gets both.
FairSettlement ==
  [][\A c \in Ids :
       Live(c) /\ ~Live(c)' /\ season' = season =>
         LET completed == Is(c, "COMPLETED")' IN
         /\ completed = ~Late(c)
         /\ \A a \in Agents, x \in Items :
              Owns(a, x)' = Owns(a, x) + Share(contracts[c], a, completed)[x]]_vars

\* Every contract ends: it is settled by its deadline or refunded after it.
ContractsEnd == \A c \in Ids : Live(c) ~> ~Live(c)

-----------------------------------------------------------------------------
(* Claims of documents that the code does not live up to                   *)

\* "All writes happen in the world loop, which guarantees determinism": the
\* outcome of tickContracts does not depend on the order of a map.
After(b, c) == Settled(b, c, Decision(b, c, FALSE))

OrderIrrelevant ==
  phase = "contracts" =>
    \A c, d \in todo :
      c # d => After(After(Books, c), d) = After(After(Books, d), c)
=============================================================================
