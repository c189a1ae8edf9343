---------------------------- MODULE Governance ----------------------------
(***************************************************************************)
(* Land, laws, organizations and trade in one world.                       *)
(*                                                                         *)
(* A claim is a square of land with an owner, an agent or an organization. *)
(* Everything that is built, broken or traded asks the claim it happens    *)
(* on, everything the owner earns or owes goes to an inventory or to a     *)
(* treasury, and the two change while claims change hands, agents travel   *)
(* to other worlds, organizations dissolve and laws are voted.             *)
(*                                                                         *)
(* A step of the world is the boundary, where agents come and go, the      *)
(* maintenance, one claim after the other, the acts of the agents, and the *)
(* laws.  Deadlines are kept as the ticks that remain.  Where an agent     *)
(* stands is a choice of the operation that asks for it; rate limits,      *)
(* which only refuse, are left out.                                        *)
(***************************************************************************)
EXTENDS LandLaw

CONSTANTS
  Agents, Rank,     \* agent ids and their order as strings
  Orgs,             \* organization ids
  Anchors,          \* positions where somebody may put a totem
  MaxLands, MaxLaws, MaxTrades,  \* bounds on the claims, laws, trades ever made
  MaxOps,           \* bound on the operations of agents
  DayTicks, NoticeTicks, VoteTicks,
  WorldType,
  ClaimCost, MaintenanceCost,
  UpgradeCost(_, _),  \* the price of growing from one radius to another
  Radii,            \* radii that requests carry
  Policies,         \* policies that requests carry
  Bills,            \* laws that requests propose: template and parameters
  Kinds,            \* blocks that agents place at anchors
  Deals,            \* trades that are offered
  Offers,           \* item maps that deposits and withdrawals carry
  Kit               \* the inventory of an agent at first

LandIds == 1..MaxLands
LawIds == 1..MaxLaws
TradeIds == 1..MaxTrades
Owners == Agents \cup Orgs

ASSUME GovernanceAssumption ==
  /\ Agents \cap Orgs = {} /\ None \notin Owners
  /\ Rank \in [Agents -> Nat]
  /\ \A a, b \in Agents : Rank[a] = Rank[b] => a = b
  /\ IsFiniteSet(Agents) /\ IsFiniteSet(Orgs)
  /\ Anchors \subseteq Positions
  /\ MaxLands \in Nat /\ MaxLaws \in Nat /\ MaxTrades \in Nat
  /\ MaxOps \in Nat
  /\ DayTicks \in Nat \ {0} /\ NoticeTicks \in Nat /\ VoteTicks \in Nat
  /\ ClaimCost \in Bundles /\ MaintenanceCost \in Bundles
  /\ \A r \in 1..128, s \in {64, 128} : UpgradeCost(r, s) \in Bundles
  /\ Radii \subseteq Int
  /\ Policies \subseteq [grant : SUBSET Rights, deny : SUBSET Rights]
  /\ Bills \subseteq [template : Templates, params : Params]
  /\ \A b \in Bills : b.template \in {"FINE_BREAK_PER_BLOCK", "ACCESS_PASS_CORE"}
                        => b.params.item \in Items
  /\ Kinds \subseteq {"CLAIM_TOTEM", "OTHER"}
  /\ Deals \subseteq [offer : Bundles \ {Nothing}, request : Bundles \ {Nothing}]
  /\ Offers \subseteq Bundles \ {Nothing} /\ Kit \in Bundles

\* LandClaim
Land ==
  [owner : Owners, anchor : Anchors, radius : 1..128,
   flags : SUBSET Rights, members : SUBSET Agents,
   terms : [Templates -> Params], stage : 0..2, due : 0..DayTicks]

\* Law
Law ==
  [land : LandIds, template : Templates, params : Params,
   status : {"NOTICE", "VOTING", "ACTIVE", "REJECTED"},
   notice : 0..NoticeTicks, vote : 0..NoticeTicks + VoteTicks,
   votes : [Agents -> {"YES", "NO", "ABSTAIN", ""}]]

\* Trade
Trade == [from : Agents, to : Agents, offer : Bundles, request : Bundles]

ASSUME NoneAssumption == None \notin Land \cup Law \cup Trade

Roles == {"LEADER", "MEMBER", ""}

VARIABLES
  phase,     \* the stage of stepInternal under way
  clock,     \* World.tick, within a day
  ops,       \* operations of agents so far
  here,      \* World.agents
  inventory, \* Agent.Inventory, also while the agent is in another world
  orgOf,     \* Agent.OrgID, of an agent who is away as it was
  founded,   \* the organization ids ever given out
  orgs,      \* World.orgs
  roles,     \* Organization.Members, "" for an agent who is none
  elsewhere, \* history: organizations that other worlds had a hand in
  treasury,  \* Organization.TreasuryFor(world)
  lands,     \* World.claims, None for an id without one
  landNum,   \* World.nextLandNum
  laws,      \* World.laws
  lawNum,    \* World.nextLawNum
  trades,    \* World.trades
  tradeNum,  \* World.nextTradeNum
  block,     \* the blocks at the anchors
  spent      \* what was paid as a price, or to nobody

people == <<here, orgOf, founded, orgs, roles, elsewhere>>
goods == <<inventory, treasury, spent>>
ground == <<lands, landNum, block>>
statutes == <<laws, lawNum>>
market == <<trades, tradeNum>>
vars == <<phase, clock, ops, people, goods, ground, statutes, market>>

TypeOK ==
  /\ phase \in {"boundary", "maintenance", "acts"}
  /\ clock \in 0..DayTicks - 1
  /\ ops \in 0..MaxOps
  /\ here \subseteq Agents
  /\ inventory \in [Agents -> Bundles]
  /\ orgOf \in [Agents -> Orgs \cup {None}]
  /\ founded \subseteq Orgs /\ orgs \subseteq founded /\ elsewhere \subseteq founded
  /\ roles \in [Orgs -> [Agents -> Roles]]
  /\ treasury \in [Orgs -> Bundles]
  /\ lands \in [LandIds -> Land \cup {None}]
  /\ landNum \in 0..MaxLands
  /\ laws \in [LawIds -> Law \cup {None}]
  /\ lawNum \in 0..MaxLaws
  /\ trades \in [TradeIds -> Trade \cup {None}]
  /\ tradeNum \in 0..MaxTrades
  /\ block \in [Anchors -> {"AIR", "CLAIM_TOTEM", "OTHER"}]
  /\ spent \in Bundles

Init ==
  /\ phase = "boundary" /\ clock = 0 /\ ops = 0
  /\ here = Agents
  /\ inventory = [a \in Agents |-> Kit]
  /\ orgOf = [a \in Agents |-> None]
  /\ founded = {} /\ orgs = {} /\ elsewhere = {}
  /\ roles = [o \in Orgs |-> [a \in Agents |-> ""]]
  /\ treasury = [o \in Orgs |-> Nothing]
  /\ lands = [l \in LandIds |-> None] /\ landNum = 0
  /\ laws = [w \in LawIds |-> None] /\ lawNum = 0
  /\ trades = [t \in TradeIds |-> None] /\ tradeNum = 0
  /\ block = [p \in Anchors |-> "AIR"]
  /\ spent = Nothing

-----------------------------------------------------------------------------
(* Membership and permissions                                              *)

Live == {l \in LandIds : lands[l] # None}

Members(o) == {a \in Agents : roles[o][a] # ""}

IsOrgMember(a, o) == o \in orgs /\ roles[o][a] # ""

\* No code makes an officer.
IsOrgAdmin(a, o) == o \in orgs /\ roles[o][a] = "LEADER"

IsLandAdmin(a, l) == lands[l].owner = a \/ IsOrgAdmin(a, lands[l].owner)

IsLandMember(a, l) ==
  \/ lands[l].owner = a
  \/ a \in lands[l].members
  \/ IsOrgMember(a, lands[l].owner)

\* LandAt: the first claim of a map that contains the position, whichever the
\* iteration meets first.
LandAt(p) ==
  LET around == {l \in Live : Contains(lands[l], p)}
  IN  IF around = {} THEN {None} ELSE around

\* permissionsFor, on the land l or in the wild.
PermissionsFor(a, l) ==
  IF l = None THEN WildPermissions
  ELSE ForLand(IsLandMember(a, l), lands[l].stage, lands[l].flags)

Curfew(l) == lands[l].terms["CURFEW_NO_BUILD"]

CurfewNow(l) ==
  l # None /\ Curfew(l) # Off /\ InWindow(clock, Curfew(l).a, Curfew(l).b)

CanBuildAt(a, l) == "build" \in PermissionsFor(a, l) /\ ~CurfewNow(l)

CanBreakAt(a, l) == "break" \in PermissionsFor(a, l) /\ ~CurfewNow(l)

OwnerExists(o) == o \in here \cup orgs

-----------------------------------------------------------------------------
(* Goods: where an amount goes that is paid to the owner of a land         *)

Goods == [inventory |-> inventory, treasury |-> treasury, spent |-> spent]

SetGoods(g) ==
  /\ inventory' = g.inventory /\ treasury' = g.treasury /\ spent' = g.spent

Take(g, a, b) == [g EXCEPT !.inventory[a] = Minus(@, b)]
Give(g, a, b) == [g EXCEPT !.inventory[a] = Plus(@, b)]
Spend(g, b) == [g EXCEPT !.spent = Plus(@, b)]

\* TransferToLandOwner, TransferAccessTicket, the sink of ResolveTradeTax: an
\* owner who is not in this world gets nothing, and the payer pays.
PayOwner(g, o, b) ==
  IF o \in here THEN Give(g, o, b)
  ELSE IF o \in orgs THEN [g EXCEPT !.treasury[o] = Plus(@, b)]
  ELSE Spend(g, b)

\* PayMaintenance: the treasury of an organization, or the inventory of an
\* agent who is in this world.
CanPay(o) ==
  \/ o \in orgs /\ HasItems(treasury[o], MaintenanceCost)
  \/ o \in here /\ HasItems(inventory[o], MaintenanceCost)

PayMaintenance(o) ==
  Spend(IF o \in orgs THEN [Goods EXCEPT !.treasury[o] = Minus(@, MaintenanceCost)]
        ELSE Take(Goods, o, MaintenanceCost), MaintenanceCost)

Draw(g, a, b) == [g EXCEPT !.inventory[a] = [x \in Items |-> @[x] - b[x]]]

\* Slip: the tax is handed to the owner and to the other agent.
TransferUntaxed(g, from, to, b, rate, owner) ==
  LET moved == Give(Draw(g, from, b), to, b)
  IN  IF rate = 0 THEN moved ELSE PayOwner(moved, owner, CalcTax(b, rate))

\* ApplyTransferWithTax: b goes from one agent to another, the tax to the owner.
\* A plain subtraction: between the legs of a trade with oneself a count may be
\* below zero.
TransferWithTax(g, from, to, b, rate, owner) ==
  LET tax == CalcTax(b, rate)
      moved == Give(Draw(g, from, b), to, Minus(b, tax))
  IN  IF rate = 0 THEN moved ELSE PayOwner(moved, owner, tax)

-----------------------------------------------------------------------------
(* Claims                                                                  *)

\* applyInstant, applyTaskReq: an agent of this world asks for something.
Asks(a) ==
  /\ phase = "acts" /\ ops < MaxOps /\ a \in here
  /\ ops' = ops + 1
  /\ UNCHANGED <<phase, clock>>

Act(a) == Asks(a) /\ UNCHANGED people

NewLand(a, p, r) ==
  [owner |-> a, anchor |-> p, radius |-> r, flags |-> DefaultFlags(WorldType),
   members |-> {}, terms |-> [t \in Templates |-> Off], stage |-> 0,
   due |-> DayTicks]

\* HandleTaskClaimLand
ClaimLand(a, p, asked) ==
  LET r == ClampRadius(asked)
  IN  /\ Act(a) /\ landNum < MaxLands
      /\ \E l \in LandAt(p) : CanBuildAt(a, l)
      /\ HasItems(inventory[a], ClaimCost)
      /\ \A l \in Live : ~Overlaps(p, r, lands[l])
      /\ block[p] = "AIR"
      /\ SetGoods(Spend(Take(Goods, a, ClaimCost), ClaimCost))
      /\ block' = [block EXCEPT ![p] = "CLAIM_TOTEM"]
      /\ landNum' = landNum + 1
      /\ lands' = [lands EXCEPT ![landNum + 1] = NewLand(a, p, r)]
      /\ UNCHANGED <<statutes, market>>

\* ValidateLandAdmin
Administers(a, l) == l \in Live /\ IsLandAdmin(a, l)

SetLand(a, l, land) ==
  /\ Act(a) /\ Administers(a, l)
  /\ lands' = [lands EXCEPT ![l] = land]
  /\ UNCHANGED <<goods, landNum, block, statutes, market>>

\* HandleSetPermissions
SetPermissions(a, l, policy) ==
  SetLand(a, l, [lands[l] EXCEPT !.flags = ApplyPolicyFlags(@, policy)])

\* HandleAddMember: any agent id is taken.
AddMember(a, l, b) == SetLand(a, l, [lands[l] EXCEPT !.members = @ \cup {b}])

\* HandleRemoveMember
RemoveMember(a, l, b) == SetLand(a, l, [lands[l] EXCEPT !.members = @ \ {b}])

\* HandleDeedLand
DeedLand(a, l, owner) ==
  OwnerExists(owner) /\ SetLand(a, l, [lands[l] EXCEPT !.owner = owner])

\* HandleUpgradeClaim
UpgradeClaim(a, l, r) ==
  LET cost == UpgradeCost(lands[l].radius, r)
  IN  /\ Act(a) /\ Administers(a, l)
      /\ lands[l].stage = 0
      /\ ValidateUpgradeRadius(lands[l].radius, r)
      /\ block[lands[l].anchor] = "CLAIM_TOTEM"
      /\ HasItems(inventory[a], cost)
      /\ \A k \in Live \ {l} : ~UpgradeOverlaps(lands[l].anchor, r, lands[k])
      /\ SetGoods(Spend(Take(Goods, a, cost), cost))
      /\ lands' = [lands EXCEPT ![l].radius = r]
      /\ UNCHANGED <<landNum, block, statutes, market>>

-----------------------------------------------------------------------------
(* Blocks at the anchors                                                   *)

\* The smallest claim whose anchor is p, if there is one.
ClaimOf(p) == {l \in Live : /\ lands[l].anchor = p
                            /\ \A k \in Live : lands[k].anchor = p => l <= k}

\* removeClaimByAnchor: the claim goes, and the laws bound to it.
RemoveClaimByAnchor(p) ==
  /\ lands' = [l \in LandIds |-> IF l \in ClaimOf(p) THEN None ELSE lands[l]]
  /\ laws' = [w \in LawIds |->
                IF laws[w] # None /\ laws[w].land \in ClaimOf(p) THEN None
                ELSE laws[w]]

\* TickMine, when it is allowed and the last stroke falls.
BreakBlock(a, p) ==
  /\ Act(a)
  /\ \E l \in LandAt(p) : CanBreakAt(a, l)
  /\ block[p] # "AIR"
  /\ block' = [block EXCEPT ![p] = "AIR"]
  /\ IF block[p] = "CLAIM_TOTEM" THEN RemoveClaimByAnchor(p)
     ELSE UNCHANGED <<lands, laws>>
  /\ UNCHANGED <<goods, landNum, lawNum, market>>

Fine(l) == lands[l].terms["FINE_BREAK_PER_BLOCK"]

AtMost(n, m) == IF n < m THEN n ELSE m

\* TickMine, when it is denied: a land may fine the attempt.
BreakDenied(a, l) ==
  /\ Act(a) /\ l \in Live
  /\ ~CanBreakAt(a, l)
  /\ ~IsLandMember(a, l) /\ "break" \notin PermissionsFor(a, l)
  /\ Fine(l).a > 0
  /\ LET x == Fine(l).item
         pay == Of(x, AtMost(Fine(l).a, inventory[a][x]))
     IN  SetGoods(PayOwner(Take(Goods, a, pay), lands[l].owner, pay))
  /\ UNCHANGED <<ground, statutes, market>>

\* TickPlace at an anchor: a totem that is placed makes no claim.
PlaceBlock(a, p, kind) ==
  /\ Act(a)
  /\ \E l \in LandAt(p) : CanBuildAt(a, l)
  /\ block[p] = "AIR"
  /\ block' = [block EXCEPT ![p] = kind]
  /\ UNCHANGED <<goods, lands, landNum, statutes, market>>

\* A director event builds over whatever it finds and asks nobody.
Overwrite(p) ==
  /\ phase = "acts" /\ ops < MaxOps /\ ops' = ops + 1
  /\ block[p] # "OTHER"
  /\ block' = [block EXCEPT ![p] = "OTHER"]
  /\ UNCHANGED <<phase, clock, people, goods, lands, landNum, statutes, market>>

Pass(l) == lands[l].terms["ACCESS_PASS_CORE"]

\* RunMovementSystem, at the core of a land that asks for a ticket.
EnterCore(a, l) ==
  /\ Act(a) /\ l \in Live
  /\ Pass(l).a > 0 /\ ~IsLandMember(a, l)
  /\ LET ticket == Of(Pass(l).item, Pass(l).a)
     IN  /\ HasItems(inventory[a], ticket)
         /\ SetGoods(PayOwner(Take(Goods, a, ticket), lands[l].owner, ticket))
  /\ UNCHANGED <<ground, statutes, market>>

-----------------------------------------------------------------------------
(* Laws                                                                    *)

\* HandleProposeLaw
ProposeLaw(a, l, bill) ==
  /\ Act(a) /\ lawNum < MaxLaws
  /\ l \in Live /\ IsLandMember(a, l)
  /\ lawNum' = lawNum + 1
  /\ laws' = [laws EXCEPT ![lawNum + 1] =
       [land |-> l, template |-> bill.template,
        params |-> NormalizeLawParams(bill.template, bill.params, DayTicks),
        status |-> "NOTICE", notice |-> NoticeTicks,
        vote |-> NoticeTicks + VoteTicks, votes |-> [b \in Agents |-> ""]]]
  /\ UNCHANGED <<goods, ground, market>>

\* HandleVoteLaw: a vote may be changed while the law is in voting.
VoteLaw(a, w, choice) ==
  /\ Act(a)
  /\ laws[w] # None
  /\ laws[w].status = "VOTING"
  /\ laws[w].land \in Live
  /\ IsLandMember(a, laws[w].land)
  /\ laws' = [laws EXCEPT ![w].votes[a] = choice]
  /\ UNCHANGED <<goods, ground, lawNum, market>>

\* CountVotes
Votes(law, choice) == Cardinality({a \in Agents : law.votes[a] = choice})

Passed(law) == VotePassed(Votes(law, "YES"), Votes(law, "NO"))

Decided(law) == law.status = "VOTING" /\ law.vote = 0

\* Slip: a law nobody has voted on stays open.
NextStatusOpen(law) ==
  IF law.status = "NOTICE" /\ law.notice = 0 THEN "VOTING"
  ELSE IF ~Decided(law) \/ Votes(law, "") = Cardinality(Agents) THEN law.status
  ELSE IF Passed(law) /\ law.land \in Live THEN "ACTIVE" ELSE "REJECTED"

\* NextTransition and the outcome of a vote.
NextStatus(law) ==
  IF law.status = "NOTICE" /\ law.notice = 0 THEN "VOTING"
  ELSE IF ~Decided(law) THEN law.status
  ELSE IF Passed(law) /\ law.land \in Live THEN "ACTIVE" ELSE "REJECTED"

Activates(w) == laws[w] # None /\ Decided(laws[w]) /\ NextStatus(laws[w]) = "ACTIVE"

Down(n) == IF n = 0 THEN 0 ELSE n - 1

LawAfterTick(law) ==
  [law EXCEPT !.status = NextStatus(law), !.notice = Down(@), !.vote = Down(@)]

\* ApplyTemplateToLand, for the laws of this tick in the order of their ids:
\* of two that set the same terms the later one stays.
TermsAfterTick(l) ==
  [t \in Templates |->
     LET set == {w \in LawIds : /\ Activates(w) /\ laws[w].land = l
                                /\ laws[w].template = t}
     IN  IF set = {} THEN lands[l].terms[t]
         ELSE ApplyLawTemplate(t, laws[CHOOSE w \in set : \A v \in set : v <= w].params)]

\* tickLaws at the end of a step, and the clock.
EndStep ==
  /\ phase = "acts"
  /\ phase' = "boundary"
  /\ clock' = (clock + 1) % DayTicks
  /\ laws' = [w \in LawIds |->
                IF laws[w] = None THEN None ELSE LawAfterTick(laws[w])]
  /\ lands' = [l \in LandIds |->
                 IF l \in Live
                 THEN [lands[l] EXCEPT !.terms = TermsAfterTick(l), !.due = Down(@)]
                 ELSE None]
  /\ UNCHANGED <<ops, people, goods, landNum, block, lawNum, market>>
-----------------------------------------------------------------------------
(* Organizations                                                           *)

\* HandleCreateOrg
CreateOrg(a, o) ==
  /\ Asks(a) /\ o \notin founded /\ orgOf[a] = None
  /\ founded' = founded \cup {o} /\ orgs' = orgs \cup {o}
  /\ roles' = [roles EXCEPT ![o][a] = "LEADER"]
  /\ orgOf' = [orgOf EXCEPT ![a] = o]
  /\ UNCHANGED <<here, elsewhere, goods, ground, statutes, market>>

\* HandleJoinOrg
JoinOrg(a, o) ==
  /\ Asks(a) /\ o \in orgs /\ orgOf[a] = None
  /\ roles' = [roles EXCEPT ![o][a] = "MEMBER"]
  /\ orgOf' = [orgOf EXCEPT ![a] = o]
  /\ UNCHANGED <<here, founded, orgs, elsewhere, goods, ground, statutes, market>>

\* SelectNextLeader
First(S) == CHOOSE a \in S : \A b \in S : Rank[a] <= Rank[b]

\* Slip: nobody takes over.
RolesWithoutHeir(o, a) == [roles[o] EXCEPT ![a] = ""]

\* The members after a has left: a leader hands over to the first of them.
RolesAfterLeave(o, a) ==
  LET rest == Members(o) \ {a}
      left == [roles[o] EXCEPT ![a] = ""]
  IN  IF roles[o][a] = "LEADER" /\ rest # {}
      THEN [left EXCEPT ![First(rest)] = "LEADER"] ELSE left

\* HandleLeaveOrg: the last one out dissolves it, with what the treasury holds.
LeaveOrg(a) ==
  LET o == orgOf[a]
      last == Members(o) \ {a} = {}
  IN  /\ Asks(a) /\ o # None
      /\ orgOf' = [orgOf EXCEPT ![a] = None]
      /\ IF o \in orgs
         THEN /\ roles' = [roles EXCEPT ![o] = RolesAfterLeave(o, a)]
              /\ orgs' = IF last THEN orgs \ {o} ELSE orgs
              /\ SetGoods(IF ~last THEN Goods
                          ELSE [Spend(Goods, treasury[o]) EXCEPT !.treasury[o] = Nothing])
         ELSE UNCHANGED <<roles, orgs, goods>>
      /\ UNCHANGED <<here, founded, elsewhere, ground, statutes, market>>

\* HandleOrgDeposit
OrgDeposit(a, o, b) ==
  /\ Act(a) /\ IsOrgMember(a, o) /\ HasItems(inventory[a], b)
  /\ SetGoods([Take(Goods, a, b) EXCEPT !.treasury[o] = Plus(@, b)])
  /\ UNCHANGED <<ground, statutes, market>>

\* HandleOrgWithdraw
OrgWithdraw(a, o, b) ==
  /\ Act(a) /\ IsOrgAdmin(a, o) /\ HasItems(treasury[o], b)
  /\ SetGoods([Give(Goods, a, b) EXCEPT !.treasury[o] = Minus(@, b)])
  /\ UNCHANGED <<ground, statutes, market>>

-----------------------------------------------------------------------------
(* Trade                                                                   *)

CanTradeAt(a, l) == "trade" \in PermissionsFor(a, l)

\* HandleOfferTrade, by a who stands on l; nothing is put aside for it.
OfferTrade(a, l, b, deal) ==
  /\ Act(a) /\ tradeNum < MaxTrades
  /\ CanTradeAt(a, l) /\ b \in here
  /\ tradeNum' = tradeNum + 1
  /\ trades' = [trades EXCEPT ![tradeNum + 1] =
       [from |-> a, to |-> b, offer |-> deal.offer, request |-> deal.request]]
  /\ UNCHANGED <<goods, ground, statutes>>

\* ValidateTradeLifecycleInput and the owner of the trade.
Addressed(a, t) == Act(a) /\ trades[t] # None /\ trades[t].to = a

\* HandleDeclineTrade
DeclineTrade(a, t) ==
  /\ Addressed(a, t)
  /\ trades' = [trades EXCEPT ![t] = None]
  /\ UNCHANGED <<goods, ground, statutes, tradeNum>>

\* Both have what they give, at the moment of the acceptance.
BothHave(t) ==
  /\ HasItems(inventory[trades[t].from], trades[t].offer)
  /\ HasItems(inventory[trades[t].to], trades[t].request)

\* ResolveTradeTax, of a trade between somebody on lf and somebody on lt.
TradeTax(lf, lt, week) ==
  IF lf = None THEN 0
  ELSE EffectiveMarketTax(lands[lf].terms["MARKET_TAX"].a, lf = lt, week)

\* HandleAcceptTrade: both legs, each with its tax, at one moment.
AcceptTrade(a, t, lf, lt, week) ==
  LET tr == trades[t]
      rate == TradeTax(lf, lt, week)
      owner == IF lf = None THEN None ELSE lands[lf].owner
  IN  /\ Addressed(a, t) /\ tr.from \in here
      /\ CanTradeAt(tr.from, lf) /\ CanTradeAt(a, lt)
      /\ BothHave(t)
      /\ SetGoods(TransferWithTax(
           TransferWithTax(Goods, tr.from, a, tr.offer, rate, owner),
           a, tr.from, tr.request, rate, owner))
      /\ trades' = [trades EXCEPT ![t] = None]
      /\ UNCHANGED <<ground, statutes, tradeNum>>

-----------------------------------------------------------------------------
(* The boundary of a step                                                  *)

\* HandleTransferOut: the agent's trades go with it; its roles stay behind.
Depart(a) ==
  /\ phase = "boundary" /\ ops < MaxOps /\ ops' = ops + 1
  /\ a \in here /\ here' = here \ {a}
  /\ trades' = [t \in TradeIds |->
       IF trades[t] # None /\ a \in {trades[t].from, trades[t].to} THEN None
       ELSE trades[t]]
  /\ UNCHANGED <<phase, clock, orgOf, founded, orgs, roles, elsewhere, goods,
                 ground, statutes, tradeNum>>

\* UpsertIncomingOrg: the copy's members are added to those here, its roles win,
\* and the agent is made a member if neither map has it.
MergedRoles(o, a, copy) ==
  LET both == [b \in Agents |-> IF copy[b] # "" THEN copy[b] ELSE roles[o][b]]
  IN  IF both[a] = "" THEN [both EXCEPT ![a] = "MEMBER"] ELSE both

\* HandleTransferIn: the agent comes with whatever organization it is in by now
\* and a copy of its members.  What the agent gained or lost is left out.
Arrive(a, o, copy) ==
  /\ phase = "boundary" /\ ops < MaxOps /\ ops' = ops + 1
  /\ a \notin here /\ here' = here \cup {a}
  /\ orgOf' = [orgOf EXCEPT ![a] = o]
  /\ elsewhere' = elsewhere \cup ({o, orgOf[a]} \ {None})
  /\ IF o = None THEN UNCHANGED <<founded, orgs, roles>>
     ELSE /\ founded' = founded \cup {o} /\ orgs' = orgs \cup {o}
          /\ roles' = [roles EXCEPT ![o] = MergedRoles(o, a, copy)]
  /\ UNCHANGED <<phase, clock, goods, ground, statutes, market>>

DueLands == {l \in Live : lands[l].due = 0}

AfterMaintenance(rest) == IF rest = {} THEN "acts" ELSE "maintenance"

\* tickClaimsMaintenance: the maintenance comes before the acts of the step.
BeginStep ==
  /\ phase = "boundary" /\ phase' = AfterMaintenance(DueLands)
  /\ UNCHANGED <<clock, ops, people, goods, ground, statutes, market>>

\* TickClaimsMaintenance on one claim.  The claims are visited in the order of
\* their ids, which begin with the name of who made them: any order of the
\* numbers.
MaintainClaim(l) ==
  LET owner == lands[l].owner
      paid == CanPay(owner)
  IN  /\ phase = "maintenance" /\ l \in DueLands
      /\ phase' = AfterMaintenance(DueLands \ {l})
      /\ lands' = [lands EXCEPT ![l].stage = NextStage(@, paid), ![l].due = DayTicks]
      /\ SetGoods(IF paid THEN PayMaintenance(owner) ELSE Goods)
      /\ UNCHANGED <<clock, ops, people, landNum, block, statutes, market>>

-----------------------------------------------------------------------------

Somewhere == Live \cup {None}

LandOps(a) ==
  \/ \E p \in Anchors, r \in Radii : ClaimLand(a, p, r)
  \/ \E l \in LandIds, policy \in Policies : SetPermissions(a, l, policy)
  \/ \E l \in LandIds, b \in Agents : AddMember(a, l, b) \/ RemoveMember(a, l, b)
  \/ \E l \in LandIds, owner \in Owners : DeedLand(a, l, owner)
  \/ \E l \in Live, r \in Radii : UpgradeClaim(a, l, r)
  \/ \E p \in Anchors : BreakBlock(a, p)
  \/ \E l \in Live : BreakDenied(a, l)
  \/ \E p \in Anchors, kind \in Kinds : PlaceBlock(a, p, kind)
  \/ \E l \in Live : EnterCore(a, l)

LawOps(a) ==
  \/ \E l \in Live, bill \in Bills : ProposeLaw(a, l, bill)
  \/ \E w \in LawIds, choice \in {"YES", "NO", "ABSTAIN"} : VoteLaw(a, w, choice)

OrgOps(a) ==
  \/ \E o \in Orgs : CreateOrg(a, o) \/ JoinOrg(a, o)
  \/ LeaveOrg(a)
  \/ \E o \in Orgs, b \in Offers : OrgDeposit(a, o, b) \/ OrgWithdraw(a, o, b)

TradeOps(a) ==
  \/ \E l \in Somewhere, b \in Agents, deal \in Deals : OfferTrade(a, l, b, deal)
  \/ \E t \in TradeIds : DeclineTrade(a, t)
  \/ \E t \in TradeIds, lf, lt \in Somewhere, week \in BOOLEAN :
       AcceptTrade(a, t, lf, lt, week)

Travels(a) ==
  \/ Depart(a)
  \/ \E o \in Orgs \cup {None}, copy \in [Agents -> Roles] : Arrive(a, o, copy)

Next ==
  \/ \E a \in Agents : LandOps(a) \/ LawOps(a) \/ OrgOps(a) \/ TradeOps(a) \/ Travels(a)
  \/ \E p \in Anchors : Overwrite(p)
  \/ BeginStep
  \/ \E l \in LandIds : MaintainClaim(l)
  \/ EndStep

\* The loop of the world steps for ever; no agent need ever ask for anything.
Fairness ==
  /\ WF_vars(BeginStep) /\ WF_vars(\E l \in LandIds : MaintainClaim(l))
  /\ WF_vars(EndStep)

Spec == Init /\ [][Next]_vars /\ Fairness
-----------------------------------------------------------------------------
(* Properties                                                              *)

(* No two claims overlap: landAt takes the first claim of a Go map that
   contains a position, so two claims around one position would give and
   refuse the same permission by chance.  HandleTaskClaimLand and
   HandleUpgradeClaim each keep the squares apart with a check of its own. *)
LandsApart ==
  \A k, l \in Live :
    k # l => ~Overlaps(lands[k].anchor, lands[k].radius, lands[l])

(* A law is about a claim that stands: the claim may be mined away while the
   law is in notice, in voting or in force (removeClaimByAnchor). *)
LawsOnLand == \A w \in LawIds : laws[w] # None => laws[w].land \in Live

(* Whatever a claim asks of strangers, in taxes, curfews, fines or tickets, a
   law of that claim in force asks it and had a majority (TickLaws,
   ApplyTemplateToLand). *)
TermsFromLaws ==
  \A l \in Live : \A t \in Templates :
    lands[l].terms[t] # Off =>
      \E w \in LawIds :
        /\ laws[w] # None
        /\ laws[w].land = l /\ laws[w].template = t /\ laws[w].status = "ACTIVE"
        /\ ApplyLawTemplate(t, laws[w].params) = lands[l].terms[t]
        /\ Votes(laws[w], "YES") > Votes(laws[w], "NO")

(* An agent of this world is a member of the organization whose id it carries,
   also of one it has brought along or come back with, and an organization that
   is gone has neither members nor a treasury.  As long as no agent has come
   from another world with the id of an organization, or with another id than
   it left with, the organization's members are exactly the agents that carry
   its id and it has one leader, through joins, hand-overs and departures
   (HandleLeaveOrg changes three maps). *)
RolesAgree ==
  /\ \A a \in here : orgOf[a] # None => IsOrgMember(a, orgOf[a])
  /\ \A o \in Orgs \ orgs : Members(o) = {} /\ treasury[o] = Nothing
  /\ \A o \in Orgs \ elsewhere : \A a \in Agents : orgOf[a] = o <=> roles[o][a] # ""
  /\ \A o \in orgs \ elsewhere : \E a \in Agents : roles[o][a] = "LEADER" /\
                       \A b \in Agents : roles[o][b] = "LEADER" => b = a

\* The item maps of S in one: a unit of an item is counted with its holder.
Units(f, S, x) == UNION {{k} \X (1..f[k][x]) : k \in S}

Total(f, S) == [x \in Items |-> Cardinality(Units(f, S, x))]

(* Items change hands in trades, taxes, fines, tickets, deposits, withdrawals
   and maintenance, and none appears or disappears: what agents, treasuries
   and paid prices hold is what the agents came with (ApplyTransferWithTax,
   TransferToLandOwner, PayMaintenance, HandleLeaveOrg). *)
ItemsConserved ==
  Plus(Plus(Total(inventory, Agents), Total(treasury, Orgs)), spent)
    = Total([a \in Agents |-> Kit], Agents)

(* Every law comes to a decision, or goes with its land (TickLaws). *)
LawsEnd ==
  \A w \in LawIds :
    (laws[w] # None) ~> (laws[w] = None \/ laws[w].status \in {"ACTIVE", "REJECTED"})

(* A claim nobody can pay for, because its owner is neither in this world nor
   an organization of it, opens to everybody, unless the owner comes back or
   the claim changes hands or goes (TickClaimsMaintenance, ForLand). *)
NeglectedOpens ==
  \A l \in LandIds :
    (l \in Live /\ ~OwnerExists(lands[l].owner))
      ~> (l \notin Live \/ OwnerExists(lands[l].owner) \/ lands[l].stage = 2)
=============================================================================
