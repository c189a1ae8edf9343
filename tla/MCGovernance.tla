--------------------------- MODULE MCGovernance ---------------------------
(***************************************************************************)
(* Two agents, two organizations and two anchors in a row: claims of the   *)
(* usual radius fit beside each other, two grown ones do not.              *)
(*                                                                         *)
(* The run begins some days after the start of the world: alice has made a *)
(* claim, proposed a market tax, voted for it alone, and founded an        *)
(* organization.  Three more operations then reach what would take eight   *)
(* from the empty world.                                                   *)
(***************************************************************************)
EXTENDS Governance, TLC

CONSTANTS alice, bob, org, guild, COAL, SHARD

MCRank == (alice :> 1) @@ (bob :> 2)

At(x) == [x |-> x, z |-> 0]
MCAnchors == {At(0), At(97)}

Map(c, s) == (COAL :> c) @@ (SHARD :> s)

\* The real prices count batteries too; a shard stands for both.
MCClaimCost == Map(0, 1)
MCMaintenanceCost == Map(1, 0)
MCUpgradeCost(r, s) == Map(0, IF s > 64 THEN 2 ELSE 1)

MCPolicies == {[grant |-> {"break"}, deny |-> {"trade"}]}

Bill(t, x, n) == [template |-> t, params |-> [item |-> x, a |-> n, b |-> n + 1]]
MCBills == {Bill("FINE_BREAK_PER_BLOCK", COAL, 3), Bill("ACCESS_PASS_CORE", SHARD, 1),
            Bill("CURFEW_NO_BUILD", None, 0)}
MCDeals == {[offer |-> Map(0, 4), request |-> Map(1, 0)]}
MCOffers == {Map(1, 0)}
MCKit == Map(1, 5)

Tax == NormalizeLawParams("MARKET_TAX", [item |-> None, a |-> 30, b |-> 0], DayTicks)

MCInit ==
  /\ phase = "boundary" /\ clock = 0 /\ ops = 0
  /\ here = Agents
  /\ inventory = [a \in Agents |-> IF a = alice THEN Minus(Kit, ClaimCost) ELSE Kit]
  /\ orgOf = [a \in Agents |-> IF a = alice THEN org ELSE None]
  /\ founded = {org} /\ orgs = {org} /\ elsewhere = {}
  /\ roles = [o \in Orgs |-> [a \in Agents |->
                IF o = org /\ a = alice THEN "LEADER" ELSE ""]]
  /\ treasury = [o \in Orgs |-> Nothing]
  /\ lands = [l \in LandIds |-> IF l # 1 THEN None ELSE
                [NewLand(alice, At(0), 32) EXCEPT !.terms["MARKET_TAX"] = Tax]]
  /\ landNum = 1
  /\ laws = [w \in LawIds |-> IF w # 1 THEN None ELSE
       [land |-> 1, template |-> "MARKET_TAX", params |-> Tax,
        status |-> "ACTIVE", notice |-> 0, vote |-> 0,
        votes |-> [a \in Agents |-> IF a = alice THEN "YES" ELSE ""]]]
  /\ lawNum = 1
  /\ trades = [t \in TradeIds |-> None] /\ tradeNum = 0
  /\ block = [p \in Anchors |-> IF p = At(0) THEN "CLAIM_TOTEM" ELSE "AIR"]
  /\ spent = ClaimCost

MCSpec == MCInit /\ [][Next]_vars /\ Fairness
=============================================================================
