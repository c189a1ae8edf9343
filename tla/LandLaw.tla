------------------------------ MODULE LandLaw ------------------------------
(***************************************************************************)
(* What a claim allows, what a law may say and what a trade costs: the     *)
(* rules of governance and of the market as operators without state.       *)
(*                                                                         *)
(* Rates and times of day are whole numbers here: a rate is in percent of  *)
(* the price, a time of day in ticks since midnight.                       *)
(***************************************************************************)
EXTENDS Integers, FiniteSets

CONSTANTS Items, None

ASSUME NoneIsNoItem == None \notin Items

-----------------------------------------------------------------------------
(* Item maps: an absent key counts zero.                                   *)

Bundles == [Items -> Nat]
Nothing == [x \in Items |-> 0]
Of(x, n) == [y \in Items |-> IF y = x THEN n ELSE 0]
Plus(b, d) == [x \in Items |-> b[x] + d[x]]

\* DeductItems: a count that falls to zero is deleted.
Minus(b, d) == [x \in Items |-> IF d[x] < b[x] THEN b[x] - d[x] ELSE 0]

HasItems(b, want) == \A x \in Items : b[x] >= want[x]

\* CalcTax: the share of every count, rounded down.
CalcTax(offer, rate) == [x \in Items |-> (offer[x] * rate) \div 100]

\* EffectiveMarketTax: only when both sides stand on the same land; a market
\* week halves the rate.
EffectiveMarketTax(rate, same, week) ==
  IF ~same THEN 0 ELSE IF week THEN rate \div 2 ELSE rate

-----------------------------------------------------------------------------
(* Squares of land                                                         *)

Positions == [x : Int, z : Int]

Abs(n) == IF n < 0 THEN -n ELSE n
Near(p, q, d) == Abs(p.x - q.x) <= d /\ Abs(p.z - q.z) <= d

Contains(c, p) == Near(p, c.anchor, c.radius)

\* The squares of radius r around p and of c meet.
Overlaps(p, r, c) == Near(p, c.anchor, r + c.radius)

\* Slip: the radius of the other claim is forgotten.
OverlapsAnchor(p, r, c) == Near(p, c.anchor, r)

\* UpgradeOverlaps, of the claim with anchor p grown to r.
UpgradeOverlaps(p, r, c) == Near(p, c.anchor, r + c.radius)

ClampRadius(r) == IF r <= 0 THEN 32 ELSE IF r > 128 THEN 128 ELSE r

ValidateUpgradeRadius(current, target) ==
  target \in {64, 128} /\ target > current

-----------------------------------------------------------------------------
(* Permissions                                                             *)

Rights == {"build", "break", "damage", "trade"}

WildPermissions == {"build", "break", "trade"}

ForLand(member, stage, flags) ==
  IF member THEN {"build", "break", "trade"} \cup (flags \cap {"damage"})
  ELSE IF stage >= 2 THEN WildPermissions ELSE flags

DefaultFlags(worldType) == IF worldType = "CITY_HUB" THEN {"trade"} ELSE {}

\* ApplyPolicyFlags: a policy names the rights it grants and those it takes.
ApplyPolicyFlags(flags, policy) == (flags \cup policy.grant) \ policy.deny

\* InWindow: a window that ends before it starts goes over midnight.
InWindow(t, from, to) ==
  IF from <= to THEN from <= t /\ t <= to ELSE t >= from \/ t <= to

\* Slip: the last stage is never reached.
NextStageShort(stage, paid) ==
  IF paid THEN 0 ELSE IF stage < 1 THEN stage + 1 ELSE stage

NextStage(stage, paid) ==
  IF paid THEN 0 ELSE IF stage < 2 THEN stage + 1 ELSE stage

-----------------------------------------------------------------------------
(* Laws                                                                    *)

Templates == {"MARKET_TAX", "CURFEW_NO_BUILD", "FINE_BREAK_PER_BLOCK",
              "ACCESS_PASS_CORE"}

\* Parameters, whatever the template: an item and up to two numbers.
Params == [item : Items \cup {None}, a : Int, b : Int]

Off == [item |-> None, a |-> 0, b |-> 0]

Clamp(n, lo, hi) == IF n < lo THEN lo ELSE IF n > hi THEN hi ELSE n

\* NormalizeLawParams, for a day of so many ticks.
NormalizeLawParams(template, p, day) ==
  CASE template = "MARKET_TAX" ->
         [item |-> None, a |-> Clamp(p.a, 0, 25), b |-> 0]
    [] template = "CURFEW_NO_BUILD" ->
         [item |-> None, a |-> Clamp(p.a, 0, day), b |-> Clamp(p.b, 0, day)]
    [] template = "FINE_BREAK_PER_BLOCK" ->
         [item |-> p.item, a |-> Clamp(p.a, 0, 100), b |-> 0]
    [] template = "ACCESS_PASS_CORE" ->
         [item |-> p.item, a |-> Clamp(p.a, 0, 64), b |-> 0]

\* ApplyLawTemplate: what the land has of a law afterwards.  A number of zero
\* and an empty curfew turn the rule off.
ApplyLawTemplate(template, p) ==
  CASE template = "MARKET_TAX" -> p
    [] template = "CURFEW_NO_BUILD" -> IF p.a = p.b THEN Off ELSE p
    [] OTHER -> IF p.a = 0 THEN Off ELSE p

\* Slip: a draw passes.
VoteDrawn(yes, no) == yes >= no

VotePassed(yes, no) == yes > no
=============================================================================
