------------------------- MODULE Governance_proofs -------------------------
(***************************************************************************)
(* Proofs about Governance: claims stay apart, what a claim asks comes     *)
(* from its laws, roles agree with memberships, no count of items ever     *)
(* falls below zero, and items change hands without one made or lost, for  *)
(* any agents, organizations, anchors, prices, bills and deals.            *)
(***************************************************************************)
EXTENDS Governance, FiniteSetTheorems, WellFoundedInduction, TLAPS

\* The parameters of a law are in the range of its template.
LawSane(law) ==
  /\ law.template = "MARKET_TAX" => law.params.a \in 0..25
  /\ law.template \in {"FINE_BREAK_PER_BLOCK", "ACCESS_PASS_CORE"}
       => law.params.item \in Items

LawsSane == \A w \in LawIds : laws[w] # None => LawSane(laws[w])

\* The numbers given out are those up to the counter.
Numbered ==
  /\ \A l \in LandIds : l > landNum => lands[l] = None
  /\ \A w \in LawIds : w > lawNum => laws[w] = None

IInv ==
  /\ TypeOK /\ Numbered
  /\ LandsApart
  /\ LawsOnLand /\ LawsSane /\ TermsFromLaws
  /\ RolesAgree

-----------------------------------------------------------------------------
(* Item maps                                                               *)

\* Item maps stay item maps, whatever is added or deducted.
LEMMA BundleTypes ==
  ASSUME NEW b \in Bundles, NEW d \in Bundles
  PROVE  Plus(b, d) \in Bundles /\ Minus(b, d) \in Bundles
  BY DEF Bundles, Plus, Minus

\* The empty map and the map of one item are item maps.
LEMMA BundleConstants ==
  /\ Nothing \in Bundles
  /\ \A x \in Items, n \in Nat : Of(x, n) \in Bundles
  BY DEF Bundles, Nothing, Of

\* A quarter of a count, rounded down, is at most a quarter.
LEMMA Quarter ==
  ASSUME NEW n \in Nat, NEW r \in 0..25
  PROVE  (n * r) \div 100 \in Nat /\ 4 * ((n * r) \div 100) <= n
<1>1. n * r \in Nat /\ n * r <= n * 25
  <2>1. n * r \in Nat
    OBVIOUS
  <2>2. n * (25 - r) >= 0
    OBVIOUS
  <2>3. n * (25 - r) = n * 25 - n * r
    OBVIOUS
  <2> QED
    BY <2>1, <2>2, <2>3
<1> DEFINE m == n * r
<1>2. m \in Nat /\ m <= 25 * n
  BY <1>1
<1> HIDE DEF m
<1>3. m \div 100 \in Nat /\ 100 * (m \div 100) <= m
  BY <1>2
<1>4. 4 * (m \div 100) <= n
  BY <1>2, <1>3
<1> QED
  BY <1>3, <1>4 DEF m

\* At the rates a law may set, a tax is at most a quarter of every count.
LEMMA TaxTypes ==
  ASSUME NEW b \in Bundles, NEW r \in 0..25
  PROVE  /\ CalcTax(b, r) \in Bundles
         /\ \A x \in Items : 4 * CalcTax(b, r)[x] <= b[x]
  BY Quarter DEF Bundles, CalcTax

-----------------------------------------------------------------------------
(* Goods                                                                   *)

GoodsType ==
  [inventory : [Agents -> Bundles], treasury : [Orgs -> Bundles], spent : Bundles]

\* Between the two legs of a trade a count of an agent may be below zero.
Debts ==
  [inventory : [Agents -> [Items -> Int]], treasury : [Orgs -> Bundles],
   spent : Bundles]

\* Nothing moves into the treasury of an organization that does not exist.
SameElsewhere(g, h) == \A o \in Orgs \ orgs : h.treasury[o] = g.treasury[o]

\* What becomes of goods when an operation only moves items.
GoodsFine(g) == g \in GoodsType /\ SameElsewhere(Goods, g)

\* The goods of a state are goods, and goods are a special case of debts.
LEMMA GoodsTypes ==
  /\ TypeOK => GoodsFine(Goods)
  /\ GoodsType \subseteq Debts
  BY DEF TypeOK, GoodsFine, GoodsType, SameElsewhere, Goods, Debts, Bundles

\* Debts without a count below zero are goods.
LEMMA DebtsPaid ==
  ASSUME NEW g \in Debts,
         \A c \in Agents, x \in Items : g.inventory[c][x] >= 0
  PROVE  g \in GoodsType
<1>1. g.inventory \in [Agents -> Bundles]
  BY DEF Debts, Bundles
<1> QED
  BY <1>1 DEF Debts, GoodsType

\* Prices, gifts and payments from an inventory leave goods.
LEMMA Payments ==
  ASSUME NEW g \in GoodsType, NEW a \in Agents, NEW b \in Bundles
  PROVE  /\ Take(g, a, b) \in GoodsType /\ SameElsewhere(g, Take(g, a, b))
         /\ Give(g, a, b) \in GoodsType /\ SameElsewhere(g, Give(g, a, b))
         /\ Spend(g, b) \in GoodsType /\ SameElsewhere(g, Spend(g, b))
<1>1. /\ g.inventory[a] \in Bundles /\ g.spent \in Bundles
  BY DEF GoodsType
<1>2. /\ Minus(g.inventory[a], b) \in Bundles /\ Plus(g.inventory[a], b) \in Bundles
      /\ Plus(g.spent, b) \in Bundles
  BY <1>1, BundleTypes
<1> QED
  BY <1>2 DEF Take, Give, Spend, GoodsType, SameElsewhere

\* A change of one treasury of an organization that exists leaves goods.
LEMMA TreasuryPayments ==
  ASSUME NEW g \in GoodsType, NEW o \in orgs, orgs \subseteq Orgs, NEW b \in Bundles
  PROVE  /\ g.treasury[o] \in Bundles
         /\ [g EXCEPT !.treasury[o] = b] \in GoodsType
         /\ SameElsewhere(g, [g EXCEPT !.treasury[o] = b])
  BY DEF GoodsType, SameElsewhere

\* Whoever the owner is, in this world or not, nobody loses by being paid.
LEMMA OwnerPaid ==
  ASSUME TypeOK, NEW g \in Debts, NEW o, NEW b \in Bundles
  PROVE  /\ PayOwner(g, o, b) \in Debts /\ SameElsewhere(g, PayOwner(g, o, b))
         /\ \A c \in Agents, x \in Items :
              PayOwner(g, o, b).inventory[c][x] >= g.inventory[c][x]
<1>0. here \subseteq Agents /\ orgs \subseteq Orgs
  BY DEF TypeOK
<1>1. CASE o \in here
  <2> DEFINE r == Plus(g.inventory[o], b)
  <2>1. /\ r \in [Items -> Int]
        /\ \A x \in Items : r[x] >= g.inventory[o][x]
    BY <1>0, <1>1 DEF Debts, Plus, Bundles
  <2>2. PayOwner(g, o, b) = [g EXCEPT !.inventory[o] = r]
    BY <1>1 DEF PayOwner, Give
  <2> HIDE DEF r
  <2>3. /\ [g EXCEPT !.inventory[o] = r] \in Debts
        /\ [g EXCEPT !.inventory[o] = r].treasury = g.treasury
        /\ \A c \in Agents : [g EXCEPT !.inventory[o] = r].inventory[c]
                               = IF c = o THEN r ELSE g.inventory[c]
    BY <1>0, <1>1, <2>1 DEF Debts
  <2>4. \A c \in Agents, x \in Items : g.inventory[c][x] \in Int
    BY DEF Debts
  <2> QED
    BY <2>1, <2>2, <2>3, <2>4 DEF SameElsewhere
<1>2. CASE o \notin here /\ o \in orgs
  <2> DEFINE r == Plus(g.treasury[o], b)
  <2>1. r \in Bundles
    BY <1>0, <1>2, BundleTypes DEF Debts
  <2>2. PayOwner(g, o, b) = [g EXCEPT !.treasury[o] = r]
    BY <1>2 DEF PayOwner
  <2> HIDE DEF r
  <2>3. /\ [g EXCEPT !.treasury[o] = r] \in Debts
        /\ [g EXCEPT !.treasury[o] = r].inventory = g.inventory
        /\ SameElsewhere(g, [g EXCEPT !.treasury[o] = r])
    BY <1>0, <1>2, <2>1 DEF Debts, SameElsewhere
  <2>4. \A c \in Agents, x \in Items : g.inventory[c][x] \in Int
    BY DEF Debts
  <2> QED
    BY <2>2, <2>3, <2>4
<1>3. CASE o \notin here /\ o \notin orgs
  <2>1. PayOwner(g, o, b) = [g EXCEPT !.spent = Plus(g.spent, b)]
    BY <1>3 DEF PayOwner, Spend
  <2>2. Plus(g.spent, b) \in Bundles
    BY BundleTypes DEF Debts
  <2>3. \A c \in Agents, x \in Items : g.inventory[c][x] \in Int
    BY DEF Debts
  <2> QED
    BY <2>1, <2>2, <2>3 DEF Debts, SameElsewhere
<1> QED
  BY <1>1, <1>2, <1>3

\* A payment from goods to the owner of a land leaves goods.
LEMMA OwnerGoods ==
  ASSUME TypeOK, NEW g \in GoodsType, NEW o, NEW b \in Bundles
  PROVE  PayOwner(g, o, b) \in GoodsType /\ SameElsewhere(g, PayOwner(g, o, b))
<1>1. g \in Debts
  BY GoodsTypes
<1>2. \A c \in Agents, x \in Items : g.inventory[c][x] >= 0 /\ g.inventory[c][x] \in Int
  BY DEF GoodsType, Bundles
<1>3. PayOwner(g, o, b) \in Debts
  BY <1>1, OwnerPaid
<1>4. \A c \in Agents, x \in Items : PayOwner(g, o, b).inventory[c][x] \in Int
  BY <1>3 DEF Debts
<1>5. \A c \in Agents, x \in Items : PayOwner(g, o, b).inventory[c][x] >= 0
  BY <1>1, <1>2, <1>4, OwnerPaid
<1> QED
  BY <1>1, <1>3, <1>5, OwnerPaid, DebtsPaid

\* The transfer of one leg before the tax is handed over: b less the tax.
Moved(g, from, to, b, tax) == Give(Draw(g, from, b), to, Minus(b, tax))

\* What one leg may cost an agent: all of b for who gives it to another, a
\* quarter of it, four times over, for who trades with himself, else nothing.
LegCost(g, h, from, to, b) ==
  /\ \A c \in Agents \ {from}, x \in Items : h.inventory[c][x] >= g.inventory[c][x]
  /\ \A x \in Items :
       IF from = to
       THEN 4 * (g.inventory[from][x] - h.inventory[from][x]) <= b[x]
       ELSE g.inventory[from][x] - h.inventory[from][x] <= b[x]

\* One leg moves b from one agent to another and keeps the tax.
LEMMA MovedCost ==
  ASSUME NEW g \in Debts, NEW from \in Agents, NEW to \in Agents,
         NEW b \in Bundles, NEW tax \in Bundles,
         \A x \in Items : 4 * tax[x] <= b[x]
  PROVE  /\ Moved(g, from, to, b, tax) \in Debts
         /\ SameElsewhere(g, Moved(g, from, to, b, tax))
         /\ LegCost(g, Moved(g, from, to, b, tax), from, to, b)
<1> DEFINE rest == [x \in Items |-> g.inventory[from][x] - b[x]]
           drawn == [g EXCEPT !.inventory[from] = rest]
           m == Minus(b, tax)
           sum == Plus(drawn.inventory[to], m)
<1>1. g.inventory \in [Agents -> [Items -> Int]]
  BY DEF Debts
<1>2. /\ rest \in [Items -> Int]
      /\ \A x \in Items : rest[x] = g.inventory[from][x] - b[x]
  BY <1>1 DEF Bundles
<1>3. /\ m \in Bundles
      /\ \A x \in Items : m[x] = b[x] - tax[x] \/ (m[x] = 0 /\ b[x] = tax[x])
  BY DEF Bundles, Minus
<1>4. Draw(g, from, b) = drawn
  BY DEF Draw
<1> HIDE DEF rest, m
<1>5. /\ drawn \in Debts /\ drawn.treasury = g.treasury
      /\ \A c \in Agents : drawn.inventory[c] = IF c = from THEN rest ELSE g.inventory[c]
  BY <1>2 DEF Debts
<1> HIDE DEF drawn
<1>6. drawn.inventory[to] \in [Items -> Int]
  BY <1>5 DEF Debts
<1>7. /\ sum \in [Items -> Int]
      /\ \A x \in Items : sum[x] = drawn.inventory[to][x] + m[x]
  BY <1>3, <1>6 DEF Plus, Bundles
<1>8. Moved(g, from, to, b, tax) = [drawn EXCEPT !.inventory[to] = sum]
  BY <1>4 DEF Moved, Give, m
<1> HIDE DEF sum
<1> DEFINE h == [drawn EXCEPT !.inventory[to] = sum]
<1>9. /\ h \in Debts /\ h.treasury = g.treasury
      /\ \A c \in Agents : h.inventory[c] = IF c = to THEN sum ELSE drawn.inventory[c]
  BY <1>5, <1>7 DEF Debts
<1> HIDE DEF h
<1>10. \A x \in Items : b[x] \in Nat /\ tax[x] \in Nat /\ m[x] \in Nat
  BY <1>3 DEF Bundles
<1>11. \A c \in Agents, x \in Items : g.inventory[c][x] \in Int
  BY <1>1
<1>12. LegCost(g, h, from, to, b)
  <2>1. ASSUME NEW c \in Agents \ {from}, NEW x \in Items
        PROVE  h.inventory[c][x] >= g.inventory[c][x]
    <3>1. CASE c = to
      <4>1. h.inventory[c][x] = g.inventory[c][x] + m[x]
        BY <1>5, <1>7, <1>9, <3>1
      <4> QED
        BY <4>1, <1>10, <1>11
    <3>2. CASE c # to
      <4>1. h.inventory[c][x] = g.inventory[c][x]
        BY <1>5, <1>9, <3>2
      <4> QED
        BY <4>1, <1>11
    <3> QED
      BY <3>1, <3>2
  <2>2. ASSUME NEW x \in Items, from = to
        PROVE  4 * (g.inventory[from][x] - h.inventory[from][x]) <= b[x]
    <3>1. h.inventory[from][x] = g.inventory[from][x] - b[x] + m[x]
      BY <1>2, <1>5, <1>7, <1>9, <2>2
    <3>2. b[x] - m[x] = tax[x]
      BY <1>3, <1>10
    <3>3. g.inventory[from][x] - h.inventory[from][x] = tax[x]
      BY <3>1, <3>2, <1>10, <1>11
    <3> QED
      BY <3>3
  <2>3. ASSUME NEW x \in Items, from # to
        PROVE  g.inventory[from][x] - h.inventory[from][x] <= b[x]
    <3>1. h.inventory[from][x] = g.inventory[from][x] - b[x]
      BY <1>2, <1>5, <1>9, <2>3
    <3> QED
      BY <3>1, <1>10, <1>11
  <2> QED
    BY <2>1, <2>2, <2>3 DEF LegCost
<1> QED
  BY <1>8, <1>9, <1>12 DEF h, SameElsewhere

\* One leg with its tax: the owner of the land only gains.
LEMMA LegKept ==
  ASSUME TypeOK, NEW g \in Debts, NEW from \in Agents, NEW to \in Agents,
         NEW b \in Bundles, NEW r \in 0..25, NEW o
  PROVE  /\ TransferWithTax(g, from, to, b, r, o) \in Debts
         /\ SameElsewhere(g, TransferWithTax(g, from, to, b, r, o))
         /\ LegCost(g, TransferWithTax(g, from, to, b, r, o), from, to, b)
<1> DEFINE tax == CalcTax(b, r)
           h == Moved(g, from, to, b, tax)
<1>1. tax \in Bundles /\ \A x \in Items : 4 * tax[x] <= b[x]
  BY TaxTypes
<1>2. h \in Debts /\ SameElsewhere(g, h) /\ LegCost(g, h, from, to, b)
  <2> HIDE DEF tax
  <2> QED
    BY <1>1, MovedCost
<1>3. TransferWithTax(g, from, to, b, r, o) = IF r = 0 THEN h ELSE PayOwner(h, o, tax)
  BY DEF TransferWithTax, Moved
<1> HIDE DEF h, tax
<1>4. CASE r = 0
  BY <1>2, <1>3, <1>4
<1>5. CASE r # 0
  <2> DEFINE i == PayOwner(h, o, tax)
  <2>1. /\ i \in Debts /\ SameElsewhere(h, i)
        /\ \A c \in Agents, x \in Items : i.inventory[c][x] >= h.inventory[c][x]
    BY <1>1, <1>2, OwnerPaid
  <2> HIDE DEF i
  <2>2. /\ \A c \in Agents, x \in Items :
             /\ g.inventory[c][x] \in Int /\ h.inventory[c][x] \in Int
             /\ i.inventory[c][x] \in Int
        /\ \A x \in Items : b[x] \in Nat
    BY <1>2, <2>1 DEF Debts, Bundles
  <2>3. LegCost(g, i, from, to, b)
    <3>1. \A c \in Agents \ {from}, x \in Items : i.inventory[c][x] >= g.inventory[c][x]
      BY <1>2, <2>1, <2>2 DEF LegCost
    <3>2. ASSUME NEW x \in Items
          PROVE  IF from = to
                 THEN 4 * (g.inventory[from][x] - i.inventory[from][x]) <= b[x]
                 ELSE g.inventory[from][x] - i.inventory[from][x] <= b[x]
      <4>1. i.inventory[from][x] >= h.inventory[from][x]
        BY <2>1
      <4>2. IF from = to
            THEN 4 * (g.inventory[from][x] - h.inventory[from][x]) <= b[x]
            ELSE g.inventory[from][x] - h.inventory[from][x] <= b[x]
        BY <1>2 DEF LegCost
      <4> QED
        BY <4>1, <4>2, <2>2
    <3> QED
      BY <3>1, <3>2 DEF LegCost
  <2>4. SameElsewhere(g, i)
    BY <1>2, <2>1 DEF SameElsewhere
  <2> QED
    BY <1>3, <1>5, <2>1, <2>3, <2>4 DEF i
<1> QED
  BY <1>4, <1>5

\* Both legs of a trade that both sides can pay for: no count falls below zero,
\* not even when somebody trades with himself and is taxed twice.
LEMMA TradeGoods ==
  ASSUME TypeOK, NEW a \in Agents, NEW b \in Agents,
         NEW offer \in Bundles, NEW request \in Bundles,
         HasItems(inventory[b], offer), HasItems(inventory[a], request),
         NEW r \in 0..25, NEW o
  PROVE  GoodsFine(TransferWithTax(TransferWithTax(Goods, b, a, offer, r, o),
                                   a, b, request, r, o))
<1> DEFINE g == Goods
           h == TransferWithTax(Goods, b, a, offer, r, o)
           i == TransferWithTax(h, a, b, request, r, o)
<1>1. g \in Debts /\ g.inventory = inventory /\ inventory \in [Agents -> Bundles]
  BY GoodsTypes DEF GoodsFine, Goods, TypeOK
<1>2. h \in Debts /\ SameElsewhere(g, h) /\ LegCost(g, h, b, a, offer)
  BY <1>1, LegKept
<1> HIDE DEF g, h
<1>3. i \in Debts /\ SameElsewhere(h, i) /\ LegCost(h, i, a, b, request)
  BY <1>2, LegKept
<1> HIDE DEF i
<1>4. \A c \in Agents, x \in Items :
        /\ g.inventory[c][x] \in Nat /\ h.inventory[c][x] \in Int
        /\ i.inventory[c][x] \in Int
  BY <1>1, <1>2, <1>3 DEF Debts, Bundles
<1>5. \A x \in Items : /\ offer[x] \in Nat /\ request[x] \in Nat
                       /\ g.inventory[b][x] >= offer[x]
                       /\ g.inventory[a][x] >= request[x]
  BY <1>1 DEF Bundles, HasItems
<1>6. ASSUME NEW c \in Agents, NEW x \in Items PROVE i.inventory[c][x] >= 0
  <2>1. CASE c # a /\ c # b
    <3>1. h.inventory[c][x] >= g.inventory[c][x] /\ i.inventory[c][x] >= h.inventory[c][x]
      BY <1>2, <1>3, <2>1 DEF LegCost
    <3> QED
      BY <3>1, <1>4
  <2>2. CASE a # b /\ c = b
    <3>1. /\ g.inventory[c][x] - h.inventory[c][x] <= offer[x]
          /\ i.inventory[c][x] >= h.inventory[c][x]
      BY <1>2, <1>3, <2>2 DEF LegCost
    <3> QED
      BY <3>1, <1>4, <1>5, <2>2
  <2>3. CASE a # b /\ c = a
    <3>1. /\ h.inventory[c][x] >= g.inventory[c][x]
          /\ h.inventory[c][x] - i.inventory[c][x] <= request[x]
      BY <1>2, <1>3, <2>3 DEF LegCost
    <3> QED
      BY <3>1, <1>4, <1>5, <2>3
  <2>4. CASE a = b /\ c = a
    <3>1. /\ 4 * (g.inventory[c][x] - h.inventory[c][x]) <= offer[x]
          /\ 4 * (h.inventory[c][x] - i.inventory[c][x]) <= request[x]
      BY <1>2, <1>3, <2>4 DEF LegCost
    <3> QED
      BY <3>1, <1>4, <1>5, <2>4
  <2> QED
    BY <2>1, <2>2, <2>3, <2>4
<1>7. i \in GoodsType
  BY <1>3, <1>6, DebtsPaid
<1>8. SameElsewhere(g, i)
  BY <1>2, <1>3 DEF SameElsewhere
<1> QED
  BY <1>7, <1>8 DEF GoodsFine, g, h, i

-----------------------------------------------------------------------------
(* The parts of the invariant                                              *)

\* Claims and laws.
GroundInv ==
  /\ lands \in [LandIds -> Land \cup {None}] /\ landNum \in 0..MaxLands
  /\ laws \in [LawIds -> Law \cup {None}] /\ lawNum \in 0..MaxLaws
  /\ Numbered
  /\ LandsApart
  /\ LawsOnLand /\ LawsSane /\ TermsFromLaws

\* Organizations and their members.
PeopleInv ==
  /\ orgOf \in [Agents -> Orgs \cup {None}]
  /\ founded \subseteq Orgs /\ orgs \subseteq founded /\ elsewhere \subseteq founded
  /\ roles \in [Orgs -> [Agents -> Roles]]
  /\ RolesAgree

\* Everything else but goods.
FrameOK ==
  /\ phase \in {"boundary", "maintenance", "acts"}
  /\ clock \in 0..DayTicks - 1 /\ ops \in 0..MaxOps
  /\ here \subseteq Agents
  /\ trades \in [TradeIds -> Trade \cup {None}] /\ tradeNum \in 0..MaxTrades
  /\ block \in [Anchors -> {"AIR", "CLAIM_TOTEM", "OTHER"}]

GoodsOK ==
  /\ inventory \in [Agents -> Bundles]
  /\ treasury \in [Orgs -> Bundles]
  /\ spent \in Bundles

\* The invariant is its parts.
LEMMA Parts ==
  /\ IInv <=> FrameOK /\ GoodsOK /\ GroundInv /\ PeopleInv
  /\ FrameOK' /\ GoodsOK' /\ GroundInv' /\ PeopleInv' => IInv'
  BY DEF IInv, TypeOK, FrameOK, GoodsOK, GroundInv, PeopleInv

\* A step that only moves items, and none into an organization that is gone.
GoodsKept == GoodsOK' /\ \A o \in Orgs \ orgs : treasury'[o] = treasury[o]

GroundKept == UNCHANGED <<lands, landNum, laws, lawNum>>

OrgsKept == UNCHANGED people

LEMMA GoodsSet ==
  ASSUME TypeOK, NEW g, GoodsFine(g), SetGoods(g)
  PROVE  GoodsKept
  BY DEF GoodsKept, GoodsOK, SetGoods, GoodsFine, GoodsType, SameElsewhere, Goods

LEMMA GoodsSame ==
  ASSUME TypeOK, UNCHANGED goods
  PROVE  GoodsKept
  BY DEF GoodsKept, GoodsOK, goods, TypeOK

\* Claims and laws that do not change keep their part of the invariant.
LEMMA GroundSame ==
  ASSUME GroundInv, GroundKept
  PROVE  GroundInv'
  BY DEF GroundKept, GroundInv, Numbered, LandsApart, LawsOnLand, LawsSane,
         TermsFromLaws, Live

\* The parts of RolesAgree, of this state and of the next.
LEMMA RolesAgreement ==
  ASSUME RolesAgree
  PROVE  /\ \A a \in here : orgOf[a] # None =>
              orgOf[a] \in orgs /\ roles[orgOf[a]][a] # ""
         /\ \A o \in Orgs \ elsewhere : \A a \in Agents : orgOf[a] = o <=> roles[o][a] # ""
         /\ \A o \in orgs \ elsewhere : \E a \in Agents :
              /\ roles[o][a] = "LEADER"
              /\ \A b \in Agents : roles[o][b] = "LEADER" => b = a
         /\ \A o \in Orgs \ orgs : treasury[o] = Nothing
         /\ \A o \in Orgs \ orgs : \A a \in Agents : roles[o][a] = ""
<1>1. /\ \A a \in here : orgOf[a] # None => IsOrgMember(a, orgOf[a])
      /\ \A o \in Orgs \ elsewhere : \A a \in Agents : orgOf[a] = o <=> roles[o][a] # ""
      /\ \A o \in Orgs \ orgs : treasury[o] = Nothing
      /\ \A o \in Orgs \ orgs : Members(o) = {}
  BY DEF RolesAgree
<1>2. \A o \in orgs \ elsewhere : \E a \in Agents :
        /\ roles[o][a] = "LEADER"
        /\ \A b \in Agents : roles[o][b] = "LEADER" => b = a
  BY DEF RolesAgree
<1>3. \A o \in Orgs \ orgs : \A a \in Agents : roles[o][a] = ""
  BY <1>1 DEF Members
<1> QED
  BY <1>1, <1>2, <1>3 DEF IsOrgMember

\* Roles that are all empty are nobody's.
LEMMA NobodyIn ==
  ASSUME NEW r, \A a \in Agents : r[a] = ""
  PROVE  {a \in Agents : r[a] # ""} = {}
  OBVIOUS

LEMMA RolesAgreeNext ==
  ASSUME \A a \in here' : orgOf'[a] # None =>
           orgOf'[a] \in orgs' /\ roles'[orgOf'[a]][a] # "",
         \A o \in Orgs \ elsewhere' : \A a \in Agents :
           orgOf'[a] = o <=> roles'[o][a] # "",
         \A o \in orgs' \ elsewhere' : \E a \in Agents :
           /\ roles'[o][a] = "LEADER"
           /\ \A b \in Agents : roles'[o][b] = "LEADER" => b = a,
         \A o \in Orgs \ orgs' : treasury'[o] = Nothing,
         \A o \in Orgs \ orgs' : \A a \in Agents : roles'[o][a] = ""
  PROVE  RolesAgree'
<1>1. ASSUME NEW o \in Orgs \ orgs' PROVE Members(o)' = {}
  <2>1. \A a \in Agents : roles'[o][a] = ""
    BY <1>1
  <2>2. {a \in Agents : roles'[o][a] # ""} = {}
    BY <2>1, NobodyIn
  <2> QED
    BY <2>2 DEF Members
<1>2. \A a \in here' : orgOf'[a] # None => IsOrgMember(a, orgOf[a])'
  BY DEF IsOrgMember
<1> QED
  BY <1>1, <1>2 DEF RolesAgree

\* Organizations that do not change keep theirs, also when agents leave the
\* world.
LEMMA PeopleKept ==
  ASSUME PeopleInv, UNCHANGED <<orgOf, founded, orgs, roles, elsewhere>>,
         here' \subseteq here, GoodsKept
  PROVE  PeopleInv'
<1>1. /\ orgOf' = orgOf /\ founded' = founded /\ orgs' = orgs /\ roles' = roles
      /\ elsewhere' = elsewhere
  OBVIOUS
<1>2. \A o \in Orgs \ orgs : treasury'[o] = treasury[o]
  BY DEF GoodsKept
<1>3. RolesAgree
  BY DEF PeopleInv
<1>4. RolesAgree'
  <2>1. \A a \in here' : orgOf'[a] # None =>
          orgOf'[a] \in orgs' /\ roles'[orgOf'[a]][a] # ""
    <3>1. \A a \in here : orgOf[a] # None =>
            orgOf[a] \in orgs /\ roles[orgOf[a]][a] # ""
      BY <1>3, RolesAgreement
    <3> QED
      BY <1>1, <3>1
  <2>2. \A o \in Orgs \ elsewhere' : \A a \in Agents :
          orgOf'[a] = o <=> roles'[o][a] # ""
    <3>1. \A o \in Orgs \ elsewhere : \A a \in Agents :
            orgOf[a] = o <=> roles[o][a] # ""
      BY <1>3, RolesAgreement
    <3> QED
      BY <1>1, <3>1
  <2>3. \A o \in orgs' \ elsewhere' : \E a \in Agents :
          /\ roles'[o][a] = "LEADER"
          /\ \A b \in Agents : roles'[o][b] = "LEADER" => b = a
    <3>1. \A o \in orgs \ elsewhere : \E a \in Agents :
            /\ roles[o][a] = "LEADER"
            /\ \A b \in Agents : roles[o][b] = "LEADER" => b = a
      BY <1>3, RolesAgreement
    <3> QED
      BY <1>1, <3>1
  <2>4. \A o \in Orgs \ orgs' : treasury'[o] = Nothing
    BY <1>1, <1>2, <1>3, RolesAgreement
  <2>5. \A o \in Orgs \ orgs' : \A a \in Agents : roles'[o][a] = ""
    BY <1>1, <1>3, RolesAgreement
  <2> QED
    BY <2>1, <2>2, <2>3, <2>4, <2>5, RolesAgreeNext
<1> QED
  BY <1>1, <1>4 DEF PeopleInv

\* So does a step that leaves people alone.
LEMMA PeopleSame ==
  ASSUME PeopleInv, OrgsKept, GoodsKept
  PROVE  PeopleInv'
  BY PeopleKept DEF OrgsKept, people

\* A step that changes neither claims nor laws nor organizations.
LEMMA Quiet ==
  ASSUME IInv, FrameOK', GoodsKept, GroundKept, OrgsKept
  PROVE  IInv'
  BY Parts, GroundSame, PeopleSame DEF GoodsKept

\* What an operation of an agent leaves alone.
LEMMA ActFrame ==
  ASSUME TypeOK, NEW a, Act(a)
  PROVE  /\ phase' \in {"boundary", "maintenance", "acts"}
         /\ clock' \in 0..DayTicks - 1 /\ ops' \in 0..MaxOps
         /\ here' \subseteq Agents
         /\ OrgsKept
  BY GovernanceAssumption DEF TypeOK, Act, Asks, people, OrgsKept

-----------------------------------------------------------------------------
(* Operations that only move items or change blocks and offers             *)

\* What a law in force may ask as a tax, a fine or a ticket is in range.
LEMMA TermsSane ==
  ASSUME GroundInv, NEW l \in Live
  PROVE  /\ lands[l] \in Land
         /\ lands[l].terms["MARKET_TAX"].a \in 0..25
         /\ \A t \in {"FINE_BREAK_PER_BLOCK", "ACCESS_PASS_CORE"} :
              lands[l].terms[t].a > 0 =>
                lands[l].terms[t].item \in Items /\ lands[l].terms[t].a \in Nat
<1>1. l \in LandIds /\ lands[l] \in Land
  BY DEF Live, GroundInv
<1>2. \A t \in Templates : lands[l].terms[t] \in Params
  BY <1>1 DEF Land
<1>3. ASSUME NEW t \in Templates, lands[l].terms[t] # Off
      PROVE  \E w \in LawIds :
               /\ laws[w] # None /\ laws[w].template = t
               /\ ApplyLawTemplate(t, laws[w].params) = lands[l].terms[t]
  BY <1>3 DEF GroundInv, TermsFromLaws
<1>4. lands[l].terms["MARKET_TAX"].a \in 0..25
  <2>1. CASE lands[l].terms["MARKET_TAX"] = Off
    BY <2>1 DEF Off
  <2>2. CASE lands[l].terms["MARKET_TAX"] # Off
    <3>1. PICK w \in LawIds :
            /\ laws[w] # None /\ laws[w].template = "MARKET_TAX"
            /\ ApplyLawTemplate("MARKET_TAX", laws[w].params)
                 = lands[l].terms["MARKET_TAX"]
      BY <1>3, <2>2 DEF Templates
    <3>2. laws[w].params.a \in 0..25
      BY <3>1 DEF GroundInv, LawsSane, LawSane
    <3> QED
      BY <3>1, <3>2 DEF ApplyLawTemplate
  <2> QED
    BY <2>1, <2>2
<1>5. ASSUME NEW t \in {"FINE_BREAK_PER_BLOCK", "ACCESS_PASS_CORE"},
             lands[l].terms[t].a > 0
      PROVE  lands[l].terms[t].item \in Items /\ lands[l].terms[t].a \in Nat
  <2>1. lands[l].terms[t] # Off
    BY <1>5 DEF Off
  <2>2. PICK w \in LawIds :
          /\ laws[w] # None /\ laws[w].template = t
          /\ ApplyLawTemplate(t, laws[w].params) = lands[l].terms[t]
    BY <1>3, <2>1 DEF Templates
  <2>3. laws[w].params.item \in Items
    BY <2>2 DEF GroundInv, LawsSane, LawSane
  <2>4. lands[l].terms[t] = laws[w].params
    BY <2>1, <2>2 DEF ApplyLawTemplate
  <2>5. lands[l].terms[t].a \in Int
    BY <1>2 DEF Templates, Params
  <2> QED
    BY <1>5, <2>3, <2>4, <2>5
<1> QED
  BY <1>1, <1>4, <1>5

\* The parts of the invariant a step starts from, by name.
LEMMA Start ==
  ASSUME IInv
  PROVE  TypeOK /\ FrameOK /\ GoodsOK /\ GroundInv /\ PeopleInv
  BY Parts DEF IInv

\* What an operation of an agent may leave alone, market and blocks included.
LEMMA ActQuiet ==
  ASSUME IInv, NEW a \in Agents, Act(a), GoodsKept, UNCHANGED <<ground, statutes, market>>
  PROVE  IInv'
<1>1. FrameOK' /\ GroundKept /\ OrgsKept
  BY Start, ActFrame DEF FrameOK, ground, statutes, market, GroundKept
<1> QED
  BY <1>1, Quiet

LEMMA BreakDeniedStep ==
  ASSUME IInv, NEW a \in Agents, NEW l \in Live, BreakDenied(a, l)
  PROVE  IInv'
<1> DEFINE x == Fine(l).item
           n == AtMost(Fine(l).a, inventory[a][x])
           pay == Of(x, n)
<1>1. TypeOK /\ GroundInv
  BY Start
<1>2. Fine(l).a > 0
  BY DEF BreakDenied
<1>3. x \in Items /\ Fine(l).a \in Nat
  BY <1>1, <1>2, TermsSane DEF Fine
<1>4. inventory[a][x] \in Nat
  BY <1>1, <1>3 DEF TypeOK, Bundles
<1>5. pay \in Bundles
  BY <1>3, <1>4, BundleConstants DEF AtMost
<1>6. SetGoods(PayOwner(Take(Goods, a, pay), lands[l].owner, pay))
  BY DEF BreakDenied
<1> HIDE DEF pay
<1> DEFINE g == Take(Goods, a, pay)
<1>7. g \in GoodsType /\ SameElsewhere(Goods, g)
  BY <1>1, <1>5, GoodsTypes, Payments DEF GoodsFine
<1> HIDE DEF g
<1>8. GoodsFine(PayOwner(g, lands[l].owner, pay))
  BY <1>1, <1>5, <1>7, OwnerGoods DEF GoodsFine, SameElsewhere
<1>9. GoodsKept
  BY <1>1, <1>6, <1>8, GoodsSet DEF g
<1> QED
  BY <1>9, ActQuiet DEF BreakDenied

LEMMA EnterCoreStep ==
  ASSUME IInv, NEW a \in Agents, NEW l \in Live, EnterCore(a, l)
  PROVE  IInv'
<1> DEFINE ticket == Of(Pass(l).item, Pass(l).a)
<1>1. TypeOK /\ GroundInv
  BY Start
<1>2. Pass(l).item \in Items /\ Pass(l).a \in Nat
  BY <1>1, TermsSane DEF Pass, EnterCore
<1>3. ticket \in Bundles
  BY <1>2, BundleConstants
<1>4. SetGoods(PayOwner(Take(Goods, a, ticket), lands[l].owner, ticket))
  BY DEF EnterCore
<1> HIDE DEF ticket
<1> DEFINE g == Take(Goods, a, ticket)
<1>5. g \in GoodsType /\ SameElsewhere(Goods, g)
  BY <1>1, <1>3, GoodsTypes, Payments DEF GoodsFine
<1> HIDE DEF g
<1>6. GoodsFine(PayOwner(g, lands[l].owner, ticket))
  BY <1>1, <1>3, <1>5, OwnerGoods DEF GoodsFine, SameElsewhere
<1>7. GoodsKept
  BY <1>1, <1>4, <1>6, GoodsSet DEF g
<1> QED
  BY <1>7, ActQuiet DEF EnterCore

LEMMA OrgDepositStep ==
  ASSUME IInv, NEW a \in Agents, NEW o \in Orgs, NEW b \in Offers, OrgDeposit(a, o, b)
  PROVE  IInv'
<1> DEFINE g == Take(Goods, a, b)
           r == Plus(g.treasury[o], b)
           h == [g EXCEPT !.treasury[o] = r]
<1>1. TypeOK /\ b \in Bundles /\ o \in orgs /\ orgs \subseteq Orgs
  BY Start, GovernanceAssumption DEF OrgDeposit, IsOrgMember, TypeOK
<1>2. g \in GoodsType /\ SameElsewhere(Goods, g)
  BY <1>1, GoodsTypes, Payments DEF GoodsFine
<1>3. SetGoods(h)
  BY DEF OrgDeposit
<1> HIDE DEF g
<1>4. r \in Bundles
  BY <1>1, <1>2, BundleTypes, TreasuryPayments
<1> HIDE DEF r
<1>5. GoodsFine(h)
  BY <1>1, <1>2, <1>4, TreasuryPayments DEF GoodsFine, SameElsewhere
<1>6. GoodsKept
  BY <1>1, <1>3, <1>5, GoodsSet
<1> QED
  BY <1>6, ActQuiet DEF OrgDeposit

LEMMA OrgWithdrawStep ==
  ASSUME IInv, NEW a \in Agents, NEW o \in Orgs, NEW b \in Offers, OrgWithdraw(a, o, b)
  PROVE  IInv'
<1> DEFINE g == Give(Goods, a, b)
           r == Minus(g.treasury[o], b)
           h == [g EXCEPT !.treasury[o] = r]
<1>1. TypeOK /\ b \in Bundles /\ o \in orgs /\ orgs \subseteq Orgs
  BY Start, GovernanceAssumption DEF OrgWithdraw, IsOrgAdmin, TypeOK
<1>2. g \in GoodsType /\ SameElsewhere(Goods, g)
  BY <1>1, GoodsTypes, Payments DEF GoodsFine
<1>3. SetGoods(h)
  BY DEF OrgWithdraw
<1> HIDE DEF g
<1>4. r \in Bundles
  BY <1>1, <1>2, BundleTypes, TreasuryPayments
<1> HIDE DEF r
<1>5. GoodsFine(h)
  BY <1>1, <1>2, <1>4, TreasuryPayments DEF GoodsFine, SameElsewhere
<1>6. GoodsKept
  BY <1>1, <1>3, <1>5, GoodsSet
<1> QED
  BY <1>6, ActQuiet DEF OrgWithdraw

LEMMA OfferTradeStep ==
  ASSUME IInv, NEW a \in Agents, NEW l \in Somewhere, NEW b \in Agents,
         NEW deal \in Deals, OfferTrade(a, l, b, deal)
  PROVE  IInv'
<1> DEFINE tr == [from |-> a, to |-> b, offer |-> deal.offer, request |-> deal.request]
<1>1. TypeOK /\ GoodsKept
  BY Start, GoodsSame DEF OfferTrade
<1>2. deal \in [offer : Bundles \ {Nothing}, request : Bundles \ {Nothing}]
  BY GovernanceAssumption
<1>3. tr \in Trade
  BY <1>2 DEF Trade
<1>4. /\ tradeNum + 1 \in 0..MaxTrades
      /\ trades' = [trades EXCEPT ![tradeNum + 1] = tr] /\ tradeNum' = tradeNum + 1
  BY <1>1, GovernanceAssumption DEF OfferTrade, TypeOK
<1> HIDE DEF tr
<1>5. trades' \in [TradeIds -> Trade \cup {None}] /\ tradeNum' \in 0..MaxTrades
  BY <1>1, <1>3, <1>4 DEF TypeOK
<1>6. FrameOK' /\ GroundKept /\ OrgsKept
  BY <1>1, <1>5, Start, ActFrame DEF OfferTrade, FrameOK, ground, statutes, GroundKept
<1> QED
  BY <1>1, <1>6, Quiet

LEMMA DeclineTradeStep ==
  ASSUME IInv, NEW a \in Agents, NEW t \in TradeIds, DeclineTrade(a, t)
  PROVE  IInv'
<1>1. TypeOK /\ GoodsKept
  BY Start, GoodsSame DEF DeclineTrade
<1>2. /\ trades' = [trades EXCEPT ![t] = None] /\ tradeNum' = tradeNum /\ Act(a)
      /\ UNCHANGED <<ground, statutes>>
  BY DEF DeclineTrade, Addressed
<1>3. FrameOK' /\ GroundKept /\ OrgsKept
  BY <1>1, <1>2, Start, ActFrame DEF FrameOK, ground, statutes, GroundKept
<1> QED
  BY <1>1, <1>3, Quiet

LEMMA AcceptTradeStep ==
  ASSUME IInv, NEW a \in Agents, NEW t \in TradeIds, NEW lf \in Somewhere,
         NEW lt \in Somewhere, NEW week \in BOOLEAN, AcceptTrade(a, t, lf, lt, week)
  PROVE  IInv'
<1> DEFINE tr == trades[t]
           rate == TradeTax(lf, lt, week)
           owner == IF lf = None THEN None ELSE lands[lf].owner
<1>1. TypeOK /\ GroundInv
  BY Start
<1>2. tr \in Trade /\ tr.to = a
  BY <1>1 DEF AcceptTrade, Addressed, TypeOK
<1>3. /\ tr.from \in Agents /\ tr.offer \in Bundles /\ tr.request \in Bundles
      /\ HasItems(inventory[tr.from], tr.offer) /\ HasItems(inventory[a], tr.request)
  BY <1>2 DEF Trade, AcceptTrade, BothHave
<1>4. rate \in 0..25
  <2>1. CASE lf = None
    BY <2>1 DEF TradeTax
  <2>2. CASE lf # None
    <3>1. lands[lf].terms["MARKET_TAX"].a \in 0..25
      BY <1>1, <2>2, TermsSane DEF Somewhere
    <3> QED
      BY <2>2, <3>1 DEF TradeTax, EffectiveMarketTax
  <2> QED
    BY <2>1, <2>2
<1>5. SetGoods(TransferWithTax(TransferWithTax(Goods, tr.from, a, tr.offer, rate, owner),
                               a, tr.from, tr.request, rate, owner))
  BY DEF AcceptTrade
<1> HIDE DEF tr, rate, owner
<1>6. GoodsFine(TransferWithTax(TransferWithTax(Goods, tr.from, a, tr.offer, rate, owner),
                                a, tr.from, tr.request, rate, owner))
  BY <1>1, <1>3, <1>4, TradeGoods
<1>7. GoodsKept
  BY <1>1, <1>5, <1>6, GoodsSet
<1>8. /\ trades' = [trades EXCEPT ![t] = None] /\ tradeNum' = tradeNum /\ Act(a)
      /\ UNCHANGED <<ground, statutes>>
  BY DEF AcceptTrade, Addressed
<1>9. FrameOK' /\ GroundKept /\ OrgsKept
  BY <1>1, <1>8, Start, ActFrame DEF FrameOK, ground, statutes, GroundKept
<1> QED
  BY <1>7, <1>9, Quiet

LEMMA PlaceBlockStep ==
  ASSUME IInv, NEW a \in Agents, NEW p \in Anchors, NEW kind \in Kinds,
         PlaceBlock(a, p, kind)
  PROVE  IInv'
<1>1. TypeOK /\ GoodsKept
  BY Start, GoodsSame DEF PlaceBlock
<1>2. kind \in {"AIR", "CLAIM_TOTEM", "OTHER"}
  BY GovernanceAssumption
<1>3. FrameOK' /\ GroundKept /\ OrgsKept
  BY <1>1, <1>2, Start, ActFrame
     DEF PlaceBlock, FrameOK, statutes, market, GroundKept
<1> QED
  BY <1>1, <1>3, Quiet

LEMMA OverwriteStep ==
  ASSUME IInv, NEW p \in Anchors, Overwrite(p)
  PROVE  IInv'
<1>1. TypeOK /\ GoodsKept
  BY Start, GoodsSame DEF Overwrite
<1>2. FrameOK' /\ GroundKept /\ OrgsKept
  BY <1>1, Start, GovernanceAssumption
     DEF Overwrite, FrameOK, statutes, market, people, GroundKept, OrgsKept
<1> QED
  BY <1>1, <1>2, Quiet

\* An agent who leaves takes its trades along and no membership.
LEMMA DepartStep ==
  ASSUME IInv, NEW a \in Agents, Depart(a)
  PROVE  IInv'
<1>1. TypeOK /\ FrameOK /\ GroundInv /\ PeopleInv /\ GoodsKept
  BY Start, GoodsSame DEF Depart
<1>2. /\ phase' = phase /\ clock' = clock /\ ops' \in 0..MaxOps
      /\ here' \subseteq Agents /\ here' \subseteq here
      /\ tradeNum' = tradeNum /\ block' = block
  BY <1>1, GovernanceAssumption DEF Depart, FrameOK, ground
<1>3. trades' \in [TradeIds -> Trade \cup {None}]
  BY <1>1 DEF Depart, FrameOK
<1>4. FrameOK'
  BY <1>1, <1>2, <1>3 DEF FrameOK
<1>5. GroundInv'
  BY <1>1, GroundSame DEF Depart, ground, statutes, GroundKept
<1>6. PeopleInv'
  BY <1>1, <1>2, PeopleKept DEF Depart
<1> QED
  BY <1>1, <1>4, <1>5, <1>6, Parts DEF GoodsKept

LEMMA BeginStepStep ==
  ASSUME IInv, BeginStep
  PROVE  IInv'
<1>1. TypeOK /\ GoodsKept
  BY Start, GoodsSame DEF BeginStep
<1>2. FrameOK' /\ GroundKept /\ OrgsKept
  BY <1>1, Start DEF BeginStep, AfterMaintenance, FrameOK, people, ground, statutes,
     market, GroundKept, OrgsKept
<1> QED
  BY <1>1, <1>2, Quiet

-----------------------------------------------------------------------------
(* Claims and laws                                                         *)

\* What the squares and the terms of a claim depend on.
SameClaim(k, l) == k.anchor = l.anchor /\ k.radius = l.radius /\ k.terms = l.terms

\* A change of one or two fields leaves a claim.
LEMMA ClaimEdits ==
  ASSUME NEW land \in Land
  PROVE  /\ \A f \in SUBSET Rights :
              /\ [land EXCEPT !.flags = f] \in Land
              /\ SameClaim([land EXCEPT !.flags = f], land)
         /\ \A m \in SUBSET Agents :
              /\ [land EXCEPT !.members = m] \in Land
              /\ SameClaim([land EXCEPT !.members = m], land)
         /\ \A o \in Owners :
              /\ [land EXCEPT !.owner = o] \in Land
              /\ SameClaim([land EXCEPT !.owner = o], land)
         /\ \A s \in 0..2, d \in 0..DayTicks :
              /\ [land EXCEPT !.stage = s, !.due = d] \in Land
              /\ SameClaim([land EXCEPT !.stage = s, !.due = d], land)
  BY DEF Land, SameClaim

\* Claims that only go, or change neither anchor nor radius, stay apart.
LEMMA SquaresKept ==
  ASSUME LandsApart,
         \A l \in LandIds : lands'[l] # None =>
           /\ lands[l] # None
           /\ lands'[l].anchor = lands[l].anchor /\ lands'[l].radius = lands[l].radius
  PROVE  LandsApart'
  BY DEF LandsApart, Live, Overlaps

\* Claims that keep their terms keep the laws these come from.
LEMMA TermsKept ==
  ASSUME TermsFromLaws,
         \A l \in LandIds : lands'[l] # None =>
           lands[l] # None /\ lands'[l].terms = lands[l].terms,
         \A w \in LawIds :
           laws[w] # None /\ laws[w].status = "ACTIVE" /\ lands'[laws[w].land] # None
             => laws'[w] = laws[w]
  PROVE  TermsFromLaws'
<1> SUFFICES ASSUME NEW l \in LandIds, lands'[l] # None,
                    NEW t \in Templates, lands'[l].terms[t] # Off
             PROVE  \E w \in LawIds :
               /\ laws'[w] # None
               /\ laws'[w].land = l /\ laws'[w].template = t
               /\ laws'[w].status = "ACTIVE"
               /\ ApplyLawTemplate(t, laws'[w].params) = lands'[l].terms[t]
               /\ Votes(laws'[w], "YES") > Votes(laws'[w], "NO")
  BY DEF TermsFromLaws, Live
<1>1. l \in Live /\ lands[l].terms[t] # Off /\ lands'[l].terms = lands[l].terms
  BY DEF Live
<1>2. PICK w \in LawIds :
        /\ laws[w] # None
        /\ laws[w].land = l /\ laws[w].template = t /\ laws[w].status = "ACTIVE"
        /\ ApplyLawTemplate(t, laws[w].params) = lands[l].terms[t]
        /\ Votes(laws[w], "YES") > Votes(laws[w], "NO")
  BY <1>1 DEF TermsFromLaws
<1>3. laws'[w] = laws[w]
  BY <1>2
<1> QED
  BY <1>1, <1>2, <1>3

\* One claim changes something but its square and its terms.
LEMMA ClaimEdited ==
  ASSUME GroundInv, NEW l \in Live, NEW land \in Land, SameClaim(land, lands[l]),
         lands' = [lands EXCEPT ![l] = land], UNCHANGED <<landNum, laws, lawNum>>
  PROVE  GroundInv'
<1>0. l \in LandIds /\ lands[l] # None
  BY DEF Live
<1>1. /\ lands' \in [LandIds -> Land \cup {None}]
      /\ \A k \in LandIds : /\ lands'[k] # None <=> lands[k] # None
                            /\ lands'[k] # None => SameClaim(lands'[k], lands[k])
  BY <1>0, NoneAssumption DEF GroundInv, SameClaim
<1>2. LandsApart'
  BY <1>1, SquaresKept DEF GroundInv, SameClaim
<1>3. TermsFromLaws'
  BY <1>1, TermsKept DEF GroundInv, SameClaim
<1>4. Numbered' /\ LawsOnLand' /\ LawsSane'
  BY <1>0, <1>1 DEF GroundInv, Numbered, LawsOnLand, LawsSane, Live
<1> QED
  BY <1>1, <1>2, <1>3, <1>4 DEF GroundInv

\* An administrator edits the claim (SetPermissions, members, deeds).
LEMMA SetLandStep ==
  ASSUME IInv, NEW a \in Agents, NEW l \in LandIds, NEW land,
         SetLand(a, l, land),
         lands[l] \in Land => land \in Land /\ SameClaim(land, lands[l])
  PROVE  IInv'
<1>1. TypeOK /\ GroundInv /\ PeopleInv /\ GoodsKept
  BY Start, GoodsSame DEF SetLand
<1>2. l \in Live /\ lands[l] \in Land
  BY <1>1 DEF SetLand, Administers, Live, GroundInv
<1>3. GroundInv'
  BY <1>1, <1>2, ClaimEdited DEF SetLand, statutes
<1>4. FrameOK' /\ OrgsKept
  BY <1>1, Start, ActFrame DEF SetLand, FrameOK, market
<1> QED
  BY <1>1, <1>3, <1>4, PeopleSame, Parts DEF GoodsKept

LEMMA ClaimEditsSteps ==
  ASSUME IInv, NEW a \in Agents, NEW l \in LandIds
  PROVE  /\ \A policy \in Policies : SetPermissions(a, l, policy) => IInv'
         /\ \A b \in Agents : AddMember(a, l, b) \/ RemoveMember(a, l, b) => IInv'
         /\ \A o \in Owners : DeedLand(a, l, o) => IInv'
<1>1. ASSUME NEW policy \in Policies, SetPermissions(a, l, policy) PROVE IInv'
  <2> DEFINE f == ApplyPolicyFlags(lands[l].flags, policy)
             land == [lands[l] EXCEPT !.flags = f]
  <2>1. policy \in [grant : SUBSET Rights, deny : SUBSET Rights]
    BY GovernanceAssumption
  <2>2. lands[l] \in Land => f \in SUBSET Rights
    BY <2>1 DEF ApplyPolicyFlags, Land
  <2>3. SetLand(a, l, land)
    BY <1>1 DEF SetPermissions
  <2> HIDE DEF f
  <2>4. lands[l] \in Land => land \in Land /\ SameClaim(land, lands[l])
    BY <2>2, ClaimEdits
  <2> QED
    BY <2>3, <2>4, SetLandStep
<1>2. ASSUME NEW b \in Agents, NEW m,
             m \in {lands[l].members \cup {b}, lands[l].members \ {b}},
             SetLand(a, l, [lands[l] EXCEPT !.members = m])
      PROVE  IInv'
  <2> DEFINE land == [lands[l] EXCEPT !.members = m]
  <2>1. lands[l] \in Land => m \in SUBSET Agents
    BY <1>2 DEF Land
  <2>2. lands[l] \in Land => land \in Land /\ SameClaim(land, lands[l])
    BY <2>1, ClaimEdits
  <2> QED
    BY <1>2, <2>2, SetLandStep
<1>3. ASSUME NEW b \in Agents, AddMember(a, l, b) PROVE IInv'
  BY <1>2, <1>3 DEF AddMember
<1>4. ASSUME NEW b \in Agents, RemoveMember(a, l, b) PROVE IInv'
  BY <1>2, <1>4 DEF RemoveMember
<1>5. ASSUME NEW o \in Owners, DeedLand(a, l, o) PROVE IInv'
  <2> DEFINE land == [lands[l] EXCEPT !.owner = o]
  <2>1. lands[l] \in Land => land \in Land /\ SameClaim(land, lands[l])
    BY ClaimEdits
  <2> QED
    BY <1>5, <2>1, SetLandStep DEF DeedLand
<1> QED
  BY <1>1, <1>3, <1>4, <1>5

\* The payment of a maintenance leaves goods.
LEMMA MaintenanceGoods ==
  ASSUME TypeOK, NEW o, CanPay(o)
  PROVE  GoodsFine(PayMaintenance(o))
<1>0. /\ MaintenanceCost \in Bundles /\ orgs \subseteq Orgs /\ here \subseteq Agents
      /\ GoodsFine(Goods)
  BY GovernanceAssumption, GoodsTypes DEF TypeOK
<1>1. CASE o \in orgs
  <2> DEFINE r == Minus(Goods.treasury[o], MaintenanceCost)
             g == [Goods EXCEPT !.treasury[o] = r]
  <2>1. r \in Bundles
    BY <1>0, <1>1, BundleTypes, TreasuryPayments DEF GoodsFine
  <2>2. PayMaintenance(o) = Spend(g, MaintenanceCost)
    BY <1>1 DEF PayMaintenance
  <2> HIDE DEF r
  <2>3. GoodsFine(g)
    BY <1>0, <1>1, <2>1, TreasuryPayments DEF GoodsFine
  <2> HIDE DEF g
  <2>4. Spend(g, MaintenanceCost) \in GoodsType
        /\ SameElsewhere(g, Spend(g, MaintenanceCost))
    BY <1>0, <2>3, BundleTypes DEF GoodsFine, GoodsType, Spend, SameElsewhere
  <2> QED
    BY <2>2, <2>3, <2>4 DEF GoodsFine, SameElsewhere
<1>2. CASE o \notin orgs
  <2> DEFINE g == Take(Goods, o, MaintenanceCost)
  <2>1. o \in Agents
    BY <1>0, <1>2 DEF CanPay
  <2>2. PayMaintenance(o) = Spend(g, MaintenanceCost)
    BY <1>2 DEF PayMaintenance
  <2>3. GoodsFine(g)
    BY <1>0, <2>1, Payments DEF GoodsFine
  <2> HIDE DEF g
  <2>4. Spend(g, MaintenanceCost) \in GoodsType
        /\ SameElsewhere(g, Spend(g, MaintenanceCost))
    BY <1>0, <2>1, <2>3, Payments DEF GoodsFine
  <2> QED
    BY <2>2, <2>3, <2>4 DEF GoodsFine, SameElsewhere
<1> QED
  BY <1>1, <1>2

LEMMA MaintainClaimStep ==
  ASSUME IInv, NEW l \in LandIds, MaintainClaim(l)
  PROVE  IInv'
<1> DEFINE paid == CanPay(lands[l].owner)
           land == [lands[l] EXCEPT !.stage = NextStage(lands[l].stage, paid),
                                    !.due = DayTicks]
<1>1. TypeOK /\ GroundInv /\ PeopleInv
  BY Start
<1>2. l \in Live /\ lands[l] \in Land
  BY <1>1 DEF MaintainClaim, DueLands, Live, GroundInv
<1>3. NextStage(lands[l].stage, paid) \in 0..2 /\ DayTicks \in 0..DayTicks
  BY <1>2, GovernanceAssumption DEF NextStage, Land
<1>4. land \in Land /\ SameClaim(land, lands[l])
  BY <1>2, <1>3, ClaimEdits
<1>5. lands' = [lands EXCEPT ![l] = land] /\ UNCHANGED <<landNum, laws, lawNum>>
  BY <1>1, <1>2 DEF MaintainClaim, statutes, GroundInv
<1>6. GroundInv'
  <2> HIDE DEF land
  <2> QED
    BY <1>1, <1>2, <1>4, <1>5, ClaimEdited
<1>7. GoodsKept
  <2>1. CASE paid
    BY <1>1, <2>1, MaintenanceGoods, GoodsSet DEF MaintainClaim
  <2>2. CASE ~paid
    BY <1>1, <2>2, GoodsTypes, GoodsSet DEF MaintainClaim
  <2> QED
    BY <2>1, <2>2
<1>8. FrameOK' /\ OrgsKept
  BY <1>1 DEF TypeOK, MaintainClaim, AfterMaintenance, FrameOK, people, market, OrgsKept
<1> QED
  BY <1>1, <1>6, <1>7, <1>8, PeopleSame, Parts DEF GoodsKept

\* Squares are as near to each other as to one another.
LEMMA NearSymmetric ==
  ASSUME NEW p \in Positions, NEW q \in Positions, NEW d \in Int
  PROVE  Near(p, q, d) <=> Near(q, p, d)
  BY DEF Near, Abs, Positions

\* The squares of two claims that meet meet from either side.
LEMMA OverlapsSymmetric ==
  ASSUME NEW k \in Land, NEW l \in Land
  PROVE  Overlaps(k.anchor, k.radius, l) <=> Overlaps(l.anchor, l.radius, k)
<1>0. /\ k.anchor \in Anchors /\ l.anchor \in Anchors
      /\ k.radius \in 1..128 /\ l.radius \in 1..128
  BY DEF Land
<1>1. /\ k.anchor \in Positions /\ l.anchor \in Positions
      /\ k.radius + l.radius = l.radius + k.radius /\ k.radius + l.radius \in Int
  <2>1. Anchors \subseteq Positions
    BY GovernanceAssumption
  <2>2. k.anchor \in Positions /\ l.anchor \in Positions
    BY <1>0, <2>1
  <2> DEFINE r == k.radius
             s == l.radius
  <2>3. r \in 1..128 /\ s \in 1..128
    BY <1>0
  <2> HIDE DEF r, s
  <2>4. r + s = s + r /\ r + s \in Int
    BY <2>3
  <2> QED
    BY <2>2, <2>4 DEF r, s
<1>2. PICK d \in Int : d = k.radius + l.radius
  BY <1>1
<1>3. /\ Overlaps(k.anchor, k.radius, l) <=> Near(k.anchor, l.anchor, d)
      /\ Overlaps(l.anchor, l.radius, k) <=> Near(l.anchor, k.anchor, d)
  BY <1>1, <1>2 DEF Overlaps, Near
<1> QED
  BY <1>1, <1>3, NearSymmetric

\* The price of a claim, or of growing it, is paid.
LEMMA PricePaid ==
  ASSUME TypeOK, NEW a \in Agents, NEW b \in Bundles,
         SetGoods(Spend(Take(Goods, a, b), b))
  PROVE  GoodsKept
<1> DEFINE g == Take(Goods, a, b)
<1>1. GoodsFine(g)
  BY GoodsTypes, Payments DEF GoodsFine
<1> HIDE DEF g
<1>2. GoodsFine(Spend(g, b))
  BY <1>1, Payments DEF GoodsFine, SameElsewhere
<1> QED
  BY <1>2, GoodsSet DEF g

LEMMA ClaimLandStep ==
  ASSUME IInv, NEW a \in Agents, NEW p \in Anchors, NEW asked \in Radii,
         ClaimLand(a, p, asked)
  PROVE  IInv'
<1> DEFINE r == ClampRadius(asked)
           n == landNum + 1
           land == NewLand(a, p, r)
<1>1. TypeOK /\ GroundInv /\ PeopleInv
  BY Start
<1>2. r \in 1..128
  BY GovernanceAssumption DEF ClampRadius
<1>3. /\ n \in LandIds /\ n \in 0..MaxLands /\ lands[n] = None
      /\ landNum' = n /\ \A l \in LandIds : l > n => l > landNum
  <2>1. landNum \in 0..MaxLands /\ landNum < MaxLands /\ MaxLands \in Nat
    BY <1>1, GovernanceAssumption DEF ClaimLand, GroundInv
  <2>2. n \in LandIds /\ n \in 0..MaxLands /\ n > landNum
    BY <2>1 DEF LandIds
  <2>3. \A l \in LandIds : l > n => l > landNum
    BY <2>1 DEF LandIds
  <2>4. lands[n] = None
    BY <1>1, <2>2 DEF GroundInv, Numbered
  <2> QED
    BY <2>2, <2>3, <2>4 DEF ClaimLand
<1>4. /\ land \in Land /\ land.anchor = p /\ land.radius = r
      /\ land.terms = [t \in Templates |-> Off]
  <2>1. [t \in Templates |-> Off] \in [Templates -> Params]
    BY DEF Off, Params
  <2>2. DefaultFlags(WorldType) \in SUBSET Rights
    BY DEF DefaultFlags, Rights
  <2>3. DayTicks \in 0..DayTicks /\ a \in Owners /\ 0 \in 0..2
    BY GovernanceAssumption DEF Owners
  <2> QED
    BY <1>2, <2>1, <2>2, <2>3 DEF NewLand, Land
<1>5. lands' = [lands EXCEPT ![n] = land] /\ UNCHANGED <<laws, lawNum>>
  BY DEF ClaimLand, statutes
<1>6. \A l \in LandIds : lands[l] # None => ~Overlaps(p, r, lands[l])
  BY DEF ClaimLand, Live
<1> HIDE DEF land, r
<1>7. /\ lands' \in [LandIds -> Land \cup {None}]
      /\ \A l \in LandIds : lands'[l] = IF l = n THEN land ELSE lands[l]
      /\ land # None
  BY <1>1, <1>3, <1>4, <1>5, NoneAssumption DEF GroundInv
<1> HIDE DEF n
<1>8. LandsApart'
  <2> SUFFICES ASSUME NEW k \in LandIds, NEW l \in LandIds, k # l,
                      lands'[k] # None, lands'[l] # None
               PROVE  ~Overlaps(lands'[k].anchor, lands'[k].radius, lands'[l])
    BY DEF LandsApart, Live
  <2>1. CASE k = n
    <3>1. lands'[k] = land /\ lands'[l] = lands[l]
      BY <1>7, <2>1
    <3> QED
      BY <1>4, <1>6, <3>1
  <2>2. CASE l = n
    <3>1. lands'[l] = land /\ lands'[k] = lands[k] /\ lands[k] \in Land
      BY <1>1, <1>7, <2>2 DEF GroundInv
    <3>2. ~Overlaps(land.anchor, land.radius, lands[k])
      BY <1>4, <1>6, <3>1
    <3> QED
      BY <1>4, <3>1, <3>2, OverlapsSymmetric
  <2>3. CASE k # n /\ l # n
    BY <1>1, <1>7, <2>3 DEF GroundInv, LandsApart, Live
  <2> QED
    BY <2>1, <2>2, <2>3
<1>9. TermsFromLaws'
  <2> SUFFICES ASSUME NEW l \in LandIds, lands'[l] # None,
                      NEW t \in Templates, lands'[l].terms[t] # Off
               PROVE  \E w \in LawIds :
                 /\ laws[w] # None
                 /\ laws[w].land = l /\ laws[w].template = t
                 /\ laws[w].status = "ACTIVE"
                 /\ ApplyLawTemplate(t, laws[w].params) = lands'[l].terms[t]
                 /\ Votes(laws[w], "YES") > Votes(laws[w], "NO")
    BY <1>5 DEF TermsFromLaws, Live
  <2>1. l # n
    BY <1>4, <1>7
  <2>2. lands'[l] = lands[l] /\ l \in Live
    BY <1>7, <2>1 DEF Live
  <2> QED
    BY <1>1, <2>2 DEF GroundInv, TermsFromLaws
<1>10. Numbered' /\ LawsOnLand' /\ LawsSane'
  BY <1>1, <1>3, <1>5, <1>7 DEF GroundInv, Numbered, LawsOnLand, LawsSane, Live
<1>11. GroundInv'
  BY <1>1, <1>3, <1>5, <1>7, <1>8, <1>9, <1>10 DEF GroundInv
<1>12. GoodsKept
  BY <1>1, GovernanceAssumption, PricePaid DEF ClaimLand
<1>13. FrameOK' /\ OrgsKept
  BY <1>1, Start, ActFrame DEF ClaimLand, FrameOK, market
<1> QED
  BY <1>1, <1>11, <1>12, <1>13, PeopleSame, Parts DEF GoodsKept

LEMMA UpgradeClaimStep ==
  ASSUME IInv, NEW a \in Agents, NEW l \in Live, NEW r \in Radii, UpgradeClaim(a, l, r)
  PROVE  IInv'
<1> DEFINE land == [lands[l] EXCEPT !.radius = r]
           cost == UpgradeCost(lands[l].radius, r)
<1>1. TypeOK /\ GroundInv /\ PeopleInv
  BY Start
<1>2. l \in LandIds /\ lands[l] \in Land /\ lands[l] # None
  BY <1>1 DEF Live, GroundInv
<1>3. r \in {64, 128} /\ r \in 1..128
  BY DEF UpgradeClaim, ValidateUpgradeRadius
<1>4. /\ land \in Land /\ land.anchor = lands[l].anchor
      /\ land.radius = r /\ land.terms = lands[l].terms
  BY <1>2, <1>3 DEF Land
<1>5. lands' = [lands EXCEPT ![l] = land] /\ UNCHANGED <<landNum, laws, lawNum>>
  BY DEF UpgradeClaim, statutes
<1>6. \A k \in LandIds : k # l /\ lands[k] # None =>
        ~Overlaps(lands[l].anchor, r, lands[k])
  BY DEF UpgradeClaim, UpgradeOverlaps, Overlaps, Live
<1> HIDE DEF land
<1>7. /\ lands' \in [LandIds -> Land \cup {None}]
      /\ \A k \in LandIds : lands'[k] = IF k = l THEN land ELSE lands[k]
      /\ land # None
  BY <1>1, <1>2, <1>4, <1>5, NoneAssumption DEF GroundInv
<1>8. LandsApart'
  <2> SUFFICES ASSUME NEW k \in LandIds, NEW m \in LandIds, k # m,
                      lands'[k] # None, lands'[m] # None
               PROVE  ~Overlaps(lands'[k].anchor, lands'[k].radius, lands'[m])
    BY DEF LandsApart, Live
  <2>1. CASE k = l
    <3>1. lands'[k] = land /\ lands'[m] = lands[m]
      BY <1>7, <2>1
    <3> QED
      BY <1>4, <1>6, <2>1, <3>1
  <2>2. CASE m = l
    <3>1. lands'[m] = land /\ lands'[k] = lands[k] /\ lands[k] \in Land
      BY <1>1, <1>7, <2>2 DEF GroundInv
    <3>2. ~Overlaps(land.anchor, land.radius, lands[k])
      BY <1>4, <1>6, <2>2, <3>1
    <3> QED
      BY <1>4, <3>1, <3>2, OverlapsSymmetric
  <2>3. CASE k # l /\ m # l
    BY <1>1, <1>7, <2>3 DEF GroundInv, LandsApart, Live
  <2> QED
    BY <2>1, <2>2, <2>3
<1>9. TermsFromLaws'
  <2>1. \A k \in LandIds : lands'[k] # None =>
          lands[k] # None /\ lands'[k].terms = lands[k].terms
    BY <1>2, <1>4, <1>7
  <2> QED
    BY <1>1, <1>5, <2>1, TermsKept DEF GroundInv
<1>10. Numbered' /\ LawsOnLand' /\ LawsSane'
  BY <1>1, <1>2, <1>5, <1>7 DEF GroundInv, Numbered, LawsOnLand, LawsSane, Live
<1>11. GroundInv'
  BY <1>1, <1>5, <1>7, <1>8, <1>9, <1>10 DEF GroundInv
<1>12. GoodsKept
  <2>1. lands[l].radius \in 1..128
    BY <1>2 DEF Land
  <2>2. cost \in Bundles
    BY <1>3, <2>1, GovernanceAssumption
  <2>3. SetGoods(Spend(Take(Goods, a, cost), cost))
    BY DEF UpgradeClaim
  <2> HIDE DEF cost
  <2> QED
    BY <1>1, <2>2, <2>3, PricePaid
<1>13. FrameOK' /\ OrgsKept
  BY <1>1, Start, ActFrame DEF UpgradeClaim, FrameOK, market
<1> QED
  BY <1>1, <1>11, <1>12, <1>13, PeopleSame, Parts DEF GoodsKept

LEMMA BreakBlockStep ==
  ASSUME IInv, NEW a \in Agents, NEW p \in Anchors, BreakBlock(a, p)
  PROVE  IInv'
<1>1. TypeOK /\ GroundInv /\ PeopleInv /\ GoodsKept
  BY Start, GoodsSame DEF BreakBlock
<1>2. FrameOK' /\ OrgsKept
  <2>1. block' = [block EXCEPT ![p] = "AIR"] /\ Act(a) /\ UNCHANGED market
    BY DEF BreakBlock
  <2> QED
    BY <1>1, <2>1, Start, ActFrame DEF FrameOK, market
<1>3. CASE UNCHANGED <<lands, laws>>
  BY <1>1, <1>2, <1>3, Quiet DEF BreakBlock, GroundKept
<1>4. CASE RemoveClaimByAnchor(p)
  <2>1. /\ \A l \in LandIds : lands'[l] = IF l \in ClaimOf(p) THEN None ELSE lands[l]
        /\ \A w \in LawIds : laws'[w] = IF laws[w] # None /\ laws[w].land \in ClaimOf(p)
                                        THEN None ELSE laws[w]
        /\ lands' \in [LandIds -> Land \cup {None}]
        /\ laws' \in [LawIds -> Law \cup {None}]
        /\ landNum' = landNum /\ lawNum' = lawNum
    BY <1>1, <1>4 DEF RemoveClaimByAnchor, GroundInv, BreakBlock
  <2>2. LandsApart'
    <3>1. \A l \in LandIds : lands'[l] # None =>
            /\ lands[l] # None
            /\ lands'[l].anchor = lands[l].anchor /\ lands'[l].radius = lands[l].radius
      BY <2>1
    <3> QED
      BY <1>1, <3>1, SquaresKept DEF GroundInv
  <2>3. TermsFromLaws'
    <3>1. \A l \in LandIds : lands'[l] # None =>
            lands[l] # None /\ lands'[l].terms = lands[l].terms
      BY <2>1
    <3>2. \A w \in LawIds :
            laws[w] # None /\ laws[w].status = "ACTIVE" /\ lands'[laws[w].land] # None
              => laws'[w] = laws[w]
      <4>1. \A w \in LawIds : laws[w] # None => laws[w].land \in LandIds
        BY <1>1 DEF GroundInv, Law
      <4> QED
        BY <2>1, <4>1
    <3> QED
      BY <1>1, <3>1, <3>2, TermsKept DEF GroundInv
  <2>4. Numbered' /\ LawsSane'
    BY <1>1, <2>1 DEF GroundInv, Numbered, LawsSane
  <2>5. LawsOnLand'
    BY <1>1, <2>1 DEF GroundInv, LawsOnLand, Live
  <2>6. GroundInv'
    BY <1>1, <2>1, <2>2, <2>3, <2>4, <2>5 DEF GroundInv
  <2> QED
    BY <1>1, <1>2, <2>6, PeopleSame, Parts DEF GoodsKept
<1> QED
  BY <1>3, <1>4 DEF BreakBlock

\* The parameters a law is proposed with are in range.
LEMMA BillSane ==
  ASSUME NEW bill \in Bills
  PROVE  LET p == NormalizeLawParams(bill.template, bill.params, DayTicks)
         IN  /\ bill.template \in Templates /\ p \in Params
             /\ bill.template = "MARKET_TAX" => p.a \in 0..25
             /\ bill.template \in {"FINE_BREAK_PER_BLOCK", "ACCESS_PASS_CORE"}
                  => p.item \in Items
<1>1. bill.template \in Templates /\ bill.params \in Params
  BY GovernanceAssumption
<1>2. bill.template \in {"FINE_BREAK_PER_BLOCK", "ACCESS_PASS_CORE"}
        => bill.params.item \in Items
  BY GovernanceAssumption
<1>3. /\ DayTicks \in Nat /\ bill.params.item \in Items \cup {None}
      /\ bill.params.a \in Int /\ bill.params.b \in Int
  BY <1>1, GovernanceAssumption DEF Params
<1>4. \A n \in Int : /\ Clamp(n, 0, 25) \in 0..25 /\ Clamp(n, 0, DayTicks) \in Int
                     /\ Clamp(n, 0, 100) \in Int /\ Clamp(n, 0, 64) \in Int
  BY <1>3 DEF Clamp
<1>5. CASE bill.template = "MARKET_TAX"
  BY <1>1, <1>3, <1>4, <1>5 DEF NormalizeLawParams, Params
<1>6. CASE bill.template = "CURFEW_NO_BUILD"
  BY <1>1, <1>3, <1>4, <1>6 DEF NormalizeLawParams, Params
<1>7. CASE bill.template = "FINE_BREAK_PER_BLOCK"
  BY <1>1, <1>2, <1>3, <1>4, <1>7 DEF NormalizeLawParams, Params
<1>8. CASE bill.template = "ACCESS_PASS_CORE"
  BY <1>1, <1>2, <1>3, <1>4, <1>8 DEF NormalizeLawParams, Params
<1> QED
  BY <1>1, <1>5, <1>6, <1>7, <1>8 DEF Templates

LEMMA ProposeLawStep ==
  ASSUME IInv, NEW a \in Agents, NEW l \in Live, NEW bill \in Bills, ProposeLaw(a, l, bill)
  PROVE  IInv'
<1> DEFINE n == lawNum + 1
           p == NormalizeLawParams(bill.template, bill.params, DayTicks)
           law == [land |-> l, template |-> bill.template, params |-> p,
                   status |-> "NOTICE", notice |-> NoticeTicks,
                   vote |-> NoticeTicks + VoteTicks, votes |-> [b \in Agents |-> ""]]
<1>1. TypeOK /\ GroundInv /\ PeopleInv /\ GoodsKept
  BY Start, GoodsSame DEF ProposeLaw
<1>2. /\ n \in LawIds /\ n \in 0..MaxLaws /\ laws[n] = None
      /\ \A w \in LawIds : w > n => w > lawNum
  <2>1. lawNum \in 0..MaxLaws /\ lawNum < MaxLaws /\ MaxLaws \in Nat
    BY <1>1, GovernanceAssumption DEF ProposeLaw, GroundInv
  <2>2. n \in LawIds /\ n \in 0..MaxLaws /\ n > lawNum
    BY <2>1 DEF LawIds
  <2>3. \A w \in LawIds : w > n => w > lawNum
    BY <2>1 DEF LawIds
  <2>4. laws[n] = None
    BY <1>1, <2>2 DEF GroundInv, Numbered
  <2> QED
    BY <2>2, <2>3, <2>4
<1>3. laws' = [laws EXCEPT ![n] = law] /\ lawNum' = n /\ UNCHANGED <<lands, landNum>>
  BY DEF ProposeLaw, ground
<1>4. law \in Law /\ LawSane(law) /\ law.land = l
  <2>1. /\ bill.template \in Templates /\ p \in Params
        /\ bill.template = "MARKET_TAX" => p.a \in 0..25
        /\ bill.template \in {"FINE_BREAK_PER_BLOCK", "ACCESS_PASS_CORE"}
             => p.item \in Items
    BY BillSane
  <2> HIDE DEF p
  <2>2. /\ NoticeTicks \in 0..NoticeTicks
        /\ NoticeTicks + VoteTicks \in 0..NoticeTicks + VoteTicks
    BY GovernanceAssumption
  <2>3. l \in LandIds
    BY DEF Live
  <2>4. [b \in Agents |-> ""] \in [Agents -> {"YES", "NO", "ABSTAIN", ""}]
    OBVIOUS
  <2>5. law \in Law
    BY <2>1, <2>2, <2>3, <2>4 DEF Law
  <2> QED
    BY <2>1, <2>5 DEF LawSane
<1> HIDE DEF law, n
<1>5. /\ laws' \in [LawIds -> Law \cup {None}]
      /\ \A w \in LawIds : laws'[w] = IF w = n THEN law ELSE laws[w]
  BY <1>1, <1>2, <1>3, <1>4 DEF GroundInv
<1>6. TermsFromLaws'
  <2>1. \A k \in LandIds : lands'[k] # None =>
          lands[k] # None /\ lands'[k].terms = lands[k].terms
    BY <1>3
  <2>2. \A w \in LawIds : laws[w] # None => laws'[w] = laws[w]
    BY <1>2, <1>5
  <2> QED
    BY <1>1, <2>1, <2>2, TermsKept DEF GroundInv
<1>7. LandsApart'
  BY <1>1, <1>3, SquaresKept DEF GroundInv
<1>8. Numbered' /\ LawsOnLand' /\ LawsSane'
  BY <1>1, <1>2, <1>3, <1>4, <1>5 DEF GroundInv, Numbered, LawsOnLand, LawsSane, Live
<1>9. GroundInv'
  BY <1>1, <1>2, <1>3, <1>5, <1>6, <1>7, <1>8 DEF GroundInv
<1>10. FrameOK' /\ OrgsKept
  BY <1>1, Start, ActFrame DEF ProposeLaw, FrameOK, market, ground
<1> QED
  BY <1>1, <1>9, <1>10, PeopleSame, Parts DEF GoodsKept

LEMMA VoteLawStep ==
  ASSUME IInv, NEW a \in Agents, NEW w \in LawIds, NEW choice \in {"YES", "NO", "ABSTAIN"},
         VoteLaw(a, w, choice)
  PROVE  IInv'
<1> DEFINE law == [laws[w] EXCEPT !.votes[a] = choice]
<1>1. TypeOK /\ GroundInv /\ PeopleInv /\ GoodsKept
  BY Start, GoodsSame DEF VoteLaw
<1>2. laws[w] \in Law /\ laws[w] # None /\ laws[w].status = "VOTING"
  BY <1>1 DEF VoteLaw, GroundInv
<1>3. /\ laws' = [laws EXCEPT ![w] = law] /\ UNCHANGED <<lawNum, lands, landNum>>
  BY DEF VoteLaw, ground
<1>4. /\ law \in Law /\ law.land = laws[w].land /\ law.template = laws[w].template
      /\ law.params = laws[w].params
  BY <1>2 DEF Law
<1> HIDE DEF law
<1>5. /\ laws' \in [LawIds -> Law \cup {None}]
      /\ \A v \in LawIds : laws'[v] = IF v = w THEN law ELSE laws[v]
  BY <1>1, <1>3, <1>4 DEF GroundInv
<1>6. TermsFromLaws'
  <2>1. \A k \in LandIds : lands'[k] # None =>
          lands[k] # None /\ lands'[k].terms = lands[k].terms
    BY <1>3
  <2>2. \A v \in LawIds : laws[v] # None /\ laws[v].status = "ACTIVE" => laws'[v] = laws[v]
    BY <1>2, <1>5
  <2> QED
    BY <1>1, <2>1, <2>2, TermsKept DEF GroundInv
<1>7. LandsApart'
  BY <1>1, <1>3, SquaresKept DEF GroundInv
<1>8. Numbered' /\ LawsOnLand' /\ LawsSane'
  BY <1>1, <1>2, <1>3, <1>4, <1>5
     DEF GroundInv, Numbered, LawsOnLand, LawsSane, LawSane, Live
<1>9. GroundInv'
  BY <1>1, <1>3, <1>5, <1>6, <1>7, <1>8 DEF GroundInv
<1>10. FrameOK' /\ OrgsKept
  BY <1>1, Start, ActFrame DEF VoteLaw, FrameOK, market, ground
<1> QED
  BY <1>1, <1>9, <1>10, PeopleSame, Parts DEF GoodsKept

\* Of some natural numbers one is the least.
LEMMA Least ==
  ASSUME NEW T \in SUBSET Nat, T # {}
  PROVE  \E x \in T : \A y \in T : x <= y
<1>1. PICK x \in T : \A y \in T : ~(<<y, x>> \in OpToRel(<, Nat))
  BY NatLessThanWellFounded, WFMin
<1>2. \A y \in T : ~(y < x)
  BY <1>1, Zenon DEF OpToRel
<1> QED
  BY <1>2

\* Of the laws of one set of numbers one is the last.
LEMMA LastLaw ==
  ASSUME NEW S \in SUBSET LawIds, S # {}
  PROVE  \E w \in S : \A v \in S : v <= w
<1> DEFINE T == {MaxLaws - w : w \in S}
<1>1. MaxLaws \in Nat /\ \A w \in S : w \in 1..MaxLaws
  BY GovernanceAssumption DEF LawIds
<1>2. T \subseteq Nat /\ T # {}
  BY <1>1
<1>3. PICK x \in T : \A y \in T : x <= y
  <2> HIDE DEF T
  <2> QED
    BY <1>2, Least
<1>4. PICK w \in S : x = MaxLaws - w
  BY <1>3
<1>5. ASSUME NEW v \in S PROVE v <= w
  <2>1. x <= MaxLaws - v
    BY <1>3, <1>5
  <2> QED
    BY <1>1, <1>4, <2>1
<1> QED
  BY <1>5

\* A law in force stays in force, with what it says and the votes it had.
LEMMA ActiveStays ==
  ASSUME NEW law \in Law, law.status = "ACTIVE"
  PROVE  /\ LawAfterTick(law).status = "ACTIVE" /\ LawAfterTick(law).land = law.land
         /\ LawAfterTick(law).template = law.template
         /\ LawAfterTick(law).params = law.params /\ LawAfterTick(law).votes = law.votes
  BY DEF Law, LawAfterTick, NextStatus, Decided

\* A law stays a law, about the same claim and with the same parameters.
LEMMA LawTicks ==
  ASSUME NEW law \in Law
  PROVE  /\ LawAfterTick(law) \in Law /\ LawAfterTick(law).land = law.land
         /\ LawAfterTick(law).template = law.template
         /\ LawAfterTick(law).params = law.params /\ LawAfterTick(law).votes = law.votes
         /\ LawAfterTick(law).status = NextStatus(law)
<1>1. NextStatus(law) \in {"NOTICE", "VOTING", "ACTIVE", "REJECTED"}
  BY DEF Law, NextStatus
<1>2. law.notice \in 0..NoticeTicks /\ law.vote \in 0..NoticeTicks + VoteTicks
  BY DEF Law
<1>3. Down(law.notice) \in 0..NoticeTicks /\ Down(law.vote) \in 0..NoticeTicks + VoteTicks
  BY <1>2, GovernanceAssumption DEF Down
<1> HIDE DEF NextStatus, Down
<1> QED
  BY <1>1, <1>3 DEF Law, LawAfterTick

\* A law that comes into force had a majority.
LEMMA MajorityCarries ==
  ASSUME NEW w \in LawIds, Activates(w)
  PROVE  Votes(laws[w], "YES") > Votes(laws[w], "NO")
<1>1. Decided(laws[w]) /\ NextStatus(laws[w]) = "ACTIVE"
  BY DEF Activates
<1>2. Passed(laws[w])
  BY <1>1 DEF NextStatus, Decided
<1> QED
  BY <1>2 DEF Passed, VotePassed

\* The template of a law makes parameters of parameters.
LEMMA TemplateType ==
  ASSUME NEW t \in Templates, NEW p \in Params
  PROVE  ApplyLawTemplate(t, p) \in Params
  BY DEF ApplyLawTemplate, Params, Off

\* The terms of a claim after the laws of a tick: those of the last law that
\* comes into force, or as they were.
LEMMA TermsAfter ==
  ASSUME GroundInv, NEW l \in Live, NEW t \in Templates
  PROVE  /\ TermsAfterTick(l)[t] \in Params
         /\ \/ TermsAfterTick(l)[t] = lands[l].terms[t]
            \/ \E w \in LawIds : /\ Activates(w) /\ laws[w].land = l
                                 /\ laws[w].template = t
                                 /\ TermsAfterTick(l)[t] = ApplyLawTemplate(t, laws[w].params)
<1> DEFINE set == {w \in LawIds : /\ Activates(w) /\ laws[w].land = l
                                  /\ laws[w].template = t}
           last == CHOOSE w \in set : \A v \in set : v <= w
<1>1. TermsAfterTick(l)[t] = IF set = {} THEN lands[l].terms[t]
                             ELSE ApplyLawTemplate(t, laws[last].params)
  BY DEF TermsAfterTick
<1>2. CASE set = {}
  <2>1. lands[l] \in Land
    BY DEF GroundInv, Live
  <2>2. lands[l].terms[t] \in Params
    BY <2>1 DEF Land
  <2> QED
    BY <1>1, <1>2, <2>2
<1>3. CASE set # {}
  <2>1. set \in SUBSET LawIds
    OBVIOUS
  <2>2. \E w \in set : \A v \in set : v <= w
    <3> HIDE DEF set
    <3> QED
      BY <1>3, <2>1, LastLaw
  <2>3. last \in set
    <3> HIDE DEF set
    <3> QED
      BY <2>2
  <2>4. /\ last \in LawIds /\ Activates(last) /\ laws[last].land = l
        /\ laws[last].template = t
    <3> HIDE DEF last
    <3> QED
      BY <2>3
  <2>5. laws[last] \in Law
    BY <2>4 DEF GroundInv, Activates
  <2>6. laws[last].params \in Params
    BY <2>5 DEF Law
  <2> HIDE DEF last
  <2> QED
    BY <1>1, <1>3, <2>4, <2>6, TemplateType
<1> QED
  BY <1>2, <1>3

LEMMA EndStepStep ==
  ASSUME IInv, EndStep
  PROVE  IInv'
<1>1. TypeOK /\ GroundInv /\ PeopleInv /\ GoodsKept
  BY Start, GoodsSame DEF EndStep
<1>2. /\ \A w \in LawIds :
           laws'[w] = IF laws[w] = None THEN None ELSE LawAfterTick(laws[w])
      /\ DOMAIN laws' = LawIds /\ laws' = [w \in LawIds |-> laws'[w]]
  BY DEF EndStep
<1>3. \A w \in LawIds : laws[w] # None =>
        /\ laws'[w] \in Law /\ laws'[w] # None
        /\ laws'[w].land = laws[w].land /\ laws'[w].template = laws[w].template
        /\ laws'[w].params = laws[w].params /\ laws'[w].votes = laws[w].votes
        /\ laws'[w].status = NextStatus(laws[w])
  <2> SUFFICES ASSUME NEW w \in LawIds, laws[w] # None
               PROVE  /\ laws'[w] \in Law /\ laws'[w] # None
                      /\ laws'[w].land = laws[w].land
                      /\ laws'[w].template = laws[w].template
                      /\ laws'[w].params = laws[w].params
                      /\ laws'[w].votes = laws[w].votes
                      /\ laws'[w].status = NextStatus(laws[w])
    OBVIOUS
  <2>1. PICK law \in Law : law = laws[w]
    BY <1>1 DEF GroundInv
  <2>2. laws'[w] = LawAfterTick(law)
    BY <1>2, <2>1
  <2>3. NextStatus(laws[w]) = NextStatus(law)
    BY <2>1
  <2> QED
    BY <2>1, <2>2, <2>3, LawTicks, NoneAssumption
<1>4. laws' \in [LawIds -> Law \cup {None}]
  BY <1>2, <1>3
<1>5. \A l \in LandIds : lands[l] # None =>
        LET k == [lands[l] EXCEPT !.terms = TermsAfterTick(l), !.due = Down(lands[l].due)]
        IN  /\ lands'[l] = k /\ k \in Land /\ k # None
            /\ k.anchor = lands[l].anchor /\ k.radius = lands[l].radius
            /\ k.terms = TermsAfterTick(l)
  <2> SUFFICES ASSUME NEW l \in LandIds, lands[l] # None
               PROVE  LET k == [lands[l] EXCEPT !.terms = TermsAfterTick(l),
                                                !.due = Down(lands[l].due)]
                      IN  /\ lands'[l] = k /\ k \in Land /\ k # None
                          /\ k.anchor = lands[l].anchor /\ k.radius = lands[l].radius
                          /\ k.terms = TermsAfterTick(l)
    OBVIOUS
  <2>0. l \in Live /\ lands[l] \in Land
    BY <1>1 DEF Live, GroundInv
  <2>1. TermsAfterTick(l) \in [Templates -> Params]
    <3>1. \A t \in Templates : TermsAfterTick(l)[t] \in Params
      BY <1>1, <2>0, TermsAfter
    <3>2. TermsAfterTick(l) = [t \in Templates |-> TermsAfterTick(l)[t]]
      BY DEF TermsAfterTick
    <3> QED
      BY <3>1, <3>2
  <2>2. Down(lands[l].due) \in 0..DayTicks
    <3>1. lands[l].due \in 0..DayTicks
      BY <2>0 DEF Land
    <3> QED
      BY <3>1, GovernanceAssumption DEF Down
  <2>3. lands'[l] = [lands[l] EXCEPT !.terms = TermsAfterTick(l),
                                     !.due = Down(lands[l].due)]
    BY <2>0 DEF EndStep
  <2>4. PICK ts \in [Templates -> Params], d \in 0..DayTicks :
          ts = TermsAfterTick(l) /\ d = Down(lands[l].due)
    BY <2>1, <2>2
  <2>5. LET k == [lands[l] EXCEPT !.terms = ts, !.due = d]
        IN  /\ k \in Land /\ k.anchor = lands[l].anchor
            /\ k.radius = lands[l].radius /\ k.terms = ts
    BY <2>0 DEF Land
  <2> QED
    BY <2>3, <2>4, <2>5, NoneAssumption
<1>6. \A l \in LandIds : lands[l] = None => lands'[l] = None
  BY DEF EndStep, Live
<1>7. lands' \in [LandIds -> Land \cup {None}]
  <2>1. lands' = [l \in LandIds |-> lands'[l]]
    BY DEF EndStep
  <2> QED
    BY <1>5, <1>6, <2>1
<1>8. LandsApart'
  <2>1. \A l \in LandIds : lands'[l] # None =>
          /\ lands[l] # None
          /\ lands'[l].anchor = lands[l].anchor /\ lands'[l].radius = lands[l].radius
    BY <1>5, <1>6
  <2> QED
    BY <1>1, <2>1, SquaresKept DEF GroundInv
<1>9. TermsFromLaws'
  <2> SUFFICES ASSUME NEW l \in LandIds, lands'[l] # None,
                      NEW t \in Templates, lands'[l].terms[t] # Off
               PROVE  \E w \in LawIds :
                 /\ laws'[w] # None
                 /\ laws'[w].land = l /\ laws'[w].template = t
                 /\ laws'[w].status = "ACTIVE"
                 /\ ApplyLawTemplate(t, laws'[w].params) = lands'[l].terms[t]
                 /\ Votes(laws'[w], "YES") > Votes(laws'[w], "NO")
    BY DEF TermsFromLaws, Live
  <2>1. l \in Live /\ lands'[l].terms = TermsAfterTick(l)
    BY <1>5, <1>6 DEF Live
  <2>2. ASSUME NEW w \in LawIds, laws[w] # None, laws[w].land = l,
               laws[w].template = t, NextStatus(laws[w]) = "ACTIVE",
               ApplyLawTemplate(t, laws[w].params) = TermsAfterTick(l)[t],
               Votes(laws[w], "YES") > Votes(laws[w], "NO")
        PROVE  /\ laws'[w] # None
               /\ laws'[w].land = l /\ laws'[w].template = t
               /\ laws'[w].status = "ACTIVE"
               /\ ApplyLawTemplate(t, laws'[w].params) = lands'[l].terms[t]
               /\ Votes(laws'[w], "YES") > Votes(laws'[w], "NO")
    <3>1. /\ laws'[w] # None /\ laws'[w].land = l /\ laws'[w].template = t
          /\ laws'[w].status = "ACTIVE" /\ laws'[w].params = laws[w].params
          /\ laws'[w].votes = laws[w].votes
      BY <1>3, <2>2
    <3>2. /\ Votes(laws'[w], "YES") = Votes(laws[w], "YES")
          /\ Votes(laws'[w], "NO") = Votes(laws[w], "NO")
      BY <3>1 DEF Votes
    <3>3. ApplyLawTemplate(t, laws'[w].params) = lands'[l].terms[t]
      BY <2>1, <2>2, <3>1
    <3> QED
      BY <2>2, <3>1, <3>2, <3>3
  <2>3. CASE TermsAfterTick(l)[t] = lands[l].terms[t]
    <3>1. lands[l].terms[t] # Off
      BY <2>1, <2>3
    <3>2. PICK w \in LawIds :
            /\ laws[w] # None
            /\ laws[w].land = l /\ laws[w].template = t /\ laws[w].status = "ACTIVE"
            /\ ApplyLawTemplate(t, laws[w].params) = lands[l].terms[t]
            /\ Votes(laws[w], "YES") > Votes(laws[w], "NO")
      BY <1>1, <2>1, <3>1 DEF GroundInv, TermsFromLaws
    <3>3. NextStatus(laws[w]) = "ACTIVE"
      BY <3>2 DEF NextStatus, Decided
    <3> QED
      BY <2>2, <2>3, <3>2, <3>3
  <2>4. CASE TermsAfterTick(l)[t] # lands[l].terms[t]
    <3>1. PICK w \in LawIds : /\ Activates(w) /\ laws[w].land = l
                              /\ laws[w].template = t
                              /\ TermsAfterTick(l)[t] = ApplyLawTemplate(t, laws[w].params)
      BY <1>1, <2>1, <2>4, TermsAfter
    <3>2. laws[w] # None /\ NextStatus(laws[w]) = "ACTIVE"
      BY <3>1 DEF Activates
    <3>3. Votes(laws[w], "YES") > Votes(laws[w], "NO")
      BY <3>1, MajorityCarries
    <3> QED
      BY <2>2, <3>1, <3>2, <3>3
  <2> QED
    BY <2>3, <2>4
<1>10. UNCHANGED <<landNum, lawNum>>
  BY DEF EndStep
<1>11. Numbered'
  BY <1>1, <1>2, <1>6, <1>10 DEF GroundInv, Numbered
<1>12. LawsOnLand'
  <2>1. \A l \in LandIds : lands[l] # None => lands'[l] # None
    BY <1>5
  <2>2. \A w \in LawIds : laws[w] # None =>
          laws[w].land \in LandIds /\ lands[laws[w].land] # None
    BY <1>1 DEF GroundInv, LawsOnLand, Live
  <2> QED
    BY <1>2, <1>3, <2>1, <2>2 DEF LawsOnLand, Live
<1>13. LawsSane'
  BY <1>1, <1>2, <1>3 DEF GroundInv, LawsSane, LawSane
<1>14. GroundInv'
  BY <1>1, <1>4, <1>7, <1>8, <1>9, <1>10, <1>11, <1>12, <1>13 DEF GroundInv
<1>15. FrameOK' /\ OrgsKept
  <2>1. clock' \in 0..DayTicks - 1
    <3>1. DayTicks \in Nat /\ DayTicks > 0 /\ clock \in Nat
      BY <1>1, GovernanceAssumption DEF TypeOK
    <3>2. (clock + 1) % DayTicks \in 0..DayTicks - 1
      BY <3>1
    <3> QED
      BY <3>2 DEF EndStep
  <2> QED
    BY <1>1, <2>1, Start DEF EndStep, FrameOK, OrgsKept, people, market
<1> QED
  BY <1>1, <1>14, <1>15, PeopleSame, Parts DEF GoodsKept

-----------------------------------------------------------------------------
(* Organizations                                                           *)

\* An operation on organizations leaves claims, laws, offers and blocks alone.
LEMMA OrgFrame ==
  ASSUME IInv, NEW a \in Agents, Asks(a), here' = here,
         UNCHANGED <<ground, statutes, market>>, GoodsOK', PeopleInv'
  PROVE  IInv'
<1>1. TypeOK /\ FrameOK /\ GroundInv
  BY Start
<1>2. FrameOK'
  BY <1>1, GovernanceAssumption DEF FrameOK, Asks, ground, market
<1>3. GroundInv'
  BY <1>1, GroundSame DEF GroundKept, ground, statutes
<1> QED
  BY <1>2, <1>3, Parts

LEMMA CreateOrgStep ==
  ASSUME IInv, NEW a \in Agents, NEW o \in Orgs, CreateOrg(a, o)
  PROVE  IInv'
<1>1. TypeOK /\ GroundInv /\ PeopleInv /\ GoodsKept /\ RolesAgree
  BY Start, GoodsSame DEF CreateOrg, PeopleInv
<1>2. /\ founded' = founded \cup {o} /\ orgs' = orgs \cup {o}
      /\ roles' = [roles EXCEPT ![o][a] = "LEADER"]
      /\ orgOf' = [orgOf EXCEPT ![a] = o]
      /\ o \notin orgs /\ orgOf[a] = None /\ treasury' = treasury
      /\ here' = here /\ here \subseteq Agents /\ elsewhere' = elsewhere
  BY <1>1 DEF CreateOrg, goods, PeopleInv, TypeOK
<1>3. /\ orgOf \in [Agents -> Orgs \cup {None}] /\ None \notin Orgs
      /\ roles \in [Orgs -> [Agents -> Roles]]
      /\ founded \subseteq Orgs /\ orgs \subseteq founded /\ elsewhere \subseteq founded
  BY <1>1, GovernanceAssumption DEF PeopleInv, Owners
<1>4. /\ roles' \in [Orgs -> [Agents -> Roles]]
      /\ orgOf' \in [Agents -> Orgs \cup {None}]
      /\ founded' \subseteq Orgs /\ orgs' \subseteq founded' /\ elsewhere' \subseteq founded'
  BY <1>2, <1>3 DEF Roles
<1>5. /\ \A p \in Orgs, b \in Agents :
           roles'[p][b] = IF p = o /\ b = a THEN "LEADER" ELSE roles[p][b]
      /\ \A b \in Agents : orgOf'[b] = IF b = a THEN o ELSE orgOf[b]
  BY <1>2, <1>3
<1>6. \A b \in Agents : roles[o][b] = ""
  BY <1>1, <1>2, RolesAgreement
<1>7. RolesAgree'
  <2>0. /\ \A b \in here : orgOf[b] # None =>
              orgOf[b] \in orgs /\ roles[orgOf[b]][b] # ""
        /\ \A p \in Orgs \ elsewhere : \A b \in Agents : orgOf[b] = p <=> roles[p][b] # ""
        /\ \A p \in Orgs \ orgs : \A b \in Agents : roles[p][b] = ""
    BY <1>1, RolesAgreement
  <2>1. ASSUME NEW b \in here', orgOf'[b] # None
        PROVE  orgOf'[b] \in orgs' /\ roles'[orgOf'[b]][b] # ""
    <3>1. b \in Agents /\ b \in here
      BY <1>2
    <3>2. CASE b = a
      <4>1. orgOf'[b] = o /\ roles'[o][b] # ""
        BY <1>5, <3>1, <3>2
      <4>2. o \in orgs'
        BY <1>2
      <4> QED
        BY <4>1, <4>2, Zenon
    <3>3. CASE b # a
      <4>1. orgOf[b] \in orgs /\ roles[orgOf[b]][b] # "" /\ orgOf'[b] = orgOf[b]
        BY <1>5, <2>0, <2>1, <3>1, <3>3
      <4> QED
        BY <1>2, <1>3, <1>5, <3>1, <3>3, <4>1
    <3> QED
      BY <3>2, <3>3
  <2>2. ASSUME NEW p \in Orgs \ elsewhere', NEW b \in Agents
        PROVE  orgOf'[b] = p <=> roles'[p][b] # ""
    <3>1. orgOf[b] = p <=> roles[p][b] # ""
      BY <1>2, <2>0
    <3>2. CASE b = a
      <4>1. orgOf[a] # p
        BY <1>2, <1>3
      <4> QED
        BY <1>5, <3>1, <3>2, <4>1
    <3>3. CASE b # a
      BY <1>5, <3>1, <3>3
    <3> QED
      BY <3>2, <3>3
  <2>3. ASSUME NEW p \in orgs' \ elsewhere'
        PROVE  \E b \in Agents :
                 /\ roles'[p][b] = "LEADER"
                 /\ \A c \in Agents : roles'[p][c] = "LEADER" => c = b
    <3>1. CASE p = o
      BY <1>5, <1>6, <3>1
    <3>2. CASE p # o
      <4>1. p \in orgs \ elsewhere /\ p \in Orgs
        BY <1>2, <1>3, <3>2
      <4>2. PICK b \in Agents :
              /\ roles[p][b] = "LEADER"
              /\ \A c \in Agents : roles[p][c] = "LEADER" => c = b
        BY <1>1, <4>1, RolesAgreement
      <4>3. \A c \in Agents : roles'[p][c] = roles[p][c]
        BY <1>5, <3>2, <4>1
      <4> QED
        BY <4>2, <4>3
    <3> QED
      BY <3>1, <3>2
  <2>4. \A p \in Orgs \ orgs' : treasury'[p] = Nothing
    BY <1>1, <1>2, RolesAgreement
  <2>5. ASSUME NEW p \in Orgs \ orgs', NEW b \in Agents
        PROVE  roles'[p][b] = ""
    <3>1. p \in Orgs /\ p \notin orgs /\ p # o
      BY <1>2
    <3>2. roles[p][b] = ""
      BY <2>0, <3>1
    <3> QED
      BY <1>5, <3>1, <3>2
  <2> QED
    BY <2>1, <2>2, <2>3, <2>4, <2>5, RolesAgreeNext
<1>8. PeopleInv'
  BY <1>4, <1>7 DEF PeopleInv
<1> QED
  BY <1>1, <1>8, OrgFrame DEF CreateOrg, GoodsKept

LEMMA JoinOrgStep ==
  ASSUME IInv, NEW a \in Agents, NEW o \in Orgs, JoinOrg(a, o)
  PROVE  IInv'
<1>1. TypeOK /\ GroundInv /\ PeopleInv /\ GoodsKept /\ RolesAgree
  BY Start, GoodsSame DEF JoinOrg, PeopleInv
<1>2. /\ founded' = founded /\ orgs' = orgs
      /\ roles' = [roles EXCEPT ![o][a] = "MEMBER"]
      /\ orgOf' = [orgOf EXCEPT ![a] = o]
      /\ o \in orgs /\ orgOf[a] = None /\ treasury' = treasury
      /\ here' = here /\ here \subseteq Agents /\ elsewhere' = elsewhere
  BY <1>1 DEF JoinOrg, goods, TypeOK
<1>3. /\ orgOf \in [Agents -> Orgs \cup {None}] /\ None \notin Orgs
      /\ roles \in [Orgs -> [Agents -> Roles]]
      /\ founded \subseteq Orgs /\ orgs \subseteq founded /\ elsewhere \subseteq founded
  BY <1>1, GovernanceAssumption DEF PeopleInv, Owners
<1>4. /\ roles' \in [Orgs -> [Agents -> Roles]]
      /\ orgOf' \in [Agents -> Orgs \cup {None}]
  BY <1>2, <1>3 DEF Roles
<1>5. /\ \A p \in Orgs, b \in Agents :
           roles'[p][b] = IF p = o /\ b = a THEN "MEMBER" ELSE roles[p][b]
      /\ \A b \in Agents : orgOf'[b] = IF b = a THEN o ELSE orgOf[b]
  BY <1>2, <1>3
<1>6. o \notin elsewhere => roles[o][a] = ""
  <2>1. o \notin elsewhere => (orgOf[a] = o <=> roles[o][a] # "")
    BY <1>1, RolesAgreement
  <2> QED
    BY <1>2, <1>3, <2>1
<1>7. RolesAgree'
  <2>0. /\ \A b \in here : orgOf[b] # None =>
              orgOf[b] \in orgs /\ roles[orgOf[b]][b] # ""
        /\ \A p \in Orgs \ elsewhere : \A b \in Agents : orgOf[b] = p <=> roles[p][b] # ""
        /\ \A p \in Orgs \ orgs : \A b \in Agents : roles[p][b] = ""
    BY <1>1, RolesAgreement
  <2>1. ASSUME NEW b \in here', orgOf'[b] # None
        PROVE  orgOf'[b] \in orgs' /\ roles'[orgOf'[b]][b] # ""
    <3>1. b \in Agents /\ b \in here
      BY <1>2
    <3>2. CASE b = a
      <4>1. orgOf'[b] = o /\ roles'[o][b] # ""
        BY <1>5, <3>1, <3>2
      <4>2. o \in orgs'
        BY <1>2
      <4> QED
        BY <4>1, <4>2, Zenon
    <3>3. CASE b # a
      <4>1. orgOf[b] \in orgs /\ roles[orgOf[b]][b] # "" /\ orgOf'[b] = orgOf[b]
        BY <1>5, <2>0, <2>1, <3>1, <3>3
      <4> QED
        BY <1>2, <1>3, <1>5, <3>1, <3>3, <4>1
    <3> QED
      BY <3>2, <3>3
  <2>2. ASSUME NEW p \in Orgs \ elsewhere', NEW b \in Agents
        PROVE  orgOf'[b] = p <=> roles'[p][b] # ""
    <3>1. orgOf[b] = p <=> roles[p][b] # ""
      BY <1>2, <2>0
    <3>2. CASE b = a
      <4>1. orgOf[a] # p
        BY <1>2, <1>3
      <4> QED
        BY <1>5, <3>1, <3>2, <4>1
    <3>3. CASE b # a
      BY <1>5, <3>1, <3>3
    <3> QED
      BY <3>2, <3>3
  <2>3. ASSUME NEW p \in orgs' \ elsewhere'
        PROVE  \E b \in Agents :
                 /\ roles'[p][b] = "LEADER"
                 /\ \A c \in Agents : roles'[p][c] = "LEADER" => c = b
    <3>1. p \in orgs \ elsewhere /\ p \in Orgs
      BY <1>2, <1>3
    <3>2. PICK b \in Agents :
            /\ roles[p][b] = "LEADER"
            /\ \A c \in Agents : roles[p][c] = "LEADER" => c = b
      BY <1>1, <3>1, RolesAgreement
    <3>3. \A c \in Agents : roles'[p][c] = "LEADER" <=> roles[p][c] = "LEADER"
      BY <1>5, <1>6, <3>1
    <3> QED
      BY <3>2, <3>3
  <2>4. \A p \in Orgs \ orgs' : treasury'[p] = Nothing
    BY <1>1, <1>2, RolesAgreement
  <2>5. ASSUME NEW p \in Orgs \ orgs', NEW b \in Agents
        PROVE  roles'[p][b] = ""
    <3>1. p \in Orgs /\ p \notin orgs /\ p # o
      BY <1>2
    <3>2. roles[p][b] = ""
      BY <2>0, <3>1
    <3> QED
      BY <1>5, <3>1, <3>2
  <2> QED
    BY <2>1, <2>2, <2>3, <2>4, <2>5, RolesAgreeNext
<1>8. PeopleInv'
  BY <1>2, <1>3, <1>4, <1>7 DEF PeopleInv
<1> QED
  BY <1>1, <1>8, OrgFrame DEF JoinOrg, GoodsKept

\* Of some agents one is the first.
LEMMA FirstOfSome ==
  ASSUME NEW S \in SUBSET Agents, S # {}
  PROVE  First(S) \in S
<1> DEFINE T == {Rank[a] : a \in S}
<1>1. T \in SUBSET Nat /\ T # {}
  BY GovernanceAssumption
<1>2. PICK x \in T : \A y \in T : x <= y
  <2> HIDE DEF T
  <2> QED
    BY <1>1, Least
<1>3. PICK a \in S : x = Rank[a]
  BY <1>2
<1>4. \A b \in S : Rank[a] <= Rank[b]
  BY <1>2, <1>3
<1> QED
  BY <1>4 DEF First

\* The roles r of the organization o once a has left: those of the others, and
\* one leader if there are others and no other world had a hand in it.
Remain(o, a, r) ==
  /\ r \in [Agents -> Roles] /\ r[a] = ""
  /\ \A b \in Agents \ {a} : r[b] # "" <=> roles[o][b] # ""
  /\ Members(o) \ {a} # {} /\ o \notin elsewhere =>
       \E b \in Agents : /\ r[b] = "LEADER"
                         /\ \A c \in Agents : r[c] = "LEADER" => c = b

\* A departure leaves the others in their roles and hands over.
LEMMA RolesLeft ==
  ASSUME PeopleInv, NEW a \in Agents, NEW o \in orgs
  PROVE  Remain(o, a, RolesAfterLeave(o, a))
<1> DEFINE rest == Members(o) \ {a}
           left == [roles[o] EXCEPT ![a] = ""]
           r == RolesAfterLeave(o, a)
           Heads(x) == /\ roles[o][x] = "LEADER"
                       /\ \A b \in Agents : roles[o][b] = "LEADER" => b = x
<1>1. roles[o] \in [Agents -> Roles] /\ o \in Orgs
  BY DEF PeopleInv
<1>2. /\ left \in [Agents -> Roles] /\ left[a] = ""
      /\ \A b \in Agents \ {a} : left[b] = roles[o][b]
  BY <1>1 DEF Roles
<1>3. o \notin elsewhere => \E x \in Agents : Heads(x)
  BY RolesAgreement DEF PeopleInv
<1>4. rest \in SUBSET Agents /\ \A b \in rest : roles[o][b] # "" /\ b # a
  BY DEF Members
<1>5. CASE roles[o][a] = "LEADER" /\ rest # {}
  <2>1. First(rest) \in rest
    <3> HIDE DEF rest
    <3> QED
      BY <1>4, <1>5, FirstOfSome
  <2>2. r = [left EXCEPT ![First(rest)] = "LEADER"]
    BY <1>5 DEF RolesAfterLeave
  <2>3. PICK f \in rest : f = First(rest)
    BY <2>1
  <2>4. r = [left EXCEPT ![f] = "LEADER"] /\ f \in Agents /\ f # a /\ roles[o][f] # ""
    BY <1>4, <2>2, <2>3
  <2> HIDE DEF r, rest, left
  <2>5. r \in [Agents -> Roles] /\ r[a] = "" /\ r[f] = "LEADER"
    BY <1>2, <2>4 DEF Roles
  <2>6. \A b \in Agents \ {a} : r[b] = IF b = f THEN "LEADER" ELSE roles[o][b]
    BY <1>2, <2>4
  <2>7. ASSUME o \notin elsewhere
        PROVE  \A c \in Agents : r[c] = "LEADER" => c = f
    <3>1. PICK x \in Agents : Heads(x)
      BY <1>3, <2>7
    <3>2. a = x
      BY <1>5, <3>1
    <3>3. ASSUME NEW c \in Agents, r[c] = "LEADER", c # f PROVE FALSE
      <4>1. c # a
        BY <2>5, <3>3
      <4>2. roles[o][c] = "LEADER"
        BY <2>6, <3>3, <4>1
      <4> QED
        BY <3>1, <3>2, <4>1, <4>2
    <3> QED
      BY <3>3
  <2>8. ASSUME NEW b \in Agents \ {a} PROVE r[b] # "" <=> roles[o][b] # ""
    <3>1. CASE b = f
      BY <2>4, <2>5, <3>1
    <3>2. CASE b # f
      BY <2>6, <3>2
    <3> QED
      BY <3>1, <3>2
  <2> QED
    BY <2>4, <2>5, <2>7, <2>8 DEF r, rest, Remain
<1>6. CASE ~(roles[o][a] = "LEADER" /\ rest # {})
  <2>1. r = left
    BY <1>6 DEF RolesAfterLeave
  <2> HIDE DEF r, left
  <2>2. \A b \in Agents \ {a} : r[b] # "" <=> roles[o][b] # ""
    BY <1>2, <2>1
  <2>3. ASSUME o \notin elsewhere, rest # {}
        PROVE  \E x \in Agents : /\ r[x] = "LEADER"
                                  /\ \A c \in Agents : r[c] = "LEADER" => c = x
    <3>1. PICK x \in Agents : Heads(x)
      BY <1>3, <2>3
    <3>2. x # a
      BY <1>6, <2>3, <3>1
    <3> QED
      BY <1>2, <2>1, <3>1, <3>2
  <2> QED
    BY <1>2, <2>1, <2>2, <2>3 DEF r, Remain
<1> QED
  BY <1>5, <1>6

LEMMA LeaveOrgStep ==
  ASSUME IInv, NEW a \in Agents, LeaveOrg(a)
  PROVE  IInv'
<1>1. TypeOK /\ GoodsOK /\ GroundInv /\ PeopleInv /\ RolesAgree
  BY Start DEF PeopleInv
<1>2. PICK o \in Orgs : o = orgOf[a]
  BY <1>1 DEF LeaveOrg, PeopleInv
<1>3. /\ roles \in [Orgs -> [Agents -> Roles]] /\ orgs \subseteq Orgs
      /\ founded \subseteq Orgs /\ orgs \subseteq founded /\ elsewhere \subseteq founded
      /\ orgOf \in [Agents -> Orgs \cup {None}] /\ None \notin Orgs
      /\ here' = here /\ here \subseteq Agents /\ elsewhere' = elsewhere /\ a \in here
  BY <1>1, GovernanceAssumption DEF PeopleInv, Owners, LeaveOrg, Asks, TypeOK
<1>4. /\ \A b \in here : orgOf[b] # None =>
            orgOf[b] \in orgs /\ roles[orgOf[b]][b] # ""
      /\ \A p \in Orgs \ elsewhere : \A b \in Agents : orgOf[b] = p <=> roles[p][b] # ""
      /\ \A p \in Orgs \ orgs : treasury[p] = Nothing
      /\ \A p \in Orgs \ orgs : \A b \in Agents : roles[p][b] = ""
      /\ \A p \in orgs \ elsewhere : \E b \in Agents :
           /\ roles[p][b] = "LEADER"
           /\ \A c \in Agents : roles[p][c] = "LEADER" => c = b
  BY <1>1, RolesAgreement
<1>5. o \in orgs
  BY <1>2, <1>3, <1>4
<1> DEFINE r == RolesAfterLeave(o, a)
           last == Members(o) \ {a} = {}
<1>6. /\ r \in [Agents -> Roles] /\ r[a] = ""
      /\ \A b \in Agents \ {a} : r[b] # "" <=> roles[o][b] # ""
      /\ ~last /\ o \notin elsewhere =>
           \E b \in Agents : /\ r[b] = "LEADER"
                             /\ \A c \in Agents : r[c] = "LEADER" => c = b
  <2>1. Remain(o, a, r)
    BY <1>1, <1>2, <1>5, RolesLeft
  <2> HIDE DEF r
  <2> QED
    BY <2>1 DEF Remain
<1>7. /\ orgOf' = [orgOf EXCEPT ![a] = None] /\ roles' = [roles EXCEPT ![o] = r]
      /\ orgs' = IF last THEN orgs \ {o} ELSE orgs
      /\ founded' = founded
      /\ SetGoods(IF ~last THEN Goods
                  ELSE [Spend(Goods, treasury[o]) EXCEPT !.treasury[o] = Nothing])
  BY <1>2, <1>5 DEF LeaveOrg
<1>8. last => \A b \in Agents : r[b] = ""
  <2>1. ASSUME last, NEW b \in Agents PROVE r[b] = ""
    <3>1. CASE b = a
      BY <1>6, <3>1
    <3>2. CASE b # a
      <4>1. roles[o][b] = ""
        BY <1>2, <2>1, <3>2 DEF Members
      <4> QED
        BY <1>6, <3>2, <4>1
    <3> QED
      BY <3>1, <3>2
  <2> QED
    BY <2>1
<1> HIDE DEF r, last
<1>9. /\ roles' \in [Orgs -> [Agents -> Roles]]
      /\ orgOf' \in [Agents -> Orgs \cup {None}]
      /\ orgs' \subseteq founded' /\ elsewhere' \subseteq founded'
  BY <1>3, <1>6, <1>7
<1>10. /\ \A p \in Orgs : roles'[p] = IF p = o THEN r ELSE roles[p]
       /\ \A b \in Agents : orgOf'[b] = IF b = a THEN None ELSE orgOf[b]
  BY <1>3, <1>7
<1>11. /\ GoodsOK'
       /\ \A p \in Orgs \ {o} : treasury'[p] = treasury[p]
       /\ last => treasury'[o] = Nothing
  <2>1. CASE last
    <3> DEFINE s == Plus(spent, treasury[o])
    <3>1. treasury[o] \in Bundles /\ spent \in Bundles
      BY <1>1 DEF GoodsOK
    <3>2. s \in Bundles /\ Nothing \in Bundles
      BY <3>1, BundleTypes, BundleConstants
    <3>3. /\ inventory' = inventory /\ spent' = s
          /\ treasury' = [treasury EXCEPT ![o] = Nothing]
      BY <1>7, <2>1 DEF SetGoods, Spend, Goods
    <3> HIDE DEF s
    <3> QED
      BY <1>1, <3>2, <3>3 DEF GoodsOK
  <2>2. CASE ~last
    <3>1. UNCHANGED <<inventory, treasury, spent>>
      BY <1>7, <2>2 DEF SetGoods, Goods
    <3> QED
      BY <1>1, <2>2, <3>1 DEF GoodsOK
  <2> QED
    BY <2>1, <2>2
<1>12. RolesAgree'
  <2>0. ASSUME NEW b \in here', orgOf'[b] # None
        PROVE  orgOf'[b] \in orgs' /\ roles'[orgOf'[b]][b] # ""
    <3>1. b \in Agents /\ b \in here /\ b # a /\ orgOf'[b] = orgOf[b]
      BY <1>3, <1>10, <2>0
    <3>2. orgOf[b] \in orgs /\ roles[orgOf[b]][b] # ""
      BY <1>4, <2>0, <3>1
    <3>3. CASE orgOf[b] = o
      <4>1. r[b] # ""
        BY <1>6, <3>1, <3>2, <3>3
      <4>2. ~last
        BY <1>8, <3>1, <4>1
      <4>3. roles'[o] = r /\ orgs' = orgs
        BY <1>7, <1>10, <4>2
      <4> QED
        BY <3>1, <3>2, <3>3, <4>1, <4>3, Zenon
    <3>4. CASE orgOf[b] # o
      BY <1>3, <1>7, <1>10, <3>1, <3>2, <3>4
    <3> QED
      BY <3>3, <3>4
  <2>1. ASSUME NEW p \in Orgs \ elsewhere', NEW b \in Agents
        PROVE  orgOf'[b] = p <=> roles'[p][b] # ""
    <3>1. orgOf[b] = p <=> roles[p][b] # ""
      BY <1>3, <1>4
    <3>2. CASE b = a /\ p = o
      BY <1>3, <1>6, <1>10, <3>2
    <3>3. CASE b = a /\ p # o
      BY <1>2, <1>3, <1>10, <3>1, <3>3
    <3>4. CASE b # a /\ p = o
      <4>1. r[b] # "" <=> roles[o][b] # ""
        BY <1>6, <3>4
      <4> QED
        BY <1>10, <3>1, <3>4, <4>1
    <3>5. CASE b # a /\ p # o
      BY <1>10, <3>1, <3>5
    <3> QED
      BY <3>2, <3>3, <3>4, <3>5
  <2>2. ASSUME NEW p \in orgs' \ elsewhere'
        PROVE  \E b \in Agents :
                 /\ roles'[p][b] = "LEADER"
                 /\ \A c \in Agents : roles'[p][c] = "LEADER" => c = b
    <3>1. p \in orgs \ elsewhere /\ p \in Orgs /\ (p = o => ~last)
      BY <1>3, <1>7
    <3>2. CASE p = o
      BY <1>6, <1>10, <3>1, <3>2
    <3>3. CASE p # o
      <4>1. roles'[p] = roles[p]
        BY <1>10, <3>1, <3>3
      <4>2. PICK b \in Agents :
              /\ roles[p][b] = "LEADER"
              /\ \A c \in Agents : roles[p][c] = "LEADER" => c = b
        BY <1>4, <3>1
      <4> QED
        BY <4>1, <4>2
    <3> QED
      BY <3>2, <3>3
  <2>3. ASSUME NEW p \in Orgs \ orgs' PROVE treasury'[p] = Nothing
    <3>1. CASE p = o
      BY <1>5, <1>7, <1>11, <3>1
    <3>2. CASE p # o
      BY <1>4, <1>7, <1>11, <3>2
    <3> QED
      BY <3>1, <3>2
  <2>4. ASSUME NEW p \in Orgs \ orgs', NEW b \in Agents PROVE roles'[p][b] = ""
    <3>1. CASE p = o
      <4>1. last
        BY <1>5, <1>7, <3>1
      <4> QED
        BY <1>8, <1>10, <3>1, <4>1
    <3>2. CASE p # o
      <4>1. p \in Orgs \ orgs
        BY <1>7, <3>2
      <4> QED
        BY <1>4, <1>10, <3>2, <4>1
    <3> QED
      BY <3>1, <3>2
  <2> QED
    BY <2>0, <2>1, <2>2, <2>3, <2>4, RolesAgreeNext
<1>13. PeopleInv'
  BY <1>3, <1>7, <1>9, <1>12 DEF PeopleInv
<1> QED
  BY <1>11, <1>13, OrgFrame DEF LeaveOrg

\* The copy's members and the agent itself are added, and nobody is dropped.
LEMMA Merging ==
  ASSUME NEW o \in Orgs, NEW a \in Agents, NEW copy \in [Agents -> Roles],
         roles \in [Orgs -> [Agents -> Roles]]
  PROVE  /\ MergedRoles(o, a, copy) \in [Agents -> Roles]
         /\ MergedRoles(o, a, copy)[a] # ""
         /\ \A b \in Agents : roles[o][b] # "" => MergedRoles(o, a, copy)[b] # ""
<1> DEFINE both == [b \in Agents |-> IF copy[b] # "" THEN copy[b] ELSE roles[o][b]]
<1>1. /\ both \in [Agents -> Roles]
      /\ \A b \in Agents : roles[o][b] # "" => both[b] # ""
  OBVIOUS
<1>2. MergedRoles(o, a, copy) =
        IF both[a] = "" THEN [both EXCEPT ![a] = "MEMBER"] ELSE both
  BY DEF MergedRoles
<1> HIDE DEF both
<1> QED
  BY <1>1, <1>2 DEF Roles

\* An agent comes with an organization as it is elsewhere.
LEMMA ArriveStep ==
  ASSUME IInv, NEW a \in Agents, NEW o \in Orgs \cup {None},
         NEW copy \in [Agents -> Roles], Arrive(a, o, copy)
  PROVE  IInv'
<1>1. TypeOK /\ FrameOK /\ GroundInv /\ PeopleInv /\ GoodsKept /\ RolesAgree
  BY Start, GoodsSame DEF Arrive, PeopleInv
<1>2. /\ orgOf \in [Agents -> Orgs \cup {None}] /\ None \notin Orgs
      /\ roles \in [Orgs -> [Agents -> Roles]]
      /\ founded \subseteq Orgs /\ orgs \subseteq founded /\ elsewhere \subseteq founded
      /\ here \subseteq Agents
  BY <1>1, GovernanceAssumption DEF PeopleInv, Owners, FrameOK
<1>3. /\ here' = here \cup {a} /\ orgOf' = [orgOf EXCEPT ![a] = o]
      /\ elsewhere' = elsewhere \cup ({o, orgOf[a]} \ {None})
      /\ o = None => founded' = founded /\ orgs' = orgs /\ roles' = roles
      /\ o # None => /\ founded' = founded \cup {o} /\ orgs' = orgs \cup {o}
                     /\ roles' = [roles EXCEPT ![o] = MergedRoles(o, a, copy)]
      /\ treasury' = treasury
  BY DEF Arrive, goods
<1>4. /\ \A b \in here : orgOf[b] # None =>
            orgOf[b] \in orgs /\ roles[orgOf[b]][b] # ""
      /\ \A p \in Orgs \ elsewhere : \A b \in Agents : orgOf[b] = p <=> roles[p][b] # ""
      /\ \A p \in Orgs \ orgs : treasury[p] = Nothing
      /\ \A p \in Orgs \ orgs : \A b \in Agents : roles[p][b] = ""
  BY <1>1, RolesAgreement
<1>5. \A p \in orgs \ elsewhere : \E b \in Agents :
        /\ roles[p][b] = "LEADER"
        /\ \A c \in Agents : roles[p][c] = "LEADER" => c = b
  BY <1>1, RolesAgreement
<1>6. orgOf[a] # None => orgOf[a] \in founded
  <2>1. CASE orgOf[a] \in elsewhere
    BY <1>2, <2>1
  <2>2. CASE orgOf[a] # None /\ orgOf[a] \notin elsewhere
    <3>1. PICK q \in Orgs \ elsewhere : q = orgOf[a]
      BY <1>2, <2>2
    <3>2. roles[q][a] # ""
      BY <1>4, <3>1
    <3>3. q \in orgs
      BY <1>4, <3>2
    <3> QED
      BY <1>2, <3>1, <3>3
  <2> QED
    BY <2>1, <2>2
<1>7. /\ orgOf' \in [Agents -> Orgs \cup {None}]
      /\ founded' \subseteq Orgs /\ orgs' \subseteq founded' /\ elsewhere' \subseteq founded'
      /\ orgs \subseteq orgs' /\ elsewhere \subseteq elsewhere'
  BY <1>2, <1>3, <1>6
<1>8. /\ roles' \in [Orgs -> [Agents -> Roles]]
      /\ \A p \in Orgs \ {o} : roles'[p] = roles[p]
      /\ \A p \in Orgs, b \in Agents : roles[p][b] # "" => roles'[p][b] # ""
      /\ o # None => roles'[o][a] # "" /\ o \in orgs'
  <2>1. CASE o = None
    BY <1>2, <1>3, <2>1
  <2>2. CASE o # None
    <3> DEFINE m == MergedRoles(o, a, copy)
    <3>1. /\ m \in [Agents -> Roles] /\ m[a] # ""
          /\ \A b \in Agents : roles[o][b] # "" => m[b] # ""
      BY <1>2, <2>2, Merging
    <3>2. roles' = [roles EXCEPT ![o] = m] /\ orgs' = orgs \cup {o} /\ o \in Orgs
      BY <1>3, <2>2
    <3> HIDE DEF m
    <3> QED
      BY <1>2, <3>1, <3>2
  <2> QED
    BY <2>1, <2>2
<1>9. \A b \in Agents : orgOf'[b] = IF b = a THEN o ELSE orgOf[b]
  BY <1>2, <1>3
<1>10. /\ o # None => o \in elsewhere'
       /\ orgOf[a] # None => orgOf[a] \in elsewhere'
  BY <1>3
<1>11. RolesAgree'
  <2>1. ASSUME NEW b \in here', orgOf'[b] # None
        PROVE  orgOf'[b] \in orgs' /\ roles'[orgOf'[b]][b] # ""
    <3>1. CASE b = a
      BY <1>8, <1>9, <2>1, <3>1
    <3>2. CASE b # a
      <4>1. b \in here /\ b \in Agents /\ orgOf'[b] = orgOf[b]
        BY <1>2, <1>3, <1>9, <3>2
      <4>2. PICK q \in orgs : q = orgOf[b] /\ roles[q][b] # ""
        BY <1>4, <2>1, <4>1
      <4>3. roles'[q][b] # "" /\ q \in orgs'
        BY <1>2, <1>7, <1>8, <4>1, <4>2
      <4> QED
        BY <4>1, <4>2, <4>3
    <3> QED
      BY <3>1, <3>2
  <2>2. ASSUME NEW p \in Orgs \ elsewhere', NEW b \in Agents
        PROVE  orgOf'[b] = p <=> roles'[p][b] # ""
    <3>1. p \in Orgs \ elsewhere /\ p # o /\ p # orgOf[a] /\ roles'[p] = roles[p]
      BY <1>2, <1>7, <1>8, <1>10, <2>2
    <3>2. orgOf[b] = p <=> roles[p][b] # ""
      BY <1>4, <3>1
    <3> QED
      BY <1>9, <3>1, <3>2
  <2>3. ASSUME NEW p \in orgs' \ elsewhere'
        PROVE  \E b \in Agents :
                 /\ roles'[p][b] = "LEADER"
                 /\ \A c \in Agents : roles'[p][c] = "LEADER" => c = b
    <3>1. p \in Orgs /\ p # o /\ p \in orgs \ elsewhere /\ roles'[p] = roles[p]
      <4>1. p \in Orgs /\ p # o /\ p \notin elsewhere
        BY <1>2, <1>7, <1>10, <2>3
      <4> QED
        BY <1>3, <1>8, <2>3, <4>1
    <3>2. PICK b \in Agents : /\ roles[p][b] = "LEADER"
                              /\ \A c \in Agents : roles[p][c] = "LEADER" => c = b
      BY <1>5, <3>1
    <3> QED
      BY <3>1, <3>2
  <2>4. \A p \in Orgs \ orgs' : treasury'[p] = Nothing
    BY <1>3, <1>4, <1>7
  <2>5. ASSUME NEW p \in Orgs \ orgs', NEW b \in Agents PROVE roles'[p][b] = ""
    <3>1. p \in Orgs \ orgs /\ p # o
      <4>1. p \in Orgs /\ p \notin orgs'
        BY <2>5
      <4> QED
        BY <1>2, <1>7, <1>8, <4>1
    <3>2. roles'[p] = roles[p]
      BY <1>8, <3>1
    <3>3. roles[p][b] = ""
      BY <1>4, <3>1
    <3> QED
      BY <3>2, <3>3
  <2> QED
    BY <2>1, <2>2, <2>3, <2>4, <2>5, RolesAgreeNext
<1>12. PeopleInv'
  BY <1>7, <1>8, <1>11 DEF PeopleInv
<1>13. FrameOK'
  BY <1>1, <1>3, GovernanceAssumption DEF Arrive, FrameOK, ground, market
<1>14. GroundInv'
  BY <1>1, GroundSame DEF Arrive, ground, statutes, GroundKept
<1> QED
  BY <1>1, <1>12, <1>13, <1>14, Parts DEF GoodsKept

-----------------------------------------------------------------------------
(* The invariant                                                           *)

\* The empty world.
LEMMA InitIInv == Init => IInv
<1> SUFFICES ASSUME Init PROVE IInv
  OBVIOUS
<1>1. FrameOK
  <2>1. /\ 0 \in 0..MaxOps /\ 0 \in 0..MaxTrades /\ 0 \in 0..DayTicks - 1
    BY GovernanceAssumption
  <2> QED
    BY <2>1 DEF Init, FrameOK
<1>2. GoodsOK
  BY GovernanceAssumption, BundleConstants DEF Init, GoodsOK
<1>3. GroundInv
  <2>1. /\ \A l \in LandIds : lands[l] = None
        /\ \A w \in LawIds : laws[w] = None
        /\ lands \in [LandIds -> {None}] /\ laws \in [LawIds -> {None}]
        /\ landNum = 0 /\ lawNum = 0
    BY DEF Init
  <2>2. 0 \in 0..MaxLands /\ 0 \in 0..MaxLaws
    BY GovernanceAssumption
  <2> QED
    BY <2>1, <2>2 DEF GroundInv, Numbered, LandsApart, LawsOnLand, LawsSane, TermsFromLaws, Live
<1>4. PeopleInv
  <2>1. /\ \A o \in Orgs, a \in Agents : roles[o][a] = ""
        /\ \A a \in Agents : orgOf[a] = None
        /\ \A o \in Orgs : treasury[o] = Nothing
        /\ orgs = {} /\ founded = {} /\ elsewhere = {} /\ None \notin Orgs
    BY GovernanceAssumption DEF Init, Owners
  <2>2. roles \in [Orgs -> [Agents -> Roles]] /\ orgOf \in [Agents -> Orgs \cup {None}]
    BY DEF Init, Roles
  <2>3. ASSUME NEW o \in Orgs PROVE Members(o) = {}
    BY <2>1 DEF Members
  <2>4. RolesAgree
    <3>1. \A a \in here : orgOf[a] # None => IsOrgMember(a, orgOf[a])
      <4>1. here \subseteq Agents
        BY <1>1 DEF FrameOK
      <4> QED
        BY <2>1, <4>1
    <3> QED
      BY <2>1, <2>3, <3>1 DEF RolesAgree
  <2> QED
    BY <2>1, <2>2, <2>4 DEF PeopleInv
<1> QED
  BY <1>1, <1>2, <1>3, <1>4, Parts

\* Nothing changes.
LEMMA StutterIInv ==
  ASSUME IInv, UNCHANGED vars
  PROVE  IInv'
<1>1. FrameOK' /\ GroundKept /\ OrgsKept /\ UNCHANGED goods /\ TypeOK
  BY Start DEF vars, people, ground, statutes, market, FrameOK, GroundKept, OrgsKept
<1> QED
  BY <1>1, GoodsSame, Quiet

LEMMA LandOpsIInv ==
  ASSUME IInv, NEW a \in Agents, LandOps(a)
  PROVE  IInv'
<1>1. ASSUME NEW p \in Anchors, NEW r \in Radii, ClaimLand(a, p, r) PROVE IInv'
  BY <1>1, ClaimLandStep
<1>2. ASSUME NEW l \in LandIds, NEW policy \in Policies, SetPermissions(a, l, policy)
      PROVE  IInv'
  BY <1>2, ClaimEditsSteps
<1>3. ASSUME NEW l \in LandIds, NEW b \in Agents, AddMember(a, l, b) \/ RemoveMember(a, l, b)
      PROVE  IInv'
  BY <1>3, ClaimEditsSteps
<1>4. ASSUME NEW l \in LandIds, NEW owner \in Owners, DeedLand(a, l, owner) PROVE IInv'
  BY <1>4, ClaimEditsSteps
<1>5. ASSUME NEW l \in Live, NEW r \in Radii, UpgradeClaim(a, l, r) PROVE IInv'
  BY <1>5, UpgradeClaimStep
<1>6. ASSUME NEW p \in Anchors, BreakBlock(a, p) PROVE IInv'
  BY <1>6, BreakBlockStep
<1>7. ASSUME NEW l \in Live, BreakDenied(a, l) PROVE IInv'
  BY <1>7, BreakDeniedStep
<1>8. ASSUME NEW p \in Anchors, NEW kind \in Kinds, PlaceBlock(a, p, kind) PROVE IInv'
  BY <1>8, PlaceBlockStep
<1>9. ASSUME NEW l \in Live, EnterCore(a, l) PROVE IInv'
  BY <1>9, EnterCoreStep
<1> QED
  BY <1>1, <1>2, <1>3, <1>4, <1>5, <1>6, <1>7, <1>8, <1>9 DEF LandOps

LEMMA PeopleOpsIInv ==
  ASSUME IInv, NEW a \in Agents, LawOps(a) \/ OrgOps(a) \/ TradeOps(a)
  PROVE  IInv'
<1>1. CASE LawOps(a)
  BY <1>1, ProposeLawStep, VoteLawStep DEF LawOps
<1>2. CASE OrgOps(a)
  BY <1>2, CreateOrgStep, JoinOrgStep, LeaveOrgStep, OrgDepositStep, OrgWithdrawStep
     DEF OrgOps
<1>3. CASE TradeOps(a)
  <2>1. ASSUME NEW l \in Somewhere, NEW b \in Agents, NEW deal \in Deals,
               OfferTrade(a, l, b, deal)
        PROVE  IInv'
    BY <2>1, OfferTradeStep
  <2>2. ASSUME NEW t \in TradeIds, DeclineTrade(a, t) PROVE IInv'
    BY <2>2, DeclineTradeStep
  <2>3. ASSUME NEW t \in TradeIds, NEW lf \in Somewhere, NEW lt \in Somewhere,
               NEW week \in BOOLEAN, AcceptTrade(a, t, lf, lt, week)
        PROVE  IInv'
    BY <2>3, AcceptTradeStep
  <2> QED
    BY <1>3, <2>1, <2>2, <2>3 DEF TradeOps
<1> QED
  BY <1>1, <1>2, <1>3

\* Every step keeps the invariant.
LEMMA NextIInv == IInv /\ [Next]_vars => IInv'
<1> SUFFICES ASSUME IInv, [Next]_vars PROVE IInv'
  OBVIOUS
<1>1. ASSUME NEW a \in Agents, LandOps(a) PROVE IInv'
  BY <1>1, LandOpsIInv
<1>2. ASSUME NEW a \in Agents, LawOps(a) \/ OrgOps(a) \/ TradeOps(a) PROVE IInv'
  BY <1>2, PeopleOpsIInv
<1>3. ASSUME NEW a \in Agents, Travels(a) PROVE IInv'
  BY <1>3, DepartStep, ArriveStep DEF Travels
<1>4. ASSUME NEW p \in Anchors, Overwrite(p) PROVE IInv'
  BY <1>4, OverwriteStep
<1>5. CASE BeginStep
  BY <1>5, BeginStepStep
<1>6. ASSUME NEW l \in LandIds, MaintainClaim(l) PROVE IInv'
  BY <1>6, MaintainClaimStep
<1>7. CASE EndStep
  BY <1>7, EndStepStep
<1>8. CASE UNCHANGED vars
  BY <1>8, StutterIInv
<1> QED
  BY <1>1, <1>2, <1>3, <1>4, <1>5, <1>6, <1>7, <1>8 DEF Next

-----------------------------------------------------------------------------
(* Sums of counts, some of which may be below zero                         *)

\* The sum of counts that are none below zero.
Count(S, h) == Cardinality(UNION {{s} \X (1..h[s]) : s \in S})

\* The part of a count above zero.
Above(n) == IF n > 0 THEN n ELSE 0

Surplus(S, h) == [s \in S |-> Above(h[s])]
Deficit(S, h) == [s \in S |-> Above(-h[s])]

\* What there is less what is owed.
Sum(S, h) == Count(S, Surplus(S, h)) - Count(S, Deficit(S, h))

\* A sum is a number, and one of its terms and the rest of it.
LEMMA CountSplit ==
  ASSUME NEW S, IsFiniteSet(S), NEW h \in [S -> Nat], NEW s \in S
  PROVE  /\ Count(S \ {s}, h) \in Nat
         /\ Count(S, h) = Count(S \ {s}, h) + h[s]
<1> DEFINE Of2(r) == {r} \X (1..h[r])
           All == {Of2(r) : r \in S \ {s}}
           Rest == UNION All
           Term == Of2(s)
           m == [r \in S \ {s} |-> Of2(r)]
<1>1. ASSUME NEW r \in S PROVE IsFiniteSet(Of2(r)) /\ Cardinality(Of2(r)) = h[r]
  <2>1. h[r] \in Nat
    OBVIOUS
  <2>2. IsFiniteSet(1..h[r]) /\ Cardinality(1..h[r]) = h[r]
    BY <2>1, FS_Interval
  <2>3. IsFiniteSet({r}) /\ Cardinality({r}) = 1
    BY FS_Singleton
  <2>4. IsFiniteSet(Of2(r)) /\ Cardinality(Of2(r)) = Cardinality({r}) * Cardinality(1..h[r])
    BY <2>2, <2>3, FS_Product
  <2> QED
    BY <2>1, <2>2, <2>3, <2>4
<1>2. IsFiniteSet(Rest) /\ Cardinality(Rest) \in Nat
  <2>1. IsFiniteSet(S \ {s})
    BY FS_RemoveElement
  <2>2. m \in Surjection(S \ {s}, All)
    BY DEF Surjection
  <2>3. IsFiniteSet(All)
    BY <2>1, <2>2, FS_Surjection
  <2>4. \A T \in All : IsFiniteSet(T)
    BY <1>1
  <2>5. IsFiniteSet(Rest)
    BY <2>3, <2>4, FS_UNION
  <2> QED
    BY <2>5, FS_CardinalityType
<1>3. UNION {Of2(r) : r \in S} = Rest \cup Term
  OBVIOUS
<1>4. Rest \cap Term = {}
  OBVIOUS
<1>5. Cardinality(Rest \cup Term) = Cardinality(Rest) + h[s]
  <2>1. Cardinality(Rest \cup Term)
          = Cardinality(Rest) + Cardinality(Term) - Cardinality(Rest \cap Term)
    BY <1>1, <1>2, FS_Union
  <2>2. Cardinality(Rest \cap Term) = 0
    BY <1>4, FS_EmptySet
  <2>3. Cardinality(Term) = h[s] /\ h[s] \in Nat
    BY <1>1
  <2> HIDE DEF Rest, Term
  <2> QED
    BY <1>2, <2>1, <2>2, <2>3
<1> QED
  BY <1>2, <1>3, <1>5 DEF Count

\* A sum is a number also when there are no terms.
LEMMA CountType ==
  ASSUME NEW S, IsFiniteSet(S), NEW h \in [S -> Nat]
  PROVE  Count(S, h) \in Nat
<1>1. CASE S = {}
  <2>1. UNION {{s} \X (1..h[s]) : s \in S} = {}
    BY <1>1
  <2> QED
    BY <2>1, FS_EmptySet DEF Count
<1>2. CASE S # {}
  <2>1. PICK s \in S : TRUE
    BY <1>2
  <2>2. h[s] \in Nat
    OBVIOUS
  <2>3. /\ Count(S \ {s}, h) \in Nat
        /\ Count(S, h) = Count(S \ {s}, h) + h[s]
    BY <2>1, CountSplit
  <2> QED
    BY <2>2, <2>3
<1> QED
  BY <1>1, <1>2

\* A sum changes by what one of its terms changes.
LEMMA CountChange ==
  ASSUME NEW S, IsFiniteSet(S), NEW f \in [S -> Nat], NEW h \in [S -> Nat],
         NEW s \in S, \A r \in S \ {s} : h[r] = f[r]
  PROVE  Count(S, h) - h[s] = Count(S, f) - f[s]
<1>1. Count(S \ {s}, h) = Count(S \ {s}, f)
  <2>1. \A r \in S \ {s} : {r} \X (1..h[r]) = {r} \X (1..f[r])
    OBVIOUS
  <2>2. UNION {{r} \X (1..h[r]) : r \in S \ {s}} = UNION {{r} \X (1..f[r]) : r \in S \ {s}}
    BY <2>1
  <2> QED
    BY <2>2 DEF Count
<1>2. /\ Count(S \ {s}, h) \in Nat
      /\ Count(S, h) = Count(S \ {s}, h) + h[s]
  BY CountSplit
<1>3. Count(S, f) = Count(S \ {s}, f) + f[s]
  BY CountSplit
<1>4. f[s] \in Nat /\ h[s] \in Nat
  OBVIOUS
<1> QED
  BY <1>1, <1>2, <1>3, <1>4

\* The same with counts below zero.
LEMMA SumChange ==
  ASSUME NEW S, IsFiniteSet(S), NEW f \in [S -> Int], NEW h \in [S -> Int],
         NEW s \in S, \A r \in S \ {s} : h[r] = f[r]
  PROVE  Sum(S, h) = Sum(S, f) + h[s] - f[s]
<1>1. /\ Surplus(S, f) \in [S -> Nat] /\ Surplus(S, h) \in [S -> Nat]
      /\ Deficit(S, f) \in [S -> Nat] /\ Deficit(S, h) \in [S -> Nat]
  BY DEF Surplus, Deficit, Above
<1>2. /\ \A r \in S \ {s} : Surplus(S, h)[r] = Surplus(S, f)[r]
      /\ \A r \in S \ {s} : Deficit(S, h)[r] = Deficit(S, f)[r]
  BY DEF Surplus, Deficit
<1>3. /\ Surplus(S, h)[s] - Deficit(S, h)[s] = h[s]
      /\ Surplus(S, f)[s] - Deficit(S, f)[s] = f[s]
  <2>1. h[s] \in Int /\ f[s] \in Int
    OBVIOUS
  <2> QED
    BY <2>1 DEF Surplus, Deficit, Above
<1> DEFINE ps == Surplus(S, h)
           qs == Surplus(S, f)
           pd == Deficit(S, h)
           qd == Deficit(S, f)
<1>4. /\ ps \in [S -> Nat] /\ qs \in [S -> Nat] /\ pd \in [S -> Nat] /\ qd \in [S -> Nat]
      /\ \A r \in S \ {s} : ps[r] = qs[r] /\ pd[r] = qd[r]
      /\ ps[s] - pd[s] = h[s] /\ qs[s] - qd[s] = f[s]
      /\ Sum(S, h) = Count(S, ps) - Count(S, pd)
      /\ Sum(S, f) = Count(S, qs) - Count(S, qd)
  BY <1>1, <1>2, <1>3 DEF Sum
<1> HIDE DEF ps, qs, pd, qd
<1>5. Count(S, ps) - ps[s] = Count(S, qs) - qs[s]
  BY <1>4, CountChange
<1>6. Count(S, pd) - pd[s] = Count(S, qd) - qd[s]
  BY <1>4, CountChange
<1>7. /\ Count(S, ps) \in Nat /\ Count(S, qs) \in Nat
      /\ Count(S, pd) \in Nat /\ Count(S, qd) \in Nat
  BY <1>4, CountType
<1>8. ps[s] \in Nat /\ qs[s] \in Nat /\ pd[s] \in Nat /\ qd[s] \in Nat
      /\ h[s] \in Int /\ f[s] \in Int
  BY <1>4
<1> QED
  BY <1>4, <1>5, <1>6, <1>7, <1>8

\* Without a count below zero the sum is that of the counts.
LEMMA SumCount ==
  ASSUME NEW S, IsFiniteSet(S), NEW h \in [S -> Nat]
  PROVE  Sum(S, h) = Count(S, h) /\ Sum(S, h) \in Nat
<1>1. Surplus(S, h) = h
  BY DEF Surplus, Above
<1>2. \A s \in S : Deficit(S, h)[s] = 0
  <2> SUFFICES ASSUME NEW s \in S PROVE Above(-h[s]) = 0
    BY DEF Deficit
  <2>1. h[s] \in Nat
    OBVIOUS
  <2> QED
    BY <2>1 DEF Above
<1> DEFINE d == Deficit(S, h)
<1>3. UNION {{s} \X (1..d[s]) : s \in S} = {}
  <2>1. \A s \in S : d[s] = 0
    BY <1>2
  <2> HIDE DEF d
  <2>2. \A s \in S : 1..d[s] = {}
    BY <2>1
  <2>3. \A s \in S : {s} \X (1..d[s]) = {}
    BY <2>2
  <2> QED
    BY <2>3
<1>4. Count(S, Deficit(S, h)) = 0
  BY <1>3, FS_EmptySet DEF Count
<1>5. Count(S, h) \in Nat
  BY CountType
<1> QED
  BY <1>1, <1>4, <1>5 DEF Sum

-----------------------------------------------------------------------------
(* All there is of an item                                                 *)

Purses(g, x) == [a \in Agents |-> g.inventory[a][x]]
Chests(g, x) == [o \in Orgs |-> g.treasury[o][x]]

\* What agents, treasuries and prices hold of an item.
Amount(g, x) == Sum(Agents, Purses(g, x)) + Sum(Orgs, Chests(g, x)) + g.spent[x]

\* The sums are numbers.
LEMMA AmountParts ==
  ASSUME NEW g \in Debts, NEW x \in Items
  PROVE  /\ Purses(g, x) \in [Agents -> Int] /\ Chests(g, x) \in [Orgs -> Int]
         /\ Sum(Agents, Purses(g, x)) \in Int /\ Sum(Orgs, Chests(g, x)) \in Int
         /\ g.spent[x] \in Int
<1>1. /\ g.inventory \in [Agents -> [Items -> Int]]
      /\ g.treasury \in [Orgs -> [Items -> Nat]] /\ g.spent \in [Items -> Nat]
  BY DEF Debts, Bundles
<1>2. Purses(g, x) \in [Agents -> Int] /\ Chests(g, x) \in [Orgs -> Int]
  BY <1>1 DEF Purses, Chests
<1>3. ASSUME NEW S, IsFiniteSet(S), NEW h \in [S -> Int] PROVE Sum(S, h) \in Int
  <2>1. Surplus(S, h) \in [S -> Nat] /\ Deficit(S, h) \in [S -> Nat]
    BY DEF Surplus, Deficit, Above
  <2> DEFINE p == Surplus(S, h)
             d == Deficit(S, h)
  <2>2. p \in [S -> Nat] /\ d \in [S -> Nat] /\ Sum(S, h) = Count(S, p) - Count(S, d)
    BY <2>1 DEF Sum
  <2> HIDE DEF p, d
  <2>3. Count(S, p) \in Nat /\ Count(S, d) \in Nat
    BY <1>3, <2>2, CountType
  <2> QED
    BY <2>2, <2>3
<1> QED
  BY <1>1, <1>2, <1>3, GovernanceAssumption

\* An inventory changes.
LEMMA PurseAmount ==
  ASSUME NEW g \in Debts, NEW a \in Agents, NEW r \in [Items -> Int], NEW x \in Items
  PROVE  Amount([g EXCEPT !.inventory[a] = r], x) = Amount(g, x) + r[x] - g.inventory[a][x]
<1> DEFINE h == [g EXCEPT !.inventory[a] = r]
<1>1. /\ h \in Debts /\ h.treasury = g.treasury /\ h.spent = g.spent
      /\ \A c \in Agents : h.inventory[c] = IF c = a THEN r ELSE g.inventory[c]
  BY DEF Debts
<1> HIDE DEF h
<1>2. /\ Purses(h, x) \in [Agents -> Int] /\ Purses(g, x) \in [Agents -> Int]
      /\ Chests(h, x) = Chests(g, x)
      /\ Purses(h, x)[a] = r[x] /\ Purses(g, x)[a] = g.inventory[a][x]
      /\ \A c \in Agents \ {a} : Purses(h, x)[c] = Purses(g, x)[c]
  BY <1>1, AmountParts DEF Purses, Chests
<1> DEFINE ph == Purses(h, x)
           pg == Purses(g, x)
<1>3. /\ ph \in [Agents -> Int] /\ pg \in [Agents -> Int]
      /\ \A c \in Agents \ {a} : ph[c] = pg[c]
      /\ ph[a] = r[x] /\ pg[a] = g.inventory[a][x]
  BY <1>2
<1>4. /\ Amount(h, x) = Sum(Agents, ph) + Sum(Orgs, Chests(g, x)) + g.spent[x]
      /\ Amount(g, x) = Sum(Agents, pg) + Sum(Orgs, Chests(g, x)) + g.spent[x]
  BY <1>1, <1>2 DEF Amount
<1>5. /\ Sum(Agents, pg) \in Int /\ Sum(Orgs, Chests(g, x)) \in Int /\ g.spent[x] \in Int
  BY AmountParts
<1> HIDE DEF ph, pg
<1>6. Sum(Agents, ph) = Sum(Agents, pg) + ph[a] - pg[a]
  BY <1>3, SumChange, GovernanceAssumption
<1>7. ph[a] \in Int /\ pg[a] \in Int
  BY <1>3
<1> QED
  BY <1>3, <1>4, <1>5, <1>6, <1>7 DEF h

\* A treasury changes.
LEMMA ChestAmount ==
  ASSUME NEW g \in Debts, NEW o \in Orgs, NEW r \in Bundles, NEW x \in Items
  PROVE  Amount([g EXCEPT !.treasury[o] = r], x) = Amount(g, x) + r[x] - g.treasury[o][x]
<1> DEFINE h == [g EXCEPT !.treasury[o] = r]
<1>1. /\ h \in Debts /\ h.inventory = g.inventory /\ h.spent = g.spent
      /\ \A p \in Orgs : h.treasury[p] = IF p = o THEN r ELSE g.treasury[p]
  BY DEF Debts
<1> HIDE DEF h
<1>2. /\ Chests(h, x) \in [Orgs -> Int] /\ Chests(g, x) \in [Orgs -> Int]
      /\ Purses(h, x) = Purses(g, x)
      /\ Chests(h, x)[o] = r[x] /\ Chests(g, x)[o] = g.treasury[o][x]
      /\ \A p \in Orgs \ {o} : Chests(h, x)[p] = Chests(g, x)[p]
  BY <1>1, AmountParts DEF Purses, Chests
<1> DEFINE ch == Chests(h, x)
           cg == Chests(g, x)
<1>3. /\ ch \in [Orgs -> Int] /\ cg \in [Orgs -> Int]
      /\ \A p \in Orgs \ {o} : ch[p] = cg[p]
      /\ ch[o] = r[x] /\ cg[o] = g.treasury[o][x]
  BY <1>2
<1>4. /\ Amount(h, x) = Sum(Agents, Purses(g, x)) + Sum(Orgs, ch) + g.spent[x]
      /\ Amount(g, x) = Sum(Agents, Purses(g, x)) + Sum(Orgs, cg) + g.spent[x]
  BY <1>1, <1>2 DEF Amount
<1>5. /\ Sum(Orgs, cg) \in Int /\ Sum(Agents, Purses(g, x)) \in Int /\ g.spent[x] \in Int
  BY AmountParts
<1> HIDE DEF ch, cg
<1>6. Sum(Orgs, ch) = Sum(Orgs, cg) + ch[o] - cg[o]
  BY <1>3, SumChange, GovernanceAssumption
<1>7. ch[o] \in Int /\ cg[o] \in Int
  BY <1>3
<1> QED
  BY <1>3, <1>4, <1>5, <1>6, <1>7 DEF h

\* A price is paid.
LEMMA SpentAmount ==
  ASSUME NEW g \in Debts, NEW b \in Bundles, NEW x \in Items
  PROVE  Amount(Spend(g, b), x) = Amount(g, x) + b[x]
<1> DEFINE h == Spend(g, b)
<1>1. /\ h.inventory = g.inventory /\ h.treasury = g.treasury
      /\ h.spent[x] = g.spent[x] + b[x]
  BY DEF Debts, Bundles, Spend, Plus
<1> HIDE DEF h
<1>2. /\ Purses(h, x) = Purses(g, x) /\ Chests(h, x) = Chests(g, x)
  BY <1>1 DEF Purses, Chests
<1>3. /\ Amount(h, x) = Sum(Agents, Purses(g, x)) + Sum(Orgs, Chests(g, x)) + h.spent[x]
      /\ Amount(g, x) = Sum(Agents, Purses(g, x)) + Sum(Orgs, Chests(g, x)) + g.spent[x]
  BY <1>2 DEF Amount
<1>4. /\ Sum(Agents, Purses(g, x)) \in Int /\ Sum(Orgs, Chests(g, x)) \in Int
      /\ g.spent[x] \in Int
  BY AmountParts
<1>5. b[x] \in Int
  BY DEF Bundles
<1> QED
  BY <1>1, <1>3, <1>4, <1>5 DEF h

\* A gift and a plain deduction.
LEMMA GiveAmount ==
  ASSUME NEW g \in Debts, NEW a \in Agents, NEW b \in Bundles, NEW x \in Items
  PROVE  Amount(Give(g, a, b), x) = Amount(g, x) + b[x]
<1> DEFINE r == Plus(g.inventory[a], b)
<1>1. g.inventory[a] \in [Items -> Int] /\ b \in [Items -> Nat]
  BY DEF Debts, Bundles
<1>2. r \in [Items -> Int] /\ r[x] = g.inventory[a][x] + b[x]
  BY <1>1 DEF Plus
<1>3. Give(g, a, b) = [g EXCEPT !.inventory[a] = r]
  BY DEF Give
<1> HIDE DEF r
<1>4. Amount(Give(g, a, b), x) = Amount(g, x) + r[x] - g.inventory[a][x]
  BY <1>2, <1>3, PurseAmount
<1>5. Amount(g, x) \in Int /\ g.inventory[a][x] \in Int /\ b[x] \in Int
  BY <1>1, AmountParts DEF Amount
<1> QED
  BY <1>2, <1>4, <1>5

LEMMA DrawAmount ==
  ASSUME NEW g \in Debts, NEW a \in Agents, NEW b \in Bundles, NEW x \in Items
  PROVE  Draw(g, a, b) \in Debts /\ Amount(Draw(g, a, b), x) = Amount(g, x) - b[x]
<1> DEFINE r == [y \in Items |-> g.inventory[a][y] - b[y]]
<1>1. g.inventory[a] \in [Items -> Int] /\ b \in [Items -> Nat]
  BY DEF Debts, Bundles
<1>2. r \in [Items -> Int] /\ r[x] = g.inventory[a][x] - b[x]
  BY <1>1
<1>3. Draw(g, a, b) = [g EXCEPT !.inventory[a] = r]
  BY DEF Draw
<1> HIDE DEF r
<1>4. Amount(Draw(g, a, b), x) = Amount(g, x) + r[x] - g.inventory[a][x]
  BY <1>2, <1>3, PurseAmount
<1>5. Amount(g, x) \in Int /\ g.inventory[a][x] \in Int /\ b[x] \in Int
  BY <1>1, AmountParts DEF Amount
<1>6. Draw(g, a, b) \in Debts
  BY <1>2, <1>3 DEF Debts
<1> QED
  BY <1>2, <1>4, <1>5, <1>6

\* Whoever has it pays the whole of it.
LEMMA TakeAmount ==
  ASSUME NEW g \in GoodsType, NEW a \in Agents, NEW b \in Bundles,
         HasItems(g.inventory[a], b), NEW x \in Items
  PROVE  Amount(Take(g, a, b), x) = Amount(g, x) - b[x]
<1> DEFINE r == Minus(g.inventory[a], b)
<1>1. /\ g.inventory[a] \in [Items -> Nat] /\ b \in [Items -> Nat] /\ g \in Debts
      /\ g.inventory[a][x] >= b[x]
  BY GoodsTypes DEF GoodsType, Bundles, HasItems
<1>2. r \in [Items -> Int] /\ r[x] = g.inventory[a][x] - b[x]
  <2>1. \A y \in Items : g.inventory[a][y] \in Nat /\ b[y] \in Nat
    BY <1>1
  <2>2. r \in [Items -> Int]
    BY <2>1 DEF Minus
  <2>3. r[x] = IF b[x] < g.inventory[a][x] THEN g.inventory[a][x] - b[x] ELSE 0
    BY DEF Minus
  <2> QED
    BY <1>1, <2>1, <2>2, <2>3
<1>3. Take(g, a, b) = [g EXCEPT !.inventory[a] = r]
  BY DEF Take
<1> HIDE DEF r
<1>4. Amount(Take(g, a, b), x) = Amount(g, x) + r[x] - g.inventory[a][x]
  <2>1. g \in Debts /\ r \in [Items -> Int]
    BY <1>1, <1>2
  <2> QED
    BY <1>3, <2>1, PurseAmount
<1>5. Amount(g, x) \in Int /\ g.inventory[a][x] \in Int /\ b[x] \in Int
  BY <1>1, AmountParts DEF Amount
<1> QED
  BY <1>2, <1>4, <1>5

\* Whoever the owner is, the payment is somewhere.
LEMMA OwnerAmount ==
  ASSUME TypeOK, NEW g \in Debts, NEW o, NEW b \in Bundles, NEW x \in Items
  PROVE  Amount(PayOwner(g, o, b), x) = Amount(g, x) + b[x]
<1>0. here \subseteq Agents /\ orgs \subseteq Orgs
  BY DEF TypeOK
<1>1. CASE o \in here
  BY <1>0, <1>1, GiveAmount DEF PayOwner
<1>2. CASE o \notin here /\ o \in orgs
  <2> DEFINE r == Plus(g.treasury[o], b)
  <2>1. g.treasury[o] \in [Items -> Nat] /\ b \in [Items -> Nat] /\ o \in Orgs
    BY <1>0, <1>2 DEF Debts, Bundles
  <2>2. r \in Bundles /\ r[x] = g.treasury[o][x] + b[x]
    BY <2>1 DEF Plus, Bundles
  <2>3. PayOwner(g, o, b) = [g EXCEPT !.treasury[o] = r]
    BY <1>2 DEF PayOwner
  <2> HIDE DEF r
  <2>4. Amount(PayOwner(g, o, b), x) = Amount(g, x) + r[x] - g.treasury[o][x]
    <3>1. o \in Orgs /\ r \in Bundles
      BY <2>1, <2>2
    <3> QED
      BY <2>3, <3>1, ChestAmount
  <2>5. Amount(g, x) \in Int /\ g.treasury[o][x] \in Int /\ b[x] \in Int
    BY <2>1, AmountParts DEF Amount
  <2> QED
    BY <2>2, <2>4, <2>5
<1>3. CASE o \notin here /\ o \notin orgs
  BY <1>3, SpentAmount DEF PayOwner
<1> QED
  BY <1>1, <1>2, <1>3

\* One leg of a trade and its tax.
LEMMA LegAmount ==
  ASSUME TypeOK, NEW g \in Debts, NEW from \in Agents, NEW to \in Agents,
         NEW b \in Bundles, NEW r \in 0..25, NEW o, NEW x \in Items
  PROVE  Amount(TransferWithTax(g, from, to, b, r, o), x) = Amount(g, x)
<1> DEFINE tax == CalcTax(b, r)
           net == Minus(b, tax)
           d == Draw(g, from, b)
           h == Give(d, to, net)
<1>1. /\ tax \in Bundles /\ \A y \in Items : 4 * tax[y] <= b[y]
  BY TaxTypes
<1>2. TransferWithTax(g, from, to, b, r, o) = IF r = 0 THEN h ELSE PayOwner(h, o, tax)
  BY DEF TransferWithTax
<1>3. r = 0 => tax[x] = 0
  <2> SUFFICES ASSUME r = 0 PROVE (b[x] * r) \div 100 = 0
    BY DEF CalcTax
  <2>1. b[x] \in Nat
    BY DEF Bundles
  <2>2. b[x] * r = 0
    BY <2>1
  <2> QED
    BY <2>2
<1> HIDE DEF tax
<1>4. net \in Bundles /\ net[x] = b[x] - tax[x] /\ b[x] \in Nat /\ tax[x] \in Nat
  <2>1. b \in [Items -> Nat] /\ tax \in [Items -> Nat]
    BY <1>1 DEF Bundles
  <2>2. net \in Bundles
    BY <1>1, BundleTypes
  <2>3. net[x] = IF tax[x] < b[x] THEN b[x] - tax[x] ELSE 0
    BY DEF Minus
  <2>4. 4 * tax[x] <= b[x] /\ b[x] \in Nat /\ tax[x] \in Nat
    BY <1>1, <2>1
  <2> QED
    BY <2>2, <2>3, <2>4
<1> HIDE DEF net
<1>5. d \in Debts /\ Amount(d, x) = Amount(g, x) - b[x]
  BY DrawAmount
<1>6. h \in Debts
  <2>1. h = Moved(g, from, to, b, tax)
    BY DEF Moved, net
  <2> QED
    BY <1>1, <2>1, MovedCost
<1> HIDE DEF d
<1>7. Amount(h, x) = Amount(d, x) + net[x]
  BY <1>4, <1>5, GiveAmount
<1> HIDE DEF h
<1>8. Amount(PayOwner(h, o, tax), x) = Amount(h, x) + tax[x]
  BY <1>1, <1>6, OwnerAmount
<1>9. Amount(g, x) \in Int
  BY AmountParts DEF Amount
<1> QED
  BY <1>2, <1>3, <1>4, <1>5, <1>7, <1>8, <1>9

-----------------------------------------------------------------------------
(* No step makes or loses items                                            *)

SameAmount == \A x \in Items : Amount(Goods, x)' = Amount(Goods, x)

\* A step that sets the goods to others of the same amount.
LEMMA AmountSet ==
  ASSUME TypeOK, NEW g, g \in GoodsType, SetGoods(g),
         \A x \in Items : Amount(g, x) = Amount(Goods, x)
  PROVE  SameAmount
<1>1. Goods' = g
  BY DEF SetGoods, Goods, GoodsType
<1>2. \A x \in Items : Amount(Goods, x)' = Amount(g, x)
  BY <1>1 DEF Amount, Purses, Chests
<1> QED
  BY <1>2 DEF SameAmount

LEMMA AmountKept ==
  ASSUME UNCHANGED goods
  PROVE  SameAmount
<1>1. Goods' = Goods
  BY DEF goods, Goods
<1> QED
  BY <1>1 DEF SameAmount, Amount, Purses, Chests

\* A payment to nobody, and a payment to an owner.
LEMMA PriceAmount ==
  ASSUME TypeOK, NEW a \in Agents, NEW b \in Bundles, HasItems(inventory[a], b),
         SetGoods(Spend(Take(Goods, a, b), b))
  PROVE  SameAmount
<1> DEFINE g == Take(Goods, a, b)
<1>1. Goods \in GoodsType /\ Goods.inventory = inventory
  BY GoodsTypes DEF GoodsFine, Goods
<1>2. g \in GoodsType /\ g \in Debts /\ Goods \in Debts
  BY <1>1, Payments, GoodsTypes
<1>3. \A x \in Items : Amount(g, x) = Amount(Goods, x) - b[x]
  BY <1>1, TakeAmount
<1> HIDE DEF g
<1>4. \A x \in Items : Amount(Spend(g, b), x) = Amount(g, x) + b[x]
  BY <1>2, SpentAmount
<1>5. \A x \in Items : Amount(Goods, x) \in Int /\ b[x] \in Int
  BY <1>2, AmountParts DEF Amount, Bundles
<1>6. \A x \in Items : Amount(Spend(g, b), x) = Amount(Goods, x)
  BY <1>3, <1>4, <1>5
<1>7. Spend(g, b) \in GoodsType
  BY <1>2, Payments
<1> QED
  BY <1>6, <1>7, AmountSet DEF g

LEMMA PaidAmount ==
  ASSUME TypeOK, NEW a \in Agents, NEW b \in Bundles, HasItems(inventory[a], b),
         NEW o, SetGoods(PayOwner(Take(Goods, a, b), o, b))
  PROVE  SameAmount
<1> DEFINE g == Take(Goods, a, b)
<1>1. Goods \in GoodsType /\ Goods.inventory = inventory
  BY GoodsTypes DEF GoodsFine, Goods
<1>2. g \in GoodsType /\ g \in Debts /\ Goods \in Debts
  BY <1>1, Payments, GoodsTypes
<1>3. \A x \in Items : Amount(g, x) = Amount(Goods, x) - b[x]
  BY <1>1, TakeAmount
<1> HIDE DEF g
<1>4. \A x \in Items : Amount(PayOwner(g, o, b), x) = Amount(g, x) + b[x]
  BY <1>2, OwnerAmount
<1>5. \A x \in Items : Amount(Goods, x) \in Int /\ b[x] \in Int
  BY <1>2, AmountParts DEF Amount, Bundles
<1>6. \A x \in Items : Amount(PayOwner(g, o, b), x) = Amount(Goods, x)
  BY <1>3, <1>4, <1>5
<1>7. PayOwner(g, o, b) \in GoodsType
  BY <1>2, OwnerGoods
<1> QED
  BY <1>6, <1>7, AmountSet DEF g

LEMMA BreakDeniedAmount ==
  ASSUME IInv, NEW a \in Agents, NEW l \in Live, BreakDenied(a, l)
  PROVE  SameAmount
<1> DEFINE x == Fine(l).item
           n == AtMost(Fine(l).a, inventory[a][x])
           pay == Of(x, n)
<1>1. TypeOK /\ GroundInv
  BY Start
<1>2. Fine(l).a > 0
  BY DEF BreakDenied
<1>3. x \in Items /\ Fine(l).a \in Nat
  BY <1>1, <1>2, TermsSane DEF Fine
<1>4. inventory[a] \in [Items -> Nat]
  BY <1>1 DEF TypeOK, Bundles
<1>5. n \in Nat /\ n <= inventory[a][x]
  <2>1. inventory[a][x] \in Nat
    BY <1>3, <1>4
  <2> QED
    BY <1>3, <2>1 DEF AtMost
<1>6. SetGoods(PayOwner(Take(Goods, a, pay), lands[l].owner, pay))
  BY DEF BreakDenied
<1> HIDE DEF n, x
<1>7. pay \in Bundles
  BY <1>3, <1>5, BundleConstants
<1>8. HasItems(inventory[a], pay)
  BY <1>3, <1>4, <1>5 DEF HasItems, Of
<1> HIDE DEF pay
<1> QED
  BY <1>1, <1>6, <1>7, <1>8, PaidAmount

LEMMA EnterCoreAmount ==
  ASSUME IInv, NEW a \in Agents, NEW l \in Live, EnterCore(a, l)
  PROVE  SameAmount
<1> DEFINE ticket == Of(Pass(l).item, Pass(l).a)
<1>1. TypeOK /\ GroundInv
  BY Start
<1>2. Pass(l).item \in Items /\ Pass(l).a \in Nat
  BY <1>1, TermsSane DEF Pass, EnterCore
<1>3. ticket \in Bundles
  BY <1>2, BundleConstants
<1>4. /\ HasItems(inventory[a], ticket)
      /\ SetGoods(PayOwner(Take(Goods, a, ticket), lands[l].owner, ticket))
  BY DEF EnterCore
<1> HIDE DEF ticket
<1> QED
  BY <1>1, <1>3, <1>4, PaidAmount

LEMMA OrgDepositAmount ==
  ASSUME IInv, NEW a \in Agents, NEW o \in Orgs, NEW b \in Offers, OrgDeposit(a, o, b)
  PROVE  SameAmount
<1> DEFINE g == Take(Goods, a, b)
           r == Plus(g.treasury[o], b)
           h == [g EXCEPT !.treasury[o] = r]
<1>1. /\ TypeOK /\ b \in Bundles /\ o \in orgs /\ orgs \subseteq Orgs
      /\ HasItems(inventory[a], b)
  <2>1. HasItems(inventory[a], b)
    BY DEF OrgDeposit
  <2>2. TypeOK /\ b \in Bundles /\ o \in orgs /\ orgs \subseteq Orgs
    <3>1. o \in orgs
      BY Zenon DEF OrgDeposit, IsOrgMember
    <3> QED
      BY <3>1, Start, GovernanceAssumption DEF TypeOK
  <2> QED
    BY <2>1, <2>2
<1>2. Goods \in GoodsType /\ Goods.inventory = inventory
  BY <1>1, GoodsTypes DEF GoodsFine, Goods
<1>3. g \in GoodsType /\ g \in Debts /\ Goods \in Debts
  BY <1>1, <1>2, GoodsTypes, Payments
<1>4. SetGoods(h)
  BY DEF OrgDeposit
<1>5. \A x \in Items : Amount(g, x) = Amount(Goods, x) - b[x]
  BY <1>1, <1>2, TakeAmount
<1> HIDE DEF g
<1>6. /\ r \in Bundles /\ g.treasury[o] \in [Items -> Nat] /\ b \in [Items -> Nat]
  BY <1>1, <1>3, BundleTypes, TreasuryPayments DEF Bundles
<1>7. \A x \in Items : r[x] = g.treasury[o][x] + b[x]
  BY DEF Plus
<1> HIDE DEF r
<1>8. \A x \in Items : Amount(h, x) = Amount(g, x) + r[x] - g.treasury[o][x]
  BY <1>3, <1>6, ChestAmount
<1>9. \A x \in Items : /\ Amount(Goods, x) \in Int /\ b[x] \in Int
                       /\ g.treasury[o][x] \in Int
  BY <1>3, <1>6, AmountParts DEF Amount
<1>10. \A x \in Items : Amount(h, x) = Amount(Goods, x)
  BY <1>5, <1>7, <1>8, <1>9
<1>11. h \in GoodsType
  BY <1>1, <1>3, <1>6, TreasuryPayments
<1> HIDE DEF h
<1> QED
  BY <1>1, <1>4, <1>10, <1>11, AmountSet

LEMMA OrgWithdrawAmount ==
  ASSUME IInv, NEW a \in Agents, NEW o \in Orgs, NEW b \in Offers, OrgWithdraw(a, o, b)
  PROVE  SameAmount
<1> DEFINE g == Give(Goods, a, b)
           r == Minus(g.treasury[o], b)
           h == [g EXCEPT !.treasury[o] = r]
<1>1. /\ TypeOK /\ b \in Bundles /\ o \in orgs /\ orgs \subseteq Orgs
      /\ HasItems(treasury[o], b)
  <2>1. o \in orgs /\ HasItems(treasury[o], b)
    BY DEF OrgWithdraw, IsOrgAdmin
  <2> QED
    BY <2>1, Start, GovernanceAssumption DEF TypeOK
<1>2. Goods \in GoodsType /\ Goods \in Debts
  BY <1>1, GoodsTypes DEF GoodsFine
<1>3. g \in GoodsType /\ g \in Debts /\ g.treasury = treasury
  BY <1>1, <1>2, GoodsTypes, Payments DEF Give, Goods
<1>4. SetGoods(h)
  BY DEF OrgWithdraw
<1>5. \A x \in Items : Amount(g, x) = Amount(Goods, x) + b[x]
  BY <1>1, <1>2, GiveAmount
<1> HIDE DEF g
<1>6. /\ r \in Bundles /\ g.treasury[o] \in [Items -> Nat] /\ b \in [Items -> Nat]
  BY <1>1, <1>3, BundleTypes, TreasuryPayments DEF Bundles
<1>7. ASSUME NEW x \in Items PROVE r[x] = g.treasury[o][x] - b[x]
  <2>1. g.treasury[o][x] >= b[x] /\ g.treasury[o][x] \in Nat /\ b[x] \in Nat
    BY <1>1, <1>3, <1>6 DEF HasItems
  <2>2. r[x] = IF b[x] < g.treasury[o][x] THEN g.treasury[o][x] - b[x] ELSE 0
    BY DEF Minus
  <2> QED
    BY <2>1, <2>2
<1> HIDE DEF r
<1>8. \A x \in Items : Amount(h, x) = Amount(g, x) + r[x] - g.treasury[o][x]
  BY <1>3, <1>6, ChestAmount
<1>9. \A x \in Items : /\ Amount(Goods, x) \in Int /\ b[x] \in Int
                       /\ g.treasury[o][x] \in Int
  BY <1>2, <1>6, AmountParts DEF Amount
<1>10. \A x \in Items : Amount(h, x) = Amount(Goods, x)
  BY <1>5, <1>7, <1>8, <1>9
<1>11. h \in GoodsType
  BY <1>1, <1>3, <1>6, TreasuryPayments
<1> HIDE DEF h
<1> QED
  BY <1>1, <1>4, <1>10, <1>11, AmountSet

LEMMA AcceptTradeAmount ==
  ASSUME IInv, NEW a \in Agents, NEW t \in TradeIds, NEW lf \in Somewhere,
         NEW lt \in Somewhere, NEW week \in BOOLEAN, AcceptTrade(a, t, lf, lt, week)
  PROVE  SameAmount
<1> DEFINE tr == trades[t]
           rate == TradeTax(lf, lt, week)
           owner == IF lf = None THEN None ELSE lands[lf].owner
<1>1. TypeOK /\ GroundInv
  BY Start
<1>2. tr \in Trade /\ tr.to = a
  BY <1>1 DEF AcceptTrade, Addressed, TypeOK
<1>3. /\ tr.from \in Agents /\ tr.offer \in Bundles /\ tr.request \in Bundles
      /\ HasItems(inventory[tr.from], tr.offer) /\ HasItems(inventory[a], tr.request)
  BY <1>2 DEF Trade, AcceptTrade, BothHave
<1>4. rate \in 0..25
  <2>1. CASE lf = None
    BY <2>1 DEF TradeTax
  <2>2. CASE lf # None
    <3>1. lands[lf].terms["MARKET_TAX"].a \in 0..25
      BY <1>1, <2>2, TermsSane DEF Somewhere
    <3> QED
      BY <2>2, <3>1 DEF TradeTax, EffectiveMarketTax
  <2> QED
    BY <2>1, <2>2
<1> DEFINE h == TransferWithTax(Goods, tr.from, a, tr.offer, rate, owner)
           i == TransferWithTax(h, a, tr.from, tr.request, rate, owner)
<1>5. SetGoods(i)
  BY DEF AcceptTrade
<1> HIDE DEF tr, rate, owner
<1>6. i \in GoodsType
  BY <1>1, <1>3, <1>4, TradeGoods DEF GoodsFine
<1>7. Goods \in Debts
  BY <1>1, GoodsTypes DEF GoodsFine
<1>8. h \in Debts
  BY <1>1, <1>3, <1>4, <1>7, LegKept
<1>9. \A x \in Items : Amount(h, x) = Amount(Goods, x)
  BY <1>1, <1>3, <1>4, <1>7, LegAmount
<1> HIDE DEF h
<1>10. \A x \in Items : Amount(i, x) = Amount(h, x)
  BY <1>1, <1>3, <1>4, <1>8, LegAmount
<1> HIDE DEF i
<1> QED
  BY <1>1, <1>5, <1>6, <1>9, <1>10, AmountSet

LEMMA MaintainClaimAmount ==
  ASSUME IInv, NEW l \in LandIds, MaintainClaim(l)
  PROVE  SameAmount
<1>1. /\ TypeOK /\ MaintenanceCost \in Bundles
      /\ orgs \subseteq Orgs /\ here \subseteq Agents
      /\ Goods \in GoodsType /\ Goods \in Debts /\ Goods.inventory = inventory
      /\ Goods.treasury = treasury
  <2>1. TypeOK
    BY Start
  <2>2. Goods \in GoodsType /\ Goods \in Debts
    BY <2>1, GoodsTypes DEF GoodsFine
  <2> QED
    BY <2>1, <2>2, GovernanceAssumption DEF TypeOK, Goods
<1> DEFINE c == MaintenanceCost
<1>2. PICK o : o = lands[l].owner
  OBVIOUS
<1>3. SetGoods(IF CanPay(o) THEN PayMaintenance(o) ELSE Goods)
  BY <1>2 DEF MaintainClaim
<1>4. CASE ~CanPay(o)
  BY <1>1, <1>3, <1>4, AmountSet
<1>5. CASE CanPay(o) /\ o \in orgs /\ HasItems(treasury[o], c)
  <2> DEFINE r == Minus(Goods.treasury[o], c)
             g == [Goods EXCEPT !.treasury[o] = r]
  <2>1. o \in Orgs /\ treasury[o] \in [Items -> Nat] /\ c \in [Items -> Nat]
    BY <1>1, <1>5 DEF TypeOK, Bundles
  <2>2. ASSUME NEW x \in Items PROVE r[x] = treasury[o][x] - c[x]
    <3>1. treasury[o][x] >= c[x] /\ treasury[o][x] \in Nat /\ c[x] \in Nat
      BY <1>5, <2>1 DEF HasItems
    <3>2. r[x] = IF c[x] < treasury[o][x] THEN treasury[o][x] - c[x] ELSE 0
      BY <1>1 DEF Minus
    <3> QED
      BY <3>1, <3>2
  <2>3. r \in Bundles
    BY <1>1, <1>5, BundleTypes, TreasuryPayments
  <2>4. PayMaintenance(o) = Spend(g, c)
    BY <1>5 DEF PayMaintenance
  <2> HIDE DEF r
  <2>5. \A x \in Items : Amount(g, x) = Amount(Goods, x) + r[x] - treasury[o][x]
    BY <1>1, <2>1, <2>3, ChestAmount
  <2>6. g \in GoodsType /\ g \in Debts
    BY <1>1, <1>5, <2>3, TreasuryPayments, GoodsTypes
  <2> HIDE DEF g
  <2>7. \A x \in Items : Amount(Spend(g, c), x) = Amount(g, x) + c[x]
    BY <1>1, <2>6, SpentAmount
  <2>8. \A x \in Items : /\ Amount(Goods, x) \in Int /\ treasury[o][x] \in Int
                         /\ c[x] \in Int
    BY <1>1, <2>1, AmountParts DEF Amount
  <2>9. \A x \in Items : Amount(Spend(g, c), x) = Amount(Goods, x)
    BY <2>2, <2>5, <2>7, <2>8
  <2>10. Spend(g, c) \in GoodsType
    <3>1. Plus(g.spent, c) \in Bundles
      BY <1>1, <2>6, BundleTypes DEF GoodsType
    <3> QED
      BY <2>6, <3>1 DEF Spend, GoodsType
  <2> QED
    BY <1>1, <1>3, <1>5, <2>4, <2>9, <2>10, AmountSet
<1>6. CASE CanPay(o) /\ ~(o \in orgs /\ HasItems(treasury[o], c))
  <2>1. o \in here /\ HasItems(inventory[o], c)
    BY <1>6 DEF CanPay
  <2>2. o \in Agents /\ o \notin orgs
    BY <1>1, <2>1, GovernanceAssumption
  <2>3. PayMaintenance(o) = Spend(Take(Goods, o, c), c)
    BY <2>2 DEF PayMaintenance
  <2> QED
    BY <1>1, <1>3, <1>6, <2>1, <2>2, <2>3, PriceAmount
<1> QED
  BY <1>4, <1>5, <1>6

LEMMA LeaveOrgAmount ==
  ASSUME IInv, NEW a \in Agents, LeaveOrg(a)
  PROVE  SameAmount
<1>1. TypeOK /\ Goods \in GoodsType /\ Goods \in Debts /\ Goods.treasury = treasury
  BY Start, GoodsTypes DEF GoodsFine, Goods
<1>2. PICK o \in Orgs : o = orgOf[a]
  BY <1>1 DEF LeaveOrg, TypeOK
<1> DEFINE last == Members(o) \ {a} = {}
           s == Spend(Goods, treasury[o])
           g == [s EXCEPT !.treasury[o] = Nothing]
<1>3. UNCHANGED goods \/ SetGoods(IF ~last THEN Goods ELSE g)
  BY <1>2 DEF LeaveOrg
<1>4. treasury[o] \in Bundles /\ treasury[o] \in [Items -> Nat]
  BY <1>1 DEF TypeOK, Bundles
<1>5. s \in GoodsType /\ s \in Debts /\ s.treasury = treasury
  <2>1. Plus(Goods.spent, treasury[o]) \in Bundles
    BY <1>1, <1>4, BundleTypes DEF GoodsType
  <2>2. s = [Goods EXCEPT !.spent = Plus(Goods.spent, treasury[o])]
    BY DEF Spend
  <2>3. s \in GoodsType /\ s.treasury = treasury
    BY <1>1, <2>1, <2>2 DEF GoodsType
  <2> QED
    BY <2>3, GoodsTypes
<1>6. \A x \in Items : Amount(s, x) = Amount(Goods, x) + treasury[o][x]
  BY <1>1, <1>4, SpentAmount
<1> HIDE DEF s
<1>7. Nothing \in Bundles /\ \A x \in Items : Nothing[x] = 0
  BY BundleConstants DEF Nothing
<1>8. \A x \in Items : Amount(g, x) = Amount(s, x) + Nothing[x] - treasury[o][x]
  BY <1>5, <1>7, ChestAmount
<1>9. \A x \in Items : Amount(Goods, x) \in Int /\ treasury[o][x] \in Int
  BY <1>1, <1>4, AmountParts DEF Amount
<1>10. \A x \in Items : Amount(g, x) = Amount(Goods, x)
  BY <1>6, <1>7, <1>8, <1>9
<1>11. g \in GoodsType
  BY <1>5, <1>7 DEF GoodsType
<1> HIDE DEF g, last
<1>12. CASE UNCHANGED goods
  BY <1>12, AmountKept
<1>13. CASE SetGoods(IF ~last THEN Goods ELSE g)
  BY <1>1, <1>10, <1>11, <1>13, AmountSet
<1> QED
  BY <1>3, <1>12, <1>13

\* No step changes the amount of an item.
LEMMA NextAmount ==
  ASSUME IInv, [Next]_vars
  PROVE  SameAmount
<1>1. ASSUME NEW a \in Agents, LandOps(a) PROVE SameAmount
  <2>1. ASSUME NEW p \in Anchors, NEW r \in Radii, ClaimLand(a, p, r) PROVE SameAmount
    BY <2>1, Start, PriceAmount, GovernanceAssumption DEF ClaimLand
  <2>2. ASSUME NEW l \in LandIds, NEW land, SetLand(a, l, land) PROVE SameAmount
    BY <2>2, AmountKept DEF SetLand
  <2>3. ASSUME NEW l \in Live, NEW r \in Radii, UpgradeClaim(a, l, r) PROVE SameAmount
    <3>1. lands[l].radius \in 1..128 /\ r \in {64, 128}
      BY <2>3, Start DEF TypeOK, Live, Land, UpgradeClaim, ValidateUpgradeRadius
    <3>2. UpgradeCost(lands[l].radius, r) \in Bundles
      BY <3>1, GovernanceAssumption
    <3> QED
      BY <2>3, <3>2, Start, PriceAmount DEF UpgradeClaim
  <2>4. ASSUME NEW p \in Anchors, BreakBlock(a, p) PROVE SameAmount
    BY <2>4, AmountKept DEF BreakBlock
  <2>5. ASSUME NEW p \in Anchors, NEW kind \in Kinds, PlaceBlock(a, p, kind) PROVE SameAmount
    BY <2>5, AmountKept DEF PlaceBlock
  <2> QED
    BY <1>1, <2>1, <2>2, <2>3, <2>4, <2>5, BreakDeniedAmount, EnterCoreAmount
    DEF LandOps, SetPermissions, AddMember, RemoveMember, DeedLand
<1>2. ASSUME NEW a \in Agents, LawOps(a) PROVE SameAmount
  <2>1. ASSUME NEW l \in Live, NEW bill \in Bills, ProposeLaw(a, l, bill)
        PROVE  UNCHANGED goods
    BY <2>1, Zenon DEF ProposeLaw
  <2>2. ASSUME NEW w \in LawIds, NEW choice, VoteLaw(a, w, choice)
        PROVE  UNCHANGED goods
    BY <2>2 DEF VoteLaw
  <2> QED
    BY <1>2, <2>1, <2>2, AmountKept DEF LawOps
<1>3. ASSUME NEW a \in Agents, OrgOps(a) PROVE SameAmount
  <2>1. ASSUME NEW o \in Orgs, CreateOrg(a, o) \/ JoinOrg(a, o) PROVE SameAmount
    BY <2>1, AmountKept DEF CreateOrg, JoinOrg
  <2> QED
    BY <1>3, <2>1, LeaveOrgAmount, OrgDepositAmount, OrgWithdrawAmount DEF OrgOps
<1>4. ASSUME NEW a \in Agents, TradeOps(a) PROVE SameAmount
  <2>1. ASSUME NEW l \in Somewhere, NEW b \in Agents, NEW deal \in Deals,
               OfferTrade(a, l, b, deal)
        PROVE  SameAmount
    BY <2>1, AmountKept DEF OfferTrade
  <2>2. ASSUME NEW t \in TradeIds, DeclineTrade(a, t)
        PROVE  SameAmount
    BY <2>2, AmountKept DEF DeclineTrade
  <2> QED
    BY <1>4, <2>1, <2>2, AcceptTradeAmount DEF TradeOps
<1>5. ASSUME NEW a \in Agents, Travels(a) PROVE SameAmount
  <2>1. CASE Depart(a)
    BY <2>1, AmountKept DEF Depart
  <2>2. ASSUME NEW o, NEW copy, Arrive(a, o, copy) PROVE SameAmount
    BY <2>2, AmountKept DEF Arrive
  <2> QED
    BY <1>5, <2>1, <2>2 DEF Travels
<1>6. ASSUME NEW p \in Anchors, Overwrite(p) PROVE SameAmount
  BY <1>6, AmountKept DEF Overwrite
<1>7. ASSUME BeginStep \/ EndStep PROVE SameAmount
  <2>1. CASE BeginStep
    BY <2>1, AmountKept DEF BeginStep
  <2>2. CASE EndStep
    <3>1. UNCHANGED goods
      BY <2>2, Zenon DEF EndStep
    <3> QED
      BY <3>1, AmountKept
  <2> QED
    BY <1>7, <2>1, <2>2
<1>8. ASSUME UNCHANGED vars PROVE SameAmount
  BY <1>8, AmountKept DEF vars
<1> QED
  BY <1>1, <1>2, <1>3, <1>4, <1>5, <1>6, <1>7, <1>8, MaintainClaimAmount DEF Next

\* What the agents came with.
Brought(x) == Sum(Agents, [a \in Agents |-> Kit[x]])

\* There is of every item what the agents came with.
AmountInv == \A x \in Items : Amount(Goods, x) = Brought(x)

LEMMA InitAmount == Init => AmountInv
<1> SUFFICES ASSUME Init, NEW x \in Items PROVE Amount(Goods, x) = Brought(x)
  BY DEF AmountInv
<1>0. /\ inventory = [a \in Agents |-> Kit] /\ spent = Nothing
      /\ treasury = [o \in Orgs |-> Nothing]
      /\ Goods.inventory = inventory /\ Goods.treasury = treasury /\ Goods.spent = spent
      /\ Nothing[x] = 0
  <2>1. /\ inventory = [a \in Agents |-> Kit] /\ spent = Nothing
        /\ treasury = [o \in Orgs |-> Nothing]
    BY Zenon DEF Init
  <2> QED
    BY <2>1 DEF Goods, Nothing
<1>1. Purses(Goods, x) = [a \in Agents |-> Kit[x]]
  BY <1>0 DEF Purses
<1>2. Kit[x] \in Nat
  BY GovernanceAssumption DEF Bundles
<1>3. Goods.spent[x] = 0 /\ Chests(Goods, x) = [o \in Orgs |-> 0]
  BY <1>0 DEF Chests
<1> DEFINE z == [o \in Orgs |-> 0]
           k == [a \in Agents |-> Kit[x]]
<1>4. Sum(Orgs, z) = 0
  <2>1. z \in [Orgs -> Nat] /\ \A o \in Orgs : z[o] = 0
    OBVIOUS
  <2> HIDE DEF z
  <2>2. Sum(Orgs, z) = Count(Orgs, z)
    BY <2>1, SumCount, GovernanceAssumption
  <2>3. UNION {{o} \X (1..z[o]) : o \in Orgs} = {}
    <3>1. \A o \in Orgs : 1..z[o] = {}
      BY <2>1
    <3>2. \A o \in Orgs : {o} \X (1..z[o]) = {}
      BY <3>1
    <3> QED
      BY <3>2
  <2> QED
    BY <2>2, <2>3, FS_EmptySet DEF Count
<1>5. Sum(Agents, k) \in Nat
  <2>1. k \in [Agents -> Nat]
    BY <1>2
  <2> HIDE DEF k
  <2> QED
    BY <2>1, SumCount, GovernanceAssumption
<1> QED
  BY <1>1, <1>3, <1>4, <1>5 DEF Amount, Brought

\* The totals of the property are the sums.
LEMMA TotalSums ==
  ASSUME NEW S, IsFiniteSet(S), NEW f \in [S -> Bundles], NEW x \in Items
  PROVE  /\ Total(f, S)[x] = Sum(S, [k \in S |-> f[k][x]])
         /\ Total(f, S)[x] \in Nat
<1> DEFINE h == [k \in S |-> f[k][x]]
<1>1. h \in [S -> Nat]
  BY DEF Bundles
<1>2. \A k \in S : h[k] = f[k][x]
  OBVIOUS
<1>3. \A k \in S : {k} \X (1..h[k]) = {k} \X (1..f[k][x])
  BY <1>2
<1> HIDE DEF h
<1>4. UNION {{k} \X (1..h[k]) : k \in S} = UNION {{k} \X (1..f[k][x]) : k \in S}
  BY <1>3
<1>5. Total(f, S)[x] = Count(S, h)
  BY <1>4 DEF Total, Units, Count
<1>6. Sum(S, h) = Count(S, h) /\ Sum(S, h) \in Nat
  BY <1>1, SumCount
<1> QED
  BY <1>5, <1>6 DEF h

LEMMA AmountConserved ==
  ASSUME TypeOK, AmountInv
  PROVE  ItemsConserved
<1>1. /\ inventory \in [Agents -> Bundles] /\ treasury \in [Orgs -> Bundles]
      /\ spent \in Bundles /\ [a \in Agents |-> Kit] \in [Agents -> Bundles]
  BY GovernanceAssumption DEF TypeOK
<1> DEFINE ti == Total(inventory, Agents)
           tt == Total(treasury, Orgs)
           tk == Total([a \in Agents |-> Kit], Agents)
<1>2. ASSUME NEW x \in Items PROVE ti[x] + tt[x] + spent[x] = tk[x]
  <2>1. ti[x] = Sum(Agents, Purses(Goods, x))
    BY <1>1, TotalSums, GovernanceAssumption DEF Purses, Goods
  <2>2. tt[x] = Sum(Orgs, Chests(Goods, x))
    BY <1>1, TotalSums, GovernanceAssumption DEF Chests, Goods
  <2>3. tk[x] = Brought(x)
    <3> DEFINE f == [a \in Agents |-> Kit]
    <3>1. f \in [Agents -> Bundles] /\ [a \in Agents |-> f[a][x]] = [a \in Agents |-> Kit[x]]
      BY <1>1
    <3> HIDE DEF f
    <3>2. Total(f, Agents)[x] = Sum(Agents, [a \in Agents |-> f[a][x]])
      BY <3>1, TotalSums, GovernanceAssumption
    <3> QED
      BY <3>1, <3>2 DEF Brought, f
  <2>4. Amount(Goods, x) = Brought(x) /\ Goods.spent = spent
    BY DEF AmountInv, Goods
  <2> HIDE DEF ti, tt, tk
  <2> QED
    BY <2>1, <2>2, <2>3, <2>4 DEF Amount
<1>3. tk = [x \in Items |-> tk[x]]
  BY DEF Total
<1>4. Plus(Plus(ti, tt), spent) = [x \in Items |-> ti[x] + tt[x] + spent[x]]
  BY DEF Plus
<1> HIDE DEF ti, tt, tk
<1>5. Plus(Plus(ti, tt), spent) = tk
  BY <1>2, <1>3, <1>4
<1> QED
  BY <1>5 DEF ItemsConserved, ti, tt, tk

-----------------------------------------------------------------------------
(* The theorems                                                            *)

(* The state keeps its types.  An item map has no count below zero: a payment
   or a trade never takes what is not there, although a trade deducts without
   looking and somebody may trade with himself and be taxed twice
   (ApplyTransferWithTax, HandleAcceptTrade). *)
THEOREM GovernanceTypeCorrect == Spec => []TypeOK
<1>1. IInv => TypeOK
  BY DEF IInv
<1> QED
  BY InitIInv, NextIInv, <1>1, PTL DEF Spec

(* No two claims ever overlap, however claims are made and grown
   (HandleTaskClaimLand, HandleUpgradeClaim). *)
THEOREM ClaimsApart == Spec => []LandsApart
<1>1. IInv => LandsApart
  BY DEF IInv
<1> QED
  BY InitIInv, NextIInv, <1>1, PTL DEF Spec

(* A law never outlives its claim (removeClaimByAnchor), whatever was proposed,
   voted or in force. *)
THEOREM LawsBound == Spec => []LawsOnLand
<1>1. IInv => LawsOnLand
  BY DEF IInv
<1> QED
  BY InitIInv, NextIInv, <1>1, PTL DEF Spec

(* Every tax, curfew, fine and ticket of a claim is what a law of that claim in
   force says, which had more votes for it than against (TickLaws,
   ApplyTemplateToLand). *)
THEOREM TermsEnacted == Spec => []TermsFromLaws
<1>1. IInv => TermsFromLaws
  BY DEF IInv
<1> QED
  BY InitIInv, NextIInv, <1>1, PTL DEF Spec

(* An agent of this world is a member of the organization whose id it carries,
   and an organization that is gone has neither members nor a treasury, however
   agents come and go with copies of organizations.  As long as no agent has
   brought an organization's id from another world, or come back without it,
   memberships are exact and there is one leader (HandleLeaveOrg,
   UpsertIncomingOrg). *)
THEOREM MembersAgree == Spec => []RolesAgree
<1>1. IInv => RolesAgree
  BY DEF IInv
<1> QED
  BY InitIInv, NextIInv, <1>1, PTL DEF Spec

(* Items change hands and none appears or disappears, for any agents, prices,
   taxes and offers: neither a trade between agents of which one owns the land,
   nor one with oneself, nor a payment to an owner who is away, nor the end of
   an organization makes or loses any (ApplyTransferWithTax,
   TransferToLandOwner, PayMaintenance, HandleLeaveOrg). *)
THEOREM NothingMadeOrLost == Spec => []ItemsConserved
<1>1. IInv /\ AmountInv /\ [Next]_vars => AmountInv'
  <2> SUFFICES ASSUME IInv, AmountInv, [Next]_vars, NEW x \in Items
               PROVE  Amount(Goods, x)' = Brought(x)
    BY DEF AmountInv, Brought
  <2> QED
    BY NextAmount DEF AmountInv, SameAmount
<1>2. IInv /\ AmountInv => ItemsConserved
  BY AmountConserved DEF IInv
<1> QED
  BY InitIInv, NextIInv, InitAmount, <1>1, <1>2, PTL DEF Spec
=============================================================================
