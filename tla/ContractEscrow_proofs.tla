----------------------- MODULE ContractEscrow_proofs -----------------------
(***************************************************************************)
(* Proofs about ContractEscrow: terminals can pay every stake, no contract *)
(* under way loses its terminal, items are conserved and every contract    *)
(* that ends pays the right agents, for any agents, terminals, items,      *)
(* contracts and clock.                                                    *)
(***************************************************************************)
EXTENDS ContractEscrow, FiniteSetTheorems, TLAPS

-----------------------------------------------------------------------------
(* Item maps                                                               *)

\* Item maps stay item maps, whatever the arithmetic: counts never go below 0.
LEMMA BundleTypes ==
  ASSUME NEW b \in Bundles, NEW d \in Bundles
  PROVE  /\ Plus(b, d) \in Bundles
         /\ Minus(b, d) \in Bundles
         /\ \A k \in Nat : Times(k, d) \in Bundles
  BY DEF Bundles, Plus, Minus, Times

\* The empty map and the map of one item are item maps.
LEMMA BundleConstants ==
  /\ Nothing \in Bundles
  /\ \A x \in Items, n \in Nat : One(x, n) \in Bundles
  BY DEF Bundles, Nothing, One

\* The item maps of a contract are item maps.
LEMMA ContractBundles ==
  ASSUME NEW k \in Contract
  PROVE  Stakes(k) \in Bundles /\ Due(k) \in Bundles
  BY BundleTypes, BundleConstants DEF Contract, Stakes, Due

-----------------------------------------------------------------------------
(* Sums as cardinalities                                                   *)

\* The units of a sum over a finite set are finitely many.
LEMMA UnitsFinite ==
  ASSUME NEW S, IsFiniteSet(S), NEW f \in [S -> Nat]
  PROVE  IsFiniteSet(Units(S, f)) /\ Total(S, f) \in Nat
<1> DEFINE Of(s) == {s} \X (1..f[s])
           All == {Of(s) : s \in S}
           g == [s \in S |-> Of(s)]
<1>1. g \in Surjection(S, All)
  BY DEF Surjection
<1>2. IsFiniteSet(All)
  BY <1>1, FS_Surjection
<1>3. ASSUME NEW s \in S PROVE IsFiniteSet(Of(s))
  <2>1. f[s] \in Nat
    OBVIOUS
  <2>2. IsFiniteSet(1..f[s])
    BY <2>1, FS_Interval
  <2> QED
    BY <2>2, FS_Singleton, FS_Product
<1>4. \A T \in All : IsFiniteSet(T)
  BY <1>3
<1>5. IsFiniteSet(UNION All)
  BY <1>2, <1>4, FS_UNION
<1>6. Units(S, f) = UNION All
  BY DEF Units
<1> QED
  BY <1>5, <1>6, FS_CardinalityType DEF Total

\* One term of a sum and the rest of it.
LEMMA TotalSplit ==
  ASSUME NEW S, IsFiniteSet(S), NEW f \in [S -> Nat], NEW s \in S
  PROVE  /\ Total(S, f) = Total(S \ {s}, f) + f[s]
         /\ Total(S \ {s}, f) \in Nat
<1> DEFINE Rest == Units(S \ {s}, f)
           Term == {s} \X (1..f[s])
<1>1. IsFiniteSet(S \ {s})
  BY FS_RemoveElement
<1>2. IsFiniteSet(Rest) /\ Cardinality(Rest) \in Nat
  <2> DEFINE h == [r \in S \ {s} |-> f[r]]
  <2>1. h \in [S \ {s} -> Nat]
    OBVIOUS
  <2>2. IsFiniteSet(Units(S \ {s}, h)) /\ Total(S \ {s}, h) \in Nat
    BY <1>1, <2>1, UnitsFinite
  <2>3. Units(S \ {s}, h) = Rest
    BY DEF Units
  <2> QED
    BY <2>2, <2>3 DEF Total
<1>3. IsFiniteSet(Term) /\ Cardinality(Term) = f[s]
  <2>1. f[s] \in Nat
    OBVIOUS
  <2>2. IsFiniteSet(1..f[s]) /\ Cardinality(1..f[s]) = f[s]
    BY <2>1, FS_Interval
  <2>3. IsFiniteSet({s}) /\ Cardinality({s}) = 1
    BY FS_Singleton
  <2>4. Cardinality(Term) = Cardinality({s}) * Cardinality(1..f[s])
    BY <2>2, <2>3, FS_Product
  <2>5. IsFiniteSet(Term)
    BY <2>2, <2>3, FS_Product
  <2> QED
    BY <2>1, <2>2, <2>3, <2>4, <2>5
<1>4. Units(S, f) = Rest \cup Term
  BY DEF Units
<1>5. Rest \cap Term = {}
  BY DEF Units
<1>6. Cardinality(Rest \cup Term) = Cardinality(Rest) + Cardinality(Term)
  <2>1. Cardinality(Rest \cup Term)
          = Cardinality(Rest) + Cardinality(Term) - Cardinality(Rest \cap Term)
    BY <1>2, <1>3, FS_Union
  <2>2. Cardinality(Rest \cap Term) = 0
    BY <1>5, FS_EmptySet
  <2>3. Cardinality(Term) \in Nat
    BY <1>3
  <2> QED
    BY <1>2, <2>1, <2>2, <2>3
<1> QED
  BY <1>2, <1>3, <1>4, <1>6 DEF Total

\* A sum changes by what one of its terms changes.
LEMMA TotalChange ==
  ASSUME NEW S, IsFiniteSet(S), NEW f \in [S -> Nat], NEW g \in [S -> Nat],
         NEW s \in S, \A r \in S \ {s} : g[r] = f[r]
  PROVE  Total(S, g) + f[s] = Total(S, f) + g[s]
<1>1. Units(S \ {s}, f) = Units(S \ {s}, g)
  BY DEF Units
<1>2. Total(S \ {s}, f) = Total(S \ {s}, g)
  BY <1>1 DEF Total
<1>3. /\ Total(S, f) = Total(S \ {s}, f) + f[s]
      /\ Total(S \ {s}, f) \in Nat
  BY TotalSplit
<1>4. Total(S, g) = Total(S \ {s}, g) + g[s]
  BY TotalSplit
<1>5. f[s] \in Nat /\ g[s] \in Nat
  OBVIOUS
<1> QED
  BY <1>2, <1>3, <1>4, <1>5

\* f and g are alike but for the term s.
Alike(S, f, g, s) ==
  /\ f \in [S -> Nat] /\ g \in [S -> Nat]
  /\ s \in S
  /\ \A r \in S \ {s} : g[r] = f[r]

\* The same, about functions that are alike.
LEMMA AlikeChange ==
  \A S, f, g, s :
    IsFiniteSet(S) /\ Alike(S, f, g, s)
      => /\ Total(S, g) + f[s] = Total(S, f) + g[s]
         /\ Total(S, f) \in Nat /\ Total(S, g) \in Nat
<1> SUFFICES ASSUME NEW S, NEW f, NEW g, NEW s,
                    IsFiniteSet(S), Alike(S, f, g, s)
             PROVE  /\ Total(S, g) + f[s] = Total(S, f) + g[s]
                    /\ Total(S, f) \in Nat /\ Total(S, g) \in Nat
  OBVIOUS
<1>1. f \in [S -> Nat] /\ g \in [S -> Nat] /\ s \in S
  BY DEF Alike
<1>2. \A r \in S \ {s} : g[r] = f[r]
  BY DEF Alike
<1>3. Total(S, g) + f[s] = Total(S, f) + g[s]
  BY <1>1, <1>2, TotalChange
<1>4. Total(S, f) \in Nat /\ Total(S, g) \in Nat
  BY <1>1, UnitsFinite
<1> QED
  BY <1>3, <1>4

\* The sum of nothing but zeros.
LEMMA TotalZero ==
  ASSUME NEW S, NEW f \in [S -> Nat], \A s \in S : f[s] = 0
  PROVE  Total(S, f) = 0
<1>1. Units(S, f) = {}
  BY DEF Units
<1> QED
  BY <1>1, FS_EmptySet DEF Total

\* A sum does not grow when no term does.
LEMMA TotalMonotone ==
  ASSUME NEW S, IsFiniteSet(S), NEW f \in [S -> Nat], NEW g \in [S -> Nat],
         \A s \in S : g[s] <= f[s]
  PROVE  Total(S, g) <= Total(S, f)
<1>1. Units(S, g) \subseteq Units(S, f)
  <2> SUFFICES ASSUME NEW s \in S, NEW n \in 1..g[s]
               PROVE  n \in 1..f[s]
    BY DEF Units
  <2>1. g[s] <= f[s] /\ g[s] \in Nat /\ f[s] \in Nat
    OBVIOUS
  <2> QED
    BY <2>1
<1>2. IsFiniteSet(Units(S, f))
  BY UnitsFinite
<1> QED
  BY <1>1, <1>2, FS_Subset DEF Total

-----------------------------------------------------------------------------
(* Items in inventories, in terminals and in debts                         *)

Purses(i, x) == Total(Agents, [a \in Agents |-> i[a][x]])
Chests(s, x) == Total(Terminals, [t \in Terminals |-> s[t][x]])
Debts(o, x) ==
  Total(Terminals \X Agents, [u \in Terminals \X Agents |-> o[u[1]][u[2]][x]])

\* What the terminals owe to agent a.
OwedTo(o, a, x) == Total(Terminals, [t \in Terminals |-> o[t][a][x]])

\* What agent a owns of item x when i are the inventories and o the debts.
Wealth(i, o, a, x) == i[a][x] + OwedTo(o, a, x)

\* Terminal t hands d to agent a, into the inventory or as a debt.
Hands(i, o, j, p, t, a, d) ==
  \/ j = [i EXCEPT ![a] = Plus(@, d)] /\ p = o
  \/ j = i /\ p = [o EXCEPT ![t][a] = Plus(@, d)]

\* One inventory changes.
LEMMA PursesChange ==
  ASSUME NEW i \in [Agents -> Bundles], NEW j \in [Agents -> Bundles],
         NEW a \in Agents, \A b \in Agents \ {a} : j[b] = i[b], NEW x \in Items
  PROVE  /\ Purses(j, x) + i[a][x] = Purses(i, x) + j[a][x]
         /\ Purses(i, x) \in Nat /\ Purses(j, x) \in Nat
<1> DEFINE f == [b \in Agents |-> i[b][x]]
           g == [b \in Agents |-> j[b][x]]
<1>1. f \in [Agents -> Nat] /\ g \in [Agents -> Nat]
  BY DEF Bundles
<1>2. \A b \in Agents \ {a} : g[b] = f[b]
  OBVIOUS
<1>3. f[a] = i[a][x] /\ g[a] = j[a][x]
  OBVIOUS
<1>4. Purses(i, x) = Total(Agents, f) /\ Purses(j, x) = Total(Agents, g)
  BY DEF Purses
<1>5. Alike(Agents, f, g, a)
  BY <1>1, <1>2 DEF Alike
<1> HIDE DEF f, g
<1>6. /\ Total(Agents, g) + f[a] = Total(Agents, f) + g[a]
      /\ Total(Agents, f) \in Nat /\ Total(Agents, g) \in Nat
  BY <1>5, FiniteAssumption, AlikeChange
<1> QED
  BY <1>3, <1>4, <1>6

\* The inventories hold finitely many items.
LEMMA PursesType ==
  ASSUME NEW i \in [Agents -> Bundles], NEW x \in Items
  PROVE  Purses(i, x) \in Nat
<1> DEFINE f == [b \in Agents |-> i[b][x]]
<1>1. f \in [Agents -> Nat]
  BY DEF Bundles
<1>2. Purses(i, x) = Total(Agents, f)
  BY DEF Purses
<1> HIDE DEF f
<1> QED
  BY <1>1, <1>2, FiniteAssumption, UnitsFinite

\* What one terminal holds changes.
LEMMA ChestsChange ==
  ASSUME NEW s \in [Terminals -> Bundles], NEW r \in [Terminals -> Bundles],
         NEW t \in Terminals, \A u \in Terminals \ {t} : r[u] = s[u],
         NEW x \in Items
  PROVE  /\ Chests(r, x) + s[t][x] = Chests(s, x) + r[t][x]
         /\ Chests(s, x) \in Nat /\ Chests(r, x) \in Nat
<1> DEFINE f == [u \in Terminals |-> s[u][x]]
           g == [u \in Terminals |-> r[u][x]]
<1>1. f \in [Terminals -> Nat] /\ g \in [Terminals -> Nat]
  BY DEF Bundles
<1>2. \A u \in Terminals \ {t} : g[u] = f[u]
  OBVIOUS
<1>3. f[t] = s[t][x] /\ g[t] = r[t][x]
  OBVIOUS
<1>4. Chests(s, x) = Total(Terminals, f) /\ Chests(r, x) = Total(Terminals, g)
  BY DEF Chests
<1>5. Alike(Terminals, f, g, t)
  BY <1>1, <1>2 DEF Alike
<1> HIDE DEF f, g
<1>6. /\ Total(Terminals, g) + f[t] = Total(Terminals, f) + g[t]
      /\ Total(Terminals, f) \in Nat /\ Total(Terminals, g) \in Nat
  BY <1>5, FiniteAssumption, AlikeChange
<1> QED
  BY <1>3, <1>4, <1>6

\* The debts are finitely many counts.
LEMMA DebtsType ==
  ASSUME NEW o \in [Terminals -> [Agents -> Bundles]], NEW x \in Items
  PROVE  /\ [u \in Terminals \X Agents |-> o[u[1]][u[2]][x]]
              \in [Terminals \X Agents -> Nat]
         /\ IsFiniteSet(Terminals \X Agents)
         /\ Debts(o, x) \in Nat
<1> DEFINE f == [u \in Terminals \X Agents |-> o[u[1]][u[2]][x]]
<1>1. f \in [Terminals \X Agents -> Nat]
  BY DEF Bundles
<1>2. IsFiniteSet(Terminals \X Agents)
  BY FiniteAssumption, FS_Product
<1>3. Debts(o, x) = Total(Terminals \X Agents, f)
  BY DEF Debts
<1>4. Total(Terminals \X Agents, f) \in Nat
  <2> HIDE DEF f
  <2> QED
    BY <1>1, <1>2, UnitsFinite
<1> QED
  BY <1>1, <1>2, <1>3, <1>4

\* One debt changes.
LEMMA DebtsChange ==
  ASSUME NEW o \in [Terminals -> [Agents -> Bundles]],
         NEW p \in [Terminals -> [Agents -> Bundles]],
         NEW t \in Terminals, NEW a \in Agents, NEW x \in Items,
         \A u \in Terminals, b \in Agents :
           u # t \/ b # a => p[u][b] = o[u][b]
  PROVE  Debts(p, x) + o[t][a][x] = Debts(o, x) + p[t][a][x]
<1> DEFINE S == Terminals \X Agents
           f == [u \in S |-> o[u[1]][u[2]][x]]
           g == [u \in S |-> p[u[1]][u[2]][x]]
           v == <<t, a>>
<1>1. f \in [S -> Nat] /\ g \in [S -> Nat] /\ IsFiniteSet(S)
  BY DebtsType
<1>2. \A u \in S \ {v} : g[u] = f[u]
  <2> SUFFICES ASSUME NEW u \in S, u # v PROVE g[u] = f[u]
    OBVIOUS
  <2>1. u[1] \in Terminals /\ u[2] \in Agents /\ (u[1] # t \/ u[2] # a)
    OBVIOUS
  <2>2. p[u[1]][u[2]] = o[u[1]][u[2]]
    BY <2>1
  <2> QED
    BY <2>2
<1>3. f[v] = o[t][a][x] /\ g[v] = p[t][a][x]
  OBVIOUS
<1>4. v \in S
  OBVIOUS
<1>5. Debts(o, x) = Total(S, f) /\ Debts(p, x) = Total(S, g)
  BY DEF Debts
<1>6. Alike(S, f, g, v)
  BY <1>1, <1>2, <1>4 DEF Alike
<1> HIDE DEF S, f, g, v
<1>7. Total(S, g) + f[v] = Total(S, f) + g[v]
  BY <1>1, <1>6, AlikeChange
<1> QED
  BY <1>3, <1>5, <1>7

\* What all terminals owe to one agent is a count.
LEMMA OwedToType ==
  ASSUME NEW o \in [Terminals -> [Agents -> Bundles]],
         NEW b \in Agents, NEW x \in Items
  PROVE  /\ [u \in Terminals |-> o[u][b][x]] \in [Terminals -> Nat]
         /\ OwedTo(o, b, x) \in Nat
<1> DEFINE f == [u \in Terminals |-> o[u][b][x]]
<1>1. f \in [Terminals -> Nat]
  BY DEF Bundles
<1>2. OwedTo(o, b, x) = Total(Terminals, f)
  BY DEF OwedTo
<1>3. Total(Terminals, f) \in Nat
  <2> HIDE DEF f
  <2> QED
    BY <1>1, FiniteAssumption, UnitsFinite
<1> QED
  BY <1>1, <1>2, <1>3

\* To agent b, debts o and p are alike but for terminal t.
AlikeTo(o, p, t, b) ==
  /\ o \in [Terminals -> [Agents -> Bundles]]
  /\ p \in [Terminals -> [Agents -> Bundles]]
  /\ t \in Terminals
  /\ \A u \in Terminals \ {t} : p[u][b] = o[u][b]

\* What one terminal owes to an agent changes.
LEMMA OwedToChange ==
  \A o, p, t : \A b \in Agents, x \in Items :
    AlikeTo(o, p, t, b)
      => OwedTo(p, b, x) + o[t][b][x] = OwedTo(o, b, x) + p[t][b][x]
<1> SUFFICES ASSUME NEW o, NEW p, NEW t, NEW b \in Agents, NEW x \in Items,
                    AlikeTo(o, p, t, b)
             PROVE  OwedTo(p, b, x) + o[t][b][x] = OwedTo(o, b, x) + p[t][b][x]
  OBVIOUS
<1>0. /\ o \in [Terminals -> [Agents -> Bundles]]
      /\ p \in [Terminals -> [Agents -> Bundles]]
      /\ t \in Terminals
      /\ \A u \in Terminals \ {t} : p[u][b] = o[u][b]
  BY DEF AlikeTo
<1> DEFINE f == [u \in Terminals |-> o[u][b][x]]
           g == [u \in Terminals |-> p[u][b][x]]
<1>1. f \in [Terminals -> Nat] /\ g \in [Terminals -> Nat]
  BY <1>0, OwedToType
<1>2. \A u \in Terminals \ {t} : g[u] = f[u]
  BY <1>0
<1>3. f[t] = o[t][b][x] /\ g[t] = p[t][b][x]
  BY <1>0
<1>4. OwedTo(o, b, x) = Total(Terminals, f) /\ OwedTo(p, b, x) = Total(Terminals, g)
  BY DEF OwedTo
<1>5. Alike(Terminals, f, g, t)
  BY <1>0, <1>1, <1>2 DEF Alike
<1> HIDE DEF f, g
<1>6. Total(Terminals, g) + f[t] = Total(Terminals, f) + g[t]
  BY <1>5, FiniteAssumption, AlikeChange
<1> QED
  BY <1>3, <1>4, <1>6

\* The same, with the types of what is handed over.
Handing(i, o, j, p, t, a, d) ==
  /\ i \in [Agents -> Bundles] /\ j \in [Agents -> Bundles]
  /\ o \in [Terminals -> [Agents -> Bundles]]
  /\ p \in [Terminals -> [Agents -> Bundles]]
  /\ t \in Terminals /\ a \in Agents /\ d \in Bundles
  /\ Hands(i, o, j, p, t, a, d)

\* The agents own d more, and all of it is agent a's.
Added(i, o, j, p, a, d) ==
  \A x \in Items :
    /\ Purses(j, x) + Debts(p, x) = Purses(i, x) + Debts(o, x) + d[x]
    /\ \A b \in Agents :
         Wealth(j, p, b, x) = Wealth(i, o, b, x) + (IF b = a THEN d[x] ELSE 0)

\* What terminal t hands over is added to what the agents own, and to what
\* agent a owns only.
LEMMA HandingAdds ==
  \A i, o, j, p, t, a, d : Handing(i, o, j, p, t, a, d) => Added(i, o, j, p, a, d)
<1> SUFFICES ASSUME NEW i, NEW o, NEW j, NEW p, NEW t, NEW a, NEW d,
                    Handing(i, o, j, p, t, a, d), NEW x \in Items
             PROVE  /\ Purses(j, x) + Debts(p, x) = Purses(i, x) + Debts(o, x) + d[x]
                    /\ \A b \in Agents :
                         Wealth(j, p, b, x)
                           = Wealth(i, o, b, x) + (IF b = a THEN d[x] ELSE 0)
  BY DEF Added
<1>0. /\ i \in [Agents -> Bundles] /\ j \in [Agents -> Bundles]
      /\ o \in [Terminals -> [Agents -> Bundles]]
      /\ p \in [Terminals -> [Agents -> Bundles]]
      /\ t \in Terminals /\ a \in Agents /\ d \in Bundles
      /\ Hands(i, o, j, p, t, a, d)
  BY DEF Handing
<1> USE <1>0
<1>1. Debts(o, x) \in Nat /\ Debts(p, x) \in Nat
  BY DebtsType
<1>2. Purses(i, x) \in Nat /\ Purses(j, x) \in Nat
  BY PursesChange
<1>3. d[x] \in Nat /\ i[a][x] \in Nat /\ o[t][a][x] \in Nat
  BY DEF Bundles
<1>5. \A b \in Agents : Wealth(i, o, b, x) \in Nat
  <2> SUFFICES ASSUME NEW b \in Agents PROVE Wealth(i, o, b, x) \in Nat
    OBVIOUS
  <2>1. i[b][x] \in Nat
    BY DEF Bundles
  <2>2. OwedTo(o, b, x) \in Nat
    BY OwedToType
  <2> QED
    BY <2>1, <2>2 DEF Wealth
<1>6. CASE j = [i EXCEPT ![a] = Plus(@, d)] /\ p = o
  <2>1. j[a][x] = i[a][x] + d[x] /\ \A b \in Agents \ {a} : j[b] = i[b]
    BY <1>6 DEF Plus
  <2>2. Purses(j, x) + i[a][x] = Purses(i, x) + j[a][x]
    BY <2>1, PursesChange
  <2>3. Purses(j, x) = Purses(i, x) + d[x]
    <3> DEFINE before == Purses(i, x)
               after == Purses(j, x)
               old == i[a][x]
               new == j[a][x]
               m == d[x]
    <3>1. after + old = before + new /\ new = old + m
      BY <2>1, <2>2
    <3>2. /\ before \in Nat /\ after \in Nat /\ old \in Nat /\ new \in Nat
          /\ m \in Nat
      BY <1>2, <1>3 DEF Bundles
    <3> SUFFICES after = before + m
      OBVIOUS
    <3> HIDE DEF before, after, old, new, m
    <3> QED
      BY <3>1, <3>2
  <2>4. ASSUME NEW b \in Agents
        PROVE  Wealth(j, p, b, x)
                 = Wealth(i, o, b, x) + (IF b = a THEN d[x] ELSE 0)
    <3>1. j[b][x] = i[b][x] + (IF b = a THEN d[x] ELSE 0) /\ i[b][x] \in Nat
      BY <2>1 DEF Bundles
    <3> DEFINE w == OwedTo(o, b, x)
    <3>2. w \in Nat
      BY OwedToType
    <3>3. Wealth(i, o, b, x) = i[b][x] + w /\ Wealth(j, p, b, x) = j[b][x] + w
      BY <1>6 DEF Wealth
    <3> HIDE DEF w
    <3> QED
      BY <1>3, <3>1, <3>2, <3>3
  <2>5. Purses(j, x) + Debts(p, x) = Purses(i, x) + Debts(o, x) + d[x]
    <3>1. Debts(p, x) = Debts(o, x)
      BY <1>6
    <3> QED
      BY ONLY <1>1, <1>2, <1>3, <2>3, <3>1
  <2> QED
    BY ONLY <1>5, <2>4, <2>5
<1>7. CASE j = i /\ p = [o EXCEPT ![t][a] = Plus(@, d)]
  <2>1. /\ p[t][a][x] = o[t][a][x] + d[x]
        /\ \A u \in Terminals, b \in Agents :
             u # t \/ b # a => p[u][b] = o[u][b]
    BY <1>7 DEF Plus
  <2>2. Debts(p, x) + o[t][a][x] = Debts(o, x) + p[t][a][x]
    BY <2>1, DebtsChange
  <2>3. Debts(p, x) = Debts(o, x) + d[x]
    <3> DEFINE before == Debts(o, x)
               after == Debts(p, x)
               old == o[t][a][x]
               new == p[t][a][x]
               m == d[x]
    <3>1. after + old = before + new /\ new = old + m
      BY <2>1, <2>2
    <3>2. /\ before \in Nat /\ after \in Nat /\ old \in Nat /\ new \in Nat
          /\ m \in Nat
      BY <1>1, <1>3 DEF Bundles
    <3> SUFFICES after = before + m
      OBVIOUS
    <3> HIDE DEF before, after, old, new, m
    <3> QED
      BY <3>1, <3>2
  <2>4. ASSUME NEW b \in Agents
        PROVE  Wealth(j, p, b, x)
                 = Wealth(i, o, b, x) + (IF b = a THEN d[x] ELSE 0)
    <3> DEFINE before == OwedTo(o, b, x)
               after == OwedTo(p, b, x)
               old == o[t][b][x]
               new == p[t][b][x]
               m == IF b = a THEN d[x] ELSE 0
    <3>1. before \in Nat /\ after \in Nat
      BY OwedToType
    <3>2. old \in Nat /\ new \in Nat
      BY DEF Bundles
    <3>3. AlikeTo(o, p, t, b)
      BY <2>1 DEF AlikeTo
    <3>4. after + old = before + new
      BY <3>3, OwedToChange
    <3>5. new = old + m
      BY <2>1, <3>2
    <3>6. m \in Nat
      BY <1>3
    <3>7. Wealth(i, o, b, x) = i[b][x] + before /\ Wealth(j, p, b, x) = i[b][x] + after
      BY <1>7 DEF Wealth
    <3>8. i[b][x] \in Nat
      BY DEF Bundles
    <3> HIDE DEF before, after, old, new, m
    <3>9. after = before + m
      BY <3>1, <3>2, <3>4, <3>5, <3>6
    <3>10. Wealth(j, p, b, x) = Wealth(i, o, b, x) + m
      BY <3>1, <3>6, <3>7, <3>8, <3>9
    <3> QED
      BY <3>10 DEF m
  <2>5. Purses(j, x) + Debts(p, x) = Purses(i, x) + Debts(o, x) + d[x]
    <3>1. Purses(j, x) = Purses(i, x)
      BY <1>7
    <3> QED
      BY ONLY <1>1, <1>2, <1>3, <2>3, <3>1
  <2> QED
    BY ONLY <1>5, <2>4, <2>5
<1> QED
  BY <1>6, <1>7 DEF Hands

\* Debts shrink when one agent's is struck out and the others do not grow.
LEMMA DebtsGone ==
  ASSUME NEW o \in [Terminals -> [Agents -> Bundles]],
         NEW t \in Terminals, NEW a \in Agents, NEW x \in Items
  PROVE  LET p == [o EXCEPT ![t] = [b \in Agents |-> Nothing]] IN
         Debts(p, x) + o[t][a][x] <= Debts(o, x) /\ Debts(p, x) \in Nat
<1> DEFINE p == [o EXCEPT ![t] = [b \in Agents |-> Nothing]]
           q == [o EXCEPT ![t][a] = Nothing]
<1>1. /\ p \in [Terminals -> [Agents -> Bundles]]
      /\ q \in [Terminals -> [Agents -> Bundles]]
  BY BundleConstants
<1>2. q[t][a][x] = 0 /\ \A u \in Terminals, b \in Agents :
                        u # t \/ b # a => q[u][b] = o[u][b]
  BY DEF Nothing
<1>3. \A u \in Terminals, b \in Agents : p[u][b][x] <= q[u][b][x]
  <2> SUFFICES ASSUME NEW u \in Terminals, NEW b \in Agents
               PROVE  p[u][b][x] <= q[u][b][x]
    OBVIOUS
  <2>1. q[u][b][x] \in Nat /\ o[u][b][x] \in Nat
    BY <1>1 DEF Bundles
  <2> QED
    BY <1>2, <2>1 DEF Nothing
<1> HIDE DEF p, q
<1>4. Debts(q, x) + o[t][a][x] = Debts(o, x) + q[t][a][x]
  BY <1>1, <1>2, DebtsChange
<1>5. Debts(p, x) <= Debts(q, x)
  <2> DEFINE S == Terminals \X Agents
             f == [u \in S |-> q[u[1]][u[2]][x]]
             g == [u \in S |-> p[u[1]][u[2]][x]]
  <2>1. f \in [S -> Nat] /\ g \in [S -> Nat] /\ IsFiniteSet(S)
    BY <1>1, DebtsType
  <2>2. \A u \in S : g[u] <= f[u]
    BY <1>3
  <2>3. Debts(q, x) = Total(S, f) /\ Debts(p, x) = Total(S, g)
    BY DEF Debts
  <2> HIDE DEF S, f, g
  <2> QED
    BY <2>1, <2>2, <2>3, TotalMonotone
<1>6. Debts(p, x) \in Nat /\ Debts(q, x) \in Nat /\ Debts(o, x) \in Nat
  BY <1>1, DebtsType
<1>7. o[t][a][x] \in Nat
  BY DEF Bundles
<1> QED
  BY <1>2, <1>4, <1>5, <1>6, <1>7 DEF p

-----------------------------------------------------------------------------
(* The inductive invariant                                                 *)

\* A contract keeps its number, and has an acceptor once it was accepted.
ContractsNumbered ==
  \A c \in Ids :
    /\ contracts[c] # None => c <= posted /\ contracts[c].reward # Nothing
    /\ Is(c, "OPEN") => contracts[c].acceptor = None
    /\ Is(c, "ACCEPTED") => contracts[c].acceptor \in Agents

\* tickContracts has only contracts under way before it.
Unvisited ==
  /\ \A c \in todo : Live(c)
  /\ phase # "contracts" => todo = {}

IInv ==
  TypeOK /\ ContractsNumbered /\ Unvisited /\ EscrowBacked /\ LiveHasTerminal

\* Contract numbers are finitely many.
LEMMA IdsFinite == IsFiniteSet(Ids)
  BY FS_Interval, BoundsAssumption DEF Ids

\* The stakes held in a terminal, contract by contract, are counts.
LEMMA HeldType ==
  ASSUME TypeOK, NEW t \in Terminals, NEW x \in Items
  PROVE  Held(t, x) \in [Ids -> Nat]
<1>1. ASSUME NEW c \in Ids, Live(c)
      PROVE  Stakes(contracts[c])[x] \in Nat
  <2>1. contracts[c] \in Contract
    BY <1>1 DEF TypeOK, Live, Is
  <2> QED
    BY <2>1, ContractBundles DEF Bundles
<1> QED
  BY <1>1 DEF Held

\* When one contract changes, the sum of the stakes changes with it.
LEMMA HeldChange ==
  ASSUME TypeOK, TypeOK', NEW c \in Ids,
         \A d \in Ids \ {c} : contracts'[d] = contracts[d],
         NEW t \in Terminals, NEW x \in Items
  PROVE  /\ Total(Ids, Held(t, x))' + Held(t, x)[c]
              = Total(Ids, Held(t, x)) + Held(t, x)'[c]
         /\ Held(t, x)[c] \in Nat /\ Held(t, x)'[c] \in Nat
         /\ Held(t, x)[c] <= Total(Ids, Held(t, x))
         /\ Total(Ids, Held(t, x)) \in Nat /\ Total(Ids, Held(t, x))' \in Nat
<1> DEFINE f == Held(t, x)
           g == Held(t, x)'
<1>1. f \in [Ids -> Nat]
  BY HeldType
<1>2. g \in [Ids -> Nat]
  <2>1. ASSUME NEW e \in Ids, Live(e)'
        PROVE  Stakes(contracts'[e])[x] \in Nat
    <3>1. contracts'[e] \in Contract
      BY <2>1 DEF TypeOK, Live, Is
    <3> QED
      BY <3>1, ContractBundles DEF Bundles
  <2> QED
    BY <2>1 DEF Held
<1>3. \A d \in Ids \ {c} : g[d] = f[d]
  BY DEF Held, Live, Is
<1>4. Total(Ids, Held(t, x))' = Total(Ids, g)
  BY DEF Total, Units
<1> HIDE DEF f, g
<1>5. Total(Ids, g) + f[c] = Total(Ids, f) + g[c]
  BY <1>1, <1>2, <1>3, IdsFinite, TotalChange
<1>6. Total(Ids, f) = Total(Ids \ {c}, f) + f[c] /\ Total(Ids \ {c}, f) \in Nat
  BY <1>1, IdsFinite, TotalSplit
<1>7. f[c] \in Nat /\ g[c] \in Nat
  BY <1>1, <1>2
<1>8. Total(Ids, f) \in Nat /\ Total(Ids, g) \in Nat
  BY <1>1, <1>2, IdsFinite, UnitsFinite
<1>9. f[c] <= Total(Ids, f)
  BY <1>6, <1>7
<1> QED
  BY <1>4, <1>5, <1>7, <1>8, <1>9 DEF f, g

\* A stake of d put into the terminal of contract c: the books stay balanced.
LEMMA StakeKept ==
  ASSUME IInv, TypeOK', NEW c \in Ids, NEW a \in Agents, NEW d \in Bundles,
         NEW k \in Contract,
         contracts' = [contracts EXCEPT ![c] = k],
         k.state \in {"OPEN", "ACCEPTED"},
         \A t \in Terminals, x \in Items :
           Held(t, x)[c] = IF t = k.terminal THEN Stakes(k)[x] - d[x] ELSE 0,
         Stake(a, k.terminal, d)
  PROVE  EscrowBacked'
<1> SUFFICES ASSUME NEW t \in Terminals, NEW x \in Items
             PROVE  /\ reserved'[t][x] = Total(Ids, Held(t, x))'
                    /\ reserved'[t][x] <= stock'[t][x]
  BY DEF EscrowBacked
<1> USE DEF IInv
<1> DEFINE before == Total(Ids, Held(t, x))
           after == Total(Ids, Held(t, x))'
<1>1. k.terminal \in Terminals
  BY DEF Contract
<1>2. contracts'[c] = k /\ \A e \in Ids \ {c} : contracts'[e] = contracts[e]
  BY DEF TypeOK
<1>3. /\ after + Held(t, x)[c] = before + Held(t, x)'[c]
      /\ Held(t, x)[c] \in Nat /\ Held(t, x)'[c] \in Nat
      /\ before \in Nat /\ after \in Nat
  BY <1>2, HeldChange
<1>4. Held(t, x)'[c] = IF t = k.terminal THEN Stakes(k)[x] ELSE 0
  BY <1>2, NoneAssumption DEF Held, Live, Is
<1>5. Stakes(k)[x] \in Nat /\ d[x] \in Nat
  BY ContractBundles DEF Bundles
<1>6. reserved[t][x] = before /\ reserved[t][x] <= stock[t][x]
  BY DEF EscrowBacked
<1>7. stock[t][x] \in Nat /\ reserved[t][x] \in Nat
  BY DEF TypeOK, Bundles
<1> HIDE DEF before, after
<1>8. CASE t = k.terminal
  <2>1. after = before + d[x]
    BY <1>3, <1>4, <1>5, <1>8
  <2>2. reserved'[t][x] = reserved[t][x] + d[x]
    BY <1>1, <1>8 DEF Stake, TypeOK, Plus
  <2>3. stock'[t][x] = stock[t][x] + d[x]
    BY <1>1, <1>8 DEF Stake, TypeOK, Plus
  <2> QED
    BY <1>3, <1>5, <1>6, <1>7, <2>1, <2>2, <2>3 DEF after
<1>9. CASE t # k.terminal
  <2>1. after = before
    BY <1>3, <1>4, <1>9
  <2>2. reserved'[t] = reserved[t] /\ stock'[t] = stock[t]
    BY <1>1, <1>9 DEF Stake, TypeOK
  <2> QED
    BY <1>6, <2>1, <2>2 DEF after
<1> QED
  BY <1>8, <1>9

\* Contract c closed, its stakes released after `due` was handed over: the
\* books stay balanced.
LEMMA StakeReleased ==
  ASSUME IInv, TypeOK', NEW c \in Ids, Live(c), NEW due \in Bundles,
         NEW state \in {"COMPLETED", "FAILED"},
         contracts' = [contracts EXCEPT ![c].state = state],
         LET k == contracts[c]
             t == k.terminal IN
           /\ Available(stock[t], reserved[t], due)
           /\ stock' = [stock EXCEPT ![t] = Minus(Minus(@, due), Stakes(k))]
           /\ reserved' = [reserved EXCEPT ![t] = Minus(@, Stakes(k))]
  PROVE  EscrowBacked'
<1> SUFFICES ASSUME NEW t \in Terminals, NEW x \in Items
             PROVE  /\ reserved'[t][x] = Total(Ids, Held(t, x))'
                    /\ reserved'[t][x] <= stock'[t][x]
  BY DEF EscrowBacked
<1> USE DEF IInv
<1> DEFINE before == Total(Ids, Held(t, x))
           after == Total(Ids, Held(t, x))'
           k == contracts[c]
<1>1. k \in Contract
  BY DEF TypeOK, Live, Is
<1>2. k.terminal \in Terminals
  BY <1>1 DEF Contract
<1>3. contracts'[c].state = state /\ \A e \in Ids \ {c} : contracts'[e] = contracts[e]
  BY <1>1 DEF TypeOK, Contract
<1>4. /\ after + Held(t, x)[c] = before + Held(t, x)'[c]
      /\ Held(t, x)[c] \in Nat /\ Held(t, x)'[c] \in Nat
      /\ Held(t, x)[c] <= before
      /\ before \in Nat /\ after \in Nat
  BY <1>3, HeldChange
<1>5. Held(t, x)'[c] = 0
  BY <1>3 DEF Held, Live, Is
<1>6. Held(t, x)[c] = IF t = k.terminal THEN Stakes(k)[x] ELSE 0
  BY DEF Held
<1>7. Stakes(k)[x] \in Nat /\ due[x] \in Nat
  BY <1>1, ContractBundles DEF Bundles
<1>8. reserved[t][x] = before /\ reserved[t][x] <= stock[t][x]
  BY DEF EscrowBacked
<1>9. stock[t][x] \in Nat /\ reserved[t][x] \in Nat
  BY DEF TypeOK, Bundles
<1> HIDE DEF before, after, k
<1>10. CASE t = k.terminal
  <2>1. after = before - Stakes(k)[x] /\ Stakes(k)[x] <= before
    BY <1>4, <1>5, <1>6, <1>7, <1>10
  <2>2. reserved'[t][x] = Minus(reserved[t], Stakes(k))[x]
    BY <1>2, <1>10 DEF TypeOK, k
  <2>3. stock'[t][x] = Minus(Minus(stock[t], due), Stakes(k))[x]
    BY <1>2, <1>10 DEF TypeOK, k
  <2>4. reserved'[t][x] = reserved[t][x] - Stakes(k)[x]
    BY <1>7, <1>8, <1>9, <2>1, <2>2 DEF Minus
  <2>5. due[x] > 0 => stock[t][x] >= reserved[t][x] + due[x]
    BY <1>10 DEF Available, k
  <2>6. Minus(stock[t], due)[x] >= reserved[t][x] /\ Minus(stock[t], due)[x] \in Nat
    BY <1>7, <1>8, <1>9, <2>5 DEF Minus
  <2>7. stock'[t][x] >= reserved[t][x] - Stakes(k)[x]
    BY <1>7, <1>9, <2>3, <2>6 DEF Minus
  <2>8. stock'[t][x] \in Nat
    BY DEF TypeOK, Bundles
  <2> QED
    BY <1>4, <1>7, <1>8, <1>9, <2>1, <2>4, <2>7, <2>8 DEF after
<1>11. CASE t # k.terminal
  <2>1. after = before
    BY <1>4, <1>5, <1>6, <1>11
  <2>2. reserved'[t] = reserved[t] /\ stock'[t] = stock[t]
    BY <1>2, <1>11 DEF TypeOK, k
  <2> QED
    BY <1>8, <2>1, <2>2 DEF after
<1> QED
  BY <1>10, <1>11

\* What is reserved concerns contracts only: other steps have to leave enough.
LEMMA StockSuffices ==
  ASSUME EscrowBacked, UNCHANGED <<contracts, reserved>>,
         \A t \in Terminals, x \in Items : reserved[t][x] <= stock'[t][x]
  PROVE  EscrowBacked'
  BY DEF EscrowBacked, Total, Units, Held, Live, Is

-----------------------------------------------------------------------------
(* Every action preserves the invariant                                    *)

\* Posting a contract.
LEMMA PostKeeps ==
  ASSUME IInv, NEW a \in Agents, NEW t \in Terminals,
         NEW q \in Requirements, NEW r \in Rewards, NEW d \in Deposits,
         NEW kind \in {"DELIVER", "BUILD"}, NEW deadline \in 0..MaxTick - 1,
         HandlePostContract(a, t, kind, q, r, d, deadline)
  PROVE  IInv'
<1> DEFINE c == posted + 1
           k == [state |-> "OPEN", kind |-> kind, terminal |-> t, poster |-> a,
                 acceptor |-> None, requirements |-> q, reward |-> r,
                 deposit |-> d, deadline |-> deadline]
<1> USE DEF IInv
<1>1. c \in Ids /\ contracts[c] = None
  BY BoundsAssumption DEF HandlePostContract, TypeOK, Ids, ContractsNumbered
<1>2. k \in Contract
  BY BundlesAssumption DEF Contract
<1>3. contracts' = [contracts EXCEPT ![c] = k]
  BY DEF HandlePostContract
<1>4. /\ k.state = "OPEN" /\ k.terminal = t /\ k.reward = r /\ Stakes(k) = r
      /\ k.acceptor = None
  BY DEF Stakes
<1> HIDE DEF k
<1>5. r \in Bundles /\ r # Nothing
  BY BundlesAssumption, RewardsAssumption
<1>6. TypeOK'
  <2>1. contracts' \in [Ids -> Contract \cup {None}]
    BY <1>1, <1>2, <1>3 DEF TypeOK
  <2>2. posted' \in 0..MaxContracts
    BY BoundsAssumption DEF HandlePostContract, TypeOK
  <2>3. inventory' \in [Agents -> Bundles]
    BY <1>5, BundleTypes DEF HandlePostContract, Stake, TypeOK
  <2>4. stock' \in [Terminals -> Bundles] /\ reserved' \in [Terminals -> Bundles]
    BY <1>5, BundleTypes DEF HandlePostContract, Stake, TypeOK
  <2>5. UNCHANGED <<phase, tick, todo, season, owed, exists, present>>
    BY DEF HandlePostContract, clock
  <2> QED
    BY <2>1, <2>2, <2>3, <2>4, <2>5 DEF TypeOK
<1>7. ContractsNumbered'
  <2> SUFFICES ASSUME NEW e \in Ids
               PROVE  /\ contracts'[e] # None =>
                           e <= posted' /\ contracts'[e].reward # Nothing
                      /\ Is(e, "OPEN")' => contracts'[e].acceptor = None
                      /\ Is(e, "ACCEPTED")' => contracts'[e].acceptor \in Agents
    BY DEF ContractsNumbered
  <2>1. posted' = posted + 1 /\ posted \in Nat
    BY DEF HandlePostContract, TypeOK
  <2>2. CASE e = c
    BY <1>1, <1>3, <1>4, <1>5, <2>1, <2>2 DEF Is, TypeOK
  <2>3. CASE e # c
    BY <1>3, <2>1, <2>3 DEF Is, TypeOK, ContractsNumbered, Ids
  <2> QED
    BY <2>2, <2>3
<1>8. Unvisited'
  BY DEF Unvisited, HandlePostContract, clock
<1>9. EscrowBacked'
  <2>1. \A u \in Terminals, x \in Items :
          Held(u, x)[c] = IF u = k.terminal THEN Stakes(k)[x] - r[x] ELSE 0
    BY <1>1, <1>4, <1>5 DEF Held, Live, Is, Bundles
  <2>2. Stake(a, k.terminal, r)
    BY <1>4 DEF HandlePostContract
  <2> HIDE DEF c
  <2> QED
    BY <1>1, <1>2, <1>3, <1>4, <1>5, <1>6, <2>1, <2>2, StakeKept
<1>10. LiveHasTerminal'
  <2>1. exists' = exists /\ t \in exists
    BY DEF HandlePostContract
  <2> QED
    BY <1>1, <1>3, <1>4, <2>1 DEF LiveHasTerminal, Live, Is, TypeOK
<1> QED
  BY <1>6, <1>7, <1>8, <1>9, <1>10

\* Accepting a contract.
LEMMA AcceptKeeps ==
  ASSUME IInv, NEW a \in Agents, NEW c \in Ids, NEW m \in Multipliers,
         HandleAcceptContract(a, c, m)
  PROVE  IInv'
<1> DEFINE o == contracts[c]
           d == Times(m, o.deposit)
           k == [o EXCEPT !.state = "ACCEPTED", !.acceptor = a, !.deposit = d]
<1> USE DEF IInv
<1>1. o \in Contract /\ o.state = "OPEN" /\ o # None
  BY DEF HandleAcceptContract, TypeOK, Is
<1>2. d \in Bundles
  <2>1. o.deposit \in Bundles /\ m \in Nat
    BY <1>1 DEF Contract, Multipliers
  <2> QED
    BY <2>1, BundleTypes
<1>3. k \in Contract
  BY <1>1, <1>2 DEF Contract
<1>4. contracts' = [contracts EXCEPT ![c] = k]
  BY <1>1 DEF HandleAcceptContract, TypeOK, Contract
<1>5. /\ k.state = "ACCEPTED" /\ k.terminal = o.terminal /\ k.reward = o.reward
      /\ k.acceptor = a
      /\ Stakes(k) = Plus(o.reward, d)
  BY <1>1 DEF Stakes, Contract
<1> HIDE DEF k
<1>6. Stake(a, k.terminal, d)
  BY <1>5 DEF HandleAcceptContract
<1>7. TypeOK'
  <2>1. contracts' \in [Ids -> Contract \cup {None}]
    BY <1>3, <1>4 DEF TypeOK
  <2>2. inventory' \in [Agents -> Bundles]
    BY <1>2, <1>6, BundleTypes DEF Stake, TypeOK
  <2>3. stock' \in [Terminals -> Bundles] /\ reserved' \in [Terminals -> Bundles]
    BY <1>2, <1>6, BundleTypes DEF Stake, TypeOK
  <2>4. UNCHANGED <<phase, tick, todo, season, owed, exists, present, posted>>
    BY DEF HandleAcceptContract, clock
  <2> QED
    BY <2>1, <2>2, <2>3, <2>4 DEF TypeOK
<1>8. ContractsNumbered'
  <2>1. posted' = posted
    BY DEF HandleAcceptContract
  <2> QED
    BY <1>1, <1>4, <1>5, <2>1 DEF ContractsNumbered, Is, TypeOK
<1>9. Unvisited'
  BY DEF Unvisited, HandleAcceptContract, clock
<1>10. EscrowBacked'
  <2> SUFFICES ASSUME NEW u \in Terminals, NEW x \in Items
               PROVE  Held(u, x)[c]
                        = IF u = k.terminal THEN Stakes(k)[x] - d[x] ELSE 0
    BY <1>2, <1>3, <1>4, <1>5, <1>6, <1>7, StakeKept
  <2>1. Held(u, x)[c] = IF u = o.terminal THEN o.reward[x] ELSE 0
    BY <1>1 DEF Held, Live, Is, Stakes
  <2>2. o.reward[x] \in Nat /\ d[x] \in Nat
    BY <1>1, <1>2 DEF Contract, Bundles
  <2>3. Stakes(k)[x] = o.reward[x] + d[x]
    BY <1>5 DEF Plus
  <2> QED
    BY <1>5, <2>1, <2>2, <2>3
<1>11. LiveHasTerminal'
  <2>1. exists' = exists
    BY DEF HandleAcceptContract
  <2> QED
    BY <1>1, <1>4, <1>5, <2>1 DEF LiveHasTerminal, Live, Is, TypeOK
<1> QED
  BY <1>7, <1>8, <1>9, <1>10, <1>11

\* What all ways of closing a contract have in common.
LEMMA ClosingKeeps ==
  ASSUME IInv, TypeOK', NEW c \in Ids, Live(c),
         NEW state \in {"COMPLETED", "FAILED"},
         contracts' = [contracts EXCEPT ![c].state = state],
         UNCHANGED <<posted, exists>>
  PROVE  ContractsNumbered' /\ LiveHasTerminal'
<1> USE DEF IInv
<1>1. contracts[c] \in Contract
  BY DEF TypeOK, Live, Is
<1>2. /\ contracts'[c].state = state
      /\ contracts'[c].reward = contracts[c].reward
      /\ contracts'[c].terminal = contracts[c].terminal
  BY <1>1 DEF TypeOK, Contract
<1>3. \A e \in Ids \ {c} : contracts'[e] = contracts[e]
  BY DEF TypeOK
<1>4. contracts[c] # None
  BY DEF Live, Is
<1> QED
  BY <1>2, <1>3, <1>4 DEF ContractsNumbered, LiveHasTerminal, Live, Is

\* Submitting a contract.
LEMMA SubmitKeeps ==
  ASSUME IInv, NEW a \in Agents, NEW c \in Ids, NEW built \in BOOLEAN,
         HandleSubmitContract(a, c, built)
  PROVE  IInv'
<1> DEFINE k == contracts[c]
           t == k.terminal
<1> USE DEF IInv
<1>1. k \in Contract /\ k # None /\ Live(c)
  BY DEF HandleSubmitContract, TypeOK, Is, Live
<1>2. Stakes(k) \in Bundles /\ Due(k) \in Bundles
  BY <1>1, ContractBundles
<1>3. t \in Terminals /\ k.poster \in Agents
  BY <1>1 DEF Contract
<1>4. Available(stock[t], reserved[t], Due(k))
  <2>1. CASE k.kind = "BUILD"
    BY <2>1 DEF Available, Due, Nothing
  <2>2. CASE k.kind # "BUILD"
    BY <2>2 DEF HandleSubmitContract, Met, Books, Due
  <2> QED
    BY <2>1, <2>2
<1>5. /\ stock' = [stock EXCEPT ![t] = Minus(Minus(@, Due(k)), Stakes(k))]
      /\ reserved' = [reserved EXCEPT ![t] = Minus(@, Stakes(k))]
      /\ owed' = [owed EXCEPT ![t][k.poster] = Plus(@, Due(k))]
      /\ inventory' = [inventory EXCEPT ![a] = Plus(@, Stakes(k))]
      /\ contracts' = [contracts EXCEPT ![c].state = "COMPLETED"]
      /\ UNCHANGED <<phase, tick, todo, season, posted, exists, present>>
  BY DEF HandleSubmitContract, clock
<1>6. phase = "acts"
  BY DEF HandleSubmitContract
<1> HIDE DEF k, t
<1>7. TypeOK'
  <2>1. contracts' \in [Ids -> Contract \cup {None}]
    <3>1. [k EXCEPT !.state = "COMPLETED"] \in Contract
      BY <1>1 DEF Contract
    <3> QED
      BY <1>5, <3>1 DEF TypeOK, k
  <2>2. stock' \in [Terminals -> Bundles]
    BY <1>2, <1>5, BundleTypes DEF TypeOK
  <2>3. reserved' \in [Terminals -> Bundles]
    BY <1>2, <1>5, BundleTypes DEF TypeOK
  <2>4. owed' \in [Terminals -> [Agents -> Bundles]]
    BY <1>2, <1>3, <1>5, BundleTypes DEF TypeOK
  <2>5. inventory' \in [Agents -> Bundles]
    BY <1>2, <1>5, BundleTypes DEF TypeOK
  <2> QED
    BY <1>5, <2>1, <2>2, <2>3, <2>4, <2>5 DEF TypeOK
<1>8. ContractsNumbered' /\ LiveHasTerminal'
  BY <1>1, <1>5, <1>7, ClosingKeeps
<1>9. Unvisited'
  BY <1>5, <1>6 DEF Unvisited
<1>10. EscrowBacked'
  BY <1>1, <1>2, <1>4, <1>5, <1>7, StakeReleased DEF k, t
<1> QED
  BY <1>7, <1>8, <1>9, <1>10

\* What a settlement does to the books, by the decision taken.
LEMMA SettledBooks ==
  ASSUME IInv, NEW c \in todo, NEW built \in BOOLEAN, TickContract(c, built)
  PROVE  LET k == contracts[c]
             t == k.terminal
             d == Decision(Books, c, built) IN
         \/ d = "noop" /\ UNCHANGED books
         \/ /\ d \in {"expire", "timeout"}
            /\ stock' = [stock EXCEPT ![t] = Minus(@, Stakes(k))]
            /\ reserved' = [reserved EXCEPT ![t] = Minus(@, Stakes(k))]
            /\ contracts' = [contracts EXCEPT ![c].state = "FAILED"]
            /\ inventory' \in [Agents -> Bundles]
            /\ owed' \in [Terminals -> [Agents -> Bundles]]
            /\ Hands(inventory, owed, inventory', owed', t, k.poster, Stakes(k))
         \/ /\ d = "complete"
            /\ stock' = [[stock EXCEPT ![t] = Minus(@, Due(k))]
                           EXCEPT ![t] = Minus(@, Stakes(k))]
            /\ reserved' = [[reserved EXCEPT ![t] = Minus(@, Nothing)]
                              EXCEPT ![t] = Minus(@, Stakes(k))]
            /\ contracts' = [contracts EXCEPT ![c].state = "COMPLETED"]
            /\ inventory' \in [Agents -> Bundles]
            /\ owed' \in [Terminals -> [Agents -> Bundles]]
            /\ \E i \in [Agents -> Bundles],
                  o \in [Terminals -> [Agents -> Bundles]] :
                 /\ Hands(inventory, owed, i, o, t, k.poster, Due(k))
                 /\ Hands(i, o, inventory', owed', t, k.acceptor, Stakes(k))
<1> DEFINE k == contracts[c]
           t == k.terminal
           d == Decision(Books, c, built)
<1> USE DEF IInv
<1>1. Live(c) /\ c \in Ids /\ k \in Contract
  BY DEF Unvisited, TypeOK, Live, Is
<1>2. t \in exists /\ t \in Terminals /\ k.poster \in Agents
  BY <1>1 DEF LiveHasTerminal, Contract
<1>3. Stakes(k) \in Bundles /\ Due(k) \in Bundles
  BY <1>1, ContractBundles
<1>4. d \in {"noop", "expire", "timeout", "complete"}
  BY <1>2 DEF Decision, Books
<1>5. /\ contracts' = Settled(Books, c, d).contracts
      /\ stock' = Settled(Books, c, d).stock
      /\ reserved' = Settled(Books, c, d).reserved
      /\ owed' = Settled(Books, c, d).owed
      /\ inventory' = Settled(Books, c, d).inventory
  BY DEF TickContract
<1>6. Books.contracts[c] = k
  BY DEF Books
<1> HIDE DEF d, k, t
<1>7. CASE d = "noop"
  <2>1. Settled(Books, c, d) = Books
    BY <1>7 DEF Settled
  <2> QED
    BY <1>5, <1>7, <2>1 DEF Books, books, d
<1>8. CASE d \in {"expire", "timeout"}
  <2>1. Settled(Books, c, d)
          = Closed(Paid(Books, t, Stakes(k), Stakes(k), k.poster), c, "FAILED")
    BY <1>6, <1>8 DEF Settled, t
  <2>2. /\ stock' = [stock EXCEPT ![t] = Minus(@, Stakes(k))]
        /\ reserved' = [reserved EXCEPT ![t] = Minus(@, Stakes(k))]
        /\ contracts' = [contracts EXCEPT ![c].state = "FAILED"]
    BY <1>5, <2>1 DEF Closed, Paid, Books
  <2>3. inventory' = [inventory EXCEPT ![k.poster] =
                        IF k.poster \in present THEN Plus(@, Stakes(k)) ELSE @]
    BY <1>5, <2>1 DEF Closed, Paid, Books
  <2>4. owed' = [owed EXCEPT ![t][k.poster] =
                   IF k.poster \in present THEN @ ELSE Plus(@, Stakes(k))]
    BY <1>5, <2>1 DEF Closed, Paid, Books
  <2>5. inventory' \in [Agents -> Bundles]
    BY <1>2, <1>3, <2>3, BundleTypes DEF TypeOK
  <2>6. owed' \in [Terminals -> [Agents -> Bundles]]
    BY <1>2, <1>3, <2>4, BundleTypes DEF TypeOK
  <2>7. Hands(inventory, owed, inventory', owed', t, k.poster, Stakes(k))
    BY <1>2, <2>3, <2>4 DEF Hands, TypeOK
  <2> QED
    BY <1>8, <2>2, <2>5, <2>6, <2>7 DEF d, k, t
<1>9. CASE d = "complete"
  <2> DEFINE handed == Paid(Books, t, Due(k), Nothing, k.poster)
             i1 == [inventory EXCEPT ![k.poster] =
                      IF k.poster \in present THEN Plus(@, Due(k)) ELSE @]
             o1 == [owed EXCEPT ![t][k.poster] =
                      IF k.poster \in present THEN @ ELSE Plus(@, Due(k))]
             s1 == [stock EXCEPT ![t] = Minus(@, Due(k))]
             r1 == [reserved EXCEPT ![t] = Minus(@, Nothing)]
  <2>0. k.acceptor \in Agents
    <3>1. k.state = "ACCEPTED"
      BY <1>9 DEF Decision, Books, d, k
    <3> QED
      BY <1>1, <3>1 DEF ContractsNumbered, Is, Live, k
  <2>1. Settled(Books, c, d)
          = Closed(Paid(handed, t, Stakes(k), Stakes(k), k.acceptor), c,
                   "COMPLETED")
    BY <1>6, <1>9 DEF Settled, t
  <2>2. /\ handed.contracts = contracts /\ handed.stock = s1
        /\ handed.reserved = r1 /\ handed.owed = o1 /\ handed.inventory = i1
        /\ DOMAIN handed = {"contracts", "stock", "reserved", "owed", "inventory"}
    BY DEF Paid, Books
  <2>3. i1 \in [Agents -> Bundles]
    BY <1>2, <1>3, BundleTypes DEF TypeOK
  <2>4. o1 \in [Terminals -> [Agents -> Bundles]]
    BY <1>2, <1>3, BundleTypes DEF TypeOK
  <2>4a. Hands(inventory, owed, i1, o1, t, k.poster, Due(k))
    BY <1>2 DEF Hands, TypeOK
  <2> HIDE DEF handed, i1, o1, s1, r1
  <2>5. /\ stock' = [s1 EXCEPT ![t] = Minus(@, Stakes(k))]
        /\ reserved' = [r1 EXCEPT ![t] = Minus(@, Stakes(k))]
        /\ contracts' = [contracts EXCEPT ![c].state = "COMPLETED"]
    BY <1>5, <2>1, <2>2 DEF Closed, Paid
  <2>6. inventory' = [i1 EXCEPT ![k.acceptor] =
                        IF k.acceptor \in present THEN Plus(@, Stakes(k)) ELSE @]
    BY <1>5, <2>1, <2>2 DEF Closed, Paid
  <2>7. owed' = [o1 EXCEPT ![t][k.acceptor] =
                   IF k.acceptor \in present THEN @ ELSE Plus(@, Stakes(k))]
    BY <1>5, <2>1, <2>2 DEF Closed, Paid
  <2>8. inventory' \in [Agents -> Bundles]
    BY <1>3, <2>0, <2>3, <2>6, BundleTypes
  <2>9. owed' \in [Terminals -> [Agents -> Bundles]]
    BY <1>2, <1>3, <2>0, <2>4, <2>7, BundleTypes
  <2>10. Hands(i1, o1, inventory', owed', t, k.acceptor, Stakes(k))
    BY <1>2, <2>0, <2>3, <2>4, <2>6, <2>7 DEF Hands
  <2> QED
    BY <1>9, <2>3, <2>4, <2>4a, <2>5, <2>8, <2>9, <2>10 DEF d, k, t, s1, r1
<1> QED
  BY <1>4, <1>7, <1>8, <1>9

\* One iteration of tickContracts.
LEMMA TickContractKeeps ==
  ASSUME IInv, NEW c \in Ids, NEW built \in BOOLEAN, TickContract(c, built)
  PROVE  IInv'
<1> DEFINE k == contracts[c]
           t == k.terminal
           d == Decision(Books, c, built)
<1> USE DEF IInv
<1>1. /\ c \in todo /\ phase = "contracts" /\ todo' = todo \ {c}
      /\ UNCHANGED <<phase, tick, season, posted, exists, present>>
  BY DEF TickContract
<1>2. Live(c) /\ k \in Contract /\ k # None
  BY <1>1 DEF Unvisited, TypeOK, Live, Is
<1>3. Stakes(k) \in Bundles /\ Due(k) \in Bundles /\ Nothing \in Bundles
  BY <1>2, ContractBundles, BundleConstants
<1>4. t \in Terminals
  BY <1>2 DEF Contract
<1>5. stock[t] \in Bundles /\ reserved[t] \in Bundles
  BY <1>4 DEF TypeOK
<1>6. \A b \in Bundles : Minus(b, Nothing) = b
  BY DEF Bundles, Minus, Nothing
<1> HIDE DEF k, t, d
<1>7. CASE UNCHANGED books
  <2>1. TypeOK'
    BY <1>1, <1>7 DEF TypeOK, books
  <2>2. ContractsNumbered' /\ Unvisited' /\ LiveHasTerminal'
    BY <1>1, <1>7
    DEF ContractsNumbered, Unvisited, LiveHasTerminal, Live, Is, books
  <2>3. EscrowBacked'
    BY <1>7 DEF EscrowBacked, Total, Units, Held, Live, Is, books
  <2> QED
    BY <2>1, <2>2, <2>3
<1>8. ASSUME NEW due \in Bundles, NEW state \in {"COMPLETED", "FAILED"},
             Available(stock[t], reserved[t], due),
             stock' = [stock EXCEPT ![t] = Minus(Minus(@, due), Stakes(k))],
             reserved' = [reserved EXCEPT ![t] = Minus(@, Stakes(k))],
             contracts' = [contracts EXCEPT ![c].state = state],
             inventory' \in [Agents -> Bundles],
             owed' \in [Terminals -> [Agents -> Bundles]]
      PROVE  IInv'
  <2>1. [k EXCEPT !.state = state] \in Contract
    BY <1>2 DEF Contract
  <2>2. contracts' \in [Ids -> Contract \cup {None}]
    BY <1>8, <2>1 DEF TypeOK, k
  <2>3. stock' \in [Terminals -> Bundles]
    BY <1>3, <1>8, BundleTypes DEF TypeOK
  <2>4. reserved' \in [Terminals -> Bundles]
    BY <1>3, <1>8, BundleTypes DEF TypeOK
  <2>5. TypeOK'
    BY <1>1, <1>8, <2>2, <2>3, <2>4 DEF TypeOK
  <2>6. ContractsNumbered' /\ LiveHasTerminal'
    BY <1>1, <1>2, <1>8, <2>5, ClosingKeeps
  <2>7. Unvisited'
    <3>1. \A e \in Ids \ {c} : contracts'[e] = contracts[e]
      BY <1>8 DEF TypeOK
    <3> QED
      BY <1>1, <3>1 DEF Unvisited, Live, Is, TypeOK
  <2>8. EscrowBacked'
    BY <1>2, <1>8, <2>5, StakeReleased DEF k, t
  <2> QED
    BY <2>5, <2>6, <2>7, <2>8
<1>9. CASE /\ d \in {"expire", "timeout"}
           /\ stock' = [stock EXCEPT ![t] = Minus(@, Stakes(k))]
           /\ reserved' = [reserved EXCEPT ![t] = Minus(@, Stakes(k))]
           /\ contracts' = [contracts EXCEPT ![c].state = "FAILED"]
           /\ inventory' \in [Agents -> Bundles]
           /\ owed' \in [Terminals -> [Agents -> Bundles]]
  <2>1. stock' = [stock EXCEPT ![t] = Minus(Minus(@, Nothing), Stakes(k))]
    BY <1>5, <1>6, <1>9
  <2>2. Available(stock[t], reserved[t], Nothing)
    BY DEF Available, Nothing
  <2> QED
    BY <1>3, <1>8, <1>9, <2>1, <2>2
<1>10. CASE /\ d = "complete"
            /\ stock' = [[stock EXCEPT ![t] = Minus(@, Due(k))]
                           EXCEPT ![t] = Minus(@, Stakes(k))]
            /\ reserved' = [[reserved EXCEPT ![t] = Minus(@, Nothing)]
                              EXCEPT ![t] = Minus(@, Stakes(k))]
            /\ contracts' = [contracts EXCEPT ![c].state = "COMPLETED"]
            /\ inventory' \in [Agents -> Bundles]
            /\ owed' \in [Terminals -> [Agents -> Bundles]]
  <2>1. stock' = [stock EXCEPT ![t] = Minus(Minus(@, Due(k)), Stakes(k))]
    BY <1>4, <1>10 DEF TypeOK
  <2>2. reserved' = [reserved EXCEPT ![t] = Minus(@, Stakes(k))]
    BY <1>4, <1>5, <1>6, <1>10 DEF TypeOK
  <2>3. Available(stock[t], reserved[t], Due(k))
    <3>1. CASE k.kind = "BUILD"
      BY <3>1 DEF Available, Due, Nothing
    <3>2. CASE k.kind # "BUILD"
      <4>1. Met(Books, c, built)
        BY <1>10 DEF Decision, d
      <4> QED
        BY <3>2, <4>1 DEF Met, Books, Due, k, t
    <3> QED
      BY <3>1, <3>2
  <2> QED
    BY <1>3, <1>8, <1>10, <2>1, <2>2, <2>3
<1>11. \/ UNCHANGED books
       \/ /\ d \in {"expire", "timeout"}
          /\ stock' = [stock EXCEPT ![t] = Minus(@, Stakes(k))]
          /\ reserved' = [reserved EXCEPT ![t] = Minus(@, Stakes(k))]
          /\ contracts' = [contracts EXCEPT ![c].state = "FAILED"]
          /\ inventory' \in [Agents -> Bundles]
          /\ owed' \in [Terminals -> [Agents -> Bundles]]
       \/ /\ d = "complete"
          /\ stock' = [[stock EXCEPT ![t] = Minus(@, Due(k))]
                         EXCEPT ![t] = Minus(@, Stakes(k))]
          /\ reserved' = [[reserved EXCEPT ![t] = Minus(@, Nothing)]
                            EXCEPT ![t] = Minus(@, Stakes(k))]
          /\ contracts' = [contracts EXCEPT ![c].state = "COMPLETED"]
          /\ inventory' \in [Agents -> Bundles]
          /\ owed' \in [Terminals -> [Agents -> Bundles]]
  BY <1>1, SettledBooks DEF d, k, t
<1> QED
  BY <1>7, <1>9, <1>10, <1>11

\* Breaking a terminal: nothing is reserved, so no contract under way uses it.
LEMMA MineKeeps ==
  ASSUME IInv, NEW a \in Agents, NEW t \in Terminals, TickMine(a, t)
  PROVE  IInv'
<1> USE DEF IInv
<1>1. /\ reserved[t] = Nothing
      /\ inventory' = [inventory EXCEPT ![a] =
                         Plus(Plus(@, stock[t]), owed[t][a])]
      /\ exists' = exists \ {t}
      /\ stock' = [stock EXCEPT ![t] = Nothing]
      /\ reserved' = [reserved EXCEPT ![t] = Nothing]
      /\ owed' = [owed EXCEPT ![t] = [b \in Agents |-> Nothing]]
      /\ UNCHANGED <<phase, tick, todo, season, contracts, posted, present>>
  BY DEF TickMine, Mineable, clock
<1>2. ASSUME NEW c \in Ids, Live(c)
      PROVE  contracts[c].terminal # t
  <2> SUFFICES ASSUME contracts[c].terminal = t PROVE FALSE
    OBVIOUS
  <2>1. contracts[c] \in Contract /\ contracts[c].reward # Nothing
    BY <1>2 DEF TypeOK, Live, Is, ContractsNumbered
  <2>2. PICK x \in Items : contracts[c].reward[x] > 0
    BY <2>1 DEF Contract, Bundles, Nothing
  <2>3. Held(t, x)[c] > 0
    <3>1. Held(t, x)[c] = Stakes(contracts[c])[x]
      BY <1>2 DEF Held
    <3>2. contracts[c].reward[x] \in Nat /\ contracts[c].deposit[x] \in Nat
      BY <2>1 DEF Contract, Bundles
    <3> QED
      BY <2>2, <3>1, <3>2 DEF Stakes, Plus
  <2>4. Held(t, x) \in [Ids -> Nat]
    BY HeldType
  <2>5. Total(Ids, Held(t, x)) > 0
    <3> DEFINE f == Held(t, x)
    <3> HIDE DEF f
    <3>1. f \in [Ids -> Nat]
      BY <2>4 DEF f
    <3>2. Total(Ids, f) = Total(Ids \ {c}, f) + f[c] /\ Total(Ids \ {c}, f) \in Nat
      BY <3>1, IdsFinite, TotalSplit
    <3> QED
      BY <2>3, <3>1, <3>2 DEF f
  <2>6. reserved[t][x] = Total(Ids, Held(t, x)) /\ reserved[t][x] = 0
    BY <1>1 DEF EscrowBacked, Nothing
  <2> QED
    BY <2>5, <2>6
<1>3. TypeOK'
  <2>1. inventory' \in [Agents -> Bundles]
    BY <1>1, BundleTypes DEF TypeOK
  <2>2. Nothing \in Bundles
    BY BundleConstants
  <2> QED
    BY <1>1, <2>1, <2>2 DEF TypeOK
<1>4. ContractsNumbered' /\ Unvisited'
  BY <1>1 DEF ContractsNumbered, Unvisited, Live, Is
<1>5. LiveHasTerminal'
  BY <1>1, <1>2 DEF LiveHasTerminal, Live, Is
<1>6. EscrowBacked'
  <2>1. reserved' = reserved
    BY <1>1 DEF TypeOK
  <2>2. \A u \in Terminals, x \in Items : reserved[u][x] <= stock'[u][x]
    BY <1>1 DEF EscrowBacked, TypeOK, Nothing, Bundles
  <2> QED
    BY <1>1, <2>1, <2>2, StockSuffices
<1> QED
  BY <1>3, <1>4, <1>5, <1>6

\* Moving items between an agent and a terminal, and claiming a debt.
LEMMA ItemsMoveKeeps ==
  ASSUME IInv, NEW a \in Agents, NEW t \in Terminals,
         \/ \E d \in Bundles : TransferIn(a, t, d) \/ TransferOut(a, t, d)
         \/ HandleClaimOwed(a, t)
  PROVE  IInv'
<1> USE DEF IInv
<1>1. UNCHANGED <<phase, tick, todo, season, contracts, posted, exists, reserved,
                  present>>
  BY DEF TransferIn, TransferOut, HandleClaimOwed, clock
<1>2. ContractsNumbered' /\ Unvisited' /\ LiveHasTerminal'
  BY <1>1 DEF ContractsNumbered, Unvisited, LiveHasTerminal, Live, Is
<1>3. ASSUME stock' \in [Terminals -> Bundles], inventory' \in [Agents -> Bundles],
             owed' \in [Terminals -> [Agents -> Bundles]],
             \A u \in Terminals, x \in Items : reserved[u][x] <= stock'[u][x]
      PROVE  IInv'
  <2>1. TypeOK'
    BY <1>1, <1>3 DEF TypeOK
  <2>2. EscrowBacked'
    BY <1>1, <1>3, StockSuffices
  <2> QED
    BY <1>2, <2>1, <2>2
<1>4. ASSUME NEW d \in Bundles, TransferIn(a, t, d) PROVE IInv'
  <2>1. /\ inventory' = [inventory EXCEPT ![a] = Minus(@, d)]
        /\ stock' = [stock EXCEPT ![t] = Plus(@, d)]
        /\ owed' = owed
    BY <1>4 DEF TransferIn
  <2>2. stock' \in [Terminals -> Bundles] /\ inventory' \in [Agents -> Bundles]
    BY <2>1, BundleTypes DEF TypeOK
  <2>3. \A u \in Terminals, x \in Items : reserved[u][x] <= stock'[u][x]
    BY <2>1 DEF EscrowBacked, TypeOK, Plus, Bundles
  <2> QED
    BY <1>3, <2>1, <2>2, <2>3 DEF TypeOK
<1>5. ASSUME NEW d \in Bundles, TransferOut(a, t, d) PROVE IInv'
  <2>1. /\ inventory' = [inventory EXCEPT ![a] = Plus(@, d)]
        /\ stock' = [stock EXCEPT ![t] = Minus(@, d)]
        /\ owed' = owed
        /\ Available(stock[t], reserved[t], d)
    BY <1>5 DEF TransferOut
  <2>2. stock' \in [Terminals -> Bundles] /\ inventory' \in [Agents -> Bundles]
    BY <2>1, BundleTypes DEF TypeOK
  <2>3. \A u \in Terminals, x \in Items : reserved[u][x] <= stock'[u][x]
    <3> SUFFICES ASSUME NEW u \in Terminals, NEW x \in Items
                 PROVE  reserved[u][x] <= stock'[u][x]
      OBVIOUS
    <3>1. reserved[u][x] <= stock[u][x] /\ reserved[u][x] \in Nat
          /\ stock[u][x] \in Nat /\ d[x] \in Nat
      BY DEF EscrowBacked, TypeOK, Bundles
    <3>2. CASE u = t
      <4>1. stock'[u][x] = Minus(stock[t], d)[x]
        BY <2>1, <3>2 DEF TypeOK
      <4>2. d[x] > 0 => stock[t][x] >= reserved[t][x] + d[x]
        BY <2>1 DEF Available
      <4> QED
        BY <3>1, <3>2, <4>1, <4>2 DEF Minus
    <3>3. CASE u # t
      BY <2>1, <3>1, <3>3 DEF TypeOK
    <3> QED
      BY <3>2, <3>3
  <2> QED
    BY <1>3, <2>1, <2>2, <2>3 DEF TypeOK
<1>6. CASE HandleClaimOwed(a, t)
  <2>1. /\ inventory' = [inventory EXCEPT ![a] = Plus(@, owed[t][a])]
        /\ owed' = [owed EXCEPT ![t][a] = Nothing]
        /\ stock' = stock
    BY <1>6 DEF HandleClaimOwed, DebtsWithout
  <2>2. inventory' \in [Agents -> Bundles]
    BY <2>1, BundleTypes DEF TypeOK
  <2>3. owed' \in [Terminals -> [Agents -> Bundles]]
    BY <2>1, BundleConstants DEF TypeOK
  <2>4. \A u \in Terminals, x \in Items : reserved[u][x] <= stock'[u][x]
    BY <2>1 DEF EscrowBacked
  <2> QED
    BY <1>3, <2>1, <2>2, <2>3, <2>4 DEF TypeOK
<1> QED
  BY <1>4, <1>5, <1>6

\* The stages of a tick, travelling agents and new terminals.
LEMMA StageKeeps ==
  ASSUME IInv,
         \/ Step
         \/ \E a \in Agents : Travel(a)
         \/ \E t \in Terminals : EnsureContainer(t)
         \/ UNCHANGED vars
  PROVE  IInv'
<1> USE DEF IInv
<1>1. UNCHANGED books
  BY DEF Step, Travel, EnsureContainer, vars, books
<1>2. EscrowBacked'
  BY <1>1 DEF EscrowBacked, Total, Units, Held, Live, Is, books
<1>3. posted' = posted /\ season' = season
  BY DEF Step, Travel, EnsureContainer, vars, clock
<1>4. ContractsNumbered'
  BY <1>1, <1>3 DEF ContractsNumbered, Is, books
<1>5. exists \subseteq exists' /\ exists' \subseteq Terminals
  BY DEF Step, Travel, EnsureContainer, vars, TypeOK
<1>6. LiveHasTerminal'
  BY <1>1, <1>5 DEF LiveHasTerminal, Live, Is, books
<1>7. present' \subseteq Agents
  BY DEF Step, Travel, EnsureContainer, vars, TypeOK
<1>8. /\ phase' \in {"boundary", "acts", "work", "contracts"}
      /\ tick' \in 0..MaxTick /\ todo' \subseteq Ids
  BY BoundsAssumption
  DEF Step, Stages, Travel, EnsureContainer, vars, clock, TypeOK
<1>9. TypeOK'
  BY <1>1, <1>3, <1>5, <1>7, <1>8 DEF TypeOK, books
<1>10. Unvisited'
  <2>1. CASE Step
    BY <1>1, <2>1 DEF Step, Stages, Unvisited, Live, Is, books
  <2>2. CASE UNCHANGED clock
    BY <1>1, <2>2 DEF Unvisited, Live, Is, books, clock
  <2> QED
    BY <2>1, <2>2 DEF Travel, EnsureContainer, vars, clock
<1> QED
  BY <1>2, <1>4, <1>6, <1>9, <1>10

\* A new season: no contract, no terminal.
LEMMA SeasonKeeps ==
  ASSUME IInv, SeasonRollover
  PROVE  IInv'
<1> USE DEF IInv
<1>1. /\ contracts' = [c \in Ids |-> None]
      /\ \A c \in Ids : ~Live(c)' /\ ~Is(c, "ACCEPTED")' /\ ~Is(c, "OPEN")'
  BY DEF SeasonRollover, Live, Is
<1>2. todo' = {}
  BY DEF SeasonRollover, Unvisited
<1>3. TypeOK'
  BY BundlesAssumption, BundleConstants, BoundsAssumption
  DEF SeasonRollover, TypeOK
<1>4. ContractsNumbered' /\ Unvisited' /\ LiveHasTerminal'
  BY <1>1, <1>2 DEF ContractsNumbered, Unvisited, LiveHasTerminal
<1>5. EscrowBacked'
  <2> SUFFICES ASSUME NEW t \in Terminals, NEW x \in Items
               PROVE  /\ reserved'[t][x] = Total(Ids, Held(t, x))'
                      /\ reserved'[t][x] <= stock'[t][x]
    BY DEF EscrowBacked
  <2>1. reserved'[t][x] = 0 /\ stock'[t][x] = 0
    BY DEF SeasonRollover, Nothing
  <2> DEFINE g == Held(t, x)'
  <2>2. g \in [Ids -> Nat] /\ \A c \in Ids : g[c] = 0
    BY <1>1 DEF Held
  <2>3. Total(Ids, Held(t, x))' = Total(Ids, g)
    BY DEF Total, Units
  <2> HIDE DEF g
  <2>4. Total(Ids, g) = 0
    BY <2>2, TotalZero
  <2> QED
    BY <2>1, <2>3, <2>4
<1> QED
  BY <1>3, <1>4, <1>5

\* The invariant holds initially.
LEMMA InitIInv == Init => IInv
<1> SUFFICES ASSUME Init PROVE IInv
  OBVIOUS
<1>1. TypeOK
  BY BundlesAssumption, BundleConstants, BoundsAssumption DEF Init, TypeOK
<1>2. \A c \in Ids : contracts[c] = None
  BY DEF Init
<1>3. ContractsNumbered /\ Unvisited /\ LiveHasTerminal
  BY <1>2 DEF Init, ContractsNumbered, Unvisited, LiveHasTerminal, Live, Is
<1>4. EscrowBacked
  <2> SUFFICES ASSUME NEW t \in Terminals, NEW x \in Items
               PROVE  /\ reserved[t][x] = Total(Ids, Held(t, x))
                      /\ reserved[t][x] <= stock[t][x]
    BY DEF EscrowBacked
  <2>1. reserved[t][x] = 0 /\ stock[t][x] = 0
    BY DEF Init, Nothing
  <2> DEFINE f == Held(t, x)
  <2>2. f \in [Ids -> Nat] /\ \A c \in Ids : f[c] = 0
    BY <1>2 DEF Held, Live, Is
  <2> HIDE DEF f
  <2>3. Total(Ids, f) = 0
    BY <2>2, TotalZero
  <2> QED
    BY <2>1, <2>3 DEF f
<1> QED
  BY <1>1, <1>3, <1>4 DEF IInv

\* Every step preserves the invariant.
LEMMA StepIInv == IInv /\ [Next]_vars => IInv'
<1> SUFFICES ASSUME IInv, [Next]_vars PROVE IInv'
  OBVIOUS
<1>1. ASSUME NEW a \in Agents, Act(a) PROVE IInv'
  BY <1>1, PostKeeps, AcceptKeeps, SubmitKeeps, ItemsMoveKeeps DEF Act
<1>2. ASSUME NEW a \in Agents, Work(a) PROVE IInv'
  <2>1. \A x \in Items, n \in Counts : One(x, n) \in Bundles
    BY BundleConstants, BundlesAssumption
  <2>2. CASE \E t \in Terminals, x \in Items, n \in Counts :
               TransferIn(a, t, One(x, n)) \/ TransferOut(a, t, One(x, n))
    BY <2>1, <2>2, ItemsMoveKeeps
  <2>3. CASE \E t \in Terminals : TickMine(a, t)
    BY <2>3, MineKeeps
  <2> QED
    BY <1>2, <2>2, <2>3 DEF Work
<1>3. CASE \E c \in Ids, built \in BOOLEAN : TickContract(c, built)
  BY <1>3, TickContractKeeps
<1>4. CASE SeasonRollover
  BY <1>4, SeasonKeeps
<1>5. CASE \/ Step
           \/ \E a \in Agents : Travel(a)
           \/ \E t \in Terminals : EnsureContainer(t)
           \/ UNCHANGED vars
  BY <1>5, StageKeeps
<1> QED
  BY <1>1, <1>2, <1>3, <1>4, <1>5 DEF Next

-----------------------------------------------------------------------------
(* What a step does to the items there are                                 *)

\* All items x of inventories i, terminals s and debts o.
AllOf(i, s, o, x) == Purses(i, x) + Chests(s, x) + Debts(o, x)

Conserving ==
  \A x \in Items :
    AllOf(inventory', stock', owed', x) = AllOf(inventory, stock, owed, x)

\* AllOf is what the model calls the worth, before a step and after it.
LEMMA WorthIsAllOf ==
  ASSUME NEW x \in Items
  PROVE  /\ Worth(x) = AllOf(inventory, stock, owed, x)
         /\ Worth(x)' = AllOf(inventory', stock', owed', x)
  BY DEF Worth, AllOf, Purses, Chests, Debts, Total, Units

\* Wealth is what the model calls the items an agent owns.
LEMMA WealthIsOwned ==
  ASSUME NEW a \in Agents, NEW x \in Items
  PROVE  /\ Owns(a, x) = Wealth(inventory, owed, a, x)
         /\ Owns(a, x)' = Wealth(inventory', owed', a, x)
  BY DEF Owns, Wealth, OwedTo, Total, Units

\* The items there are, as a count.
LEMMA AllOfType ==
  ASSUME TypeOK, NEW x \in Items
  PROVE  /\ Purses(inventory, x) \in Nat
         /\ Chests(stock, x) \in Nat
         /\ Debts(owed, x) \in Nat
<1>1. inventory \in [Agents -> Bundles]
  BY DEF TypeOK
<1>2. stock \in [Terminals -> Bundles]
  BY DEF TypeOK
<1>3. owed \in [Terminals -> [Agents -> Bundles]]
  BY DEF TypeOK
<1>4. Debts(owed, x) \in Nat
  BY <1>3, DebtsType
<1>5. Purses(inventory, x) \in Nat
  BY <1>1, PursesType
<1>6. Chests(stock, x) \in Nat
  <2> DEFINE f == [u \in Terminals |-> stock[u][x]]
  <2>1. f \in [Terminals -> Nat]
    BY <1>2 DEF Bundles
  <2>2. Chests(stock, x) = Total(Terminals, f)
    BY DEF Chests
  <2> HIDE DEF f
  <2> QED
    BY <2>1, <2>2, FiniteAssumption, UnitsFinite
<1> QED
  BY <1>4, <1>5, <1>6

\* Items that go from an agent into a terminal, or from a terminal to an agent.
LEMMA MovingConserves ==
  ASSUME TypeOK, TypeOK', NEW a \in Agents, NEW t \in Terminals,
         NEW d \in Bundles,
         owed' = owed,
         \/ /\ Has(inventory[a], d)
            /\ inventory' = [inventory EXCEPT ![a] = Minus(@, d)]
            /\ stock' = [stock EXCEPT ![t] = Plus(@, d)]
         \/ /\ Has(stock[t], d)
            /\ inventory' = [inventory EXCEPT ![a] = Plus(@, d)]
            /\ stock' = [stock EXCEPT ![t] = Minus(@, d)]
  PROVE  Conserving
<1> SUFFICES ASSUME NEW x \in Items
             PROVE  AllOf(inventory', stock', owed', x)
                      = AllOf(inventory, stock, owed, x)
  BY DEF Conserving
<1>1. /\ inventory \in [Agents -> Bundles] /\ inventory' \in [Agents -> Bundles]
      /\ stock \in [Terminals -> Bundles] /\ stock' \in [Terminals -> Bundles]
  BY DEF TypeOK
<1>2. /\ \A b \in Agents \ {a} : inventory'[b] = inventory[b]
      /\ \A u \in Terminals \ {t} : stock'[u] = stock[u]
  BY <1>1
<1>3. inventory'[a][x] + stock'[t][x] = inventory[a][x] + stock[t][x]
  <2>1. inventory[a][x] \in Nat /\ stock[t][x] \in Nat /\ d[x] \in Nat
    BY <1>1 DEF Bundles
  <2>2. CASE /\ Has(inventory[a], d)
             /\ inventory' = [inventory EXCEPT ![a] = Minus(@, d)]
             /\ stock' = [stock EXCEPT ![t] = Plus(@, d)]
    <3>1. d[x] <= inventory[a][x]
      BY <2>1, <2>2 DEF Has
    <3>2. inventory'[a][x] = inventory[a][x] - d[x]
      BY <1>1, <2>1, <2>2, <3>1 DEF Minus
    <3>3. stock'[t][x] = stock[t][x] + d[x]
      BY <1>1, <2>2 DEF Plus
    <3> QED
      BY <2>1, <3>2, <3>3
  <2>3. CASE /\ Has(stock[t], d)
             /\ inventory' = [inventory EXCEPT ![a] = Plus(@, d)]
             /\ stock' = [stock EXCEPT ![t] = Minus(@, d)]
    <3>1. d[x] <= stock[t][x]
      BY <2>1, <2>3 DEF Has
    <3>2. stock'[t][x] = stock[t][x] - d[x]
      BY <1>1, <2>1, <2>3, <3>1 DEF Minus
    <3>3. inventory'[a][x] = inventory[a][x] + d[x]
      BY <1>1, <2>3 DEF Plus
    <3> QED
      BY <2>1, <3>2, <3>3
  <2> QED
    BY <2>2, <2>3
<1>4. /\ Purses(inventory', x) + inventory[a][x]
           = Purses(inventory, x) + inventory'[a][x]
      /\ Purses(inventory, x) \in Nat /\ Purses(inventory', x) \in Nat
  BY <1>1, <1>2, PursesChange
<1>5. /\ Chests(stock', x) + stock[t][x] = Chests(stock, x) + stock'[t][x]
      /\ Chests(stock, x) \in Nat /\ Chests(stock', x) \in Nat
  BY <1>1, <1>2, ChestsChange
<1>6. Debts(owed, x) \in Nat
  BY AllOfType
<1>7. /\ inventory[a][x] \in Nat /\ inventory'[a][x] \in Nat
      /\ stock[t][x] \in Nat /\ stock'[t][x] \in Nat
  BY <1>1 DEF Bundles
<1>8. Purses(inventory', x) + Chests(stock', x)
        = Purses(inventory, x) + Chests(stock, x)
  BY <1>3, <1>4, <1>5, <1>7
<1> QED
  BY <1>4, <1>5, <1>6, <1>8 DEF AllOf

\* A terminal can pay what it owes on a contract: what is available there for
\* the poster lies beside the stakes.
LEMMA StakesCovered ==
  ASSUME IInv, NEW c \in Ids, Live(c), NEW due \in Bundles,
         LET t == contracts[c].terminal IN Available(stock[t], reserved[t], due)
  PROVE  LET k == contracts[c]
             t == k.terminal IN
         /\ k \in Contract /\ t \in Terminals /\ Stakes(k) \in Bundles
         /\ \A x \in Items : due[x] + Stakes(k)[x] <= stock[t][x]
<1> DEFINE k == contracts[c]
           t == k.terminal
<1> USE DEF IInv
<1>1. k \in Contract
  BY DEF TypeOK, Live, Is
<1>2. t \in Terminals /\ Stakes(k) \in Bundles
  BY <1>1, ContractBundles DEF Contract
<1>3. ASSUME NEW x \in Items PROVE due[x] + Stakes(k)[x] <= stock[t][x]
  <2> DEFINE f == Held(t, x)
  <2>1. f \in [Ids -> Nat]
    BY <1>2, HeldType
  <2>2. f[c] = Stakes(k)[x]
    BY DEF Held
  <2>3. reserved[t][x] = Total(Ids, f) /\ reserved[t][x] <= stock[t][x]
    BY <1>2 DEF EscrowBacked
  <2>4. due[x] > 0 => stock[t][x] >= reserved[t][x] + due[x]
    BY DEF Available
  <2>5. /\ due[x] \in Nat /\ Stakes(k)[x] \in Nat /\ stock[t][x] \in Nat
        /\ reserved[t][x] \in Nat
    BY <1>2 DEF Bundles, TypeOK
  <2> HIDE DEF f, k, t
  <2>6. Total(Ids, f) = Total(Ids \ {c}, f) + f[c] /\ Total(Ids \ {c}, f) \in Nat
    BY <2>1, IdsFinite, TotalSplit
  <2>7. Stakes(k)[x] <= reserved[t][x]
    BY <2>2, <2>3, <2>5, <2>6
  <2> QED
    BY <2>3, <2>4, <2>5, <2>7
<1> QED
  BY <1>1, <1>2, <1>3

\* Contract c ends: the poster gets what is due, if anything, and the stakes go
\* to the acceptor of a completed contract and to the poster of a failed one.
Ends(c, completed) ==
  LET k == contracts[c]
      t == k.terminal
      due == IF completed THEN Due(k) ELSE Nothing IN
  /\ Live(c)
  /\ completed = ~Late(c)
  /\ completed => k.state = "ACCEPTED"
  /\ contracts' = [contracts EXCEPT ![c].state =
                     IF completed THEN "COMPLETED" ELSE "FAILED"]
  /\ Available(stock[t], reserved[t], due)
  /\ stock' = [stock EXCEPT ![t] = Minus(Minus(@, due), Stakes(k))]
  /\ \E i \in [Agents -> Bundles], o \in [Terminals -> [Agents -> Bundles]] :
       /\ Hands(inventory, owed, i, o, t, k.poster, due)
       /\ Hands(i, o, inventory', owed', t,
                IF completed THEN k.acceptor ELSE k.poster, Stakes(k))

\* SUBMIT ends a contract, in time.
LEMMA SubmitEnds ==
  ASSUME IInv, NEW a \in Agents, NEW c \in Ids, NEW built \in BOOLEAN,
         HandleSubmitContract(a, c, built)
  PROVE  Ends(c, TRUE) /\ UNCHANGED <<season, exists>>
<1> DEFINE k == contracts[c]
           t == k.terminal
<1> USE DEF IInv
<1>1. k \in Contract /\ Live(c) /\ k.state = "ACCEPTED" /\ k.acceptor = a
  BY DEF HandleSubmitContract, TypeOK, Is, Live
<1>2. t \in Terminals /\ k.poster \in Agents /\ Stakes(k) \in Bundles
      /\ Due(k) \in Bundles
  BY <1>1, ContractBundles DEF Contract
<1>3. Available(stock[t], reserved[t], Due(k))
  <2>1. CASE k.kind = "BUILD"
    BY <2>1 DEF Available, Due, Nothing
  <2>2. CASE k.kind # "BUILD"
    BY <2>2 DEF HandleSubmitContract, Met, Books, Due
  <2> QED
    BY <2>1, <2>2
<1>4. /\ stock' = [stock EXCEPT ![t] = Minus(Minus(@, Due(k)), Stakes(k))]
      /\ owed' = [owed EXCEPT ![t][k.poster] = Plus(@, Due(k))]
      /\ inventory' = [inventory EXCEPT ![a] = Plus(@, Stakes(k))]
      /\ contracts' = [contracts EXCEPT ![c].state = "COMPLETED"]
      /\ UNCHANGED <<season, exists>>
      /\ ~Late(c)
  BY DEF HandleSubmitContract, clock
<1>5. \E i \in [Agents -> Bundles], o \in [Terminals -> [Agents -> Bundles]] :
        /\ Hands(inventory, owed, i, o, t, k.poster, Due(k))
        /\ Hands(i, o, inventory', owed', t, k.acceptor, Stakes(k))
  <2>1. inventory \in [Agents -> Bundles] /\ owed' \in [Terminals -> [Agents -> Bundles]]
    BY <1>2, <1>4, BundleTypes DEF TypeOK
  <2>2. Hands(inventory, owed, inventory, owed', t, k.poster, Due(k))
    BY <1>4 DEF Hands
  <2>3. Hands(inventory, owed', inventory', owed', t, k.acceptor, Stakes(k))
    BY <1>1, <1>4 DEF Hands
  <2> QED
    BY <2>1, <2>2, <2>3
<1> QED
  BY <1>1, <1>3, <1>4, <1>5 DEF Ends

\* tickContracts leaves the books alone or ends the contract it visits.
LEMMA TickContractEnds ==
  ASSUME IInv, NEW c \in Ids, NEW built \in BOOLEAN, TickContract(c, built)
  PROVE  /\ UNCHANGED books \/ Ends(c, TRUE) \/ Ends(c, FALSE)
         /\ UNCHANGED <<season, exists>>
<1> DEFINE k == contracts[c]
           t == k.terminal
           d == Decision(Books, c, built)
<1> USE DEF IInv
<1>1. /\ c \in todo /\ UNCHANGED <<season, exists>>
  BY DEF TickContract
<1>2. Live(c) /\ k \in Contract
  BY <1>1 DEF Unvisited, TypeOK, Live, Is
<1>3. /\ Stakes(k) \in Bundles /\ Due(k) \in Bundles /\ Nothing \in Bundles
      /\ t \in Terminals /\ t \in exists /\ k.poster \in Agents
  BY <1>2, ContractBundles, BundleConstants DEF Contract, LiveHasTerminal
<1>4. /\ stock \in [Terminals -> Bundles]
      /\ owed \in [Terminals -> [Agents -> Bundles]]
      /\ inventory \in [Agents -> Bundles]
  BY DEF TypeOK
<1>5. \A b \in Bundles : Minus(b, Nothing) = b /\ Plus(b, Nothing) = b
  BY DEF Bundles, Minus, Plus, Nothing
<1>6. /\ d \in {"expire", "timeout"} => Late(c)
      /\ d = "complete" => ~Late(c) /\ k.state = "ACCEPTED" /\ Met(Books, c, built)
  BY <1>3 DEF Decision, Books, Late
<1>7. \/ UNCHANGED books
      \/ /\ d \in {"expire", "timeout"}
         /\ stock' = [stock EXCEPT ![t] = Minus(@, Stakes(k))]
         /\ contracts' = [contracts EXCEPT ![c].state = "FAILED"]
         /\ Hands(inventory, owed, inventory', owed', t, k.poster, Stakes(k))
      \/ /\ d = "complete"
         /\ stock' = [[stock EXCEPT ![t] = Minus(@, Due(k))]
                        EXCEPT ![t] = Minus(@, Stakes(k))]
         /\ contracts' = [contracts EXCEPT ![c].state = "COMPLETED"]
         /\ \E i \in [Agents -> Bundles], o \in [Terminals -> [Agents -> Bundles]] :
              /\ Hands(inventory, owed, i, o, t, k.poster, Due(k))
              /\ Hands(i, o, inventory', owed', t, k.acceptor, Stakes(k))
  BY <1>1, SettledBooks
<1> HIDE DEF d
<1>8. CASE /\ d \in {"expire", "timeout"}
           /\ stock' = [stock EXCEPT ![t] = Minus(@, Stakes(k))]
           /\ contracts' = [contracts EXCEPT ![c].state = "FAILED"]
           /\ Hands(inventory, owed, inventory', owed', t, k.poster, Stakes(k))
  <2>1. Hands(inventory, owed, inventory, owed, t, k.poster, Nothing)
    <3>1. inventory = [inventory EXCEPT ![k.poster] = Plus(@, Nothing)]
      BY <1>3, <1>4, <1>5
    <3> QED
      BY <3>1 DEF Hands
  <2>2. stock' = [stock EXCEPT ![t] = Minus(Minus(@, Nothing), Stakes(k))]
    <3>1. Minus(stock[t], Nothing) = stock[t]
      BY <1>3, <1>4, <1>5
    <3> QED
      BY <1>8, <3>1
  <2>3. Available(stock[t], reserved[t], Nothing)
    BY DEF Available, Nothing
  <2>4. Late(c)
    BY <1>6, <1>8
  <2>5. \E i \in [Agents -> Bundles], o \in [Terminals -> [Agents -> Bundles]] :
          /\ Hands(inventory, owed, i, o, t, k.poster, Nothing)
          /\ Hands(i, o, inventory', owed', t, k.poster, Stakes(k))
    BY <1>4, <1>8, <2>1
  <2>6. Ends(c, FALSE)
    BY <1>2, <1>8, <2>2, <2>3, <2>4, <2>5 DEF Ends
  <2> QED
    BY <1>1, <2>6
<1>9. CASE /\ d = "complete"
           /\ stock' = [[stock EXCEPT ![t] = Minus(@, Due(k))]
                          EXCEPT ![t] = Minus(@, Stakes(k))]
           /\ contracts' = [contracts EXCEPT ![c].state = "COMPLETED"]
           /\ \E i \in [Agents -> Bundles],
                 o \in [Terminals -> [Agents -> Bundles]] :
                /\ Hands(inventory, owed, i, o, t, k.poster, Due(k))
                /\ Hands(i, o, inventory', owed', t, k.acceptor, Stakes(k))
  <2>1. stock' = [stock EXCEPT ![t] = Minus(Minus(@, Due(k)), Stakes(k))]
    BY <1>3, <1>4, <1>9
  <2>2. Available(stock[t], reserved[t], Due(k))
    <3>1. CASE k.kind = "BUILD"
      BY <3>1 DEF Available, Due, Nothing
    <3>2. CASE k.kind # "BUILD"
      BY <1>6, <1>9, <3>2 DEF Met, Books, Due
    <3> QED
      BY <3>1, <3>2
  <2>3. ~Late(c) /\ k.state = "ACCEPTED"
    BY <1>6, <1>9
  <2>4. Ends(c, TRUE)
    BY <1>2, <1>9, <2>1, <2>2, <2>3 DEF Ends
  <2> QED
    BY <1>1, <2>4
<1> QED
  BY <1>1, <1>7, <1>8, <1>9

\* The end of a contract moves items and pays the right agents.
LEMMA EndsPay ==
  ASSUME IInv, TypeOK', NEW c \in Ids, NEW completed \in BOOLEAN,
         Ends(c, completed)
  PROVE  /\ Conserving
         /\ LET k == contracts[c]
                due == IF completed THEN Due(k) ELSE Nothing
                payee == IF completed THEN k.acceptor ELSE k.poster IN
            \A a \in Agents, x \in Items :
              Owns(a, x)' = Owns(a, x) + (IF a = k.poster THEN due[x] ELSE 0)
                              + (IF a = payee THEN Stakes(k)[x] ELSE 0)
<1> DEFINE k == contracts[c]
           t == k.terminal
           due == IF completed THEN Due(k) ELSE Nothing
           payee == IF completed THEN k.acceptor ELSE k.poster
<1> USE DEF IInv
<1>1. Live(c) /\ k \in Contract
  BY DEF Ends, Live, Is, TypeOK
<1>2. due \in Bundles
  BY <1>1, ContractBundles, BundleConstants
<1>3. /\ Available(stock[t], reserved[t], due)
      /\ stock' = [stock EXCEPT ![t] = Minus(Minus(@, due), Stakes(k))]
  BY DEF Ends
<1>4. k.poster \in Agents /\ payee \in Agents
  BY <1>1 DEF Ends, Contract, ContractsNumbered, Live, Is
<1>5. PICK i \in [Agents -> Bundles], o \in [Terminals -> [Agents -> Bundles]] :
        /\ Hands(inventory, owed, i, o, t, k.poster, due)
        /\ Hands(i, o, inventory', owed', t, payee, Stakes(k))
  BY DEF Ends
<1>6. /\ t \in Terminals /\ Stakes(k) \in Bundles
      /\ \A x \in Items : due[x] + Stakes(k)[x] <= stock[t][x]
  BY <1>1, <1>2, <1>3, StakesCovered
<1>7. /\ inventory \in [Agents -> Bundles] /\ inventory' \in [Agents -> Bundles]
      /\ stock \in [Terminals -> Bundles] /\ stock' \in [Terminals -> Bundles]
      /\ owed \in [Terminals -> [Agents -> Bundles]]
      /\ owed' \in [Terminals -> [Agents -> Bundles]]
  BY DEF TypeOK
<1>8. PICK poster, to, at, d, stakes :
        /\ poster = k.poster /\ to = payee /\ at = t /\ d = due
        /\ stakes = Stakes(k)
  OBVIOUS
<1> HIDE DEF k, t, due, payee
<1>9. /\ poster \in Agents /\ to \in Agents /\ at \in Terminals /\ d \in Bundles
      /\ stakes \in Bundles
      /\ Hands(inventory, owed, i, o, at, poster, d)
      /\ Hands(i, o, inventory', owed', at, to, stakes)
      /\ stock' = [stock EXCEPT ![at] = Minus(Minus(@, d), stakes)]
      /\ \A x \in Items : d[x] + stakes[x] <= stock[at][x]
  BY <1>2, <1>3, <1>4, <1>5, <1>6, <1>8
<1>10. Added(inventory, owed, i, o, poster, d)
  <2>1. Handing(inventory, owed, i, o, at, poster, d)
    BY <1>7, <1>9 DEF Handing
  <2> QED
    BY <2>1, HandingAdds
<1>11. Added(i, o, inventory', owed', to, stakes)
  <2>1. Handing(i, o, inventory', owed', at, to, stakes)
    BY <1>7, <1>9 DEF Handing
  <2> QED
    BY <2>1, HandingAdds
<1>12. Conserving
  <2> SUFFICES ASSUME NEW x \in Items
               PROVE  AllOf(inventory', stock', owed', x)
                        = AllOf(inventory, stock, owed, x)
    BY DEF Conserving
  <2>1. /\ d[x] \in Nat /\ stakes[x] \in Nat /\ stock[at][x] \in Nat
        /\ stock'[at][x] \in Nat
    BY <1>7, <1>9 DEF Bundles
  <2>2. stock'[at][x] + d[x] + stakes[x] = stock[at][x]
    <3>1. d[x] + stakes[x] <= stock[at][x]
      BY <1>9
    <3>2. stock'[at][x] = Minus(Minus(stock[at], d), stakes)[x]
      BY <1>7, <1>9
    <3>3. Minus(stock[at], d)[x] = stock[at][x] - d[x]
      BY <2>1, <3>1 DEF Minus
    <3>4. stock'[at][x] = stock[at][x] - d[x] - stakes[x]
      BY <2>1, <3>1, <3>2, <3>3 DEF Minus
    <3> QED
      BY <2>1, <3>4
  <2>3. \A u \in Terminals \ {at} : stock'[u] = stock[u]
    BY <1>7, <1>9
  <2>4. /\ Chests(stock', x) + stock[at][x] = Chests(stock, x) + stock'[at][x]
        /\ Chests(stock, x) \in Nat /\ Chests(stock', x) \in Nat
    <3> DEFINE before == stock
               after == stock'
    <3>1. /\ before \in [Terminals -> Bundles] /\ after \in [Terminals -> Bundles]
          /\ at \in Terminals
          /\ \A u \in Terminals \ {at} : after[u] = before[u]
      BY <1>7, <1>9, <2>3
    <3> SUFFICES /\ Chests(after, x) + before[at][x] = Chests(before, x) + after[at][x]
                 /\ Chests(before, x) \in Nat /\ Chests(after, x) \in Nat
      OBVIOUS
    <3> HIDE DEF before, after
    <3> QED
      BY ONLY <3>1, x \in Items, ChestsChange
  <2>5. /\ Purses(inventory, x) \in Nat /\ Debts(owed, x) \in Nat
        /\ Purses(inventory', x) \in Nat /\ Debts(owed', x) \in Nat
    BY <1>7, <1>9, PursesType, DebtsType
  <2>6. /\ Purses(i, x) \in Nat /\ Debts(o, x) \in Nat
    BY PursesType, DebtsType
  <2>7. Purses(inventory', x) + Debts(owed', x)
          = Purses(inventory, x) + Debts(owed, x) + d[x] + stakes[x]
    <3>1. Purses(i, x) + Debts(o, x) = Purses(inventory, x) + Debts(owed, x) + d[x]
      BY <1>10 DEF Added
    <3>2. Purses(inventory', x) + Debts(owed', x)
            = Purses(i, x) + Debts(o, x) + stakes[x]
      BY <1>11 DEF Added
    <3> QED
      BY <2>1, <2>5, <2>6, <3>1, <3>2
  <2> QED
    BY <2>1, <2>2, <2>4, <2>5, <2>7 DEF AllOf
<1>13. ASSUME NEW a \in Agents, NEW x \in Items
       PROVE  Owns(a, x)' = Owns(a, x) + (IF a = poster THEN d[x] ELSE 0)
                              + (IF a = to THEN stakes[x] ELSE 0)
  <2>1. Wealth(i, o, a, x) = Wealth(inventory, owed, a, x)
                               + (IF a = poster THEN d[x] ELSE 0)
    BY <1>10 DEF Added
  <2>2. Wealth(inventory', owed', a, x)
          = Wealth(i, o, a, x) + (IF a = to THEN stakes[x] ELSE 0)
    BY <1>11 DEF Added
  <2> QED
    BY <2>1, <2>2, WealthIsOwned
<1> QED
  BY <1>8, <1>12, <1>13 DEF k, due, payee

\* CLAIM_OWED turns a debt into items of the claimant.
LEMMA ClaimConserves ==
  ASSUME TypeOK, TypeOK', NEW a \in Agents, NEW t \in Terminals,
         HandleClaimOwed(a, t)
  PROVE  Conserving
<1> SUFFICES ASSUME NEW x \in Items
             PROVE  AllOf(inventory', stock', owed', x)
                      = AllOf(inventory, stock, owed, x)
  BY DEF Conserving
<1>1. /\ inventory \in [Agents -> Bundles] /\ inventory' \in [Agents -> Bundles]
      /\ owed \in [Terminals -> [Agents -> Bundles]]
      /\ owed' \in [Terminals -> [Agents -> Bundles]]
  BY DEF TypeOK
<1>2. /\ inventory' = [inventory EXCEPT ![a] = Plus(@, owed[t][a])]
      /\ owed' = [owed EXCEPT ![t][a] = Nothing]
      /\ stock' = stock
  BY DEF HandleClaimOwed, DebtsWithout
<1>3. /\ \A b \in Agents \ {a} : inventory'[b] = inventory[b]
      /\ \A u \in Terminals, b \in Agents :
           u # t \/ b # a => owed'[u][b] = owed[u][b]
  BY <1>1, <1>2
<1>4. inventory'[a][x] = inventory[a][x] + owed[t][a][x] /\ owed'[t][a][x] = 0
  BY <1>1, <1>2 DEF Plus, Nothing
<1>5. Purses(inventory', x) + inventory[a][x]
        = Purses(inventory, x) + inventory'[a][x]
  BY <1>1, <1>3, PursesChange
<1>6. Debts(owed', x) + owed[t][a][x] = Debts(owed, x) + owed'[t][a][x]
  BY <1>1, <1>3, DebtsChange
<1>7. /\ Purses(inventory, x) \in Nat /\ Purses(inventory', x) \in Nat
      /\ Debts(owed, x) \in Nat /\ Debts(owed', x) \in Nat
      /\ Chests(stock, x) \in Nat
  BY <1>1, PursesType, DebtsType, AllOfType
<1>8. inventory[a][x] \in Nat /\ owed[t][a][x] \in Nat
  BY <1>1 DEF Bundles
<1>9. Purses(inventory', x) + Debts(owed', x)
        = Purses(inventory, x) + Debts(owed, x)
  BY <1>4, <1>5, <1>6, <1>7, <1>8
<1> QED
  BY <1>2, <1>7, <1>9 DEF AllOf

\* A terminal is broken, and no items appear.
Mined ==
  /\ ~(exists \subseteq exists')
  /\ \A x \in Items :
       AllOf(inventory', stock', owed', x) <= AllOf(inventory, stock, owed, x)

\* MINE hands out what the terminal holds and what it owes to the miner; what it
\* owes to others is lost.
LEMMA MineLoses ==
  ASSUME TypeOK, TypeOK', NEW a \in Agents, NEW t \in Terminals, TickMine(a, t)
  PROVE  Mined
<1>1. /\ inventory \in [Agents -> Bundles] /\ inventory' \in [Agents -> Bundles]
      /\ stock \in [Terminals -> Bundles] /\ stock' \in [Terminals -> Bundles]
      /\ owed \in [Terminals -> [Agents -> Bundles]]
  BY DEF TypeOK
<1>2. /\ inventory' = [inventory EXCEPT ![a] =
                         Plus(Plus(@, stock[t]), owed[t][a])]
      /\ stock' = [stock EXCEPT ![t] = Nothing]
      /\ owed' = [owed EXCEPT ![t] = [b \in Agents |-> Nothing]]
  BY DEF TickMine
<1>3. ~(exists \subseteq exists')
  BY DEF TickMine, Mineable
<1>4. /\ \A b \in Agents \ {a} : inventory'[b] = inventory[b]
      /\ \A u \in Terminals \ {t} : stock'[u] = stock[u]
  BY <1>1, <1>2
<1>5. ASSUME NEW x \in Items
      PROVE  AllOf(inventory', stock', owed', x) <= AllOf(inventory, stock, owed, x)
  <2>1. /\ inventory'[a][x] = inventory[a][x] + stock[t][x] + owed[t][a][x]
        /\ stock'[t][x] = 0
    BY <1>1, <1>2 DEF Plus, Nothing
  <2>2. /\ Purses(inventory', x) + inventory[a][x]
             = Purses(inventory, x) + inventory'[a][x]
        /\ Purses(inventory, x) \in Nat /\ Purses(inventory', x) \in Nat
    BY <1>1, <1>4, PursesChange
  <2>3. /\ Chests(stock', x) + stock[t][x] = Chests(stock, x) + stock'[t][x]
        /\ Chests(stock, x) \in Nat /\ Chests(stock', x) \in Nat
    BY <1>1, <1>4, ChestsChange
  <2>4. Debts(owed', x) + owed[t][a][x] <= Debts(owed, x) /\ Debts(owed', x) \in Nat
    BY <1>1, <1>2, DebtsGone
  <2>5. /\ Debts(owed, x) \in Nat
        /\ inventory[a][x] \in Nat /\ stock[t][x] \in Nat /\ owed[t][a][x] \in Nat
    BY <1>1, AllOfType DEF Bundles
  <2> QED
    BY <2>1, <2>2, <2>3, <2>4, <2>5 DEF AllOf
<1> QED
  BY <1>3, <1>5 DEF Mined

Ending(c, completed) == Ends(c, completed) /\ UNCHANGED <<season, exists>>

\* What the steps of a world are: a contract ends, or none does and items move
\* about or go with a terminal, or the season changes.
LEMMA StepKinds ==
  ASSUME IInv, IInv', [Next]_vars
  PROVE  \/ season' # season
         \/ \E c \in Ids, completed \in BOOLEAN : Ending(c, completed)
         \/ (\A c \in Ids : Live(c) => Live(c)') /\ (Conserving \/ Mined)
<1> USE DEF IInv
<1>1. ASSUME UNCHANGED <<contracts, inventory, stock, owed>>
      PROVE  (\A c \in Ids : Live(c) => Live(c)') /\ Conserving
  BY <1>1 DEF Live, Is, Conserving
<1>2. ASSUME NEW a \in Agents, Act(a)
      PROVE  \/ \E c \in Ids, completed \in BOOLEAN : Ending(c, completed)
             \/ (\A c \in Ids : Live(c) => Live(c)') /\ Conserving
  <2>1. ASSUME NEW t \in Terminals, NEW q \in Requirements, NEW r \in Rewards,
               NEW d \in Deposits, NEW kind \in {"DELIVER", "BUILD"},
               NEW deadline \in 0..MaxTick - 1,
               HandlePostContract(a, t, kind, q, r, d, deadline)
        PROVE  (\A c \in Ids : Live(c) => Live(c)') /\ Conserving
    <3>1. contracts[posted + 1] = None \/ posted + 1 \notin Ids
      BY DEF ContractsNumbered, TypeOK
    <3>2. \A c \in Ids : Live(c) => contracts'[c] = contracts[c]
      BY <2>1, <3>1 DEF HandlePostContract, TypeOK, Live, Is
    <3>3. r \in Bundles /\ owed' = owed
      BY <2>1, BundlesAssumption DEF HandlePostContract
    <3>4. /\ Has(inventory[a], r)
          /\ inventory' = [inventory EXCEPT ![a] = Minus(@, r)]
          /\ stock' = [stock EXCEPT ![t] = Plus(@, r)]
      BY <2>1 DEF HandlePostContract, Stake
    <3>5. Conserving
      BY <3>3, <3>4, MovingConserves
    <3> QED
      BY <3>2, <3>5 DEF Live, Is
  <2>2. ASSUME NEW c \in Ids, NEW k \in Multipliers, HandleAcceptContract(a, c, k)
        PROVE  (\A e \in Ids : Live(e) => Live(e)') /\ Conserving
    <3> DEFINE d == Times(k, contracts[c].deposit)
               t == contracts[c].terminal
    <3>1. contracts[c] \in Contract /\ contracts[c] # None
      BY <2>2 DEF HandleAcceptContract, TypeOK, Is
    <3>2. d \in Bundles /\ t \in Terminals
      <4>1. contracts[c].deposit \in Bundles /\ k \in Nat
        BY <3>1 DEF Contract, Multipliers
      <4> QED
        BY <3>1, <4>1, BundleTypes DEF Contract
    <3>3. /\ Has(inventory[a], d)
          /\ inventory' = [inventory EXCEPT ![a] = Minus(@, d)]
          /\ stock' = [stock EXCEPT ![t] = Plus(@, d)]
          /\ owed' = owed
      BY <2>2 DEF HandleAcceptContract, Stake
    <3>4. Conserving
      <4> HIDE DEF d, t
      <4> QED
        BY <3>2, <3>3, MovingConserves
    <3>5. Live(c)'
      <4>1. contracts' = [contracts EXCEPT ![c].state = "ACCEPTED",
                                           ![c].acceptor = a, ![c].deposit = d]
        BY <2>2 DEF HandleAcceptContract
      <4>2. contracts'[c].state = "ACCEPTED"
        BY <3>1, <4>1 DEF TypeOK, Contract
      <4>3. contracts'[c] # None
        <5>1. contracts'[c] = [contracts[c] EXCEPT !.state = "ACCEPTED",
                                                   !.acceptor = a, !.deposit = d]
          BY <4>1 DEF TypeOK
        <5>2. contracts'[c] \in Contract
          BY <3>1, <3>2, <5>1 DEF Contract
        <5> QED
          BY <5>2, NoneAssumption
      <4> QED
        BY <4>2, <4>3 DEF Live, Is
    <3>6. \A e \in Ids \ {c} : contracts'[e] = contracts[e]
      BY <2>2 DEF HandleAcceptContract, TypeOK
    <3> QED
      BY <3>4, <3>5, <3>6 DEF Live, Is
  <2>3. ASSUME NEW c \in Ids, NEW built \in BOOLEAN, HandleSubmitContract(a, c, built)
        PROVE  Ending(c, TRUE)
    BY <2>3, SubmitEnds DEF Ending
  <2>4. ASSUME NEW t \in Terminals, HandleClaimOwed(a, t)
        PROVE  (\A c \in Ids : Live(c) => Live(c)') /\ Conserving
    <3>1. Conserving
      BY <2>4, ClaimConserves
    <3>2. contracts' = contracts
      BY <2>4 DEF HandleClaimOwed
    <3> QED
      BY <3>1, <3>2 DEF Live, Is
  <2> QED
    BY <1>2, <2>1, <2>2, <2>3, <2>4 DEF Act
<1>3. ASSUME NEW a \in Agents, Work(a)
      PROVE  (\A c \in Ids : Live(c) => Live(c)') /\ (Conserving \/ Mined)
  <2>1. contracts' = contracts
    BY <1>3 DEF Work, TransferIn, TransferOut, TickMine
  <2>2. ASSUME NEW t \in Terminals, NEW d \in Bundles, TransferIn(a, t, d)
        PROVE  Conserving
    BY <2>2, MovingConserves DEF TransferIn
  <2>3. ASSUME NEW t \in Terminals, NEW d \in Bundles, TransferOut(a, t, d)
        PROVE  Conserving
    <3>1. /\ Available(stock[t], reserved[t], d)
          /\ inventory' = [inventory EXCEPT ![a] = Plus(@, d)]
          /\ stock' = [stock EXCEPT ![t] = Minus(@, d)]
          /\ owed' = owed
      BY <2>3 DEF TransferOut
    <3>2. ASSUME NEW x \in Items PROVE stock[t][x] >= d[x]
      <4>1. stock[t][x] \in Nat /\ reserved[t][x] \in Nat /\ d[x] \in Nat
        BY DEF TypeOK, Bundles
      <4>2. d[x] > 0 => stock[t][x] >= reserved[t][x] + d[x]
        BY <3>1 DEF Available
      <4> QED
        BY <4>1, <4>2
    <3>3. Has(stock[t], d)
      BY <3>2 DEF Has
    <3> QED
      BY <3>1, <3>3, MovingConserves
  <2>4. ASSUME NEW t \in Terminals, TickMine(a, t)
        PROVE  Mined
    BY <2>4, MineLoses
  <2>5. \A x \in Items, n \in Counts : One(x, n) \in Bundles
    BY BundleConstants, BundlesAssumption
  <2>6. Conserving \/ Mined
    BY <1>3, <2>2, <2>3, <2>4, <2>5 DEF Work
  <2> QED
    BY <2>1, <2>6 DEF Live, Is
<1>4. ASSUME NEW c \in Ids, NEW built \in BOOLEAN, TickContract(c, built)
      PROVE  \/ \E e \in Ids, completed \in BOOLEAN : Ending(e, completed)
             \/ (\A e \in Ids : Live(e) => Live(e)') /\ Conserving
  <2>1. /\ UNCHANGED books \/ Ends(c, TRUE) \/ Ends(c, FALSE)
        /\ UNCHANGED <<season, exists>>
    BY <1>4, TickContractEnds
  <2> QED
    BY <1>1, <2>1 DEF books, Ending
<1>5. CASE SeasonRollover
  BY <1>5 DEF SeasonRollover
<1>6. CASE \/ Step
           \/ \E a \in Agents : Travel(a)
           \/ \E t \in Terminals : EnsureContainer(t)
           \/ UNCHANGED vars
  BY <1>1, <1>6 DEF Step, Travel, EnsureContainer, books, vars
<1> QED
  BY <1>2, <1>3, <1>4, <1>5, <1>6 DEF Next

-----------------------------------------------------------------------------
(* The theorems                                                            *)

\* The invariant of every execution.
LEMMA Invariant == Spec => []IInv
  BY InitIInv, StepIInv, PTL DEF Spec

\* The state of contracts, terminals and agents keeps its types, whatever the
\* handlers, work tasks and settlements of a tick add to counts or take away.
THEOREM EscrowTypeCorrect == Spec => []TypeOK
<1>1. IInv => TypeOK
  BY DEF IInv
<1> QED
  BY <1>1, Invariant, PTL

\* Container.Reserved is exactly the sum of the stakes of the contracts under
\* way at the terminal, and the terminal holds that much: TRANSFER, MINE,
\* SUBMIT and the payouts of other contracts never spend it.
THEOREM StakesBacked == Spec => []EscrowBacked
<1>1. IInv => EscrowBacked
  BY DEF IInv
<1> QED
  BY <1>1, Invariant, PTL

\* Within a season no contract under way loses its terminal: the branch of
\* DecideTick that fails it without a refund is dead.
THEOREM TerminalsStay == Spec => []LiveHasTerminal
<1>1. IInv => LiveHasTerminal
  BY DEF IInv
<1> QED
  BY <1>1, Invariant, PTL

\* The step of ItemsConserved.
ItemsStay ==
  season' = season =>
    \A x \in Items :
      /\ Worth(x)' <= Worth(x)
      /\ exists \subseteq exists' => Worth(x)' = Worth(x)

\* The step of FairSettlement.
Settling ==
  \A c \in Ids :
    Live(c) /\ ~Live(c)' /\ season' = season =>
      LET completed == Is(c, "COMPLETED")' IN
      /\ completed = ~Late(c)
      /\ \A a \in Agents, x \in Items :
           Owns(a, x)' = Owns(a, x) + Share(contracts[c], a, completed)[x]

\* Posting, accepting, transfers, claims and all settlements move items between
\* agents, terminals and debts and neither make nor lose one: handlers, work
\* tasks and tickContracts agree about every count.  Only MINE, which breaks a
\* terminal with the debts in it, loses items.
THEOREM ItemsNeitherMadeNorLost == Spec => ItemsConserved
<1>1. IInv /\ IInv' /\ [Next]_vars => [ItemsStay]_vars
  <2> SUFFICES ASSUME IInv, IInv', [Next]_vars, season' = season, NEW x \in Items
               PROVE  /\ Worth(x)' <= Worth(x)
                      /\ exists \subseteq exists' => Worth(x)' = Worth(x)
    BY DEF ItemsStay
  <2>1. /\ Worth(x) = AllOf(inventory, stock, owed, x)
        /\ Worth(x)' = AllOf(inventory', stock', owed', x)
    BY WorthIsAllOf
  <2>2. AllOf(inventory, stock, owed, x) \in Nat
    <3>1. TypeOK
      BY DEF IInv
    <3> QED
      BY <3>1, AllOfType DEF AllOf
  <2>3. ASSUME NEW c \in Ids, NEW completed \in BOOLEAN, Ending(c, completed)
        PROVE  Conserving
    BY <2>3, EndsPay DEF Ending, IInv
  <2>4. Conserving \/ Mined
    BY <2>3, StepKinds
  <2>5. CASE Conserving
    BY <2>1, <2>2, <2>5 DEF Conserving
  <2>6. CASE Mined
    BY <2>1, <2>6 DEF Mined
  <2> QED
    BY <2>4, <2>5, <2>6
<1>2. ItemsConserved <=> [][ItemsStay]_vars
  BY DEF ItemsConserved, ItemsStay
<1> QED
  BY <1>1, <1>2, Invariant, PTL DEF Spec

\* A contract ends by SUBMIT or in tickContracts, completed exactly when it is
\* not late, and the items go to its poster and its acceptor wherever they are:
\* by the inventory, or as a debt of the terminal.
THEOREM EndsFairly == Spec => FairSettlement
<1>1. IInv /\ IInv' /\ [Next]_vars => [Settling]_vars
  <2> SUFFICES ASSUME IInv, IInv', [Next]_vars, season' = season,
                      NEW e \in Ids, Live(e), ~Live(e)'
               PROVE  LET completed == Is(e, "COMPLETED")' IN
                      /\ completed = ~Late(e)
                      /\ \A a \in Agents, x \in Items :
                           Owns(a, x)' = Owns(a, x)
                                           + Share(contracts[e], a, completed)[x]
    BY DEF Settling
  <2>1. PICK c \in Ids, done \in BOOLEAN : Ending(c, done)
    BY StepKinds
  <2>2. /\ Live(c) /\ done = ~Late(c)
        /\ done => contracts[c].state = "ACCEPTED"
        /\ contracts' = [contracts EXCEPT ![c].state =
                           IF done THEN "COMPLETED" ELSE "FAILED"]
    BY <2>1 DEF Ending, Ends
  <2>3. c = e
    <3>1. c # e => contracts'[e] = contracts[e]
      BY <2>2 DEF IInv, TypeOK
    <3> QED
      BY <3>1 DEF Live, Is
  <2>4. contracts[e] \in Contract
    BY DEF IInv, TypeOK, Live, Is
  <2>5. done = Is(e, "COMPLETED")'
    <3>1. contracts'[e] = [contracts[e] EXCEPT !.state =
                             IF done THEN "COMPLETED" ELSE "FAILED"]
      BY <2>2, <2>3 DEF IInv, TypeOK
    <3>2. contracts'[e].state = IF done THEN "COMPLETED" ELSE "FAILED"
      BY <2>4, <3>1 DEF Contract
    <3>3. contracts'[e] # None
      <4>1. contracts'[e] \in Contract
        BY <2>4, <3>1 DEF Contract
      <4> QED
        BY <4>1, NoneAssumption
    <3> QED
      BY <3>2, <3>3 DEF Is
  <2> DEFINE k == contracts[e]
             due == IF done THEN Due(k) ELSE Nothing
             payee == IF done THEN k.acceptor ELSE k.poster
  <2>6. \A a \in Agents, x \in Items :
          Owns(a, x)' = Owns(a, x) + (IF a = k.poster THEN due[x] ELSE 0)
                          + (IF a = payee THEN Stakes(k)[x] ELSE 0)
    BY <2>1, <2>3, EndsPay DEF Ending, IInv
  <2>7. ASSUME NEW a \in Agents, NEW x \in Items
        PROVE  /\ Share(k, a, done)[x]
                    = (IF a = k.poster THEN due[x] ELSE 0)
                        + (IF a = payee THEN Stakes(k)[x] ELSE 0)
               /\ due[x] \in Nat /\ Stakes(k)[x] \in Nat
    <3>1. /\ due \in Bundles /\ Stakes(k) \in Bundles
      BY <2>4, ContractBundles, BundleConstants
    <3>2. due[x] \in Nat /\ Stakes(k)[x] \in Nat
      BY <3>1 DEF Bundles
    <3>3. k.state = "OPEN" \/ k.state = "ACCEPTED"
      BY DEF Live, Is
    <3>4. /\ k.state = "OPEN" => k.acceptor = None
          /\ k.state = "ACCEPTED" => k.acceptor \in Agents
      BY DEF Live, Is, IInv, ContractsNumbered
    <3>5. Stakes(k) = IF k.acceptor = None THEN k.reward
                      ELSE Plus(k.reward, k.deposit)
      BY <3>3, <3>4, NoneAssumption DEF Stakes
    <3>6. Asked(k) = Due(k)
      BY <2>4 DEF Asked, Due, Contract
    <3> DEFINE first == IF a # k.poster THEN Nothing
                        ELSE IF done THEN Asked(k) ELSE Stakes(k)
               second == IF done /\ a = k.acceptor THEN Stakes(k) ELSE Nothing
    <3>7. Share(k, a, done) = Plus(first, second)
      BY <3>5 DEF Share
    <3>8. Share(k, a, done)[x] = first[x] + second[x]
      BY <3>7 DEF Plus
    <3>9. CASE done
      <4>1. first[x] = IF a = k.poster THEN due[x] ELSE 0
        BY <3>6, <3>9 DEF Nothing
      <4>2. second[x] = IF a = payee THEN Stakes(k)[x] ELSE 0
        BY <3>9 DEF Nothing
      <4> QED
        BY <3>2, <3>8, <4>1, <4>2
    <3>10. CASE ~done
      <4>1. first[x] = IF a = payee THEN Stakes(k)[x] ELSE 0
        BY <3>10 DEF Nothing
      <4>2. second[x] = 0 /\ due[x] = 0
        BY <3>10 DEF Nothing
      <4> QED
        BY <3>2, <3>8, <4>1, <4>2
    <3> QED
      BY <3>2, <3>9, <3>10
  <2>8. \A a \in Agents, x \in Items :
          Owns(a, x)' = Owns(a, x) + Share(k, a, done)[x]
    <3> SUFFICES ASSUME NEW a \in Agents, NEW x \in Items
                 PROVE  Owns(a, x)' = Owns(a, x) + Share(k, a, done)[x]
      OBVIOUS
    <3>1. Owns(a, x) \in Nat
      <4>1. /\ inventory[a][x] \in Nat
            /\ owed \in [Terminals -> [Agents -> Bundles]]
        BY DEF IInv, TypeOK, Bundles
      <4>2. OwedTo(owed, a, x) \in Nat
        BY <4>1, OwedToType
      <4> QED
        BY <4>1, <4>2, WealthIsOwned DEF Wealth
    <3> DEFINE own == Owns(a, x)
               next == Owns(a, x)'
               m == IF a = k.poster THEN due[x] ELSE 0
               n == IF a = payee THEN Stakes(k)[x] ELSE 0
    <3>2. next = own + m + n
      BY <2>6
    <3>3. Share(k, a, done)[x] = m + n /\ m \in Nat /\ n \in Nat
      BY <2>7
    <3> HIDE DEF own, m, n, next
    <3>4. next = own + (m + n)
      BY <3>1, <3>2, <3>3 DEF own
    <3> QED
      BY <3>3, <3>4 DEF own, next
  <2> QED
    BY <2>2, <2>3, <2>5, <2>8
<1>2. FairSettlement <=> [][Settling]_vars
  BY DEF FairSettlement, Settling
<1> QED
  BY <1>1, <1>2, Invariant, PTL DEF Spec
=============================================================================
