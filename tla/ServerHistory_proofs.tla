------------------------ MODULE ServerHistory_proofs ------------------------
(***************************************************************************)
(* Proofs about ServerHistory: a world enters each of its seasons exactly  *)
(* once, an archived season stays over, a snapshot taken at any moment     *)
(* restores the world it was taken of, and a log replays from a complete   *)
(* snapshot of its run, for any inputs, periods, season lengths, crashes   *)
(* and restarts.                                                           *)
(*                                                                         *)
(* The inputs of a tick and the entries of a replay are applied by         *)
(* recursive functions.  That these exist, and what they keep, is shown by *)
(* a least counterexample.                                                 *)
(***************************************************************************)
EXTENDS ServerHistory, SequenceTheorems, WellFoundedInduction, TLAPS

\* The counter of ids is past those in use.
Counted(w) == w \in Worlds /\ w.ids \subseteq 1..w.next

\* What the inputs of a tick leave alone.
SameClock(v, w) ==
  v.tick = w.tick /\ v.seed = w.seed /\ v.length = w.length /\ v.chunks = w.chunks

\* The least number principle.
LEMMA Least ==
  ASSUME NEW T \in SUBSET Nat, T # {}
  PROVE  \E x \in T : \A y \in T : x <= y
<1>1. PICK x \in T : \A y \in T : ~(<<y, x>> \in OpToRel(<, Nat))
  BY NatLessThanWellFounded, WFMin
<1>2. \A y \in T : ~(y < x)
  BY <1>1, Zenon DEF OpToRel
<1> QED
  BY <1>2

\* f applies the first m inputs to w, one by one.
Folds(f, m, w, inputs) ==
  f = [n \in 0..m |-> IF n = 0 THEN w ELSE Apply(f[n - 1], inputs[n])]

LEMMA FoldExists ==
  ASSUME NEW w, NEW inputs, NEW m \in Nat
  PROVE  \E f : Folds(f, m, w, inputs)
<1> DEFINE T == {n \in Nat : ~\E f : Folds(f, n, w, inputs)}
<1>1. SUFFICES ASSUME T # {} PROVE FALSE
  OBVIOUS
<1>2. PICK n \in T : \A k \in T : n <= k
  <2> HIDE DEF T
  <2>1. T \in SUBSET Nat
    BY DEF T
  <2> QED
    BY <1>1, <2>1, Least
<1>3. n \in Nat /\ ~\E f : Folds(f, n, w, inputs)
  OBVIOUS
<1>4. CASE n = 0
  <2> DEFINE f == [k \in 0..0 |-> w]
  <2>1. f = [k \in 0..0 |-> IF k = 0 THEN w ELSE Apply(f[k - 1], inputs[k])]
    OBVIOUS
  <2>2. Folds(f, 0, w, inputs)
    BY <2>1 DEF Folds
  <2> QED
    BY <2>2, <1>3, <1>4
<1>5. CASE n # 0
  <2>1. n - 1 \in Nat /\ n - 1 \notin T
    BY <1>2, <1>3, <1>5
  <2>2. PICK g : Folds(g, n - 1, w, inputs)
    BY <2>1
  <2> DEFINE f == [k \in 0..n |-> IF k = n THEN Apply(g[n - 1], inputs[n]) ELSE g[k]]
  <2>3. ASSUME NEW k \in 0..n
        PROVE  f[k] = IF k = 0 THEN w ELSE Apply(f[k - 1], inputs[k])
    <3>1. CASE k = n
      <4>1. n - 1 \in 0..n /\ n - 1 # n
        BY <1>3, <1>5
      <4>2. f[n - 1] = g[n - 1]
        BY <4>1
      <4> QED
        BY <3>1, <4>2, <1>5
    <3>2. CASE k # n
      <4>1. k \in 0..n - 1
        BY <3>2, <1>3
      <4>2. g[k] = IF k = 0 THEN w ELSE Apply(g[k - 1], inputs[k])
        BY <2>2, <4>1 DEF Folds
      <4>3. k # 0 => k - 1 \in 0..n /\ k - 1 # n
        BY <4>1, <1>3
      <4>4. k # 0 => f[k - 1] = g[k - 1]
        BY <4>3
      <4> QED
        BY <3>2, <4>2, <4>4
    <3> QED
      BY <3>1, <3>2
  <2>4. f = [k \in 0..n |-> IF k = 0 THEN w ELSE Apply(f[k - 1], inputs[k])]
    BY <2>3
  <2>5. Folds(f, n, w, inputs)
    BY <2>4 DEF Folds
  <2> QED
    BY <2>5, <1>3
<1> QED
  BY <1>4, <1>5

LEMMA Applied ==
  ASSUME NEW w, NEW inputs \in Seq(Inputs)
  PROVE  \E f : Folds(f, Len(inputs), w, inputs) /\ ApplyAll(w, inputs) = f[Len(inputs)]
<1> DEFINE f == CHOOSE f : f = [n \in 0..Len(inputs) |->
                                  IF n = 0 THEN w ELSE Apply(f[n - 1], inputs[n])]
<1>1. ApplyAll(w, inputs) = f[Len(inputs)]
  BY DEF ApplyAll
<1>2. \E g : g = [n \in 0..Len(inputs) |->
                                  IF n = 0 THEN w ELSE Apply(g[n - 1], inputs[n])]
  <2>1. Len(inputs) \in Nat
    BY LenProperties
  <2>2. \E g : Folds(g, Len(inputs), w, inputs)
    BY <2>1, FoldExists
  <2> QED
    BY <2>2 DEF Folds
<1>3. f = [n \in 0..Len(inputs) |->
                                  IF n = 0 THEN w ELSE Apply(f[n - 1], inputs[n])]
  BY <1>2
<1> QED
  BY <1>1, <1>3 DEF Folds

-----------------------------------------------------------------------------
(* The inputs of a tick                                                    *)

LEMMA FieldTypes ==
  /\ ClaimFields \subseteq Fields /\ LawFields \subseteq Fields /\ OrgFields \subseteq Fields
  /\ ContainerFields \subseteq Fields /\ SignFields \subseteq Fields
  /\ ConveyorFields \subseteq Fields /\ SwitchFields \subseteq Fields
  /\ ContractFields \subseteq Fields /\ TradeFields \subseteq Fields
  /\ BoardFields \subseteq Fields /\ StructureFields \subseteq Fields
  /\ AgentFields \subseteq Fields /\ StatsFields \subseteq Fields
  /\ HeaderFields \subseteq Fields
  BY DEF Fields

LEMMA PartTypes ==
  /\ \A S \in SUBSET {"id", "name", "org", "world", "cooldown", "body",
       "spent", "reputation", "shunned", "fun", "seen", "decay", "inventory",
       "memory", "rates", "move", "work"} : Of("agents", S) \subseteq Fields
  /\ \A S \in SUBSET {"entry", "treasury"} : Of("orgs", S) \subseteq Fields
  /\ Of("header", {"event"}) \subseteq Fields
<1>1. \A S \in SUBSET {"id", "name", "org", "world", "cooldown", "body",
       "spent", "reputation", "shunned", "fun", "seen", "decay", "inventory",
       "memory", "rates", "move", "work"} : Of("agents", S) \subseteq AgentFields
  BY DEF AgentFields, Of
<1>2. \A S \in SUBSET {"entry", "treasury"} : Of("orgs", S) \subseteq OrgFields
  BY DEF OrgFields, Of
<1>3. Of("header", {"event"}) \subseteq HeaderFields
  BY DEF HeaderFields, Of
<1> QED
  BY <1>1, <1>2, <1>3, FieldTypes

\* What inputs do to a world: the clock stays, the ids are counted.
Keeps(v, w) == Counted(v) /\ SameClock(v, w)

LEMMA TouchKeeps ==
  ASSUME NEW w, Counted(w), NEW fs \in SUBSET Fields
  PROVE  Keeps(Touch(w, fs), w)
<1>1. Touch(w, fs) = [w EXCEPT !.fields = w.fields \cup fs]
  BY DEF Touch
<1> QED
  BY <1>1 DEF Keeps, Counted, SameClock, Worlds

LEMMA NewIdKeeps ==
  ASSUME NEW w, Counted(w)
  PROVE  Keeps(NewId(w), w)
<1>1. NewId(w) = [w EXCEPT !.next = w.next + 1, !.ids = w.ids \cup {w.next + 1}]
  BY DEF NewId
<1>2. w.next \in Nat /\ w.ids \subseteq 1..w.next
  BY DEF Counted, Worlds
<1>3. w.ids \cup {w.next + 1} \subseteq 1..(w.next + 1)
  BY <1>2
<1>4. w.ids \cup {w.next + 1} \in SUBSET Nat /\ w.next + 1 \in Nat
  BY <1>2, <1>3
<1>5. w \in Worlds
  BY DEF Counted
<1>6. /\ NewId(w) \in Worlds /\ SameClock(NewId(w), w)
      /\ NewId(w).next = w.next + 1 /\ NewId(w).ids = w.ids \cup {w.next + 1}
  BY <1>1, <1>4, <1>5 DEF SameClock, Worlds
<1> QED
  BY <1>3, <1>6 DEF Keeps, Counted

LEMMA KeepsThen ==
  ASSUME NEW u, NEW v, NEW w, Keeps(u, v), Keeps(v, w)
  PROVE  Keeps(u, w)
  BY DEF Keeps, SameClock

LEMMA InputKeeps ==
  ASSUME NEW w, Counted(w), NEW i \in Inputs
  PROVE  Keeps(Apply(w, i), w)
<1>0. Keeps(w, w)
  BY DEF Keeps, SameClock
<1>1. CASE i = "join"
  <2>1. Apply(w, i) = Touch(w, Of("agents", {"id", "name", "world"}))
    BY <1>1 DEF Apply
  <2> QED
    BY <2>1, TouchKeeps, PartTypes
<1>2. CASE i # "join" /\ ~Has(w, "agents")
  BY <1>0, <1>2 DEF Apply
<1> DEFINE Acts(x) == i = x /\ Has(w, "agents")
<1>3. CASE Acts("live")
  <2>1. Apply(w, i) = Touch(w, Of("agents", {"body", "fun", "seen", "decay", "inventory", "memory",
                                "reputation", "move", "work"}) \cup StatsFields)
    BY <1>3 DEF Apply
  <2> QED
    BY <2>1, TouchKeeps, PartTypes, FieldTypes
<1>4. CASE Acts("land")
  <2>1. Apply(w, i) = Touch(w, ClaimFields \cup LawFields)
    BY <1>4 DEF Apply
  <2> QED
    BY <2>1, TouchKeeps, FieldTypes
<1>5. CASE Acts("build")
  <2>1. Apply(w, i) = Touch(w, UNION {ContainerFields, SignFields, ConveyorFields,
                                          SwitchFields, StructureFields})
    BY <1>5 DEF Apply
  <2>2. UNION {ContainerFields, SignFields, ConveyorFields,
                                          SwitchFields, StructureFields} \subseteq Fields
    BY FieldTypes
  <2> QED
    BY <2>1, <2>2, TouchKeeps
<1>6. CASE Acts("offer")
  <2>1. Apply(w, i) = NewId(Touch(w, TradeFields \cup ContractFields))
    BY <1>6 DEF Apply
  <2>2. Keeps(Touch(w, TradeFields \cup ContractFields), w)
    BY TouchKeeps, FieldTypes
  <2> QED
    BY <2>1, <2>2, NewIdKeeps, KeepsThen DEF Keeps
<1>7. CASE Acts("decline")
  <2>1. Apply(w, i) = [w EXCEPT !.ids = w.ids \ {Greatest(w.ids)}, !.fields = w.fields \ TradeFields]
    BY <1>7 DEF Apply
  <2> QED
    BY <2>1 DEF Keeps, Counted, SameClock, Worlds
<1>8. CASE Acts("post")
  <2>1. Apply(w, i) = IF <<"agents", "rates">> \in w.fields THEN w
                      ELSE NewId(Touch(w, BoardFields \cup Of("agents", {"rates"})))
    BY <1>8 DEF Apply
  <2>2. Keeps(Touch(w, BoardFields \cup Of("agents", {"rates"})), w)
    BY TouchKeeps, FieldTypes, PartTypes
  <2> QED
    BY <1>0, <2>1, <2>2, NewIdKeeps, KeepsThen DEF Keeps
<1>9. CASE Acts("drop")
  <2> DEFINE v == [w EXCEPT !.items = w.items \cup {w.tick + ItemLife}]
  <2>1. Apply(w, i) = NewId(v)
    BY <1>9 DEF Apply
  <2>2. w.tick + ItemLife \in Nat
    BY BoundsAssumption DEF Counted, Worlds
  <2>3. Keeps(v, w)
    BY <2>2 DEF Keeps, Counted, SameClock, Worlds
  <2> HIDE DEF v
  <2> QED
    BY <2>1, <2>3, NewIdKeeps, KeepsThen DEF Keeps
<1>10. CASE Acts("org")
  <2>1. Apply(w, i) = Touch(w, (OrgFields \ Of("orgs", {"entry", "treasury"})) \cup Of("agents", {"org"}))
    BY <1>10 DEF Apply
  <2> QED
    BY <2>1, TouchKeeps, PartTypes, FieldTypes
<1>11. CASE Acts("deposit")
  <2>1. Apply(w, i) = IF Has(w, "orgs") THEN Touch(w, Of("orgs", {"entry", "treasury"})) ELSE w
    BY <1>11 DEF Apply
  <2> QED
    BY <1>0, <2>1, TouchKeeps, PartTypes
<1>12. CASE Acts("withdraw")
  <2>1. Apply(w, i) = [w EXCEPT !.fields = w.fields \ Of("orgs", {"treasury"})]
    BY <1>12 DEF Apply
  <2> QED
    BY <2>1 DEF Keeps, Counted, SameClock, Worlds
<1>13. CASE Acts("starve")
  <2>1. Apply(w, i) = Touch(w, Of("agents", {"spent", "shunned"}))
    BY <1>13 DEF Apply
  <2> QED
    BY <2>1, TouchKeeps, PartTypes
<1>14. CASE Acts("eat")
  <2>1. Apply(w, i) = [w EXCEPT !.fields = w.fields \ Of("agents", {"spent"})]
    BY <1>14 DEF Apply
  <2> QED
    BY <2>1 DEF Keeps, Counted, SameClock, Worlds
<1> QED
  BY <1>1, <1>2, <1>3, <1>4, <1>5, <1>6, <1>7, <1>8, <1>9, <1>10, <1>11, <1>12, <1>13, <1>14
     DEF Inputs

LEMMA InputsKeep ==
  ASSUME NEW w, Counted(w), NEW inputs \in Seq(Inputs)
  PROVE  Keeps(ApplyAll(w, inputs), w)
<1>1. PICK f : Folds(f, Len(inputs), w, inputs) /\ ApplyAll(w, inputs) = f[Len(inputs)]
  BY Applied
<1> DEFINE T == {n \in 0..Len(inputs) : ~Keeps(f[n], w)}
<1>2. SUFFICES ASSUME T # {} PROVE FALSE
  BY <1>1, LenProperties
<1>3. PICK n \in T : \A k \in T : n <= k
  <2>1. T \in SUBSET Nat
    OBVIOUS
  <2> HIDE DEF T
  <2> QED
    BY <1>2, <2>1, Least
<1>4. n \in 0..Len(inputs) /\ ~Keeps(f[n], w)
  OBVIOUS
<1>5. f[n] = IF n = 0 THEN w ELSE Apply(f[n - 1], inputs[n])
  BY <1>1, <1>4 DEF Folds
<1>6. n # 0
  BY <1>4, <1>5 DEF Keeps, SameClock
<1>7. n - 1 \in 0..Len(inputs) /\ n \in 1..Len(inputs) /\ n - 1 \notin T
  BY <1>3, <1>4, <1>6
<1>8. Keeps(f[n - 1], w)
  BY <1>7
<1>9. Keeps(Apply(f[n - 1], inputs[n]), f[n - 1])
  BY <1>7, <1>8, InputKeeps, ElementOfSeq DEF Keeps
<1> QED
  BY <1>4, <1>5, <1>6, <1>8, <1>9, KeepsThen

-----------------------------------------------------------------------------
(* The seasons of a clock                                                  *)

LEMMA Division ==
  ASSUME NEW n \in Nat, NEW l \in Nat \ {0}
  PROVE  n = l * (n \div l) + (n % l) /\ n % l \in 0..l - 1 /\ n \div l \in Nat
  OBVIOUS

\* Quotient and remainder are unique.
LEMMA Divided ==
  ASSUME NEW n \in Nat, NEW l \in Nat \ {0}, NEW q \in Nat, NEW r \in 0..l - 1,
         n = l * q + r
  PROVE  n \div l = q /\ n % l = r
<1> DEFINE p == n \div l
           s == n % l
<1>1. n = l * p + s /\ s \in 0..l - 1 /\ p \in Nat
  BY Division
<1>2. CASE p < q
  <2>1. PICK d \in Nat : q = p + 1 + d
    <3> HIDE DEF p, s
    <3> QED
      BY <1>1, <1>2
  <2>2. l * q = l * p + l + l * d
    <3> HIDE DEF p, s
    <3> QED
      BY <2>1, <1>1
  <2>3. l * d \in Nat
    BY <2>1
  <2> HIDE DEF p, s
  <2> QED
    BY <2>2, <2>3, <1>1
<1>3. CASE p > q
  <2>1. PICK d \in Nat : p = q + 1 + d
    <3> HIDE DEF p, s
    <3> QED
      BY <1>1, <1>3
  <2>2. l * p = l * q + l + l * d
    <3> HIDE DEF p, s
    <3> QED
      BY <2>1, <1>1
  <2>3. l * d \in Nat
    BY <2>1
  <2> HIDE DEF p, s
  <2> QED
    BY <2>2, <2>3, <1>1
<1>4. CASE p = q
  BY <1>4, <1>1
<1> QED
  BY <1>1, <1>2, <1>3, <1>4

\* One tick further is one season further when the tick ends one.
LEMMA NextSeason ==
  ASSUME NEW n \in Nat \ {0}, NEW l \in Nat \ {0}
  PROVE  n \div l = (n - 1) \div l + (IF n % l = 0 THEN 1 ELSE 0)
<1>1. PICK q \in Nat, r \in 0..l - 1 :
        q = (n - 1) \div l /\ n - 1 = l * q + r
  BY Division
<1>2. CASE r = l - 1
  <2>1. n = l * (q + 1) + 0
    BY <1>1, <1>2
  <2>2. q + 1 \in Nat /\ 0 \in 0..l - 1
    OBVIOUS
  <2>3. n \div l = q + 1 /\ n % l = 0
    BY <2>1, <2>2, Divided
  <2> QED
    BY <1>1, <2>3
<1>3. CASE r # l - 1
  <2>1. n = l * q + (r + 1) /\ r + 1 \in 0..l - 1
    BY <1>1, <1>3
  <2>2. n \div l = q /\ n % l = r + 1
    BY <2>1, Divided
  <2> QED
    BY <1>1, <2>2
<1> QED
  BY <1>2, <1>3

\* The season a world is in, by its clock.
Seasoned(w) == w.seed = IF w.tick = 0 THEN 0 ELSE (w.tick - 1) \div w.length

WorldOK(w) == Counted(w) /\ w.length > 0 /\ w.tick <= MaxTick /\ Seasoned(w)

-----------------------------------------------------------------------------
(* A tick                                                                  *)

LEMMA RolloverCounts ==
  ASSUME NEW w, Counted(w)
  PROVE  /\ Counted(Rollover(w))
         /\ Rollover(w).tick = w.tick /\ Rollover(w).length = w.length
         /\ Rollover(w).seed = w.seed + (IF SeasonEnds(w) THEN 1 ELSE 0)
<1>0. w \in Worlds /\ w.seed \in Nat
  BY DEF Counted, Worlds
<1>1. CASE ~SeasonEnds(w)
  BY <1>0, <1>1 DEF Rollover
<1>2. CASE SeasonEnds(w)
  <2>1. Rollover(w) =
          [w EXCEPT !.seed = w.seed + 1, !.chunks = {}, !.items = {}, !.ids = {},
                    !.fields = (w.fields \cap KeptAgentFields) \cup KeptOrgFields(w.fields)]
    BY <1>2 DEF Rollover, ResetWorld
  <2>2. KeptOrgFields(w.fields) \subseteq Fields
    BY <1>0, PartTypes DEF KeptOrgFields, Worlds
  <2>3. (w.fields \cap KeptAgentFields) \cup KeptOrgFields(w.fields) \in SUBSET Fields
    BY <1>0, <2>2 DEF Worlds
  <2>4. w.seed + 1 \in Nat /\ {} \subseteq 1..w.next /\ {} \in SUBSET Chunks /\ {} \in SUBSET Nat
    BY <1>0
  <2>5. Rollover(w) \in Worlds
    BY <1>0, <2>1, <2>3, <2>4 DEF Worlds
  <2>6. /\ Rollover(w).tick = w.tick /\ Rollover(w).length = w.length
        /\ Rollover(w).seed = w.seed + 1
        /\ Rollover(w).ids = {}
    BY <1>0, <2>1 DEF Worlds
  <2> QED
    BY <1>2, <2>5, <2>6 DEF Counted
<1> QED
  BY <1>1, <1>2

LEMMA CleanupKeeps ==
  ASSUME NEW w, Counted(w)
  PROVE  Keeps(Cleanup(w), w)
<1>0. Keeps(w, w)
  BY DEF Keeps, SameClock
<1>1. CASE w.tick % CleanupEvery = 0
  <2>1. Cleanup(w) = [w EXCEPT !.items = {e \in w.items : w.tick < e}]
    BY <1>1 DEF Cleanup
  <2> QED
    BY <2>1 DEF Keeps, Counted, SameClock, Worlds
<1>2. CASE ~(w.tick % CleanupEvery = 0)
  BY <1>0, <1>2 DEF Cleanup
<1> QED
  BY <1>1, <1>2

LEMMA DirectKeeps ==
  ASSUME NEW w, Counted(w)
  PROVE  Keeps(Direct(w), w)
<1>0. Keeps(w, w)
  BY DEF Keeps, SameClock
<1> DEFINE acts == w.tick # 0 /\ w.tick % DirectorEvery = 0 /\ <<"stats", "seen">> \in w.fields
           fs == (w.fields \cup Of("header", {"event"}))
                              \ ({"signs", "conveyors", "switches"} \X {"block"})
<1>1. Direct(w) = IF acts THEN [w EXCEPT !.fields = fs] ELSE w
  BY DEF Direct
<1>2. fs \in SUBSET Fields
  BY PartTypes DEF Counted, Worlds
<1> HIDE DEF acts, fs
<1>3. Keeps([w EXCEPT !.fields = fs], w)
  BY <1>2 DEF Keeps, Counted, SameClock, Worlds
<1> QED
  BY <1>0, <1>1, <1>3

\* Observations change the loaded chunks alone, and without connections nothing.
Seen(v, w) ==
  Counted(v) /\ v.tick = w.tick /\ v.seed = w.seed /\ v.length = w.length

LEMMA ObserveKeeps ==
  ASSUME NEW w, Counted(w), NEW connected
  PROVE  /\ Seen(Observe(w, connected), w)
         /\ ~connected => Observe(w, connected) = w
<1>0. Seen(w, w)
  BY DEF Seen
<1>1. Seen([w EXCEPT !.chunks = Chunks], w)
  BY DEF Seen, Counted, Worlds
<1> QED
  BY <1>0, <1>1 DEF Observe

LEMMA StepCounts ==
  ASSUME NEW w, Counted(w), NEW inputs \in Seq(Inputs), NEW connected
  PROVE  /\ Counted(Step(w, inputs, connected))
         /\ Step(w, inputs, connected).tick = w.tick + 1
         /\ Step(w, inputs, connected).length = w.length
         /\ Step(w, inputs, connected).seed = w.seed + (IF SeasonEnds(w) THEN 1 ELSE 0)
         /\ ~connected /\ ~SeasonEnds(w) => Step(w, inputs, connected).chunks = w.chunks
<1> DEFINE begun == Rollover(w)
           acted == ApplyAll(begun, inputs)
           cleaned == Cleanup(acted)
           directed == Direct(cleaned)
           done == Observe(directed, connected)
<1>1. /\ Counted(begun) /\ begun.tick = w.tick /\ begun.length = w.length
      /\ begun.seed = w.seed + (IF SeasonEnds(w) THEN 1 ELSE 0)
      /\ ~SeasonEnds(w) => begun = w
  BY RolloverCounts DEF Rollover
<1>2. Keeps(acted, begun)
  <2> HIDE DEF begun
  <2> QED
    BY <1>1, InputsKeep
<1>3. Keeps(cleaned, acted)
  <2> HIDE DEF acted
  <2> QED
    BY <1>2, CleanupKeeps DEF Keeps
<1>4. Keeps(directed, cleaned)
  <2> HIDE DEF cleaned
  <2> QED
    BY <1>3, DirectKeeps DEF Keeps
<1>5. Seen(done, directed) /\ (~connected => done = directed)
  <2> HIDE DEF directed
  <2> QED
    BY <1>4, ObserveKeeps DEF Keeps
<1>6. Step(w, inputs, connected) = [done EXCEPT !.tick = done.tick + 1]
  BY DEF Step
<1> HIDE DEF begun, acted, cleaned, directed, done
<1>7. /\ Seen(done, begun)
      /\ ~connected => done.chunks = begun.chunks
  BY <1>2, <1>3, <1>4, <1>5 DEF Keeps, SameClock, Seen
<1>8. done.tick = w.tick /\ done.tick + 1 \in Nat /\ done \in Worlds
  BY <1>1, <1>7 DEF Seen, Counted, Worlds
<1>9. /\ Counted(Step(w, inputs, connected))
      /\ Step(w, inputs, connected).tick = w.tick + 1
      /\ Step(w, inputs, connected).length = done.length
      /\ Step(w, inputs, connected).seed = done.seed
      /\ Step(w, inputs, connected).chunks = done.chunks
  BY <1>6, <1>7, <1>8 DEF Seen, Counted, Worlds
<1> QED
  BY <1>1, <1>7, <1>9 DEF Seen

\* A tick leaves a world in the season of its clock.
LEMMA StepSound ==
  ASSUME NEW w, WorldOK(w), w.tick < MaxTick, NEW inputs \in Seq(Inputs), NEW connected
  PROVE  WorldOK(Step(w, inputs, connected))
<1> DEFINE v == Step(w, inputs, connected)
<1>1. /\ Counted(v) /\ v.tick = w.tick + 1 /\ v.length = w.length
      /\ v.seed = w.seed + (IF SeasonEnds(w) THEN 1 ELSE 0)
  BY StepCounts DEF WorldOK
<1>2. w.tick \in Nat /\ w.length \in Nat \ {0} /\ w.seed \in Nat
  BY DEF WorldOK, Counted, Worlds
<1>3. v.seed = w.tick \div w.length
  <2> HIDE DEF v
  <2>1. CASE w.tick = 0
    <3>1. 0 \div w.length = 0
      <4>1. 0 = w.length * 0 + 0 /\ 0 \in 0..w.length - 1
        BY <1>2
      <4> QED
        BY <4>1, <1>2, Divided
    <3> QED
      BY <1>1, <1>2, <2>1, <3>1 DEF WorldOK, Seasoned, SeasonEnds
  <2>2. CASE w.tick # 0
    <3>1. w.tick \div w.length
            = (w.tick - 1) \div w.length + (IF w.tick % w.length = 0 THEN 1 ELSE 0)
      BY <1>2, <2>2, NextSeason
    <3>2. w.seed = (w.tick - 1) \div w.length
      BY <2>2 DEF WorldOK, Seasoned
    <3>3. SeasonEnds(w) <=> w.tick % w.length = 0
      BY <1>2, <2>2 DEF SeasonEnds
    <3> QED
      BY <1>1, <3>1, <3>2, <3>3
  <2> QED
    BY <2>1, <2>2
<1>4. MaxTick \in Nat
  BY BoundsAssumption
<1> HIDE DEF v
<1>5. Seasoned(v)
  <2>1. v.tick # 0 /\ v.tick - 1 = w.tick
    BY <1>1, <1>2
  <2> QED
    BY <1>1, <1>3, <2>1 DEF Seasoned
<1>6. v.length > 0 /\ v.tick <= MaxTick
  BY <1>1, <1>2, <1>4
<1>7. WorldOK(v)
  BY <1>1, <1>5, <1>6 DEF WorldOK
<1> QED
  BY <1>7 DEF v

-----------------------------------------------------------------------------
(* Snapshots                                                               *)

\* What a snapshot of a running world is.
SnapOK(s) ==
  /\ s \in Snapshots /\ s.tick < MaxTick
  /\ s.length > 0 /\ s.ids \subseteq 1..s.next
  /\ s.seed = s.tick \div s.length

\* The greatest of some bounded numbers is one of them.
LEMMA GreatestOf ==
  ASSUME NEW n \in Nat, NEW S \in SUBSET (0..n), S # {}
  PROVE  Greatest(S) \in S /\ \A m \in S : m <= Greatest(S)
<1> DEFINE T == {n - m : m \in S}
<1>1. PICK x \in T : \A y \in T : x <= y
  <2>0. \A m \in S : m \in 0..n
    OBVIOUS
  <2>1. \A m \in S : n - m \in Nat
    BY <2>0
  <2>2. T \in SUBSET Nat
    BY <2>1
  <2>3. T # {}
    OBVIOUS
  <2> HIDE DEF T
  <2> QED
    BY <2>2, <2>3, Least
<1>2. PICK m \in S : x = n - m
  OBVIOUS
<1>3. \A k \in S : m <= k \/ k <= m
  OBVIOUS
<1>4. \A k \in S : k <= m
  <2>1. \A k \in S : n - m <= n - k
    BY <1>1, <1>2
  <2> QED
    BY <2>1
<1> QED
  BY <1>4 DEF Greatest

\* The counters of a snapshot are restored.
LEMMA CountersRestored ==
  ASSUME NEW s, s.next \in Nat, s.ids \subseteq 1..s.next
  PROVE  ImportCounters(s) = s.next
<1>1. Greatest(s.ids) \in 0..s.next
  <2>1. CASE s.ids = {}
    <3>1. Greatest(s.ids) = 0
      BY <2>1 DEF Greatest
    <3> QED
      BY <3>1
  <2>2. CASE s.ids # {}
    <3>1. s.ids \in SUBSET (0..s.next)
      OBVIOUS
    <3>2. Greatest(s.ids) \in s.ids
      BY <2>2, <3>1, GreatestOf
    <3> QED
      BY <3>1, <3>2
  <2> QED
    BY <2>1, <2>2
<1>2. \A g \in 0..s.next : Larger(g, s.next) = s.next
  BY DEF Larger
<1> QED
  BY <1>1, <1>2 DEF ImportCounters

LEMMA ExportSound ==
  ASSUME NEW w, WorldOK(w), w.tick > 0
  PROVE  /\ SnapOK(Export(w, w.tick - 1))
         /\ Export(w, w.tick - 1).tick = w.tick - 1
<1> DEFINE s == Export(w, w.tick - 1)
           fs == s.fields
<1>0. /\ w \in Worlds /\ w.ids \subseteq 1..w.next
      /\ w.tick \in Nat /\ w.tick <= MaxTick /\ MaxTick \in Nat
      /\ w.length \in Nat /\ w.length > 0 /\ w.seed \in Nat
  BY BoundsAssumption DEF WorldOK, Counted, Worlds
<1>1. /\ s.tick = w.tick - 1 /\ s.seed = w.seed /\ s.length = w.length
      /\ s.ids = w.ids /\ s.next = w.next
  BY DEF Export
<1>2. fs \in SUBSET Fields
  <2>1. w.fields \subseteq Fields
    BY <1>0 DEF Worlds
  <2>2. fs \subseteq w.fields
    BY DEF Export, ExportClaims, ExportLaws, ExportOrgs, ExportContainers, ExportSigns,
           ExportConveyors, ExportSwitches, ExportContracts, ExportTrades, ExportBoards,
           ExportStructures, ExportAgents, ExportStats
  <2> QED
    BY <2>1, <2>2
<1>3. ExportItems(w.tick - 1, w.items) \in SUBSET Nat
  BY <1>0 DEF ExportItems, Worlds
<1>4. ExportChunks(w) \in [loaded : SUBSET Chunks,
             blocks : SUBSET ({"signs", "conveyors", "switches"} \X {"block"})]
  BY <1>0 DEF ExportChunks, Worlds
<1>5. w.tick - 1 \in Ticks /\ w.tick - 1 < MaxTick
  BY <1>0 DEF Ticks
<1>6. s \in Snapshots
  <2>1. /\ w.ids \in SUBSET Nat /\ w.next \in Nat
    BY <1>0 DEF Worlds
  <2>2. s = [tick |-> w.tick - 1, seed |-> w.seed, length |-> w.length, ids |-> w.ids,
             next |-> w.next, chunks |-> ExportChunks(w),
             items |-> ExportItems(w.tick - 1, w.items), fields |-> fs]
    BY DEF Export
  <2> HIDE DEF s, fs
  <2> QED
    BY <1>0, <1>2, <1>3, <1>4, <1>5, <2>1, <2>2 DEF Snapshots
<1>7. w.seed = (w.tick - 1) \div w.length
  BY <1>0 DEF WorldOK, Seasoned
<1> HIDE DEF s
<1>8. SnapOK(s)
  BY <1>0, <1>1, <1>5, <1>6, <1>7 DEF SnapOK
<1> QED
  BY <1>1, <1>8 DEF s

LEMMA ImportSound ==
  ASSUME NEW s, SnapOK(s), NEW length
  PROVE  /\ WorldOK(Import(s, length))
         /\ Import(s, length).tick = s.tick + 1
<1> DEFINE w == Import(s, length)
           fs == w.fields
<1>0. /\ s.tick \in Nat /\ s.tick < MaxTick /\ s.seed \in Nat /\ s.length \in Nat /\ s.length > 0
      /\ s.ids \in SUBSET Nat /\ s.next \in Nat /\ s.items \in SUBSET Nat
      /\ s.fields \subseteq Fields /\ s.ids \subseteq 1..s.next /\ MaxTick \in Nat
      /\ s.chunks.loaded \in SUBSET Chunks
      /\ s.chunks.blocks \subseteq {"signs", "conveyors", "switches"} \X {"block"}
  BY BoundsAssumption DEF SnapOK, Snapshots, Ticks
<1>1. ImportConfig(s, length) = s.length /\ ImportCounters(s) = s.next
  BY <1>0, CountersRestored DEF ImportConfig
<1>2. fs \in SUBSET Fields
  <2>1. {"signs", "conveyors", "switches"} \X {"block"} \subseteq
          SignFields \cup ConveyorFields \cup SwitchFields
    BY DEF SignFields, ConveyorFields, SwitchFields, Of
  <2>2. fs \subseteq s.chunks.blocks \cup s.fields
    BY DEF Import, ImportHeader, ImportClaims, ImportLaws, ImportOrgs, ImportContainers,
           ImportSigns, ImportConveyors, ImportSwitches, ImportContracts, ImportTrades,
           ImportBoards, ImportStructures, ImportAgents, ImportStats
  <2> QED
    BY <1>0, <2>1, <2>2, FieldTypes
<1>3. ImportItems(s) \in SUBSET Nat
  BY <1>0 DEF ImportItems
<1>4. w = [tick |-> s.tick + 1, seed |-> s.seed, length |-> s.length,
           chunks |-> s.chunks.loaded, items |-> ImportItems(s),
           ids |-> s.ids, next |-> s.next, fields |-> fs]
  BY <1>1 DEF Import
<1> HIDE DEF w, fs
<1>5. w \in Worlds
  BY <1>0, <1>2, <1>3, <1>4 DEF Worlds
<1>6. /\ w.tick = s.tick + 1 /\ w.seed = s.seed /\ w.length = s.length
      /\ w.ids = s.ids /\ w.next = s.next
  BY <1>4
<1>7. w.tick <= MaxTick /\ w.tick # 0 /\ w.tick - 1 = s.tick
  BY <1>0, <1>6
<1>8. Seasoned(w)
  BY <1>6, <1>7 DEF Seasoned, SnapOK
<1>9. WorldOK(w)
  BY <1>0, <1>5, <1>6, <1>7, <1>8 DEF WorldOK, Counted
<1> QED
  BY <1>6, <1>9 DEF w

LEMMA FreshSound ==
  ASSUME NEW length \in Tunings
  PROVE  WorldOK(Fresh(0, length))
<1>1. length \in Nat /\ length > 0 /\ MaxTick \in Nat
  BY TuningsAssumption, BoundsAssumption
<1>2. Fresh(0, length) \in Worlds
  BY <1>1 DEF Fresh, Worlds
<1> QED
  BY <1>1, <1>2 DEF Fresh, WorldOK, Counted, Seasoned

-----------------------------------------------------------------------------
(* The inductive invariant                                                 *)

\* A server that runs has been started, and its world is sound; one that is
\* down has nothing to write.
Running ==
  /\ Up => run >= 1 /\ WorldOK(world)
  /\ ~Up => sink = <<>>

\* Snapshots are sound wherever they are kept.
Taken ==
  /\ \A i \in 1..Len(sink) : SnapOK(sink[i])
  /\ writer # None => SnapOK(writer)
  /\ \A t \in Ticks : Whole(t) => SnapOK(files[t].snap) /\ files[t].snap.tick = t

\* The world is past every snapshot that was taken, torn files included.
Past ==
  Up => /\ \A i \in 1..Len(sink) : sink[i].tick < world.tick
        /\ \A t \in Ticks : files[t] # None => t < world.tick

\* A snapshot that was archived has a file.
Filed == \A a \in archive : files[a.tick] # None

IInv == TypeOK /\ Running /\ Taken /\ Past /\ Filed

-----------------------------------------------------------------------------
(* Steps                                                                   *)

LEMMA InitIInv == Init => IInv
<1> SUFFICES ASSUME Init PROVE IInv
  OBVIOUS
<1>1. ~Up /\ world = None /\ sink = <<>> /\ writer = None /\ archive = {} /\ ended = {}
  BY DEF Init, Up
<1>2. files \in [Ticks -> File \cup {Torn, None}] /\ \A t \in Ticks : files[t] = None
  BY DEF Init
<1>3. <<>> \in Seq(Snapshots) /\ Len(<<>>) = 0
  BY EmptySeq
<1>4. TypeOK
  <2>1. run \in 0..MaxRuns /\ given \in 0..MaxBatches
    BY BoundsAssumption DEF Init
  <2>2. sink \in Seq(Snapshots) /\ Len(sink) <= SinkCap
    BY <1>1, <1>3 DEF SinkCap
  <2>3. \A t \in Ticks : ~Whole(t)
    BY <1>2 DEF Whole
  <2>4. tuned \in Tunings /\ broken \in BOOLEAN
    BY DEF Init
  <2> QED
    BY <1>1, <1>2, <2>1, <2>2, <2>3, <2>4 DEF TypeOK
<1> QED
  BY <1>1, <1>2, <1>3, <1>4 DEF IInv, Running, Taken, Past, Filed, Whole

\* A snapshot of the files, as a start takes it.
LEMMA LatestFile ==
  ASSUME TypeOK, LatestSnapshot # None
  PROVE  /\ LatestSnapshot \in Ticks
         /\ \A t \in Ticks : files[t] # None => t <= LatestSnapshot
<1> DEFINE there == {t \in Ticks : files[t] # None}
<1>1. LatestSnapshot = IF there = {} THEN None ELSE Greatest(there)
  BY DEF LatestSnapshot
<1>2. there # {}
  BY <1>1
<1>3. MaxTick \in Nat /\ there \in SUBSET (0..MaxTick)
  BY BoundsAssumption DEF Ticks
<1>4. Greatest(there) \in there /\ \A m \in there : m <= Greatest(there)
  <2> HIDE DEF there
  <2> QED
    BY <1>2, <1>3, GreatestOf
<1> QED
  BY <1>1, <1>2, <1>4

LEMMA NothingThere ==
  ASSUME LatestSnapshot = None
  PROVE  \A t \in Ticks : files[t] = None
<1> DEFINE there == {t \in Ticks : files[t] # None}
<1>1. LatestSnapshot = IF there = {} THEN None ELSE Greatest(there)
  BY DEF LatestSnapshot
<1>2. SUFFICES ASSUME there # {} PROVE FALSE
  OBVIOUS
<1>3. MaxTick \in Nat /\ there \in SUBSET (0..MaxTick)
  BY BoundsAssumption DEF Ticks
<1>4. Greatest(there) \in there
  <2> HIDE DEF there
  <2> QED
    BY <1>2, <1>3, GreatestOf
<1> QED
  BY <1>1, <1>2, <1>4, NoneAssumption

LEMMA StartStep ==
  ASSUME IInv, Start
  PROVE  IInv'
<1>0. /\ TypeOK /\ Running /\ Taken /\ Past /\ Filed
      /\ UNCHANGED <<tuned, sink, writer, files, archive, log, given, broken, ended>>
      /\ ~Up /\ run < MaxRuns /\ run' = run + 1 /\ sink = <<>> /\ writer = None
      /\ run \in Nat /\ MaxRuns \in Nat
  BY BoundsAssumption DEF IInv, Start, Running, TypeOK
<1>1. WorldOK(world') /\ \A t \in Ticks : files[t] # None => t < world'.tick
  <2>1. CASE LatestSnapshot = None
    <3>1. world' = Fresh(0, tuned) /\ tuned \in Tunings
      BY <1>0, <2>1 DEF Start, TypeOK
    <3> QED
      BY <2>1, <3>1, FreshSound, NothingThere
  <2>2. CASE LatestSnapshot # None
    <3>1. PICK t : t = LatestSnapshot
      OBVIOUS
    <3>2. t \in Ticks /\ \A u \in Ticks : files[u] # None => u <= t
      BY <1>0, <2>2, <3>1, LatestFile
    <3>3. Whole(t) /\ world' = Import(files[t].snap, tuned)
      BY <2>2, <3>1 DEF Start
    <3>4. SnapOK(files[t].snap) /\ files[t].snap.tick = t
      BY <1>0, <3>2, <3>3 DEF Taken
    <3>5. WorldOK(world') /\ world'.tick = t + 1
      BY <3>3, <3>4, ImportSound
    <3>6. \A u \in Ticks : u \in Nat
      BY BoundsAssumption DEF Ticks
    <3> QED
      BY <3>2, <3>5, <3>6
  <2> QED
    BY <2>1, <2>2
<1>2. world' \in Worlds /\ Up'
  BY <1>1, NoneAssumption DEF WorldOK, Counted, Up
<1>3. \A t \in Ticks : Whole(t)' <=> Whole(t)
  BY <1>0 DEF Whole
<1>4. \A t \in Ticks : Whole(t) => files[t].run \in 1..run'
  <2>1. \A t \in Ticks : Whole(t) => files[t].run \in 1..run
    BY <1>0 DEF TypeOK
  <2> QED
    BY <1>0, <2>1
<1>5. run' \in 0..MaxRuns /\ run' >= 1
  BY <1>0
<1>6. TypeOK'
  BY <1>0, <1>2, <1>3, <1>4, <1>5 DEF TypeOK
<1>7. Running'
  BY <1>0, <1>1, <1>2, <1>5 DEF Running
<1>8. Taken'
  BY <1>0, <1>3 DEF Taken
<1>9. Past'
  BY <1>0, <1>1 DEF Past
<1>10. Filed'
  BY <1>0 DEF Filed
<1> QED
  BY <1>6, <1>7, <1>8, <1>9, <1>10 DEF IInv

LEMMA TuneStep ==
  ASSUME IInv, Tune
  PROVE  IInv'
<1>0. /\ TypeOK /\ Running /\ Taken /\ Past /\ Filed /\ tuned' \in Tunings
      /\ UNCHANGED <<world, run, sink, writer, files, archive, log, given, broken, ended>>
  BY DEF IInv, Tune
<1>1. TypeOK'
  BY <1>0 DEF TypeOK, Whole, Up
<1> QED
  BY <1>0, <1>1 DEF IInv, Running, Taken, Past, Filed, Whole, Up

LEMMA CrashStep ==
  ASSUME IInv, Crash
  PROVE  IInv'
<1>0. /\ TypeOK /\ Running /\ Taken /\ Past /\ Filed
      /\ UNCHANGED <<run, tuned, files, archive, given, broken, ended>>
      /\ world' = None /\ sink' = <<>> /\ writer' = None
  BY DEF IInv, Crash
<1>1. <<>> \in Seq(Snapshots) /\ Len(<<>>) = 0 /\ ~Up'
  BY <1>0, EmptySeq DEF Up
<1>2. TypeOK'
  BY <1>0, <1>1 DEF TypeOK, Whole, SinkCap
<1>3. Taken'
  BY <1>0, <1>1 DEF Taken, Whole
<1> QED
  BY <1>0, <1>1, <1>2, <1>3 DEF IInv, Running, Past, Filed

\* Taking one snapshot more.
LEMMA SinkGrows ==
  ASSUME NEW q \in Seq(Snapshots), NEW s \in Snapshots, NEW n,
         \A i \in 1..Len(q) : SnapOK(q[i]) /\ q[i].tick < n,
         SnapOK(s), s.tick < n
  PROVE  /\ Append(q, s) \in Seq(Snapshots) /\ Len(Append(q, s)) = Len(q) + 1
         /\ \A i \in 1..Len(Append(q, s)) :
              SnapOK(Append(q, s)[i]) /\ Append(q, s)[i].tick < n
<1>1. /\ Append(q, s) \in Seq(Snapshots) /\ Len(Append(q, s)) = Len(q) + 1
      /\ \A i \in 1..Len(q) : Append(q, s)[i] = q[i]
      /\ Append(q, s)[Len(q) + 1] = s
      /\ Len(q) \in Nat
  BY AppendProperties, LenProperties
<1>2. \A i \in 1..Len(q) + 1 : i \in 1..Len(q) \/ i = Len(q) + 1
  BY <1>1
<1> QED
  BY <1>1, <1>2

\* The snapshots of a channel, and its length.
Queue(q, n) ==
  /\ q \in Seq(Snapshots) /\ Len(q) <= SinkCap
  /\ \A i \in 1..Len(q) : SnapOK(q[i]) /\ q[i].tick < n

LEMMA OfferKeeps ==
  ASSUME NEW q, NEW s, NEW n, Queue(q, n), SnapOK(s), s.tick < n
  PROVE  Queue(Offer(q, s), n) /\ (SinkReady(q) => Queue(OfferSeason(q, s), n))
<1>1. s \in Snapshots
  BY DEF SnapOK
<1>2. Len(q) \in Nat /\ (Len(q) < SinkCap => Len(q) + 1 <= SinkCap)
  BY LenProperties DEF Queue, SinkCap
<1>3. Len(q) < SinkCap => Queue(Append(q, s), n)
  BY <1>1, <1>2, SinkGrows DEF Queue
<1> QED
  BY <1>3 DEF Offer, OfferSeason, SinkReady

LEMMA TickStep ==
  ASSUME IInv, Tick
  PROVE  IInv'
<1>0. /\ TypeOK /\ Running /\ Taken /\ Past /\ Filed
      /\ Up /\ world.tick < MaxTick /\ (SeasonEnds(world) => SinkReady(sink))
      /\ UNCHANGED <<run, tuned, writer, files, archive, broken>>
      /\ run \in 1..MaxRuns
      /\ ended' = IF SeasonEnds(world)
                  THEN ended \cup {[season |-> world.tick \div world.length, run |-> run]}
                  ELSE ended
  BY BoundsAssumption DEF IInv, Tick, Running, TypeOK
<1>1. PICK inputs \in Batches \cup {<<>>}, admin \in BOOLEAN :
        LET next == Step(world, inputs, TRUE)
            s1 == IF SeasonEnds(world) THEN OfferSeason(sink, Export(world, world.tick - 1))
                                       ELSE sink
            s2 == OfferPeriodic(s1, next)
        IN
        /\ given' = given + (IF inputs = <<>> THEN 0 ELSE 1) + (IF admin THEN 1 ELSE 0)
        /\ given' <= MaxBatches
        /\ world' = next
        /\ sink' = IF admin THEN Offer(s2, Export(next, next.tick - 1)) ELSE s2
  BY DEF Tick
<1> DEFINE next == Step(world, inputs, TRUE)
           s1 == IF SeasonEnds(world) THEN OfferSeason(sink, Export(world, world.tick - 1))
                                      ELSE sink
           s2 == OfferPeriodic(s1, next)
<1>2. WorldOK(world) /\ world.tick \in Nat /\ world.length \in Nat \ {0}
  BY <1>0 DEF Running, WorldOK, Counted, Worlds
<1>3. inputs \in Seq(Inputs)
  BY BatchesAssumption, EmptySeq
<1>4. WorldOK(next) /\ next.tick = world.tick + 1
  BY <1>0, <1>2, <1>3, StepSound, StepCounts DEF WorldOK
<1> HIDE DEF next
<1>5. Queue(sink, next.tick)
  <2>1. \A i \in 1..Len(sink) : sink[i].tick \in Nat
    BY <1>0, BoundsAssumption DEF Taken, SnapOK, Snapshots, Ticks
  <2> QED
    BY <1>0, <1>2, <1>4, <2>1 DEF Queue, TypeOK, Taken, Past
<1>6. Queue(s1, next.tick)
  <2>1. CASE SeasonEnds(world)
    <3>1. world.tick > 0
      BY <1>2, <2>1 DEF SeasonEnds
    <3>2. SnapOK(Export(world, world.tick - 1))
          /\ Export(world, world.tick - 1).tick < next.tick
      BY <1>2, <1>4, <3>1, ExportSound
    <3> QED
      BY <1>0, <1>5, <2>1, <3>2, OfferKeeps
  <2> QED
    BY <1>5, <2>1
<1>7. SnapOK(Export(next, next.tick - 1)) /\ Export(next, next.tick - 1).tick < next.tick
  BY <1>2, <1>4, ExportSound
<1> HIDE DEF s1
<1>8. Queue(s2, next.tick)
  BY <1>6, <1>7, OfferKeeps DEF OfferPeriodic
<1> HIDE DEF s2
<1>9. world' = next /\ Queue(sink', next.tick)
  <2>1. world' = next /\ sink' = IF admin THEN Offer(s2, Export(next, next.tick - 1)) ELSE s2
    BY <1>1 DEF next, s1, s2
  <2> QED
    BY <1>7, <1>8, <2>1, OfferKeeps
<1>10. given' \in 0..MaxBatches
  <2>1. given \in Nat /\ MaxBatches \in Nat
    BY <1>0, BoundsAssumption DEF TypeOK
  <2> QED
    BY <1>1, <2>1
<1>11. world' \in Worlds /\ Up'
  BY <1>4, <1>9, NoneAssumption DEF WorldOK, Counted, Up
<1>12. ended' \subseteq [season : Nat, run : 1..MaxRuns]
  <2>1. world.tick \div world.length \in Nat
    BY <1>2, Division
  <2>2. ended \subseteq [season : Nat, run : 1..MaxRuns]
    BY <1>0 DEF TypeOK
  <2> QED
    BY <1>0, <2>1, <2>2
<1>13. \A t \in Ticks : Whole(t)' <=> Whole(t)
  BY <1>0 DEF Whole
<1>14. TypeOK'
  BY <1>0, <1>9, <1>10, <1>11, <1>12, <1>13 DEF TypeOK, Queue
<1>15. Running'
  BY <1>0, <1>4, <1>9, <1>11 DEF Running
<1>16. Taken'
  BY <1>0, <1>9, <1>13 DEF Taken, Queue
<1>17. Past'
  <2>1. \A t \in Ticks : files[t] # None => t < next.tick
    <3>1. \A t \in Ticks : t \in Nat
      BY BoundsAssumption DEF Ticks
    <3> QED
      BY <1>0, <1>2, <1>4, <3>1 DEF Past
  <2> QED
    BY <1>0, <1>9, <2>1 DEF Past, Queue
<1>18. Filed'
  BY <1>0 DEF Filed
<1> QED
  BY <1>14, <1>15, <1>16, <1>17, <1>18 DEF IInv

LEMMA OpenStep ==
  ASSUME IInv, OpenFile
  PROVE  IInv'
<1>0. /\ TypeOK /\ Running /\ Taken /\ Past /\ Filed
      /\ UNCHANGED <<world, run, tuned, archive, log, given, broken, ended>>
      /\ Up /\ writer = None /\ sink # <<>> /\ sink \in Seq(Snapshots)
      /\ writer' = Head(sink) /\ sink' = Tail(sink)
      /\ files' = [files EXCEPT ![Head(sink).tick] = Torn]
  BY DEF IInv, OpenFile, TypeOK
<1>1. /\ Head(sink) = sink[1] /\ 1 \in 1..Len(sink)
      /\ Tail(sink) \in Seq(Snapshots) /\ Len(Tail(sink)) = Len(sink) - 1
      /\ \A i \in 1..Len(Tail(sink)) : Tail(sink)[i] = sink[i + 1] /\ i + 1 \in 1..Len(sink)
      /\ Len(sink) \in Nat
  <2>1. Len(sink) \in Nat \ {0}
    BY <1>0, EmptySeq
  <2>2. /\ Tail(sink) \in Seq(Snapshots) /\ Len(Tail(sink)) = Len(sink) - 1
        /\ \A i \in 1..Len(Tail(sink)) : Tail(sink)[i] = sink[i + 1]
    BY <1>0, HeadTailProperties
  <2>3. Head(sink) = sink[1]
    BY <1>0
  <2> QED
    BY <2>1, <2>2, <2>3
<1>2. PICK s : s = Head(sink)
  OBVIOUS
<1>3. SnapOK(s) /\ s \in Snapshots /\ s.tick \in Ticks /\ s.tick < world.tick /\ s # None
  <2>1. SnapOK(s) /\ s.tick < world.tick
    BY <1>0, <1>1, <1>2 DEF Taken, Past
  <2>2. s \in Snapshots
    BY <2>1 DEF SnapOK
  <2>3. s # None
    BY <2>2, NoneAssumption
  <2>4. s.tick \in Ticks
    BY <2>2 DEF Snapshots
  <2> QED
    BY <2>1, <2>2, <2>3, <2>4
<1>4. files' = [files EXCEPT ![s.tick] = Torn] /\ files \in [Ticks -> File \cup {Torn, None}]
  BY <1>0, <1>2 DEF TypeOK
<1>5. /\ files' \in [Ticks -> File \cup {Torn, None}]
      /\ files'[s.tick] = Torn
      /\ \A t \in Ticks : t # s.tick => files'[t] = files[t]
  BY <1>3, <1>4
<1>6. \A t \in Ticks : Whole(t)' => Whole(t) /\ files'[t] = files[t]
  BY <1>5 DEF Whole
<1>7. TypeOK'
  <2>1. Len(sink') <= SinkCap /\ sink' \in Seq(Snapshots)
    BY <1>0, <1>1 DEF TypeOK, SinkCap
  <2>2. writer' \in Snapshots \cup {None} /\ Up' /\ files'[writer'.tick] = Torn
    BY <1>0, <1>2, <1>3, <1>5 DEF Up
  <2> QED
    BY <1>0, <1>5, <1>6, <2>1, <2>2 DEF TypeOK
<1>8. Running'
  BY <1>0 DEF Running, Up
<1>9. Taken'
  <2>1. \A i \in 1..Len(sink') : SnapOK(sink'[i])
    BY <1>0, <1>1 DEF Taken
  <2>2. SnapOK(writer')
    BY <1>0, <1>2, <1>3
  <2> QED
    BY <1>0, <1>6, <2>1, <2>2 DEF Taken
<1>10. Past'
  <2>1. \A i \in 1..Len(sink') : sink'[i].tick < world.tick
    BY <1>0, <1>1 DEF Past
  <2>2. \A t \in Ticks : files'[t] # None => t < world.tick
    BY <1>0, <1>3, <1>5 DEF Past
  <2> QED
    BY <1>0, <2>1, <2>2 DEF Past
<1>11. Filed'
  <2>1. Torn # None
    BY NoneAssumption
  <2>2. \A a \in archive : a.tick \in Ticks
    BY <1>0 DEF TypeOK
  <2> QED
    BY <1>0, <1>5, <2>1, <2>2 DEF Filed
<1> QED
  BY <1>7, <1>8, <1>9, <1>10, <1>11 DEF IInv

LEMMA CloseStep ==
  ASSUME IInv, CloseFile
  PROVE  IInv'
<1>0. /\ TypeOK /\ Running /\ Taken /\ Past /\ Filed
      /\ UNCHANGED <<world, run, tuned, sink, log, given, ended>>
      /\ writer # None /\ writer' = None /\ archive' \subseteq archive \cup Archived(writer)
      /\ broken' \in BOOLEAN
      /\ files' = [files EXCEPT ![writer.tick] =
                 [torn |-> FALSE, tick |-> writer.tick, run |-> run, snap |-> writer]]
      /\ Up /\ files[writer.tick] = Torn /\ files \in [Ticks -> File \cup {Torn, None}]
      /\ run \in 1..MaxRuns
  <2>1. TypeOK /\ Running /\ Taken /\ Past /\ Filed
    BY DEF IInv
  <2>2. /\ UNCHANGED <<world, run, tuned, sink, log, given, ended>>
        /\ writer # None /\ writer' = None
        /\ files' = [files EXCEPT ![writer.tick] =
                   [torn |-> FALSE, tick |-> writer.tick, run |-> run, snap |-> writer]]
    BY DEF CloseFile
  <2>3. archive' \subseteq archive \cup Archived(writer)
    BY DEF CloseFile
  <2>4. broken \in BOOLEAN /\ files \in [Ticks -> File \cup {Torn, None}]
        /\ Up /\ files[writer.tick] = Torn
    BY <2>1, <2>2 DEF TypeOK
  <2>5. broken' \in BOOLEAN
    BY <2>4, Zenon DEF CloseFile
  <2>6. run \in 1..MaxRuns
    BY <2>1, <2>4, BoundsAssumption DEF TypeOK, Running
  <2> QED
    BY <2>1, <2>2, <2>3, <2>4, <2>5, <2>6
<1>1. PICK s : s = writer
  OBVIOUS
<1>2. SnapOK(s) /\ s \in Snapshots /\ s.tick \in Ticks /\ s.tick \in Nat
      /\ s.length \in Nat \ {0}
  BY <1>0, <1>1, BoundsAssumption DEF Taken, SnapOK, Snapshots, Ticks
<1>3. PICK f : f = [torn |-> FALSE, tick |-> s.tick, run |-> run, snap |-> s]
  OBVIOUS
<1>4. /\ f \in File /\ f # None /\ f # Torn
      /\ f.tick = s.tick /\ f.run = run /\ f.snap = s
  <2>1. f \in File
    BY <1>0, <1>2, <1>3 DEF File
  <2>2. f.torn = FALSE /\ Torn.torn = TRUE
    BY <1>3 DEF Torn
  <2> QED
    BY <1>3, <2>1, <2>2, NoneAssumption
<1>5. /\ files' \in [Ticks -> File \cup {Torn, None}]
      /\ files'[s.tick] = f
      /\ \A t \in Ticks : t # s.tick => files'[t] = files[t]
  BY <1>0, <1>1, <1>2, <1>3, <1>4
<1>6. \A t \in Ticks : t # s.tick => (Whole(t)' <=> Whole(t))
  BY <1>5 DEF Whole
<1>7. archive' \subseteq [season : Nat, tick : Ticks]
      /\ \A a \in archive' : a \in archive \/ a.tick = s.tick
  <2>0. s.tick + 1 \in Nat
    BY <1>2
  <2>1. (s.tick + 1) \div s.length \in Nat
    BY <1>2, <2>0, Division
  <2>2. Archived(s) \subseteq {[season |-> (s.tick + 1) \div s.length, tick |-> s.tick]}
    BY DEF Archived
  <2>3. archive \subseteq [season : Nat, tick : Ticks]
    BY <1>0 DEF TypeOK
  <2> QED
    BY <1>0, <1>1, <1>2, <2>1, <2>2, <2>3
<1>8. TypeOK'
  <2>1. \A t \in Ticks : Whole(t)' => files'[t].tick = t /\ files'[t].run \in 1..run
    <3> SUFFICES ASSUME NEW t \in Ticks, Whole(t)'
                 PROVE  files'[t].tick = t /\ files'[t].run \in 1..run
      OBVIOUS
    <3>1. CASE t = s.tick
      BY <1>0, <1>4, <1>5, <3>1
    <3>2. CASE t # s.tick
      BY <1>0, <1>5, <1>6, <3>2 DEF TypeOK
    <3> QED
      BY <3>1, <3>2
  <2> QED
    BY <1>0, <1>5, <1>7, <2>1 DEF TypeOK
<1>9. Running'
  BY <1>0 DEF Running, Up
<1>10. Taken'
  <2>1. \A t \in Ticks : Whole(t)' => SnapOK(files'[t].snap) /\ files'[t].snap.tick = t
    <3> SUFFICES ASSUME NEW t \in Ticks, Whole(t)'
                 PROVE  SnapOK(files'[t].snap) /\ files'[t].snap.tick = t
      OBVIOUS
    <3>1. CASE t = s.tick
      BY <1>2, <1>4, <1>5, <3>1
    <3>2. CASE t # s.tick
      BY <1>0, <1>5, <1>6, <3>2 DEF Taken
    <3> QED
      BY <3>1, <3>2
  <2> QED
    BY <1>0, <2>1 DEF Taken
<1>11. Past'
  <2>1. files[s.tick] # None
    BY <1>0, <1>1, NoneAssumption
  <2>2. \A t \in Ticks : files'[t] # None => t < world.tick
    BY <1>0, <1>2, <1>5, <2>1 DEF Past
  <2> QED
    BY <1>0, <2>2 DEF Past
<1>12. Filed'
  <2>1. \A a \in archive : a.tick \in Ticks
    BY <1>0 DEF TypeOK
  <2> QED
    BY <1>0, <1>4, <1>5, <1>7, <2>1 DEF Filed
<1> QED
  BY <1>8, <1>9, <1>10, <1>11, <1>12 DEF IInv

LEMMA FailStep ==
  ASSUME IInv, FailFile
  PROVE  IInv'
<1>0. /\ TypeOK /\ Running /\ Taken /\ Past /\ Filed /\ broken' = TRUE /\ writer' = None
      /\ UNCHANGED <<world, run, tuned, sink, files, archive, log, given, ended>>
  BY DEF IInv, FailFile
<1>1. TypeOK'
  BY <1>0 DEF TypeOK, Whole, Up
<1> QED
  BY <1>0, <1>1 DEF IInv, Running, Taken, Past, Filed, Whole, Up

LEMMA StepIInv == IInv /\ [Next]_vars => IInv'
<1> SUFFICES ASSUME IInv, [Next]_vars PROVE IInv'
  OBVIOUS
<1>1. CASE UNCHANGED vars
  BY <1>1 DEF vars, IInv, TypeOK, Running, Taken, Past, Filed, Whole, Up
<1> QED
  BY <1>1, StartStep, TuneStep, CrashStep, TickStep, OpenStep, CloseStep, FailStep DEF Next

LEMMA AlwaysIInv == Spec => []IInv
  BY InitIInv, StepIInv, PTL DEF Spec

-----------------------------------------------------------------------------
(* Theorems                                                                *)

(* The world, the snapshots on their way to disk, the files, the archive and
   the counters keep their types (ServerHistory). *)
THEOREM HistoryTypeCorrect == Spec => []TypeOK
<1>1. IInv => TypeOK
  BY DEF IInv
<1> QED
  BY <1>1, AlwaysIInv, PTL

(* A world enters each of its seasons exactly once, however often the server
   restarts around the rollover, whichever snapshots are dropped or torn, and
   whatever the tuning file says by then (maybeSeasonRollover). *)
THEOREM SeasonsCounted == Spec => []SeasonOnce
<1>1. IInv => SeasonOnce
  BY DEF IInv, Running, WorldOK, Seasoned, SeasonOnce
<1> QED
  BY <1>1, AlwaysIInv, PTL

(* No restart goes back into a season that was archived: the world is past
   every snapshot that has a file (latestSnapshot). *)
THEOREM SeasonsOver == Spec => []SeasonsStayEnded
<1>1. IInv => SeasonsStayEnded
  <2> SUFFICES ASSUME IInv, Up, NEW a \in archive PROVE world.tick > a.tick
    BY DEF SeasonsStayEnded
  <2>1. a.tick \in Ticks /\ files[a.tick] # None
    BY DEF IInv, TypeOK, Filed
  <2>2. a.tick < world.tick
    BY <2>1 DEF IInv, Past
  <2>3. a.tick \in Nat /\ world.tick \in Nat
    BY <2>1, BoundsAssumption DEF IInv, Running, WorldOK, Counted, Worlds, Ticks
  <2> QED
    BY <2>2, <2>3
<1> QED
  BY <1>1, AlwaysIInv, PTL

-----------------------------------------------------------------------------
(* What a snapshot restores                                                *)

\* The part a field belongs to.
LEMMA PartNames ==
  /\ \A x \in ClaimFields : x[1] = "claims"
  /\ \A x \in LawFields : x[1] = "laws"
  /\ \A x \in OrgFields : x[1] = "orgs"
  /\ \A x \in ContainerFields : x[1] = "containers"
  /\ \A x \in SignFields : x[1] = "signs"
  /\ \A x \in ConveyorFields : x[1] = "conveyors"
  /\ \A x \in SwitchFields : x[1] = "switches"
  /\ \A x \in ContractFields : x[1] = "contracts"
  /\ \A x \in TradeFields : x[1] = "trades"
  /\ \A x \in BoardFields : x[1] = "boards"
  /\ \A x \in StructureFields : x[1] = "structures"
  /\ \A x \in AgentFields : x[1] = "agents"
  /\ \A x \in StatsFields : x[1] = "stats"
  /\ \A x \in HeaderFields : x[1] = "header"
  BY DEF ClaimFields, LawFields, OrgFields, ContainerFields, SignFields, ConveyorFields,
         SwitchFields, ContractFields, TradeFields, BoardFields, StructureFields,
         AgentFields, StatsFields, HeaderFields, Of

\* The parts that are exported whole, and what of them is imported.
WholeParts ==
  UNION {HeaderFields, ClaimFields, LawFields, ContainerFields, ContractFields, TradeFields,
         BoardFields, StructureFields, AgentFields, StatsFields}

KeptParts ==
  UNION {HeaderFields, ClaimFields, LawFields, ContainerFields, ContractFields, TradeFields,
         BoardFields, StructureFields, AgentFields \ Defaulted, StatsFields}

LEMMA DefaultedFields ==
  /\ Defaulted \subseteq AgentFields
  /\ \A x \in Defaulted : x[1] = "agents"
  BY DEF Defaulted, AgentFields, Of

LEMMA KeptKinds ==
  /\ KeptParts \subseteq WholeParts
  /\ \A x \in WholeParts : x \in KeptParts <=> x \notin Defaulted
<1>1. KeptParts \subseteq WholeParts
  BY DEF KeptParts, WholeParts
<1>2. ASSUME NEW x \in WholeParts, x \notin Defaulted
      PROVE  x \in KeptParts
  BY <1>2 DEF KeptParts, WholeParts
<1>3. ASSUME NEW x \in KeptParts
      PROVE  x \notin Defaulted
  <2>1. CASE x \in AgentFields \ Defaulted
    BY <2>1
  <2>2. CASE x \notin AgentFields \ Defaulted
    <3>1. x[1] # "agents"
      BY <1>3, <2>2, PartNames DEF KeptParts
    <3> QED
      BY <3>1, DefaultedFields
  <2> QED
    BY <2>1, <2>2
<1> QED
  BY <1>1, <1>2, <1>3

LEMMA FieldKinds ==
  /\ Fields = UNION {WholeParts, OrgFields, SignFields, ConveyorFields, SwitchFields}
  /\ \A x \in WholeParts : x[1] \notin {"orgs", "signs", "conveyors", "switches"}
<1>1. Fields = UNION {WholeParts, OrgFields, SignFields, ConveyorFields, SwitchFields}
  BY DEF Fields, WholeParts
<1>2. \A x \in WholeParts : x[1] \notin {"orgs", "signs", "conveyors", "switches"}
  <2> SUFFICES ASSUME NEW x \in WholeParts
               PROVE  x[1] \notin {"orgs", "signs", "conveyors", "switches"}
    OBVIOUS
  <2>1. x[1] \in {"header", "claims", "laws", "containers", "contracts", "trades", "boards",
                  "structures", "agents", "stats"}
    BY PartNames DEF WholeParts
  <2> QED
    BY <2>1
<1> QED
  BY <1>1, <1>2

\* The fields of an export, and of an import.
LEMMA ExportedFields ==
  ASSUME NEW w, NEW n
  PROVE  Export(w, n).fields =
           (w.fields \cap WholeParts) \cup ExportOrgs(w.fields) \cup ExportSigns(w.fields)
             \cup ExportConveyors(w.fields) \cup ExportSwitches(w.fields)
  BY DEF Export, ExportClaims, ExportLaws, ExportContainers, ExportContracts, ExportTrades,
         ExportBoards, ExportStructures, ExportAgents, ExportStats, WholeParts

LEMMA ImportedFields ==
  ASSUME NEW s, NEW length
  PROVE  Import(s, length).fields =
           s.chunks.blocks \cup (s.fields \cap KeptParts) \cup ImportOrgs(s)
             \cup ImportSigns(s) \cup ImportConveyors(s) \cup ImportSwitches(s)
  BY DEF Import, ImportHeader, ImportClaims, ImportLaws, ImportContainers, ImportContracts,
         ImportTrades, ImportBoards, ImportStructures, ImportAgents, ImportStats, KeptParts

LEMMA FieldsRestored ==
  ASSUME NEW w \in Worlds, NEW n, NEW length
  PROVE  Import(Export(w, n), length).fields = w.fields \ Lost(w.fields)
<1> DEFINE f == w.fields
           s == Export(w, n)
           back == Import(s, length).fields
           placed == {"signs", "conveyors", "switches"} \X {"block"}
<1>1. s.fields = (f \cap WholeParts) \cup ExportOrgs(f) \cup ExportSigns(f)
                   \cup ExportConveyors(f) \cup ExportSwitches(f)
  BY ExportedFields
<1>2. s.chunks.blocks = f \cap placed
  BY DEF Export, ExportChunks
<1>3. back = s.chunks.blocks \cup (s.fields \cap KeptParts) \cup ImportOrgs(s)
             \cup ImportSigns(s) \cup ImportConveyors(s) \cup ImportSwitches(s)
  BY ImportedFields
<1>4. f \subseteq UNION {WholeParts, OrgFields, SignFields, ConveyorFields, SwitchFields}
  BY FieldKinds DEF Worlds
<1> HIDE DEF s
<1>5. s.fields \subseteq f
  BY <1>1 DEF ExportOrgs, ExportSigns, ExportConveyors, ExportSwitches
<1>6. back \subseteq f
  BY <1>2, <1>3, <1>5 DEF ImportOrgs, ImportSigns, ImportConveyors, ImportSwitches
<1> HIDE DEF back
<1> SUFFICES ASSUME NEW x \in f
             PROVE  x \in back <=> x \notin Lost(f)
  BY <1>6 DEF Lost, s, back
<1>7. CASE x \in WholeParts
  <2>1. x[1] \notin {"orgs", "signs", "conveyors", "switches"}
    BY <1>7, FieldKinds
  <2>2. x \in Lost(f) <=> x \in Defaulted
    <3>1. x \notin Of("orgs", {"entry"})
      BY <2>1 DEF Of
    <3> QED
      BY <2>1, <3>1 DEF Lost
  <2>3. x \notin OrgFields /\ x \notin SignFields /\ x \notin ConveyorFields
        /\ x \notin SwitchFields /\ x \notin placed
    <3>1. \A y \in placed : y[1] \in {"signs", "conveyors", "switches"}
      OBVIOUS
    <3> QED
      BY <2>1, <3>1, PartNames
  <2>4. x \in back <=> x \in s.fields /\ x \in KeptParts
    BY <1>2, <1>3, <2>3 DEF ImportOrgs, ImportSigns, ImportConveyors, ImportSwitches
  <2>5. x \in s.fields
    BY <1>1, <1>7
  <2> QED
    BY <1>7, <2>2, <2>4, <2>5, KeptKinds
<1>8. CASE x \in OrgFields
  <2>1. x[1] = "orgs" /\ x \notin WholeParts /\ x \notin SignFields /\ x \notin ConveyorFields
        /\ x \notin SwitchFields /\ x \notin placed /\ x \notin Defaulted
        /\ x \notin KeptParts
    <3>1. x[1] = "orgs"
      BY <1>8, PartNames
    <3>2. \A y \in placed : y[1] \in {"signs", "conveyors", "switches"}
      OBVIOUS
    <3> QED
      BY <3>1, <3>2, PartNames, FieldKinds, KeptKinds, DefaultedFields
  <2>2. x \in Lost(f) <=> (<<"orgs", "treasury">> \notin f /\ x \in Of("orgs", {"entry"}))
    BY <2>1 DEF Lost
  <2>3. x \in s.fields <=> x \in ExportOrgs(f)
    <3>1. x \notin ExportSigns(f) /\ x \notin ExportConveyors(f) /\ x \notin ExportSwitches(f)
      BY <2>1 DEF ExportSigns, ExportConveyors, ExportSwitches, Of
    <3> QED
      BY <1>1, <2>1, <3>1
  <2>4. x \in back <=> x \in ImportOrgs(s)
    BY <1>2, <1>3, <2>1 DEF ImportSigns, ImportConveyors, ImportSwitches
  <2>5. CASE <<"orgs", "treasury">> \in f
    <3>1. <<"orgs", "treasury">> \in s.fields
      <4>1. <<"orgs", "treasury">> \in OrgFields
        BY DEF OrgFields, Of
      <4> QED
        BY <1>1, <2>5, <4>1 DEF ExportOrgs
    <3>2. x \in ExportOrgs(f)
      BY <1>8, <2>5 DEF ExportOrgs
    <3> QED
      BY <1>8, <2>2, <2>3, <2>4, <2>5, <3>1, <3>2 DEF ImportOrgs
  <2>6. CASE <<"orgs", "treasury">> \notin f
    <3>1. <<"orgs", "treasury">> \notin s.fields
      BY <1>5, <2>6
    <3>2. x \in ExportOrgs(f) <=> x \notin Of("orgs", {"entry"})
      BY <1>8, <2>6 DEF ExportOrgs
    <3> QED
      BY <1>8, <2>2, <2>3, <2>4, <2>6, <3>1, <3>2 DEF ImportOrgs
  <2> QED
    BY <2>5, <2>6
<1>9. CASE x \in SignFields
  <2>1. x[1] = "signs" /\ x \in ({"signs"} \X {"block", "text", "tick", "by"})
    BY <1>9 DEF SignFields, Of
  <2>2. x \in Lost(f) <=> <<"signs", "block">> \notin f
    <3>1. x \notin Of("orgs", {"entry"}) /\ x \notin Defaulted
      BY <2>1, DefaultedFields DEF Of
    <3> QED
      BY <2>1, <3>1 DEF Lost
  <2>3. BlockAt(s, "signs") <=> <<"signs", "block">> \in f
    BY <1>2 DEF BlockAt
  <2>4. CASE x = <<"signs", "block">>
    BY <1>2, <1>3, <2>2, <2>4
  <2>5. CASE x # <<"signs", "block">>
    <3>1. x \in Of("signs", {"text", "tick", "by"}) /\ x \notin placed
      BY <2>1, <2>5 DEF Of
    <3>2. x \in s.fields
      BY <1>1, <3>1 DEF ExportSigns
    <3>3. x \notin KeptParts /\ x \notin OrgFields /\ x \notin ConveyorFields
          /\ x \notin SwitchFields
      BY <2>1, PartNames, FieldKinds, KeptKinds
    <3>4. x \in back <=> x \in ImportSigns(s)
      BY <1>2, <1>3, <3>1, <3>3 DEF ImportOrgs, ImportConveyors, ImportSwitches
    <3> QED
      BY <1>9, <2>2, <2>3, <3>2, <3>4 DEF ImportSigns
  <2> QED
    BY <2>4, <2>5
<1>10. CASE x \in ConveyorFields
  <2>1. x[1] = "conveyors" /\ x \in ({"conveyors"} \X {"block", "dir"})
    BY <1>10 DEF ConveyorFields, Of
  <2>2. x \in Lost(f) <=> <<"conveyors", "block">> \notin f
    <3>1. x \notin Of("orgs", {"entry"}) /\ x \notin Defaulted
      BY <2>1, DefaultedFields DEF Of
    <3> QED
      BY <2>1, <3>1 DEF Lost
  <2>3. BlockAt(s, "conveyors") <=> <<"conveyors", "block">> \in f
    BY <1>2 DEF BlockAt
  <2>4. CASE x = <<"conveyors", "block">>
    BY <1>2, <1>3, <2>2, <2>4
  <2>5. CASE x # <<"conveyors", "block">>
    <3>1. x \in Of("conveyors", {"dir"}) /\ x \notin placed
      BY <2>1, <2>5 DEF Of
    <3>2. x \in s.fields
      BY <1>1, <3>1 DEF ExportConveyors
    <3>3. x \notin KeptParts /\ x \notin OrgFields /\ x \notin SignFields
          /\ x \notin SwitchFields
      BY <2>1, PartNames, FieldKinds, KeptKinds
    <3>4. x \in back <=> x \in ImportConveyors(s)
      BY <1>2, <1>3, <3>1, <3>3 DEF ImportOrgs, ImportSigns, ImportSwitches
    <3> QED
      BY <1>10, <2>2, <2>3, <3>2, <3>4 DEF ImportConveyors
  <2> QED
    BY <2>4, <2>5
<1>11. CASE x \in SwitchFields
  <2>1. x[1] = "switches" /\ x \in ({"switches"} \X {"block", "on"})
    BY <1>11 DEF SwitchFields, Of
  <2>2. x \in Lost(f) <=> <<"switches", "block">> \notin f
    <3>1. x \notin Of("orgs", {"entry"}) /\ x \notin Defaulted
      BY <2>1, DefaultedFields DEF Of
    <3> QED
      BY <2>1, <3>1 DEF Lost
  <2>3. BlockAt(s, "switches") <=> <<"switches", "block">> \in f
    BY <1>2 DEF BlockAt
  <2>4. CASE x = <<"switches", "block">>
    BY <1>2, <1>3, <2>2, <2>4
  <2>5. CASE x # <<"switches", "block">>
    <3>1. x \in Of("switches", {"on"}) /\ x \notin placed
      BY <2>1, <2>5 DEF Of
    <3>2. x \in s.fields
      BY <1>1, <3>1 DEF ExportSwitches
    <3>3. x \notin KeptParts /\ x \notin OrgFields /\ x \notin SignFields
          /\ x \notin ConveyorFields
      BY <2>1, PartNames, FieldKinds, KeptKinds
    <3>4. x \in back <=> x \in ImportSwitches(s)
      BY <1>2, <1>3, <3>1, <3>3 DEF ImportOrgs, ImportSigns, ImportConveyors
    <3> QED
      BY <1>11, <2>2, <2>3, <3>2, <3>4 DEF ImportSwitches
  <2> QED
    BY <2>4, <2>5
<1> QED
  BY <1>4, <1>7, <1>8, <1>9, <1>10, <1>11

\* A sound world comes back from a snapshot of it.
LEMMA Restored ==
  ASSUME NEW w, WorldOK(w), w.tick > 0, NEW length
  PROVE  LET back == Import(Export(w, w.tick - 1), length) IN
         /\ back.fields = w.fields \ Lost(w.fields)
         /\ back.items = {e \in w.items : w.tick - 1 < e}
         /\ [back EXCEPT !.fields = w.fields, !.items = w.items] = w
<1> DEFINE s == Export(w, w.tick - 1)
           back == Import(s, length)
<1>0. /\ w \in Worlds /\ w.ids \subseteq 1..w.next /\ w.next \in Nat
      /\ w.tick \in Nat /\ w.length \in Nat /\ w.length > 0
  BY DEF WorldOK, Counted, Worlds
<1>1. back.fields = w.fields \ Lost(w.fields)
  BY <1>0, FieldsRestored
<1>2. /\ s.tick = w.tick - 1 /\ s.seed = w.seed /\ s.length = w.length
      /\ s.ids = w.ids /\ s.next = w.next /\ s.chunks.loaded = w.chunks
      /\ s.items = {e \in w.items : w.tick - 1 < e}
  BY DEF Export, ExportItems, ExportChunks
<1>3. back = [tick |-> s.tick + 1, seed |-> s.seed, length |-> ImportConfig(s, length),
              chunks |-> s.chunks.loaded, items |-> ImportItems(s),
              ids |-> s.ids, next |-> ImportCounters(s), fields |-> back.fields]
  BY DEF Import
<1> HIDE DEF s, back
<1>4. ImportConfig(s, length) = w.length /\ ImportCounters(s) = w.next
  <2>1. ImportCounters(s) = s.next
    BY <1>0, <1>2, CountersRestored
  <2> QED
    BY <1>0, <1>2, <2>1 DEF ImportConfig
<1>5. ImportItems(s) = {e \in w.items : w.tick - 1 < e}
  BY <1>2 DEF ImportItems
<1>6. s.tick + 1 = w.tick
  BY <1>0, <1>2
<1>7. back.items = {e \in w.items : w.tick - 1 < e}
  BY <1>3, <1>5
<1>8. back \in Worlds
  BY ExportSound, ImportSound DEF WorldOK, Counted, back, s
<1>9. [back EXCEPT !.fields = w.fields, !.items = w.items] = w
  <2>1. /\ back.tick = w.tick /\ back.seed = w.seed /\ back.length = w.length
        /\ back.chunks = w.chunks /\ back.ids = w.ids /\ back.next = w.next
    BY <1>2, <1>3, <1>4, <1>6
  <2> QED
    BY <1>0, <1>8, <2>1 DEF Worlds
<1> QED
  BY <1>1, <1>7, <1>8, <1>9 DEF back, s

(* A snapshot taken at any moment would restore the running world, its clock,
   its counters and what each translation of a part carries over, but for what
   is known to be left out (exportSnapshot, importSnapshotV1). *)
THEOREM RestartsKeep == Spec => []RestoreKeeps
<1>1. IInv => RestoreKeeps
  BY Restored DEF IInv, Running, RestoreKeeps
<1> QED
  BY <1>1, AlwaysIInv, PTL
-----------------------------------------------------------------------------
(* Worlds that differ in their loaded chunks                               *)

Alike(v, w) ==
  /\ v \in Worlds /\ w \in Worlds
  /\ v.tick = w.tick /\ v.seed = w.seed /\ v.length = w.length /\ v.fields = w.fields
  /\ v.items = w.items /\ v.ids = w.ids /\ v.next = w.next

LEMMA TouchAlike ==
  ASSUME NEW v, NEW w, Alike(v, w), NEW fs \in SUBSET Fields
  PROVE  Alike(Touch(v, fs), Touch(w, fs))
<1>1. /\ Touch(v, fs) = [v EXCEPT !.fields = v.fields \cup fs]
      /\ Touch(w, fs) = [w EXCEPT !.fields = w.fields \cup fs]
  BY DEF Touch
<1> QED
  BY <1>1 DEF Alike, Worlds

LEMMA NewIdAlike ==
  ASSUME NEW v, NEW w, Alike(v, w)
  PROVE  Alike(NewId(v), NewId(w))
<1>1. /\ NewId(v) = [v EXCEPT !.next = v.next + 1, !.ids = v.ids \cup {v.next + 1}]
      /\ NewId(w) = [w EXCEPT !.next = w.next + 1, !.ids = w.ids \cup {w.next + 1}]
  BY DEF NewId
<1>2. /\ v \in Worlds /\ w \in Worlds /\ v.ids = w.ids /\ v.next = w.next
      /\ w.next + 1 \in Nat /\ w.ids \cup {w.next + 1} \in SUBSET Nat
  BY DEF Alike, Worlds
<1> DEFINE ids == w.ids \cup {w.next + 1}
           next == w.next + 1
<1>3. /\ NewId(v) = [v EXCEPT !.next = next, !.ids = ids]
      /\ NewId(w) = [w EXCEPT !.next = next, !.ids = ids]
      /\ ids \in SUBSET Nat /\ next \in Nat
  BY <1>1, <1>2
<1> HIDE DEF ids, next
<1> QED
  BY <1>2, <1>3 DEF Alike, Worlds

LEMMA InputAlike ==
  ASSUME NEW v, NEW w, Alike(v, w), NEW i \in Inputs
  PROVE  Alike(Apply(v, i), Apply(w, i))
<1>0. v.fields = w.fields /\ \A p : Has(v, p) <=> Has(w, p)
  BY DEF Alike, Has
<1>1. CASE i = "join"
  <2>1. \A u \in {v, w} : Apply(u, i) = Touch(u, Of("agents", {"id", "name", "world"}))
    BY <1>1 DEF Apply
  <2> QED
    BY <2>1, TouchAlike, PartTypes
<1>2. CASE i # "join" /\ ~Has(w, "agents")
  BY <1>0, <1>2 DEF Apply
<1> DEFINE Acts(x) == i = x /\ Has(w, "agents")
<1>3. CASE Acts("live")
  <2> DEFINE fs == Of("agents", {"body", "fun", "seen", "decay", "inventory", "memory",
                                "reputation", "move", "work"}) \cup StatsFields
  <2>1. \A u \in {v, w} : Apply(u, i) = Touch(u, fs)
    BY <1>0, <1>3 DEF Apply
  <2>2. fs \in SUBSET Fields
    BY PartTypes, FieldTypes
  <2> HIDE DEF fs
  <2> QED
    BY <2>1, <2>2, TouchAlike
<1>4. CASE Acts("land")
  <2>1. \A u \in {v, w} : Apply(u, i) = Touch(u, ClaimFields \cup LawFields)
    BY <1>0, <1>4 DEF Apply
  <2> QED
    BY <2>1, TouchAlike, FieldTypes
<1>5. CASE Acts("build")
  <2> DEFINE fs == UNION {ContainerFields, SignFields, ConveyorFields,
                                          SwitchFields, StructureFields}
  <2>1. \A u \in {v, w} : Apply(u, i) = Touch(u, fs)
    BY <1>0, <1>5 DEF Apply
  <2>2. fs \in SUBSET Fields
    BY FieldTypes
  <2> HIDE DEF fs
  <2> QED
    BY <2>1, <2>2, TouchAlike
<1>6. CASE Acts("offer")
  <2>1. \A u \in {v, w} : Apply(u, i) = NewId(Touch(u, TradeFields \cup ContractFields))
    BY <1>0, <1>6 DEF Apply
  <2>2. Alike(Touch(v, TradeFields \cup ContractFields), Touch(w, TradeFields \cup ContractFields))
    BY TouchAlike, FieldTypes
  <2> QED
    BY <2>1, <2>2, NewIdAlike
<1>7. CASE Acts("decline")
  <2>1. \A u \in {v, w} : Apply(u, i) =
          [u EXCEPT !.ids = u.ids \ {Greatest(u.ids)}, !.fields = u.fields \ TradeFields]
    BY <1>0, <1>7 DEF Apply
  <2> DEFINE ids == w.ids \ {Greatest(w.ids)}
             fs == w.fields \ TradeFields
  <2>2. v \in Worlds /\ w \in Worlds /\ v.ids = w.ids /\ v.fields = w.fields
    BY DEF Alike
  <2>3. \A u \in {v, w} : Apply(u, i) = [u EXCEPT !.ids = ids, !.fields = fs]
    BY <2>1, <2>2
  <2>4. ids \in SUBSET Nat /\ fs \in SUBSET Fields
    BY <2>2 DEF Worlds
  <2> HIDE DEF ids, fs
  <2> QED
    BY <2>2, <2>3, <2>4 DEF Alike, Worlds
<1>8. CASE Acts("post")
  <2>1. \A u \in {v, w} :
          Apply(u, i) = IF <<"agents", "rates">> \in u.fields THEN u
                        ELSE NewId(Touch(u, BoardFields \cup Of("agents", {"rates"})))
    BY <1>0, <1>8 DEF Apply
  <2>2. Alike(Touch(v, BoardFields \cup Of("agents", {"rates"})),
              Touch(w, BoardFields \cup Of("agents", {"rates"})))
    BY TouchAlike, FieldTypes, PartTypes
  <2> QED
    BY <1>0, <2>1, <2>2, NewIdAlike
<1>9. CASE Acts("drop")
  <2> DEFINE Dropped(u) == [u EXCEPT !.items = u.items \cup {u.tick + ItemLife}]
  <2>1. \A u \in {v, w} : Apply(u, i) = NewId(Dropped(u))
    BY <1>0, <1>9 DEF Apply
  <2>2. w.tick + ItemLife \in Nat
    BY BoundsAssumption DEF Alike, Worlds
  <2>3. Alike(Dropped(v), Dropped(w))
    BY <2>2 DEF Alike, Worlds
  <2> HIDE DEF Dropped
  <2> QED
    BY <2>1, <2>3, NewIdAlike
<1>10. CASE Acts("org")
  <2> DEFINE fs == (OrgFields \ Of("orgs", {"entry", "treasury"})) \cup Of("agents", {"org"})
  <2>1. \A u \in {v, w} : Apply(u, i) = Touch(u, fs)
    BY <1>0, <1>10 DEF Apply
  <2>2. fs \in SUBSET Fields
    BY PartTypes, FieldTypes
  <2> HIDE DEF fs
  <2> QED
    BY <2>1, <2>2, TouchAlike
<1>11. CASE Acts("deposit")
  <2>1. \A u \in {v, w} :
          Apply(u, i) = IF Has(w, "orgs") THEN Touch(u, Of("orgs", {"entry", "treasury"})) ELSE u
    BY <1>0, <1>11 DEF Apply
  <2> QED
    BY <2>1, TouchAlike, PartTypes
<1>12. CASE Acts("withdraw")
  <2>1. \A u \in {v, w} : Apply(u, i) = [u EXCEPT !.fields = u.fields \ Of("orgs", {"treasury"})]
    BY <1>0, <1>12 DEF Apply
  <2> QED
    BY <2>1 DEF Alike, Worlds
<1>13. CASE Acts("starve")
  <2>1. \A u \in {v, w} : Apply(u, i) = Touch(u, Of("agents", {"spent", "shunned"}))
    BY <1>0, <1>13 DEF Apply
  <2> QED
    BY <2>1, TouchAlike, PartTypes
<1>14. CASE Acts("eat")
  <2>1. \A u \in {v, w} : Apply(u, i) = [u EXCEPT !.fields = u.fields \ Of("agents", {"spent"})]
    BY <1>0, <1>14 DEF Apply
  <2> QED
    BY <2>1 DEF Alike, Worlds
<1> QED
  BY <1>1, <1>2, <1>3, <1>4, <1>5, <1>6, <1>7, <1>8, <1>9, <1>10, <1>11, <1>12, <1>13, <1>14
     DEF Inputs

LEMMA InputsAlike ==
  ASSUME NEW v, NEW w, Alike(v, w), NEW inputs \in Seq(Inputs)
  PROVE  Alike(ApplyAll(v, inputs), ApplyAll(w, inputs))
<1>1. PICK f : Folds(f, Len(inputs), v, inputs) /\ ApplyAll(v, inputs) = f[Len(inputs)]
  BY Applied
<1>2. PICK g : Folds(g, Len(inputs), w, inputs) /\ ApplyAll(w, inputs) = g[Len(inputs)]
  BY Applied
<1> DEFINE T == {n \in 0..Len(inputs) : ~Alike(f[n], g[n])}
<1>3. SUFFICES ASSUME T # {} PROVE FALSE
  BY <1>1, <1>2, LenProperties
<1>4. PICK n \in T : \A k \in T : n <= k
  <2>1. T \in SUBSET Nat
    OBVIOUS
  <2> HIDE DEF T
  <2> QED
    BY <1>3, <2>1, Least
<1>5. n \in 0..Len(inputs) /\ ~Alike(f[n], g[n])
  OBVIOUS
<1>6. /\ f[n] = IF n = 0 THEN v ELSE Apply(f[n - 1], inputs[n])
      /\ g[n] = IF n = 0 THEN w ELSE Apply(g[n - 1], inputs[n])
  BY <1>1, <1>2, <1>5 DEF Folds
<1>7. n # 0
  BY <1>5, <1>6
<1>8. n - 1 \in 0..Len(inputs) /\ n \in 1..Len(inputs) /\ n - 1 \notin T
  BY <1>4, <1>5, <1>7
<1>9. Alike(f[n - 1], g[n - 1])
  BY <1>8
<1>10. Alike(Apply(f[n - 1], inputs[n]), Apply(g[n - 1], inputs[n]))
  BY <1>8, <1>9, InputAlike, ElementOfSeq
<1> QED
  BY <1>5, <1>6, <1>7, <1>10

LEMMA RolloverAlike ==
  ASSUME NEW v, NEW w, Alike(v, w)
  PROVE  Alike(Rollover(v), Rollover(w))
<1>0. v \in Worlds /\ w \in Worlds /\ v.fields = w.fields /\ (SeasonEnds(v) <=> SeasonEnds(w))
  BY DEF Alike, SeasonEnds
<1>1. CASE ~SeasonEnds(w)
  BY <1>0, <1>1 DEF Rollover
<1>2. CASE SeasonEnds(w)
  <2> DEFINE fs == (w.fields \cap KeptAgentFields) \cup KeptOrgFields(w.fields)
  <2>1. \A u \in {v, w} : Rollover(u) =
          [u EXCEPT !.seed = u.seed + 1, !.chunks = {}, !.items = {}, !.ids = {},
                    !.fields = (u.fields \cap KeptAgentFields) \cup KeptOrgFields(u.fields)]
    BY <1>0, <1>2 DEF Rollover, ResetWorld
  <2>2. \A u \in {v, w} : Rollover(u) =
          [u EXCEPT !.seed = u.seed + 1, !.chunks = {}, !.items = {}, !.ids = {},
                    !.fields = fs]
    BY <1>0, <2>1
  <2>3. KeptOrgFields(w.fields) \subseteq Fields
    BY <1>0, PartTypes DEF KeptOrgFields, Worlds
  <2>4. fs \in SUBSET Fields
    BY <1>0, <2>3 DEF Worlds
  <2>5. w.seed + 1 \in Nat /\ v.seed = w.seed
    BY <1>0 DEF Worlds, Alike
  <2> DEFINE seed == w.seed + 1
  <2>6. \A u \in {v, w} : Rollover(u) =
          [u EXCEPT !.seed = seed, !.chunks = {}, !.items = {}, !.ids = {}, !.fields = fs]
    BY <2>2, <2>5
  <2> HIDE DEF fs, seed
  <2>7. seed \in Nat /\ {} \in SUBSET Chunks /\ {} \in SUBSET Nat
    BY <2>5 DEF seed
  <2>8. ASSUME NEW u \in {v, w}
        PROVE  /\ Rollover(u) \in Worlds
               /\ Rollover(u).tick = u.tick /\ Rollover(u).length = u.length
               /\ Rollover(u).next = u.next /\ Rollover(u).seed = seed
               /\ Rollover(u).items = {} /\ Rollover(u).ids = {} /\ Rollover(u).fields = fs
    <3>1. u \in Worlds
      BY <1>0
    <3>2. Rollover(u) =
            [u EXCEPT !.seed = seed, !.chunks = {}, !.items = {}, !.ids = {}, !.fields = fs]
      BY <2>6
    <3> QED
      BY <2>4, <2>7, <3>1, <3>2 DEF Worlds
  <2> QED
    BY <2>8 DEF Alike
<1> QED
  BY <1>1, <1>2

LEMMA CleanupAlike ==
  ASSUME NEW v, NEW w, Alike(v, w)
  PROVE  Alike(Cleanup(v), Cleanup(w))
<1>1. CASE w.tick % CleanupEvery = 0
  <2>1. \A u \in {v, w} : Cleanup(u) = [u EXCEPT !.items = {e \in u.items : u.tick < e}]
    BY <1>1 DEF Cleanup, Alike
  <2> QED
    BY <2>1 DEF Alike, Worlds
<1>2. CASE ~(w.tick % CleanupEvery = 0)
  BY <1>2 DEF Cleanup, Alike
<1> QED
  BY <1>1, <1>2

LEMMA DirectAlike ==
  ASSUME NEW v, NEW w, Alike(v, w)
  PROVE  Alike(Direct(v), Direct(w))
<1> DEFINE acts == w.tick # 0 /\ w.tick % DirectorEvery = 0 /\ <<"stats", "seen">> \in w.fields
           fs == (w.fields \cup Of("header", {"event"}))
                              \ ({"signs", "conveyors", "switches"} \X {"block"})
<1>1. v.tick = w.tick /\ v.fields = w.fields
  BY DEF Alike
<1>2. \A u \in {v, w} : Direct(u) = IF acts THEN [u EXCEPT !.fields = fs] ELSE u
  BY <1>1 DEF Direct
<1>3. fs \in SUBSET Fields
  BY PartTypes DEF Alike, Worlds
<1> HIDE DEF acts, fs
<1>4. Alike([v EXCEPT !.fields = fs], [w EXCEPT !.fields = fs])
  BY <1>3 DEF Alike, Worlds
<1> QED
  BY <1>2, <1>4

\* Whoever is connected.
LEMMA ObserveAlike ==
  ASSUME NEW v, NEW w, Alike(v, w), NEW c, NEW d
  PROVE  Alike(Observe(v, c), Observe(w, d))
<1>1. \A u \in {v, w} : [u EXCEPT !.chunks = Chunks] \in Worlds
  BY DEF Alike, Worlds
<1> QED
  BY <1>1 DEF Observe, Alike, Worlds

LEMMA StepAlike ==
  ASSUME NEW v, NEW w, Alike(v, w), NEW inputs \in Seq(Inputs), NEW c, NEW d
  PROVE  Alike(Step(v, inputs, c), Step(w, inputs, d))
<1> DEFINE Begun(u) == Rollover(u)
           Acted(u) == ApplyAll(Begun(u), inputs)
           Cleaned(u) == Cleanup(Acted(u))
           Directed(u) == Direct(Cleaned(u))
           Done(u, b) == Observe(Directed(u), b)
<1>1. Alike(Begun(v), Begun(w))
  BY RolloverAlike
<1>2. Alike(Acted(v), Acted(w))
  <2> HIDE DEF Begun
  <2> QED
    BY <1>1, InputsAlike
<1>3. Alike(Cleaned(v), Cleaned(w))
  <2> HIDE DEF Acted
  <2> QED
    BY <1>2, CleanupAlike
<1>4. Alike(Directed(v), Directed(w))
  <2> HIDE DEF Cleaned
  <2> QED
    BY <1>3, DirectAlike
<1>5. Alike(Done(v, c), Done(w, d))
  <2> HIDE DEF Directed
  <2> QED
    BY <1>4, ObserveAlike
<1>6. /\ Step(v, inputs, c) = [Done(v, c) EXCEPT !.tick = Done(v, c).tick + 1]
      /\ Step(w, inputs, d) = [Done(w, d) EXCEPT !.tick = Done(w, d).tick + 1]
  BY DEF Step
<1> HIDE DEF Begun, Acted, Cleaned, Directed, Done
<1>7. Done(w, d).tick + 1 \in Nat
  BY <1>5 DEF Alike, Worlds
<1> QED
  BY <1>5, <1>6, <1>7 DEF Alike, Worlds

\* Their digests have the same content.
LEMMA SameContent ==
  ASSUME NEW v, NEW w, Alike(v, w), NEW n
  PROVE  Content(Digest(v, n)) = Content(Digest(w, n))
<1>1. /\ v.seed = w.seed /\ v.items = w.items /\ v.ids = w.ids /\ v.fields = w.fields
  BY DEF Alike
<1> DEFINE D(u) == Digest(u, n)
<1>2. D(v).chunks.blocks = D(w).chunks.blocks
  BY <1>1 DEF Digest, DigestChunks
<1>3. \A u \in {v, w} : D(u).chunks = [loaded |-> u.chunks, blocks |-> D(w).chunks.blocks]
  BY <1>2 DEF Digest, DigestChunks
<1>4. \A u \in {v, w} : D(u) = [tick |-> n, seed |-> w.seed, items |-> D(w).items, ids |-> w.ids,
                                chunks |-> D(u).chunks, fields |-> D(w).fields]
  BY <1>1 DEF Digest
<1> DEFINE b == D(w).chunks.blocks
           fs == D(w).fields
           is == D(w).items
<1>5. \A u \in {v, w} : Content(D(u)) =
        [tick |-> n, seed |-> w.seed, items |-> is, ids |-> w.ids,
         chunks |-> [loaded |-> {}, blocks |-> b], fields |-> fs]
  <2> SUFFICES ASSUME NEW u \in {v, w}
               PROVE  Content(D(u)) =
        [tick |-> n, seed |-> w.seed, items |-> is, ids |-> w.ids,
         chunks |-> [loaded |-> {}, blocks |-> b], fields |-> fs]
    OBVIOUS
  <2>1. D(u) = [tick |-> n, seed |-> w.seed, items |-> is, ids |-> w.ids,
         chunks |-> [loaded |-> u.chunks, blocks |-> b], fields |-> fs]
    BY <1>3, <1>4
  <2> HIDE DEF D, is, b, fs
  <2> QED
    BY <2>1 DEF Content
<1> QED
  BY <1>5

-----------------------------------------------------------------------------
(* The history behind the log                                              *)

Digests == {Digest(w, n) : w \in Worlds, n \in Nat}
Entry == [run : 1..MaxRuns, tick : Ticks, inputs : Seq(Inputs), digest : Digests]

\* The runs of a log l follow one another, and the ticks of a run.
LogOK(l, r) ==
  /\ l \in Seq(Entry)
  /\ \A i \in 1..Len(l) : l[i].run <= r
  /\ \A i, j \in 1..Len(l) : i < j => /\ l[i].run <= l[j].run
                                      /\ l[i].run = l[j].run => l[i].tick < l[j].tick

\* h[i] is the world after the tick of entry i.
Lived(l, h) ==
  /\ \A i \in 1..Len(l) : /\ WorldOK(h[i]) /\ h[i].tick = l[i].tick + 1
                          /\ l[i].digest = Digest(h[i], l[i].tick)
  /\ \A i \in 2..Len(l) : l[i - 1].run = l[i].run => h[i] = Step(h[i - 1], l[i].inputs, TRUE)

\* The last world of run r is w.
Now(l, h, r, w) == Len(l) > 0 /\ l[Len(l)].run = r => h[Len(l)] = w

\* A snapshot of run q is one of the world of its tick.
Agrees(l, h, s, q) ==
  \A i \in 1..Len(l) : l[i].run = q /\ l[i].tick = s.tick => s = Export(h[i], s.tick)

Shot(h) ==
  /\ \A k \in 1..Len(sink) : Agrees(log, h, sink[k], run)
  /\ writer # None => Agrees(log, h, writer, run)
  /\ \A t \in Ticks : Whole(t) => Agrees(log, h, files[t].snap, files[t].run)

Told(h) == LogOK(log, run) /\ Lived(log, h) /\ (Up => Now(log, h, run, world)) /\ Shot(h)

Logged == \E h : Told(h)

LEMMA EntryTypes ==
  ASSUME NEW l \in Seq(Entry)
  PROVE  /\ Len(l) \in Nat
         /\ \A i \in 1..Len(l) : /\ l[i] \in Entry /\ l[i].run \in Nat /\ l[i].tick \in Nat
                                 /\ l[i].tick \in Ticks /\ l[i].inputs \in Seq(Inputs)
<1>1. \A i \in 1..Len(l) : l[i] \in Entry
  BY ElementOfSeq
<1>2. Len(l) \in Nat
  BY LenProperties
<1>3. MaxTick \in Nat /\ MaxRuns \in Nat
  BY BoundsAssumption
<1>4. \A e \in Entry : /\ e.run \in Nat /\ e.tick \in Ticks /\ e.inputs \in Seq(Inputs)
  BY <1>3 DEF Entry
<1>5. \A t \in Ticks : t \in Nat
  BY <1>3 DEF Ticks
<1> QED
  BY <1>1, <1>2, <1>4, <1>5

\* The entries of the run that goes on are of earlier ticks.
LEMMA EntriesPast ==
  ASSUME NEW l, NEW h, NEW r \in Nat, NEW w, WorldOK(w), LogOK(l, r), Lived(l, h), Now(l, h, r, w),
         NEW i \in 1..Len(l), l[i].run = r
  PROVE  l[i].tick < w.tick /\ (l[i].tick = w.tick - 1 => i = Len(l) /\ h[i] = w)
<1>0. /\ Len(l) \in Nat /\ Len(l) \in 1..Len(l) /\ w.tick \in Nat
      /\ \A k \in 1..Len(l) : l[k].run \in Nat /\ l[k].tick \in Nat
  BY EntryTypes DEF LogOK, WorldOK, Counted, Worlds
<1>1. l[Len(l)].run = r
  <2>1. l[Len(l)].run <= r /\ (i < Len(l) => l[i].run <= l[Len(l)].run)
    BY <1>0 DEF LogOK
  <2> QED
    BY <1>0, <2>1
<1>2. h[Len(l)] = w
  BY <1>0, <1>1 DEF Now
<1>3. l[Len(l)].tick = w.tick - 1
  <2>1. h[Len(l)].tick = l[Len(l)].tick + 1
    BY <1>0 DEF Lived
  <2> QED
    BY <1>0, <1>2, <2>1
<1>4. CASE i = Len(l)
  BY <1>0, <1>2, <1>3, <1>4
<1>5. CASE i < Len(l)
  <2>1. l[i].tick < l[Len(l)].tick
    BY <1>0, <1>1, <1>5 DEF LogOK
  <2> QED
    BY <1>0, <1>3, <2>1
<1> QED
  BY <1>0, <1>4, <1>5

\* The entry of a tick that leaves world v.
Made(e, r, w, inputs, v) ==
  /\ e \in Entry /\ e.run = r /\ e.tick = w.tick /\ e.inputs = inputs
  /\ e.digest = Digest(v, w.tick)

LEMMA EntryMade ==
  ASSUME NEW r \in 1..MaxRuns, NEW w, w.tick \in Nat, w.tick <= MaxTick, NEW inputs \in Seq(Inputs),
         NEW v \in Worlds
  PROVE  Made([run |-> r, tick |-> w.tick, inputs |-> inputs, digest |-> Digest(v, w.tick)],
              r, w, inputs, v)
<1>1. w.tick \in Ticks
  BY BoundsAssumption DEF Ticks
<1>2. PICK d : d = Digest(v, w.tick)
  OBVIOUS
<1>3. d \in Digests
  BY <1>2 DEF Digests
<1>4. PICK e : e = [run |-> r, tick |-> w.tick, inputs |-> inputs, digest |-> d]
  OBVIOUS
<1>5. e \in Entry
  BY <1>1, <1>3, <1>4 DEF Entry
<1>6. /\ e.run = r /\ e.tick = w.tick /\ e.inputs = inputs /\ e.digest = d
  BY <1>4
<1> QED
  BY <1>2, <1>4, <1>5, <1>6 DEF Made

LEMMA LogGrows ==
  ASSUME NEW l, NEW h, NEW r \in 1..MaxRuns, NEW w, WorldOK(w), w.tick < MaxTick,
         LogOK(l, r), Lived(l, h), Now(l, h, r, w), NEW inputs \in Seq(Inputs),
         NEW e, Made(e, r, w, inputs, Step(w, inputs, TRUE))
  PROVE  \E g : /\ LogOK(Append(l, e), r) /\ Lived(Append(l, e), g)
                /\ Now(Append(l, e), g, r, Step(w, inputs, TRUE))
                /\ \A s, q : Agrees(l, h, s, q) /\ s.tick # w.tick => Agrees(Append(l, e), g, s, q)
                /\ Agrees(Append(l, e), g, Export(w, w.tick - 1), r)
                /\ Agrees(Append(l, e), g, Export(Step(w, inputs, TRUE), w.tick), r)
<1> DEFINE n == Len(l)
           m == Append(l, e)
           v == Step(w, inputs, TRUE)
           g == [i \in 1..n + 1 |-> IF i = n + 1 THEN v ELSE h[i]]
<1>0. /\ n \in Nat /\ l \in Seq(Entry) /\ r \in Nat /\ w.tick \in Nat
      /\ \A i \in 1..n : l[i] \in Entry /\ l[i].run \in Nat /\ l[i].tick \in Nat
  BY BoundsAssumption, EntryTypes DEF LogOK, WorldOK, Counted, Worlds
<1>1. WorldOK(v) /\ v.tick = w.tick + 1 /\ v \in Worlds
  BY StepSound, StepCounts DEF WorldOK, Counted
<1> HIDE DEF v
<1>2. /\ e \in Entry /\ e.run = r /\ e.tick = w.tick /\ e.inputs = inputs
      /\ e.digest = Digest(v, w.tick)
  BY DEF Made, v
<1>3. /\ m \in Seq(Entry) /\ Len(m) = n + 1 /\ m[n + 1] = e
      /\ \A i \in 1..n : m[i] = l[i]
  BY <1>0, <1>2, AppendProperties
<1> HIDE DEF m
<1>4. \A i \in 1..n + 1 : i \in 1..n \/ i = n + 1
  BY <1>0
<1>5. g[n + 1] = v /\ \A i \in 1..n : g[i] = h[i]
  BY <1>0
<1> HIDE DEF g
<1>6. \A i \in 1..n : l[i].run = r => l[i].tick < w.tick
  BY <1>0, EntriesPast
<1>7. LogOK(m, r)
  <2>1. \A i \in 1..Len(m) : m[i].run <= r
    BY <1>0, <1>2, <1>3, <1>4 DEF LogOK
  <2>2. ASSUME NEW i \in 1..Len(m), NEW j \in 1..Len(m), i < j
        PROVE  /\ m[i].run <= m[j].run
               /\ m[i].run = m[j].run => m[i].tick < m[j].tick
    <3>1. CASE j = n + 1
      <4>1. i \in 1..n /\ m[i] = l[i] /\ m[j] = e
        BY <1>0, <1>3, <2>2, <3>1
      <4> QED
        BY <1>2, <1>6, <4>1 DEF LogOK
    <3>2. CASE j # n + 1
      <4>1. i \in 1..n /\ j \in 1..n /\ m[i] = l[i] /\ m[j] = l[j]
        BY <1>0, <1>3, <2>2, <3>2
      <4> QED
        BY <2>2, <4>1 DEF LogOK
    <3> QED
      BY <3>1, <3>2
  <2> QED
    BY <1>3, <2>1, <2>2 DEF LogOK
<1>8. Lived(m, g)
  <2>1. ASSUME NEW i \in 1..Len(m)
        PROVE  WorldOK(g[i]) /\ g[i].tick = m[i].tick + 1 /\ m[i].digest = Digest(g[i], m[i].tick)
    <3>1. CASE i = n + 1
      BY <1>1, <1>2, <1>3, <1>5, <3>1
    <3>2. CASE i # n + 1
      BY <1>3, <1>4, <1>5, <3>2 DEF Lived
    <3> QED
      BY <3>1, <3>2
  <2>2. ASSUME NEW i \in 2..Len(m), m[i - 1].run = m[i].run
        PROVE  g[i] = Step(g[i - 1], m[i].inputs, TRUE)
    <3>1. CASE i = n + 1
      <4>1. i - 1 = n /\ n \in 1..n /\ n > 0
        BY <1>0, <3>1
      <4>2. m[i - 1] = l[n] /\ g[i - 1] = h[n] /\ l[n].run = r
        BY <1>2, <1>3, <1>5, <2>2, <3>1, <4>1
      <4>3. h[n] = w
        BY <4>1, <4>2 DEF Now
      <4> QED
        BY <1>2, <1>3, <1>5, <3>1, <4>2, <4>3 DEF v
    <3>2. CASE i # n + 1
      <4>1. i \in 2..n /\ i \in 1..n /\ i - 1 \in 1..n
        BY <1>0, <1>3, <3>2
      <4>2. m[i] = l[i] /\ m[i - 1] = l[i - 1] /\ g[i] = h[i] /\ g[i - 1] = h[i - 1]
        BY <1>3, <1>5, <4>1
      <4> QED
        BY <2>2, <4>1, <4>2 DEF Lived
    <3> QED
      BY <3>1, <3>2
  <2> QED
    BY <2>1, <2>2 DEF Lived
<1>9. Now(m, g, r, v)
  BY <1>3, <1>5 DEF Now
<1>10. ASSUME NEW s, NEW q, Agrees(l, h, s, q), s.tick # w.tick
       PROVE  Agrees(m, g, s, q)
  BY <1>2, <1>3, <1>4, <1>5, <1>10 DEF Agrees
<1>11. Agrees(m, g, Export(w, w.tick - 1), r)
  <2>1. PICK s : s = Export(w, w.tick - 1)
    OBVIOUS
  <2>2. s.tick = w.tick - 1 /\ s.tick # w.tick
    BY <1>0, <2>1 DEF Export
  <2>3. \A i \in 1..n : l[i].run = r /\ l[i].tick = s.tick => s = Export(h[i], s.tick)
    BY <1>0, <2>1, <2>2, EntriesPast
  <2>4. Agrees(l, h, s, r)
    BY <2>3 DEF Agrees
  <2> QED
    BY <1>10, <2>1, <2>2, <2>4
<1>12. Agrees(m, g, Export(v, w.tick), r)
  <2>1. PICK s : s = Export(v, w.tick)
    OBVIOUS
  <2>2. s.tick = w.tick
    BY <2>1 DEF Export
  <2>3. \A i \in 1..n : ~(m[i].run = r /\ m[i].tick = s.tick)
    BY <1>0, <1>3, <1>6, <2>2
  <2>4. Agrees(m, g, s, r)
    BY <1>3, <1>4, <1>5, <2>1, <2>2, <2>3 DEF Agrees
  <2> QED
    BY <2>1, <2>4
<1> QED
  BY <1>7, <1>8, <1>9, <1>10, <1>11, <1>12 DEF m, v

\* The end of the log that a crash leaves.
LEMMA LogCut ==
  ASSUME NEW l, NEW h, NEW r, LogOK(l, r), Lived(l, h), NEW k \in 0..Len(l)
  PROVE  /\ LogOK(SubSeq(l, 1, k), r) /\ Lived(SubSeq(l, 1, k), h)
         /\ \A s, q : Agrees(l, h, s, q) => Agrees(SubSeq(l, 1, k), h, s, q)
<1> DEFINE m == SubSeq(l, 1, k)
<1>0. l \in Seq(Entry) /\ Len(l) \in Nat
  BY EntryTypes DEF LogOK
<1>1. m \in Seq(Entry) /\ Len(m) = k /\ \A i \in 1..k : m[i] = l[i]
  <2>1. \A i \in 1..k : l[i] \in Entry
    BY <1>0, EntryTypes
  <2>2. /\ SubSeq(l, 1, k) \in Seq(Entry)
        /\ Len(SubSeq(l, 1, k)) = IF 1 <= k THEN k - 1 + 1 ELSE 0
        /\ \A i \in 1..k - 1 + 1 : SubSeq(l, 1, k)[i] = l[1 + i - 1]
    BY <1>0, <2>1, SubSeqProperties
  <2> QED
    BY <1>0, <2>2
<1> HIDE DEF m
<1>2. \A i \in 1..k : i \in 1..Len(l)
  BY <1>0
<1>3. LogOK(m, r)
  BY <1>1, <1>2 DEF LogOK
<1>4. Lived(m, h)
  <2>1. \A i \in 2..k : i \in 2..Len(l) /\ i \in 1..k /\ i - 1 \in 1..k
    BY <1>0
  <2> QED
    BY <1>1, <1>2, <2>1 DEF Lived
<1>5. \A s, q : Agrees(l, h, s, q) => Agrees(m, h, s, q)
  BY <1>1, <1>2 DEF Agrees
<1> QED
  BY <1>3, <1>4, <1>5 DEF m

LEMMA InitLogged == Init => Logged
<1> SUFFICES ASSUME Init PROVE Logged
  OBVIOUS
<1>1. log = <<>> /\ run = 0 /\ sink = <<>> /\ writer = None /\ ~Up /\ \A t \in Ticks : ~Whole(t)
  BY DEF Init, Up, Whole
<1>2. <<>> \in Seq(Entry) /\ Len(<<>>) = 0 /\ 1..0 = {} /\ 2..0 = {}
  BY EmptySeq
<1>3. LogOK(log, run) /\ Lived(log, <<>>) /\ Shot(<<>>)
  BY <1>1, <1>2 DEF LogOK, Lived, Shot
<1> QED
  BY <1>1, <1>3 DEF Logged, Told

LEMMA StartLogged ==
  ASSUME IInv, Logged, Start
  PROVE  Logged'
<1>1. PICK h : Told(h)
  BY DEF Logged
<1>2. /\ run \in Nat /\ run' = run + 1 /\ sink' = <<>> /\ writer' = None /\ log' = log
      /\ files' = files /\ sink = <<>> /\ writer = None /\ ~Up
  BY BoundsAssumption DEF IInv, Start, Running, TypeOK
<1>3. LogOK(log, run) /\ Lived(log, h) /\ Shot(h)
  BY <1>1 DEF Told
<1>4. /\ Len(log) \in Nat /\ \A i \in 1..Len(log) : log[i].run \in Nat /\ log[i].run <= run
  BY <1>3, EntryTypes DEF LogOK
<1>5. LogOK(log, run')
  BY <1>2, <1>3, <1>4 DEF LogOK
<1>6. Now(log, h, run', world')
  BY <1>2, <1>4 DEF Now
<1>7. Shot(h)'
  <2>1. Len(<<>>) = 0 /\ 1..0 = {}
    OBVIOUS
  <2> QED
    BY <1>2, <1>3, <2>1 DEF Shot, Whole
<1> QED
  BY <1>2, <1>3, <1>5, <1>6, <1>7 DEF Logged, Told

LEMMA CrashLogged ==
  ASSUME IInv, Logged, Crash
  PROVE  Logged'
<1>1. PICK h : Told(h)
  BY DEF Logged
<1>2. /\ run' = run /\ files' = files /\ sink' = <<>> /\ writer' = None /\ ~Up'
  BY DEF Crash, Up
<1>3. PICK k \in 0..Len(log) : log' = SubSeq(log, 1, k)
  BY DEF Crash
<1>4. LogOK(log, run) /\ Lived(log, h) /\ Shot(h)
  BY <1>1 DEF Told
<1>5. /\ LogOK(log', run) /\ Lived(log', h)
      /\ \A s, q : Agrees(log, h, s, q) => Agrees(log', h, s, q)
  BY <1>3, <1>4, LogCut
<1>6. Shot(h)'
  <2>1. Len(<<>>) = 0 /\ 1..0 = {}
    OBVIOUS
  <2> QED
    BY <1>2, <1>4, <1>5, <2>1 DEF Shot, Whole
<1> QED
  BY <1>2, <1>5, <1>6 DEF Logged, Told

\* What a channel takes agrees with the history.
LEMMA OfferAgrees ==
  ASSUME NEW q \in Seq(Snapshots), NEW s \in Snapshots, NEW l, NEW h, NEW r,
         \A k \in 1..Len(q) : Agrees(l, h, q[k], r), Agrees(l, h, s, r)
  PROVE  /\ Append(q, s) \in Seq(Snapshots)
         /\ \A k \in 1..Len(Append(q, s)) : Agrees(l, h, Append(q, s)[k], r)
         /\ Offer(q, s) \in Seq(Snapshots)
         /\ \A k \in 1..Len(Offer(q, s)) : Agrees(l, h, Offer(q, s)[k], r)
<1>1. /\ Append(q, s) \in Seq(Snapshots) /\ Len(Append(q, s)) = Len(q) + 1
      /\ \A i \in 1..Len(q) : Append(q, s)[i] = q[i]
      /\ Append(q, s)[Len(q) + 1] = s
      /\ Len(q) \in Nat
  BY AppendProperties, LenProperties
<1>2. \A i \in 1..Len(q) + 1 : i \in 1..Len(q) \/ i = Len(q) + 1
  BY <1>1
<1>3. \A k \in 1..Len(Append(q, s)) : Agrees(l, h, Append(q, s)[k], r)
  BY <1>1, <1>2
<1> QED
  BY <1>1, <1>3 DEF Offer

LEMMA TickLogged ==
  ASSUME IInv, Logged, Tick
  PROVE  Logged'
<1>1. PICK h : Told(h)
  BY DEF Logged
<1>2. /\ TypeOK /\ Running /\ Taken /\ Past /\ Up /\ world.tick < MaxTick
      /\ run \in 1..MaxRuns /\ run' = run /\ writer' = writer /\ files' = files
      /\ LogOK(log, run) /\ Lived(log, h) /\ Shot(h) /\ Now(log, h, run, world)
  BY <1>1, BoundsAssumption DEF IInv, Tick, Running, TypeOK, Told
<1>3. PICK inputs \in Batches \cup {<<>>}, admin \in BOOLEAN :
        LET next == Step(world, inputs, TRUE)
            s1 == IF SeasonEnds(world) THEN OfferSeason(sink, Export(world, world.tick - 1))
                                       ELSE sink
            s2 == OfferPeriodic(s1, next)
        IN
        /\ world' = next
        /\ log' = Append(log, [run |-> run, tick |-> world.tick, inputs |-> inputs,
                               digest |-> Digest(next, world.tick)])
        /\ sink' = IF admin THEN Offer(s2, Export(next, next.tick - 1)) ELSE s2
  BY DEF Tick
<1>4. PICK w, r : w = world /\ r = run
  OBVIOUS
<1> DEFINE next == Step(w, inputs, TRUE)
           e == [run |-> r, tick |-> w.tick, inputs |-> inputs, digest |-> Digest(next, w.tick)]
           s1 == IF SeasonEnds(w) THEN OfferSeason(sink, Export(w, w.tick - 1)) ELSE sink
           s2 == OfferPeriodic(s1, next)
<1>5. /\ world' = next /\ log' = Append(log, e)
      /\ sink' = IF admin THEN Offer(s2, Export(next, next.tick - 1)) ELSE s2
  BY <1>3, <1>4
<1>6. WorldOK(w) /\ w.tick \in Nat /\ w.tick <= MaxTick /\ w.tick < MaxTick
  BY <1>2, <1>4 DEF Running, WorldOK, Counted, Worlds
<1>7. inputs \in Seq(Inputs)
  BY BatchesAssumption, EmptySeq
<1>8. WorldOK(next) /\ next.tick = w.tick + 1 /\ next \in Worlds /\ next.tick - 1 = w.tick
  <2>1. WorldOK(next) /\ next.tick = w.tick + 1
    BY <1>6, <1>7, StepSound, StepCounts DEF WorldOK
  <2> HIDE DEF next
  <2> QED
    BY <1>6, <2>1 DEF WorldOK, Counted
<1>9. Made(e, r, w, inputs, next)
  <2> HIDE DEF next
  <2> QED
    BY <1>2, <1>4, <1>6, <1>7, <1>8, EntryMade
<1> HIDE DEF e
<1>10. PICK g : /\ LogOK(Append(log, e), r) /\ Lived(Append(log, e), g)
                /\ Now(Append(log, e), g, r, next)
                /\ \A s, q : Agrees(log, h, s, q) /\ s.tick # w.tick => Agrees(Append(log, e), g, s, q)
                /\ Agrees(Append(log, e), g, Export(w, w.tick - 1), r)
                /\ Agrees(Append(log, e), g, Export(next, w.tick), r)
  BY <1>2, <1>4, <1>6, <1>7, <1>9, LogGrows
<1> HIDE DEF next
<1>11. PICK m : m = Append(log, e)
  OBVIOUS
<1> DEFINE Fine(q) == q \in Seq(Snapshots) /\ \A k \in 1..Len(q) : Agrees(m, g, q[k], r)
<1>12. Fine(sink)
  <2>1. \A k \in 1..Len(sink) : sink[k].tick < w.tick /\ sink[k].tick \in Nat
    BY <1>2, <1>4, BoundsAssumption DEF Past, Taken, SnapOK, Snapshots, Ticks
  <2>2. \A k \in 1..Len(sink) : Agrees(log, h, sink[k], r)
    BY <1>2, <1>4 DEF Shot
  <2> QED
    BY <1>2, <1>6, <1>10, <1>11, <2>1, <2>2 DEF TypeOK
<1>13. Fine(s1)
  <2>1. CASE SeasonEnds(w)
    <3>1. w.tick > 0
      BY <1>6, <2>1 DEF SeasonEnds
    <3>2. Export(w, w.tick - 1) \in Snapshots
      BY <1>6, <3>1, ExportSound DEF SnapOK
    <3> QED
      BY <1>10, <1>11, <1>12, <2>1, <3>2, OfferAgrees DEF OfferSeason
  <2> QED
    BY <1>12, <2>1
<1> HIDE DEF s1
<1>14. Export(next, next.tick - 1) \in Snapshots /\ Agrees(m, g, Export(next, next.tick - 1), r)
  <2>1. Export(next, next.tick - 1) \in Snapshots
    BY <1>6, <1>8, ExportSound DEF SnapOK
  <2> QED
    BY <1>8, <1>10, <1>11, <2>1
<1>15. Fine(s2)
  BY <1>13, <1>14, OfferAgrees DEF OfferPeriodic
<1> HIDE DEF s2
<1>16. Fine(sink')
  BY <1>5, <1>14, <1>15, OfferAgrees
<1>17. writer # None => Agrees(m, g, writer, r)
  <2> SUFFICES ASSUME writer # None PROVE Agrees(m, g, writer, r)
    OBVIOUS
  <2>1. PICK s : s = writer
    OBVIOUS
  <2>2. s.tick \in Ticks /\ files[s.tick] = Torn /\ Torn # None
    BY <1>2, <2>1, NoneAssumption DEF TypeOK, Snapshots
  <2>3. s.tick < w.tick /\ s.tick \in Nat
    BY <1>2, <1>4, <2>2, BoundsAssumption DEF Past, Ticks
  <2>4. Agrees(log, h, s, r)
    BY <1>2, <1>4, <2>1 DEF Shot
  <2> QED
    BY <1>6, <1>10, <1>11, <2>1, <2>3, <2>4
<1>18. ASSUME NEW t \in Ticks, Whole(t)
       PROVE  Agrees(m, g, files[t].snap, files[t].run)
  <2>1. PICK s, q : s = files[t].snap /\ q = files[t].run
    OBVIOUS
  <2>2. s.tick = t /\ t < w.tick /\ t \in Nat
    BY <1>2, <1>4, <1>18, <2>1, BoundsAssumption DEF Taken, Past, Ticks, Whole
  <2>3. Agrees(log, h, s, q)
    BY <1>2, <1>18, <2>1 DEF Shot
  <2> QED
    BY <1>6, <1>10, <1>11, <2>1, <2>2, <2>3
<1>19. Shot(g)'
  <2>1. log' = m /\ run' = r
    BY <1>2, <1>4, <1>5, <1>11
  <2> QED
    BY <1>2, <1>16, <1>17, <1>18, <2>1 DEF Shot, Whole
<1>20. LogOK(log', run') /\ Lived(log', g) /\ Now(log', g, run', world')
  BY <1>2, <1>4, <1>5, <1>10
<1> QED
  BY <1>19, <1>20 DEF Logged, Told

LEMMA OpenLogged ==
  ASSUME IInv, Logged, OpenFile
  PROVE  Logged'
<1>1. PICK h : Told(h)
  BY DEF Logged
<1>2. /\ UNCHANGED <<world, run, log>> /\ sink # <<>> /\ sink \in Seq(Snapshots)
      /\ writer' = Head(sink) /\ sink' = Tail(sink)
      /\ files' = [files EXCEPT ![Head(sink).tick] = Torn]
      /\ files \in [Ticks -> File \cup {Torn, None}]
      /\ LogOK(log, run) /\ Lived(log, h) /\ (Up => Now(log, h, run, world)) /\ Shot(h)
  BY <1>1 DEF IInv, OpenFile, TypeOK, Told
<1>3. /\ writer' = sink[1] /\ 1 \in 1..Len(sink)
      /\ \A i \in 1..Len(Tail(sink)) : Tail(sink)[i] = sink[i + 1] /\ i + 1 \in 1..Len(sink)
  <2>1. Len(sink) \in Nat \ {0}
    BY <1>2, EmptySeq
  <2>2. /\ Tail(sink) \in Seq(Snapshots) /\ Len(Tail(sink)) = Len(sink) - 1
        /\ \A i \in 1..Len(Tail(sink)) : Tail(sink)[i] = sink[i + 1]
    BY <1>2, HeadTailProperties
  <2>3. Head(sink) = sink[1]
    BY <1>2
  <2> QED
    BY <1>2, <2>1, <2>2, <2>3
<1>4. \A t \in Ticks : Whole(t)' => Whole(t) /\ files'[t] = files[t]
  BY <1>2 DEF Whole
<1>5. Shot(h)'
  <2>1. \A i \in 1..Len(sink') : Agrees(log, h, sink'[i], run)
    BY <1>2, <1>3 DEF Shot
  <2>2. Agrees(log, h, writer', run)
    BY <1>2, <1>3 DEF Shot
  <2>3. \A t \in Ticks : Whole(t)' => Agrees(log, h, files'[t].snap, files'[t].run)
    BY <1>2, <1>4 DEF Shot
  <2> QED
    BY <1>2, <2>1, <2>2, <2>3 DEF Shot
<1>6. Up' <=> Up
  BY <1>2 DEF Up
<1> QED
  BY <1>2, <1>5, <1>6 DEF Logged, Told

LEMMA CloseLogged ==
  ASSUME IInv, Logged, CloseFile
  PROVE  Logged'
<1>1. PICK h : Told(h)
  BY DEF Logged
<1>2. /\ UNCHANGED <<world, run, log, sink>> /\ writer # None /\ writer' = None
      /\ files' = [files EXCEPT ![writer.tick] =
                 [torn |-> FALSE, tick |-> writer.tick, run |-> run, snap |-> writer]]
      /\ files \in [Ticks -> File \cup {Torn, None}]
      /\ LogOK(log, run) /\ Lived(log, h) /\ (Up => Now(log, h, run, world)) /\ Shot(h)
  BY <1>1 DEF IInv, CloseFile, TypeOK, Told
<1>3. PICK s : s = writer
  OBVIOUS
<1>4. PICK f : f = [torn |-> FALSE, tick |-> s.tick, run |-> run, snap |-> s]
  OBVIOUS
<1>5. f.run = run /\ f.snap = s /\ Agrees(log, h, s, run)
  BY <1>2, <1>3, <1>4 DEF Shot
<1>6. files' = [files EXCEPT ![s.tick] = f]
  BY <1>2, <1>3, <1>4
<1>7. ASSUME NEW t \in Ticks, Whole(t)'
      PROVE  Agrees(log, h, files'[t].snap, files'[t].run)
  <2>1. CASE t = s.tick
    <3>1. files'[t] = f
      BY <1>2, <1>6, <2>1
    <3> QED
      BY <1>5, <3>1
  <2>2. CASE t # s.tick
    <3>1. files'[t] = files[t] /\ Whole(t)
      BY <1>2, <1>6, <1>7, <2>2 DEF Whole
    <3> QED
      BY <1>2, <3>1 DEF Shot
  <2> QED
    BY <2>1, <2>2
<1>8. Shot(h)'
  BY <1>2, <1>7 DEF Shot
<1>9. Up' <=> Up
  BY <1>2 DEF Up
<1> QED
  BY <1>2, <1>8, <1>9 DEF Logged, Told

LEMMA StepLogged == IInv /\ Logged /\ [Next]_vars => Logged'
<1> SUFFICES ASSUME IInv, Logged, [Next]_vars PROVE Logged'
  OBVIOUS
<1>1. PICK h : Told(h)
  BY DEF Logged
<1>2. CASE UNCHANGED vars
  BY <1>1, <1>2 DEF vars, Logged, Told, Shot, Whole, Up
<1>3. CASE Tune
  BY <1>1, <1>3 DEF Tune, Logged, Told, Shot, Whole, Up
<1>4. CASE FailFile
  BY <1>1, <1>4 DEF FailFile, Logged, Told, Shot, Whole, Up
<1> QED
  BY <1>2, <1>3, <1>4, StartLogged, CrashLogged, TickLogged, OpenLogged, CloseLogged DEF Next

LEMMA AlwaysLogged == Spec => [](IInv /\ Logged)
<1>1. Init => IInv /\ Logged
  BY InitIInv, InitLogged
<1>2. IInv /\ Logged /\ [Next]_vars => (IInv /\ Logged)'
  BY StepIInv, StepLogged
<1> QED
  BY <1>1, <1>2, PTL DEF Spec

-----------------------------------------------------------------------------
(* Replaying the log                                                       *)

\* A snapshot that restores the content of its tick restores all of it: what an
\* export or an import leaves out is hashed.
LEMMA RestoredWhole ==
  ASSUME NEW w, WorldOK(w), w.tick > 0, NEW length, NEW n, NEW back,
         back = Import(Export(w, w.tick - 1), length),
         Content(Digest(w, n)) = Content(Digest(back, n))
  PROVE  Alike(back, w)
<1>1. /\ back.fields = w.fields \ Lost(w.fields)
      /\ [back EXCEPT !.fields = w.fields, !.items = w.items] = w
  BY Restored
<1>2. back \in Worlds /\ w \in Worlds
  BY ExportSound, ImportSound DEF WorldOK, Counted
<1>3. /\ back.tick = w.tick /\ back.seed = w.seed /\ back.length = w.length
      /\ back.ids = w.ids /\ back.next = w.next
  <2>1. PICK v : v = [back EXCEPT !.fields = w.fields, !.items = w.items]
    OBVIOUS
  <2>2. v = w
    BY <1>1, <2>1
  <2>3. /\ v.tick = back.tick /\ v.seed = back.seed /\ v.length = back.length
        /\ v.ids = back.ids /\ v.next = back.next
    BY <1>2, <2>1 DEF Worlds
  <2> QED
    BY <2>2, <2>3
<1> DEFINE D(u) == Digest(u, n)
<1>4. D(w).fields = D(back).fields /\ D(w).items = D(back).items
  <2>1. \A u : /\ Content(D(u)).fields = D(u).fields
               /\ Content(D(u)).items = D(u).items
    BY DEF Digest, Content
  <2> QED
    BY <2>1
<1>5. D(w).items = w.items /\ D(back).items = back.items
  BY DEF Digest, DigestItems
<1>6. D(back).fields \subseteq back.fields
  BY DEF Digest, DigestHeader, DigestClaims, DigestLaws, DigestOrgs, DigestContainers,
         DigestSigns, DigestConveyors, DigestSwitches, DigestContracts, DigestTrades,
         DigestBoards, DigestStructures, DigestAgents
<1>7. /\ DigestOrgs(w.fields) \subseteq D(w).fields /\ DigestSigns(w.fields) \subseteq D(w).fields
      /\ DigestConveyors(w.fields) \subseteq D(w).fields
      /\ DigestSwitches(w.fields) \subseteq D(w).fields
      /\ DigestAgents(w.fields) \subseteq D(w).fields
  BY DEF Digest
<1> HIDE DEF D
<1>8. ASSUME NEW x \in w.fields, x \in Lost(w.fields)
      PROVE  x \in D(w).fields
  <2>1. x \in UNION {WholeParts, OrgFields, SignFields, ConveyorFields, SwitchFields}
    BY <1>2, FieldKinds DEF Worlds
  <2>2. CASE x \in Of("orgs", {"entry"})
    <3>1. x \in OrgFields
      BY <2>2 DEF OrgFields, Of
    <3> QED
      BY <1>7, <3>1 DEF DigestOrgs
  <2>3. CASE x \in Defaulted
    <3>1. x \in AgentFields \ Of("agents", {"world", "cooldown", "memory", "rates"})
      BY <2>3, DefaultedFields DEF Defaulted, Of
    <3> QED
      BY <1>7, <3>1 DEF DigestAgents
  <2>4. CASE x \notin Of("orgs", {"entry"}) /\ x \notin Defaulted
    <3>1. x[1] \in {"signs", "conveyors", "switches"} /\ <<x[1], "block">> \notin w.fields
      BY <1>8, <2>4 DEF Lost
    <3>2. x \in SignFields \/ x \in ConveyorFields \/ x \in SwitchFields
      <4>1. x \notin WholeParts
        BY <3>1, FieldKinds
      <4>2. x \notin OrgFields
        BY <3>1, PartNames
      <4> QED
        BY <2>1, <4>1, <4>2
    <3>3. CASE x \in SignFields
      <4>1. x \in {"signs"} \X {"block", "text", "tick", "by"}
        BY <3>3 DEF SignFields, Of
      <4>2. x \in {"signs"} \X {"text", "tick", "by"}
        BY <3>1, <4>1
      <4> QED
        BY <1>7, <4>2 DEF DigestSigns, Of
    <3>4. CASE x \in ConveyorFields
      <4>1. x \in {"conveyors"} \X {"block", "dir"}
        BY <3>4 DEF ConveyorFields, Of
      <4>2. x \in {"conveyors"} \X {"dir"}
        BY <3>1, <4>1
      <4> QED
        BY <1>7, <4>2 DEF DigestConveyors, Of
    <3>5. CASE x \in SwitchFields
      <4>1. x \in {"switches"} \X {"block", "on"}
        BY <3>5 DEF SwitchFields, Of
      <4>2. x \in {"switches"} \X {"on"}
        BY <3>1, <4>1
      <4> QED
        BY <1>7, <4>2 DEF DigestSwitches, Of
    <3> QED
      BY <3>2, <3>3, <3>4, <3>5
  <2> QED
    BY <2>2, <2>3, <2>4
<1>9. back.fields = w.fields
  BY <1>1, <1>4, <1>6, <1>8
<1> QED
  BY <1>2, <1>3, <1>4, <1>5, <1>9 DEF Alike

\* Alike worlds with the same chunks have one digest.
LEMMA SameDigest ==
  ASSUME NEW v, NEW w, Alike(v, w), v.chunks = w.chunks, NEW n
  PROVE  Digest(v, n) = Digest(w, n)
<1>1. /\ v.seed = w.seed /\ v.items = w.items /\ v.ids = w.ids /\ v.fields = w.fields
  BY DEF Alike
<1>2. DigestChunks(v) = DigestChunks(w)
  BY <1>1 DEF DigestChunks
<1> QED
  BY <1>1, <1>2 DEF Digest

\* f is the replay of a file, entry by entry, from `first`.
Replays(f, m, first, file) ==
  f = [n \in 0..m |->
         IF n = 0 THEN first
         ELSE IF Follows(log[n], file) THEN ReplayEntry(f[n - 1], log[n])
         ELSE f[n - 1]]

LEMMA ReplayExists ==
  ASSUME NEW first, NEW file, NEW m \in Nat
  PROVE  \E f : Replays(f, m, first, file)
<1> DEFINE T == {n \in Nat : ~\E f : Replays(f, n, first, file)}
<1>1. SUFFICES ASSUME T # {} PROVE FALSE
  OBVIOUS
<1>2. PICK n \in T : \A k \in T : n <= k
  <2> HIDE DEF T
  <2>1. T \in SUBSET Nat
    BY DEF T
  <2> QED
    BY <1>1, <2>1, Least
<1>3. n \in Nat /\ ~\E f : Replays(f, n, first, file)
  OBVIOUS
<1> DEFINE Entry1(g, k) == IF Follows(log[k], file) THEN ReplayEntry(g, log[k]) ELSE g
<1>4. CASE n = 0
  <2> DEFINE f == [k \in 0..0 |-> first]
  <2>1. f = [k \in 0..0 |-> IF k = 0 THEN first ELSE Entry1(f[k - 1], k)]
    OBVIOUS
  <2>2. Replays(f, 0, first, file)
    BY <2>1 DEF Replays
  <2> QED
    BY <2>2, <1>3, <1>4
<1>5. CASE n # 0
  <2>1. n - 1 \in Nat /\ n - 1 \notin T
    BY <1>2, <1>3, <1>5
  <2>2. PICK g : Replays(g, n - 1, first, file)
    BY <2>1
  <2>3. g = [k \in 0..n - 1 |-> IF k = 0 THEN first ELSE Entry1(g[k - 1], k)]
    BY <2>2 DEF Replays
  <2> HIDE DEF Entry1
  <2> DEFINE f == [k \in 0..n |-> IF k = n THEN Entry1(g[n - 1], n) ELSE g[k]]
  <2>4. ASSUME NEW k \in 0..n
        PROVE  f[k] = IF k = 0 THEN first ELSE Entry1(f[k - 1], k)
    <3>1. CASE k = n
      <4>1. n - 1 \in 0..n /\ n - 1 # n
        BY <1>3, <1>5
      <4>2. f[n - 1] = g[n - 1]
        BY <4>1
      <4> QED
        BY <3>1, <4>2, <1>5
    <3>2. CASE k # n
      <4>1. k \in 0..n - 1
        BY <3>2, <1>3
      <4>2. g[k] = IF k = 0 THEN first ELSE Entry1(g[k - 1], k)
        BY <2>3, <4>1
      <4>3. k # 0 => k - 1 \in 0..n /\ k - 1 # n
        BY <4>1, <1>3
      <4>4. k # 0 => f[k - 1] = g[k - 1]
        BY <4>3
      <4> QED
        BY <3>2, <4>2, <4>4
    <3> QED
      BY <3>1, <3>2
  <2>5. f = [k \in 0..n |-> IF k = 0 THEN first ELSE Entry1(f[k - 1], k)]
    BY <2>4
  <2>6. Replays(f, n, first, file)
    BY <2>5 DEF Replays, Entry1
  <2> QED
    BY <2>6, <1>3
<1> QED
  BY <1>4, <1>5

LEMMA Replayed ==
  ASSUME NEW file, Len(log) \in Nat
  PROVE  \E f : /\ Replays(f, Len(log), [world |-> Import(file.snap, tuned), same |-> TRUE,
                                        alike |-> TRUE], file)
                /\ Replay(file) = f[Len(log)]
<1> DEFINE first == [world |-> Import(file.snap, tuned), same |-> TRUE, alike |-> TRUE]
           f == CHOOSE f : f =
             [n \in 0..Len(log) |->
                IF n = 0 THEN [world |-> Import(file.snap, tuned), same |-> TRUE, alike |-> TRUE]
                ELSE IF Follows(log[n], file) THEN ReplayEntry(f[n - 1], log[n])
                ELSE f[n - 1]]
<1>1. Replay(file) = f[Len(log)]
  BY DEF Replay
<1>2. PICK g : Replays(g, Len(log), first, file)
  BY ReplayExists
<1>3. f = [n \in 0..Len(log) |->
                IF n = 0 THEN [world |-> Import(file.snap, tuned), same |-> TRUE, alike |-> TRUE]
                ELSE IF Follows(log[n], file) THEN ReplayEntry(f[n - 1], log[n])
                ELSE f[n - 1]]
  BY <1>2 DEF Replays
<1> QED
  BY <1>1, <1>3 DEF Replays

LEMMA ReplayGoes ==
  ASSUME IInv, NEW h, Told(h), NEW t \in Ticks, Whole(t), Complete(files[t])
  PROVE  Replay(files[t]).alike /\ (Settled(files[t]) => Replay(files[t]).same)
<1>1. PICK file : file = files[t]
  OBVIOUS
<1>2. /\ LogOK(log, run) /\ Lived(log, h) /\ Agrees(log, h, file.snap, file.run)
      /\ file.tick = t /\ file.snap.tick = t /\ SnapOK(file.snap) /\ t \in Nat
  BY <1>1, BoundsAssumption DEF IInv, TypeOK, Taken, Told, Shot, Ticks
<1>3. /\ Len(log) \in Nat
      /\ \A k \in 1..Len(log) : /\ log[k].run \in Nat /\ log[k].tick \in Nat
                                /\ log[k].inputs \in Seq(Inputs)
  BY <1>2, EntryTypes DEF LogOK
<1>4. PICK i \in 1..Len(log) :
        /\ log[i].run = file.run /\ log[i].tick = t
        /\ log[i].digest = Digest(Import(file.snap, tuned), t)
  <2>1. DOMAIN log = 1..Len(log)
    BY <1>2, LenProperties DEF LogOK
  <2> QED
    BY <1>1, <1>2, <2>1 DEF Complete
<1>5. PICK w : w = h[i]
  OBVIOUS
<1>6. /\ WorldOK(w) /\ w.tick = t + 1 /\ log[i].digest = Digest(w, t)
      /\ file.snap = Export(w, t)
  BY <1>2, <1>4, <1>5 DEF Lived, Agrees
<1>7. Alike(Import(file.snap, tuned), w)
  <2>1. w.tick > 0 /\ w.tick - 1 = t
    BY <1>2, <1>6
  <2>2. PICK back : back = Import(file.snap, tuned)
    OBVIOUS
  <2>3. back = Import(Export(w, w.tick - 1), tuned)
    BY <1>6, <2>1, <2>2
  <2>4. Content(Digest(w, t)) = Content(Digest(back, t))
    BY <1>4, <1>6, <2>2
  <2> QED
    BY <1>6, <2>1, <2>2, <2>3, <2>4, RestoredWhole
<1>8. PICK f : /\ Replays(f, Len(log), [world |-> Import(file.snap, tuned), same |-> TRUE,
                                       alike |-> TRUE], file)
               /\ Replay(file) = f[Len(log)]
  BY <1>3, Replayed
<1> DEFINE Quiet(n) == /\ f[n].same = TRUE
                       /\ f[n].world.seed = file.snap.seed
                       /\ f[n].world.chunks = file.snap.chunks.loaded
           Good(n) == /\ f[n].alike = TRUE
                      /\ Settled(file) => Quiet(n)
                      /\ n <= i => Alike(f[n].world, w)
                      /\ n >= i /\ log[n].run = file.run => Alike(f[n].world, h[n])
           T == {n \in 0..Len(log) : ~Good(n)}
<1>9. SUFFICES ASSUME T # {} PROVE FALSE
  <2> SUFFICES ASSUME T = {} PROVE Replay(file).alike /\ (Settled(file) => Replay(file).same)
    BY <1>1
  <2>1. Good(Len(log))
    BY <1>3
  <2> QED
    BY <1>8, <2>1
<1>10. PICK n \in T : \A k \in T : n <= k
  <2>1. T \in SUBSET Nat
    OBVIOUS
  <2> HIDE DEF T
  <2> QED
    BY <1>9, <2>1, Least
<1>11. n \in 0..Len(log) /\ ~Good(n)
  OBVIOUS
<1>12. f[n] = IF n = 0 THEN [world |-> Import(file.snap, tuned), same |-> TRUE, alike |-> TRUE]
              ELSE IF Follows(log[n], file) THEN ReplayEntry(f[n - 1], log[n])
              ELSE f[n - 1]
  BY <1>8, <1>11 DEF Replays
<1>13. n # 0
  <2> SUFFICES ASSUME n = 0 PROVE Good(n)
    BY <1>11
  <2>1. f[n] = [world |-> Import(file.snap, tuned), same |-> TRUE, alike |-> TRUE]
    BY <1>12
  <2>2. f[n].same = TRUE /\ f[n].alike = TRUE /\ f[n].world = Import(file.snap, tuned)
    BY <2>1
  <2>3. /\ Import(file.snap, tuned).seed = file.snap.seed
        /\ Import(file.snap, tuned).chunks = file.snap.chunks.loaded
    BY DEF Import
  <2> QED
    BY <1>4, <1>7, <2>2, <2>3
<1>14. n - 1 \in 0..Len(log) /\ n \in 1..Len(log) /\ Good(n - 1)
  BY <1>3, <1>10, <1>11, <1>13
<1>15. CASE n <= i
  <2>1. ~Follows(log[n], file)
    <3>1. n < i /\ log[n].run = log[i].run => log[n].tick < log[i].tick
      BY <1>2, <1>14 DEF LogOK
    <3> QED
      BY <1>2, <1>3, <1>4, <1>14, <1>15, <3>1 DEF Follows
  <2>2. f[n] = f[n - 1] /\ n - 1 <= i
    BY <1>12, <1>13, <1>14, <1>15, <2>1
  <2>3. n >= i => h[n] = w
    BY <1>5, <1>14, <1>15
  <2> QED
    BY <1>11, <1>14, <2>2, <2>3
<1>16. CASE n > i /\ log[n].run # file.run
  <2>1. f[n] = f[n - 1]
    BY <1>12, <1>13, <1>16 DEF Follows
  <2> QED
    BY <1>11, <1>14, <1>16, <2>1
<1>17. CASE n > i /\ log[n].run = file.run
  <2>1. n - 1 \in 1..Len(log) /\ n - 1 >= i /\ n \in 2..Len(log) /\ n - 1 < n /\ ~(n <= i)
    BY <1>4, <1>14, <1>17
  <2>2. log[n - 1].run = file.run
    <3>1. log[n - 1].run <= log[n].run
      BY <1>2, <1>14, <2>1 DEF LogOK
    <3>2. i < n - 1 => log[i].run <= log[n - 1].run
      BY <1>2, <2>1 DEF LogOK
    <3>3. log[i].run <= log[n - 1].run
      BY <1>3, <1>4, <2>1, <3>2
    <3> QED
      BY <1>3, <1>4, <1>14, <1>17, <2>1, <3>1, <3>3
  <2>3. Follows(log[n], file)
    <3>1. log[i].tick < log[n].tick
      BY <1>2, <1>4, <1>14, <1>17 DEF LogOK
    <3> QED
      BY <1>2, <1>4, <1>17, <3>1 DEF Follows
  <2>4. PICK u, e : u = f[n - 1] /\ e = log[n]
    OBVIOUS
  <2>5. f[n] = ReplayEntry(u, e)
    BY <1>12, <1>13, <2>3, <2>4
  <2>6. u.alike = TRUE /\ Alike(u.world, h[n - 1])
    BY <1>14, <2>1, <2>2, <2>4
  <2>7. /\ WorldOK(h[n - 1]) /\ h[n - 1].tick \in Nat
        /\ WorldOK(h[n]) /\ h[n].tick = e.tick + 1 /\ e.digest = Digest(h[n], e.tick)
        /\ h[n] = Step(h[n - 1], e.inputs, TRUE) /\ e.inputs \in Seq(Inputs) /\ e.tick \in Nat
    BY <1>2, <1>3, <1>14, <1>17, <2>1, <2>2, <2>4 DEF Lived, WorldOK, Counted, Worlds
  <2>8. Alike(Step(u.world, e.inputs, FALSE), h[n])
    <3>1. Alike(Step(u.world, e.inputs, FALSE), Step(h[n - 1], e.inputs, TRUE))
      BY <2>6, <2>7, StepAlike
    <3> QED
      BY <2>7, <3>1
  <2>9. u.world.tick = e.tick
    <3>1. h[n].tick = h[n - 1].tick + 1
      <4>1. Step(h[n - 1], e.inputs, TRUE).tick = h[n - 1].tick + 1
        BY <2>7, StepCounts DEF WorldOK
      <4> QED
        BY <2>7, <4>1
    <3>2. u.world.tick = h[n - 1].tick
      BY <2>6 DEF Alike
    <3>3. h[n].tick = e.tick + 1 /\ h[n - 1].tick \in Nat /\ e.tick \in Nat
      BY <2>7
    <3> QED
      BY <3>1, <3>2, <3>3
  <2>10. PICK v : v = Step(u.world, e.inputs, FALSE)
    OBVIOUS
  <2>11. Alike(v, h[n]) /\ e.digest = Digest(h[n], e.tick)
    BY <2>7, <2>8, <2>10
  <2>12. Content(Digest(v, e.tick)) = Content(e.digest)
    BY <2>11, SameContent
  <2> DEFINE same == /\ u.same
                     /\ u.world.tick = e.tick
                     /\ Digest(v, e.tick) = e.digest
             alike == /\ u.alike
                      /\ u.world.tick = e.tick
                      /\ Content(Digest(v, e.tick)) = Content(e.digest)
  <2>13. f[n] = [world |-> v, same |-> same, alike |-> alike]
    BY <2>5, <2>10 DEF ReplayEntry
  <2>14. alike = TRUE
    BY <2>6, <2>9, <2>12, Zenon
  <2>15. ASSUME Settled(file)
         PROVE  same = TRUE /\ v.seed = file.snap.seed /\ v.chunks = file.snap.chunks.loaded
    <3>1. /\ u.same = TRUE /\ u.world.seed = file.snap.seed
          /\ u.world.chunks = file.snap.chunks.loaded
      BY <1>14, <2>4, <2>15
    <3>2. e.digest.seed = file.snap.seed /\ e.digest.chunks.loaded = file.snap.chunks.loaded
      <4>1. n \in DOMAIN log
        BY <1>2, <1>14, LenProperties DEF LogOK
      <4> QED
        BY <2>3, <2>4, <2>15, <4>1 DEF Settled
    <3>3. v.seed = file.snap.seed /\ h[n].chunks = file.snap.chunks.loaded
      BY <2>11, <3>2 DEF Alike, Digest, DigestChunks
    <3>4. Counted(u.world) /\ u.world.seed \in Nat
      BY <2>6, <2>7 DEF Alike, WorldOK, Counted, Worlds
    <3>5. /\ v.seed = u.world.seed + (IF SeasonEnds(u.world) THEN 1 ELSE 0)
          /\ ~SeasonEnds(u.world) => v.chunks = u.world.chunks
      BY <2>7, <2>10, <3>4, StepCounts
    <3>6. ~SeasonEnds(u.world)
      BY <3>1, <3>3, <3>4, <3>5
    <3>7. v.chunks = file.snap.chunks.loaded
      BY <3>1, <3>5, <3>6
    <3>8. Digest(v, e.tick) = e.digest
      BY <2>11, <3>3, <3>7, SameDigest
    <3>9. same = TRUE
      BY <2>9, <3>1, <3>8, Zenon
    <3> QED
      BY <3>3, <3>7, <3>9
  <2>16. /\ f[n].world = v /\ f[n].alike = TRUE
         /\ Settled(file) => Quiet(n)
    <3> HIDE DEF same, alike
    <3>1. f[n].world = v /\ f[n].alike = alike /\ f[n].same = same
      BY <2>13
    <3> QED
      BY <2>14, <2>15, <3>1
  <2> QED
    BY <1>11, <2>1, <2>11, <2>16
<1> QED
  BY <1>3, <1>4, <1>14, <1>15, <1>16, <1>17

(* Replaying the entries a run logged after a snapshot of it gives, at every
   tick, what was logged but for the loaded chunks, whenever the snapshot
   restores what was logged for its own tick: whatever the inputs were, however
   often the server was restarted since, and whatever the tuning file says by
   then.  cmd/replay compares the loaded chunks too, so its verdict is proved
   for logs of which no later entry shows other chunks or another season. *)
THEOREM ReplaysAgree == Spec => []ReplayFaithful
<1>1. IInv /\ Logged => ReplayFaithful
  BY ReplayGoes DEF Logged, ReplayFaithful
<1> QED
  BY <1>1, AlwaysLogged, PTL
=============================================================================
