----------------------------- MODULE WorldState -----------------------------
(***************************************************************************)
(* What a world keeps, and the three translations of it: the digest of a   *)
(* tick, the snapshot written to disk, and the import of a snapshot.       *)
(*                                                                         *)
(* Content is abstracted to the set of fields that hold something a fresh  *)
(* world would not have: a field is a pair <<part, name>>.  A translation  *)
(* of a part is then the list of the fields it carries over.  Kept apart   *)
(* are the values that decide about others: expiry ticks of item entities, *)
(* loaded chunks, ids in use and the id counter, which stands for the nine *)
(* counters of a world, seed and season length.                            *)
(***************************************************************************)
EXTENDS Integers, Sequences, FiniteSets

CONSTANT Chunks \* the chunks beyond the spawn area

\* The fields of one part.
Of(part, names) == {part} \X names

ClaimFields == Of("claims", {"owner", "type", "anchor", "radius", "flags",
  "members", "tax", "curfew", "fine", "pass", "due", "stage"})
LawFields == Of("laws", {"land", "template", "title", "proposer", "status",
  "ticks", "params", "votes"})
\* "entry": TreasuryByWorld has a map for this world; "treasury": it holds items.
OrgFields == Of("orgs", {"kind", "name", "created", "members", "version",
  "entry", "treasury"})
ContainerFields == Of("containers", {"type", "pos", "inventory", "reserved", "owed"})
\* "block": the block at the position is still the sign, conveyor or switch.
SignFields == Of("signs", {"block", "text", "tick", "by"})
ConveyorFields == Of("conveyors", {"block", "dir"})
SwitchFields == Of("switches", {"block", "on"})
ContractFields == Of("contracts", {"kind", "state", "parties", "ticks",
  "terminal", "requirements", "reward", "deposit", "blueprint"})
TradeFields == Of("trades", {"parties", "offer", "request", "created"})
BoardFields == Of("boards", {"posts"})
StructureFields == Of("structures", {"blueprint", "builder", "place",
  "completed", "award", "used", "day"})
\* Equipment is hashed and not exported; nothing ever changes it.  A zero is
\* told apart: "spent" stands for a hunger or a stamina of zero, "shunned" for a
\* reputation of zero.
AgentFields == Of("agents", {"id", "name", "org", "world", "cooldown", "body",
  "spent", "reputation", "shunned", "fun", "seen", "decay", "inventory", "memory",
  "rates", "move", "work"})
StatsFields == Of("stats", {"buckets", "window", "seen"})
HeaderFields == Of("header", {"weather", "event"})

Fields == UNION {ClaimFields, LawFields, OrgFields, ContainerFields,
  SignFields, ConveyorFields, SwitchFields, ContractFields, TradeFields,
  BoardFields, StructureFields, AgentFields, StatsFields, HeaderFields}

Worlds == [tick : Nat, seed : Nat, length : Nat, fields : SUBSET Fields,
           chunks : SUBSET Chunks, items : SUBSET Nat, ids : SUBSET Nat, next : Nat]

Fresh(seed, length) ==
  [tick |-> 0, seed |-> seed, length |-> length, fields |-> {}, chunks |-> {},
   items |-> {}, ids |-> {}, next |-> 0]

Greatest(S) == IF S = {} THEN 0 ELSE CHOOSE n \in S : \A m \in S : m <= n
Larger(a, b) == IF a > b THEN a ELSE b
-----------------------------------------------------------------------------
\* The digest: what of each part is hashed.

DigestClaims(f) == f \cap (ClaimFields \ Of("claims", {"type"}))
DigestLaws(f) == f \cap LawFields
DigestOrgs(f) == f \cap OrgFields
DigestContainers(f) == f \cap ContainerFields
DigestSigns(f) == f \cap Of("signs", {"text", "tick", "by"})
DigestConveyors(f) == f \cap Of("conveyors", {"dir"})
DigestSwitches(f) == f \cap Of("switches", {"on"})
DigestContracts(f) == f \cap ContractFields
DigestTrades(f) == f \cap Of("trades", {"parties", "offer", "request"})
DigestBoards(f) == f \cap BoardFields
DigestStructures(f) == f \cap StructureFields
DigestAgents(f) ==
  f \cap (AgentFields \ Of("agents", {"world", "cooldown", "memory", "rates"}))
DigestHeader(f) == f \cap HeaderFields
DigestItems(items) == items

\* The blocks under signs, conveyors and switches are hashed with their chunk.
DigestChunks(w) == [loaded |-> w.chunks,
  blocks |-> w.fields \cap ({"signs", "conveyors", "switches"} \X {"block"})]

Digest(w, now) ==
  LET f == w.fields IN
  [tick |-> now, seed |-> w.seed, items |-> DigestItems(w.items), ids |-> w.ids,
   chunks |-> DigestChunks(w),
   fields |-> UNION {DigestHeader(f), DigestClaims(f), DigestLaws(f), DigestOrgs(f),
     DigestContainers(f), DigestSigns(f), DigestConveyors(f), DigestSwitches(f),
     DigestContracts(f), DigestTrades(f), DigestBoards(f), DigestStructures(f),
     DigestAgents(f)}]

\* A digest but for which chunks happen to be loaded.
Content(d) == [d EXCEPT !.chunks.loaded = {}]
-----------------------------------------------------------------------------
\* The export of each part into a snapshot.

ExportClaims(f) == f \cap ClaimFields
ExportLaws(f) == f \cap LawFields
\* An empty map of a treasury is skipped.
ExportOrgs(f) ==
  f \cap (OrgFields \ IF <<"orgs", "treasury">> \in f THEN {} ELSE Of("orgs", {"entry"}))
ExportContainers(f) == f \cap ContainerFields
ExportSigns(f) == f \cap Of("signs", {"text", "tick", "by"})
ExportConveyors(f) == f \cap Of("conveyors", {"dir"})
ExportSwitches(f) == f \cap Of("switches", {"on"})
ExportContracts(f) == f \cap ContractFields
ExportTrades(f) == f \cap TradeFields
ExportBoards(f) == f \cap BoardFields
ExportStructures(f) == f \cap StructureFields
\* Slip: the windows of the rate limits are left out.
ExportAgentsNoRates(f) == f \cap (AgentFields \ Of("agents", {"rates"}))
ExportAgents(f) == f \cap AgentFields
ExportStats(f) == f \cap StatsFields
\* Chunks are exported with their blocks.
ExportChunks(w) == [loaded |-> w.chunks,
  blocks |-> w.fields \cap ({"signs", "conveyors", "switches"} \X {"block"})]
\* Item entities that have expired are skipped.
ExportItems(now, items) == {e \in items : now < e}

Export(w, now) ==
  LET f == w.fields IN
  [tick |-> now, seed |-> w.seed, length |-> w.length, ids |-> w.ids, next |-> w.next,
   chunks |-> ExportChunks(w), items |-> ExportItems(now, w.items),
   fields |-> UNION {f \cap HeaderFields, ExportClaims(f), ExportLaws(f), ExportOrgs(f),
     ExportContainers(f), ExportSigns(f), ExportConveyors(f), ExportSwitches(f),
     ExportContracts(f), ExportTrades(f), ExportBoards(f), ExportStructures(f),
     ExportAgents(f), ExportStats(f)}]
-----------------------------------------------------------------------------
\* The import of each part of a snapshot s.

ImportClaims(s) == s.fields \cap ClaimFields
ImportLaws(s) == s.fields \cap LawFields
ImportOrgs(s) ==
  s.fields \cap (OrgFields \ IF <<"orgs", "treasury">> \in s.fields THEN {}
                             ELSE Of("orgs", {"entry"}))
ImportContainers(s) == s.fields \cap ContainerFields
\* A sign, a conveyor and a switch come back only where their block is.
BlockAt(s, part) == <<part, "block">> \in s.chunks.blocks
ImportSigns(s) == {f \in s.fields \cap SignFields : BlockAt(s, "signs")}
ImportConveyors(s) == {f \in s.fields \cap ConveyorFields : BlockAt(s, "conveyors")}
ImportSwitches(s) == {f \in s.fields \cap SwitchFields : BlockAt(s, "switches")}
ImportContracts(s) == s.fields \cap ContractFields
ImportTrades(s) == s.fields \cap TradeFields
ImportBoards(s) == s.fields \cap BoardFields
ImportStructures(s) == s.fields \cap StructureFields
\* InitDefaults takes a zero for a value that is missing, and gives the default.
Defaulted == Of("agents", {"spent", "shunned"})
ImportAgents(s) == s.fields \cap (AgentFields \ Defaulted)
ImportStats(s) == s.fields \cap StatsFields
ImportHeader(s) == s.fields \cap HeaderFields
ImportItems(s) == {e \in s.items : s.tick < e}
\* Slip: counters are rebuilt from the ids in use alone.
ImportCountersFromIds(s) == Greatest(s.ids)
\* Counters continue after the greatest id in use and after the saved counter.
ImportCounters(s) == Larger(Greatest(s.ids), s.next)
\* Slip: the configured setting wins.
ImportConfigTuned(s, tuned) == tuned
\* A setting of the snapshot wins over the configured one where it is positive.
ImportConfig(s, tuned) == IF s.length > 0 THEN s.length ELSE tuned

\* The world a snapshot restores; it resumes on the next tick.
Import(s, tuned) ==
  [tick |-> s.tick + 1, seed |-> s.seed, length |-> ImportConfig(s, tuned),
   chunks |-> s.chunks.loaded, items |-> ImportItems(s),
   ids |-> s.ids, next |-> ImportCounters(s),
   fields |-> s.chunks.blocks \cup UNION {ImportHeader(s), ImportClaims(s),
     ImportLaws(s), ImportOrgs(s), ImportContainers(s), ImportSigns(s),
     ImportConveyors(s), ImportSwitches(s), ImportContracts(s), ImportTrades(s),
     ImportBoards(s), ImportStructures(s), ImportAgents(s), ImportStats(s)}]
=============================================================================
