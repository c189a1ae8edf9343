--------------------------- MODULE ServerHistory ---------------------------
(***************************************************************************)
(* One world of a server over its crashes and restarts: the world's loop,  *)
(* the sink and the writer of snapshots, the snapshot files, the season    *)
(* archive, and the tick log that cmd/replay reads.                        *)
(*                                                                         *)
(* The loop hands snapshots to a channel of two places and a goroutine     *)
(* writes them.  A periodic or an admin snapshot is dropped when the       *)
(* channel is full; the one that ends a season waits.  A file is truncated *)
(* before it is written, so a crash or an error leaves a torn file under   *)
(* its name.  A start resumes from the file with the greatest tick and     *)
(* gives up when it cannot be read.                                        *)
(***************************************************************************)
EXTENDS WorldState

CONSTANTS
  Tunings,       \* the season lengths the tuning file may give
  SnapshotEvery, \* ticks between periodic snapshots
  CleanupEvery,  \* ticks between removals of expired item entities
  DirectorEvery, \* ticks between evaluations of the director
  ItemLife,      \* ticks until a dropped item expires
  Batches,       \* the sequences of inputs a tick may apply
  MaxTick,       \* bound on ticks
  MaxBatches,    \* bound on batches of inputs and admin requests
  MaxRuns,       \* bound on the starts of the server
  None           \* "no value"

ASSUME TuningsAssumption == Tunings # {} /\ Tunings \subseteq Nat \ {0}
ASSUME PeriodsAssumption == {SnapshotEvery, CleanupEvery, DirectorEvery} \subseteq Nat \ {0}
ASSUME BoundsAssumption == {ItemLife, MaxTick, MaxBatches, MaxRuns} \subseteq Nat

Inputs == {"join", "live", "starve", "eat", "land", "build", "offer", "decline", "post", "drop", "org",
           "deposit", "withdraw"}

ASSUME BatchesAssumption == Batches \subseteq Seq(Inputs)

SinkCap == 2
Ticks == 0..MaxTick
Torn == [torn |-> TRUE]

\* SnapshotV1.
Snapshots ==
  [tick : Ticks, seed : Nat, length : Nat, fields : SUBSET Fields, items : SUBSET Nat,
   ids : SUBSET Nat, next : Nat,
   chunks : [loaded : SUBSET Chunks,
             blocks : SUBSET ({"signs", "conveyors", "switches"} \X {"block"})]]
File == [torn : {FALSE}, tick : Ticks, run : 1..MaxRuns, snap : Snapshots]

ASSUME NoneAssumption == None \notin Worlds \cup Ticks \cup Snapshots \cup File \cup {Torn}

VARIABLES
  world,   \* the world the server runs; None while the server is down
  run,     \* starts so far
  tuned,   \* season_length_ticks of the tuning file
  sink,    \* World.snapshotSink
  writer,  \* the snapshot the writer goroutine is writing
  files,   \* snapshots/<tick>.snap.zst
  archive, \* archives/season_<n>: season and the tick of the archived snapshot
  log,     \* events/*.jsonl.zst
  given,   \* batches of inputs and admin requests so far
  broken,  \* whether a snapshot could not be written or archived
  ended    \* history: the seasons that were rolled over, with the run

vars == <<world, run, tuned, sink, writer, files, archive, log, given, broken, ended>>

Up == world # None
\* A file that can be read holds a snapshot and the run that took it.
Whole(t) == files[t] # None /\ files[t] # Torn

TypeOK ==
  /\ world \in Worlds \cup {None}
  /\ run \in 0..MaxRuns /\ tuned \in Tunings /\ given \in 0..MaxBatches
  /\ sink \in Seq(Snapshots) /\ Len(sink) <= SinkCap
  /\ writer \in Snapshots \cup {None}
  /\ writer # None => Up /\ files[writer.tick] = Torn
  /\ files \in [Ticks -> File \cup {Torn, None}]
  /\ \A t \in Ticks : Whole(t) => files[t].tick = t /\ files[t].run \in 1..run
  /\ broken \in BOOLEAN
  /\ archive \subseteq [season : Nat, tick : Ticks]
  /\ ended \subseteq [season : Nat, run : 1..MaxRuns]

Init ==
  /\ world = None /\ run = 0 /\ tuned \in Tunings
  /\ sink = <<>> /\ writer = None
  /\ files = [t \in Ticks |-> None]
  /\ archive = {} /\ log = <<>> /\ given = 0 /\ broken = FALSE /\ ended = {}

-----------------------------------------------------------------------------
\* One tick of a world.

\* A new season keeps organizations but for their treasury, and of agents who
\* they are, their reputation and their memory.
KeptAgentFields ==
  Of("agents", {"id", "name", "org", "world", "cooldown", "reputation", "shunned", "memory"})
KeptOrgFields(f) ==
  (f \cap (OrgFields \ Of("orgs", {"entry", "treasury"})))
    \cup IF f \cap OrgFields = {} THEN {} ELSE Of("orgs", {"entry"})

ResetWorld(w) ==
  [w EXCEPT !.seed = @ + 1, !.chunks = {}, !.items = {}, !.ids = {},
            !.fields = (@ \cap KeptAgentFields) \cup KeptOrgFields(@)]

SeasonEnds(w) == w.length > 0 /\ w.tick # 0 /\ w.tick % w.length = 0

Rollover(w) == IF SeasonEnds(w) THEN ResetWorld(w) ELSE w

Has(w, part) == \E f \in w.fields : f[1] = part
NewId(w) == [w EXCEPT !.next = @ + 1, !.ids = @ \cup {w.next + 1}]
Touch(w, fs) == [w EXCEPT !.fields = @ \cup fs]

\* What an input changes.  Acts need an agent; a post is refused within the
\* window of its rate limit.
Apply(w, input) ==
  IF input = "join" THEN Touch(w, Of("agents", {"id", "name", "world"}))
  ELSE IF ~Has(w, "agents") THEN w
  ELSE
  CASE input = "live" ->
         Touch(w, Of("agents", {"body", "fun", "seen", "decay", "inventory", "memory",
                                "reputation", "move", "work"}) \cup StatsFields)
    [] input = "starve" -> Touch(w, Of("agents", {"spent", "shunned"}))
    [] input = "eat" -> [w EXCEPT !.fields = @ \ Of("agents", {"spent"})]
    [] input = "land" -> Touch(w, ClaimFields \cup LawFields)
    [] input = "build" -> Touch(w, UNION {ContainerFields, SignFields, ConveyorFields,
                                          SwitchFields, StructureFields})
    [] input = "offer" -> NewId(Touch(w, TradeFields \cup ContractFields))
    [] input = "decline" -> [w EXCEPT !.ids = @ \ {Greatest(@)}, !.fields = @ \ TradeFields]
    [] input = "post" ->
         IF <<"agents", "rates">> \in w.fields THEN w
         ELSE NewId(Touch(w, BoardFields \cup Of("agents", {"rates"})))
    [] input = "drop" -> NewId([w EXCEPT !.items = @ \cup {w.tick + ItemLife}])
    [] input = "org" ->
         Touch(w, (OrgFields \ Of("orgs", {"entry", "treasury"})) \cup Of("agents", {"org"}))
    [] input = "deposit" /\ Has(w, "orgs") -> Touch(w, Of("orgs", {"entry", "treasury"}))
    [] input = "withdraw" -> [w EXCEPT !.fields = @ \ Of("orgs", {"treasury"})]
    [] OTHER -> w

\* Expired item entities are removed now and then.
Cleanup(w) ==
  IF w.tick % CleanupEvery = 0 THEN [w EXCEPT !.items = {e \in @ : w.tick < e}] ELSE w

\* The director chooses by the statistics; what an event spawns overwrites
\* blocks and leaves the sign, conveyor or switch that was recorded there.
Direct(w) ==
  IF w.tick # 0 /\ w.tick % DirectorEvery = 0 /\ <<"stats", "seen">> \in w.fields
  THEN [w EXCEPT !.fields = (@ \cup Of("header", {"event"}))
                              \ ({"signs", "conveyors", "switches"} \X {"block"})]
  ELSE w

\* Observations load the chunks around an agent that walks; they are built for
\* connected agents only, and a replay connects none.
Observe(w, connected) ==
  IF connected /\ <<"agents", "move">> \in w.fields THEN [w EXCEPT !.chunks = Chunks] ELSE w

\* The inputs of a tick, in their order.
ApplyAll(w, inputs) ==
  LET after[n \in 0..Len(inputs)] ==
        IF n = 0 THEN w ELSE Apply(after[n - 1], inputs[n])
  IN  after[Len(inputs)]

\* The whole step.
Step(w, inputs, connected) ==
  LET done == Observe(Direct(Cleanup(ApplyAll(Rollover(w), inputs))), connected)
  IN  [done EXCEPT !.tick = @ + 1]

-----------------------------------------------------------------------------
\* Starts, stops and the writer.

\* The newest snapshot file by the tick in its name.
\* Slip: the first file the directory lists is taken.
LatestSnapshotFirst ==
  LET there == {t \in Ticks : files[t] # None}
  IN  IF there = {} THEN None ELSE CHOOSE t \in there : \A u \in there : t <= u
LatestSnapshot ==
  LET there == {t \in Ticks : files[t] # None}
  IN  IF there = {} THEN None ELSE Greatest(there)

\* A start takes the newest snapshot, or a fresh world; it gives up on a torn
\* file.  The snapshot's season length wins over the tuning file's.
Start ==
  /\ ~Up /\ run < MaxRuns
  /\ run' = run + 1
  /\ IF LatestSnapshot = None THEN world' = Fresh(0, tuned)
     ELSE /\ Whole(LatestSnapshot)
          /\ world' = Import(files[LatestSnapshot].snap, tuned)
  /\ UNCHANGED <<tuned, sink, writer, files, archive, log, given, broken, ended>>

\* While the server is down the operator may edit the tuning file.
Tune ==
  /\ ~Up /\ run > 0
  /\ tuned' \in Tunings \ {tuned}
  /\ UNCHANGED <<world, run, sink, writer, files, archive, log, given, broken, ended>>

\* The process ends, orderly or not.  Entries the log's encoder still held are
\* gone; a file being written stays torn.
Crash ==
  /\ Up
  /\ world' = None /\ sink' = <<>> /\ writer' = None
  /\ \E k \in 0..Len(log) :
       /\ \A i \in k+1..Len(log) : log[i].run = run
       /\ log' = SubSeq(log, 1, k)
  /\ UNCHANGED <<run, tuned, files, archive, given, broken, ended>>

Offer(q, snap) == IF Len(q) < SinkCap THEN Append(q, snap) ELSE q

\* The snapshot that ends a season is sent whatever it takes: the loop waits.
OfferSeason(q, snap) == Append(q, snap)
SinkReady(q) == Len(q) < SinkCap

OfferPeriodic(q, w) ==
  IF w.tick # 1 /\ (w.tick - 1) % SnapshotEvery = 0 THEN Offer(q, Export(w, w.tick - 1)) ELSE q

\* One round of the loop: the rollover, the inputs and systems, the log entry,
\* the periodic snapshot, and then the admin snapshot if one was asked for.
Tick ==
  /\ Up /\ world.tick < MaxTick
  /\ SeasonEnds(world) => SinkReady(sink)
  /\ \E inputs \in Batches \cup {<<>>}, admin \in BOOLEAN :
       LET next == Step(world, inputs, TRUE)
           s1 == IF SeasonEnds(world) THEN OfferSeason(sink, Export(world, world.tick - 1))
                                      ELSE sink
           s2 == OfferPeriodic(s1, next)
       IN
       /\ given' = given + (IF inputs = <<>> THEN 0 ELSE 1) + (IF admin THEN 1 ELSE 0)
       /\ given' <= MaxBatches
       /\ world' = next
       /\ log' = Append(log, [run |-> run, tick |-> world.tick, inputs |-> inputs,
                              digest |-> Digest(next, world.tick)])
       /\ sink' = IF admin THEN Offer(s2, Export(next, next.tick - 1)) ELSE s2
  /\ ended' = IF SeasonEnds(world)
              THEN ended \cup {[season |-> world.tick \div world.length, run |-> run]}
              ELSE ended
  /\ UNCHANGED <<run, tuned, writer, files, archive, broken>>

\* The writer opens the file of the next snapshot, which truncates it.
OpenFile ==
  /\ Up /\ writer = None /\ sink # <<>>
  /\ writer' = Head(sink) /\ sink' = Tail(sink)
  /\ files' = [files EXCEPT ![Head(sink).tick] = Torn]
  /\ UNCHANGED <<world, run, tuned, archive, log, given, broken, ended>>

\* A snapshot of a season's last tick is copied into the archive.
\* Slip: the snapshot of the first tick of the next season is taken instead.
ArchivedLate(s) ==
  IF s.length > 0 /\ s.tick # 0 /\ s.tick % s.length = 0
  THEN {[season |-> s.tick \div s.length, tick |-> s.tick]} ELSE {}
Archived(s) ==
  IF s.length > 0 /\ (s.tick + 1) % s.length = 0
  THEN {[season |-> (s.tick + 1) \div s.length, tick |-> s.tick]} ELSE {}

\* The copy may fail, which is only logged; at most one failure is modelled.
CloseFile ==
  /\ writer # None
  /\ files' = [files EXCEPT ![writer.tick] =
                 [torn |-> FALSE, tick |-> writer.tick, run |-> run, snap |-> writer]]
  /\ \/ archive' = archive \cup Archived(writer) /\ UNCHANGED broken
     \/ ~broken /\ Archived(writer) # {} /\ broken' = TRUE /\ UNCHANGED archive
  /\ writer' = None
  /\ UNCHANGED <<world, run, tuned, sink, log, given, ended>>

\* Writing fails: the torn file stays and the writer goes on.
FailFile ==
  /\ writer # None /\ ~broken
  /\ broken' = TRUE /\ writer' = None
  /\ UNCHANGED <<world, run, tuned, sink, files, archive, log, given, ended>>

Next == Start \/ Tune \/ Crash \/ Tick \/ OpenFile \/ CloseFile \/ FailFile

Spec == Init /\ [][Next]_vars

\* The loop and the writer keep running while the process does.
FairSpec == Spec /\ WF_vars(OpenFile) /\ WF_vars(CloseFile \/ FailFile)

-----------------------------------------------------------------------------
\* cmd/replay: a snapshot file and the entries its run logged after it.  "same"
\* is its verdict, from whole digests; "alike" leaves out the loaded chunks, which
\* a replay without connections does not load.

Follows(e, file) == e.run = file.run /\ e.tick > file.tick

ReplayEntry(at, e) ==
  LET next == Step(at.world, e.inputs, FALSE)
  IN  [world |-> next,
       same |-> /\ at.same
                /\ at.world.tick = e.tick
                /\ Digest(next, e.tick) = e.digest,
       alike |-> /\ at.alike
                 /\ at.world.tick = e.tick
                 /\ Content(Digest(next, e.tick)) = Content(e.digest)]

Replay(file) ==
  LET at[n \in 0..Len(log)] ==
        IF n = 0 THEN [world |-> Import(file.snap, tuned), same |-> TRUE, alike |-> TRUE]
        ELSE IF Follows(log[n], file) THEN ReplayEntry(at[n - 1], log[n])
        ELSE at[n - 1]
  IN  at[Len(log)]

\* Whether the file restores what its run logged for its tick.
Complete(file) ==
  \E i \in DOMAIN log :
    /\ log[i].run = file.run /\ log[i].tick = file.tick
    /\ log[i].digest = Digest(Import(file.snap, tuned), file.tick)

\* Whether the run stayed in the file's season and loaded no chunk after it.
Settled(file) ==
  \A i \in DOMAIN log : Follows(log[i], file) =>
    /\ log[i].digest.seed = file.snap.seed
    /\ log[i].digest.chunks.loaded = file.snap.chunks.loaded

-----------------------------------------------------------------------------
\* Properties.

\* The parts of a world that a restart is known to change: the empty entry of a
\* treasury, hunger, stamina and reputations of zero, which become their defaults,
\* and signs, conveyors and switches whose block was replaced.
Lost(f) ==
  (IF <<"orgs", "treasury">> \in f THEN {} ELSE Of("orgs", {"entry"}))
    \cup Defaulted
    \cup {x \in f : x[1] \in {"signs", "conveyors", "switches"}
                      /\ <<x[1], "block">> \notin f}

\* A snapshot taken now would restore the running world, tick and counters
\* included, but for what is known to be left out.
RestoreKeeps ==
  Up /\ world.tick > 0 =>
    LET back == Import(Export(world, world.tick - 1), tuned) IN
    /\ back.fields = world.fields \ Lost(world.fields)
    /\ back.items = {e \in world.items : world.tick - 1 < e}
    /\ [back EXCEPT !.fields = world.fields, !.items = world.items] = world

\* Replaying the log of a run from a complete snapshot of that run gives at every
\* tick what was logged but for the loaded chunks; and cmd/replay, which compares
\* them too, accepts the log if the run was settled after the snapshot.
ReplayFaithful ==
  \A t \in Ticks : Whole(t) /\ Complete(files[t]) =>
    LET verdict == Replay(files[t]) IN
    verdict.alike /\ (Settled(files[t]) => verdict.same)

\* A world enters each of its seasons exactly once, however often the server
\* restarts around the rollover and whatever the tuning file says by then.
SeasonOnce == Up /\ world.tick > 0 => world.seed = (world.tick - 1) \div world.length

\* A season that has been archived is over: no restart goes back into it.
SeasonsStayEnded == Up => \A a \in archive : world.tick > a.tick

\* Whether a season that ended in this run has no archive yet.
Unarchived == Up /\ \E e \in ended : e.run = run /\ \A a \in archive : a.season # e.season

\* Every season that ends is archived, unless its file cannot be written, its
\* archive copy fails, or the server stops first.
SeasonArchived == Unarchived ~> (broken \/ ~Unarchived)
=============================================================================
