------------------------------- MODULE Upkeep -------------------------------
(***************************************************************************)
(* The tools that change what a project keeps from one run to the next:    *)
(* prune_snapshots.py moves obsolete snapshots to a trash directory, two   *)
(* updaters accept quarantine entries and a benchmark baseline that a run  *)
(* proposes, and migrate_identity_state.py rewrites a quarantine for a new *)
(* generation of test identities.  They read what runs leave behind, while *)
(* runs go on, the tests change and other tools work on the same files;    *)
(* a tool may be killed at any step.                                       *)
(***************************************************************************)
EXTENDS Integers, FiniteSets

CONSTANTS
  Tools,       \* processes of one of the tools
  Families,    \* the kept files that are considered, one family at a time
  Tests,       \* every test there may be
  Uses,        \* the snapshots a test refers to
  Place,       \* a snapshot's path below the batch: two roots may give the same
  Flaky,       \* the executions that the flake history calls suspect
  Measured,    \* tests that are benchmarks
  NamesOf,     \* the semantic names of a test: itself and its executions
  Schemes,     \* assignments of an id to each name, per identity generation
  Selections,  \* how runs choose their tests
  Endings,     \* how runs end
  MaxRuns, MaxEdits, MaxKills, MaxTime

Snapshots == UNION {Uses[t] : t \in Tests}
Names == UNION {NamesOf[t] : t \in Tests}

ASSUME UpkeepAssumption ==
  /\ IsFiniteSet(Tests) /\ Measured \subseteq Tests /\ Flaky \subseteq Names /\ Snapshots \subseteq DOMAIN Place
  /\ \A t \in Tests : t \in NamesOf[t]
  /\ Families \subseteq {"snapshots", "quarantine", "baseline"}
  /\ Selections \subseteq {"all", "paths", "filtered", "shard"}
  /\ Endings \subseteq {"green", "halted", "failed", "gated", "uncovered"}
  /\ Schemes # {} /\ \A s \in Schemes : DOMAIN s = {1, 2} /\ \A g \in {1, 2} : DOMAIN s[g] = Names
  \* An id that two generations share means the same names in both: a new codec
  \* leaves the ids of plain tests as they are.
  /\ \A s \in Schemes : \A m, n \in Names :
       s[1][m] = s[2][n] => s[1][n] = s[1][m] /\ s[2][m] = s[2][n]
  /\ {MaxRuns, MaxEdits, MaxKills, MaxTime} \subseteq Nat

VARIABLES
  family,      \* the files this behaviour is about: families share nothing
  now,         \* the second the clock shows
  scheme,      \* the ids of the names
  generation,  \* the identity generation of the framework
  tests,       \* the tests in the tree
  saved,       \* the bytes of each snapshot: the run that recorded them, 0 for none
  inventory,   \* snapshot-manifest.json of the last run
  reports,     \* the last report of each generation
  trash,       \* what was moved, and where to
  audits,      \* per batch: the operations prune.json lists as moved
  quarantine, baseline,
  output,      \* the document a migration writes
  tool,        \* per tool: which one, where it is, what it has read
  exit, runs, edits, kills

tree  == <<family, scheme, generation, tests, runs, edits>>
left  == <<inventory, reports>>
bin   == <<trash, audits>>
upkeepVars  == <<now, tree, saved, left, bin, quarantine, baseline, output, tool, exit, kills>>

None    == [whole |-> FALSE, run |-> 0]       \* no such file
Torn    == [whole |-> FALSE, run |-> -1]      \* a file whose writing was cut off
Running == -1
Killed  == 137

Unnamed == -1                                 \* no batch yet
Nothing == "nothing"                          \* no snapshot

\* What a tool remembers: where it is, the plan of a pruner, the document it
\* will write and the one it was made from.
Fresh(kind, at, write, stamp) ==
  [kind |-> kind, at |-> at, write |-> write, stamp |-> stamp, needed |-> {}, planned |-> {},
   moving |-> Nothing, moved |-> {}, doc |-> None, found |-> None]

UsedBy(some) == UNION {Uses[t] : t \in some}
Stored(st)   == {s \in Snapshots : st[s] # 0}
Id(g, n)     == scheme[g][n]
IdsOf(g)     == {Id(g, n) : n \in Names}

UpkeepInit ==
  /\ family \in Families /\ now = 0 /\ generation = 1
  /\ scheme \in (IF family = "quarantine" THEN Schemes ELSE {CHOOSE x \in Schemes : TRUE})
  /\ tests = Tests /\ saved = [s \in Snapshots |-> 0]
  /\ inventory = None /\ reports = [g \in {1, 2} |-> None]
  /\ trash = {} /\ audits = << >>
  /\ quarantine = None /\ baseline = None /\ output = None
  /\ tool = [p \in Tools |-> Fresh("none", "idle", FALSE, Unnamed)]
  /\ exit = [p \in Tools |-> Running]
  /\ runs = 0 /\ edits = 0 /\ kills = 0

-----------------------------------------------------------------------------
(* The world the tools live in                                             *)

Tick == /\ now < MaxTime /\ now' = now + 1
        /\ UNCHANGED <<tree, saved, left, bin, quarantine, baseline, output, tool, exit, kills>>

\* The tests of the project change.
Edit ==
  /\ edits < MaxEdits /\ edits' = edits + 1
  /\ \E some \in (SUBSET Tests) \ {{}, tests} : tests' = some
  /\ UNCHANGED <<now, family, scheme, generation, runs, saved, left, bin, quarantine, baseline, output,
                 tool, exit, kills>>

\* A version of the framework with another identity algorithm.
Upgrade ==
  /\ family = "quarantine" /\ generation = 1 /\ generation' = 2
  /\ UNCHANGED <<now, family, scheme, tests, runs, edits, saved, left, bin, quarantine, baseline, output,
                 tool, exit, kills>>

\* What a run of the tests seen, of which it executed ran, leaves behind.  -ff
\* also halts at a skipped test: then nothing has failed, the phases go on, and
\* the run counts as passed and completed.  A missing snapshot is recorded; a run
\* that updates records every snapshot it comes to.
Recorded(ran, update) ==
  [s \in Snapshots |-> IF s \in UsedBy(ran) /\ (update \/ saved[s] = 0) THEN runs + 1 ELSE saved[s]]
Complete(selection, end) == selection \in {"all", "paths"} /\ end \in {"green", "halted"}
Obsolete(selection, end, ran, after) ==
  IF Complete(selection, end) THEN Stored(after) \ UsedBy(ran) ELSE {}
Known(selection, seen) == IF selection = "paths" THEN seen ELSE tests

Report(selection, end, seen, ran) ==
  [whole |-> TRUE, run |-> runs + 1, generation |-> generation, known |-> Known(selection, seen),
   measured |-> IF family # "baseline" THEN << >>
                ELSE [selection |-> selection, end |-> end, benches |-> ran \intersect Measured]]

\* Uncovered is the report of a merged matrix whose coverage gate failed: unlike
\* that of a run, it leaves no row in the results.  Merged inventories are in
\* ShardMerge.
RunTests ==
  /\ runs < MaxRuns /\ runs' = runs + 1
  /\ \E selection \in Selections, end \in Endings, seen \in (SUBSET tests) \ {{}} :
     \E ran \in (SUBSET seen) \ {{}} :
       /\ (selection = "all") = (seen = tests)
       /\ (end = "halted") = (ran # seen)
       /\ end = "uncovered" => family # "snapshots"
       /\ IF family = "snapshots"
            THEN /\ \E update \in BOOLEAN : saved' = Recorded(ran, update)
                 /\ UNCHANGED reports
                 /\ inventory' = [whole |-> TRUE, complete |-> Complete(selection, end),
                                  obsolete |-> Obsolete(selection, end, ran, saved'),
                                  needed |-> UsedBy(tests)]
            ELSE /\ UNCHANGED <<saved, inventory>>
                 /\ reports' = [reports EXCEPT ![generation] =
                                   Report(selection, end, seen, ran)]
  /\ UNCHANGED <<now, family, scheme, generation, tests, edits, bin, quarantine, baseline, output,
                 tool, exit, kills>>

-----------------------------------------------------------------------------
(* Steps common to the tools                                               *)

World == UNCHANGED <<now, tree, left, kills>>
At(p, kind, stage) == tool[p].kind = kind /\ tool[p].at = stage
Ends(p, status) == /\ tool' = [tool EXCEPT ![p] = Fresh(@.kind, "ended", @.write, @.stamp)]
                   /\ exit' = [exit EXCEPT ![p] = status]
Goes(p, stage)  == tool' = [tool EXCEPT ![p].at = stage] /\ UNCHANGED exit
Holds(p, stage, doc, found) ==
  /\ tool' = [tool EXCEPT ![p].at = stage, ![p].doc = doc, ![p].found = found]
  /\ UNCHANGED exit

Kinds == CASE family = "snapshots" -> {"prune"} [] family = "baseline" -> {"baseline"}
           [] OTHER -> {"quarantine", "migrate"}

Begin(p) ==
  /\ tool[p].at = "idle"
  /\ \E kind \in Kinds, write \in BOOLEAN :
       /\ kind = "migrate" => write
       /\ tool' = [tool EXCEPT ![p] = Fresh(kind, "read", write, Unnamed)]
  /\ UNCHANGED <<saved, bin, quarantine, baseline, output, exit>> /\ World

Kill(p) ==
  /\ exit[p] = Running /\ tool[p].at # "idle"
  /\ kills < MaxKills /\ kills' = kills + 1
  /\ Ends(p, Killed)
  /\ UNCHANGED <<now, tree, left, saved, bin, quarantine, baseline, output>>

-----------------------------------------------------------------------------
(* prune_snapshots.py                                                      *)

Prune(p) == World /\ UNCHANGED <<quarantine, baseline, output>>

\* prune, first half: the manifest must be complete; whatever it calls obsolete
\* and is still there is planned, under a batch named by the second.
PlanPrune(p) ==
  /\ At(p, "prune", "read") /\ Prune(p) /\ UNCHANGED <<saved, bin>>
  /\ \/ ~(inventory.whole /\ inventory.complete) /\ Ends(p, 2)
     \/ /\ inventory.whole /\ inventory.complete
        /\ \/ ~tool[p].write /\ Ends(p, 0)
           \/ /\ tool[p].write
              /\ tool' = [tool EXCEPT ![p].at = "move", ![p].stamp = now,
                                      ![p].needed = inventory.needed,
                                      ![p].planned = inventory.obsolete \intersect Stored(saved)]
              /\ UNCHANGED exit

\* Fault: the entry of an earlier move is not looked for.
Taken_Unchecked(p, s) == FALSE

Taken(p, s) == \E x \in trash : x.stamp = tool[p].stamp /\ Place[x.of] = Place[s]

\* destination.exists() of the next planned snapshot.
CheckDestination(p) ==
  /\ At(p, "prune", "move") /\ Prune(p) /\ UNCHANGED <<saved, bin>>
  /\ \E s \in tool[p].planned :
       \/ Taken(p, s) /\ Ends(p, 2)
       \/ /\ ~Taken(p, s) /\ tool' = [tool EXCEPT ![p].at = "place", ![p].moving = s]
          /\ UNCHANGED exit

\* shutil.move, later: it replaces what is at its destination by then.
Trashed(p, s) ==
  {x \in trash : x.stamp # tool[p].stamp \/ Place[x.of] # Place[s]}
    \union {[stamp |-> tool[p].stamp, of |-> s, bytes |-> saved[s],
             needed |-> s \in tool[p].needed]}

Moved(p, moved) ==
  /\ tool' = [tool EXCEPT ![p].at = "move", ![p].planned = @ \ {tool[p].moving}, ![p].moved = moved]
  /\ UNCHANGED exit

Moves(p, s) ==
  /\ saved[s] # 0 /\ saved' = [saved EXCEPT ![s] = 0] /\ trash' = Trashed(p, s)
  /\ Moved(p, tool[p].moved \union {<<s, saved[s]>>})

\* Fault: a source that has gone in the meantime counts as moved.
MoveSnapshot_Lenient(p) ==
  /\ At(p, "prune", "place") /\ Prune(p) /\ UNCHANGED audits
  /\ \/ Moves(p, tool[p].moving)
     \/ /\ saved[tool[p].moving] = 0 /\ UNCHANGED <<saved, trash>>
        /\ Moved(p, tool[p].moved \union {<<tool[p].moving, 0>>})

MoveSnapshot(p) ==
  /\ At(p, "prune", "place") /\ Prune(p) /\ UNCHANGED audits
  /\ \/ saved[tool[p].moving] = 0 /\ Ends(p, 2) /\ UNCHANGED <<saved, trash>>
     \/ Moves(p, tool[p].moving)

\* prune.json, replaced as a whole, after the last move: here its moved rows.
WriteAudit(p) ==
  /\ At(p, "prune", "move") /\ tool[p].planned = {} /\ Prune(p) /\ UNCHANGED <<saved, trash>>
  /\ audits' = [b \in DOMAIN audits \union {tool[p].stamp} |->
                  IF b = tool[p].stamp THEN tool[p].moved ELSE audits[b]]
  /\ Ends(p, 0)

-----------------------------------------------------------------------------
(* update_quarantine.py and update_benchmark_baseline.py                   *)

\* The report of the last run; its proposals are written next to it.
Latest == reports[IF reports[2].run > reports[1].run THEN 2 ELSE 1]

Entries(doc)     == IF doc.whole THEN doc.entries ELSE << >>
Quarantined(doc) == {n \in Names : doc.whole /\ Id(doc.generation, n) \in DOMAIN doc.entries}

\* load_manifest: a manifest of another identity generation is refused.
Readable(doc, g) == doc = None \/ (doc.whole /\ doc.generation = g)

\* build_manifest: the chosen proposals join the entries that are there; an
\* entry that is renewed keeps its creation date.
\* Fault: only renewed entries are kept.
Updated_Fresh(doc, g, chosen) ==
  [whole |-> TRUE, generation |-> g, over |-> Names,
   entries |-> [i \in {Id(g, n) : n \in chosen} |-> IF i \in DOMAIN Entries(doc) THEN doc.entries[i] ELSE now]]

Updated(doc, g, chosen) ==
  [whole |-> TRUE, generation |-> g, over |-> Names,
   entries |-> [i \in DOMAIN Entries(doc) \union {Id(g, n) : n \in chosen} |->
                  IF i \in DOMAIN Entries(doc) THEN Entries(doc)[i] ELSE now]]

\* A dry run ends here; otherwise a temporary file is begun.
Prepared(p, doc, found) ==
  IF tool[p].write THEN Holds(p, "temp", doc, found) ELSE Ends(p, 0)

Update(p) == World /\ UNCHANGED <<saved, bin, output>>

BuildManifest(p) ==
  /\ At(p, "quarantine", "read") /\ Update(p) /\ UNCHANGED <<quarantine, baseline>>
  /\ \/ ~Latest.whole /\ Ends(p, 1)
     \/ /\ Latest.whole
        /\ \/ Ends(p, 1)                                    \* a test that is not proposed
           \/ /\ Readable(quarantine, Latest.generation)
              /\ \E chosen \in SUBSET (Flaky \intersect UNION {NamesOf[t] : t \in Latest.known}) :
                   Prepared(p, Updated(quarantine, Latest.generation, chosen), quarantine)

\* require_complete: the selection, the rows that block, and `gate` of the three
\* sections.  Whether the run reached all of its tests is not asked, and the
\* coverage section has no `gate`.
RequireComplete(r) ==
  r.measured.selection \in {"all", "paths"} /\ r.measured.end \in {"green", "halted", "uncovered"}

\* build: the measurements also need samples and one environment.
BuildBaseline(p) ==
  /\ At(p, "baseline", "read") /\ Update(p) /\ UNCHANGED <<quarantine, baseline>>
  /\ \/ Ends(p, 2)
     \/ /\ Latest.whole /\ RequireComplete(Latest) /\ Latest.measured.benches # {}
        /\ Prepared(p, Latest, baseline)

\* atomic_write: the temporary file is filled and flushed, then it replaces the
\* document.  Whoever is killed before leaves the document as it was.
Flush(p) ==
  /\ tool[p].at = "temp" /\ Update(p) /\ UNCHANGED <<quarantine, baseline>>
  /\ Goes(p, "flushed")

Replaces(p, doc) ==
  /\ quarantine' = IF tool[p].kind = "quarantine" THEN doc ELSE quarantine
  /\ baseline' = IF tool[p].kind = "baseline" THEN doc ELSE baseline
  /\ Ends(p, 0)

\* Fault: the file is renamed while it is being filled.
Replace_Unflushed(p) ==
  \/ tool[p].at = "temp" /\ Update(p) /\ Replaces(p, Torn)
  \/ tool[p].at = "flushed" /\ Update(p) /\ Replaces(p, tool[p].doc)

Replace(p) == tool[p].at = "flushed" /\ Update(p) /\ Replaces(p, tool[p].doc)

-----------------------------------------------------------------------------
(* migrate_identity_state.py                                               *)

Migrate(p) == World /\ UNCHANGED <<saved, bin, quarantine, baseline>>

\* pair_maps: old and new id of every name of the two inventories ...
PairMaps == {<<Id(1, n), Id(2, n)>> : n \in UNION {NamesOf[t] : t \in reports[1].known}}

\* ... and each id has one partner, in both directions.
\* Fault: two old ids may share a new one.
Unambiguous_OneWay(pairs) == \A x, y \in pairs : x[1] = y[1] => x[2] = y[2]
Unambiguous(pairs) == \A x, y \in pairs : (x[1] = y[1]) = (x[2] = y[2])

SameInventory == reports[1].whole /\ reports[2].whole /\ reports[1].known = reports[2].known

\* migrate_state: every entry needs a partner.
Mapped(doc, pairs) ==
  [whole |-> TRUE, generation |-> 2, over |-> UNION {NamesOf[t] : t \in reports[1].known},
   entries |-> [i \in {x[2] : x \in {y \in pairs : y[1] \in DOMAIN doc.entries}} |->
                  doc.entries[CHOOSE j \in DOMAIN doc.entries : <<j, i>> \in pairs]]]

Migratable ==
  /\ output = None /\ SameInventory /\ quarantine.whole
  /\ Unambiguous(PairMaps)
  /\ DOMAIN quarantine.entries \subseteq {x[1] : x \in PairMaps}

MigrateState(p) ==
  /\ At(p, "migrate", "read") /\ Migrate(p) /\ UNCHANGED output
  /\ \/ ~Migratable /\ Ends(p, 2)
     \/ /\ Migratable
        /\ Holds(p, "create", Mapped(quarantine, PairMaps), quarantine)

\* O_CREAT | O_EXCL, then the content: a kill in between leaves the name taken.
CreateOutput(p) ==
  /\ At(p, "migrate", "create") /\ Migrate(p)
  /\ \/ output # None /\ Ends(p, 2) /\ UNCHANGED output
     \/ output = None /\ output' = Torn /\ Goes(p, "fill")

FillOutput(p) ==
  /\ At(p, "migrate", "fill") /\ Migrate(p)
  /\ output' = [whole |-> TRUE, doc |-> tool[p].doc, source |-> tool[p].found] /\ Ends(p, 0)

\* People review the output and put it in place, or remove it.
Adopt ==
  /\ output # None
  /\ \A p \in Tools : ~At(p, "migrate", "fill")
  /\ output' = None
  /\ quarantine' \in {quarantine} \union (IF output.whole THEN {output.doc} ELSE {})
  /\ UNCHANGED <<now, tree, saved, left, bin, baseline, tool, exit, kills>>

-----------------------------------------------------------------------------
ToolStep(p) ==
  \/ Begin(p) \/ Kill(p)
  \/ PlanPrune(p) \/ CheckDestination(p) \/ MoveSnapshot(p) \/ WriteAudit(p)
  \/ BuildManifest(p) \/ BuildBaseline(p) \/ Flush(p) \/ Replace(p)
  \/ MigrateState(p) \/ CreateOutput(p) \/ FillOutput(p)

Done == (\A p \in Tools : exit[p] # Running) /\ UNCHANGED upkeepVars

UpkeepNext == Tick \/ Edit \/ Upgrade \/ RunTests \/ Adopt \/ (\E p \in Tools : ToolStep(p)) \/ Done

UpkeepSpec == UpkeepInit /\ [][UpkeepNext]_upkeepVars
-----------------------------------------------------------------------------
Bytes == {<<s, saved[s]>> : s \in Stored(saved)} \union {<<x.of, x.bytes>> : x \in trash}

\* Two pruners that began in one second share a batch.
Crowded(stamp) == \E p, q \in Tools : p # q /\ tool[p].stamp = stamp /\ tool[q].stamp = stamp

\* Pruning is recoverable: whatever pruners do side by side, to roots that share
\* file names, and wherever they stop, the bytes of each snapshot are in the store
\* or in the trash, as docs/SNAPSHOTS.md, 137-138 (no trash overwrites) has it.
\* The one exception is the code's: of two pruners of one second, one may pass
\* the check of a path before the other moves a file there, and replaces it.
NothingLost ==
  [][runs' = runs =>
       \A b \in Bytes \ Bytes' : \E x \in trash : b = <<x.of, x.bytes>> /\ Crowded(x.stamp)]_upkeepVars

\* prune.json tells where to find what was moved: its moved operations are what
\* is in the trash of its batch, with the bytes the store had, no more and no
\* less, although it is written long after the first move.  In a batch that two
\* pruners share the audit is the last one's: a prune repeated within the second
\* replaces it by an empty one.
AuditRestores ==
  \A stamp \in DOMAIN audits :
    Crowded(stamp) \/ audits[stamp] = {<<x.of, x.bytes>> : x \in {y \in trash : y.stamp = stamp}}

\* Quarantine and baseline are whole at any time, also between the steps of a
\* tool that is killed there.  A baseline comes from all files, from results
\* without a blocking failure and from no report whose snapshot or benchmark gate
\* failed.  That is less than the complete green report of docs/CI.md, 197-198: a
\* run that halted, and a merged matrix whose coverage gate failed, are taken.
DocumentsAreEarned ==
  /\ quarantine # None => quarantine.whole
  /\ baseline # None => /\ baseline.whole /\ baseline.measured.benches # {}
                        /\ baseline.measured.end \notin {"failed", "gated"}
                        /\ baseline.measured.selection \in {"all", "paths"}

\* A quarantined test stays quarantined, with its creation date, when other
\* proposals are accepted and when its id changes: only an update that began
\* before another one ended undoes that one.
UpdatesAccumulate ==
  [][quarantine' # quarantine =>
       \/ \A n \in Quarantined(quarantine) \intersect quarantine'.over :
            /\ n \in Quarantined(quarantine')
            /\ quarantine'.entries[Id(quarantine'.generation, n)]
                 = quarantine.entries[Id(quarantine.generation, n)]
       \/ \E p \in Tools : /\ tool[p].at = "flushed" /\ tool[p].doc = quarantine'
                            /\ tool[p].found # quarantine
       \/ output.whole /\ output.doc = quarantine' /\ output.source # quarantine]_upkeepVars

\* Ids of one generation name the tests they were accepted for: an output holds
\* exactly the tests of its source, and no manifest mixes two generations.
IdsMeanTests ==
  /\ DOMAIN Entries(quarantine) # {} =>
       DOMAIN Entries(quarantine) \subseteq IdsOf(quarantine.generation)
  /\ output.whole => Quarantined(output.doc) \intersect output.doc.over
                       = Quarantined(output.source) \intersect output.doc.over

\* docs/SNAPSHOTS.md, 118-120: a run that did not reach all tests is partial, so
\* no unseen file is called obsolete and moved away.
PrunedWereUnused == \A x \in trash : ~x.needed
=============================================================================
