----------------------------- MODULE ShardMerge -----------------------------
(***************************************************************************)
(* A matrix of shards and tools/merge_shards.py, which turns their reports *)
(* and coverage artifacts into one verdict.  Jobs run the shards, each in  *)
(* a directory of its own and possibly again; a run writes coverage.json   *)
(* before test-results.json, and the merger reads all reports before any   *)
(* coverage.  What the merger writes is coverage.json and, later, the      *)
(* merged test-results.json; its exit status is the verdict.               *)
(***************************************************************************)
EXTENDS ReportContract, Sequences, SequencesExt

CONSTANTS
  Dirs,       \* artifact directories, numbered as the shard that belongs there
  Execs,      \* the shardable executions: tests or cases
  Slot,       \* the hash of an execution, from which its shard follows
  HitBy,      \* the sites an execution reaches
  HookSites,  \* the sites reached outside every test
  Benches,    \* the executions that are benchmarks
  Alpha,      \* significance level, on the scale on which 1.0 is PScale
  PScale,
  Stored,     \* snapshots that lie in the stores
  Confs,      \* the effective configurations considered
  Outcomes,   \* what a run of a shard may be like
  MaxRuns, MaxMerges, MaxFaults

ASSUME ShardAssumption ==
  /\ IsFiniteSet(Execs) /\ Framework \notin Execs /\ Execs \intersect Reserved = {}
  /\ Dirs \subseteq Nat /\ Slot \in [Execs -> Nat]
  /\ HitBy \in [Execs -> SUBSET Sites] /\ HookSites \subseteq Sites /\ Benches \subseteq Execs
  /\ Alpha \in Nat /\ PScale \in Nat
  /\ \A c \in Confs : /\ c.shards \in Nat \ {0} /\ c.contexts \in Nat
                      /\ {c.coverage, c.baseline} \subseteq BOOLEAN
                      /\ c.comparable \subseteq c.known
                      /\ c.known \subseteq (IF c.baseline THEN Benches ELSE {})
  /\ {MaxRuns, MaxMerges, MaxFaults} \subseteq Nat
  /\ \A o \in Outcomes : /\ o.conf \in Confs /\ o.skew \in Nat
                         /\ {o.muted, o.crash, o.reporter} \subseteq BOOLEAN
                         /\ o.p \in [Execs -> 0 .. PScale] /\ o.slower \subseteq Execs

VARIABLES
  conf,      \* the configuration the matrix is meant to use
  revision,  \* the revision that a job checks out
  faults,    \* deviations that may still happen
  runs,      \* every run started so far: the run id is its position
  disk,      \* what the directory of a shard holds: run ids, 0 for no file
  stage,     \* the merger: "idle", "read", "check", "coverage" or "publish"
  paths,     \* the directories it was given
  read,      \* run ids of the reports it has read
  covers,    \* run ids of the coverage artifacts it has merged
  merges,    \* mergers started
  dest,      \* what the destination holds: the run ids merged into each file
  last       \* the last merger that ended: exit code and what it had read

env    == <<conf, revision, faults, runs, disk>>
merger == <<stage, paths, read, covers, merges>>
vars   == <<env, merger, dest, last>>

-----------------------------------------------------------------------------
(* A job runs one shard: job.is tells what the run is like.  It writes two  *)
(* documents, the coverage artifact and the report.                        *)

Index(job) == (job.dir + job.is.skew) % job.is.conf.shards
Assigned(job, e) == Slot[e] % job.is.conf.shards
Known(job)    == Execs \ job.is.unknown
Selected(job) == {e \in Known(job) : Assigned(job, e) = Index(job)}
Ran(job)      == Selected(job) \ job.is.cut

Mode(c) == [k \in {"statement", "branch"} |-> k \in c.modes]

SiteOf(job, s) ==
  LET on == KindOf[s] \in job.is.conf.modes \union {"function"}
      loaded == s \notin job.is.unloaded
      inst == loaded /\ on /\ s \in Eligible
  IN [loaded |-> loaded, instrumented |-> inst,
      reason |-> CASE KindOf[s] = "branch" /\ ~on -> "branch_mode_disabled"
                   [] KindOf[s] # "branch" /\ "statement" \notin job.is.conf.modes ->
                        "statement_mode_disabled"
                   [] KindOf[s] # "function" /\ s \notin Eligible -> "unsupported"
                   [] OTHER -> IF loaded THEN "none" ELSE "source_not_loaded",
      hits |-> IF inst THEN Cardinality({e \in Ran(job) : s \in HitBy[e]})
                            + (IF s \in HookSites THEN 1 ELSE 0)
               ELSE 0]

\* Test contexts beyond the limit are folded into one.
ContextsOf(job, working) ==
  LET by(S) == Cardinality(S \intersect working)
      tests == {e \in Ran(job) : by(HitBy[e]) > 0}
      limit == job.is.conf.contexts
      kept == IF Cardinality(tests) =< limit THEN tests
              ELSE CHOOSE T \in SUBSET tests : Cardinality(T) = limit
      folded == IF limit > 0 THEN tests \ kept ELSE {}
      hooks == IF limit > 0 THEN by(HookSites) ELSE 0
      ids == (IF limit > 0 THEN kept ELSE {})
               \union (IF hooks > 0 THEN {Unattributed} ELSE {})
               \union (IF folded # {} THEN {Overflow} ELSE {})
  IN [enabled |-> limit > 0, limit |-> limit,
      hits |-> [c \in ids |-> CASE c = Unattributed -> hooks
                                [] c = Overflow -> MapThenSumSet(LAMBDA e : by(HitBy[e]), folded)
                                [] OTHER -> by(HitBy[c])],
      stored |-> Cardinality(ids \ Reserved), unattributed |-> hooks,
      overflows |-> Cardinality(folded), truncated |-> folded # {}]

Coverage(job) ==
  LET sites == [s \in Sites |-> SiteOf(job, s)]
      counts == Counts(sites)
      mode == Mode(job.is.conf)
  IN [run |-> job.id, sites |-> sites,
      contexts |-> ContextsOf(job, {s \in Sites : sites[s].instrumented}),
      sum |-> [counts |-> counts, mode |-> mode, fallen |-> Fallen(sites),
               complete |-> [k \in {"statement", "branch"} |->
                  mode[k] /\ counts[k].eligible > 0
                          /\ counts[k].instrumented = counts[k].eligible]]]

\* The section of a report that an artifact's summary leads to.
GatesOf(counts, c) ==
  [g \in Gates |-> LET ratio == Ratio(g, counts)
                       floor == IF g \in DOMAIN c.minimum THEN c.minimum[g] ELSE 0
                   IN [ratio |-> ratio, minimum |-> floor, measurable |-> Measured(ratio),
                       passed |-> Passes(ratio, floor)]]
Section(sum, c) ==
  [enabled |-> TRUE, sum |-> sum, gates |-> GatesOf(sum.counts, c),
   allowPartial |-> c.allowPartial,
   partialLines |-> Partial(sum, "statement"), partialBranches |-> Partial(sum, "branch")]
Judged(section, passed) == [passed |-> passed] @@ section

\* What ends up as a row of the run itself: a failure outside every test, or a
\* failed coverage gate, whose message quotes the numbers.
Trouble(job, cov) ==
  [load |-> job.is.crash,
   gate |-> IF cov = NoCoverage \/ cov.passed THEN << >> ELSE <<cov.sum.counts["function"].hit>>]
NoTrouble == [load |-> FALSE, gate |-> << >>]

RowsOf(job, trouble) ==
  [e \in Ran(job) \union (IF trouble = NoTrouble THEN {} ELSE {Framework}) |->
     IF e = Framework
     THEN [status |-> "error", muted |-> FALSE, quarantined |-> FALSE, says |-> trouble]
     ELSE [status |-> IF e \in job.is.bad THEN "fail" ELSE "pass",
           muted |-> e \in job.is.bad /\ job.is.muted,
           quarantined |-> job.is.muted, says |-> NoTrouble]]

TestsOf(job, trouble) ==
  [e \in Known(job) \union (IF trouble = NoTrouble THEN {} ELSE {Framework}) |->
     IF e = Framework THEN [assigned |-> 0, selected |-> TRUE, shardable |-> FALSE]
     ELSE [assigned |-> Assigned(job, e), selected |-> e \in Selected(job), shardable |-> TRUE]]

\* The snapshots that executions E compare with, or declare while they run;
\* conf.declares are those that a test file declares as it is loaded.
Uses(c, E) == UNION {c.uses[e] : e \in E \intersect DOMAIN c.uses}

\* The inventory of a shard is never complete; what nothing in this shard uses
\* or declares is unverified.
SnapshotsOf(job) ==
  LET c == job.is.conf
      used == Uses(c, Ran(job)) \union c.declares
  IN [enabled |-> c.audit, complete |-> FALSE, reasons |-> {"sharded"},
      entries |-> [n \in (IF c.audit THEN used \union Stored ELSE {}) |->
                     [referenced |-> n \in used, exists |-> n \in Stored]],
      gated |-> c.snapGate, passed |-> ~c.snapGate]

\* p-values in ascending order.
Ascending(p) ==
  CHOOSE order \in Bijection(1 .. Cardinality(DOMAIN p), DOMAIN p) :
    \A j, k \in DOMAIN order : j < k => p[order[j]] =< p[order[k]]

\* Fault: no running maximum.
Holm_NotMonotone(p) ==
  LET order == Ascending(p)
      m == Cardinality(DOMAIN p)
      rank(e) == CHOOSE k \in 1 .. m : order[k] = e
  IN [e \in DOMAIN p |-> Min({(m - rank(e) + 1) * p[e], PScale})]

\* Holm's step-down correction, as the code computes it: in ascending order the
\* multipliers fall from the size of the family to 1, and no adjusted value is
\* below one before it.
Holm(p) ==
  LET order == Ascending(p)
      m == Cardinality(DOMAIN p)
      scaled(k) == (m - k + 1) * p[order[k]]
      rank(e) == CHOOSE k \in 1 .. m : order[k] = e
      adjusted(e) == Max({scaled(j) : j \in 1 .. rank(e)})
  IN [e \in DOMAIN p |-> Min({adjusted(e), PScale})]

\* benchmarkRawComparison: a benchmark is compared if the baseline has it, with
\* the same workload, environment and enough samples; slower is a change for the
\* worse of practical size.
RawOf(job, e) ==
  LET c == job.is.conf
  IN [p |-> IF e \in c.comparable THEN job.is.p[e] ELSE PScale,
      found |-> e \in c.known, comparable |-> e \in c.comparable, slower |-> e \in job.is.slower]

\* classifyBenchmarkComparisons: the family to correct are the comparable ones.
Comparisons(raw) ==
  LET tested == {e \in DOMAIN raw : raw[e].comparable}
      holm == Holm([e \in tested |-> raw[e].p])
  IN [e \in DOMAIN raw |->
        [raw |-> raw[e], adjusted |-> IF e \in tested THEN holm[e] ELSE raw[e].p,
         regressed |-> e \in tested /\ holm[e] =< Alpha /\ raw[e].slower]]

\* What the benchmark gate asks for: a baseline that was loaded and that knows
\* everything measured, a measurement at all, and no regression.
BenchPasses(baseline, compared) ==
  /\ baseline /\ DOMAIN compared # {}
  /\ \A e \in DOMAIN compared : compared[e].raw.found /\ ~compared[e].regressed

\* A shard of several defers its gate to the merger.
BenchOf(job) ==
  LET c == job.is.conf
      measured == IF c.bench THEN (Ran(job) \intersect Benches) \ job.is.bad ELSE {}
      compared == Comparisons([e \in measured |-> RawOf(job, e)])
      deferred == c.bench /\ c.shards > 1
  IN [enabled |-> c.bench, measured |-> measured, baseline |-> c.baseline,
      compared |-> compared, gated |-> c.bench, deferred |-> deferred,
      passed |-> c.bench => deferred \/ BenchPasses(c.baseline, compared)]

Events(run, rows, summary, snapshots, bench) ==
  [run |-> run, tests |-> DOMAIN rows, summary |-> summary,
   audited |-> snapshots.enabled, compared |-> bench.enabled]

\* The report of the job, whose coverage section is cov.
Report(job, cov) ==
  LET c == job.is.conf
      trouble == Trouble(job, cov)
      rows == RowsOf(job, trouble)
      tests == TestsOf(job, trouble)
      snapshots == SnapshotsOf(job)
      bench == BenchOf(job)
      missing == SelectedIn(tests) \ DOMAIN rows
  IN [run |-> job.id, profile |-> c.profile, sections |-> c.profile = "full",
      revision |-> job.revision, conf |-> c,
      shard |-> [index |-> Index(job), count |-> c.shards, merged |-> FALSE, indices |-> {},
                 selected |-> SelectedIn(tests)],
      tests |-> tests, rows |-> rows, summary |-> Tally(rows),
      completion |-> [complete |-> missing = {} /\ trouble = NoTrouble, missing |-> missing,
                      reason |-> IF trouble # NoTrouble THEN "frameworkError"
                                 ELSE IF missing = {} THEN "completed" ELSE "missingResults"],
      coverage |-> cov, snapshots |-> snapshots, bench |-> bench,
      errors |-> trouble # NoTrouble \/ job.is.reporter \/ c.snapGate,
      events |-> Events(job.id, rows, Tally(rows), snapshots, bench)]

\* The two documents of the job.
Written(job) ==
  LET art == Coverage(job)
      section == Section(art.sum, job.is.conf)
  IN IF job.is.conf.coverage
     THEN [coverage |-> art, report |-> Report(job, Judged(section, GatesPass(section)))]
     ELSE [coverage |-> NoCoverage, report |-> Report(job, NoCoverage)]

-----------------------------------------------------------------------------
(* The checks of the merger, on the reports it has read in their order.     *)

All(seq)    == Range(seq)
Places(ids) == 1 .. Len(ids)
Doc(i)      == runs[i].report
Art(i)      == runs[i].coverage
Reports(ids)   == [k \in Places(ids) |-> Doc(ids[k])]
Artifacts(ids) == [k \in Places(ids) |-> Art(ids[k])]

\* load_reports: every report is valid by itself and full.
Loadable(reports) == \A r \in All(reports) : ReportOk(r) /\ r.profile = "full"

\* Fault: shards are numbered from one.
Topology_OneBased(reports) ==
  /\ \A k, l \in Places(reports) : reports[k].shard.index = reports[l].shard.index => k = l
  /\ {r.shard.index : r \in All(reports)} = 1 .. reports[1].shard.count

\* topology: one count, and every index below it exactly once.
Topology(reports) ==
  /\ \A r, q \in All(reports) : r.shard.count = q.shard.count
  /\ \A k, l \in Places(reports) : reports[k].shard.index = reports[l].shard.index => k = l
  /\ {r.shard.index : r \in All(reports)} = 0 .. reports[1].shard.count - 1

\* Fault: the revisions are not compared.
SameRun_AnyRevision(reports) == \A r, q \in All(reports) : r.conf = q.conf

\* One revision and one effective configuration.
SameRun(reports) == \A r, q \in All(reports) : r.revision = q.revision /\ r.conf = q.conf

\* validate_inventory: entries agree wherever they appear, and every shard
\* selects what is assigned to it.
Inventory(reports) ==
  /\ \A r, q \in All(reports) : \A e \in DOMAIN r.tests \intersect DOMAIN q.tests :
       /\ r.tests[e].assigned = q.tests[e].assigned
       /\ r.tests[e].shardable = q.tests[e].shardable
  /\ \A r \in All(reports) : \A e \in DOMAIN r.tests :
       LET test == r.tests[e]
       IN test.selected = (test.shardable => test.assigned = r.shard.index)

\* validate_results: a shard has a row for each execution it selected, no
\* execution has rows from two shards, and rows of the run itself agree.
Results(reports) ==
  /\ \A r \in All(reports) : DOMAIN r.rows = r.shard.selected
  /\ \A r, q \in All(reports) : r # q =>
       \A e \in DOMAIN r.rows \intersect DOMAIN q.rows :
         e = Framework /\ r.rows[e] = q.rows[e]

\* validate_snapshot_ownership: a snapshot is written by one execution.
Ownership(reports) ==
  \A r, q \in All(reports) : \A e \in DOMAIN r.rows, f \in DOMAIN q.rows :
    e # f => Uses(r.conf, {e}) \intersect Uses(q.conf, {f}) = {}

Consistent(reports) ==
  /\ Loadable(reports) /\ Topology(reports) /\ SameRun(reports)
  /\ Inventory(reports) /\ Results(reports) /\ Ownership(reports)

-----------------------------------------------------------------------------
(* Coverage: the artifacts arts that lie next to the reports.               *)

Total(arts, value(_)) == SumFunction([a \in All(arts) |-> value(a)])

\* merge_records: what identifies a site must agree, its hits add up.
SitesAgree(arts) ==
  \A a, b \in All(arts) : \A s \in Sites :
    [a.sites[s] EXCEPT !.hits = 0] = [b.sites[s] EXCEPT !.hits = 0]
MergedSites(arts) ==
  [s \in Sites |-> [arts[1].sites[s] EXCEPT !.hits = Total(arts, LAMBDA a : a.sites[s].hits)]]

\* merge_contexts: every row is counted as stored, and no limit is applied.
ContextsAgree(arts) ==
  \A a, b \in All(arts) : /\ a.contexts.enabled = b.contexts.enabled
                          /\ a.contexts.limit = b.contexts.limit
MergedContexts(arts) ==
  LET own(a, c) == IF c \in DOMAIN a.contexts.hits THEN a.contexts.hits[c] ELSE 0
      ids == UNION {DOMAIN a.contexts.hits : a \in All(arts)}
      hits(c) == Total(arts, LAMBDA a : own(a, c))
      over == Total(arts, LAMBDA a : a.contexts.overflows)
  IN [enabled |-> arts[1].contexts.enabled, limit |-> arts[1].contexts.limit,
      hits |-> [c \in ids |-> hits(c)], stored |-> Cardinality(ids),
      unattributed |-> IF Unattributed \in ids THEN hits(Unattributed) ELSE 0,
      overflows |-> over, truncated |-> over > 0]

\* recompute_coverage: the counts are those of the merged sites; complete is
\* decided without looking at the mode.
MergedCoverage(arts) ==
  LET sites == MergedSites(arts)
      counts == Counts(sites)
  IN [run |-> 0, sites |-> sites, contexts |-> MergedContexts(arts),
      sum |-> [counts |-> counts, mode |-> arts[1].sum.mode, fallen |-> Fallen(sites),
               complete |-> [k \in {"statement", "branch"} |->
                               counts[k].eligible = counts[k].instrumented]]]

\* What merge_coverage comes to: nothing to merge, refused with a MergeError,
\* invalid (any other ValueError of the contract), or merged.
CoverageResult(ids, cov) ==
  LET absent == {k \in Places(ids) : cov[k] = 0}
      shared == \E k, l \in Places(ids) : k # l /\ runs[ids[k]].job.dir = runs[ids[l]].job.dir
  IN IF absent = Places(ids) THEN "none"
     ELSE IF shared \/ absent # {} THEN "refused"
     ELSE IF \E k \in Places(ids) : ~ArtifactOk(Art(cov[k]))
                                    \/ ~BelongsTo(Art(cov[k]), Doc(ids[k]))
          THEN "invalid"
     ELSE IF ~SitesAgree(Artifacts(cov)) \/ ~ContextsAgree(Artifacts(cov)) THEN "refused"
     ELSE IF ~ArtifactOk(MergedCoverage(Artifacts(cov))) THEN "invalid"
     ELSE "merged"

-----------------------------------------------------------------------------
(* The merged report, with the coverage artifacts arts (none: << >>).       *)

Union(fs) == [e \in UNION {DOMAIN f : f \in fs} |->
                LET f == CHOOSE f \in fs : e \in DOMAIN f IN f[e]]

\* The gates are recomputed; what counts is the function gate and each other
\* gate that has a minimum.
MergedSection(reports, arts) ==
  LET section == Section(MergedCoverage(arts).sum, reports[1].conf)
      required == {g \in Gates : g = "functions" \/ section.gates[g].minimum > 0}
  IN IF arts = << >> THEN NoCoverage
     ELSE Judged(section, \A g \in required : section.gates[g].passed)

\* Fault: a snapshot counts as used only if every shard uses it.
MergedEntries_AllMustUse(reports) ==
  LET entries == {r.snapshots.entries : r \in All(reports)}
  IN [n \in UNION {DOMAIN f : f \in entries} |->
        LET used == \A f \in entries : n \in DOMAIN f => f[n].referenced
            there == \E f \in entries : n \in DOMAIN f /\ f[n].exists
        IN IF ~used THEN "obsolete" ELSE IF there THEN "referenced" ELSE "missing"]

MergedEntries(reports) ==
  LET entries == {r.snapshots.entries : r \in All(reports)}
  IN [n \in UNION {DOMAIN f : f \in entries} |->
        LET used == \E f \in entries : n \in DOMAIN f /\ f[n].referenced
            there == \E f \in entries : n \in DOMAIN f /\ f[n].exists
        IN IF ~used THEN "obsolete" ELSE IF there THEN "referenced" ELSE "missing"]

MergedSnapshots(reports) ==
  LET complete == \A r \in All(reports) : r.snapshots.enabled /\ r.snapshots.complete
      gated == \E r \in All(reports) : r.snapshots.gated
      entries == MergedEntries(reports)
  IN [enabled |-> \E r \in All(reports) : r.snapshots.enabled, complete |-> complete,
      reasons |-> UNION {r.snapshots.reasons : r \in All(reports)}, entries |-> entries,
      gated |-> gated,
      passed |-> gated => /\ complete /\ \A r \in All(reports) : r.snapshots.passed
                          /\ Range(entries) \subseteq {"referenced"}]

\* Fault: only the first report's benchmarks are merged.
MergedBench_First(reports) ==
  LET bench == reports[1].bench
      compared == Comparisons([e \in bench.measured |-> bench.compared[e].raw])
  IN [bench EXCEPT !.compared = compared, !.deferred = FALSE,
        !.passed = bench.gated => BenchPasses(bench.baseline, compared)]

\* merge_benchmark_analysis: the correction is done again over all comparisons,
\* and the gate that the shards deferred is decided.
MergedBench(reports) ==
  LET all == Union({r.bench.compared : r \in All(reports)})
      compared == Comparisons([e \in DOMAIN all |-> all[e].raw])
      first == reports[1].bench
  IN [enabled |-> \E r \in All(reports) : r.bench.enabled,
      measured |-> UNION {r.bench.measured : r \in All(reports)}, baseline |-> first.baseline,
      compared |-> compared, gated |-> first.gated, deferred |-> FALSE,
      passed |-> first.gated => BenchPasses(first.baseline, compared)]

Merged(reports, arts) ==
  LET rows == Union({r.rows : r \in All(reports)})
      inventory == Union({r.tests : r \in All(reports)})
      tests == [e \in DOMAIN inventory |-> [inventory[e] EXCEPT !.selected = TRUE]]
      count == reports[1].shard.count
      snapshots == MergedSnapshots(reports)
      bench == MergedBench(reports)
  IN [run |-> 0, profile |-> "full", sections |-> TRUE,
      revision |-> reports[1].revision, conf |-> reports[1].conf,
      shard |-> [index |-> -1, count |-> count, merged |-> TRUE, indices |-> 0 .. count - 1,
                 selected |-> DOMAIN tests],
      tests |-> tests, rows |-> rows, summary |-> Tally(rows),
      completion |-> [complete |-> TRUE, missing |-> {}, reason |-> "completed"],
      coverage |-> MergedSection(reports, arts), snapshots |-> snapshots, bench |-> bench,
      errors |-> \E r \in All(reports) : r.errors,
      events |-> Events(0, rows, Tally(rows), snapshots, bench)]

\* Fault: errors outside the tests are overlooked.
Green_OnlyFailures(m) ==
  /\ \A e \in Blocking(m.rows) : m.rows[e].status # "fail"
  /\ m.coverage # NoCoverage => m.coverage.passed
  /\ m.snapshots.passed /\ m.bench.passed

\* The verdict: what the report says of rows and gates, not of diagnostics.
Green(m) ==
  /\ Blocking(m.rows) = {}
  /\ m.coverage # NoCoverage => m.coverage.passed
  /\ m.snapshots.passed /\ m.bench.passed

-----------------------------------------------------------------------------
NoFile == << >>
Untouched == [code |-> -1, read |-> << >>, cov |-> << >>, wrote |-> FALSE]
Killed == 137

Init ==
  /\ conf \in Confs /\ revision = 1 /\ faults = MaxFaults
  /\ runs = << >> /\ disk = [d \in Dirs |-> [report |-> 0, coverage |-> 0]]
  /\ stage = "idle" /\ paths = << >> /\ read = << >> /\ covers = << >> /\ merges = 0
  /\ dest = [report |-> NoFile, coverage |-> NoFile] /\ last = Untouched

\* What a run differs in from an undisturbed one of the matrix.
Deviations(o) ==
  LET one(odd) == IF odd THEN 1 ELSE 0
  IN one(o.conf # conf) + one(o.skew # 0) + one(o.unknown # {}) + one(o.bad # {})
     + one(o.cut # {}) + one(o.crash) + one(o.reporter) + one(o.unloaded # {})

\* A job runs a shard, perhaps again: its coverage artifact appears first ...
StartRun(d) ==
  /\ Len(runs) < MaxRuns
  /\ \E o \in Outcomes :
       LET again == \E i \in DOMAIN runs : runs[i].job.dir = d
           cost == Deviations(o) + (IF again THEN 1 ELSE 0)
           job == [id |-> Len(runs) + 1, dir |-> d, revision |-> revision, is |-> o]
           docs == Written(job)
       IN /\ cost =< faults /\ faults' = faults - cost
          /\ runs' = Append(runs, [job |-> job, ended |-> FALSE,
                                   coverage |-> docs.coverage, report |-> docs.report])
          /\ disk' = IF o.conf.coverage THEN [disk EXCEPT ![d].coverage = job.id] ELSE disk
  /\ UNCHANGED <<conf, revision, merger, dest, last>>

\* ... and its report last, unless the job was killed or started again.
FinishRun(i) ==
  /\ ~runs[i].ended /\ \A j \in i + 1 .. Len(runs) : runs[j].job.dir # runs[i].job.dir
  /\ runs' = [runs EXCEPT ![i].ended = TRUE]
  /\ disk' = [disk EXCEPT ![runs[i].job.dir].report = i]
  /\ UNCHANGED <<conf, revision, faults, merger, dest, last>>

\* The branch moves on while the matrix is running.
Commit ==
  /\ faults > 0 /\ faults' = faults - 1 /\ revision' = revision + 1
  /\ UNCHANGED <<conf, runs, disk, merger, dest, last>>

-----------------------------------------------------------------------------
End(code, wrote) ==
  /\ stage' = "idle" /\ UNCHANGED <<paths, read, covers, merges, env>>
  /\ last' = [code |-> code, read |-> read, cov |-> covers, wrote |-> wrote]

\* A MergeError (or OSError, TypeError, KeyError) is reported with exit 2; any
\* other exception leaves the interpreter with exit 1.
Refuse == End(2, FALSE) /\ UNCHANGED dest
Traceback == End(1, FALSE) /\ UNCHANGED dest

StartMerge ==
  /\ stage = "idle" /\ merges < MaxMerges /\ merges' = merges + 1
  /\ \E p \in UNION {[1 .. n -> Dirs] : n \in 1 .. Cardinality(Dirs)} : paths' = p
  /\ stage' = "read" /\ read' = << >> /\ covers' = << >>
  /\ UNCHANGED <<env, dest, last>>

\* load_reports reads one file after the other.
ReadReport ==
  /\ stage = "read"
  /\ LET id == disk[paths[Len(read) + 1]].report  IN
     \/ id = 0 /\ Refuse
     \/ /\ id # 0 /\ read' = Append(read, id)
        /\ stage' = IF Len(read') = Len(paths) THEN "check" ELSE "read"
        /\ UNCHANGED <<paths, covers, merges, env, dest, last>>

Check ==
  /\ stage = "check"
  /\ IF ~Consistent(Reports(read)) THEN Refuse
     ELSE /\ stage' = "coverage"
          /\ UNCHANGED <<paths, read, covers, merges, env, dest, last>>

\* merge_coverage: the artifacts that lie beside the reports by now, merged into
\* the destination before the rest of the merge is decided.
MergeCoverage ==
  /\ stage = "coverage"
  /\ LET cov == [k \in Places(read) |-> disk[paths[k]].coverage]
         result == CoverageResult(read, cov)
     IN \/ result = "refused" /\ Refuse
        \/ result = "invalid" /\ Traceback
        \/ /\ result \in {"none", "merged"} /\ stage' = "publish"
           /\ covers' = IF result = "merged" THEN cov ELSE << >>
           /\ dest' = IF result = "merged" THEN [dest EXCEPT !.coverage = cov] ELSE dest
           /\ UNCHANGED <<paths, read, merges, env, last>>

\* The merged report is validated, written, and judged.
Publish ==
  /\ stage = "publish"
  /\ LET m == Merged(Reports(read), Artifacts(covers))  IN
     IF ~ReportOk(m) THEN Traceback
     ELSE /\ End(IF Green(m) THEN 0 ELSE 1, TRUE)
          /\ dest' = [dest EXCEPT !.report = read]

Die == stage # "idle" /\ End(Killed, FALSE) /\ UNCHANGED dest

Next ==
  \/ \E d \in Dirs : StartRun(d)
  \/ \E i \in 1 .. Len(runs) : FinishRun(i)
  \/ Commit
  \/ StartMerge \/ ReadReport \/ Check \/ MergeCoverage \/ Publish \/ Die

Spec == Init /\ [][Next]_vars

-----------------------------------------------------------------------------
\* Every variable has its type, and the merger has read at most what it was given.
TypeOK ==
  /\ conf \in Confs /\ {revision, faults, merges} \subseteq Nat
  /\ \A i \in DOMAIN runs :
       /\ runs[i].job \in [id : {i}, dir : Dirs, revision : Nat, is : Outcomes]
       /\ runs[i].ended \in BOOLEAN
  /\ disk \in [Dirs -> [report : 0 .. Len(runs), coverage : 0 .. Len(runs)]]
  /\ stage \in {"idle", "read", "check", "coverage", "publish"}
  /\ paths \in Seq(Dirs) /\ read \in Seq(DOMAIN runs) /\ Len(read) =< Len(paths)
  /\ covers \in Seq(0 .. Len(runs))
  /\ dest \in [report : Seq(DOMAIN runs), coverage : Seq(0 .. Len(runs))]
  /\ last.code \in {-1, 0, 1, 2, Killed} /\ last.wrote \in BOOLEAN
  /\ last.read \in Seq(DOMAIN runs) /\ last.cov \in Seq(0 .. Len(runs))

\* The runs ids are one whole matrix: one run of each shard, of one revision and
\* one configuration, and each execution that any of them knows was run by one.
Job(i) == runs[i].job
WholeMatrix(ids) ==
  /\ \A i, j \in All(ids) : /\ Job(i).revision = Job(j).revision
                            /\ Job(i).is.conf = Job(j).is.conf
                            /\ Index(Job(i)) = Index(Job(j)) => i = j
  /\ \A i \in All(ids) : {Index(Job(j)) : j \in All(ids)} = 0 .. Job(i).is.conf.shards - 1
  /\ \A i \in All(ids) : \A e \in Known(Job(i)) :
       \E j \in All(ids) : /\ e \in Ran(Job(j))
                           /\ \A l \in All(ids) : e \in Ran(Job(l)) => l = j

\* merge_shards.py:4-7: a merged report, red or green, is published only for a
\* whole matrix, though every job sees its own shard and runs may be repeated
\* or go wrong while the merger is reading.
PublishedIsWhole == [][dest.report' # dest.report => WholeMatrix(dest'.report)]_<<dest, runs>>

\* Exit 0 is evidence that nothing failed: no execution of any merged run failed
\* outside quarantine, no run crashed, and each shard had met its coverage gate.
GreenIsEarned ==
  last.code = 0 =>
    \A i \in All(last.read) :
      /\ ~Job(i).is.crash
      /\ Job(i).is.bad \intersect Ran(Job(i)) # {} => Job(i).is.muted
      /\ Doc(i).coverage # NoCoverage => Doc(i).coverage.passed

\* Merged coverage is that of the merged runs: a job that repeats a shard between
\* the reading of its report and that of its artifact does not get its hits in.
CoverageIsOfTheseRuns == last.wrote /\ last.cov # << >> => last.cov = last.read

\* The order in which a shell glob lists the reports decides nothing.
VerdictIgnoresOrder ==
  last.wrote =>
    LET turn(q) == [k \in DOMAIN q |-> q[Len(q) + 1 - k]]
        reports == turn(Reports(last.read))
        m == Merged(reports, turn(Artifacts(last.cov)))
    IN Consistent(reports) /\ ReportOk(m) /\ (Green(m) <=> last.code = 0)

\* The benchmarks called regressed are the slower ones that the closed test over
\* the comparable ones rejects: every family of comparisons with the benchmark in
\* it, taken alone and corrected by its size, shows a significant change.
HolmIsClosedTest ==
  last.wrote =>
    LET compared == MergedBench(Reports(last.read)).compared
        tested == {e \in DOMAIN compared : compared[e].raw.comparable}
        rejects(F) == \E e \in F : Min({Cardinality(F) * compared[e].raw.p, PScale}) =< Alpha
    IN \A e \in DOMAIN compared :
         compared[e].regressed <=> /\ e \in tested /\ compared[e].raw.slower
                                   /\ \A F \in SUBSET tested : e \in F => rejects(F)

\* A snapshot is listed as obsolete only if no execution of the matrix uses it and
\* no test file declares it.
ObsoleteIsUnused ==
  last.wrote =>
    LET entries == MergedEntries(Reports(last.read))
    IN \A n \in DOMAIN entries : entries[n] = "obsolete" =>
         \A i \in All(last.read) : /\ n \notin Uses(Job(i).is.conf, Ran(Job(i)))
                                   /\ n \notin Job(i).is.conf.declares

\* One undisturbed run of every shard, read after all had ended.
Undisturbed(ids) ==
  /\ Len(ids) = conf.shards /\ {Job(i).dir : i \in All(ids)} = 0 .. conf.shards - 1
  /\ \A i \in All(ids) : /\ Deviations(Job(i).is) = 0
                         /\ Job(i).revision = Job(ids[1]).revision
                         /\ disk[Job(i).dir] = [report |-> i,
                                                coverage |-> IF conf.coverage THEN i ELSE 0]

\* Two executions with a snapshot in common may come to lie in two shards.
SharesSnapshots ==
  \E e, f \in DOMAIN conf.uses : e # f /\ conf.uses[e] \intersect conf.uses[f] # {}

\* Coverage is in the way when a shard alone misses the gate, when the contract
\* has no word for why a site is not instrumented, when nothing of a kind can be
\* instrumented, or when the contexts of all shards together do not fit.
CoverageInTheWay(ids) ==
  LET contexts == UNION {DOMAIN Art(i).contexts.hits : i \in All(ids)}
  IN \/ \E i \in All(ids) : \/ ~Doc(i).coverage.passed
                            \/ \E s \in Sites : Art(i).sites[s].reason \notin Fallbacks
     \/ \E k \in {"statement", "branch"} : OfKind(k) \intersect Eligible = {}
     \/ contexts \intersect Reserved # {} \/ Cardinality(contexts) > conf.contexts

\* The benchmark gate is, without a baseline, with a benchmark it does not know or
\* none at all, and of course when one is slower.
BenchesInTheWay(ids) ==
  \/ ~conf.baseline \/ Benches = {} \/ ~(Benches \subseteq conf.known)
  \/ \E result \in Range(MergedBench(Reports(ids)).compared) : result.regressed

\* A matrix in which nothing went wrong is neither red nor refused but for these
\* reasons, each of which lies in its configuration or in what it measured.  The
\* snapshot gate is one of them, which never passes.
UndisturbedIsGreen ==
  stage = "idle" /\ last.code \in {1, 2} /\ Len(paths) = Len(read) /\ Undisturbed(read) =>
    \/ conf.profile # "full" \/ SharesSnapshots \/ conf.snapGate
    \/ conf.coverage /\ CoverageInTheWay(read)
    \/ conf.bench /\ BenchesInTheWay(read)
=============================================================================
