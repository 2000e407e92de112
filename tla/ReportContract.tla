---------------------------- MODULE ReportContract ----------------------------
(***************************************************************************)
(* tools/validate_report.py: what a report of schema 2 must satisfy.  Both *)
(* a shard's report and a merged one are judged by it.  Left out are the   *)
(* forms of the fields (identities, timestamps, sample arrays, labels) and *)
(* the time intervals; kept is every relation between two sections.        *)
(***************************************************************************)
EXTENDS CoverageContract

CONSTANT Framework    \* the execution id of the rows of the run itself

Statuses == {"pass", "fail", "error"}     \* a skipped row behaves as a passing one
Bad == {"fail", "error"}

\* Rows that fail, and those among them that a quarantine does not excuse.
BadRows(rows) == {e \in DOMAIN rows : rows[e].status \in Bad}
Blocking(rows) == {e \in BadRows(rows) : ~rows[e].muted}

Tally(rows) == [s \in Statuses |-> Cardinality({e \in DOMAIN rows : rows[e].status = s})]
SelectedIn(tests) == {e \in DOMAIN tests : tests[e].selected}

\* validate_profile: only a full report holds every section.
ProfileOk(r) == r.profile \in {"full", "results", "telemetry"}
                /\ r.sections = (r.profile = "full")

\* validate_test: only an active quarantine makes a failure non-blocking.
RowsOk(r) == \A e \in DOMAIN r.rows : /\ r.rows[e].status \in Statuses
                                      /\ r.rows[e].muted => r.rows[e].quarantined

SummaryAgrees(r) == r.summary = Tally(r.rows)

\* validate_run_shard: an index inside the topology, or the aggregate of all.
ShardOk(r) ==
  /\ r.shard.count >= 1
  /\ \/ /\ r.shard.merged /\ r.shard.index = -1
        /\ r.shard.indices = 0 .. r.shard.count - 1
     \/ r.shard.index \in 0 .. r.shard.count - 1

\* validate_manifest: in a shard an execution is selected exactly where it is
\* assigned, the run's own rows everywhere, and the rows are in the inventory ...
InventoryOk(r) ==
  /\ \A e \in DOMAIN r.tests :
       /\ r.tests[e].assigned \in 0 .. r.shard.count - 1
       /\ r.shard.index >= 0 =>
            \/ r.tests[e].shardable /\ r.tests[e].selected = (r.tests[e].assigned = r.shard.index)
            \/ ~r.tests[e].shardable /\ r.tests[e].selected
  /\ DOMAIN r.rows \subseteq DOMAIN r.tests

\* ... and the shard lists what the inventory selects.
ManifestOk(r) ==
  /\ InventoryOk(r)
  /\ r.shard.selected = SelectedIn(r.tests)
  /\ ShardOk(r)

\* validate_completion: the missing rows are exactly the gap, and only a run
\* without one may call itself complete.
CompletionOk(r) ==
  /\ r.completion.missing = r.shard.selected \ DOMAIN r.rows
  /\ DOMAIN r.rows \subseteq r.shard.selected
  /\ r.completion.complete => DOMAIN r.rows = r.shard.selected
  /\ ~r.completion.complete => r.completion.reason # "completed"

\* The snapshot and benchmark sections.
SnapshotsOk(r) == ~r.snapshots.complete => r.snapshots.reasons # {}

\* validate_benchmark_comparison: an adjusted p-value is never below the raw one,
\* and what could not be compared is inconclusive.
ComparisonOk(comparison) == /\ comparison.raw.p =< comparison.adjusted
                            /\ comparison.regressed => comparison.raw.comparable

\* Comparisons cover every measurement, and only a shard of several may defer
\* its gate.
BenchmarksOk(r) ==
  /\ r.bench.enabled => DOMAIN r.bench.compared = r.bench.measured
  /\ \A e \in DOMAIN r.bench.compared : ComparisonOk(r.bench.compared[e])
  /\ r.bench.deferred => /\ r.bench.enabled /\ r.bench.gated /\ r.bench.passed
                         /\ r.shard.count > 1 /\ ~r.shard.merged
  /\ r.bench.measured \subseteq DOMAIN r.rows

\* The verdict of rows and enabled gates: where it is green no diagnostic may
\* be a verdict-bearing error.
AllGreen(r) ==
  /\ BadRows(r.rows) = {}
  /\ r.coverage # NoCoverage => r.coverage.passed
  /\ r.snapshots.gated => r.snapshots.passed
  /\ r.bench.gated => r.bench.passed
DiagnosticsOk(r) == AllGreen(r) => ~r.errors

\* validate_events: the lifecycle is of this run, starts and ends every row's
\* test, closes with the summary, and holds an audit or a comparison event
\* exactly when the section is enabled.
EventsOk(r) ==
  /\ r.events.run = r.run
  /\ DOMAIN r.rows \subseteq r.events.tests
  /\ r.events.summary = r.summary
  /\ r.events.audited = r.snapshots.enabled
  /\ r.events.compared = r.bench.enabled

\* validate
ReportOk(r) ==
  /\ ProfileOk(r) /\ ShardOk(r) /\ SummaryAgrees(r) /\ RowsOk(r) /\ CompletionOk(r)
  /\ r.sections => /\ ReportCoverageOk(r.coverage) /\ SnapshotsOk(r) /\ BenchmarksOk(r)
                   /\ ManifestOk(r) /\ EventsOk(r)
  /\ DiagnosticsOk(r)
=============================================================================
