# A TLA+ verification project for resQ

resQ is a test framework for q/kdb+: a launcher (`bin/resq`, `resq.q`), a
declaration language for suites and expectations, mocks, fixtures, snapshots,
quarantine of flaky tests, process isolation, shards, reporters and gates. It
runs code that throws, exits the process, changes directory, deletes globals
and leaves things behind, and its product is one bit that a build believes: the
exit status. Around it stand command-line tools that take up what runs leave behind:
they merge the reports of shards, load them into a warehouse, prune snapshots,
accept quarantines and baselines, and audit a release. The models here are about that
bit, about the state that one test must not hand to the next, and about the files that
one process must not take from another unchecked.

Each definition of a module carries the name of the code it stands for;
`PROJECT.json` maps it to file and lines, lists the hazards of the code at their
lines with the properties that watch them, and names every run, mutant,
finding and theorem.

## 1. Inventory

q is single-threaded: within one process nothing is concurrent except what user
code does from inside a call. Concurrency exists between processes (runs that
share a state directory, isolated children, the launcher and its q, jobs of a matrix and
their merger, loaders of one database, tools on one project), and the
difficult sequential behaviour is in error paths: every hook, body, fixture,
cleanup task, plugin and phase may signal, and something must still happen
afterwards. The Python tools are sequential scripts that read several files, decide,
and write several files; what is hard about them is that the files change in between and that
they can be stopped in between.

| Component (source) | State | Operations | Hard behaviour | What makes it correct | Modelled in |
|---|---|---|---|---|---|
| Mocks, spies, sequences (`lib/mock.q`) | `mockState.store`, `removeList`, `spyLog`, `seqs`, the process' globals | `mock`, `partialMock`, `spy`, `mockSequence`, wrapper calls, `clearSpyLogs`, `restore` | repeated substitution of one name; names that did not exist; a restore that partly fails | restore puts back the value before the first substitution, and only that, but for a name deleted in between; a wrapper that is reachable has an implementation | `MockScope`, `MockRegistry` |
| Suite and expectation runner (`lib/runner.q`, `lib/dsl/expec.q`, `lib/dsl/internals.q`) | `.tst.halt`, the row list, the remembered directory, runtime contexts | `runSpec`, `runSpecBody`, `finalizeSpec*`, `runExpec`, attempts and retries, `stageBadExpec`, `expecRan` | every stage may throw, the recording of a row and the runner's own steps included; halting in the middle; retries; user code moves the directory | attempts start clean, a pass is a pass, fixtures and suite hooks are paired, rows follow the schedule, the run ends | `Suite` |
| Fixtures and cleanup queues (`lib/fixture.q`) | installed fixtures, `cleanupTasks`, `specCleanupTasks`, session fixtures | install, tear down, register, drain | failure of a later setup; a task that registers a task | what was set up is torn down once | `Suite` (test scope), `RunLifecycle` (session scope as part of cleanup) |
| Run phases and verdict (`lib/runner.q`, `resq.q`) | `.tst.app.*`, result rows | 21 phases of `runAll`, `computePassed`, exit code | any phase may signal; rows and verdict are changed late | green is earned; printed and returned verdict agree | `RunLifecycle` |
| Launcher and exit guard (`bin/resq`, `resq.q`) | marker files, exit status | arm, complete, `.z.exit`, wait, signals | code under test ends the process, the process dies | no success without a completed run; the launcher ends | `RunLifecycle` |
| Flake history and quarantine (`lib/quarantine.q`, `tools/update_quarantine.py`) | `flake-state.json`, its lock directory, archives | load, acquire, reclaim, merge, publish, release, classify | concurrent runs, crashes while locked, locks of other users, another identity generation | no published evidence lost but by the retention rules, nothing foreign overwritten, no run waits for ever | `FlakeHistory` (files and lock), `RunLifecycle` (verdict, ageing), `Suite` (halting), `Upkeep` (acceptance) |
| Snapshot inventory and manifest (`lib/snapshot_inventory.q`) | inventory, `snapshot-manifest.json` | audit, gate, write | completeness decided late, manifest later licenses deletions | complete only after a clean run of everything | `RunLifecycle` (when), `Upkeep` (what is obsolete), `ShardMerge` (merged inventories) |
| Benchmark gate (`lib/benchmark_regression.q`, `benchmark.q`, `bench.q`, `tools/update_benchmark_baseline.py`) | samples, baselines | compare, gate, accept | gate after the verdict; a family of comparisons split over shards | verdict stays consistent, only significant changes block, a baseline was earned | `RunLifecycle` (the gate), `ShardMerge` (Holm's correction), `Upkeep` (acceptance) |
| Plugins, events (`lib/events.q`) | observers, event list | publish, run observers and reporters | callbacks throw or touch rows | rows and verdict unaffected unless strict | `RunLifecycle` |
| Discovery and loading (`lib/loader*.q`, `test_finder.q`, `deps.q`, `bootstrap.q`) | discovered files, sandboxes, load errors | discover, shard, preprocess, load, roll back | a file that fails half-way | no tests of a file that failed to load | `RunLifecycle` (outcome per file) |
| Text reporter (`lib/output/text.q`) | none | print rows and the verdict | early returns | agrees with the exit status | `RunLifecycle` (verdict line) |
| Rerun of failures (`lib/rerun.q`) | last-failed file | select, persist | interrupted runs | a failed test stays selected until it passes | `RunLifecycle` (a phase that may fail) |
| Process isolation (`lib/isolate.q`) | children, scratch directories, reports | spawn, batch, time out, interpret, retry, aggregate | blips at startup, killed or late children, malformed reports | each selected file is accounted for once; green is earned; no verdict is run again; the run ends | `Isolate`, `IsolatedVerdict` |
| Shards and merge (`tools/merge_shards.py`, `bin/resq-merge`) | report and coverage artifact per shard, the merged ones | load, check, merge coverage, snapshots and benchmarks, publish | missing, repeated, foreign or failing shards; files that change while they are read | one whole matrix or nothing, green is evidence about every run | `ShardMerge` |
| Report contract (`tools/validate_report.py`) | none | validate | relations between the sections | what is published is consistent | `ReportContract` |
| Coverage (`lib/coverage.q`, `self_coverage.q`, `tools/coverage_contract.py`, `reconcile_coverage.py`) | counters, the artifact | rewrite, wrap, count; validate, merge, compare | source rewriting; counts that must agree in several places | artifact and report speak of one run | `CoverageContract`, `ReleaseGate`; counting in q is not modelled: source rewriting, its gates are a phase that may signal |
| Ingestion (`tools/resq_ingest.py`, `resq_to_tables.py`, `ingestion_contract.py`) | twelve tables | read, normalise, create, insert, commit | other loaders, kills, lost connections, values the database refuses, files that are overwritten | a run is there as a whole or not at all, the exit status says which | `Ingest` |
| Snapshots (`lib/snapshot*.q`, `tools/prune_snapshots.py`) | files, trash batches, audits | record; plan, move, audit | runs and other pruners in between, kills | only unused files are moved, and they can be put back | `Upkeep` |
| Identity migration (`tools/migrate_identity_state.py`) | an output file | compare two inventories, map, write | ids that meet | an id keeps naming its test | `Upkeep` |
| Release gate (`tools/verify_release_gate.py`) | evidence directory, audit | check the checkout, run everything, compare, audit, seal | the checkout changes for an hour | the audit names what ran | `ReleaseGate` |
| Deferreds (`lib/promise.q`, `async.q`) | table of deferreds | defer, resolve, reject, await | time-outs and late answers | settled at most once; await ends | not modelled |
| Watch mode (`lib/watch.q`, `static_analysis.q`) | fingerprints, dependency map | scan, select, run | changes during a run | a change is eventually tested | not modelled |
| Assertions, diff (`lib/dsl/assertions.q`, `diff*.q`) | `assertState` | comparisons | - | - | not modelled |
| Generators, fuzzing, parametrised tests (`lib/dsl/fuzz.q`, `generators.q`, `parametrize.q`) | random state | generate, shrink | - | - | not modelled |
| Declaration language (`lib/dsl/ui.q`, `spec.q`) | suites being built | `describe`, `should`, hooks, marks | - | - | its result is the configuration of `Suite` |
| Configuration, CLI (`lib/config.q`, `cli.q`, `init.q`) | options | parse, merge | - | - | options that change control are configurations of the models |
| Report formats, identities (`lib/output/*.q`, `value_codec.q`) | none | format, hash, archive | - | - | not modelled but for the archive of a history |
| Verification tools (`tools/verify_static.py` and others) | none | run, compare | bounded waits with escalating kills | - | commands of `ReleaseGate` that pass or fail |

How they interact. The launcher starts q and waits; `resq.q` arms the exit guard and calls
`.tst.runAll`, which calls the phases in a fixed order through `runSafely`. The
phase `runSpecs` is a loop over `.tst.runSpec`, which runs the user's hooks and
expectations; each of these may call the mock registry, the cleanup queues and
the assertion state, all process globals that `teardownExpec` and `finalizeSpec`
bring back. `expecRan` is the callback by which a finished expectation becomes a
row and may raise the halt flag that every loop reads. The tail of `runAll` reads
rows and flags to compute the verdict, which plugins, gates and reporters may
still turn red, and writes what the next run reads: flake history (shared with
concurrent runs), the snapshot manifest (read by the pruning tool), the rerun
file. The exit code is computed from the same flags, and the launcher finally
compares it with the guard's markers.

A run leaves files, and the tools work on these alone: `coverage.json` and then
`test-results.json` in its output directory (read by the merger and by the loaders, in the
opposite order), the snapshot manifest (read by the pruner), proposed quarantine entries and
benchmark samples inside the report (read by the updaters), inventories of test identities
(read by the migration). Nothing locks them except the flake history and the database; what
ties two files together is the run id in both. Runs go on while the tools work, and the
next run overwrites what the tool is reading. Above all stands the release gate,
which starts every tool and suite in one checkout and believes their exit status and their reports.

## 2. Modules

`MockScope` is the abstract specification of substitution: an environment, the
value each name goes back to, the names whose original is lost, and the names whose
restoration was reported as failed. It has none of the registry's lists. There is one way to lose an
original: to delete a name while it is substituted and then substitute it again.

`MockRegistry` is `lib/mock.q`. `Substitute` is `.tst.mock`: the four assignments to
`store`, `removeList` and the global, for a name that exists, does not, or has
been substituted before. `PartialMock`, `Spy`, `MockSequence` are the functions of
that name with their early signals (`MockSequence` stores its values before it
looks its target up, and so does the action); `Call` is a call of a wrapper by
the code under test, `Restore(failing)` is `.tst.restore` where the assignments to
the names in `failing` signal. `CodeAssigns` and `CodeDeletes` are the code under
test, which may delete what it likes. Values are functions, dictionaries and the two kinds of wrapper, since q decides by type
which of them a spy or a partial mock accepts: the wrapper of a function of eight parameters (`Wide`) is a lambda and
may be spied on again, any other one is a projection and may not. `RestoresOriginals` is
`MockScope!Spec` under the mapping that reads a name's origin off the two lists; a name is lost when it is on both.

`Suite` is the execution of discovered suites. Its program counter has one value
per stage, and between two stages is exactly one piece of user code: `BeginSpec`,
`EnterBody`, `BeforeAll`, `NextExpec`, `EndLoop`, `Before`, `InstallFixture`, `RunBody`,
`UnwindFixture`, `After`, `Retry`, `Teardown`, `Report`, `LeaveExpec`, `StageBefore`,
`StageTest`, `AfterAll`, `Finalize`, `DrainSpecTasks`, `Consume`, `EndRun`. `UserCode(o)`
lets each of them leave behind at most one thing: a moved directory, a mock, a
cleanup task, a suite cleanup task; owner `"attempt"` or `"hook"` says on whose
behalf, `"late"` is what a cleanup task leaves, `"stuck"` a mock that could not be put back.
`remembered` is `.tst.cwdAfterRestore`, the directory the framework uses once
instead of asking the process; asking may signal, when the directory was deleted, and then the body of the suite is
left where it is (`BodySignals`) and a made-up row follows the rows it has told. `ExpecRan` is trapped as a
whole in the code: it may lose the row, keep it and not halt, or find the table replaced and start anew (`Insert`); the
model records in `lost` whose rows have gone. The declared marks, the retries, the halting
mode and the quarantine are the configuration `conf`.

`FlakeHistory` is what concurrent runs do to one history file and its lock
directory, in steps of the size of a file-system call, the shell loop of
`acquireFlakeHistoryLock` included. A history is what it holds of one test: the observations of runs, each with its age, and
for how many complete runs the test was not seen; `Merge` keeps `Window` observations, drops a test beyond
`UnseenLimit`, and may drop it when there are too many tests. There is one observation per run and test, and a run without
eligible rows writes nothing. The runs may belong to several users of one directory: `kill -0` of another
user's process fails although it lives (`Reclaimable`), and a lock in another user's directory that is not
empty cannot be removed (`Barred`); the shell loop then goes on without counting. A run may be
killed at any step.

`RunLifecycle` is one run from the launcher to its exit status. A phase `p` of
`runAll` is an action that either `Returns` or is `Signalled`: then it leaves an error
row, a red verdict and a reason, and if it is one of the gated phases the rest of
them are skipped. Every file holds one test; what happens inside `runSpecs` is
`Suite`, here its possible rows, of which one may be `"lost"`. A file may vanish between discovery and loading, which is no load error.
Code under test runs in four of the phases and may
end the process there, with or without the guard's callback; the process may die
anywhere; the launcher may be interrupted.

`IsolatedVerdict` is the abstract specification of a run whose files run in processes of
their own: files are accounted for in file order, each once and for good, the exit status
is decided when all are, and afterwards can only turn red.

`Isolate` is `lib/isolate.q`, the parent of such a run. `SetUpGroup` makes the scratch
directories of a group and starts its children together, `ChildEnds` is the end of one of them,
`GroupEnded` the shell's `wait` for all. `InterpretFile`, `CleanFile` and `Proceed` are the
body of the loop over the group, in file order; `RunAgain`, `SerialTry`, `SerialInterpret` and
`SerialClean` are `runFile`, to which a file goes whose q could not start for want of a licence.
`Merge` is the end of `runAll` up to the exit code, `RunPlugins` and `Gates` what comes after it.
A child is a run of `RunLifecycle`; the parent sees of it a report, an exit code and a captured
output (`Artefacts`), and `Endings` lists what these can be: what a complete run may report
together with the exit code that goes with it (`Completed`), and what is left of a run that
was killed, timed out, ended early, or whose report was cut short. `LeftBehind` says that an
ending overwrites only what it writes: this is why `resetScratch` matters. `Classified` is
`interpretFile` and `Retryable` is `retryableStartupFailure`. `AccountsInOrder` is
`IsolatedVerdict!Spec` under the mapping that reads the red files off the rows in the table.
Not modelled: the merge of inventories and result columns, forwarding of the output,
an interrupt of the parent, and `-noquit`.

`CoverageContract` is `tools/coverage_contract.py` as operators: what a coverage artifact must satisfy
by itself (`ArtifactOk`) and next to the report of its run. A site is a function, a
statement or an edge of a branch; percentages are functions of the counts. `ReportContract` extends
it with `tools/validate_report.py`: every relation between two sections of a report (rows and
inventory, summary and rows, shard and selection, snapshots, benchmarks, coverage, the verdict). Both
are what other modules require of the documents that pass between processes.

`ShardMerge` is a matrix of shards and `tools/merge_shards.py`. A job (`StartRun`, `FinishRun`) runs one
shard in a directory of its own and writes its two documents one after the other; it may be
repeated, and `MaxFaults` of the runs may have an oddity: another revision (`Commit`) or
configuration, the index of another shard, tests it does not know, rows that are missing, a crash, a
quarantined failure, a reporter that failed. `Written` builds the documents such a run leaves. The merger
takes its steps in the code's order: `StartMerge`, `ReadReport` one by one, `Check` (`Consistent`,
which is `Topology`, `SameRun`, `Inventory`, `Results` and `Ownership`), `MergeCoverage`, `Publish`; `Refuse` is exit 2
and `Traceback` an exception that `main` does not catch. `Merged` is the merged report:
rows, `MergedSnapshots`, `MergedBench` with `Holm` over all shards, `MergedSection`; it is
held against `ReportContract` before it is written, as in the code. The configuration says whether there is a benchmark baseline, which
benchmarks it knows and which of them are comparable (same workload, same environment, enough samples); `RawOf`, `Comparisons` and `BenchPasses` are
what each report says of them and what the gate asks for, which a shard of several defers to the merger (`BenchOf`). `MergeCoverage` reads all
artifacts in one step, though the code opens one after the other (`tools/merge_shards.py:585`): each artifact is checked
against its own report only, so the order of the readings decides nothing. The benchmark environments of the shards, which the merger requires to be equal
(lines 311-314), are taken to be. The checks are operators on the sequence of
documents in the order of the arguments (`Reports`, `Artifacts`), so that `VerdictIgnoresOrder` can take them in the other one.
`Ascending` is the sort of `holm_adjust`: any order that puts smaller values first; which of several equal ones comes
first changes no result, and `HolmIsRight` does not depend on it.

`Ingest` is `tools/resq_ingest.py` on one directory: runs publish into it (`BeginRun`, `EndRun`), loaders read
the report and, if asked, the artifact, normalise them (`ReportRows` and `ArtifactRows` are the rows
with the key of each and that of its parent), create the tables, insert table by table in one transaction
and commit. `KeysHold` is the check of primary and foreign keys at an insert, `Busy` the
lock of SQLite, `LosesDdlRace` two PostgreSQL loaders creating the tables at the same time, `LosesConnection` a
connection that breaks, before or after the server has committed. `Refuses` is a value that every check lets
pass and the database does not take: an `expiresAt` that is no date in a `TIMESTAMPTZ` column, a NUL in a text; which
tables of a report hold such values for which database is a field of the report.

`Upkeep` is four tools on three families of kept files, one family at a time since they share no file: `prune_snapshots.py`
(`PlanPrune`, then `CheckDestination` and `MoveSnapshot` for each planned file, `WriteAudit`), `update_quarantine.py` and `update_benchmark_baseline.py` (`BuildManifest`,
`BuildBaseline`, `Flush`, `Replace`), `migrate_identity_state.py` (`MigrateState`, `CreateOutput`, `FillOutput`, and
`Adopt` for the person who puts the output in place). Meanwhile `RunTests` runs tests in any
selection and with any ending, `Edit` adds and removes tests, `Upgrade` moves to the next
generation of identities and `Tick` lets the second pass that names a batch. A run may update the snapshots it comes
to; it may be halted by `-ff` at a skipped test (ending `"halted"`), and `"uncovered"` is the merged report of a matrix
whose coverage gate failed. Of a pruner, the making of the batch directory is part of the check of the
destination, and trash and store are taken to be on one file system, where a move is a rename. `tool[p]` is what a process
remembers, a record of one shape (`Fresh`) whatever the tool. The module's specification is called `UpkeepSpec`, with
`UpkeepInit` and `UpkeepNext`, because one proof module extends it and `FlakeHistory`.

`ReleaseGate` is `tools/verify_release_gate.py` with the comparison of `reconcile_coverage.py`: `RequireClean`,
`ReadCommit`, `Prepare`, then one action per command of `Commands` (`RunLane` for those that leave a report,
`RunVerifier` for the others, `FailCommand` for any that fails, times out, leaves an invalid report or
disagrees), `RequireNoResidue`, `WriteAudit`, `Seal`. `Change` is whatever happens to the checkout meanwhile:
residue of the commands, edits and commits of people. Required tests are required by description, as in the code: one passing case is enough. "static" and "verifiers" stand for several commands each.

`MC*` modules give the constants of these to TLC; `*_proof` modules hold the
theorems, those about `FlakeHistory` and `Upkeep` together in `KeptState_proof`. Operators named `X_Something` with a comment that starts with "Fault" are forms of `X` a bug would
have; they are used by no definition and serve to see that a property notices.

## 3. Runs

| Run | Instance | Shows |
|---|---|---|
| `mock` | 2 names, 2 functions, one of them of eight parameters, 1 dictionary, sequences and logs up to 2 | the registry implements `MockScope` (`RestoresOriginals`), reachable spies have an implementation |
| `mock_deleted` (violation) | the same | finding 2 |
| `suite` | 2 suites of 2 and 1 expectations, 2 fixtures, 2 directories, 5 configurations | `RemembersWhereItIs`, `AttemptsStartClean`, `PassMeansClean`, `FixturesUnwound`, `SuitesClosed`, `ReportFollowsSchedule`, and that the run ends |
| `flake` | 2 runs of 1 or 2 users, 2 tries of the lock, 1 kill, each shape of the file, a window of 2 observations, tests dropped after 1 run without them | one writer at a time, evidence goes only by the retention rules, a foreign history is never overwritten, the lock is freed, no run waits for ever but for a lock it may not remove |
| `flake_race` (violation) | 3 runs, 1 try, no kill | finding 1 |
| `run` | 2 files, 5 command lines | a green exit status is earned, verdicts agree with one exception, the manifest is complete only after a clean run of all tests, or of those before the skipped one that halted it, the launcher ends |
| `isolate` | 2 files, 2 serial tries, 3 command lines | a green exit of an isolated run is earned, no verdict of a test is run again, files are accounted for in order and a red one is never forgotten (`AccountsInOrder`), the run ends |
| `shard_merge` | 2 shards, 3 executions, 3 sites, 3 runs with 1 oddity, 13 configurations, 1 merger | a merged report is of one whole matrix (`PublishedIsWhole`), green is evidence about every run, merged coverage is that of the merged runs, order decides nothing, regressions are those of the closed test, obsolete snapshots are used and declared by nobody, an undisturbed matrix is green but for the reasons `UndisturbedIsGreen` names |
| `ingest` | 2 loaders, 4 published runs, 1 kill, 1 lost connection, both databases | a run is in the warehouse as a whole or not at all, the exit status says which, what the contracts accept can be loaded unless the database refuses a value |
| `upkeep` | 2 tools, 2 tests, 3 snapshots of which 2 share a file name, 2 runs with or without updates, 1 edit, 1 kill, 1 second, 4 identity schemes | pruning loses nothing and its audit restores unless two pruners share a batch, kept documents are whole and come from runs without a blocking row, updates add up, ids keep their meaning |
| `prune_used` (violation) | 1 pruner, 2 runs, nothing else | finding 3 |
| `release` | 3 commits of 2 versions, 3 executions, 2 of the quickstart, 2 changes to the checkout | an audit names the commit whose files every command saw, and the lanes it compares agree execution by execution |

Every property of a passing run has a mutant: a definition changed the way a bug
in that code would change it, under which TLC finds the property violated. The
mutated forms stand next to the definitions, with a comment that says what is
wrong with them. A type invariant that is proved (section 5) is not checked again by a run.

### Bounds, and why they are enough

- `mock`: the registry treats names independently, so a second name is there to see
  that a restore touches no other; per name the interesting states are the
  combinations of absent or present, saved or on the remove list, plain value or
  wrapper or wrapper over wrapper, all reached with two functions, of which only the one of eight parameters has
  a wrapper that can be spied on, and one
  dictionary. `MaxLen` = 2 separates full, partly used and exhausted sequences. The second name is mocked but never spied on.
  The theorems hold for all names and values.
- `suite`: two suites separate "the rest of this suite" from "the next suite" after a
  halt; two expectations in the first separate an expectation from its successor; one
  retry separates first and last attempt; with two fixtures the setup of the second may fail
  when the first is installed. Two directories are one to be in and one to have been moved
  to. The five configurations are plain with a skip and retries, focus, and the
  three halting modes, one of them with a quarantined failure. One leftover (mock, cleanup task, suite task) is
  live at a time and one row is lost per run (the constraint `FewLeftovers`): each is taken away by a step
  that does not look at the others. The theorems hold for any number of each.
- `flake`: two runs and a kill give every order of reclaiming one dead owner's
  lock; the archive, write and publication each fail or not. `MaxTries` stands for
  100: 2 separates a retry from a time-out. A window of two holds an old observation and that of one
  run, so that the second run pushes one out; two users make a lock that the other run takes for stale and cannot remove. Three runs are needed only for the race
  of finding 1, where the lock's owner is a third one.
- `run`: two files separate "one failed" from "all failed" and a quarantined test from
  another. Each command line switches on the options that interact: both gates with `-ff` and a quarantined test;
  a shard under strict mode and strict plugins; a filter with `-ff` and `-noquit`,
  without markers; `-desc`; quarantine alone.
- `isolate`: two files make one group of two, whose children end in either order, or two groups of
  one; the first of them may be run again before the second is read or started. `MaxTries` = 2
  stands for 3 and separates a last try from one that is not. The command lines are strict with
  strict plugins and gates on two workers; a filter with a quarantined test on one worker; a case shard
  under strict mode on one worker. The theorems hold for any number of files, workers and tries.
- `shard_merge`: two shards, one with two executions; with three runs one of them can be
  repeated before, while or after the merger reads. One oddity at a time, because a merger that
  sees two refuses for either. The thirteen configurations are plain; benchmarks, all comparable, one of them, one unknown
  to the baseline, and without a baseline; snapshots, one of them declared, without and with their
  gate; coverage with room for all test contexts, with a second gate, with room for two, and without branches; a compact profile; and a
  matrix of one shard.
  Three sites are one of each kind. Two executions are benchmarks, in different
  shards, on a scale where both, one or none are significant after correction.
  The theorems hold for any number of shards, runs and mergers.
- `ingest`: two of the four runs measure coverage, of different files; two do not, so that an older artifact lies
  beside their reports; PostgreSQL refuses a value of the third report, and the last one misses a required value. The directory is overwritten while loaders
  read. Two loaders may want the same run. One kill and one lost connection
  hit any step; a second would meet a loader that has started afresh.
- `upkeep`: two tools of one kind or of two; a test has a case with an id of its own; two of the three snapshots have the same name below
  different roots, which is where batches collide; one tick separates two batches. Two runs make an
  older and a newer report, one edit makes a test that only one of them knows. The identity schemes are one that pairs
  up, one where two tests share the old id, one where they share the new one, and one where a plain test keeps its
  id. The theorems hold for any number of tools, runs and tests, and any such scheme.
- `release`: two commits of one version and one of another: a change of commit that the version
  gives away, and one it does not. Three executions are cases of one test, two of them under the required description.
  Two changes make a change that is taken back. The theorems hold for any number of each.

### Fairness

- `Suite`: weak fairness of the next step. There is one thread, and each piece of
  user code is assumed to return: a test that loops for ever hangs an in-process run
  and the code promises nothing else (isolation is there for that).
- `FlakeHistory`: weak fairness of each run's next step: the operating system
  schedules every process. Nothing forces a killed run, or a failing write. With it a run ends unless its lock stays
  one that it may not remove (`Stuck`); while the owner of that lock lives it will release it.
- `RunLifecycle`: weak fairness of q's next step and of the launcher's wait.
  Early exits, deaths and signals are never forced; leaving the console is not either,
  which is why `LauncherEnds` speaks of runs that quit.
- `Isolate`: weak fairness of the parent's step and of the end of each child: `timeout -k` kills a
  child that does not end by itself. Nothing forces a particular ending, and nothing forces
  a try to succeed.
- `MockRegistry`, `ShardMerge`, `Ingest`, `Upkeep`, `ReleaseGate`: none; their properties are safety. Of the
  tools no progress is claimed: a person or a job starts them, and they end when their files are read.
  `Ingest`, `Upkeep` and `ReleaseGate` are checked for deadlock, with a stutter only in states
  where all work is done: no loader waits for another one for ever. `ShardMerge` stops when its bounds are used up.

## 4. Findings

Each has a run that reproduces it.

1. **Two writers of the flake history** (`flake_race`). Two waiters that read the same
   dead owner both remove the lock; the second removes the first one's new lock.
   Their merges can then lose each other's evidence.
2. **A deleted mock comes back deleted** (`mock_deleted`). `docs/API_REFERENCE.md:967` says that `.tst.restore` restores all mocked values
   to their originals. `.tst.mock` puts a name that does not exist on `removeList` even if an original of it
   is saved (`lib/mock.q:36`). Mock, delete, mock again: restore writes the original, then deletes it, and reports nothing.
   `MockScope` states this one loss, and `Restores` proves that there is no other.
3. **Prune moves snapshots that are in use** (`prune_used`). `docs/SNAPSHOTS.md:118-120` says that only a run that
   reached everything is complete. Completeness looks at selection and outcome
   (`lib/snapshot_inventory.q:130`), never at the tests that did not run: under `-ff` a skipped test halts the
   schedule, the run passes, and the snapshots of all tests behind it are listed as obsolete. A run of a
   part of the test directory, and a test that is skipped, do the same.

### Notes

What the models show beyond these.

- **A skip halts `-ff`.** `expecRan` (`lib/runner.q:613`) treats every result that is not `pass` as
  a failure, skipped and pending ones included. `Suite` models it, and finding 3 rests on it.
- **Fail-hard leaves cleanup undone.** The staged repetition of a failing test (`lib/dsl/expec.q:449`) runs after
  its teardown; the cleanup tasks it registers are not executed by the end of the run.
- **A failed load ages history.** `flakeCompleteInventoryRun` (`lib/quarantine.q:412`) does not look at `loadErrors`: a file
  that fails to load makes its tests look deleted (`aged` in `RunLifecycle`).
- **Text and status disagree.** With a quarantined failure the text reporter prints its pass (`lib/output/text.q:257`) before
  it looks at the snapshot and benchmark gates, although `lib/runner.q:1402-1403` has every downstream verdict agree. This is
  `QuarantineHidesGate`, the exception of `VerdictsAgree`, and the run shows that there is no other.
- **A row may be lost.** `expecRan` is trapped as a whole (`lib/runner.q:558`, `630-636`): a test that spoils what it reads,
  or replaces the results table, takes rows with it, a line is printed, and the run can be green. `ReportFollowsSchedule` excepts
  these rows and `GreenIsEarned` speaks of what was recorded. A file that vanishes after discovery is passed over in the same
  way (`lib/loader.q:823`).
- **A lock that cannot be removed.** When `rm -rf` of a stale lock fails, the loop at `lib/quarantine.q:550` goes on at once, without
  counting and without sleeping: the lock of another user's dead run stops every later run of this one for ever. `RunsEnd` excepts
  this case only (`Stuck`).
- **An empty part of a case shard fails under isolation.** `docs/API_REFERENCE.md:2005-2006` and `docs/CI.md:264-273` say that a
  valid empty shard succeeds, even under `-strict`. The parent notices that no child has rows
  (`lib/isolate.q:873`) but consults the flag only when no files were selected (line 888), and line 891
  then fails the run.
- **A hanging test can be started again.** `retryableStartupFailure` looks for the licence message in the text of
  the rows the parent has made up, and that of a time-out carries the end of the output; a test that
  hangs and quotes the message is run again. `NeverRerolled` therefore does not count a time-out
  as a verdict. (The rows of a report are dictionaries there, of whose message only the first
  character is looked at, so a test's own message never matches.)
- **The isolated tail is unprotected.** Snapshot audit and flake history are called without protection at the end of the
  isolated `runAll`: if one signals, q is left at its console (`Abort`), and only the launcher's guard
  keeps the run from passing.
- **Exit 1 without a verdict.** `docs/CI.md:288-291` says that exit 1 of the merger is a valid merged verdict that failed. `main`
  (`tools/merge_shards.py:1077`) does not catch the plain `ValueError` of the contracts, so a shard they refuse ends the
  merger with a traceback, exit 1 and no report (`Traceback`). The shortest way there is statement mode without branches: the reason
  `branch_mode_disabled` (`lib/coverage.q:1591`) is not among the contract's `FALLBACKS`; sites without anything that
  can be instrumented, and more contexts together than the limit, do the same. `CoverageInTheWay` names these reasons.
- **Merger.** A merge that fails after its coverage leaves the new `coverage.json` next to an older report. A merge
  drops coverage without a word if no report has an artifact beside it. Shards list stored
  snapshots as unverified, and the merge calls them obsolete although it is not complete; with the snapshot gate a merged
  run is never green, against `docs/SNAPSHOTS.md:119-120` and `159`: the gate is one of the reasons
  `UndisturbedIsGreen` names. A quarantined failure
  together with a failed reporter is exit 1 in the shard and exit 0 in the merged run.
- **Pruning.** A kill, or two roots with the same file name, stops a prune after its first moves and before
  the audit: nothing is lost (`NothingLost`), but no audit tells what was moved. Two pruners that begin in one second share a batch, and
  check and move are apart (`tools/prune_snapshots.py:88-91`): one may replace what the other has just moved, and the
  later audit replaces the earlier one. A completed prune repeated
  within the same second replaces its audit by one that calls everything missing, though
  `docs/SNAPSHOTS.md:139-140` calls repeating safe. `NothingLost` and `AuditRestores` except batches of two pruners (`Crowded`), and nothing else.
- **Updaters.** They have no lock: of two that overlap the earlier one is lost (`UpdatesAccumulate` excepts
  them). `update_benchmark_baseline.py` never looks at the completion of the run, so the report of
  a halted run is accepted, though `docs/CI.md:197-198` says only a complete green one is. It looks for `gate` in the coverage
  section, which has `gates` and `passed` (lines 42-46): the report of a run whose coverage gate failed is refused for its error row
  (`lib/runner.q:1299`, `1004-1018`), a merged report has no such row and is accepted.
- **Migration.** A kill between the creation of the output and its writing leaves an empty file, which every
  later try refuses to replace.
- **Ingestion.** `validate_report` accepts nulls that the tables refuse (`blank`), and texts the database refuses (`refused`: any `expiresAt` for a
  `TIMESTAMPTZ`, `tools/ingestion_contract.py:446`, or a NUL in PostgreSQL); such a report never gets in. When a
  connection to a server breaks at the commit, exit 1 does not say whether the run is there: `ExitTellsTheTruth`
  promises that for SQLite only. The query for coverage by test context joins on the test's id, so the hits of
  parametrised tests are multiplied.
- **Release gate.** HEAD is read once (`tools/verify_release_gate.py:511`) and not again at the second check, and only the
  correctness and coverage lanes are compared on the revision in their reports. If the checkout is moved to
  another clean commit of the same version, or a change is made and taken back, the audit names a
  commit that is not all that ran, though `docs/RELEASE_CHECKLIST.md` says to tag only the exact audited commit; `AuditNamesWhatRan`
  excepts exactly these. A kill between audit and checksums leaves an audit with status pass of a gate that failed.

## 5. Proofs

All theorems are about `Spec` and hold for every value of the constants that
satisfies the modules' named assumptions.

`MockRegistry_proof`: `TypeCorrect`, `WrappersForward` and `Restores`. The step simulation shows that each
action is a step of `MockScope` or a stutter under the mapping: every kind of substitution
is `Substitute`, calls and log resets stutter, and `Restore(failing)` is
`Restore(failing)` because the names it can fail on are the saved ones. The mapped `lost`, the names on both
lists, grows exactly where a name with an original is substituted while it is undefined. `WrappersForward`
needs one more fact (`WrappersKnown`): a spy wrapper on a name is known to the registry.

`Suite_proof`: type correctness and five invariants (`DirectoryRemembered`,
`AttemptsIsolated`, `PassSound`, `FixturesBalanced`, `HooksPaired`), all consequences of one
inductive invariant that adds what holds at the other stages. `RememberedInv`: no
directory is remembered while user code of an expectation runs, and only from the `afterAll`
hook to the restore after it may the remembered one be wrong. `LeftoverInv`: what an
attempt leaves is live only inside its own stages or once the run is halted, and nothing
is attempted in a halted run; a mock that stays beyond a restore leaves an error on record. `ResultInv`: a result that says pass goes with a clean
flag. `ClosedInv`: the suite under way is the only one that may be opened and not yet
closed, and inside it the decision for its `afterAll` has been taken. `RowsFollow` is the report: no row out of the
schedule's order, none twice, a made-up one last of its suite, and none missing unless the run was halted or the row was lost. Each row must be known to lie before the place the
run has reached, seen from every stage (`OrderInv`, `Behind`): a suite that has its made-up row must
not get another, one that was left half-way must not get rows for what is behind. `ToldInv` is the converse: what
an unhalted run has passed by has been told or lost.

`KeptState_proof` about `FlakeHistory`: `NeverOverwrites`, for any number of runs and kills. `PastCheck`, the
inductive part: while a run is between its check and its publication the file is not a
foreign one. It holds because no step makes a file foreign again, and not because
of the lock, so finding 1 does not touch it.

`RunLifecycle_proof`: `GreenEarned` and `ManifestTrusted`, for any files and command lines. The
verdict may be trusted only from the benchmark phase on: it is recomputed after the plugins,
the last phase that can add a row without touching it, and every later phase that adds one
takes the verdict away. `IInv` says so in parts: cleanup failures have become rows
(`CleanupInv`), a verdict that is still green there means a clean run (`VerdictInv`), what the
markers say (`MarkerInv`), and what an exit status carries from there to the launcher
(`ExitInv`, `EndInv`). `ManifestInv` adds that an inventory is complete only if it was taken
from a run that passed, was not filtered and was not cut short by anything but `-ff` at a skipped test.

`Isolate_proof`: `TypeCorrect`, `GreenEarned`, `VerdictsKept` and `KeepsPromise`, for any number of
files, workers and tries and any command lines. `IInv` follows a child's artefacts from its end to
the rows. A child runs only while it is waited for and in an empty directory (`RunningInv`),
so what lies in a directory is what the last child of its file left (`ArtInv`); a classification
that looks green can come only from the artefacts of a child that ended well
(`ClassifiedGreen`), so a file whose rows are settled and harmless had such a child (`RowsInv`). `RetryInv`:
what is tried again holds no verdict; `StartedInv`: no child of a later group has been
started, so only a serial try starts a child twice. `MergedGreen` turns this into a green merge, which is
needed both for `GreenEarned` and for the step `Conclude` of the promise.

`ShardMerge_proof`, for any number of shards, jobs, repetitions and mergers. `TypeCorrect`, `PublishedWhole`, `GreenEarned`,
`CoverageBound`: the merger checks documents it has read while jobs write others,
so the argument is that what it has checked stays true: runs are only ever added (`Grows`), and a check that
succeeded on some run ids succeeds on them for ever (`StableConsistent`). `RunsInv` says that a
run's documents are those `Written` makes of its job, `DiskInv` that an artifact in a directory is that of a run with
coverage, `MergerInv` what has been checked at each stage, `LastInv` what that means for a merger that has ended.
`WholeFromChecks` derives the whole matrix from the five checks, `GreenSound` the innocence of every run from a green merged report.

`ObsoleteSafe` is then a fact about `MergedEntries`: what a shard uses or declares is referenced in its inventory. `OrderIgnored` says that the reports taken in the other order pass the same checks and
give the same merged report: the checks speak of the set of documents, and where the merge takes a field of the first one
(configuration, revision, gate, the record of a site) all of them agree, by `SameRun` or `SitesAgree` (`SameMerged`, `TurnMerged`).

`HolmIsRight` is about `holm_adjust` and the classification, and no step at all: for every finite family of p-values on any scale, with ties, the running maximum
of the falling multiples, cut off at the scale, calls significant exactly what the closed test rejects. In one direction, the
first member of a family F in ascending order has a rank i no greater than that of the value in question, and F has at most m - i + 1
members, so F's multiple is among those the maximum is taken of; in
the other, the family of all values from the maximum's rank on is not rejected. It rests on the existence of a sorted order
(`SortExists`). These inductions are done as least counterexamples: a set of natural numbers has a least
element (`Least`, from the well-founded order of Nat), so no induction theorem with an operator parameter is needed.

`UndisturbedGreen` is the converse of all the others: that nothing is refused, and nothing red, without a reason. It is proved for matrices that
do not measure coverage, `[](~conf.coverage => UndisturbedIsGreen)`, with compact profiles, shared snapshots and the two gates as the
reasons. Its invariant `FairInv` is apart from `IInv`:
the merger reads in each directory a report of that directory (`DirInv`, `PathsInv`), and if it ended with a refusal or in
red after reading all reports with no coverage beside them, then the reports themselves are inconsistent or their merge is invalid or red
(`BlameInv`). The rest shows that the reports of a matrix in which nothing went wrong pass every check of contract
and merger (`CleanOk`, `CleanConsistent`, `CleanMerged`), which takes the definitions of the jobs, the
contract and the merger together: the shares of the shards partition the executions, each report is valid, and so is the merged one.
That merged coverage is no reason either needs the sums of hits over the shards, an induction over data: TLC checks that part.

`ReleaseGate_proof`: `AuditNames` and `LanesAgree`. A checkout nobody touches only gets dirtier (`TreeInv`), so one that is
clean at the end was clean for every command. `LanesInv` records which comparisons have been made by each
stage, and `ProjectionDetermines` that equal projections mean equal rows.

There too are `TypeCorrect` and `LockIsFreed`. The lock does not exclude a second writer (finding 1), but it is never
left behind: a lock directory with a pid in it is that of a run that will release it, an empty
one is about to be filled by its maker or removed by the run that emptied it (`LockInv`).

What the lock is for is proved in two halves. `ExclusionKeepsEvidence`: in every behaviour in which no two runs write at a
time, the history holds at least what the publications make of it one after the other (`serial`), retention included, and each archived
state is in an archive, for any number of runs and kills, although a run
archives at its start without the lock (`EvidenceInv`: from the reading of the latest history to the publication, what the
writer read is preserved too). `Merge` is monotone in what it starts from, so a writer that starts from no less ends with no less. `TwoRunsExclude`: of two runs at most one writes, since a lock is taken away only from a dead owner, and
then nobody else is left to reclaim it, or from a live one of another user, where the removal fails (`ExclusionInv`). `TwoRunsKeepEvidence` puts them together. More cannot be proved: with three
runs `SingleWriter` is false, which is finding 1, and the first theorem says that this race is the only way to lose evidence.

`KeptState_proof` about `Upkeep`: `AuditsRestore`, `PruningLosesNothing`, `DocumentsEarned`, `IdsKeepTheirMeaning`, `QuarantineAccumulates`
and `ToolsTypeCorrect`. `ToolsInv` says what each tool holds between reading and writing, because a tool that is
overtaken or killed leaves just that. What a pruner remembers as moved is what lies in its batch if it has
that for itself, and the destination it has checked is free until it moves there (`PrunersInv`); nobody takes anything out of the trash, and only
a second pruner of the batch can replace something. What an updater is about to put in place continues the
quarantine it read, or is a baseline from a report the tool accepts (`HeldInv`: `Continues`, `Earned`); what a migration fills in translates
its source (`Translates`). `FilesInv` says the same of the files, so it does not matter who overtook whom.
That a migration translates rests on an assumption about identities, `UpkeepAssumption`: an id that two generations share means the same names
in both. The code relies on it when it takes an entry of either generation by its id; the new codec leaves plain tests
as they are and gives a case an id of its own. The lemmas `OldIdDecides` and `MappedTranslates` are where it and the
tool's checks of ambiguous ids (`Unambiguous`) are needed.

`RunLifecycle_proof` also has `TypeCorrect` and `PrintedIsReturned`: the printed verdict is the returned one, or hides a failed gate behind quarantined failures. `DecidedInv` says what a computed verdict means in both
directions, `LoadRowInv` that a failed load has become a row, which the reporter sees and the exit
code does not need to; `ToldInv` carries the printed line to the end.

`Ingest_proof`: `TypeCorrect`, `WholeRuns`, `ExitTells` and `Loadable`, for any number of loaders, published runs, kills and
lost connections. The row of the table `runs` is inserted first, and its key is what keeps loaders of one run apart: who
is past it, or has committed, holds a run that nobody else holds (`Apart`, proved for SQLite from its single writer and for
PostgreSQL from the wait for a key). `Knows` says what a loader has read at each stage, `Added` that it has put all
its rows into the warehouse or none, and which at each exit. `RowsLinked`, about the payload alone, gives every
key its run and every foreign key a row of the same payload; with `ParentsFirst`, about the order of the
tables, it makes an accepted payload loadable but for values the database refuses.

Only model-checked: liveness (`RunEnds`, `RunsEnd`, `LauncherEnds`), which is beyond the
prover, and `UndisturbedIsGreen` for matrices with coverage. Every other safety property that a passing run checks is stated by a theorem; `SingleWriter` and
`EvidenceKept` of two runs only or on condition.
The models use no `RECURSIVE` operator.

## 6. Not modelled, and plan

Not modelled, and why:

- **Deferreds** (`lib/promise.q`, `lib/async.q`): q has one thread, and between two polls of `await` nothing runs but the poll
  function the caller passed. A late answer and a time-out race only if that function settles
  other deferreds; what is left is a table of write-once cells.
- **Watch mode** (`lib/watch.q`, `lib/static_analysis.q`): the manual promises no bound on what a scan sees, and whether
  a change is seen depends on the resolution of modification times and on a textual search for dependencies.
- **Rerun** (`lib/rerun.q`) beyond its being a phase that may fail: the last-failed file is written by one atomic replacement at
  the end of a run.
- **Assertions, diff, generators, fuzzing, parametrised tests**: pure or random functions of q values. In `Suite` they are bodies
  that pass, fail or signal.
- **Counting of coverage in q, preprocessing, parsing of options, formats of reports**: text processing. Their failures are
  those of the phases of `RunLifecycle`; the documents they produce are modelled as records
  by the two contracts.
- **Verification tools**: scripts that run resQ on given inputs and compare what it prints; for `ReleaseGate` each passes or fails.
- Of **ingestion** the queries and the tables of contract version 1; of **isolation** the merge of inventories and an interrupt
  of the parent; of **fixtures** the directory fixtures.

Still worth doing: `Isolate` with `RunLifecycle` as its children, so that `Endings` is derived and not listed; and theorems
on the ratios behind the coverage gates (a merged ratio lies between those of the shards).

## 7. How to run

`tlc -config MCSuite.cfg MCSuite` and so on for the pairs of `PROJECT.json`; `tlapm Suite_proof.tla` for
the proofs. The longest runs take about two minutes with two workers, the longest proof module a few minutes.
