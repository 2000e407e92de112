---------------------------- MODULE RunLifecycle ----------------------------
(***************************************************************************)
(* One in-process test run, from the launcher bin/resq to its exit status: *)
(* .tst.runAll and its phases (lib/runner.q), the verdict, the snapshot    *)
(* inventory and the ageing of flake history that the tail derives from    *)
(* it, the exit code of resq.q, the exit guard, and the supervision of the *)
(* q process by the launcher.  Every test file holds one test; the inside  *)
(* of the runSpecs phase is module Suite, the inside of the flake history  *)
(* file is module FlakeHistory.  Code under test runs in the phases of     *)
(* UserCode and may end the process there.                                 *)
(***************************************************************************)
EXTENDS Naturals

CONSTANTS
  Files,     \* test files
  Configs    \* the command lines considered

\* selection: everything, a filtered part, or one shard; quits: not -noquit;
\* audit: -snapshot-gate; bench: -benchmark-gate; plugins: -strict-plugins;
\* lenient: tests with an active non-blocking quarantine entry; marks: the
\* marker that the guard is armed can be written.
ASSUME ConfigAssumption ==
  \A c \in Configs :
    /\ c.selection \in {"all", "filtered", "shard"} /\ c.lenient \subseteq Files
    /\ {c.describe, c.quits, c.strict, c.failFast, c.audit, c.bench, c.plugins,
        c.marks}
         \subseteq BOOLEAN

Pass == 0
Fail == 1
NoTests == 3
LoadError == 4
Killed == 137
NoCode == 256     \* no exit status yet
Signals == {130, 143}
Codes == {Pass, Fail, NoTests, LoadError, Killed, NoCode} \union Signals

\* The phases of runAll, each with the one that follows it.
Following == [
  initRun |-> "loadTests", loadTests |-> "filterSpecs", filterSpecs |-> "snapshotRun",
  snapshotRun |-> "runSpecs", runSpecs |-> "loadErrors", loadErrors |-> "strictMode",
  strictMode |-> "coverage", coverage |-> "cleanup",
  cleanup |-> "cleanupErrors", cleanupErrors |-> "restorePersistence",
  restorePersistence |-> "flakeState", flakeState |-> "resultsSummary",
  resultsSummary |-> "plugins", plugins |-> "pluginResultsSummary",
  pluginResultsSummary |-> "benchmarkRegression", benchmarkRegression |-> "snapshotAudit",
  snapshotAudit |-> "snapshotManifest", snapshotManifest |-> "flakePersistence",
  flakePersistence |-> "rerunState", rerunState |-> "report", report |-> "finish"]

Phases   == DOMAIN Following
Gated    == {"initRun", "loadTests", "filterSpecs", "snapshotRun", "runSpecs",
             "loadErrors", "strictMode", "coverage"}
UserCode == {"loadTests", "runSpecs", "cleanup", "plugins"}
Results  == {"none", "lost", "pass", "silent", "fail", "skip"}
RowKinds == {"suite", "load", "strict", "framework", "cleanup", "plugin"}

VARIABLES
  conf,
  pc,           \* the phase q is in, "boot", "finish", "console" or "gone"
  discovered,   \* .tst.app.discoveredFiles
  emptyShard,   \* .tst.app.emptyShard
  loadErrors,   \* files in .tst.app.loadErrors
  selected,     \* .tst.app.selectedExecutionIds, as the tests' files
  ran,          \* the result row of each test, "none", or "lost" if it had one to get
  extra,        \* kinds of the error rows that belong to no test
  cleanupErrors, \* .tst.app.cleanupErrors is not empty
  classified,   \* .tst.app.flakeStateApplied: quarantine is on the rows
  passed,       \* .tst.app.passed
  state,        \* .tst.app.executionState
  reason,       \* .tst.app.executionIncompleteReason is not empty
  inventory,    \* completeness of .tst.app.snapshotInventory
  manifest,     \* completeness of the written snapshot-manifest.json
  gates,        \* the gates that failed: "snapshot", "benchmark"
  aged,         \* flake entries not observed in this run were aged
  reported,     \* the verdict the text reporter printed, "none" if none
  armed, complete, premature,  \* the markers in the guard directory
  qExit,        \* exit status of q
  status        \* exit status of the launcher

loading == <<discovered, emptyShard, loadErrors>>
running == <<selected, ran>>
verdict == <<extra, passed, reason>>
durable == <<inventory, manifest, gates, aged, reported>>
guard   == <<armed, complete, premature>>
rest    == <<cleanupErrors, classified, state>>
vars == <<conf, pc, loading, running, verdict, durable, guard, rest, qExit, status>>

Inventories == {"off", "complete", "incomplete"}

TypeOK ==
  /\ conf \in Configs
  /\ pc \in Phases \union {"boot", "finish", "exiting", "console", "gone"}
  /\ discovered \subseteq Files /\ loadErrors \subseteq discovered
  /\ selected \subseteq discovered \ loadErrors
  /\ ran \in [Files -> Results] /\ extra \subseteq RowKinds
  /\ {emptyShard, cleanupErrors, classified, passed, reason, aged,
      armed, complete, premature} \subseteq BOOLEAN
  /\ state \in {"notStarted", "running", "completed", "incomplete"}
  /\ inventory \in Inventories /\ manifest \in Inventories
  /\ gates \subseteq {"snapshot", "benchmark"}
  /\ reported \in {"none", "green", "red"}
  /\ qExit \in Codes /\ status \in Codes
  /\ (pc = "gone") = (qExit # NoCode)

\* resq.q up to the dispatch on the mode; no earlier manifest is in the
\* output directory.
Init ==
  /\ conf \in Configs /\ pc = "boot"
  /\ discovered = {} /\ emptyShard = FALSE /\ loadErrors = {}
  /\ selected = {} /\ ran = [f \in Files |-> "none"] /\ extra = {}
  /\ cleanupErrors = FALSE /\ classified = FALSE
  /\ passed = TRUE /\ state = "notStarted" /\ reason = FALSE
  /\ inventory = "off" /\ manifest = "off" /\ gates = {} /\ aged = FALSE /\ reported = "none"
  /\ armed = FALSE /\ complete = FALSE /\ premature = FALSE
  /\ qExit = NoCode /\ status = NoCode

-----------------------------------------------------------------------------
\* .tst.runAllPhase.runSafely: phase p, whose error rows become rows and
\* whose verdict becomes ok, returns, or signals: then it becomes an error row
\* and, if it is gated, the remaining gated phases are skipped.
Returns(p, rows, ok) ==
  /\ pc' = Following[p] /\ extra' = rows /\ passed' = ok /\ UNCHANGED reason

Signalled(p, rows) ==
  /\ pc' = IF p \in Gated THEN "cleanup" ELSE Following[p]
  /\ extra' = rows \union {"framework"} /\ passed' = FALSE /\ reason' = TRUE

Finishes(p, rows, ok) == Returns(p, rows, ok) \/ Signalled(p, rows)

Frame == UNCHANGED <<conf, guard, qExit, status>>

Executed == {f \in Files : ran[f] \in {"pass", "silent", "fail"}}
Reported == {f \in Files : ran[f] \notin {"none", "lost"}}

\* .tst.rowBlocksRun: a quarantined failure blocks until flakeState has
\* annotated it, every other error row blocks.
Blocking == {f \in Files : ran[f] = "fail" /\ ~(classified /\ f \in conf.lenient)}
AnyRow == Reported # {} \/ extra # {}

-----------------------------------------------------------------------------
\* resq.q arms the guard before anything of the run; a marker that cannot be
\* written is only reported.
Arm ==
  /\ pc = "boot" /\ pc' = "initRun" /\ armed' = conf.marks
  /\ UNCHANGED <<conf, loading, running, verdict, durable, complete, premature, rest,
                 qExit, status>>

\* Phases whose work is outside this module and only their outcome matters:
\* the per-run reset, the source snapshot, the coverage reports and gates, the
\* restored persistence paths and the rerun file.
InitRun == pc = "initRun" /\ Finishes("initRun", extra, passed)
SnapshotRun == pc = "snapshotRun" /\ Finishes("snapshotRun", extra, passed)
GenerateCoverage == pc = "coverage" /\ Finishes("coverage", extra, passed)
RestorePersistence ==
  pc = "restorePersistence" /\ Finishes("restorePersistence", extra, passed)
PersistRerunState == pc = "rerunState" /\ Finishes("rerunState", extra, passed)

OutsidePhase ==
  /\ InitRun \/ SnapshotRun \/ GenerateCoverage \/ RestorePersistence \/ PersistRerunState
  /\ Frame /\ UNCHANGED <<loading, running, durable, rest>>

\* .tst.loadTests: a shard takes its part of the files; a file that cannot be
\* loaded contributes an entry to loadErrors and no test.  One that vanished
\* after the discovery is passed over with a message: it counts as discovered
\* and leaves neither a test nor a load error.
LoadTests ==
  /\ pc = "loadTests"
  /\ \E all \in SUBSET Files, mine \in SUBSET Files :
       /\ mine \subseteq all /\ (conf.selection # "shard" => mine = all)
       /\ discovered' = mine
       /\ emptyShard' = (all # {} /\ mine = {})
       /\ loadErrors' \in SUBSET mine
  /\ Finishes("loadTests", extra, passed)
  /\ Frame /\ UNCHANGED <<running, durable, rest>>

\* .tst.runAllPhase.filterSpecs: a file may hold no test, or have vanished.
FilterSpecs ==
  /\ pc = "filterSpecs" /\ selected' \in SUBSET (discovered \ loadErrors)
  /\ Finishes("filterSpecs", extra, passed)
  /\ Frame /\ UNCHANGED <<loading, ran, durable, rest>>

\* -ff halts at a test that did not pass and is not quarantined; a skipped one
\* is enough.
Halts(row) == conf.failFast /\ \E f \in Files \ conf.lenient : row[f] \in {"fail", "skip"}

\* .tst.runAllPhase.runDiscoveredSpecs: a selected test is run unless its suite
\* failed as a whole, -ff halted the run, the phase itself signalled, or
\* nothing is executed (-desc).  Its row is lost when .tst.callbacks.expecRan,
\* which is trapped as a whole, fails before it is inserted, or when a later
\* test replaces the results table.
RunSpecs ==
  /\ pc = "runSpecs" /\ state' = "running" /\ cleanupErrors' \in BOOLEAN
  /\ \E row \in [Files -> Results], suite \in SUBSET {"suite"} :
       /\ \A f \in Files \ selected : row[f] = "none"
       /\ conf.describe => suite = {} /\ \A f \in Files : row[f] = "none"
       /\ ran' = row
       /\ \/ /\ \/ \A f \in selected : row[f] # "none"
                \/ conf.describe \/ suite # {} \/ Halts(row)
             /\ Returns("runSpecs", extra \union suite, passed)
          \/ Signalled("runSpecs", extra \union suite)
  /\ Frame /\ UNCHANGED <<loading, selected, durable, classified>>

InjectLoadErrors ==
  /\ pc = "loadErrors"
  /\ Finishes("loadErrors", extra \union (IF loadErrors = {} THEN {} ELSE {"load"}), passed)
  /\ Frame /\ UNCHANGED <<loading, running, durable, rest>>

\* .tst.runAllPhase.applyStrictMode: under -strict a pass without assertions
\* fails, and a run that executed nothing gets an error row; a test whose row
\* is lost was counted if it was not skipped.
ApplyStrictMode ==
  /\ pc = "strictMode"
  /\ ran' = [f \in Files |-> IF conf.strict /\ ran[f] = "silent" THEN "fail" ELSE ran[f]]
  /\ \E counted \in SUBSET {f \in Files : ran[f] = "lost"} :
       LET nothing == conf.strict /\ ~emptyShard /\ Executed \union counted = {} IN
       Finishes("strictMode", extra \union (IF nothing THEN {"strict"} ELSE {}), passed)
  /\ Frame /\ UNCHANGED <<loading, selected, durable, rest>>

\* .tst.runAllPhase.finalCleanup: each step is trapped into cleanupErrors.
FinalCleanup ==
  /\ pc = "cleanup" /\ state' = IF reason THEN "incomplete" ELSE "completed"
  /\ cleanupErrors' \in {TRUE, cleanupErrors}
  /\ Finishes("cleanup", extra, passed)
  /\ Frame /\ UNCHANGED <<loading, running, durable, classified>>

InjectCleanupErrors ==
  /\ pc = "cleanupErrors"
  /\ \/ /\ cleanupErrors' = FALSE
        /\ Returns("cleanupErrors", extra \union (IF cleanupErrors THEN {"cleanup"} ELSE {}), passed)
     \/ Signalled("cleanupErrors", extra) /\ UNCHANGED cleanupErrors
  /\ Frame /\ UNCHANGED <<loading, running, durable, classified, state>>

ApplyFlakeState ==
  /\ pc = "flakeState"
  /\ \/ Returns("flakeState", extra, passed) /\ classified' = TRUE
     \/ Signalled("flakeState", extra) /\ UNCHANGED classified
  /\ Frame /\ UNCHANGED <<loading, running, durable, cleanupErrors, state>>

\* .tst.runAllPhase.computePassed, run before and after the plugins
Verdict ==
  IF emptyShard /\ loadErrors = {} /\ ~AnyRow THEN TRUE
  ELSE loadErrors = {} /\ extra = {} /\ Blocking = {} /\ AnyRow

ComputePassed ==
  /\ pc \in {"resultsSummary", "pluginResultsSummary"}
  /\ Finishes(pc, extra, Verdict)
  /\ Frame /\ UNCHANGED <<loading, running, durable, rest>>

\* .tst.runRegisteredPlugins: a callback that signals is an error row only
\* under -strict-plugins; what it does to rows and verdict is undone.
RunPlugins ==
  /\ pc = "plugins"
  /\ \E failing \in SUBSET {"plugin"} :
       Finishes("plugins", extra \union (IF conf.plugins THEN failing ELSE {}), passed)
  /\ Frame /\ UNCHANGED <<loading, running, durable, rest>>

\* .tst.applyBenchmarkRegression: a failing gate turns the verdict red.
BenchmarkRegression ==
  /\ pc = "benchmarkRegression"
  /\ \/ Returns(pc, extra, passed) /\ UNCHANGED gates
     \/ conf.bench /\ Returns(pc, extra, FALSE) /\ gates' = gates \union {"benchmark"}
     \/ Signalled(pc, extra) /\ UNCHANGED gates
  /\ Frame /\ UNCHANGED <<loading, running, inventory, manifest, aged, reported, rest>>

\* Fault: the verdict is not one of the reasons.
WholeRun_AnyVerdict == state = "completed" /\ conf.selection = "all" /\ ~conf.describe

\* .tst.snapshotCompletenessReasons
WholeRun ==
  passed /\ state = "completed" /\ conf.selection = "all" /\ ~conf.describe

\* .tst.applySnapshotAudit: the gate is red when the inventory is incomplete,
\* or holds a missing, obsolete or unsafe snapshot.
SnapshotAudit ==
  /\ pc = "snapshotAudit"
  /\ \/ ~conf.audit /\ Returns(pc, extra, passed) /\ UNCHANGED <<inventory, gates>>
     \/ /\ conf.audit /\ inventory' = IF WholeRun THEN "complete" ELSE "incomplete"
        /\ \/ WholeRun /\ Returns(pc, extra, passed) /\ UNCHANGED gates
           \/ Returns(pc, extra, FALSE) /\ gates' = gates \union {"snapshot"}
     \/ Signalled(pc, extra) /\ UNCHANGED <<inventory, gates>>
  /\ Frame /\ UNCHANGED <<loading, running, manifest, aged, reported, rest>>

\* .tst.writeSnapshotInventory
SnapshotManifest ==
  /\ pc = "snapshotManifest"
  /\ \/ Returns(pc, extra, passed) /\ manifest' = inventory
     \/ Signalled(pc, extra) /\ UNCHANGED manifest
  /\ Frame /\ UNCHANGED <<loading, running, inventory, gates, aged, reported, rest>>

\* .tst.flakeCompleteInventoryRun
CompleteInventory ==
  /\ state = "completed" /\ ~reason /\ ~conf.describe /\ conf.selection = "all"
  /\ selected # {} /\ selected \subseteq Reported

\* .tst.persistFlakeState: a run without test rows writes nothing; failures of
\* the lock and the file are diagnostics only.
FlakePersistence ==
  /\ pc = "flakePersistence"
  /\ \/ Returns(pc, extra, passed) \/ Signalled(pc, extra)
  /\ aged' \in {aged, CompleteInventory /\ Reported # {}}
  /\ Frame /\ UNCHANGED <<loading, running, inventory, manifest, gates, reported, rest>>

\* .resq.reportText: the last line printed, from the rows and the gates.
TextVerdict ==
  IF extra # {} \/ Blocking # {} THEN "red"
  ELSE IF \E f \in Files : ran[f] = "fail" THEN "green"
  ELSE IF gates # {} THEN "red"
  ELSE IF Reported = {} THEN "none" ELSE "green"

\* .resq.report: the text reporter, then the requested files, of which any can
\* fail and make the phase signal; -desc lists the suites instead.
Report ==
  /\ pc = "report"
  /\ LET told == IF conf.describe THEN "none" ELSE TextVerdict IN
     \/ Returns(pc, extra, passed) /\ reported' = told
     \/ Signalled(pc, extra) /\ reported' \in {reported, told}
  /\ Frame /\ UNCHANGED <<loading, running, inventory, manifest, gates, aged, rest>>

-----------------------------------------------------------------------------
\* Fault: the rows of the tests, not the verdict, decide the exit code.
ExitCode_IgnoresVerdict ==
  IF conf.describe THEN IF loadErrors # {} THEN LoadError ELSE Pass
  ELSE IF loadErrors # {} THEN LoadError
  ELSE IF ~emptyShard /\ discovered = {} /\ ~AnyRow THEN NoTests
  ELSE IF Blocking # {} THEN Fail ELSE Pass

\* The exit code of resq.q
ExitCode ==
  IF conf.describe THEN IF loadErrors # {} THEN LoadError ELSE Pass
  ELSE IF loadErrors # {} THEN LoadError
  ELSE IF ~emptyShard /\ discovered = {} /\ ~AnyRow THEN NoTests
  ELSE IF ~passed THEN Fail ELSE Pass

\* .resq.completeExitGuard; under -noquit q stays at its console.
CompleteGuard ==
  /\ pc = "finish" /\ pc' = (IF conf.quits THEN "exiting" ELSE "console")
  /\ complete' \in BOOLEAN
  /\ UNCHANGED <<conf, loading, running, verdict, durable, armed, premature, rest,
                 qExit, status>>

Gone(code) == pc' = "gone" /\ qExit' = code

Untouched == UNCHANGED <<conf, loading, running, verdict, durable, rest, status>>

Exit == pc = "exiting" /\ Gone(ExitCode) /\ Untouched /\ UNCHANGED guard

\* The console ends when its user, or the end of its input, ends it.
LeaveConsole == pc = "console" /\ Gone(Pass) /\ Untouched /\ UNCHANGED guard

\* Code under test, or expecRan under -ff -exit, ends the process.  The .z.exit
\* callback leaves a marker unless that code replaced it or the write fails.
ExitsEarly(code) ==
  /\ pc \in UserCode /\ Gone(code) /\ Untouched
  /\ premature' \in BOOLEAN /\ UNCHANGED <<armed, complete>>

\* Before the guard is armed: invalid options, or a plugin file that exits.
BootExits(code) == pc = "boot" /\ Gone(code) /\ Untouched /\ UNCHANGED guard

\* The process dies at any point (memory, the operating system).
Dies == pc # "gone" /\ Gone(Killed) /\ Untouched /\ UNCHANGED guard

Step ==
  \/ Arm \/ OutsidePhase \/ LoadTests \/ FilterSpecs \/ RunSpecs \/ InjectLoadErrors
  \/ ApplyStrictMode \/ FinalCleanup \/ InjectCleanupErrors \/ ApplyFlakeState
  \/ ComputePassed \/ RunPlugins \/ BenchmarkRegression \/ SnapshotAudit
  \/ SnapshotManifest \/ FlakePersistence \/ Report \/ CompleteGuard \/ Exit

\* Fault: only the marker of the callback is looked for.
Supervised_NoCompletion ==
  IF qExit = Pass /\ armed /\ premature THEN Fail ELSE qExit

\* bin/resq: a success of an armed run that was not completed is a failure.
Supervised ==
  IF qExit = Pass /\ armed /\ (premature \/ ~complete) THEN Fail ELSE qExit

\* Fault: the launcher waits for the marker and not for the process.
LauncherWaits_ForMarker ==
  /\ pc = "gone" /\ complete /\ status = NoCode /\ status' = Supervised
  /\ UNCHANGED <<conf, pc, loading, running, verdict, durable, guard, rest, qExit>>

LauncherWaits ==
  /\ pc = "gone" /\ status = NoCode /\ status' = Supervised
  /\ UNCHANGED <<conf, pc, loading, running, verdict, durable, guard, rest, qExit>>

\* INT or TERM to the launcher: the q process group is ended first.
Terminated(code) ==
  /\ status = NoCode /\ status' = code
  /\ IF pc = "gone" THEN UNCHANGED <<pc, qExit>> ELSE Gone(Killed)
  /\ UNCHANGED <<conf, loading, running, verdict, durable, guard, rest>>

Over == status # NoCode /\ UNCHANGED vars

Next ==
  \/ Step \/ LeaveConsole
  \/ \E code \in {Pass, Fail} : ExitsEarly(code) \/ BootExits(code)
  \/ \E code \in Signals : Terminated(code)
  \/ Dies \/ LauncherWaits \/ Over

\* q and the shell keep executing, and the code under test returns.
Spec == Init /\ [][Next]_vars /\ WF_vars(Step) /\ WF_vars(LauncherWaits)

-----------------------------------------------------------------------------
\* Every row that must make a run red: a test that failed outside the
\* quarantine, an error row, a file that did not load, a cleanup failure.
Clean ==
  /\ extra = {} /\ loadErrors = {} /\ ~cleanupErrors
  /\ \A f \in Files : ran[f] = "fail" => f \in conf.lenient

\* A launcher that says success had a run that q itself completed and, unless
\* the tests were only listed or q was left at its console, one that recorded
\* nothing to hide: no phase, cleanup step, plugin or early exit can pass for
\* green.  What was not recorded is not hidden by the run: a row that expecRan
\* lost, a file that vanished before it was loaded.
GreenIsEarned ==
  status = Pass /\ armed =>
    complete /\ ~premature /\ (conf.quits /\ ~conf.describe => Clean)

\* The text reporter prints its pass for quarantined failures before it looks
\* at the gates.
QuarantineHidesGate ==
  reported = "green" /\ gates # {} /\ Blocking = {} /\ \E f \in Files : ran[f] = "fail"

\* The verdict printed by the text reporter is the one the exit status carries:
\* "every downstream verdict agrees" (runAll).  Only a death, or a reporter that
\* fails after the text one, can come between, and never for green; the code
\* breaks its promise in one case only, when a gate failed and every failed test
\* is quarantined: then the run is announced as passed and exits with 1.
VerdictsAgree ==
  pc = "gone" /\ qExit # Killed /\ reported # "none" /\ conf.quits =>
    \/ (reported = "green") = (qExit = Pass)
    \/ "framework" \in extra /\ qExit # Pass
    \/ QuarantineHidesGate /\ qExit = Fail

\* Every selected test was run, or -ff stopped at one that was skipped.
Covered ==
  \/ \A f \in selected : ran[f] # "none"
  \/ conf.failFast /\ \E f \in Files \ conf.lenient : ran[f] = "skip"

\* The manifest that licenses the deletion of obsolete snapshots is complete
\* only when every file that was still there loaded, every phase before it
\* succeeded, no test failed outside the quarantine, and every test was run, up
\* to a skipped one that halted an -ff run: that last case is what the
\* completeness reasons forget, and prune_used shows where it leads.
ManifestFromWholeRun ==
  manifest = "complete" =>
    /\ loadErrors = {} /\ conf.selection = "all" /\ ~conf.describe
    /\ extra \subseteq {"framework"} /\ state = "completed"
    /\ \A f \in Files : ran[f] = "fail" => f \in conf.lenient
    /\ Covered

\* The launcher ends, whatever the phases and the code under test do.
LauncherEnds == conf.quits ~> status # NoCode
=============================================================================
