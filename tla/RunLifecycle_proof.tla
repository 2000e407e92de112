------------------------- MODULE RunLifecycle_proof -------------------------
(***************************************************************************)
(* A green exit status is earned, for every set of files and every command *)
(* line.  IInv says where the verdict may be trusted: from the benchmark   *)
(* phase on, `passed` implies that nothing red is recorded, because the    *)
(* verdict was recomputed after the last phase that can add a row without  *)
(* touching it, and every later phase that adds one also takes `passed`    *)
(* away.                                                                   *)
(***************************************************************************)
EXTENDS RunLifecycle, TLAPS

\* From here on the verdict has been recomputed for the last time.
Judged == {"benchmarkRegression", "snapshotAudit", "snapshotManifest", "flakePersistence",
           "rerunState", "report", "finish", "exiting"}

\* From here on the cleanup failures have been turned into rows.
Drained == Judged \union {"restorePersistence", "flakeState", "resultsSummary", "plugins",
                          "pluginResultsSummary"}

CleanupInv == pc \in Drained /\ cleanupErrors => "framework" \in extra

VerdictInv == pc \in Judged /\ passed => Clean

MarkerInv ==
  /\ complete => pc \in {"exiting", "console", "gone"}
  /\ premature => pc = "gone"
  /\ pc = "console" => ~conf.quits
  /\ pc = "boot" => ~armed

ExitInv ==
  pc = "gone" /\ qExit = Pass /\ armed /\ complete /\ conf.quits /\ ~conf.describe => Clean

EndInv == (pc = "gone") = (qExit # NoCode) /\ (status # NoCode => pc = "gone")

IInv == CleanupInv /\ VerdictInv /\ MarkerInv /\ ExitInv /\ EndInv /\ GreenIsEarned

-----------------------------------------------------------------------------
\* The order of the phases, one equation each.
LEMMA Order ==
  /\ Following["initRun"] = "loadTests" /\ Following["loadTests"] = "filterSpecs"
  /\ Following["filterSpecs"] = "snapshotRun" /\ Following["snapshotRun"] = "runSpecs"
  /\ Following["runSpecs"] = "loadErrors" /\ Following["loadErrors"] = "strictMode"
  /\ Following["strictMode"] = "coverage" /\ Following["coverage"] = "cleanup"
  /\ Following["cleanup"] = "cleanupErrors"
  /\ Following["cleanupErrors"] = "restorePersistence"
  /\ Following["restorePersistence"] = "flakeState"
  /\ Following["flakeState"] = "resultsSummary" /\ Following["resultsSummary"] = "plugins"
  /\ Following["plugins"] = "pluginResultsSummary"
  /\ Following["pluginResultsSummary"] = "benchmarkRegression"
  /\ Following["benchmarkRegression"] = "snapshotAudit"
  /\ Following["snapshotAudit"] = "snapshotManifest"
  /\ Following["snapshotManifest"] = "flakePersistence"
  /\ Following["flakePersistence"] = "rerunState" /\ Following["rerunState"] = "report"
  /\ Following["report"] = "finish"
BY DEF Following

\* The verdict a summary phase computes holds of a clean run only.
LEMMA VerdictSound ==
  ASSUME Verdict, CleanupInv, pc \in Drained
  PROVE  Clean
BY DEF Verdict, CleanupInv, Clean, AnyRow, Blocking, Reported

LEMMA InitStep == ASSUME Init PROVE IInv
BY DEF Init, IInv, CleanupInv, VerdictInv, MarkerInv, ExitInv, EndInv, GreenIsEarned,
       Drained, Judged, NoCode, Pass

\* A phase: what is not the verdict, the guard or the statuses is its own
\* business as long as it adds no red fact after the verdict.
LEMMA GatedStep ==
  ASSUME IInv,
         \/ InitRun \/ SnapshotRun \/ GenerateCoverage \/ LoadTests \/ FilterSpecs
         \/ RunSpecs \/ InjectLoadErrors \/ ApplyStrictMode,
         Frame
  PROVE  IInv'
<1>1. /\ pc \in Gated /\ pc' \notin Drained
      /\ pc' \notin {"boot", "exiting", "console", "gone"}
  BY Order DEF InitRun, SnapshotRun, GenerateCoverage, LoadTests, FilterSpecs, RunSpecs,
       InjectLoadErrors, ApplyStrictMode, Finishes, Returns, Signalled, Gated, Drained, Judged
<1> QED BY <1>1 DEF IInv, CleanupInv, VerdictInv, MarkerInv, ExitInv, EndInv,
       GreenIsEarned, Frame, guard, Gated, Drained, Judged, Pass, NoCode

LEMMA TailStep ==
  ASSUME IInv,
         \/ FinalCleanup \/ InjectCleanupErrors \/ RestorePersistence \/ ApplyFlakeState
         \/ RunPlugins \/ ComputePassed,
         Frame, RestorePersistence => UNCHANGED <<loading, running, durable, rest>>
  PROVE  IInv'
<1>1. /\ pc \in {"cleanup", "cleanupErrors"} \union (Drained \ Judged)
      /\ pc' \notin {"boot", "exiting", "console", "gone"}
  BY Order DEF FinalCleanup, InjectCleanupErrors, RestorePersistence, ApplyFlakeState,
       RunPlugins, ComputePassed, Finishes, Returns, Signalled, Gated, Drained, Judged
<1>2. CleanupInv'
  <2>1. CASE FinalCleanup
    BY <2>1, Order DEF FinalCleanup, Finishes, Returns, Signalled, Gated, Drained, Judged,
         CleanupInv
  <2>2. CASE InjectCleanupErrors
    BY <2>2 DEF InjectCleanupErrors, Returns, Signalled, CleanupInv
  <2>3. CASE RestorePersistence \/ ApplyFlakeState \/ RunPlugins \/ ComputePassed
    <3>1. cleanupErrors' = cleanupErrors /\ extra \subseteq extra' /\ pc \in Drained
      BY <2>3 DEF RestorePersistence, ApplyFlakeState, RunPlugins, ComputePassed, Finishes,
           Returns, Signalled, rest, Drained
    <3> QED BY <3>1 DEF IInv, CleanupInv
  <2> QED BY <2>1, <2>2, <2>3
<1>3. VerdictInv'
  <2>1. CASE ComputePassed
    <3>1. CASE Returns(pc, extra, Verdict)
      <4>1. pc \in Drained
        BY <2>1 DEF ComputePassed, Drained
      <4>2. passed' => Clean
        BY <3>1, <4>1, VerdictSound DEF Returns, IInv
      <4>3. Clean' = Clean
        BY <2>1, <3>1 DEF ComputePassed, Returns, Clean, Frame, loading, running, rest
      <4> QED BY <4>2, <4>3 DEF VerdictInv
    <3>2. CASE Signalled(pc, extra)
      BY <3>2 DEF Signalled, VerdictInv
    <3> QED BY <2>1, <3>1, <3>2 DEF ComputePassed, Finishes
  <2>2. CASE ~ComputePassed
    <3>1. pc' \notin Judged
      BY <2>2, Order DEF FinalCleanup, InjectCleanupErrors, RestorePersistence,
           ApplyFlakeState, RunPlugins, Finishes, Returns, Signalled, Gated, Judged
    <3> QED BY <3>1 DEF VerdictInv
  <2> QED BY <2>1, <2>2
<1> QED BY <1>1, <1>2, <1>3 DEF IInv, MarkerInv, ExitInv, EndInv, GreenIsEarned, Frame, guard,
       Drained, Judged, Pass, NoCode

LEMMA JudgedStep ==
  ASSUME IInv,
         \/ BenchmarkRegression \/ SnapshotAudit \/ SnapshotManifest \/ FlakePersistence
         \/ PersistRerunState \/ Report,
         Frame, UNCHANGED <<loading, running, rest>>
  PROVE  IInv'
<1>1. /\ pc \in Judged \ {"exiting"} /\ pc \in Drained
      /\ pc' \notin {"boot", "exiting", "console", "gone"}
      /\ (passed' => passed /\ extra' = extra)
      /\ extra \subseteq extra'
  BY Order DEF BenchmarkRegression, SnapshotAudit, SnapshotManifest, FlakePersistence,
       PersistRerunState, Report, Finishes, Returns, Signalled, Gated, Drained, Judged
<1>2. CleanupInv'
  <2>1. cleanupErrors' = cleanupErrors
    BY DEF rest
  <2> QED BY <1>1, <2>1 DEF IInv, CleanupInv
<1>3. VerdictInv'
  <2>1. extra' = extra /\ Clean => Clean'
    BY DEF Clean, Frame, loading, running, rest
  <2> QED BY <1>1, <2>1 DEF IInv, VerdictInv
<1> QED BY <1>1, <1>2, <1>3 DEF IInv, MarkerInv, ExitInv, EndInv, GreenIsEarned, Frame, guard,
       Drained, Judged, Pass, NoCode

\* Nothing but the guard, the exit status and the launcher moves.
Same == UNCHANGED <<conf, loading, running, verdict, rest>>

LEMMA EndStep ==
  ASSUME IInv,
         \/ Arm \/ CompleteGuard \/ Exit \/ LeaveConsole \/ Dies \/ LauncherWaits
         \/ \E code \in {Pass, Fail} : ExitsEarly(code) \/ BootExits(code)
         \/ \E code \in Signals : Terminated(code)
  PROVE  IInv'
<1> USE DEF IInv, CleanupInv, VerdictInv, MarkerInv, ExitInv, EndInv, GreenIsEarned,
            Drained, Judged, Pass, Fail, NoTests, LoadError, Killed, NoCode, Signals
<1>0. Same => (Clean' = Clean)
  BY DEF Same, Clean, loading, running, verdict, rest
<1>1. CASE Arm
  BY <1>1, <1>0 DEF Arm, Same, verdict, rest
<1>2. CASE CompleteGuard
  BY <1>2, <1>0 DEF CompleteGuard, Same, verdict, rest
<1>3. CASE Exit
  BY <1>3, <1>0 DEF Exit, Gone, Untouched, ExitCode, Same, verdict, rest, guard
<1>4. CASE LeaveConsole
  BY <1>4, <1>0 DEF LeaveConsole, Gone, Untouched, Same, verdict, rest, guard
<1>5. CASE Dies
  BY <1>5, <1>0 DEF Dies, Gone, Untouched, Same, verdict, rest, guard
<1>6. CASE LauncherWaits
  BY <1>6, <1>0 DEF LauncherWaits, Supervised, Same, verdict, rest, guard
<1>7. ASSUME NEW code \in {Pass, Fail}, ExitsEarly(code) PROVE IInv'
  BY <1>7, <1>0 DEF ExitsEarly, Gone, Untouched, UserCode, Same, verdict, rest
<1>8. ASSUME NEW code \in {Pass, Fail}, BootExits(code) PROVE IInv'
  BY <1>8, <1>0 DEF BootExits, Gone, Untouched, Same, verdict, rest, guard
<1>9. ASSUME NEW code \in Signals, Terminated(code) PROVE IInv'
  BY <1>9, <1>0 DEF Terminated, Gone, Same, verdict, rest, guard
<1> QED BY <1>1, <1>2, <1>3, <1>4, <1>5, <1>6, <1>7, <1>8, <1>9

LEMMA StutterStep == ASSUME IInv, UNCHANGED vars PROVE IInv'
BY DEF IInv, CleanupInv, VerdictInv, MarkerInv, ExitInv, EndInv, GreenIsEarned, Clean,
       vars, loading, running, verdict, durable, guard, rest

LEMMA Inductive == ASSUME IInv, [Next]_vars PROVE IInv'
<1>1. CASE OutsidePhase
  BY <1>1, GatedStep, TailStep, JudgedStep DEF OutsidePhase
<1>2. CASE LoadTests \/ FilterSpecs \/ RunSpecs \/ InjectLoadErrors \/ ApplyStrictMode
  BY <1>2, GatedStep DEF LoadTests, FilterSpecs, RunSpecs, InjectLoadErrors, ApplyStrictMode
<1>3. CASE FinalCleanup \/ InjectCleanupErrors \/ ApplyFlakeState \/ RunPlugins
           \/ ComputePassed
  <2>1. Frame
    BY <1>3 DEF FinalCleanup, InjectCleanupErrors, ApplyFlakeState, RunPlugins, ComputePassed
  <2>2. ~RestorePersistence
    BY <1>3 DEF FinalCleanup, InjectCleanupErrors, ApplyFlakeState, RunPlugins, ComputePassed,
         RestorePersistence
  <2> QED BY <1>3, <2>1, <2>2, TailStep
<1>4. CASE BenchmarkRegression \/ SnapshotAudit \/ SnapshotManifest \/ FlakePersistence
           \/ Report
  <2>1. Frame /\ UNCHANGED <<loading, running, rest>>
    BY <1>4 DEF BenchmarkRegression, SnapshotAudit, SnapshotManifest, FlakePersistence, Report
  <2> QED BY <1>4, <2>1, JudgedStep
<1>5. CASE Arm \/ CompleteGuard \/ Exit \/ LeaveConsole \/ Dies \/ LauncherWaits
  BY <1>5, EndStep
<1>6. CASE \E code \in {Pass, Fail} : ExitsEarly(code) \/ BootExits(code)
  BY <1>6, EndStep
<1>7. CASE \E code \in Signals : Terminated(code)
  BY <1>7, EndStep
<1>8. CASE Over \/ UNCHANGED vars
  BY <1>8, StutterStep DEF Over
<1> QED BY <1>1, <1>2, <1>3, <1>4, <1>5, <1>6, <1>7, <1>8 DEF Next, Step

\* A launcher that exits with 0 after the guard was armed ran a q process that
\* completed its run, and completed it clean: GreenIsEarned for every set of
\* files and every command line.
THEOREM GreenEarned == Spec => []GreenIsEarned
<1>1. Init => IInv
  BY InitStep
<1>2. IInv /\ [Next]_vars => IInv'
  BY Inductive
<1>3. IInv => GreenIsEarned
  BY DEF IInv
<1> QED BY <1>1, <1>2, <1>3, PTL DEF Spec

-----------------------------------------------------------------------------
\* Once the tests are over they were all run, or the run has a reason not to be
\* complete that the inventory will see.
CoveredInv ==
  pc \notin {"boot", "initRun", "loadTests", "filterSpecs", "snapshotRun", "runSpecs", "gone"} =>
    \/ Covered \/ conf.describe \/ "suite" \in extra
    \/ \E f \in Files \ conf.lenient : ran[f] = "fail"
    \/ pc = "cleanup" /\ reason
    \/ pc \notin {"loadErrors", "strictMode", "coverage", "cleanup"} /\ state = "incomplete"

LEMMA CoveredStep ==
  ASSUME selected \subseteq Files, CoveredInv, [Next]_vars
  PROVE  CoveredInv'
<1> DEFINE Before == {"boot", "initRun", "loadTests", "filterSpecs", "snapshotRun", "runSpecs",
                      "gone"}
           Testing == {"loadErrors", "strictMode", "coverage", "cleanup"}
<1>1. CASE RunSpecs
  <2>1. PICK row \in [Files -> Results], suite \in SUBSET {"suite"} :
          /\ ran' = row
          /\ \/ /\ \/ \A f \in selected : row[f] # "none"
                   \/ conf.describe \/ suite # {} \/ Halts(row)
                /\ Returns("runSpecs", extra \union suite, passed)
             \/ Signalled("runSpecs", extra \union suite)
    BY <1>1 DEF RunSpecs
  <2>2. conf' = conf /\ selected' = selected
    BY <1>1 DEF RunSpecs, Frame
  <2>3. CASE Signalled("runSpecs", extra \union suite)
    BY <2>3 DEF Signalled, Gated, CoveredInv
  <2>4. CASE /\ Returns("runSpecs", extra \union suite, passed)
             /\ (\A f \in selected : row[f] # "none") \/ conf.describe \/ suite # {} \/ Halts(row)
    <3>1. extra' = extra \union suite /\ pc' = "loadErrors"
      BY <2>4, Order DEF Returns
    <3>2. CASE Halts(row)
      <4>1. CASE \A f \in selected : row[f] # "none"
        BY <2>1, <2>2, <4>1 DEF CoveredInv, Covered
      <4>2. CASE \E f \in Files \ conf.lenient : row[f] = "skip"
        BY <2>1, <2>2, <3>2, <4>2 DEF CoveredInv, Covered, Halts
      <4>3. CASE \E f \in Files \ conf.lenient : row[f] = "fail"
        BY <2>1, <2>2, <4>3 DEF CoveredInv
      <4> QED BY <3>2, <4>1, <4>2, <4>3 DEF Halts
    <3>3. CASE ~Halts(row)
      BY <2>1, <2>2, <2>4, <3>1, <3>3 DEF CoveredInv, Covered
    <3> QED BY <3>2, <3>3
  <2> QED BY <2>1, <2>3, <2>4
<1>2. CASE ApplyStrictMode
  <2>1. /\ conf' = conf /\ selected' = selected /\ pc = "strictMode"
        /\ \A f \in Files : ran[f] \in {"none", "fail", "skip"} => ran'[f] = ran[f]
        /\ \A f \in Files : ran[f] # "none" => ran'[f] # "none"
    BY <1>2 DEF ApplyStrictMode, Frame
  <2>2. /\ extra \subseteq extra' /\ state' = state
        /\ pc' = "cleanup" => reason'
    BY <1>2, Order DEF ApplyStrictMode, Finishes, Returns, Signalled, rest
  <2>3. Covered => Covered'
    <3>1. CASE \A f \in selected : ran[f] # "none"
      <4>1. ASSUME NEW f \in selected PROVE ran'[f] # "none"
        BY <2>1, <3>1
      <4> QED BY <2>1, <4>1 DEF Covered
    <3>2. CASE conf.failFast /\ \E f \in Files \ conf.lenient : ran[f] = "skip"
      BY <2>1, <3>2 DEF Covered
    <3> QED BY <3>1, <3>2 DEF Covered
  <2>4. (\E f \in Files \ conf.lenient : ran[f] = "fail")
          => \E f \in Files \ conf'.lenient : ran'[f] = "fail"
    BY <2>1
  <2>5. \/ Covered \/ conf.describe \/ "suite" \in extra
        \/ \E f \in Files \ conf.lenient : ran[f] = "fail"
    BY <2>1 DEF CoveredInv
  <2> QED BY <2>1, <2>2, <2>3, <2>4, <2>5 DEF CoveredInv
<1>3. CASE FinalCleanup
  <2>1. /\ pc = "cleanup" /\ pc' = "cleanupErrors" /\ state' = IF reason THEN "incomplete" ELSE "completed"
        /\ extra \subseteq extra' /\ conf' = conf /\ ran' = ran /\ selected' = selected
    BY <1>3, Order DEF FinalCleanup, Finishes, Returns, Signalled, Gated, Frame, running
  <2>2. CASE reason
    BY <2>1, <2>2 DEF CoveredInv
  <2>3. CASE ~reason
    <3>1. \/ Covered \/ conf.describe \/ "suite" \in extra
          \/ \E f \in Files \ conf.lenient : ran[f] = "fail"
      BY <2>1, <2>3 DEF CoveredInv
    <3> QED BY <2>1, <3>1 DEF CoveredInv, Covered
  <2> QED BY <2>2, <2>3
<1>4. CASE \/ Arm \/ LoadTests \/ FilterSpecs \/ (OutsidePhase /\ (InitRun \/ SnapshotRun))
  <2>1. pc' \in Before \/ (pc' = "cleanup" /\ reason')
    BY <1>4, Order DEF Arm, LoadTests, FilterSpecs, OutsidePhase, InitRun, SnapshotRun,
       Finishes, Returns, Signalled
  <2> QED BY <2>1 DEF CoveredInv
<1>5. CASE \/ Dies \/ \E code \in {Pass, Fail} : ExitsEarly(code) \/ BootExits(code)
  <2>1. pc' = "gone"
    BY <1>5 DEF Dies, ExitsEarly, BootExits, Gone
  <2> QED BY <2>1 DEF CoveredInv
<1>6. CASE \/ InjectLoadErrors \/ InjectCleanupErrors \/ ApplyFlakeState \/ ComputePassed
           \/ RunPlugins \/ BenchmarkRegression \/ SnapshotAudit \/ SnapshotManifest
           \/ FlakePersistence \/ Report \/ (OutsidePhase /\ ~InitRun /\ ~SnapshotRun)
  <2>1. /\ pc \notin Before \union {"cleanup"} /\ extra \subseteq extra'
        /\ conf' = conf /\ state' = state /\ ran' = ran /\ selected' = selected
    BY <1>6 DEF InjectLoadErrors, InjectCleanupErrors, ApplyFlakeState, ComputePassed,
       RunPlugins, BenchmarkRegression, SnapshotAudit, SnapshotManifest, FlakePersistence, Report,
       OutsidePhase, GenerateCoverage, RestorePersistence, PersistRerunState, Finishes, Returns,
       Signalled, Frame, running, rest
  <2>2. CASE pc \in Testing
    BY <2>1, <2>2 DEF CoveredInv, Covered
  <2>3. CASE pc \notin Testing
    <3>1. pc \in Phases \ Gated /\ pc' = Following[pc]
      BY <1>6, <2>1, <2>3, Order DEF InjectLoadErrors, InjectCleanupErrors, ApplyFlakeState,
         ComputePassed, RunPlugins, BenchmarkRegression, SnapshotAudit, SnapshotManifest,
         FlakePersistence, Report, OutsidePhase, GenerateCoverage, RestorePersistence,
         PersistRerunState, Finishes, Returns, Signalled, Phases, Following, Gated
    <3>2. pc' \notin Testing
      BY <2>1, <2>3, <3>1, Order DEF Phases, Following
    <3> QED BY <2>1, <3>2 DEF CoveredInv, Covered
  <2> QED BY <2>2, <2>3
<1>7. CASE \/ CompleteGuard \/ Exit \/ LeaveConsole \/ LauncherWaits \/ Over \/ UNCHANGED vars
           \/ \E code \in Signals : Terminated(code)
  <2>1. /\ UNCHANGED <<conf, running, verdict, rest>>
        /\ pc' = "gone" \/ pc' = pc \/ (pc = "finish" /\ pc' \notin Testing)
    BY <1>7 DEF CompleteGuard, Exit, LeaveConsole, LauncherWaits, Over, Terminated, Gone,
       Untouched, vars
  <2> QED BY <2>1 DEF CoveredInv, Covered, running, verdict, rest
<1>8. CASE OutsidePhase
  BY <1>4, <1>6, <1>8
<1>9. CASE Dies \/ LauncherWaits \/ Over \/ LeaveConsole \/ UNCHANGED vars
  BY <1>5, <1>7, <1>9
<1>10. CASE (\E code \in {Pass, Fail} : ExitsEarly(code) \/ BootExits(code))
            \/ (\E code \in Signals : Terminated(code))
  BY <1>5, <1>7, <1>10
<1>11. CASE Step
  BY <1>1, <1>2, <1>3, <1>4, <1>6, <1>7, <1>8, <1>11 DEF Step
<1> QED BY <1>9, <1>10, <1>11 DEF Next

\* The inventory is built after the last verdict and before anything but a
\* signalled phase can add a row.
ManifestInv ==
  inventory = "complete" \/ manifest = "complete" =>
    /\ pc \in {"snapshotManifest", "flakePersistence", "rerunState", "report", "finish",
               "exiting", "console", "gone"}
    /\ loadErrors = {} /\ conf.selection = "all" /\ ~conf.describe
    /\ extra \subseteq {"framework"} /\ state = "completed"
    /\ \A f \in Files : ran[f] = "fail" => f \in conf.lenient
    /\ Covered

LEMMA ManifestStep ==
  ASSUME IInv, CoveredInv, ManifestInv, [Next]_vars
  PROVE  ManifestInv'
<1> DEFINE Late == {"snapshotManifest", "flakePersistence", "rerunState", "report", "finish",
                    "exiting", "console", "gone"}
           Red == /\ loadErrors = {} /\ conf.selection = "all" /\ ~conf.describe
                  /\ extra \subseteq {"framework"} /\ state = "completed"
                  /\ \A f \in Files : ran[f] = "fail" => f \in conf.lenient
                  /\ Covered
<1>1. CASE SnapshotAudit
  <2>1. pc' = "snapshotManifest" /\ manifest' = manifest /\ pc = "snapshotAudit"
    BY <1>1, Order DEF SnapshotAudit, Returns, Signalled, Gated
  <2>2. inventory' = "complete" => (inventory = "complete" \/ WholeRun)
    BY <1>1 DEF SnapshotAudit
  <2>3. WholeRun => Clean
    BY <1>1 DEF SnapshotAudit, WholeRun, IInv, VerdictInv, Judged
  <2>4. WholeRun => Red
    BY <1>1, <2>3 DEF SnapshotAudit, WholeRun, Clean, CoveredInv
  <2>5. Red => Red'
    BY <1>1 DEF SnapshotAudit, Returns, Signalled, Frame, Covered, loading, running, rest
  <2> QED BY <2>1, <2>2, <2>4, <2>5 DEF ManifestInv
<1>2. CASE SnapshotManifest \/ FlakePersistence \/ Report \/ (OutsidePhase /\ PersistRerunState)
  <2>1. pc' \in Late /\ inventory' = inventory /\ manifest' \in {manifest, inventory}
    BY <1>2, Order DEF SnapshotManifest, FlakePersistence, PersistRerunState, OutsidePhase,
         Report, Finishes, Returns, Signalled, Gated, durable
  <2>2. Red => Red'
    BY <1>2 DEF SnapshotManifest, FlakePersistence, PersistRerunState, OutsidePhase, Report,
         Finishes, Returns, Signalled, Frame, Covered, loading, running, rest
  <2> QED BY <2>1, <2>2 DEF ManifestInv
<1>3. CASE CompleteGuard \/ Exit \/ LeaveConsole \/ Dies \/ LauncherWaits
           \/ (\E code \in {Pass, Fail} : ExitsEarly(code) \/ BootExits(code))
           \/ (\E code \in Signals : Terminated(code))
  <2>1. /\ inventory' = inventory /\ manifest' = manifest
        /\ pc \in Late => pc' \in Late
    BY <1>3 DEF CompleteGuard, Exit, LeaveConsole, Dies, LauncherWaits, ExitsEarly,
         BootExits, Terminated, Gone, Untouched, durable
  <2>2. Red => Red'
    BY <1>3 DEF CompleteGuard, Exit, LeaveConsole, Dies, LauncherWaits, ExitsEarly,
         BootExits, Terminated, Gone, Untouched, Covered, loading, running, verdict, rest
  <2> QED BY <2>1, <2>2 DEF ManifestInv
<1>4. CASE Arm \/ LoadTests \/ FilterSpecs \/ RunSpecs \/ InjectLoadErrors \/ ApplyStrictMode
           \/ FinalCleanup \/ InjectCleanupErrors \/ ApplyFlakeState \/ ComputePassed
           \/ RunPlugins \/ BenchmarkRegression \/ (OutsidePhase /\ ~PersistRerunState)
  <2>1. pc \notin Late /\ inventory' = inventory /\ manifest' = manifest
    BY <1>4 DEF Arm, LoadTests, FilterSpecs, RunSpecs, InjectLoadErrors, ApplyStrictMode,
         FinalCleanup, InjectCleanupErrors, ApplyFlakeState, ComputePassed, RunPlugins,
         BenchmarkRegression, OutsidePhase, InitRun, SnapshotRun, GenerateCoverage,
         RestorePersistence, durable
  <2> QED BY <2>1 DEF ManifestInv
<1>5. CASE Over \/ UNCHANGED vars
  BY <1>5 DEF Over, ManifestInv, Covered, vars, loading, running, verdict, durable, rest
<1> QED BY <1>1, <1>2, <1>3, <1>4, <1>5 DEF Next, Step

-----------------------------------------------------------------------------
\* Until the filter has run nothing is selected: the files may still change.
UnselectedInv == pc \in {"boot", "initRun", "loadTests", "filterSpecs"} => selected = {}

\* Where a phase leads to.
LEMMA Targets ==
  ASSUME NEW p \in Phases
  PROVE  /\ Following[p] \in Phases \union {"finish"} /\ Following[p] # "gone"
         /\ Following[p] \notin {"boot", "initRun"}
         /\ Following[p] = "loadTests" => p = "initRun"
         /\ Following[p] = "filterSpecs" => p = "loadTests"
BY DEF Phases, Following

LEMMA PhaseType ==
  ASSUME TypeOK, UnselectedInv, NEW p \in Phases, pc = p,
         NEW rows \in SUBSET RowKinds, NEW ok \in BOOLEAN, Finishes(p, rows, ok)
  PROVE  /\ pc' \in Phases \union {"finish"} /\ pc' # "gone"
         /\ extra' \subseteq RowKinds /\ passed' \in BOOLEAN /\ reason' \in BOOLEAN
         /\ pc' \in {"boot", "initRun", "loadTests", "filterSpecs"} =>
               selected = {} /\ p \in {"initRun", "loadTests"}
<1>1. "cleanup" \in Phases /\ "framework" \in RowKinds
  BY DEF Phases, Following, RowKinds
<1>2. reason \in BOOLEAN
  BY DEF TypeOK
<1> QED BY <1>1, <1>2, Targets DEF Finishes, Returns, Signalled, UnselectedInv

\* Every phase returns or is signalled, with rows and a verdict of the right kind.
Phase ==
  \/ OutsidePhase \/ LoadTests \/ FilterSpecs \/ RunSpecs \/ InjectLoadErrors
  \/ ApplyStrictMode \/ FinalCleanup \/ InjectCleanupErrors \/ ApplyFlakeState
  \/ ComputePassed \/ RunPlugins \/ BenchmarkRegression \/ SnapshotAudit
  \/ SnapshotManifest \/ FlakePersistence \/ Report

LEMMA PhaseShape ==
  ASSUME TypeOK, Phase
  PROVE  \E rows \in SUBSET RowKinds, ok \in BOOLEAN : pc \in Phases /\ Finishes(pc, rows, ok)
<1>0. /\ extra \in SUBSET RowKinds /\ passed \in BOOLEAN /\ Verdict \in BOOLEAN
      /\ FALSE \in BOOLEAN
  BY DEF TypeOK, Verdict
<1>1. CASE OutsidePhase
  BY <1>0, <1>1 DEF OutsidePhase, InitRun, SnapshotRun, GenerateCoverage, RestorePersistence,
     PersistRerunState, Phases, Following
<1>2. CASE LoadTests \/ FilterSpecs
  BY <1>0, <1>2 DEF LoadTests, FilterSpecs, Phases, Following
<1>3. CASE RunSpecs
  <2>1. PICK suite \in SUBSET {"suite"} : Finishes("runSpecs", extra \union suite, passed)
    BY <1>3 DEF RunSpecs, Finishes
  <2>2. extra \union suite \in SUBSET RowKinds /\ pc = "runSpecs"
    BY <1>0, <1>3 DEF RowKinds, RunSpecs
  <2> QED BY <1>0, <2>1, <2>2 DEF Phases, Following
<1>4. CASE InjectLoadErrors \/ ApplyStrictMode
  <2>1. \E rows \in SUBSET {"load", "strict"} : Finishes(pc, extra \union rows, passed)
    BY <1>4 DEF InjectLoadErrors, ApplyStrictMode
  <2> QED BY <1>0, <1>4, <2>1 DEF InjectLoadErrors, ApplyStrictMode, RowKinds, Phases, Following
<1>5. CASE FinalCleanup \/ RunPlugins
  <2>1. extra \union {} = extra
    OBVIOUS
  <2>2. \E rows \in SUBSET {"plugin"} : Finishes(pc, extra \union rows, passed)
    BY <1>5, <2>1 DEF FinalCleanup, RunPlugins
  <2> QED BY <1>0, <1>5, <2>2 DEF FinalCleanup, RunPlugins, RowKinds, Phases, Following
<1>6. CASE InjectCleanupErrors
  <2>1. extra \union {} = extra
    OBVIOUS
  <2>2. \E rows \in SUBSET {"cleanup"} : Finishes(pc, extra \union rows, passed)
    BY <1>6, <2>1 DEF InjectCleanupErrors, Finishes
  <2> QED BY <1>0, <1>6, <2>2 DEF InjectCleanupErrors, RowKinds, Phases, Following
<1>7. CASE ApplyFlakeState \/ ComputePassed
  BY <1>0, <1>7 DEF ApplyFlakeState, ComputePassed, Finishes, Phases, Following
<1>8. CASE \/ BenchmarkRegression \/ SnapshotAudit \/ SnapshotManifest \/ FlakePersistence
           \/ Report
  <2>1. \E ok \in {passed, FALSE} : Finishes(pc, extra, ok)
    BY <1>8 DEF BenchmarkRegression, SnapshotAudit, SnapshotManifest, FlakePersistence, Report,
       Finishes
  <2>2. pc \in Phases
    BY <1>8 DEF BenchmarkRegression, SnapshotAudit, SnapshotManifest, FlakePersistence, Report,
       Phases, Following
  <2> QED BY <1>0, <2>1, <2>2
<1> QED BY <1>1, <1>2, <1>3, <1>4, <1>5, <1>6, <1>7, <1>8 DEF Phase

\* The other parts of the type, variable by variable.
LoadingType == /\ discovered \subseteq Files /\ loadErrors \subseteq discovered
               /\ selected \subseteq discovered \ loadErrors /\ emptyShard \in BOOLEAN

DurableType == /\ inventory \in Inventories /\ manifest \in Inventories
               /\ gates \subseteq {"snapshot", "benchmark"} /\ aged \in BOOLEAN
               /\ reported \in {"none", "green", "red"}

RestType == /\ ran \in [Files -> Results] /\ cleanupErrors \in BOOLEAN
            /\ classified \in BOOLEAN
            /\ state \in {"notStarted", "running", "completed", "incomplete"}

LEMMA PhaseLoading ==
  ASSUME TypeOK, UnselectedInv, Phase
  PROVE  LoadingType'
<1>1. CASE LoadTests
  BY <1>1 DEF LoadTests, TypeOK, UnselectedInv, LoadingType, running
<1>2. CASE FilterSpecs
  BY <1>2 DEF FilterSpecs, TypeOK, LoadingType, loading
<1>3. CASE ~LoadTests /\ ~FilterSpecs
  <2>1. UNCHANGED <<loading, selected>>
    BY <1>3 DEF Phase, OutsidePhase, RunSpecs, InjectLoadErrors, ApplyStrictMode, FinalCleanup,
       InjectCleanupErrors, ApplyFlakeState, ComputePassed, RunPlugins, BenchmarkRegression,
       SnapshotAudit, SnapshotManifest, FlakePersistence, Report, running
  <2> QED BY <2>1 DEF TypeOK, LoadingType, loading
<1> QED BY <1>1, <1>2, <1>3

LEMMA PhaseRest ==
  ASSUME TypeOK, Phase
  PROVE  RestType'
<1> USE DEF TypeOK, RestType, running, rest
<1>1. CASE RunSpecs
  BY <1>1 DEF RunSpecs
<1>2. CASE ApplyStrictMode
  <2>1. \A f \in Files : ran'[f] \in Results
    BY <1>2 DEF ApplyStrictMode, Results
  <2> QED BY <1>2, <2>1 DEF ApplyStrictMode
<1>3. CASE FinalCleanup
  BY <1>3 DEF FinalCleanup
<1>4. CASE InjectCleanupErrors \/ ApplyFlakeState
  BY <1>4 DEF InjectCleanupErrors, ApplyFlakeState
<1>5. CASE OutsidePhase \/ LoadTests \/ FilterSpecs \/ InjectLoadErrors \/ ComputePassed
           \/ RunPlugins \/ BenchmarkRegression \/ SnapshotAudit \/ SnapshotManifest
           \/ FlakePersistence \/ Report
  BY <1>5 DEF OutsidePhase, LoadTests, FilterSpecs, InjectLoadErrors, ComputePassed, RunPlugins,
     BenchmarkRegression, SnapshotAudit, SnapshotManifest, FlakePersistence, Report
<1> QED BY <1>1, <1>2, <1>3, <1>4, <1>5 DEF Phase

LEMMA PhaseDurable ==
  ASSUME TypeOK, Phase
  PROVE  DurableType'
<1> USE DEF TypeOK, DurableType, durable
<1>1. CASE BenchmarkRegression \/ SnapshotAudit
  BY <1>1 DEF BenchmarkRegression, SnapshotAudit, Inventories
<1>2. CASE SnapshotManifest \/ FlakePersistence
  BY <1>2 DEF SnapshotManifest, FlakePersistence, CompleteInventory
<1>3. CASE Report
  BY <1>3 DEF Report, TextVerdict
<1>4. CASE OutsidePhase \/ LoadTests \/ FilterSpecs \/ RunSpecs \/ InjectLoadErrors
           \/ ApplyStrictMode \/ FinalCleanup \/ InjectCleanupErrors \/ ApplyFlakeState
           \/ ComputePassed \/ RunPlugins
  BY <1>4 DEF OutsidePhase, LoadTests, FilterSpecs, RunSpecs, InjectLoadErrors, ApplyStrictMode,
     FinalCleanup, InjectCleanupErrors, ApplyFlakeState, ComputePassed, RunPlugins
<1> QED BY <1>1, <1>2, <1>3, <1>4 DEF Phase

LEMMA PhaseTyped ==
  ASSUME TypeOK, UnselectedInv, Phase
  PROVE  TypeOK' /\ UnselectedInv'
<1>1. Frame
  BY DEF Phase, OutsidePhase, LoadTests, FilterSpecs, RunSpecs, InjectLoadErrors,
     ApplyStrictMode, FinalCleanup, InjectCleanupErrors, ApplyFlakeState, ComputePassed,
     RunPlugins, BenchmarkRegression, SnapshotAudit, SnapshotManifest, FlakePersistence, Report
<1>2. PICK rows \in SUBSET RowKinds, ok \in BOOLEAN : pc \in Phases /\ Finishes(pc, rows, ok)
  BY PhaseShape
<1>3. /\ pc' \in Phases \union {"finish"} /\ pc' # "gone"
      /\ extra' \subseteq RowKinds /\ passed' \in BOOLEAN /\ reason' \in BOOLEAN
      /\ pc' \in {"boot", "initRun", "loadTests", "filterSpecs"} =>
            selected = {} /\ pc \in {"initRun", "loadTests"}
  BY <1>2, PhaseType
<1>4. pc # "gone"
  BY <1>2 DEF Phases, Following
<1>5. TypeOK'
  BY <1>1, <1>3, <1>4, PhaseLoading, PhaseRest, PhaseDurable
     DEF TypeOK, Frame, guard, LoadingType, RestType, DurableType
<1>6. pc \in {"initRun", "loadTests"} => UNCHANGED selected
  BY DEF Phase, OutsidePhase, LoadTests, FilterSpecs, RunSpecs, InjectLoadErrors,
     ApplyStrictMode, FinalCleanup, InjectCleanupErrors, ApplyFlakeState, ComputePassed,
     RunPlugins, BenchmarkRegression, SnapshotAudit, SnapshotManifest, FlakePersistence, Report,
     running
<1> QED BY <1>3, <1>5, <1>6 DEF UnselectedInv

LEMMA EndTyped ==
  ASSUME TypeOK, UnselectedInv,
         \/ Arm \/ CompleteGuard \/ Exit \/ LeaveConsole \/ Dies \/ LauncherWaits
         \/ \E code \in {Pass, Fail} : ExitsEarly(code) \/ BootExits(code)
         \/ \E code \in Signals : Terminated(code)
  PROVE  TypeOK' /\ UnselectedInv'
<1> USE DEF Pass, Fail, NoTests, LoadError, Killed, NoCode, Signals, Codes
<1>1. UNCHANGED <<conf, loading, running, verdict, durable, rest>>
  BY DEF Arm, CompleteGuard, Exit, LeaveConsole, Dies, LauncherWaits, ExitsEarly, BootExits,
     Terminated, Gone, Untouched
<1>2. /\ armed' \in BOOLEAN /\ complete' \in BOOLEAN /\ premature' \in BOOLEAN
  BY ConfigAssumption DEF Arm, CompleteGuard, Exit, LeaveConsole, Dies, LauncherWaits, ExitsEarly,
     BootExits, Terminated, guard, TypeOK
<1>3. /\ pc' \in Phases \union {"boot", "finish", "exiting", "console", "gone"}
      /\ qExit' \in Codes /\ (pc' = "gone") = (qExit' # NoCode)
      /\ pc' = pc \/ pc' \in {"initRun", "exiting", "console", "gone"}
      /\ pc' = "initRun" => pc \in {"boot", "initRun"}
  <2>1. "initRun" \in Phases
    BY DEF Phases, Following
  <2> QED BY <2>1 DEF Arm, CompleteGuard, Exit, LeaveConsole, Dies, LauncherWaits, ExitsEarly,
     BootExits, Terminated, Gone, ExitCode, Untouched, TypeOK
<1>4. status' \in Codes
  BY DEF Arm, CompleteGuard, Exit, LeaveConsole, Dies, LauncherWaits, ExitsEarly,
     BootExits, Terminated, Untouched, Supervised, TypeOK
<1>5. TypeOK'
  BY <1>1, <1>2, <1>3, <1>4 DEF TypeOK, loading, running, verdict, durable, rest
<1>6. UnselectedInv'
  BY <1>1, <1>3 DEF UnselectedInv, running
<1> QED BY <1>5, <1>6

LEMMA TypeInductive ==
  ASSUME TypeOK, UnselectedInv, [Next]_vars
  PROVE  TypeOK' /\ UnselectedInv'
<1>1. CASE Phase
  BY <1>1, PhaseTyped
<1>2. CASE \/ Arm \/ CompleteGuard \/ Exit \/ LeaveConsole \/ Dies \/ LauncherWaits
           \/ \E code \in {Pass, Fail} : ExitsEarly(code) \/ BootExits(code)
           \/ \E code \in Signals : Terminated(code)
  BY <1>2, EndTyped
<1>3. CASE Over \/ UNCHANGED vars
  BY <1>3 DEF Over, TypeOK, UnselectedInv, vars, loading, running, verdict, durable, guard, rest
<1> QED BY <1>1, <1>2, <1>3 DEF Next, Step, Phase

\* The state of a run has the shape TypeOK gives it; in particular the selected
\* tests are always those of files that were discovered and could be loaded.
THEOREM TypeCorrect == Spec => []TypeOK
<1>1. Init => TypeOK /\ UnselectedInv
  BY DEF Init, TypeOK, UnselectedInv, Results, Inventories, Codes, NoCode, Pass
<1>2. TypeOK /\ UnselectedInv /\ [Next]_vars => (TypeOK /\ UnselectedInv)'
  BY TypeInductive
<1> QED BY <1>1, <1>2, PTL DEF Spec

-----------------------------------------------------------------------------
\* A complete snapshot manifest, on whose word obsolete snapshots are deleted,
\* comes from a run of everything in which every file that was still there
\* loaded, no test failed outside the quarantine, and every selected test was
\* run, unless -ff stopped the run at a skipped one.
THEOREM ManifestTrusted == Spec => []ManifestFromWholeRun
<1> DEFINE AllInv == TypeOK /\ UnselectedInv /\ IInv /\ CoveredInv /\ ManifestInv
<1>1. Init => AllInv
  <2>1. Init => TypeOK /\ UnselectedInv
    BY DEF Init, TypeOK, UnselectedInv, Results, Inventories, Codes, NoCode, Pass
  <2> QED BY <2>1, InitStep DEF Init, ManifestInv, CoveredInv
<1>2. AllInv /\ [Next]_vars => AllInv'
  <2>1. TypeOK => selected \subseteq Files
    BY DEF TypeOK
  <2> QED BY <2>1, TypeInductive, Inductive, CoveredStep, ManifestStep
<1>3. AllInv => ManifestFromWholeRun
  BY DEF ManifestInv, ManifestFromWholeRun
<1> QED BY <1>1, <1>2, <1>3, PTL DEF Spec

-----------------------------------------------------------------------------
(***************************************************************************)
(* The printed verdict.  The text reporter computes its own from the rows  *)
(* and the gates; that it is the one the exit status carries rests on what *)
(* a red or a green `passed` means once it has been computed (DecidedInv). *)
(* The exception is the reporter's: it prints its pass for quarantined     *)
(* failures before it looks at the gates.                                  *)
(***************************************************************************)
\* A file that did not load has become a row.
LoadRowInv ==
  loadErrors # {} =>
    \/ extra # {}
    \/ pc \in {"boot", "initRun", "loadTests", "filterSpecs", "snapshotRun", "runSpecs",
               "loadErrors", "gone"}

\* Only a requested gate fails, and not before the verdict.
GateInv ==
  /\ gates # {} => conf.audit \/ conf.bench
  /\ pc \notin Judged \union {"console", "gone"} => gates = {}

DecidedInv ==
  pc \in Judged =>
    /\ passed => extra = {} /\ loadErrors = {} /\ Blocking = {} /\ gates = {}
    /\ passed \/ extra # {} \/ Blocking # {} \/ gates # {} \/ ~AnyRow

ToldInv ==
  reported # "none" =>
    /\ pc \in {"finish", "exiting", "console", "gone"}
    /\ pc \in {"finish", "exiting"} =>
         /\ ~conf.describe /\ (reported = "green" => AnyRow)
         /\ \/ (reported = "green") = passed
            \/ "framework" \in extra /\ ~passed
            \/ QuarantineHidesGate /\ ~passed /\ loadErrors = {}

AgreeInv == LoadRowInv /\ GateInv /\ DecidedInv /\ ToldInv /\ VerdictsAgree

\* The phases before the last computation of the verdict.
LEMMA EarlyAgree ==
  ASSUME TypeOK, AgreeInv, Phase, pc \notin Judged, pc # "pluginResultsSummary"
  PROVE  AgreeInv'
<1>1. PICK rows \in SUBSET RowKinds, ok \in BOOLEAN : pc \in Phases /\ Finishes(pc, rows, ok)
  BY PhaseShape
<1>2. /\ pc' \notin Judged /\ pc' \notin {"console", "gone"}
      /\ pc' \notin {"boot", "initRun"}
  <2>1. pc \in Gated \union {"cleanup", "cleanupErrors", "restorePersistence", "flakeState",
                            "resultsSummary", "plugins"}
    BY <1>1 DEF Phases, Following, Judged, Gated
  <2> QED BY <1>1, <2>1, Order DEF Finishes, Returns, Signalled, Gated, Judged
<1>3. /\ ~BenchmarkRegression /\ ~SnapshotAudit /\ ~SnapshotManifest /\ ~FlakePersistence
      /\ ~Report
  BY DEF BenchmarkRegression, SnapshotAudit, SnapshotManifest, FlakePersistence, Report, Judged
<1>4. UNCHANGED durable /\ conf' = conf
  BY <1>3 DEF Phase, OutsidePhase, LoadTests, FilterSpecs, RunSpecs, InjectLoadErrors,
     ApplyStrictMode, FinalCleanup, InjectCleanupErrors, ApplyFlakeState, ComputePassed,
     RunPlugins, Frame
<1>5. LoadRowInv'
  <2>1. CASE LoadTests
    BY <2>1, Order DEF LoadTests, Finishes, Returns, Signalled, LoadRowInv
  <2>2. CASE InjectLoadErrors
    BY <2>2 DEF InjectLoadErrors, Finishes, Returns, Signalled, LoadRowInv, loading
  <2>3. CASE FilterSpecs \/ RunSpecs \/ (OutsidePhase /\ (InitRun \/ SnapshotRun))
    BY <2>3, Order DEF FilterSpecs, RunSpecs, OutsidePhase, InitRun, SnapshotRun, Finishes, Returns,
       Signalled, LoadRowInv, loading, AgreeInv
  <2>4. CASE \/ OutsidePhase /\ ~InitRun /\ ~SnapshotRun
             \/ ApplyStrictMode \/ FinalCleanup \/ InjectCleanupErrors \/ ApplyFlakeState
             \/ ComputePassed \/ RunPlugins
    <3>1. /\ UNCHANGED loadErrors /\ extra \subseteq extra'
          /\ pc \notin {"boot", "initRun", "loadTests", "filterSpecs", "snapshotRun", "runSpecs",
                        "loadErrors", "gone"}
      BY <2>4 DEF OutsidePhase, GenerateCoverage, RestorePersistence, PersistRerunState,
         ApplyStrictMode, FinalCleanup, InjectCleanupErrors, ApplyFlakeState, ComputePassed,
         RunPlugins, Finishes, Returns, Signalled, loading
    <3> QED BY <3>1 DEF LoadRowInv, AgreeInv
  <2> QED BY <1>3, <2>1, <2>2, <2>3, <2>4 DEF Phase
<1>6. pc \notin {"finish", "exiting", "console", "gone"}
  BY <1>1 DEF Phases, Following
<1>7. GateInv'
  BY <1>2, <1>4, <1>6 DEF GateInv, AgreeInv, durable
<1>8. DecidedInv'
  BY <1>2 DEF DecidedInv
<1>9. ToldInv' /\ VerdictsAgree'
  BY <1>4, <1>6, <1>2 DEF ToldInv, VerdictsAgree, AgreeInv, durable
<1> QED BY <1>5, <1>7, <1>8, <1>9 DEF AgreeInv

\* The verdict is computed from the rows, and no gate has failed yet.
LEMMA ComputedAgree ==
  ASSUME TypeOK, AgreeInv, ComputePassed, pc = "pluginResultsSummary"
  PROVE  AgreeInv'
<1>1. /\ UNCHANGED <<loading, running, durable, rest>> /\ conf' = conf
      /\ pc' = "benchmarkRegression"
      /\ \/ extra' = extra /\ passed' = Verdict
         \/ "framework" \in extra' /\ passed' = FALSE
      /\ extra \subseteq extra'
  BY Order DEF ComputePassed, Finishes, Returns, Signalled, Gated, Frame
<1>2. gates = {} /\ reported = "none"
  BY DEF AgreeInv, GateInv, ToldInv, Judged
<1>3. loadErrors # {} => extra # {}
  BY DEF AgreeInv, LoadRowInv
<1>4. LoadRowInv' /\ GateInv' /\ ToldInv' /\ VerdictsAgree'
  BY <1>1, <1>2, <1>3 DEF LoadRowInv, GateInv, ToldInv, VerdictsAgree, loading, durable
<1>5. DecidedInv'
  <2>1. CASE extra' = extra /\ passed' = Verdict
    <3>1. Blocking' = Blocking /\ AnyRow' = AnyRow
      BY <1>1, <2>1 DEF Blocking, AnyRow, Reported, running, rest
    <3>2. Verdict => extra = {} /\ loadErrors = {} /\ Blocking = {}
      BY DEF Verdict, AnyRow, Reported, Blocking
    <3>3. Verdict \/ extra # {} \/ Blocking # {} \/ ~AnyRow
      BY <1>3 DEF Verdict
    <3> QED BY <1>1, <1>2, <2>1, <3>1, <3>2, <3>3 DEF DecidedInv, loading, durable
  <2>2. CASE "framework" \in extra' /\ passed' = FALSE
    BY <2>2 DEF DecidedInv
  <2> QED BY <1>1, <2>1, <2>2
<1> QED BY <1>4, <1>5 DEF AgreeInv

\* A later phase that turns the verdict red leaves a row or a failed gate.
LEMMA LateAgree ==
  ASSUME TypeOK, AgreeInv,
         \/ BenchmarkRegression \/ SnapshotAudit \/ SnapshotManifest \/ FlakePersistence
         \/ PersistRerunState,
         Frame, UNCHANGED <<loading, running, rest, reported>>,
         PersistRerunState => UNCHANGED gates
  PROVE  AgreeInv'
<1>1. /\ pc \in Judged \ {"report", "finish", "exiting"}
      /\ pc' \in Judged \ {"finish", "exiting"}
  BY Order DEF BenchmarkRegression, SnapshotAudit, SnapshotManifest, FlakePersistence,
     PersistRerunState, Finishes, Returns, Signalled, Gated, Judged
<1>2. \/ passed' = passed /\ extra' = extra /\ gates' = gates
      \/ passed' = FALSE /\ (extra' # {} \/ gates' # {}) /\ extra \subseteq extra'
  BY DEF BenchmarkRegression, SnapshotAudit, SnapshotManifest, FlakePersistence,
     PersistRerunState, Finishes, Returns, Signalled
<1>3. gates' = gates \/ conf.audit \/ conf.bench
  BY DEF BenchmarkRegression, SnapshotAudit, SnapshotManifest, FlakePersistence
<1>4. /\ loadErrors' = loadErrors /\ conf' = conf /\ reported' = reported
      /\ Blocking' = Blocking /\ (extra' = extra => AnyRow' = AnyRow)
  BY DEF Frame, Blocking, AnyRow, Reported, loading, running, rest
<1>5. LoadRowInv'
  <2>1. loadErrors # {} => extra # {}
    BY <1>1 DEF AgreeInv, LoadRowInv, Judged
  <2>2. extra # {} => extra' # {}
    BY <1>2
  <2> QED BY <2>1, <2>2, <1>4 DEF LoadRowInv
<1>6. GateInv'
  BY <1>1, <1>3, <1>4 DEF AgreeInv, GateInv
<1>7. DecidedInv'
  BY <1>1, <1>2, <1>4 DEF AgreeInv, DecidedInv
<1>8. ToldInv' /\ VerdictsAgree'
  BY <1>1, <1>4 DEF AgreeInv, ToldInv, VerdictsAgree, Judged
<1> QED BY <1>5, <1>6, <1>7, <1>8 DEF AgreeInv

\* What the text reporter prints is the computed verdict, unless it prints nothing.
LEMMA TextAgrees ==
  ASSUME TypeOK, AgreeInv, pc = "report", TextVerdict # "none"
  PROVE  /\ \/ (TextVerdict = "green") = passed
            \/ /\ TextVerdict = "green" /\ gates # {} /\ Blocking = {} /\ ~passed
               /\ \E f \in Files : ran[f] = "fail"
               /\ loadErrors = {}
         /\ TextVerdict = "green" => AnyRow
<1>2. passed \in BOOLEAN
  BY DEF TypeOK
<1>3. /\ passed => extra = {} /\ loadErrors = {} /\ Blocking = {} /\ gates = {}
      /\ passed \/ extra # {} \/ Blocking # {} \/ gates # {} \/ ~AnyRow
  BY DEF AgreeInv, DecidedInv, Judged
<1>4. CASE extra # {} \/ Blocking # {}
  BY <1>2, <1>3, <1>4 DEF TextVerdict
<1>5. CASE extra = {} /\ Blocking = {} /\ \E f \in Files : ran[f] = "fail"
  <2>1. TextVerdict = "green" /\ AnyRow
    BY <1>5 DEF TextVerdict, AnyRow, Reported
  <2>2. loadErrors = {}
    BY <1>5 DEF AgreeInv, LoadRowInv
  <2>3. CASE passed
    BY <2>1, <2>3
  <2>4. CASE ~passed
    BY <1>3, <1>5, <2>1, <2>2, <2>4
  <2> QED BY <1>2, <2>3, <2>4
<1>6. CASE extra = {} /\ Blocking = {} /\ ~\E f \in Files : ran[f] = "fail"
  <2>1. TextVerdict = IF gates # {} THEN "red" ELSE IF Reported = {} THEN "none" ELSE "green"
    BY <1>6 DEF TextVerdict
  <2> QED BY <1>2, <1>3, <1>6, <2>1 DEF AnyRow
<1> QED BY <1>4, <1>5, <1>6

LEMMA ReportAgree ==
  ASSUME TypeOK, AgreeInv, Report
  PROVE  AgreeInv'
<1>1. /\ pc = "report" /\ pc' = "finish" /\ conf' = conf /\ gates' = gates
      /\ loadErrors' = loadErrors
      /\ \/ extra' = extra /\ passed' = passed
         \/ "framework" \in extra' /\ passed' = FALSE
      /\ extra \subseteq extra'
  BY Order DEF Report, Returns, Signalled, Gated, Frame, loading
<1>2. Blocking' = Blocking /\ Reported' = Reported
  BY DEF Report, Frame, Blocking, Reported, running, rest
<1>3. reported = "none" /\ (loadErrors # {} => extra # {})
  BY <1>1 DEF AgreeInv, ToldInv, LoadRowInv
<1>4. LoadRowInv' /\ GateInv' /\ VerdictsAgree'
  BY <1>1, <1>3 DEF AgreeInv, LoadRowInv, GateInv, VerdictsAgree, Judged
<1>5. DecidedInv'
  BY <1>1, <1>2 DEF AgreeInv, DecidedInv, AnyRow, Judged
<1>6. ToldInv'
  <2> DEFINE told == IF conf.describe THEN "none" ELSE TextVerdict
  <2>1. CASE Returns(pc, extra, passed) /\ reported' = told
    <3>1. extra' = extra /\ passed' = passed /\ AnyRow' = AnyRow
      BY <2>1, <1>2 DEF Returns, AnyRow
    <3>2. QuarantineHidesGate' = /\ told = "green" /\ gates # {} /\ Blocking = {}
                                 /\ \E f \in Files : ran[f] = "fail"
      BY <1>1, <1>2, <2>1 DEF QuarantineHidesGate, Report, running
    <3> QED BY <1>1, <2>1, <3>1, <3>2, TextAgrees DEF ToldInv
  <2>2. CASE Signalled(pc, extra) /\ reported' \in {reported, told}
    <3>1. "framework" \in extra' /\ ~passed'
      BY <2>2 DEF Signalled
    <3>2. AnyRow'
      BY <3>1 DEF AnyRow
    <3>3. reported' # "none" => ~conf'.describe
      BY <1>1, <1>3, <2>2
    <3> QED BY <1>1, <3>1, <3>2, <3>3 DEF ToldInv
  <2> QED BY <2>1, <2>2 DEF Report
<1> QED BY <1>4, <1>5, <1>6 DEF AgreeInv

\* A printed verdict determines the exit code.
LEMMA CodeAgrees ==
  ASSUME TypeOK, AgreeInv, pc = "exiting", reported # "none"
  PROVE  \/ (reported = "green") = (ExitCode = Pass)
         \/ "framework" \in extra /\ ExitCode # Pass
         \/ QuarantineHidesGate /\ ExitCode = Fail
<1>1. /\ ~conf.describe /\ (reported = "green" => AnyRow)
      /\ \/ (reported = "green") = passed
         \/ "framework" \in extra /\ ~passed
         \/ QuarantineHidesGate /\ ~passed /\ loadErrors = {}
  BY DEF AgreeInv, ToldInv
<1>2. passed => loadErrors = {}
  BY DEF AgreeInv, DecidedInv, Judged
<1>3. passed \in BOOLEAN
  BY DEF TypeOK
<1>4. ExitCode = IF loadErrors # {} THEN LoadError
                 ELSE IF ~emptyShard /\ discovered = {} /\ ~AnyRow THEN NoTests
                 ELSE IF ~passed THEN Fail ELSE Pass
  BY <1>1 DEF ExitCode
<1>5. ~passed => ExitCode # Pass
  BY <1>4 DEF LoadError, NoTests, Fail, Pass
<1>6. passed /\ AnyRow => ExitCode = Pass
  BY <1>2, <1>4
<1>7. QuarantineHidesGate /\ ~passed /\ loadErrors = {} => ExitCode = Fail
  BY <1>1, <1>4 DEF QuarantineHidesGate
<1> QED BY <1>1, <1>3, <1>5, <1>6, <1>7

LEMMA EndAgree ==
  ASSUME TypeOK, IInv, AgreeInv,
         \/ Arm \/ CompleteGuard \/ Exit \/ LeaveConsole \/ Dies \/ LauncherWaits
         \/ \E code \in {Pass, Fail} : ExitsEarly(code) \/ BootExits(code)
         \/ \E code \in Signals : Terminated(code)
  PROVE  AgreeInv'
<1>1. /\ UNCHANGED <<conf, loading, running, verdict, durable, rest>>
      /\ Blocking' = Blocking /\ AnyRow' = AnyRow
  BY DEF Arm, CompleteGuard, Exit, LeaveConsole, Dies, LauncherWaits, ExitsEarly, BootExits,
     Terminated, Gone, Untouched, Blocking, AnyRow, Reported, loading, running, verdict, rest
<1>0. QuarantineHidesGate' = QuarantineHidesGate
  BY <1>1 DEF QuarantineHidesGate, running, durable
<1> USE <1>0, <1>1 DEF AgreeInv, LoadRowInv, GateInv, DecidedInv, ToldInv, loading, running, verdict,
                 durable, rest
<1>2. CASE Arm
  BY <1>2 DEF Arm, VerdictsAgree, Judged
<1>3. CASE CompleteGuard
  BY <1>3 DEF CompleteGuard, VerdictsAgree, Judged
<1>4. CASE Exit
  <2>1. /\ pc = "exiting" /\ pc' = "gone" /\ qExit' = ExitCode
    BY <1>4 DEF Exit, Gone
  <2>2. VerdictsAgree'
    BY <2>1, CodeAgrees DEF VerdictsAgree
  <2> QED BY <2>1, <2>2 DEF Judged
<1>5. CASE LeaveConsole
  BY <1>5 DEF LeaveConsole, Gone, VerdictsAgree, IInv, MarkerInv, Judged
<1>6. CASE Dies
  BY <1>6 DEF Dies, Gone, VerdictsAgree, Judged
<1>7. CASE LauncherWaits
  BY <1>7 DEF LauncherWaits, VerdictsAgree
<1>8. CASE \E code \in {Pass, Fail} : ExitsEarly(code) \/ BootExits(code)
  <2>1. pc \in UserCode \union {"boot"} /\ pc' = "gone"
    BY <1>8 DEF ExitsEarly, BootExits, Gone
  <2> QED BY <2>1 DEF VerdictsAgree, UserCode, Judged
<1>9. CASE \E code \in Signals : Terminated(code)
  BY <1>9 DEF Terminated, Gone, VerdictsAgree, Judged
<1> QED BY <1>2, <1>3, <1>4, <1>5, <1>6, <1>7, <1>8, <1>9

LEMMA AgreeInductive ==
  ASSUME TypeOK, IInv, AgreeInv, [Next]_vars
  PROVE  AgreeInv'
<1>1. CASE Phase /\ pc \notin Judged /\ pc # "pluginResultsSummary"
  BY <1>1, EarlyAgree
<1>2. CASE Phase /\ pc = "pluginResultsSummary"
  <2>1. ComputePassed
    BY <1>2 DEF Phase, OutsidePhase, InitRun, SnapshotRun, GenerateCoverage, RestorePersistence,
       PersistRerunState, LoadTests, FilterSpecs, RunSpecs, InjectLoadErrors, ApplyStrictMode,
       FinalCleanup, InjectCleanupErrors, ApplyFlakeState, RunPlugins, BenchmarkRegression,
       SnapshotAudit, SnapshotManifest, FlakePersistence, Report
  <2> QED BY <1>2, <2>1, ComputedAgree
<1>3. CASE Report
  BY <1>3, ReportAgree
<1>4. CASE Phase /\ pc \in Judged /\ ~Report
  <2>1. \/ BenchmarkRegression \/ SnapshotAudit \/ SnapshotManifest \/ FlakePersistence
        \/ OutsidePhase /\ PersistRerunState
    BY <1>4 DEF Phase, OutsidePhase, InitRun, SnapshotRun, GenerateCoverage, RestorePersistence,
       LoadTests, FilterSpecs, RunSpecs, InjectLoadErrors, ApplyStrictMode, FinalCleanup,
       InjectCleanupErrors, ApplyFlakeState, ComputePassed, RunPlugins, Judged
  <2>2. /\ Frame /\ UNCHANGED <<loading, running, rest, reported>>
        /\ PersistRerunState => UNCHANGED gates
    BY <2>1 DEF BenchmarkRegression, SnapshotAudit, SnapshotManifest, FlakePersistence,
       OutsidePhase, PersistRerunState, durable
  <2> QED BY <2>1, <2>2, LateAgree
<1>5. CASE \/ Arm \/ CompleteGuard \/ Exit \/ LeaveConsole \/ Dies \/ LauncherWaits
           \/ \E code \in {Pass, Fail} : ExitsEarly(code) \/ BootExits(code)
           \/ \E code \in Signals : Terminated(code)
  BY <1>5, EndAgree
<1>6. CASE Over \/ UNCHANGED vars
  BY <1>6 DEF Over, AgreeInv, LoadRowInv, GateInv, DecidedInv, ToldInv, VerdictsAgree, Blocking,
     QuarantineHidesGate, AnyRow, Reported, vars, loading, running, verdict, durable, rest
<1> QED BY <1>1, <1>2, <1>3, <1>4, <1>5, <1>6 DEF Next, Step, Phase

\* The verdict the text reporter prints is the one the exit status carries, for
\* every set of files, every command line and whatever the phases do; in the one
\* case where it is not, the run passes by its quarantine and fails by a gate.
THEOREM PrintedIsReturned == Spec => []VerdictsAgree
<1>1. Init => TypeOK /\ UnselectedInv /\ IInv /\ AgreeInv
  <2>1. Init => TypeOK /\ UnselectedInv
    BY DEF Init, TypeOK, UnselectedInv, Results, Inventories, Codes, NoCode, Pass
  <2>2. Init => AgreeInv
    BY DEF Init, AgreeInv, LoadRowInv, GateInv, DecidedInv, ToldInv, VerdictsAgree, Judged
  <2> QED BY <2>1, <2>2, InitStep
<1>2. TypeOK /\ UnselectedInv /\ IInv /\ AgreeInv /\ [Next]_vars =>
        (TypeOK /\ UnselectedInv /\ IInv /\ AgreeInv)'
  BY TypeInductive, Inductive, AgreeInductive
<1>3. AgreeInv => VerdictsAgree
  BY DEF AgreeInv
<1> QED BY <1>1, <1>2, <1>3, PTL DEF Spec
=============================================================================
