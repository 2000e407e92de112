-------------------------------- MODULE Suite --------------------------------
(***************************************************************************)
(* How resQ runs discovered suites: .tst.runSpec and its body and          *)
(* finalizer, .tst.runExpec and its attempts, test-scoped fixtures, the    *)
(* two cleanup queues, and the expecRan callback that records a row and    *)
(* raises the halt flag.  q runs all of it on one thread; what is not      *)
(* determined is what the code under test does in each hook, body, fixture *)
(* or cleanup task: throw or not, and leave one thing behind.              *)
(***************************************************************************)
EXTENDS Naturals, Sequences

CONSTANTS
  NumSpecs,     \* suites, numbered in the order they run
  ExpecCount,   \* expectations of each suite, numbered in the order they run
  NumFixtures,  \* test-scoped fixtures each test body asks for
  Dirs,         \* working directories
  NoDir,        \* "": no directory is remembered
  Configs       \* the command lines and declarations considered

Specs  == 1 .. NumSpecs
Modes  == {"none", "failFast", "failFastExit", "failHard"}
Marks  == {"run", "only", "skip", "pending"}

ASSUME SuiteAssumption ==
  /\ NumSpecs \in Nat /\ NumFixtures \in Nat
  /\ ExpecCount \in [Specs -> Nat]
  /\ NoDir \notin Dirs

\* mode: -ff, -ff -exit, -fh or none; retries: of every expectation; mark: how
\* each expectation is declared; lenient: active entries of the quarantine.
ASSUME ConfigAssumption ==
  \A c \in Configs :
    /\ c.mode \in Modes /\ c.retries \in Nat
    /\ \A s \in Specs : \A e \in 1 .. ExpecCount[s] : c.mark[<<s, e>>] \in Marks

Results  == {"none", "pass", "testFail", "testError", "beforeError", "afterError",
             "skip", "pending", "error"}
Stages   == {"spec", "body", "beforeAll", "next", "before", "fixtures",
             "unwind", "after", "retry", "teardown", "report", "leave",
             "stageBefore", "stageTest", "afterAll", "finalize", "specTasks",
             "consume", "done", "exited"}

VARIABLES
  conf,           \* the configuration of this run
  pc,             \* the next stage
  si, ei, att,    \* suite, expectation and attempt under way
  halt,           \* .tst.halt
  result,         \* expec`result
  clean,          \* no stage of this attempt has failed
  installed,      \* fixtures set up and not yet torn down, left to right
  cwd,            \* the process' working directory
  remembered,     \* .tst.cwdAfterRestore
  specCwd, exCwd, \* cwd in the contexts runSpec and setupExpec captured
  mocks,          \* who made the mocks that are live
  tasks,          \* who registered what is in .tst.cleanupTasks
  specTasks,      \* is .tst.specCleanupTasks nonempty?
  runAfterAll,    \* runSpec: not .tst.halt when the suite was entered
  faulted,        \* runSpec: the suite's body signalled
  opened, closed, \* suites whose beforeAll, afterAll hook has been run
  rows,           \* .resq.state.results, in order
  lost,           \* history: the rows expecRan failed to record, or that a test wiped out
  cleanupFailed   \* .tst.app.cleanupErrors is not empty

position == <<si, ei, att>>
context  == <<specCwd, exCwd>>
outcome  == <<result, clean>>
leftover == <<mocks, tasks, specTasks>>
suite    == <<runAfterAll, faulted, opened, closed>>
report   == <<rows, lost, halt>>
vars == <<conf, pc, position, outcome, installed, cwd, remembered, context,
          leftover, suite, report, cleanupFailed>>

\* On whose behalf user code runs: an attempt at an expectation, a suite-level
\* hook or cleanup task, or a cleanup task of an attempt ("late": what it leaves
\* comes after the cleanup).  A mock that could not be put back is "stuck".
Owners == {"attempt", "hook", "late", "stuck"}

\* What a row is about; its status is that of `result` when it is recorded.
Row == [spec : Specs, expec : Nat]

PlaceOK ==
  /\ conf \in Configs
  /\ pc \in Stages
  /\ si \in Nat \ {0} /\ ei \in Nat /\ att \in Nat
  /\ pc \notin {"spec", "done"} => si \in Specs

FlagsOK ==
  /\ halt \in BOOLEAN /\ clean \in BOOLEAN /\ specTasks \in BOOLEAN
  /\ runAfterAll \in BOOLEAN /\ faulted \in BOOLEAN /\ cleanupFailed \in BOOLEAN

WorldOK ==
  /\ cwd \in Dirs /\ remembered \in Dirs \union {NoDir}
  /\ specCwd \in Dirs /\ exCwd \in Dirs
  /\ mocks \subseteq Owners /\ tasks \subseteq Owners

ReportOK ==
  /\ result \in Results
  /\ installed \in 0 .. NumFixtures
  /\ opened \subseteq Specs /\ closed \subseteq Specs
  /\ rows \in Seq(Row) /\ lost \subseteq Specs \X Nat

TypeOK == PlaceOK /\ FlagsOK /\ WorldOK /\ ReportOK

Init ==
  /\ conf \in Configs
  /\ pc = "spec" /\ si = 1 /\ ei = 0 /\ att = 0
  /\ halt = FALSE /\ result = "none" /\ clean = TRUE /\ installed = 0
  /\ cwd \in Dirs /\ remembered = NoDir /\ specCwd = cwd /\ exCwd = cwd
  /\ mocks = {} /\ tasks = {} /\ specTasks = FALSE
  /\ runAfterAll = TRUE /\ faulted = FALSE /\ opened = {} /\ closed = {}
  /\ rows = <<>> /\ lost = {} /\ cleanupFailed = FALSE

-----------------------------------------------------------------------------
\* What one piece of user code, run on behalf of o, may leave behind.
UserCode(o) ==
  \/ UNCHANGED <<cwd, leftover>>
  \/ cwd' \in Dirs /\ UNCHANGED leftover
  \/ mocks' = mocks \union {o} /\ UNCHANGED <<cwd, tasks, specTasks>>
  \/ tasks' = tasks \union {o} /\ UNCHANGED <<cwd, mocks, specTasks>>
  \/ specTasks' = TRUE /\ UNCHANGED <<cwd, mocks, tasks>>

\* .tst.recordCleanupError, if what was trapped there signalled.
MayRecordError == cleanupFailed' \in {cleanupFailed, TRUE}

\* .tst.restore: the registry is emptied even of a mock that cannot be put back.
Unrestored == IF mocks \subseteq {"stuck"} THEN {mocks} ELSE {mocks \intersect {"stuck"}, {"stuck"}}

\* .tst.runCleanupTasks after .tst.restore: the queue is emptied first, so what
\* a task registers or mocks stays; a failing task is recorded, the rest run.
RestoreAndDrain ==
  \E kept \in Unrestored :
    /\ \/ mocks' = kept /\ tasks' = {} /\ UNCHANGED <<cwd, specTasks>>
       \/ tasks # {} /\ mocks' = kept /\ tasks' = {} /\ cwd' \in Dirs /\ UNCHANGED specTasks
       \/ tasks # {} /\ mocks' = kept \union {"late"} /\ tasks' = {} /\ UNCHANGED <<cwd, specTasks>>
       \/ tasks # {} /\ mocks' = kept /\ tasks' = {"late"} /\ UNCHANGED <<cwd, specTasks>>
       \/ tasks # {} /\ mocks' = kept /\ tasks' = {} /\ specTasks' = TRUE /\ UNCHANGED cwd
    /\ cleanupFailed' \in (IF kept # {} THEN {TRUE}
                           ELSE IF tasks = {} THEN {cleanupFailed} ELSE {cleanupFailed, TRUE})

\* .tst.currentCwd: the remembered directory is used once; without it the process
\* is asked, which signals when its directory was deleted.
CurrentCwd == IF remembered # NoDir THEN remembered ELSE cwd
MayBeLost  == remembered = NoDir

ForgetCwd_Not == UNCHANGED remembered

\* Suite-level user code is about to run, or has just run.
ForgetCwd == remembered' = NoDir

\* .tst.restoreRuntimeContext: the directory may be gone.
RestoreCwd(dir) ==
  \/ cwd' = dir /\ remembered' = dir
  \/ remembered' = NoDir /\ UNCHANGED cwd

Blocking(e, r) == r # "pass" /\ <<si, e>> \notin conf.lenient
Halts(e, r) == conf.mode # "none" /\ Blocking(e, r)
Dies(e, r)  == conf.mode = "failFastExit" /\ Blocking(e, r)

RowOf(e) == [spec |-> si, expec |-> e]
Ids == {<<rows[i].spec, rows[i].expec>> : i \in 1 .. Len(rows)}

\* The row is inserted; the table starts anew if a test has replaced it.
Insert(e) ==
  \/ rows' = Append(rows, RowOf(e)) /\ UNCHANGED lost
  \/ rows' = <<RowOf(e)>> /\ lost' = lost \union Ids

\* Fault: no row for what did not run.
ExpecRan_DropsSkips(e, r, next) ==
  \/ r \in {"skip", "pending"} /\ pc' = next /\ UNCHANGED report
  \/ r \notin {"skip", "pending"} /\ Insert(e) /\ pc' = next /\ UNCHANGED halt

\* .tst.callbacks.expecRan: the result r of expectation e (0: a row made up by
\* the runner) of the current suite is recorded, and may halt the run or end
\* the process.  All of it is trapped: it may fail before the row is inserted
\* or before the run is halted, and the run goes on.
ExpecRan(e, r, next) ==
  \/ /\ Insert(e) /\ halt' = (halt \/ Halts(e, r))
     /\ pc' = (IF Dies(e, r) THEN "exited" ELSE next)
  \/ Insert(e) /\ pc' = next /\ UNCHANGED halt
  \/ lost' = lost \union {<<si, e>>} /\ pc' = next /\ UNCHANGED <<rows, halt>>

\* .tst.applyTestOnlyFocus
Focused(s) == \E e \in 1 .. ExpecCount[s] : conf.mark[<<s, e>>] = "only"
Declared(s, e) ==
  LET mark == conf.mark[<<s, e>>] IN
  IF Focused(s) /\ mark # "only" THEN "skip"
  ELSE IF mark = "only" THEN "run" ELSE mark

-----------------------------------------------------------------------------
\* .tst.runSpec up to its trapped call of runSpecBody; if the directory cannot
\* be read there the suite is over before its hooks.
BeginSpec ==
  /\ pc = "spec" /\ si <= NumSpecs
  /\ \/ /\ specCwd' = CurrentCwd /\ remembered' = CurrentCwd
        /\ runAfterAll' = ~halt /\ faulted' = FALSE /\ pc' = "body"
     \/ /\ MayBeLost /\ faulted' = TRUE /\ pc' = "consume"
        /\ UNCHANGED <<specCwd, remembered, runAfterAll>>
  /\ ei' = 0 /\ att' = 0
  /\ UNCHANGED <<conf, si, outcome, installed, cwd, exCwd, leftover, opened, closed,
                 report, cleanupFailed>>

\* runSpecBody before its first hook: entering the suite's namespace may
\* signal, and a halted run goes no further.
EnterBody ==
  /\ pc = "body"
  /\ \/ pc' = "afterAll" /\ faulted' = TRUE
     \/ halt /\ pc' = "afterAll" /\ UNCHANGED faulted
     \/ ~halt /\ pc' = "beforeAll" /\ UNCHANGED faulted
  /\ UNCHANGED <<conf, position, outcome, installed, cwd, remembered, context, leftover,
                 runAfterAll, opened, closed, report, cleanupFailed>>

\* The beforeAll hook, if the suite has one, is user code, so the remembered
\* directory is dropped first.  When it throws, one made-up row stands for the
\* suite.
BeforeAll ==
  /\ pc = "beforeAll"
  /\ \/ ei' = 1 /\ pc' = "next" /\ UNCHANGED <<remembered, opened, cwd, leftover, report>>
     \/ /\ ForgetCwd /\ opened' = opened \union {si} /\ UserCode("hook")
        /\ \/ ei' = 1 /\ pc' = "next" /\ UNCHANGED report
           \/ ExpecRan(0, "error", "afterAll") /\ UNCHANGED ei
  /\ UNCHANGED <<conf, si, att, outcome, installed, context, runAfterAll, faulted, closed,
                 cleanupFailed>>

\* The loop over the expectations ends, or is halted.
EndLoop ==
  /\ pc = "next" /\ (halt \/ ei > ExpecCount[si]) /\ pc' = "afterAll"
  /\ UNCHANGED <<conf, position, outcome, installed, cwd, remembered, context, leftover, suite,
                 report, cleanupFailed>>

\* setupExpec of the next expectation: a skipped or pending one is terminal and
\* goes straight to teardown.
NextExpec ==
  /\ pc = "next" /\ ~halt /\ ei <= ExpecCount[si]
  /\ exCwd' = CurrentCwd /\ remembered' = NoDir /\ clean' = TRUE
  /\ IF Declared(si, ei) = "run"
     THEN pc' = "before" /\ result' = "none" /\ att' = 1
     ELSE pc' = "teardown" /\ result' = Declared(si, ei) /\ att' = 0
  /\ UNCHANGED <<conf, si, ei, installed, cwd, specCwd, leftover, suite, report,
                 cleanupFailed>>

\* setupExpec, of the next or of a staged expectation, signals: runSpecBody is
\* left, whatever rows it has told.
BodySignals ==
  /\ pc \in {"next", "stageBefore"} /\ MayBeLost
  /\ pc = "next" => ~halt /\ ei <= ExpecCount[si]
  /\ pc' = "afterAll" /\ faulted' = TRUE
  /\ UNCHANGED <<conf, position, outcome, installed, cwd, remembered, context, leftover,
                 runAfterAll, opened, closed, report, cleanupFailed>>

\* A failing stage sets the result, over whatever an earlier stage left there.
Fail_KeepsPass(r) == result' = (IF result = "pass" THEN result ELSE r) /\ clean' = FALSE

Fail(r) == result' = r /\ clean' = FALSE

\* runExpecAttempt: the before hook; if it throws the test body is skipped.
Before ==
  /\ pc = "before" /\ UserCode("attempt")
  /\ \/ pc' = "fixtures" /\ UNCHANGED outcome
     \/ pc' = "after" /\ Fail("beforeError")
  /\ UNCHANGED <<conf, position, installed, remembered, context, suite, report,
                 cleanupFailed>>

InstallFixture_NoUnwind ==
  /\ pc = "fixtures" /\ installed < NumFixtures /\ UserCode("attempt")
  /\ \/ installed' = installed + 1 /\ UNCHANGED <<pc, outcome>>
     \/ pc' = "after" /\ Fail("testError") /\ UNCHANGED installed
  /\ UNCHANGED <<conf, position, remembered, context, suite, report, cleanupFailed>>

\* installTestFixtures: one setup; a failure unwinds the installed prefix.
InstallFixture ==
  /\ pc = "fixtures" /\ installed < NumFixtures /\ UserCode("attempt")
  /\ \/ installed' = installed + 1 /\ UNCHANGED <<pc, outcome>>
     \/ pc' = "unwind" /\ Fail("testError") /\ UNCHANGED installed
  /\ UNCHANGED <<conf, position, remembered, context, suite, report, cleanupFailed>>

\* runners[`test] and finishFixtureTest, runners[`case] and finishFixtureCase: the
\* body passes, fails an assertion, or throws (an exceeded duration budget is
\* reported the same way).
RunBody ==
  /\ pc = "fixtures" /\ installed = NumFixtures /\ UserCode("attempt")
  /\ pc' = "unwind"
  /\ \/ result' = "pass" /\ UNCHANGED clean
     \/ Fail("testFail")
     \/ Fail("testError")
  /\ UNCHANGED <<conf, position, installed, remembered, context, suite, report,
                 cleanupFailed>>

\* teardownInstalledFixtures: last in, first out; a failing teardown is recorded.
UnwindFixture ==
  /\ pc = "unwind"
  /\ IF installed = 0
     THEN pc' = "after" /\ UNCHANGED <<installed, cwd, leftover, cleanupFailed>>
     ELSE /\ installed' = installed - 1 /\ UserCode("attempt")
          /\ MayRecordError
          /\ UNCHANGED pc
  /\ UNCHANGED <<conf, position, outcome, remembered, context, suite, report>>

\* The after hook runs whatever came before; then runExpec decides on a retry.
After ==
  /\ pc = "after" /\ UserCode("attempt")
  /\ UNCHANGED outcome \/ Fail("afterError")
  /\ pc' = IF result' = "pass" \/ halt \/ att >= 1 + conf.retries
           THEN "teardown" ELSE "retry"
  /\ UNCHANGED <<conf, position, installed, remembered, context, suite, report,
                 cleanupFailed>>

Retry_NoCleanup ==
  /\ pc = "retry" /\ UNCHANGED <<cwd, leftover, cleanupFailed>>
  /\ pc' = "before" /\ att' = att + 1 /\ result' = "none" /\ clean' = TRUE
  /\ UNCHANGED <<conf, si, ei, installed, remembered, context, suite, report>>

Retry_NotCounted ==
  /\ pc = "retry" /\ RestoreAndDrain
  /\ pc' = "before" /\ att' = att /\ result' = "none" /\ clean' = TRUE
  /\ UNCHANGED <<conf, si, ei, installed, remembered, context, suite, report>>

\* Between attempts: mocks, cleanup tasks, and the pristine expectation.
Retry ==
  /\ pc = "retry" /\ RestoreAndDrain
  /\ pc' = "before" /\ att' = att + 1 /\ result' = "none" /\ clean' = TRUE
  /\ UNCHANGED <<conf, si, ei, installed, remembered, context, suite, report>>

\* teardownExpec: mocks and cleanup tasks, then the row, then the directory.
Teardown ==
  /\ pc = "teardown" /\ RestoreAndDrain
  /\ pc' = "report"
  /\ UNCHANGED <<conf, position, outcome, installed, remembered, context, suite, report>>

Report ==
  /\ pc = "report" /\ ExpecRan(ei, result, "leave")
  /\ UNCHANGED <<conf, position, outcome, installed, cwd, remembered, context, leftover,
                 suite, cleanupFailed>>

\* The end of teardownExpec and of runExpec: in fail-hard mode the failing
\* expectation, unless it is skipped or pending, is staged again.
LeaveExpec ==
  /\ pc = "leave" /\ RestoreCwd(exCwd)
  /\ IF halt /\ conf.mode = "failHard" /\ att > 0
     THEN pc' = "stageBefore" /\ UNCHANGED ei
     ELSE pc' = "next" /\ ei' = ei + 1
  /\ UNCHANGED <<conf, si, att, outcome, installed, context, leftover, suite, report,
                 cleanupFailed>>

\* stageBadExpec, whose beforeBad is always `after: the before hook and the
\* test run once more, their errors are dropped, and nothing tears them down.
StageBefore ==
  /\ pc = "stageBefore" /\ UserCode("attempt")
  /\ exCwd' = CurrentCwd /\ remembered' = NoDir
  /\ pc' = "stageTest"
  /\ UNCHANGED <<conf, position, outcome, installed, specCwd, suite, report, cleanupFailed>>

StageTest ==
  /\ pc = "stageTest" /\ UserCode("attempt")
  /\ IF NumFixtures = 0 THEN UNCHANGED cleanupFailed ELSE MayRecordError
  /\ pc' = "next" /\ ei' = ei + 1
  /\ UNCHANGED <<conf, si, att, outcome, installed, remembered, context, suite, report>>

AfterAllDue_IfNotHalted == ~halt

\* Decided when the suite is entered, not when it ends.
AfterAllDue == runAfterAll

\* finalizeSpecAfterAll: for a suite that was entered unhalted, whatever
\* happened in its body; a throwing hook is recorded.
AfterAll ==
  /\ pc = "afterAll" /\ pc' = "finalize"
  /\ IF AfterAllDue
     THEN /\ UserCode("hook") /\ closed' = closed \union {si}
          /\ MayRecordError
     ELSE UNCHANGED <<cwd, leftover, closed, cleanupFailed>>
  /\ UNCHANGED <<conf, position, outcome, installed, remembered, context, runAfterAll,
                 faulted, opened, report>>

\* finalizeSpec: the directory, polluted globals and leaked handles, of which the
\* last may be recorded; then the spec-scope cleanup queue, after which the
\* remembered directory is dropped if a task ran.
Finalize ==
  /\ pc = "finalize" /\ pc' = "specTasks" /\ RestoreCwd(specCwd)
  /\ MayRecordError
  /\ UNCHANGED <<conf, position, outcome, installed, context, leftover, suite, report>>

DrainSpecTasks ==
  /\ pc = "specTasks" /\ pc' = "consume"
  /\ IF specTasks
     THEN /\ ForgetCwd
          /\ \/ specTasks' = FALSE /\ UNCHANGED <<cwd, mocks, tasks>>
             \/ specTasks' = FALSE /\ cwd' \in Dirs /\ UNCHANGED <<mocks, tasks>>
             \/ specTasks' = FALSE /\ mocks' = mocks \union {"hook"} /\ UNCHANGED <<cwd, tasks>>
             \/ specTasks' = FALSE /\ tasks' = tasks \union {"hook"} /\ UNCHANGED <<cwd, mocks>>
             \/ specTasks' = TRUE /\ UNCHANGED <<cwd, mocks, tasks>>
          /\ MayRecordError
     ELSE UNCHANGED <<cwd, remembered, leftover, cleanupFailed>>
  /\ UNCHANGED <<conf, position, outcome, installed, context, suite, report>>

\* consumeRunSpecOutcome and runDiscoveredSpecs: a suite whose body signalled is
\* reported by one made-up row.
Consume ==
  /\ pc = "consume"
  /\ IF faulted
     THEN ExpecRan(0, "error", "spec")
     ELSE pc' = "spec" /\ UNCHANGED report
  /\ si' = IF pc' = "exited" THEN si ELSE si + 1
  /\ ei' = 0 /\ att' = 0 /\ result' = "none" /\ clean' = TRUE
  /\ UNCHANGED <<conf, installed, cwd, remembered, context, leftover, suite, cleanupFailed>>

EndRun ==
  /\ pc = "spec" /\ si > NumSpecs /\ pc' = "done"
  /\ UNCHANGED <<conf, position, outcome, installed, cwd, remembered, context, leftover,
                 suite, report, cleanupFailed>>

\* runDiscoveredSpecs has returned, or .tst.die has ended the process.
Stopped == pc \in {"done", "exited"} /\ UNCHANGED vars

Next ==
  \/ BeginSpec \/ EnterBody \/ BeforeAll \/ EndLoop \/ NextExpec \/ BodySignals
  \/ Before \/ InstallFixture \/ RunBody \/ UnwindFixture \/ After \/ Retry
  \/ Teardown \/ Report \/ LeaveExpec \/ StageBefore \/ StageTest
  \/ AfterAll \/ Finalize \/ DrainSpecTasks \/ Consume \/ EndRun
  \/ Stopped

\* One thread runs all of it, and each piece of user code is assumed to return.
Spec == Init /\ [][Next]_vars /\ WF_vars(Next)

-----------------------------------------------------------------------------
\* Wherever the runner is about to trust the directory it remembers instead of
\* asking the process (.tst.currentCwd), the two agree: every piece of user
\* code that could have moved the process in between has made it forget.
RemembersWhereItIs ==
  pc \in {"spec", "next", "stageBefore"} /\ remembered # NoDir => remembered = cwd

\* When an attempt starts, no mock, no cleanup task and no fixture of an
\* earlier attempt, of this or of another expectation, is still live, except a
\* mock that could not be put back, and then the run has an error on record.
\* What the cleanup tasks leave themselves ("late") does reach the next attempt.
AttemptsStartClean ==
  pc = "before" =>
    /\ "attempt" \notin mocks \union tasks /\ installed = 0
    /\ "stuck" \in mocks => cleanupFailed

\* A row says "pass" only if no stage of the final attempt failed: not the
\* hook before, a fixture's setup, the body, nor the hook after.
PassMeansClean == pc = "report" /\ result = "pass" => clean

\* Fixtures are set up and torn down in balance on every path: none is live
\* when the after hook runs, when an attempt is repeated, or when a row is
\* written.
FixturesUnwound ==
  pc \in {"next", "before", "after", "retry", "teardown", "report", "afterAll", "done"}
    => installed = 0

\* A suite whose beforeAll hook ran gets its afterAll hook, even when the run
\* is halted inside it or beforeAll itself threw.
SuitesClosed == pc \in {"spec", "done"} => opened \subseteq closed

\* Rows appear in schedule order, each expectation at most once, and a made-up
\* row at most once and last for its suite.  A run that was not halted has a row
\* for every expectation that no made-up row stands for, unless expecRan failed
\* to record it or a test replaced the table it was in.
Reported(s, e) == \E i \in 1 .. Len(rows) : rows[i].spec = s /\ rows[i].expec = e
Known(s, e) == Reported(s, e) \/ <<s, e>> \in lost

ReportFollowsSchedule ==
  /\ \A i, j \in 1 .. Len(rows) : i < j =>
       \/ rows[i].spec < rows[j].spec
       \/ /\ rows[i].spec = rows[j].spec /\ 0 < rows[i].expec
          /\ rows[i].expec < rows[j].expec \/ rows[j].expec = 0
  /\ pc = "done" /\ ~halt =>
       \A s \in Specs : Known(s, 0) \/ \A e \in 1 .. ExpecCount[s] : Known(s, e)

\* Every run comes to its end, however its hooks, tests and tasks fail.
RunEnds == <>(pc \in {"done", "exited"})

=============================================================================
