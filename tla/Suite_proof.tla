----------------------------- MODULE Suite_proof -----------------------------
(***************************************************************************)
(* The safety properties of Suite, for every number of suites,             *)
(* expectations, fixtures, retries and directories.                        *)
(***************************************************************************)
EXTENDS Suite, TLAPS

\* The stages of one attempt in which user code may be under way.
Attempting == {"before", "fixtures", "unwind", "after", "retry", "teardown"}
Staging    == {"stageBefore", "stageTest"}
Inside     == Attempting \union Staging \union {"beforeAll", "next", "report", "leave"}

\* Only between the afterAll hook and the restore after it may the remembered
\* directory be wrong; while user code of an expectation runs there is none.
RememberedInv ==
  /\ pc \notin {"afterAll", "finalize"} => remembered \in {NoDir, cwd}
  /\ pc \in Attempting \union {"report", "leave", "stageTest"} => remembered = NoDir

\* Leftovers of an attempt exist only inside one, or once the run is halted.
LeftoverInv ==
  /\ pc \in Attempting \union {"beforeAll"} => ~halt
  /\ pc \in Staging => halt
  /\ pc \notin Attempting \ {"before"} /\ ~halt =>
       "attempt" \notin mocks \union tasks

\* A mock that could not be put back is on record.
StuckInv == "stuck" \in mocks => cleanupFailed = TRUE

ResultInv ==
  /\ pc \in {"unwind", "after", "retry", "teardown", "report"} => result # "none"
  /\ result = "pass" => clean = TRUE
  /\ pc \in {"before", "fixtures"} => clean = TRUE

InstalledInv == pc \notin {"fixtures", "unwind"} => installed = 0

ClosedInv ==
  /\ pc = "body" => runAfterAll = ~halt
  /\ opened \subseteq closed \union {si}
  /\ pc \in {"spec", "body", "finalize", "specTasks", "consume", "done"} =>
       opened \subseteq closed
  /\ pc \in Inside => runAfterAll
  /\ pc = "afterAll" => runAfterAll \/ opened \subseteq closed

\* Within a suite's loop, ei is an expectation.
ExpecInv == pc \in Inside \ {"beforeAll"} => ei > 0

\* Where the rows stand, seen from where the run stands.
Loop    == {"next", "before", "fixtures", "unwind", "after", "retry", "teardown", "report"}
Left    == {"leave", "stageBefore", "stageTest"}
Closing == {"afterAll", "finalize", "specTasks", "consume"}

Earlier(a, b) ==
  \/ a.spec < b.spec
  \/ a.spec = b.spec /\ 0 < a.expec /\ (a.expec < b.expec \/ b.expec = 0)

\* Of the current suite there is a row for expectations before this one, and in
\* its end any row, but none made up if the one for its body is still to come.
Behind(row) ==
  \/ row.spec < si
  \/ row.spec = si /\ \/ pc \in Loop /\ 0 < row.expec /\ row.expec < ei
                      \/ pc \in Left /\ 0 < row.expec /\ row.expec <= ei
                      \/ pc \in Closing /\ (faulted => 0 < row.expec)

OrderInv ==
  /\ \A i, j \in 1 .. Len(rows) : i < j => Earlier(rows[i], rows[j])
  /\ pc # "exited" => \A i \in 1 .. Len(rows) : Behind(rows[i])
  /\ pc \in {"body", "beforeAll"} \union Loop \union Left => ~faulted

\* What an unhalted run has told by now.
Told(s) == Known(s, 0) \/ \A e \in 1 .. ExpecCount[s] : Known(s, e)

ToldInv ==
  /\ pc = "done" => si > NumSpecs
  /\ ~halt /\ pc # "exited" =>
       /\ \A s \in Specs : s < si => Told(s)
       /\ pc \in Loop => \A e \in 1 .. ExpecCount[si] : e < ei => Known(si, e)
       /\ pc \in Left => \A e \in 1 .. ExpecCount[si] : e <= ei => Known(si, e)
       /\ pc \in Closing => faulted \/ Told(si)

IInv ==
  /\ TypeOK /\ ExpecInv
  /\ RememberedInv /\ LeftoverInv /\ StuckInv /\ ResultInv /\ InstalledInv /\ ClosedInv
  /\ OrderInv /\ ToldInv

-----------------------------------------------------------------------------
\* What expecRan does to the rows: the new one is inserted, into the table or
\* into a new one, or lost.
LEMMA Written ==
  ASSUME rows \in Seq(Row), si \in Specs, NEW e \in Nat, NEW r, NEW next, ExpecRan(e, r, next)
  PROVE  /\ \/ rows' = Append(rows, RowOf(e)) /\ lost' = lost
            \/ rows' = <<RowOf(e)>> /\ lost' = lost \union Ids
            \/ rows' = rows /\ lost' = lost \union {<<si, e>>}
         /\ RowOf(e) \in Row
         /\ pc' \in {next, "exited"}
         /\ halt' = halt \/ halt' = (halt \/ Halts(e, r))
  BY DEF ExpecRan, Insert, RowOf, Row

\* Rows stay rows.
LEMMA RowType ==
  ASSUME rows \in Seq(Row), lost \subseteq Specs \X Nat, si \in Specs,
         NEW e \in Nat, NEW r, NEW next, ExpecRan(e, r, next)
  PROVE  rows' \in Seq(Row) /\ lost' \subseteq Specs \X Nat
<1>1. Ids \subseteq Specs \X Nat
  <2>1. \A i \in 1 .. Len(rows) : rows[i] \in Row
    OBVIOUS
  <2> QED BY <2>1 DEF Ids, Row
<1>2. RowOf(e) \in Row
  BY Written
<1>3. CASE rows' = Append(rows, RowOf(e)) /\ lost' = lost
  BY <1>2, <1>3
<1>4. CASE rows' = <<RowOf(e)>> /\ lost' = lost \union Ids
  BY <1>1, <1>2, <1>4
<1>5. CASE rows' = rows /\ lost' = lost \union {<<si, e>>}
  BY <1>5
<1> QED BY <1>3, <1>4, <1>5, Written

\* testOnly focus is resolved before an expectation is reached.
LEMMA DeclaredType ==
  ASSUME conf \in Configs, NEW s \in Specs, NEW e \in 1 .. ExpecCount[s]
  PROVE  Declared(s, e) \in {"run", "skip", "pending"}
  BY ConfigAssumption DEF Declared, Marks

\* Every stage is entered with a suite, and an expectation where one is due.
LEMMA PlaceStep ==
  ASSUME PlaceOK, ExpecInv, [Next]_vars
  PROVE  PlaceOK'
<1> USE SuiteAssumption DEF PlaceOK, ExpecInv, Stages, Inside, Attempting, Staging, Specs,
  position, context, outcome, leftover, suite, report
<1>1. CASE BeginSpec
  BY <1>1 DEF BeginSpec
<1>2. CASE EnterBody
  BY <1>2 DEF EnterBody
<1>3. CASE BeforeAll
  BY <1>3 DEF BeforeAll, ExpecRan
<1>4. CASE NextExpec \/ EndLoop \/ BodySignals
  BY <1>4 DEF NextExpec, EndLoop, BodySignals
<1>5. CASE Before
  BY <1>5 DEF Before
<1>6. CASE InstallFixture
  BY <1>6 DEF InstallFixture
<1>7. CASE RunBody
  BY <1>7 DEF RunBody
<1>8. CASE UnwindFixture
  BY <1>8 DEF UnwindFixture
<1>9. CASE After
  BY <1>9 DEF After
<1>10. CASE Retry
  BY <1>10 DEF Retry
<1>11. CASE Teardown
  BY <1>11 DEF Teardown
<1>12. CASE Report
  BY <1>12 DEF Report, ExpecRan
<1>13. CASE LeaveExpec
  BY <1>13 DEF LeaveExpec
<1>14. CASE StageBefore
  BY <1>14 DEF StageBefore
<1>15. CASE StageTest
  BY <1>15 DEF StageTest
<1>16. CASE AfterAll
  BY <1>16 DEF AfterAll, AfterAllDue
<1>17. CASE Finalize
  BY <1>17 DEF Finalize
<1>18. CASE DrainSpecTasks
  BY <1>18 DEF DrainSpecTasks
<1>19. CASE Consume
  BY <1>19 DEF Consume, ExpecRan
<1>20. CASE EndRun
  BY <1>20 DEF EndRun
<1>21. CASE UNCHANGED vars
  BY <1>21 DEF vars
<1>22. QED
  BY <1>1, <1>2, <1>3, <1>4, <1>5, <1>6, <1>7, <1>8, <1>9, <1>10, <1>11, <1>12, <1>13,
    <1>14, <1>15, <1>16, <1>17, <1>18, <1>19, <1>20, <1>21 DEF Next, Stopped

\* Flags stay flags.
LEMMA FlagsStep ==
  ASSUME FlagsOK, [Next]_vars
  PROVE  FlagsOK'
<1> USE SuiteAssumption DEF FlagsOK, position, context, outcome, leftover, suite, report
<1>1. CASE BeforeAll
  BY <1>1 DEF BeforeAll, MayRecordError, UserCode, ExpecRan, Insert, Halts
<1>2. CASE Before
  BY <1>2 DEF Before, MayRecordError, UserCode, Fail
<1>3. CASE InstallFixture
  BY <1>3 DEF InstallFixture, MayRecordError, UserCode, Fail
<1>4. CASE RunBody
  BY <1>4 DEF RunBody, MayRecordError, UserCode, Fail
<1>5. CASE UnwindFixture
  BY <1>5 DEF UnwindFixture, MayRecordError, UserCode
<1>6. CASE After
  BY <1>6 DEF After, MayRecordError, UserCode, Fail
<1>7. CASE Retry
  BY <1>7 DEF Retry, MayRecordError, RestoreAndDrain, Unrestored
<1>8. CASE Teardown
  BY <1>8 DEF Teardown, MayRecordError, RestoreAndDrain, Unrestored
<1>9. CASE Report
  BY <1>9 DEF Report, MayRecordError, ExpecRan, Insert, Halts
<1>10. CASE StageBefore
  BY <1>10 DEF StageBefore, MayRecordError, UserCode
<1>11. CASE StageTest
  BY <1>11 DEF StageTest, MayRecordError, UserCode
<1>12. CASE AfterAll
  BY <1>12 DEF AfterAll, MayRecordError, UserCode, AfterAllDue
<1>13. CASE DrainSpecTasks
  BY <1>13 DEF DrainSpecTasks, MayRecordError
<1>14. CASE Consume
  BY <1>14 DEF Consume, MayRecordError, ExpecRan, Insert, Halts
<1>15. CASE BeginSpec \/ EnterBody \/ EndLoop \/ NextExpec \/ BodySignals \/ LeaveExpec \/
  Finalize \/ EndRun
  BY <1>15 DEF BeginSpec, MayRecordError, EnterBody, EndLoop, NextExpec, BodySignals,
    LeaveExpec, Finalize, EndRun
<1>16. CASE UNCHANGED vars
  BY <1>16 DEF vars
<1>17. QED
  BY <1>1, <1>2, <1>3, <1>4, <1>5, <1>6, <1>7, <1>8, <1>9, <1>10, <1>11, <1>12, <1>13,
    <1>14, <1>15, <1>16 DEF Next, Stopped

\* User code and cleanup leave a directory, and mocks and tasks with an owner.
LEMMA WorldStep ==
  ASSUME WorldOK, [Next]_vars
  PROVE  WorldOK'
<1> USE SuiteAssumption DEF WorldOK, Owners, position, context, outcome, leftover, suite,
  report
<1>1. CASE BeginSpec
  BY <1>1 DEF BeginSpec, CurrentCwd
<1>2. CASE BeforeAll
  BY <1>2 DEF BeforeAll, UserCode, ForgetCwd
<1>3. CASE NextExpec
  BY <1>3 DEF NextExpec, CurrentCwd
<1>4. CASE Before
  BY <1>4 DEF Before, UserCode
<1>5. CASE InstallFixture
  BY <1>5 DEF InstallFixture, UserCode
<1>6. CASE RunBody
  BY <1>6 DEF RunBody, UserCode
<1>7. CASE UnwindFixture
  BY <1>7 DEF UnwindFixture, UserCode
<1>8. CASE After
  BY <1>8 DEF After, UserCode
<1>9. CASE Retry
  BY <1>9 DEF Retry, RestoreAndDrain, Unrestored
<1>10. CASE Teardown
  BY <1>10 DEF Teardown, RestoreAndDrain, Unrestored
<1>11. CASE LeaveExpec
  BY <1>11 DEF LeaveExpec, RestoreCwd
<1>12. CASE StageBefore
  BY <1>12 DEF StageBefore, UserCode, CurrentCwd
<1>13. CASE StageTest
  BY <1>13 DEF StageTest, UserCode
<1>14. CASE AfterAll
  BY <1>14 DEF AfterAll, UserCode, AfterAllDue
<1>15. CASE Finalize
  BY <1>15 DEF Finalize, RestoreCwd
<1>16. CASE DrainSpecTasks
  BY <1>16 DEF DrainSpecTasks, ForgetCwd
<1>17. CASE EnterBody \/ EndLoop \/ BodySignals \/ Report \/ Consume \/ EndRun
  BY <1>17 DEF EnterBody, EndLoop, BodySignals, Report, Consume, EndRun
<1>18. CASE UNCHANGED vars
  BY <1>18 DEF vars
<1>19. QED
  BY <1>1, <1>2, <1>3, <1>4, <1>5, <1>6, <1>7, <1>8, <1>9, <1>10, <1>11, <1>12, <1>13,
    <1>14, <1>15, <1>16, <1>17, <1>18 DEF Next, Stopped

\* Results and rows.
LEMMA ReportStep ==
  ASSUME TypeOK, ExpecInv, ResultInv, [Next]_vars
  PROVE  ReportOK'
<1> USE SuiteAssumption DEF TypeOK, PlaceOK, ReportOK, ExpecInv, ResultInv, Inside,
  Attempting, Staging, Results, position, context, outcome, leftover, suite, report
<1>1. CASE BeforeAll
  BY <1>1, RowType DEF BeforeAll
<1>2. CASE NextExpec
  BY <1>2, DeclaredType DEF NextExpec
<1>3. CASE InstallFixture
  <2>1. result' \in {result, "testError"}
    BY <1>3 DEF InstallFixture, Fail
  <2>2. installed' \in 0 .. NumFixtures
    <3>1. installed \in Nat /\ installed < NumFixtures /\ NumFixtures \in Nat
      BY <1>3 DEF InstallFixture
    <3>2. installed' \in {installed, installed + 1}
      BY <1>3 DEF InstallFixture
    <3>3. QED
      BY <3>1, <3>2
  <2>3. opened' = opened /\ closed' = closed /\ rows' = rows /\ lost' = lost
    BY <1>3 DEF InstallFixture
  <2>4. QED
    BY <2>1, <2>2, <2>3
<1>4. CASE RunBody
  BY <1>4 DEF RunBody, Fail
<1>5. CASE After
  BY <1>5 DEF After, Fail
<1>6. CASE Retry
  BY <1>6 DEF Retry
<1>7. CASE Report
  BY <1>7, RowType DEF Report
<1>8. CASE AfterAll
  BY <1>8 DEF AfterAll, AfterAllDue
<1>9. CASE Consume
  BY <1>9, RowType DEF Consume
<1>10. CASE BeginSpec \/ EnterBody \/ EndLoop \/ BodySignals \/ Before \/ UnwindFixture \/
  Teardown \/ LeaveExpec \/
  StageBefore \/ StageTest \/ Finalize \/ DrainSpecTasks \/ EndRun
  BY <1>10 DEF BeginSpec, EnterBody, EndLoop, BodySignals, Before, Fail, UnwindFixture, Teardown,
    LeaveExpec,
    StageBefore, StageTest, Finalize, DrainSpecTasks, EndRun
<1>11. CASE UNCHANGED vars
  BY <1>11 DEF vars
<1>12. QED
  BY <1>1, <1>2, <1>3, <1>4, <1>5, <1>6, <1>7, <1>8, <1>9, <1>10, <1>11 DEF Next, Stopped

\* Expectations are numbered from 1.
LEMMA ExpecStep ==
  ASSUME TypeOK, ExpecInv, [Next]_vars
  PROVE  ExpecInv'
<1> USE SuiteAssumption DEF TypeOK, PlaceOK, ExpecInv, Inside, Attempting, Staging,
  position, context, outcome, leftover, suite, report
<1>1. CASE BeforeAll
  BY <1>1 DEF BeforeAll, ExpecRan
<1>2. CASE NextExpec
  BY <1>2 DEF NextExpec
<1>3. CASE LeaveExpec
  BY <1>3 DEF LeaveExpec
<1>4. CASE StageTest
  BY <1>4 DEF StageTest
<1>5. CASE BeginSpec \/ EnterBody \/ EndLoop \/ BodySignals \/ Before \/ InstallFixture \/
  RunBody \/ UnwindFixture \/
  After \/ Retry \/ Teardown \/ Report \/ StageBefore \/ AfterAll \/ Finalize \/
  DrainSpecTasks \/ Consume \/ EndRun
  BY <1>5 DEF BeginSpec, EnterBody, EndLoop, BodySignals, Before, InstallFixture, RunBody,
    UnwindFixture, After,
    Retry, Teardown, Report, StageBefore, AfterAll, AfterAllDue, Finalize, DrainSpecTasks,
    Consume, EndRun, ExpecRan
<1>6. CASE UNCHANGED vars
  BY <1>6 DEF vars
<1>7. QED
  BY <1>1, <1>2, <1>3, <1>4, <1>5, <1>6 DEF Next, Stopped

\* What the process remembers of its directory.
LEMMA RememberedStep ==
  ASSUME RememberedInv, [Next]_vars
  PROVE  RememberedInv'
<1> USE SuiteAssumption DEF RememberedInv, Attempting, position, context, outcome, leftover,
  suite, report
<1>1. CASE BeginSpec
  BY <1>1 DEF BeginSpec, CurrentCwd
<1>2. CASE BeforeAll
  BY <1>2 DEF BeforeAll, UserCode, ForgetCwd, ExpecRan
<1>3. CASE NextExpec
  BY <1>3 DEF NextExpec, CurrentCwd
<1>4. CASE Retry
  BY <1>4 DEF Retry, RestoreAndDrain, Unrestored
<1>5. CASE Teardown
  BY <1>5 DEF Teardown, RestoreAndDrain, Unrestored
<1>6. CASE LeaveExpec
  BY <1>6 DEF LeaveExpec, RestoreCwd
<1>7. CASE StageBefore
  BY <1>7 DEF StageBefore, UserCode, CurrentCwd
<1>8. CASE StageTest
  BY <1>8 DEF StageTest, UserCode
<1>9. CASE AfterAll
  BY <1>9 DEF AfterAll, UserCode, AfterAllDue
<1>10. CASE Finalize
  BY <1>10 DEF Finalize, RestoreCwd
<1>11. CASE DrainSpecTasks
  BY <1>11 DEF DrainSpecTasks, ForgetCwd
<1>12. CASE EnterBody \/ Before \/ InstallFixture \/ RunBody \/ UnwindFixture \/ After \/
  EndLoop \/ BodySignals \/ Report \/ Consume \/ EndRun
  BY <1>12 DEF EnterBody, Before, UserCode, InstallFixture, RunBody, UnwindFixture, After,
    EndLoop, BodySignals, Report, Consume, EndRun,
    ExpecRan
<1>13. CASE UNCHANGED vars
  BY <1>13 DEF vars
<1>14. QED
  BY <1>1, <1>2, <1>3, <1>4, <1>5, <1>6, <1>7, <1>8, <1>9, <1>10, <1>11, <1>12, <1>13 DEF
    Next, Stopped

\* Only an attempt, or the staging of a halted run, has leftovers of an attempt.
LEMMA LeftoverStep ==
  ASSUME FlagsOK, LeftoverInv, [Next]_vars
  PROVE  LeftoverInv'
<1> USE SuiteAssumption DEF FlagsOK, LeftoverInv, Attempting, Staging, position, context,
  outcome, leftover, suite, report
<1>1. CASE BeforeAll
  BY <1>1 DEF BeforeAll, UserCode, ExpecRan, Insert
<1>2. CASE Retry
  BY <1>2 DEF Retry, RestoreAndDrain, Unrestored
<1>3. CASE Teardown
  BY <1>3 DEF Teardown, RestoreAndDrain, Unrestored
<1>4. CASE Report
  BY <1>4 DEF Report, ExpecRan, Insert
<1>5. CASE AfterAll
  BY <1>5 DEF AfterAll, UserCode, AfterAllDue
<1>6. CASE DrainSpecTasks
  BY <1>6 DEF DrainSpecTasks
<1>7. CASE Consume
  BY <1>7 DEF Consume, ExpecRan, Insert
<1>8. CASE BeginSpec \/ EnterBody \/ EndLoop \/ BodySignals \/ NextExpec \/ Before \/
  InstallFixture \/ RunBody \/
  UnwindFixture \/ After \/ LeaveExpec \/ StageBefore \/ StageTest \/ Finalize \/ EndRun
  BY <1>8 DEF BeginSpec, EnterBody, EndLoop, BodySignals, NextExpec, Before, UserCode,
    InstallFixture, RunBody,
    UnwindFixture, After, LeaveExpec, StageBefore, StageTest, Finalize, EndRun
<1>9. CASE UNCHANGED vars
  BY <1>9 DEF vars
<1>10. QED
  BY <1>1, <1>2, <1>3, <1>4, <1>5, <1>6, <1>7, <1>8, <1>9 DEF Next, Stopped

\* What restore cannot put back is recorded, and a record is never taken back.
LEMMA StuckStep ==
  ASSUME FlagsOK, StuckInv, [Next]_vars
  PROVE  StuckInv'
<1> USE DEF FlagsOK, StuckInv, position, context, outcome, leftover, suite, report
<1>1. CASE BeforeAll
  BY <1>1 DEF BeforeAll, UserCode
<1>2. CASE Before
  BY <1>2 DEF Before, UserCode
<1>3. CASE InstallFixture
  BY <1>3 DEF InstallFixture, UserCode
<1>4. CASE RunBody
  BY <1>4 DEF RunBody, UserCode
<1>5. CASE UnwindFixture
  <2>1. mocks' \in {mocks, mocks \union {"attempt"}}
    BY <1>5 DEF UnwindFixture, UserCode
  <2>2. cleanupFailed = TRUE => cleanupFailed' = TRUE
    BY <1>5 DEF UnwindFixture, MayRecordError
  <2> QED BY <2>1, <2>2
<1>6. CASE After
  BY <1>6 DEF After, UserCode
<1>7. CASE Retry \/ Teardown
  <2>1. PICK kept \in Unrestored :
          /\ mocks' \in {kept, kept \union {"late"}}
          /\ cleanupFailed' \in (IF kept # {} THEN {TRUE}
                                ELSE IF tasks = {} THEN {cleanupFailed}
                                ELSE {cleanupFailed, TRUE})
    BY <1>7 DEF Retry, Teardown, RestoreAndDrain
  <2>2. kept # {} => cleanupFailed' = TRUE
    BY <2>1
  <2>3. "stuck" \in mocks' => kept # {}
    BY <2>1
  <2> QED BY <2>2, <2>3
<1>8. CASE StageBefore
  BY <1>8 DEF StageBefore, UserCode
<1>9. CASE StageTest
  <2>1. mocks' \in {mocks, mocks \union {"attempt"}}
    BY <1>9 DEF StageTest, UserCode
  <2>2. cleanupFailed = TRUE => cleanupFailed' = TRUE
    BY <1>9 DEF StageTest, MayRecordError
  <2> QED BY <2>1, <2>2
<1>10. CASE AfterAll
  <2>1. mocks' \in {mocks, mocks \union {"hook"}}
    BY <1>10 DEF AfterAll, UserCode
  <2>2. cleanupFailed = TRUE => cleanupFailed' = TRUE
    BY <1>10 DEF AfterAll, MayRecordError
  <2> QED BY <2>1, <2>2
<1>11. CASE Finalize
  <2>1. mocks' = mocks
    BY <1>11 DEF Finalize
  <2>2. cleanupFailed = TRUE => cleanupFailed' = TRUE
    BY <1>11 DEF Finalize, MayRecordError
  <2> QED BY <2>1, <2>2
<1>12. CASE DrainSpecTasks
  <2>1. mocks' \in {mocks, mocks \union {"hook"}}
    BY <1>12 DEF DrainSpecTasks
  <2>2. cleanupFailed = TRUE => cleanupFailed' = TRUE
    BY <1>12 DEF DrainSpecTasks, MayRecordError
  <2> QED BY <2>1, <2>2
<1>13. CASE BeginSpec \/ EnterBody \/ EndLoop \/ BodySignals \/ NextExpec \/ Report \/
  LeaveExpec \/ Consume \/ EndRun
  BY <1>13 DEF BeginSpec, EnterBody, EndLoop, BodySignals, NextExpec, Report, LeaveExpec,
    Consume, EndRun
<1>14. CASE UNCHANGED vars
  BY <1>14 DEF vars
<1> QED
  BY <1>1, <1>2, <1>3, <1>4, <1>5, <1>6, <1>7, <1>8, <1>9, <1>10, <1>11, <1>12, <1>13, <1>14
  DEF Next, Stopped

\* A pass is the result of stages none of which failed.
LEMMA ResultStep ==
  ASSUME TypeOK, ResultInv, ExpecInv, [Next]_vars
  PROVE  ResultInv'
<1> USE SuiteAssumption DEF TypeOK, PlaceOK, FlagsOK, ReportOK, ResultInv, ExpecInv, Inside,
  Attempting, Staging, position, context, outcome, leftover, suite, report
<1>1. CASE NextExpec
  BY <1>1, DeclaredType DEF NextExpec
<1>2. CASE Before
  BY <1>2 DEF Before, Fail
<1>3. CASE InstallFixture
  BY <1>3 DEF InstallFixture, Fail
<1>4. CASE RunBody
  BY <1>4 DEF RunBody, Fail
<1>5. CASE After
  BY <1>5 DEF After, Fail
<1>6. CASE Retry
  BY <1>6 DEF Retry
<1>7. CASE Consume
  BY <1>7 DEF Consume, ExpecRan
<1>8. CASE BeginSpec \/ EnterBody \/ EndLoop \/ BodySignals \/ BeforeAll \/ UnwindFixture \/
  Teardown \/ Report \/
  LeaveExpec \/ StageBefore \/ StageTest \/ AfterAll \/ Finalize \/ DrainSpecTasks \/ EndRun
  BY <1>8 DEF BeginSpec, EnterBody, EndLoop, BodySignals, BeforeAll, ExpecRan, UnwindFixture,
    Teardown, Report, LeaveExpec,
    StageBefore, StageTest, AfterAll, AfterAllDue, Finalize, DrainSpecTasks, EndRun
<1>9. CASE UNCHANGED vars
  BY <1>9 DEF vars
<1>10. QED
  BY <1>1, <1>2, <1>3, <1>4, <1>5, <1>6, <1>7, <1>8, <1>9 DEF Next, Stopped

\* Fixtures are live only between their setup and the unwinding.
LEMMA InstalledStep ==
  ASSUME TypeOK, InstalledInv, [Next]_vars
  PROVE  InstalledInv'
<1> USE SuiteAssumption DEF TypeOK, ReportOK, InstalledInv, position, context, outcome,
  leftover, suite, report
<1>1. CASE InstallFixture
  BY <1>1 DEF InstallFixture
<1>2. CASE RunBody
  BY <1>2 DEF RunBody
<1>3. CASE UnwindFixture
  BY <1>3 DEF UnwindFixture
<1>4. CASE BeginSpec \/ EnterBody \/ EndLoop \/ BodySignals \/ BeforeAll \/ NextExpec \/
  Before \/ After \/ Retry \/
  Teardown \/ Report \/ LeaveExpec \/ StageBefore \/ StageTest \/ AfterAll \/ Finalize \/
  DrainSpecTasks \/ Consume \/ EndRun
  BY <1>4 DEF BeginSpec, EnterBody, EndLoop, BodySignals, BeforeAll, ExpecRan, NextExpec, Before,
    After, Retry, Teardown,
    Report, LeaveExpec, StageBefore, StageTest, AfterAll, AfterAllDue, Finalize,
    DrainSpecTasks, Consume, EndRun
<1>5. CASE UNCHANGED vars
  BY <1>5 DEF vars
<1>6. QED
  BY <1>1, <1>2, <1>3, <1>4, <1>5 DEF Next, Stopped

\* A suite owes its afterAll hook until the hook has run.
LEMMA ClosedStep ==
  ASSUME ClosedInv, [Next]_vars
  PROVE  ClosedInv'
<1> USE SuiteAssumption DEF ClosedInv, Inside, Attempting, Staging, position, context,
  outcome, leftover, suite, report
<1>1. CASE BeginSpec
  BY <1>1 DEF BeginSpec
<1>2. CASE EnterBody
  BY <1>2 DEF EnterBody
<1>3. CASE BeforeAll
  BY <1>3 DEF BeforeAll, ExpecRan, Insert
<1>4. CASE AfterAll
  BY <1>4 DEF AfterAll, AfterAllDue
<1>5. CASE Consume
  BY <1>5 DEF Consume, ExpecRan, Insert
<1>6. CASE EndLoop \/ BodySignals \/ NextExpec \/ Before \/ InstallFixture \/ RunBody \/
  UnwindFixture \/ After \/
  Retry \/ Teardown \/ Report \/ LeaveExpec \/ StageBefore \/ StageTest \/ Finalize \/
  DrainSpecTasks \/ EndRun
  BY <1>6 DEF EndLoop, BodySignals, NextExpec, Before, InstallFixture, RunBody, UnwindFixture,
    After, Retry,
    Teardown, Report, ExpecRan, Insert, LeaveExpec, StageBefore, StageTest, Finalize,
    DrainSpecTasks, EndRun
<1>7. CASE UNCHANGED vars
  BY <1>7 DEF vars
<1>8. QED
  BY <1>1, <1>2, <1>3, <1>4, <1>5, <1>6, <1>7 DEF Next, Stopped

\* Once told, always told, as a row or as one that was lost; and the row just
\* made is told.
LEMMA KnownGrows ==
  ASSUME rows \in Seq(Row), si \in Specs, NEW e \in Nat, NEW r, NEW next, ExpecRan(e, r, next)
  PROVE  /\ \A s, x : Known(s, x) => Known(s, x)'
         /\ \A s : s = si => Known(s, e)'
<1> DEFINE n == Len(rows)
<1>0. n \in Nat
  OBVIOUS
<1>1. CASE rows' = Append(rows, RowOf(e)) /\ lost' = lost
  <2>1. /\ Len(rows') = n + 1
        /\ \A i \in 1 .. n : rows'[i] = rows[i]
        /\ rows'[n + 1].spec = si /\ rows'[n + 1].expec = e
    BY <1>1 DEF RowOf
  <2> HIDE DEF n
  <2>2. n + 1 \in 1 .. Len(rows') /\ \A i \in 1 .. n : i \in 1 .. Len(rows')
    BY <1>0, <2>1
  <2>3. ASSUME NEW s, NEW x, Reported(s, x) PROVE Reported(s, x)'
    <3>1. PICK i \in 1 .. n : rows[i].spec = s /\ rows[i].expec = x
      BY <2>3 DEF Reported, n
    <3> QED BY <2>1, <2>2, <3>1 DEF Reported
  <2>4. \E i \in 1 .. Len(rows') : rows'[i].spec = si /\ rows'[i].expec = e
    BY <2>1, <2>2
  <2>5. ASSUME NEW s, s = si PROVE Known(s, e)'
    BY <2>4, <2>5 DEF Known, Reported
  <2>6. ASSUME NEW s, NEW x, Known(s, x) PROVE Known(s, x)'
    BY <1>1, <2>3, <2>6 DEF Known
  <2> QED BY <2>5, <2>6
<1>2. CASE rows' = <<RowOf(e)>> /\ lost' = lost \union Ids
  <2>1. Len(rows') = 1 /\ rows'[1].spec = si /\ rows'[1].expec = e
    BY <1>2 DEF RowOf
  <2>2. ASSUME NEW s, s = si PROVE Known(s, e)'
    <3>1. 1 \in 1 .. Len(rows')
      BY <2>1
    <3> QED BY <2>1, <2>2, <3>1 DEF Known, Reported
  <2>3. ASSUME NEW s, NEW x, Known(s, x) PROVE <<s, x>> \in lost'
    BY <1>2, <2>3 DEF Known, Reported, Ids
  <2>4. ASSUME NEW s, NEW x, Known(s, x) PROVE Known(s, x)'
    BY <2>3, <2>4 DEF Known
  <2> QED BY <2>2, <2>4
<1>3. CASE rows' = rows /\ lost' = lost \union {<<si, e>>}
  BY <1>3 DEF Known, Reported
<1> QED BY <1>1, <1>2, <1>3, Written

\* Every row was there before the one that expecRan makes, or is it, and a row of
\* the current suite and a later expectation, or a made-up one, keeps the order.
LEMMA AppendOrdered ==
  ASSUME TypeOK, NEW e \in Nat, NEW r, NEW next, ExpecRan(e, r, next), si \in Specs,
         \A i, j \in 1 .. Len(rows) : i < j => Earlier(rows[i], rows[j]),
         \A i \in 1 .. Len(rows) : Earlier(rows[i], RowOf(e))
  PROVE  /\ \A i, j \in 1 .. Len(rows') : i < j => Earlier(rows'[i], rows'[j])
         /\ \A i \in 1 .. Len(rows') : Earlier(rows'[i], RowOf(e)) \/ rows'[i] = RowOf(e)
<1> DEFINE n == Len(rows)
<1> DEFINE row == RowOf(e)
<1>0. rows \in Seq(Row) /\ n \in Nat
  BY DEF TypeOK, ReportOK
<1>1. CASE rows' = Append(rows, row)
  <2>1. /\ Len(rows') = n + 1
        /\ \A i \in 1 .. n : rows'[i] = rows[i]
        /\ rows'[n + 1] = row
    BY <1>0, <1>1
  <2>2. \A i \in 1 .. n : Earlier(rows[i], row)
    OBVIOUS
  <2>3. \A i, j \in 1 .. n : i < j => Earlier(rows[i], rows[j])
    OBVIOUS
  <2> HIDE DEF n, row
  <2>4. \A i \in 1 .. Len(rows') : i = n + 1 \/ i \in 1 .. n
    BY <1>0, <2>1
  <2>5. ASSUME NEW i \in 1 .. Len(rows'), NEW j \in 1 .. Len(rows'), i < j
        PROVE  Earlier(rows'[i], rows'[j])
    <3>1. i \in 1 .. n
      BY <1>0, <2>1, <2>5
    <3>2. CASE j \in 1 .. n
      <4>1. Earlier(rows[i], rows[j])
        BY <2>3, <2>5, <3>1, <3>2
      <4> QED BY <2>1, <3>1, <3>2, <4>1
    <3>3. CASE j = n + 1
      <4>1. Earlier(rows[i], row)
        BY <2>2, <3>1
      <4> QED BY <2>1, <3>1, <3>3, <4>1
    <3> QED BY <2>4, <3>2, <3>3
  <2>6. ASSUME NEW i \in 1 .. Len(rows')
        PROVE  Earlier(rows'[i], row) \/ rows'[i] = row
    <3>1. CASE i \in 1 .. n
      <4>1. Earlier(rows[i], row)
        BY <2>2, <3>1
      <4> QED BY <2>1, <3>1, <4>1
    <3>2. CASE i = n + 1
      BY <2>1, <3>2
    <3> QED BY <2>4, <3>1, <3>2
  <2> QED BY <2>5, <2>6 DEF row
<1>2. CASE rows' = <<row>>
  <2>1. Len(rows') = 1 /\ rows'[1] = row
    BY <1>2
  <2> HIDE DEF row
  <2>2. \A i \in 1 .. Len(rows') : i = 1
    BY <2>1
  <2> QED BY <2>1, <2>2 DEF row
<1>3. CASE rows' = rows
  BY <1>3
<1> QED BY <1>0, <1>1, <1>2, <1>3, Written

\* The steps that write no row.
Quiet ==
  \/ BeginSpec \/ EnterBody \/ EndLoop \/ NextExpec \/ BodySignals
  \/ Before \/ InstallFixture \/ RunBody \/ UnwindFixture \/ After \/ Retry
  \/ Teardown \/ LeaveExpec \/ StageBefore \/ StageTest
  \/ AfterAll \/ Finalize \/ DrainSpecTasks \/ EndRun \/ UNCHANGED vars
  \/ BeforeAll /\ pc' = "next"
  \/ Consume /\ ~faulted

\* A step writes a row, as one of three actions, or none.
LEMMA WritesOrNot ==
  ASSUME [Next]_vars
  PROVE  \/ Quiet /\ UNCHANGED report
         \/ BeforeAll /\ ExpecRan(0, "error", "afterAll")
         \/ Report /\ ExpecRan(ei, result, "leave")
         \/ Consume /\ faulted /\ ExpecRan(0, "error", "spec")
<1>1. CASE BeforeAll
  BY <1>1 DEF BeforeAll, Quiet
<1>2. CASE Report
  BY <1>2 DEF Report
<1>3. CASE Consume
  BY <1>3 DEF Consume, Quiet
<1>4. CASE BeginSpec \/ EnterBody \/ EndLoop \/ NextExpec \/ BodySignals \/ Before \/
  InstallFixture \/ RunBody \/ UnwindFixture \/ After
  <2>1. UNCHANGED report
    BY <1>4 DEF BeginSpec, EnterBody, EndLoop, NextExpec, BodySignals, Before, InstallFixture,
      RunBody, UnwindFixture, After
  <2> QED BY <1>4, <2>1 DEF Quiet
<1>5. CASE Retry \/ Teardown \/ LeaveExpec \/ StageBefore \/ StageTest \/ AfterAll \/ Finalize \/
  DrainSpecTasks \/ EndRun \/ UNCHANGED vars
  <2>1. UNCHANGED report
    BY <1>5 DEF Retry, Teardown, LeaveExpec, StageBefore, StageTest, AfterAll, Finalize,
      DrainSpecTasks, EndRun, vars
  <2> QED BY <1>5, <2>1 DEF Quiet
<1> QED BY <1>1, <1>2, <1>3, <1>4, <1>5 DEF Next, Stopped

\* A row stays behind the run when no row is written.
LEMMA BehindStep ==
  ASSUME TypeOK, OrderInv, Quiet, pc # "exited", NEW row \in Row, Behind(row)
  PROVE  Behind(row)'
<1> USE DEF Behind, Loop, Left, Closing, position, context, outcome, leftover, suite
<1>0. /\ row.spec \in Nat /\ row.expec \in Nat /\ si \in Nat /\ ei \in Nat
      /\ rows \in Seq(Row)
      /\ pc \notin {"spec", "done"} => si \in Specs
  BY SuiteAssumption DEF Row, Specs, TypeOK, PlaceOK, ReportOK
<1>1. CASE BeginSpec
  BY <1>1 DEF BeginSpec
<1>2. CASE EnterBody
  BY <1>2 DEF EnterBody
<1>3. CASE BeforeAll /\ pc' = "next"
  <2>1. pc = "beforeAll" /\ si' = si
    BY <1>3 DEF BeforeAll
  <2> QED BY <1>3, <2>1
<1>4. CASE NextExpec \/ EndLoop
  BY <1>4 DEF NextExpec, EndLoop, OrderInv
<1>5. CASE Before \/ InstallFixture \/ RunBody \/ UnwindFixture \/ After \/ Retry \/ Teardown
  <2>1. pc \in Loop /\ pc' \in Loop /\ UNCHANGED <<si, ei>>
    BY <1>5 DEF Before, InstallFixture, RunBody, UnwindFixture, After, Retry, Teardown
  <2> QED BY <2>1
<1>6. CASE BodySignals
  BY <1>6 DEF BodySignals
<1>7. CASE LeaveExpec
  <2>1. /\ pc = "leave" /\ si' = si
        /\ \/ pc' = "stageBefore" /\ ei' = ei
           \/ pc' = "next" /\ ei' = ei + 1
    BY <1>7 DEF LeaveExpec
  <2> QED BY <1>0, <2>1
<1>8. CASE StageBefore
  BY <1>8 DEF StageBefore
<1>9. CASE StageTest
  <2>1. pc = "stageTest" /\ si' = si /\ pc' = "next" /\ ei' = ei + 1
    BY <1>9 DEF StageTest
  <2> QED BY <1>0, <2>1
<1>10. CASE AfterAll \/ Finalize \/ DrainSpecTasks
  <2>1. pc \in Closing /\ pc' \in Closing /\ UNCHANGED <<si, ei, faulted>>
    BY <1>10 DEF AfterAll, Finalize, DrainSpecTasks
  <2> QED BY <2>1
<1>11. CASE Consume /\ ~faulted
  <2>1. pc = "consume" /\ si' = si + 1
    BY <1>11 DEF Consume
  <2> QED BY <1>0, <2>1
<1>12. CASE EndRun
  BY <1>12 DEF EndRun
<1>13. CASE UNCHANGED vars
  BY <1>13 DEF vars
<1> QED
  BY <1>1, <1>2, <1>3, <1>4, <1>5, <1>6, <1>7, <1>8, <1>9, <1>10, <1>11, <1>12, <1>13 DEF Quiet

\* While a suite's expectations run, its body has not signalled.
LEMMA FaultStep ==
  ASSUME OrderInv, [Next]_vars
  PROVE  pc' \in {"body", "beforeAll"} \union Loop \union Left => ~faulted'
<1> USE DEF OrderInv, Loop, Left, suite
<1>1. CASE BeginSpec \/ EnterBody \/ BeforeAll \/ NextExpec \/ LeaveExpec \/ StageBefore \/
  StageTest
  BY <1>1 DEF BeginSpec, EnterBody, BeforeAll, NextExpec, LeaveExpec, StageBefore, StageTest,
    ExpecRan
<1>2. CASE Before \/ InstallFixture \/ RunBody \/ UnwindFixture \/ After \/ Retry \/ Teardown \/
  Report
  BY <1>2 DEF Before, InstallFixture, RunBody, UnwindFixture, After, Retry, Teardown, Report
<1>3. CASE AfterAll \/ Finalize \/ DrainSpecTasks \/ Consume \/ EndRun \/ EndLoop \/ BodySignals
  BY <1>3 DEF AfterAll, Finalize, DrainSpecTasks, Consume, EndRun, EndLoop, BodySignals, ExpecRan
<1>4. CASE UNCHANGED vars
  BY <1>4 DEF vars
<1> QED BY <1>1, <1>2, <1>3, <1>4 DEF Next, Stopped

\* Rows follow the schedule.
LEMMA OrderStep ==
  ASSUME TypeOK, ExpecInv, OrderInv, [Next]_vars, rows' \in Seq(Row)
  PROVE  OrderInv'
<1>0. /\ rows \in Seq(Row) /\ si \in Nat /\ ei \in Nat
      /\ pc \notin {"spec", "done"} => si \in Specs
      /\ \A i \in 1 .. Len(rows) : /\ rows[i] \in Row
                                   /\ rows[i].spec \in Nat /\ rows[i].expec \in Nat
      /\ \A i \in 1 .. Len(rows') : rows'[i].spec \in Nat /\ rows'[i].expec \in Nat
  <2>1. rows \in Seq(Row)
    BY DEF TypeOK, ReportOK
  <2>2. \A row \in Row : row.spec \in Nat /\ row.expec \in Nat
    BY SuiteAssumption DEF Row, Specs
  <2>3. \A i \in 1 .. Len(rows) : rows[i] \in Row
    BY <2>1
  <2>4. \A i \in 1 .. Len(rows') : rows'[i] \in Row
    OBVIOUS
  <2> QED BY <2>1, <2>2, <2>3, <2>4 DEF TypeOK, PlaceOK
<1>1. CASE Quiet /\ UNCHANGED report
  <2>1. pc' # "exited" => pc # "exited"
    BY <1>1 DEF Quiet, vars, BeginSpec, EnterBody, EndLoop, BodySignals, BeforeAll, NextExpec,
      Before,
      InstallFixture, RunBody, UnwindFixture, After, Retry, Teardown, LeaveExpec, StageBefore,
      StageTest, AfterAll, Finalize, DrainSpecTasks, Consume, EndRun
  <2>2. ASSUME pc' # "exited", NEW i \in 1 .. Len(rows) PROVE Behind(rows[i])'
    <3>1. Behind(rows[i])
      BY <2>1, <2>2 DEF OrderInv
    <3> DEFINE row == rows[i]
    <3>2. row \in Row /\ rows'[i] = row
      BY <1>0, <1>1 DEF report
    <3>3. \A x \in Row : Behind(x) => Behind(x)'
      BY <1>1, <2>1, <2>2, BehindStep
    <3> QED BY <3>1, <3>2, <3>3 DEF Behind
  <2> QED BY <1>1, <2>2, FaultStep DEF OrderInv, report
<1>2. CASE BeforeAll /\ ExpecRan(0, "error", "afterAll")
  <2>1. /\ pc = "beforeAll" /\ si' = si /\ faulted' = faulted /\ ~faulted /\ si \in Specs
        /\ pc' \in {"afterAll", "exited"}
    BY <1>0, <1>2, Written DEF BeforeAll, suite, OrderInv
  <2>2. \A i \in 1 .. Len(rows) : Earlier(rows[i], RowOf(0))
    BY <2>1 DEF OrderInv, Behind, Loop, Left, Closing, Earlier, RowOf
  <2>3. /\ \A i, j \in 1 .. Len(rows') : i < j => Earlier(rows'[i], rows'[j])
        /\ \A i \in 1 .. Len(rows') : Earlier(rows'[i], RowOf(0)) \/ rows'[i] = RowOf(0)
    BY <1>2, <2>1, <2>2, AppendOrdered DEF OrderInv
  <2>4. \A i \in 1 .. Len(rows') : rows'[i].spec < si \/ rows'[i].spec = si
    BY <2>3 DEF Earlier, RowOf
  <2> QED BY <1>2, <2>1, <2>3, <2>4, FaultStep DEF OrderInv, Behind, Closing
<1>3. CASE Report /\ ExpecRan(ei, result, "leave")
  <2>1. /\ pc = "report" /\ si' = si /\ ei' = ei /\ si \in Specs /\ ei > 0
        /\ pc' \in {"leave", "exited"}
    BY <1>0, <1>3, Written DEF Report, position, ExpecInv, Inside
  <2>2. \A i \in 1 .. Len(rows) : Earlier(rows[i], RowOf(ei))
    BY <2>1 DEF OrderInv, Behind, Left, Closing, Earlier, RowOf
  <2>3. /\ \A i, j \in 1 .. Len(rows') : i < j => Earlier(rows'[i], rows'[j])
        /\ \A i \in 1 .. Len(rows') : Earlier(rows'[i], RowOf(ei)) \/ rows'[i] = RowOf(ei)
    BY <1>0, <1>3, <2>1, <2>2, AppendOrdered DEF OrderInv
  <2>5. ASSUME NEW i \in 1 .. Len(rows'), pc' = "leave" PROVE Behind(rows[i])'
    <3>1. \/ rows'[i].spec < si
          \/ rows'[i].spec = si /\ 0 < rows'[i].expec /\ rows'[i].expec <= ei
      BY <1>0, <2>1, <2>3 DEF Earlier, RowOf
    <3> QED BY <2>1, <2>5, <3>1 DEF Behind, Left
  <2> QED BY <1>3, <2>1, <2>3, <2>5, FaultStep DEF OrderInv
<1>4. CASE Consume /\ faulted /\ ExpecRan(0, "error", "spec")
  <2>1. /\ pc = "consume" /\ faulted /\ si \in Specs /\ (pc' = "spec" => si' = si + 1)
        /\ pc' \in {"spec", "exited"}
    BY <1>0, <1>4, Written DEF Consume
  <2>2. \A i \in 1 .. Len(rows) : Earlier(rows[i], RowOf(0))
    BY <2>1 DEF OrderInv, Behind, Loop, Left, Closing, Earlier, RowOf
  <2>3. /\ \A i, j \in 1 .. Len(rows') : i < j => Earlier(rows'[i], rows'[j])
        /\ \A i \in 1 .. Len(rows') : Earlier(rows'[i], RowOf(0)) \/ rows'[i] = RowOf(0)
    BY <1>4, <2>1, <2>2, AppendOrdered DEF OrderInv
  <2>4. ASSUME NEW i \in 1 .. Len(rows'), pc' = "spec" PROVE rows'[i].spec < si'
    BY <1>0, <2>1, <2>3, <2>4 DEF Earlier, RowOf
  <2> QED BY <1>4, <2>1, <2>3, <2>4, FaultStep DEF OrderInv, Behind
<1> QED BY <1>1, <1>2, <1>3, <1>4, WritesOrNot

\* What was told stays told.
LEMMA ToldGrows ==
  ASSUME TypeOK, ExpecInv, [Next]_vars
  PROVE  /\ \A s, x : Known(s, x) => Known(s, x)'
         /\ \A s : Told(s) => Told(s)'
<1>1. rows \in Seq(Row) /\ (pc \notin {"spec", "done"} => si \in Specs) /\ ei \in Nat
  BY DEF TypeOK, PlaceOK, ReportOK
<1>2. \A s, x : Known(s, x) => Known(s, x)'
  <2>1. CASE UNCHANGED report
    BY <2>1 DEF Known, Reported, report
  <2>2. CASE BeforeAll /\ ExpecRan(0, "error", "afterAll")
    BY <1>1, <2>2, KnownGrows DEF BeforeAll
  <2>3. CASE Report /\ ExpecRan(ei, result, "leave")
    BY <1>1, <2>3, KnownGrows DEF Report
  <2>4. CASE Consume /\ ExpecRan(0, "error", "spec")
    BY <1>1, <2>4, KnownGrows DEF Consume
  <2> QED BY <2>1, <2>2, <2>3, <2>4, WritesOrNot
<1> QED BY <1>2 DEF Told

\* An unhalted run has told all it has passed.
LEMMA ToldStep ==
  ASSUME TypeOK, ExpecInv, ToldInv, OrderInv, [Next]_vars
  PROVE  ToldInv'
<1> USE DEF Loop, Left, Closing
<1>0. /\ rows \in Seq(Row) /\ si \in Nat /\ ei \in Nat
      /\ pc \notin {"spec", "done"} => si \in Specs
      /\ NumSpecs \in Nat /\ \A s \in Specs : ExpecCount[s] \in Nat
  BY SuiteAssumption DEF TypeOK, PlaceOK, ReportOK
<1>1. ~halt' => ~halt
  BY WritesOrNot DEF ExpecRan, Insert, Halts, report
<1>2. pc' # "exited" => pc # "exited"
  BY DEF Next, vars, Stopped, BeginSpec, EnterBody, EndLoop, BodySignals, BeforeAll, NextExpec,
     ExpecRan, Before, InstallFixture,
     RunBody, UnwindFixture, After, Retry, Teardown, Report, LeaveExpec, StageBefore, StageTest,
     AfterAll, Finalize, DrainSpecTasks, Consume, EndRun
<1>3. /\ \A s, x : Known(s, x) => Known(s, x)'
      /\ \A s : Told(s) => Told(s)'
  BY <1>0, ToldGrows DEF TypeOK, ReportOK
<1> DEFINE Said == /\ \A s \in Specs : s < si => Told(s)
                   /\ pc \in Loop => \A e \in 1 .. ExpecCount[si] : e < ei => Known(si, e)
                   /\ pc \in Left => \A e \in 1 .. ExpecCount[si] : e <= ei => Known(si, e)
                   /\ pc \in Closing => faulted \/ Told(si)
<1>4. ~halt' /\ pc' # "exited" => Said
  BY <1>1, <1>2 DEF ToldInv
\* Where the run only moves on within a group of stages.
<1>5. ASSUME UNCHANGED <<si, ei, faulted>>, ~halt', pc' # "exited",
             \/ pc' \notin Loop \union Left \union Closing
             \/ pc \in Loop /\ pc' \in Loop
             \/ pc \in Left /\ pc' \in Left
             \/ pc \in Closing /\ pc' \in Closing
      PROVE  Said'
  BY <1>3, <1>5, <1>4
<1>6. pc' = "done" => si' > NumSpecs
  BY <1>0 DEF ToldInv, Next, vars, position, Stopped, BeginSpec, EnterBody, EndLoop, BodySignals,
    BeforeAll, NextExpec,
     ExpecRan, Before, InstallFixture,
     RunBody, UnwindFixture, After, Retry, Teardown, Report, LeaveExpec, StageBefore, StageTest,
     AfterAll, Finalize, DrainSpecTasks, Consume, EndRun
<1>7. ASSUME ~halt', pc' # "exited" PROVE Said'
  <2> USE <1>7
  <2>1. CASE BeginSpec \/ EndRun \/ UNCHANGED vars
    <3>1. /\ UNCHANGED si
          /\ \/ pc' \notin Loop \union Left \union Closing
             \/ pc' = "consume" /\ faulted'
             \/ UNCHANGED <<pc, ei, faulted>>
      BY <2>1 DEF BeginSpec, EndRun, vars, position, suite
    <3> QED BY <1>3, <1>4, <3>1
  <2>2. CASE EnterBody \/ BodySignals
    <3>1. /\ UNCHANGED <<si, ei>> /\ (pc' = "afterAll" => faulted' \/ halt)
          /\ pc' \in {"afterAll", "beforeAll"}
      BY <2>2 DEF EnterBody, BodySignals, position, report
    <3> QED BY <1>3, <1>1, <1>4, <3>1
  <2>3. CASE BeforeAll
    <3>1. /\ UNCHANGED si /\ si \in Specs
          /\ \/ pc' = "next" /\ ei' = 1
             \/ pc' = "afterAll" /\ ExpecRan(0, "error", "afterAll")
      BY <1>0, <2>3 DEF BeforeAll, ExpecRan
    <3>2. CASE pc' = "next" /\ ei' = 1
      BY <1>0, <1>3, <1>4, <3>1, <3>2
    <3>3. CASE pc' = "afterAll" /\ ExpecRan(0, "error", "afterAll")
      <4>1. \A s : s = si => Known(s, 0)'
        BY <1>0, <3>1, <3>3, KnownGrows
      <4> QED BY <1>3, <1>4, <3>1, <3>3, <4>1 DEF Told
    <3> QED BY <3>1, <3>2, <3>3
  <2>4. CASE NextExpec \/ EndLoop
    <3>1. /\ pc = "next" /\ UNCHANGED <<si, ei, halt>> /\ si \in Specs
          /\ \/ pc' \in {"before", "teardown"}
             \/ pc' = "afterAll" /\ (halt \/ ei > ExpecCount[si])
      BY <1>0, <2>4 DEF NextExpec, EndLoop, position, report
    <3>2. CASE pc' \in {"before", "teardown"}
      BY <1>3, <1>4, <3>1, <3>2
    <3>3. CASE pc' = "afterAll"
      <4>1. \A e \in 1 .. ExpecCount[si] : e < ei
        BY <1>0, <3>1, <3>3
      <4>2. Told(si)
        BY <1>4, <3>1, <4>1 DEF Told
      <4> QED BY <1>3, <1>4, <3>1, <3>3, <4>2
    <3> QED BY <3>1, <3>2, <3>3
  <2>5. CASE Before \/ InstallFixture \/ RunBody \/ UnwindFixture \/ After \/ Retry \/ Teardown
    <3>1. pc \in Loop /\ pc' \in Loop /\ UNCHANGED <<si, ei, faulted>>
      BY <2>5 DEF Before, InstallFixture, RunBody, UnwindFixture, After, Retry, Teardown,
        position, suite
    <3> QED BY <1>5, <3>1
  <2>6. CASE Report
    <3>1. /\ pc = "report" /\ pc' = "leave" /\ UNCHANGED <<si, ei>> /\ si \in Specs
          /\ ExpecRan(ei, result, "leave")
      BY <1>0, <2>6 DEF Report, position, ExpecRan
    <3>2. \A s, e : s = si /\ e = ei => Known(s, e)'
      BY <1>0, <3>1, KnownGrows
    <3>3. \A e \in 1 .. ExpecCount[si] : e <= ei => e < ei \/ e = ei
      BY <1>0
    <3> QED BY <1>3, <1>4, <3>1, <3>2, <3>3
  <2>7. CASE LeaveExpec \/ StageBefore \/ StageTest
    <3>1. /\ pc \in Left /\ UNCHANGED si /\ si \in Specs
          /\ \/ pc' \in Left /\ ei' = ei
             \/ pc' = "next" /\ ei' = ei + 1
      BY <1>0, <2>7 DEF LeaveExpec, StageBefore, StageTest, position
    <3>2. \A e \in 1 .. ExpecCount[si] : e < ei + 1 => e <= ei
      BY <1>0
    <3> QED BY <1>3, <1>4, <3>1, <3>2
  <2>8. CASE AfterAll \/ Finalize \/ DrainSpecTasks
    <3>1. pc \in Closing /\ pc' \in Closing /\ UNCHANGED <<si, ei, faulted>>
      BY <2>8 DEF AfterAll, Finalize, DrainSpecTasks, position, suite
    <3> QED BY <1>5, <3>1
  <2>9. CASE Consume
    <3>1. /\ pc = "consume" /\ pc' = "spec" /\ si' = si + 1 /\ si \in Specs
          /\ faulted => ExpecRan(0, "error", "spec")
      BY <1>0, <2>9 DEF Consume, ExpecRan
    <3>2. \A s : s = si => Told(s)'
      <4>1. CASE faulted
        <5>1. \A s : s = si => Known(s, 0)'
          BY <1>0, <3>1, <4>1, KnownGrows
        <5> QED BY <5>1 DEF Told
      <4>2. CASE ~faulted
        BY <1>3, <1>4, <3>1, <4>2
      <4> QED BY <4>1, <4>2
    <3>3. \A s \in Specs : s < si' => s < si \/ s = si
      BY <1>0, <3>1 DEF Specs
    <3> QED BY <1>3, <1>4, <3>1, <3>2, <3>3
  <2> QED
    BY <2>1, <2>2, <2>3, <2>4, <2>5, <2>6, <2>7, <2>8, <2>9 DEF Next, Stopped
<1> QED BY <1>6, <1>7 DEF ToldInv

-----------------------------------------------------------------------------
\* The initial state, and the invariant of the specification.
LEMMA InvariantInit == Init => IInv
<1> SUFFICES ASSUME Init PROVE IInv
  OBVIOUS
<1> USE SuiteAssumption DEF Init
<1>1. PlaceOK /\ ExpecInv
  BY DEF PlaceOK, ExpecInv, Stages, Inside, Attempting, Staging
<1>2. FlagsOK /\ WorldOK
  BY DEF FlagsOK, WorldOK, Owners
<1>3. ReportOK
  BY DEF ReportOK, Results
<1>4. RememberedInv /\ StuckInv /\ ResultInv
  BY DEF RememberedInv, StuckInv, ResultInv, Attempting
<1>5. LeftoverInv /\ InstalledInv
  BY DEF LeftoverInv, InstalledInv, Attempting, Staging
<1>6. ClosedInv
  BY DEF ClosedInv, Inside, Attempting, Staging
<1>7. OrderInv /\ ToldInv
  <2>1. Len(rows) = 0
    OBVIOUS
  <2>2. OrderInv
    BY <2>1 DEF OrderInv, Loop, Left
  <2>3. \A s \in Specs : ~(s < si)
    BY DEF Specs
  <2> QED BY <2>2, <2>3 DEF ToldInv, Loop, Left, Closing
<1>8. QED
  BY <1>1, <1>2, <1>3, <1>4, <1>5, <1>6, <1>7 DEF IInv, TypeOK

\* The parts together are inductive.
LEMMA Invariant == Spec => []IInv
<1>1. IInv /\ [Next]_vars => IInv'
  <2> SUFFICES ASSUME IInv, [Next]_vars PROVE IInv'
    OBVIOUS
  <2>1. TypeOK' /\ ExpecInv'
    BY PlaceStep, FlagsStep, WorldStep, ReportStep, ExpecStep DEF IInv, TypeOK
  <2>2. RememberedInv' /\ LeftoverInv' /\ StuckInv' /\ ResultInv' /\ InstalledInv' /\ ClosedInv'
    BY RememberedStep, LeftoverStep, StuckStep, ResultStep, InstalledStep, ClosedStep
    DEF IInv, TypeOK
  <2>3. rows' \in Seq(Row)
    BY <2>1 DEF TypeOK, ReportOK
  <2>4. OrderInv' /\ ToldInv'
    BY <2>3, OrderStep, ToldStep DEF IInv
  <2> QED BY <2>1, <2>2, <2>4 DEF IInv
<1>2. QED
  BY InvariantInit, <1>1, PTL DEF Spec

-----------------------------------------------------------------------------
\* Every variable of the runner keeps its type.
THEOREM TypeCorrect == Spec => []TypeOK
<1>1. IInv => TypeOK
  BY DEF IInv
<1>2. QED
  BY Invariant, <1>1, PTL

\* Whenever .tst.currentCwd trusts the directory the runner remembers, it is
\* the directory the process is in.
THEOREM DirectoryRemembered == Spec => []RemembersWhereItIs
<1>1. IInv => RemembersWhereItIs
  BY DEF IInv, RememberedInv, RemembersWhereItIs
<1>2. QED
  BY Invariant, <1>1, PTL

\* No mock, cleanup task or fixture of an earlier attempt is live when the next
\* one starts, with any number of retries and in every mode, but for mocks that
\* could not be put back, and then the run has an error on record.
THEOREM AttemptsIsolated == Spec => []AttemptsStartClean
<1>1. IInv => AttemptsStartClean
  BY DEF IInv, LeftoverInv, StuckInv, InstalledInv, AttemptsStartClean, Attempting
<1>2. QED
  BY Invariant, <1>1, PTL

\* A passing row stands for an attempt no stage of which failed.
THEOREM PassSound == Spec => []PassMeansClean
<1>1. IInv => PassMeansClean
  BY DEF IInv, ResultInv, PassMeansClean
<1>2. QED
  BY Invariant, <1>1, PTL

\* Fixtures are unwound on every path out of the test, for any number of them.
THEOREM FixturesBalanced == Spec => []FixturesUnwound
<1>1. IInv => FixturesUnwound
  BY DEF IInv, InstalledInv, FixturesUnwound
<1>2. QED
  BY Invariant, <1>1, PTL

\* Every suite whose beforeAll hook ran has had its afterAll hook by the time
\* the next suite starts, halted or not.
THEOREM HooksPaired == Spec => []SuitesClosed
<1>1. IInv => SuitesClosed
  BY DEF IInv, ClosedInv, SuitesClosed
<1>2. QED
  BY Invariant, <1>1, PTL

\* Rows follow the schedule, no expectation has two and a made-up row is the last
\* of its suite; a run that was not halted leaves none out but those that
\* expecRan failed to record or that went with a table a test replaced.
THEOREM RowsFollow == Spec => []ReportFollowsSchedule
<1>1. ASSUME IInv PROVE ReportFollowsSchedule
  <2>1. pc = "done" /\ ~halt => \A s \in Specs : Told(s)
    <3>1. NumSpecs \in Nat /\ si \in Nat
      BY <1>1, SuiteAssumption DEF IInv, TypeOK, PlaceOK
    <3> QED BY <1>1, <3>1 DEF IInv, ToldInv, Specs
  <2> QED BY <1>1, <2>1 DEF IInv, OrderInv, Earlier, Told, ReportFollowsSchedule
<1>2. QED
  BY Invariant, <1>1, PTL

=============================================================================
