----------------------------- MODULE ReleaseGate -----------------------------
(***************************************************************************)
(* The release gate, verify_release_gate.py: it starts from a clean        *)
(* checkout, notes the commit, runs every verifier and the suites in it,   *)
(* compares what the suites report, looks at the checkout once more and    *)
(* writes an audit that names the commit, then the checksums of its        *)
(* evidence.  The gate takes the better part of an hour; meanwhile the     *)
(* checkout is an ordinary directory in which the gate's own commands and  *)
(* people work.                                                            *)
(***************************************************************************)
EXTENDS Integers, Sequences, FiniteSets

CONSTANTS
  Commits,      \* what HEAD can be
  VersionOf,    \* .resq.VERSION as a commit declares it
  Executions,   \* executions of the framework's own suite, in the order of their ids
  Quickstart,   \* executions of the quickstart example
  TestOf,       \* the test an execution is a case of
  DescriptionOf, \* its description, which other executions may share
  Required,     \* descriptions whose absence the gate never accepts
  MinTests, MaxSkips,
  Expected,     \* the quickstart's coverage counts in its contract
  Counts,       \* coverage counts a rendering may show
  MaxChanges

ASSUME ReleaseAssumption ==
  /\ Executions \union Quickstart \subseteq Nat /\ IsFiniteSet(Executions) /\ IsFiniteSet(Quickstart)
  /\ DOMAIN VersionOf = Commits /\ DOMAIN TestOf = Executions \union Quickstart
  /\ DOMAIN DescriptionOf = Executions
  /\ Expected \in Counts /\ {MinTests, MaxSkips, MaxChanges} \subseteq Nat

VARIABLES
  tree,       \* the checkout: HEAD, and how its files differ from it
  touched,    \* while the gate ran, someone moved HEAD or undid a change
  changes,
  stage,      \* what the gate does next
  commit, version, baseline,  \* what it noted at the start
  passed,     \* how many commands passed
  seen,       \* the trees they saw
  reports,    \* the report of each lane that is compared with another one
  audit,      \* release-audit.json
  sealed,     \* checksums.sha256 is written
  exit

noted == <<commit, version, baseline>>
made  == <<passed, seen, reports, audit, sealed>>
vars  == <<tree, touched, changes, stage, noted, made, exit>>

Running  == -1
None     == [status |-> "none"]
Statuses == {"pass", "skip", "absent"}   \* a lane with a failure does not exit 0
Trees    == [head : Commits, edited : BOOLEAN, stray : BOOLEAN, ignored : BOOLEAN]

\* The commands in their order; "static" and "verifiers" stand for several.
Commands == <<"static", "normal", "isolated", "differential", "verifiers",
              "installation", "correctness", "coverage">>
Compared == {"normal", "isolated", "correctness", "coverage"}
Lanes    == Compared \union {"differential"}
Renderings == {"summary", "report", "lcov", "html", "state", "console"}

\* require_residue_free_checkout: no tracked change, no file git does not know,
\* but for the gate's own output; ignored files are only fingerprinted.
Clean(t) == ~t.edited /\ ~t.stray

Init ==
  /\ tree \in {t \in Trees : ~t.ignored} /\ touched = FALSE /\ changes = 0
  /\ stage = "clean" /\ commit = None /\ version = None /\ baseline = None
  /\ passed = 0 /\ seen = {} /\ reports = [l \in Compared |-> None]
  /\ audit = None /\ sealed = FALSE
  /\ exit = Running

-----------------------------------------------------------------------------
(* The checkout                                                            *)

Soiled(t) == {[t EXCEPT !.edited = TRUE], [t EXCEPT !.stray = TRUE], [t EXCEPT !.ignored = TRUE]} \ {t}
Washed(t) == {[t EXCEPT !.edited = FALSE], [t EXCEPT !.stray = FALSE], [t EXCEPT !.ignored = FALSE]} \ {t}
Moved(t)  == {[t EXCEPT !.head = c] : c \in Commits \ {t.head}}

\* Someone works in the checkout.
Change ==
  /\ exit = Running /\ changes < MaxChanges /\ changes' = changes + 1
  /\ \/ tree' \in Soiled(tree) /\ UNCHANGED touched
     \/ tree' \in Washed(tree) \union Moved(tree) /\ touched' = TRUE
  /\ UNCHANGED <<stage, noted, made, exit>>

-----------------------------------------------------------------------------
(* The gate                                                                *)

World == UNCHANGED <<tree, touched, changes>>
Goes(next) == stage' = next /\ UNCHANGED exit
Ends(status) == stage' = "ended" /\ exit' = status

RequireClean ==
  /\ stage = "clean" /\ World /\ UNCHANGED <<commit, version, made>>
  /\ \/ ~Clean(tree) /\ Ends(1) /\ UNCHANGED baseline
     \/ Clean(tree) /\ baseline' = tree.ignored /\ Goes("commit")

\* git rev-parse, after the check.
ReadCommit ==
  /\ stage = "commit" /\ World /\ UNCHANGED <<version, baseline, made>>
  /\ commit' = tree.head /\ Goes("prepare")

\* prepare_output refuses a directory with content, finding_ledger an open
\* finding; the version is read from the checkout.
Prepare ==
  /\ stage = "prepare" /\ World /\ UNCHANGED <<commit, baseline, made>>
  /\ \/ Ends(1) /\ UNCHANGED version
     \/ version' = VersionOf[tree.head] /\ Goes("run")

-----------------------------------------------------------------------------
(* Reports and what is asked of them                                       *)

\* A report names the revision and the version of the tree its run loaded.
ReportIn(t, rows, totals) ==
  [status |-> "report", version |-> VersionOf[t.head], rows |-> rows, totals |-> totals,
   revision |-> [sha |-> t.head, dirty |-> ~Clean(t)]]

Rows(lane) == [IF lane \in {"correctness", "coverage"} THEN Quickstart ELSE Executions -> Statuses]

\* Only one lane measures coverage; at most one of its renderings is odd.
Rendered == {[x \in Renderings |-> IF x = odd THEN c ELSE d] : odd \in Renderings, c, d \in Counts}
Totals(lane) == IF lane = "coverage" THEN Rendered ELSE {<< >>}

With(r, status) == {x \in DOMAIN r.rows : r.rows[x] = status}
Found(r)   == DOMAIN r.rows \ With(r, "absent")
Summary(r) == [s \in Statuses |-> Cardinality(With(r, s))]
Green(r)   == \A x \in DOMAIN r.rows : r.rows[x] \notin {"fail", "error"}
RequireVersion(r) == r.version = version

PassedDescriptions(r) == {DescriptionOf[x] : x \in With(r, "pass")}

\* The suite of the framework has not shrunk, hardly skips, and under each of the
\* required descriptions something passes.
SelfContract(r) ==
  /\ Green(r) /\ Required \subseteq PassedDescriptions(r)
  /\ Cardinality(Found(r)) >= MinTests /\ Cardinality(With(r, "skip")) <= MaxSkips

\* semantic_test_projection: a row for each execution, by its id.
\* Fault: by the id of its test, so that the last case stands for all.
Projection_ByTest(r) ==
  {<<TestOf[x], r.rows[x]>> : x \in {y \in Found(r) :
                               \A z \in Found(r) : TestOf[z] = TestOf[y] => z <= y}}

Projection(r) == {<<x, r.rows[x]>> : x \in Found(r)}

ReconcileSuites(normal, isolated) ==
  Summary(normal) = Summary(isolated) /\ Projection(normal) = Projection(isolated)

\* reconcile_coverage.py; the lanes load the revision the checkout has by then.
ReconcileReports(correctness, coverage) ==
  /\ correctness.version = coverage.version /\ correctness.revision = coverage.revision
  /\ Found(correctness) = Found(coverage) /\ Summary(correctness) = Summary(coverage)
  /\ \A x \in Found(coverage) : correctness.rows[x] = coverage.rows[x]

\* verify_coverage: every rendering shows the counts of the contract.
VerifyCoverage(r) == \A x \in Renderings : r.totals[x] = Expected

\* What follows the command of a lane, before the next command.
Accepted(lane, r) ==
  CASE lane = "normal"       -> RequireVersion(r) /\ SelfContract(r)
    [] lane = "isolated"     -> /\ RequireVersion(r) /\ SelfContract(r)
                                /\ ReconcileSuites(reports["normal"], r)
    [] lane = "differential" -> Green(r)
    [] lane = "correctness"  -> RequireVersion(r)
    [] lane = "coverage"     -> /\ Green(r) /\ VerifyCoverage(r) /\ RequireVersion(r)
                                /\ ReconcileReports(reports["correctness"], r)

-----------------------------------------------------------------------------
Current == Commands[passed + 1]

\* The installation takes the noted commit from the repository.
Files(c) == IF c = "installation" THEN [head |-> commit, edited |-> FALSE, stray |-> FALSE,
                                        ignored |-> baseline] ELSE tree

Passes == /\ seen' = seen \union {Files(Current)} /\ passed' = passed + 1
          /\ Goes(IF passed' = Len(Commands) THEN "residue" ELSE "run")

\* Audit.run: a failure or a timeout ends the gate.  A command may leave files
\* in the checkout, but cleans nothing up that was there before.
Runs == /\ stage = "run"
        /\ \/ UNCHANGED <<tree, changes>>
           \/ changes < MaxChanges /\ changes' = changes + 1 /\ tree' \in Soiled(tree)
        /\ UNCHANGED <<touched, noted, audit, sealed>>

FailCommand == Runs /\ Ends(1) /\ UNCHANGED <<passed, seen, reports>>

RunVerifier == Runs /\ Current \notin Lanes /\ Passes /\ UNCHANGED reports

\* load_report wants a valid report with all the evidence.
RunLane ==
  /\ Runs /\ Current \in Lanes /\ Passes
  /\ \E rows \in Rows(Current), totals \in Totals(Current) :
       LET r == ReportIn(tree, rows, totals) IN
         /\ Accepted(Current, r)
         /\ reports' = IF Current \in Compared THEN [reports EXCEPT ![Current] = r] ELSE reports

-----------------------------------------------------------------------------
\* Fault: files git does not know are not looked for again.
Residue_Tracked == ~tree.edited /\ tree.ignored = baseline

\* The second look: clean, and the ignored files as they were.  HEAD is not
\* read again.
Residue == Clean(tree) /\ tree.ignored = baseline

RequireNoResidue ==
  /\ stage = "residue" /\ World /\ UNCHANGED <<noted, made>>
  /\ IF Residue THEN Goes("audit") ELSE Ends(1)

WriteAudit ==
  /\ stage = "audit" /\ World /\ UNCHANGED <<noted, passed, seen, reports, sealed>>
  /\ \/ Ends(1) /\ UNCHANGED audit
     \/ audit' = [status |-> "pass", commit |-> commit] /\ Goes("seal")

\* write_checksums; the disk may be full.
Seal ==
  /\ stage = "seal" /\ World /\ UNCHANGED <<noted, passed, seen, reports, audit>>
  /\ \/ Ends(1) /\ UNCHANGED sealed
     \/ sealed' = TRUE /\ Ends(0)

Gate == \/ RequireClean \/ ReadCommit \/ Prepare \/ FailCommand \/ RunVerifier \/ RunLane
        \/ RequireNoResidue \/ WriteAudit \/ Seal

Done == exit # Running /\ UNCHANGED vars

Next == Change \/ Gate \/ Done

Spec == Init /\ [][Next]_vars
-----------------------------------------------------------------------------
CommitTree == [head |-> commit, edited |-> FALSE, stray |-> FALSE, ignored |-> baseline]

\* docs/RELEASE_CHECKLIST.md, "Tag only the exact audited commit": unless someone
\* moved HEAD or took a change back while the gate ran, an audit is of the
\* commit it names: every command saw exactly the files of that commit.
AuditNamesWhatRan ==
  audit # None =>
    /\ audit.commit = commit
    /\ touched \/ (passed = Len(Commands) /\ seen = {CommitTree})

\* What an audit claims of the suites holds execution by execution, also for the
\* cases of one test: normal and isolated mode agree, and so do the coverage
\* lane and the lane without it, which ran at one revision of one version.
\* Each required description has an execution that passed, if not every one.
AuditedLanesAgree ==
  audit # None =>
    /\ reports["normal"].rows = reports["isolated"].rows
    /\ reports["correctness"].rows = reports["coverage"].rows
    /\ reports["correctness"].revision = reports["coverage"].revision
    /\ \A l \in Compared : reports[l].version = version
    /\ Required \subseteq PassedDescriptions(reports["isolated"])
=============================================================================
