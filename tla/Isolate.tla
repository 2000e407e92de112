------------------------------- MODULE Isolate -------------------------------
(***************************************************************************)
(* Process-per-file execution, lib/isolate.q: the parent starts groups of  *)
(* children, waits for a whole group, turns what each child has left in    *)
(* its scratch directory into rows, in file order, runs a file again whose *)
(* q could not start, and decides the exit status from the merged rows.    *)
(* Every file holds one test.  A child is a run of module RunLifecycle of  *)
(* which only the artefacts are seen here: its report, its exit code and   *)
(* its captured output.                                                    *)
(***************************************************************************)
EXTENDS Naturals

CONSTANTS
  NumFiles,   \* bound on the selected files, numbered in their order
  MaxTries,   \* serial tries of one file (3 in the code)
  Configs     \* the command lines considered

Files == 1 .. NumFiles

\* workers: -isolateWorkers; caseShard: -shard-unit test or case; filtered:
\* -only, -tag and the like; lenient: files whose test is in quarantine.
ASSUME IsolateAssumption ==
  /\ NumFiles \in Nat /\ MaxTries \in Nat \ {0}
  /\ \A c \in Configs :
       /\ c.workers \in Nat \ {0} /\ c.lenient \subseteq Files
       /\ {c.caseShard, c.filtered, c.strict, c.strictPlugins, c.gates} \subseteq BOOLEAN

Pass == 0
Fail == 1
NoTests == 3
LoadError == 4
Killed == 137
Other == 9          \* any other exit code of a child, 124 of timeout included
Unrecorded == 255   \* rc.txt holds no exit code
NoStatus == 256
Statuses == {Pass, Fail, NoTests, LoadError}

\* What a report can say of a file, and what the parent adds to it.
ChildRows == {"pass", "fail", "skip", "load", "strict", "framework"}
ErrorRows == {"timeout", "exit", "killed", "infrastructure", "startup", "report",
              "setup", "helper", "cleanup"}   \* the ISOLATED_* suites
RowKinds  == ChildRows \union ErrorRows
RunRows   == {"load", "unavailable", "strict", "plugin", "framework"}

Artefacts == [report : {"none", "malformed", "valid"}, rows : SUBSET ChildRows,
              code : {Pass, Fail, LoadError, Killed, Other, Unrecorded},
              late : BOOLEAN,      \* the output shows that timeout ended it
              quotes : BOOLEAN]    \* the output quotes the licence message
Nothing == [report |-> "none", rows |-> {}, code |-> Unrecorded, late |-> FALSE,
            quotes |-> FALSE]

Stages == {"discover", "setup", "wait", "interpret", "clean", "again", "serial",
           "serialWait", "serialClean", "merge", "plugins", "gates",
           "done", "aborted"}

\* A file of the current group is looked at.
InGroup == {"interpret", "clean", "again", "serial", "serialWait", "serialClean"}

VARIABLES
  conf,
  pc,
  total,       \* files selected: no child and no plugin changes the list
  emptyShard,  \* .tst.app.emptyShard
  accounted,   \* files whose rows are in .resq.state.results
  cur,         \* the file under interpretation
  attempt,     \* serial tries of that file so far
  child,       \* the last child of each file: "idle", "running" or "ended"
  scratch,     \* does the file have a scratch directory?
  art,         \* what lies in it
  quoted,      \* do the rows of cur quote the licence message?
  verdict,     \* rows of each file
  good,        \* did the last child end well by itself, with nothing red?
  extra,       \* rows that belong to no file
  status       \* exit status

files == <<child, scratch, art, good>>
tail  == <<emptyShard, extra, status>>
vars  == <<conf, pc, total, accounted, cur, attempt, quoted, files, verdict, tail>>

TypeOK ==
  /\ conf \in Configs /\ pc \in Stages
  /\ total \in 0 .. NumFiles /\ accounted \in 0 .. total
  /\ cur \in 0 .. total /\ attempt \in 0 .. MaxTries
  /\ child \in [Files -> {"idle", "running", "ended"}]
  /\ scratch \in [Files -> BOOLEAN] /\ art \in [Files -> Artefacts]
  /\ quoted \in BOOLEAN /\ verdict \in [Files -> SUBSET RowKinds]
  /\ good \in [Files -> BOOLEAN] /\ emptyShard \in BOOLEAN
  /\ extra \subseteq RunRows /\ status \in Statuses \union {NoStatus}
  /\ pc \in InGroup => cur \in Files /\ cur > accounted

Init ==
  /\ conf \in Configs /\ pc = "discover"
  /\ total \in 0 .. NumFiles
  /\ accounted = 0 /\ cur = 0 /\ attempt = 0 /\ quoted = FALSE
  /\ child = [f \in Files |-> "idle"] /\ scratch = [f \in Files |-> FALSE]
  /\ art = [f \in Files |-> Nothing] /\ verdict = [f \in Files |-> {}]
  /\ good = [f \in Files |-> FALSE]
  /\ emptyShard = FALSE /\ extra = {} /\ status = NoStatus

-----------------------------------------------------------------------------
\* The last file of the current group (workers cut files)
GroupEnd == IF accounted + conf.workers < total THEN accounted + conf.workers ELSE total
Group == accounted + 1 .. GroupEnd

\* Rows that make the run red: quarantine is applied to the merged rows.
Harmless(f) == {"pass", "skip"} \union (IF f \in conf.lenient THEN {"fail"} ELSE {})

\* What a report that was completed says, and the exit code that goes with it.
\* Quarantine is not applied in a child; a child whose part of a test or case
\* shard is empty succeeds; a gated phase that signals hides the load rows.
Completed ==
  {<<{"pass"}, Pass>>, <<{"fail"}, Fail>>, <<{"load"}, LoadError>>,
   <<{"framework"}, Fail>>, <<{"framework"}, LoadError>>}
  \union (IF conf.strict THEN {<<{"strict"}, Fail>>, <<{"skip", "strict"}, Fail>>}
          ELSE {<<{}, Fail>>, <<{"skip"}, Pass>>})
  \union (IF conf.caseShard THEN {<<{}, Pass>>} ELSE {})

Rows == {c[1] : c \in Completed}

\* How a child may end: it completes; it ends or is killed before its report or
\* between its report and its end; timeout ends it, which its output may fail
\* to show; its report is cut short; its exit code may not be recorded.
Endings ==
  [report : {"valid"}, rows : Rows, code : {Killed, Other, Unrecorded}, late : BOOLEAN,
   quotes : BOOLEAN]
  \union [report : {"none", "malformed"}, rows : {{}}, code : {Killed, Other, Unrecorded},
          late : BOOLEAN, quotes : BOOLEAN]
  \union [report : {"none", "malformed"}, rows : {{}}, code : {Pass, Fail, LoadError},
          late : {FALSE}, quotes : BOOLEAN]
  \union UNION {[report : {"valid"}, rows : {c[1]}, code : {c[2]}, late : {FALSE},
                 quotes : BOOLEAN] : c \in Completed}

EndedWell(f, o) ==
  /\ o.report = "valid" /\ ~o.late /\ <<o.rows, o.code>> \in Completed
  /\ o.rows \ {"strict"} \subseteq Harmless(f) /\ o.code # LoadError

-----------------------------------------------------------------------------
\* runAll up to the first group.  Explicit paths that do not exist are rows of
\* the parent; a tool that isolation needs may be missing.
Discover ==
  /\ pc = "discover"
  /\ emptyShard' \in (IF total = 0 /\ ~conf.caseShard THEN BOOLEAN ELSE {FALSE})
  /\ \E missing \in SUBSET {"load"}, lacking \in SUBSET {"unavailable"} :
       /\ total = 0 => lacking = {}
       /\ extra' = missing \union lacking
       /\ pc' = IF total = 0 \/ lacking # {} THEN "merge" ELSE "setup"
  /\ UNCHANGED <<conf, total, accounted, cur, attempt, quoted, files, verdict, status>>

\* runGroup: a scratch directory each; a file whose directory could not be made
\* or prepared is not started; the others are started together.
SetUpGroup ==
  /\ pc = "setup" /\ pc' = "wait"
  /\ \E made \in SUBSET Group : \E prepared \in SUBSET made :
       /\ scratch' = [f \in Files |-> f \in made]
       /\ child' = [f \in Files |-> IF f \in prepared THEN "running" ELSE child[f]]
  /\ UNCHANGED <<conf, total, accounted, cur, attempt, quoted, art, verdict, good, tail>>

\* What lies in a directory after a child ended in it: its output is new, a
\* report or exit code that was not written is the one that lay there.
LeftBehind(old, o) ==
  [report |-> IF o.report = "none" THEN old.report ELSE o.report,
   rows   |-> IF o.report = "none" THEN old.rows ELSE o.rows,
   code   |-> IF o.code = Unrecorded THEN old.code ELSE o.code,
   late   |-> o.late, quotes |-> o.quotes]

ChildEnds(f) ==
  /\ child[f] = "running" /\ child' = [child EXCEPT ![f] = "ended"]
  /\ \E o \in Endings :
       /\ art' = [art EXCEPT ![f] = LeftBehind(@, o)]
       /\ good' = [good EXCEPT ![f] = EndedWell(f, o)]
  /\ UNCHANGED <<conf, pc, total, accounted, cur, attempt, quoted, scratch, verdict, tail>>

\* The shell has waited for every child of the group.
GroupEnded ==
  /\ pc = "wait" /\ \A f \in Group : child[f] # "running"
  /\ pc' = "interpret" /\ cur' = accounted + 1 /\ attempt' = 0
  /\ UNCHANGED <<conf, total, accounted, quoted, files, verdict, tail>>

\* interpretFile
Classified(a) ==
  IF a.late THEN {"timeout"}
  ELSE IF a.code = LoadError THEN a.rows \union {"load"}
  ELSE IF a.report = "valid"
  THEN IF \/ a.code = Pass
          \/ a.code = Fail /\ a.rows = {} /\ conf.filtered
          \/ a.code = Fail /\ a.rows \intersect {"fail", "load", "strict", "framework"} # {}
       THEN a.rows ELSE a.rows \union {"exit"}
  ELSE IF a.report = "malformed" THEN {"report"}
  ELSE IF a.code = Killed THEN {"killed"}
  ELSE IF a.code = Unrecorded THEN {"infrastructure"}
  ELSE IF a.quotes THEN {"startup"} ELSE {"exit"}

\* Fault: any output that quotes the message asks for another try.
Retryable_AnyOutput(a) == a.quotes

\* retryableStartupFailure: the message is looked for in the rows' text, and
\* the parent's own rows carry the end of the child's output.
Retryable(a) ==
  a.quotes /\ (a.late \/ a.report # "valid" \/ (a.code = LoadError /\ "load" \notin a.rows))

\* Reading may signal; a file without a directory has only that to report.
InterpretFile ==
  /\ pc = "interpret"
  /\ \/ /\ scratch[cur] /\ pc' = "clean" /\ quoted' = Retryable(art[cur])
        /\ verdict' = [verdict EXCEPT ![cur] = Classified(art[cur])]
     \/ /\ scratch[cur] /\ pc' = "clean" /\ UNCHANGED quoted
        /\ verdict' = [verdict EXCEPT ![cur] = {"helper"}]
     \/ /\ ~scratch[cur] /\ pc' = "again" /\ UNCHANGED quoted
        /\ verdict' = [verdict EXCEPT ![cur] = {"setup"}]
  /\ UNCHANGED <<conf, total, accounted, cur, attempt, files, tail>>

\* cleanupScratch.  A directory that remains is not used again.
Cleaned ==
  /\ scratch' = [scratch EXCEPT ![cur] = FALSE]
  /\ art' = [art EXCEPT ![cur] = Nothing]
  /\ \E left \in SUBSET {"cleanup"} : verdict' = [verdict EXCEPT ![cur] = @ \union left]

CleanFile ==
  /\ pc = "clean" /\ pc' = "again" /\ Cleaned
  /\ UNCHANGED <<conf, total, accounted, cur, attempt, quoted, child, good, tail>>

\* The next file of the group; after the last one the rows enter the table.
NextFile ==
  IF cur < GroupEnd
  THEN pc' = "interpret" /\ cur' = cur + 1 /\ attempt' = 0 /\ UNCHANGED accounted
  ELSE /\ accounted' = cur /\ cur' = 0 /\ attempt' = 0
       /\ pc' = IF cur = total THEN "merge" ELSE "setup"

Proceed ==
  /\ pc = "again" /\ ~quoted /\ NextFile
  /\ UNCHANGED <<conf, total, quoted, files, verdict, tail>>

\* runFile: a new directory for a file whose q could not start.
RunAgain ==
  /\ pc = "again" /\ quoted /\ quoted' = FALSE
  /\ \/ /\ pc' = "serial" /\ scratch' = [scratch EXCEPT ![cur] = TRUE]
        /\ UNCHANGED <<accounted, cur, attempt, verdict>>
     \/ /\ verdict' = [verdict EXCEPT ![cur] = {"setup"}] /\ NextFile
        /\ UNCHANGED scratch
  /\ UNCHANGED <<conf, total, art, child, good, tail>>

\* Fault: the report of the previous try is left in the directory.
ResetScratch_KeepsReport(a) == [a EXCEPT !.code = Unrecorded, !.late = FALSE, !.quotes = FALSE]

\* resetScratch
ResetScratch(a) == Nothing

\* Fault: tries are not counted.
Counted_Never(n) == n

Counted(n) == n + 1

\* runFileBody; preparing the directory may signal.
SerialTry ==
  /\ pc = "serial" /\ attempt' = Counted(attempt)
  /\ art' = [art EXCEPT ![cur] = ResetScratch(@)]
  /\ good' = [good EXCEPT ![cur] = FALSE]
  /\ \/ /\ pc' = "serialWait" /\ child' = [child EXCEPT ![cur] = "running"]
        /\ verdict' = [verdict EXCEPT ![cur] = {}]
     \/ /\ pc' = "serialClean" /\ verdict' = [verdict EXCEPT ![cur] = {"helper"}]
        /\ UNCHANGED child
  /\ UNCHANGED <<conf, total, accounted, cur, quoted, scratch, tail>>

SerialInterpret ==
  /\ pc = "serialWait" /\ child[cur] = "ended"
  /\ \/ /\ verdict' = [verdict EXCEPT ![cur] = Classified(art[cur])]
        /\ pc' = IF Retryable(art[cur]) /\ attempt < MaxTries THEN "serial" ELSE "serialClean"
     \/ verdict' = [verdict EXCEPT ![cur] = {"helper"}] /\ pc' = "serialClean"
  /\ UNCHANGED <<conf, total, accounted, cur, attempt, quoted, files, tail>>

SerialClean ==
  /\ pc = "serialClean" /\ Cleaned /\ NextFile
  /\ UNCHANGED <<conf, total, quoted, child, good, tail>>

-----------------------------------------------------------------------------
\* executedCount: the list of generated suites lacks the killed child and the
\* unrecorded exit code.
ExecutedRows == {"pass", "fail", "killed", "infrastructure", "framework"}

RowsOf(v) == UNION {v[f] : f \in Files}

\* The exit status of the merged rows.
ExitCode(v, more, empty) ==
  LET rows == RowsOf(v) \union more IN
  IF "load" \in rows THEN LoadError
  ELSE IF total = 0 THEN IF empty THEN Pass ELSE NoTests
  ELSE IF \/ rows = {} \/ more # {}
          \/ \E f \in Files : v[f] \ Harmless(f) # {}
  THEN Fail ELSE Pass

\* dropChildStrict, the empty part of a test or case shard, addGlobalStrict,
\* the quarantine and the exit status.
Merge ==
  /\ pc = "merge" /\ pc' = "plugins"
  /\ verdict' = [f \in Files |-> verdict[f] \ {"strict"}]
  /\ emptyShard' = IF conf.caseShard THEN total > 0 /\ RowsOf(verdict') \union extra = {}
                   ELSE emptyShard
  /\ extra' = extra \union
       (IF conf.strict /\ ~emptyShard' /\ RowsOf(verdict') \intersect ExecutedRows = {}
        THEN {"strict"} ELSE {})
  /\ status' = ExitCode(verdict', extra', emptyShard')
  /\ UNCHANGED <<conf, total, accounted, cur, attempt, quoted, files>>

\* Fault: what happens after the merge replaces the exit status.
TurnRed_Always(red) == IF red THEN Fail ELSE status

\* A failure after the merge turns a green status red and replaces no other.
TurnRed(red) == IF red /\ status = Pass THEN Fail ELSE status

\* runRegisteredPlugins: a failing plugin adds a row under -strictPlugins, a
\* failing phase one in any case.
RunPlugins ==
  /\ pc = "plugins" /\ pc' = "gates"
  /\ \E failed \in SUBSET ({"framework"} \union IF conf.strictPlugins THEN {"plugin"} ELSE {}) :
       /\ extra' = extra \union failed
       /\ status' = TurnRed(failed # {})
  /\ UNCHANGED <<conf, total, accounted, cur, attempt, quoted, files, verdict, emptyShard>>

\* The benchmark and snapshot gates; a failing benchmark phase adds a row.
Gates ==
  /\ pc = "gates" /\ pc' = "done"
  /\ \E failed \in SUBSET {"framework"}, closed \in BOOLEAN :
       /\ closed => conf.gates
       /\ extra' = extra \union failed
       /\ status' = TurnRed(failed # {} \/ closed)
  /\ UNCHANGED <<conf, total, accounted, cur, attempt, quoted, files, verdict, emptyShard>>

\* Discovery, the flake history, the snapshot audit and the report are not
\* protected: if one signals, q is left at its console, without completion.
Abort ==
  /\ pc \in {"discover", "merge", "gates"} /\ pc' = "aborted"
  /\ UNCHANGED <<conf, total, accounted, cur, attempt, quoted, files, verdict, tail>>

Over == pc \in {"done", "aborted"} /\ UNCHANGED vars

Parent ==
  \/ Discover \/ SetUpGroup \/ GroupEnded \/ InterpretFile \/ CleanFile \/ Proceed
  \/ RunAgain \/ SerialTry \/ SerialInterpret \/ SerialClean
  \/ Merge \/ RunPlugins \/ Gates

Next == Parent \/ (\E f \in Files : ChildEnds(f)) \/ Abort \/ Over

\* The parent keeps executing; timeout -k ends every child.
Spec ==
  Init /\ [][Next]_vars /\ WF_vars(Parent) /\ \A f \in Files : WF_vars(ChildEnds(f))

-----------------------------------------------------------------------------
Green ==
  /\ extra = {}
  /\ \/ total = 0 /\ emptyShard
     \/ /\ \A f \in 1 .. total : good[f] /\ verdict[f] \subseteq Harmless(f)
        /\ \E f \in 1 .. total :
             verdict[f] # {} /\ (conf.strict => verdict[f] \intersect {"pass", "fail"} # {})

\* Success means that every selected file, as its last child left it, ended by
\* itself with nothing red in its report, that something ran, and that no row
\* of the parent speaks against it: a file that was killed, timed out, exited
\* early, could not be started, read or cleaned, or a report left over from an
\* earlier try never passes for green.  Only an empty file shard has no files.
GreenIsEarned == pc = "done" /\ status = Pass => Green

\* The rows are those of tests, and of nothing that went wrong around them.
Judged(rows) ==
  /\ rows \intersect {"pass", "fail", "skip"} # {}
  /\ rows \intersect ({"load"} \union (ErrorRows \ {"cleanup"})) = {}

\* "Never retry user test failures" (retryableStartupFailure): a file is
\* started a second time only if its child left no complete report, was ended
\* by timeout, or says itself that the file could not be loaded; and the code
\* tries a file at most once in its group and MaxTries times alone.
NeverRerolled ==
  [][\A f \in Files : child[f] = "ended" /\ child'[f] = "running" =>
       /\ f = cur /\ attempt' = attempt + 1 /\ attempt' <= MaxTries
       /\ ~Judged(verdict[f])]_vars

\* The run ends, however its children end and however often q cannot start.
RunEnds == <>(pc \in {"done", "aborted"})

\* Files whose rows are in the table and make the run red.
Red == {f \in 1 .. accounted : verdict[f] \ ({"strict"} \union Harmless(f)) # {}}

Promise == INSTANCE IsolatedVerdict WITH red <- Red

\* The run keeps the promise of module IsolatedVerdict: files enter the table
\* in file order, once, and a red one is never forgotten or repainted.
AccountsInOrder == Promise!Spec
=============================================================================
