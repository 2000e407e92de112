------------------------------- MODULE Ingest -------------------------------
(***************************************************************************)
(* tools/resq_ingest.py: loaders that put the report of a run, and its     *)
(* coverage artifact if asked, into a warehouse of twelve tables.  They    *)
(* read the two files of a directory that later runs overwrite, normalise  *)
(* them (resq_to_tables.py) and insert the rows in one transaction         *)
(* (ingestion_contract.py).  Loaders run side by side and may be killed;   *)
(* the database is SQLite or PostgreSQL.                                   *)
(***************************************************************************)
EXTENDS ReportContract, Sequences, SequencesExt

CONSTANTS
  Loaders,    \* processes of resq_ingest.py
  Dialects,   \* the databases considered
  FileOf,     \* the source file of each site
  Results,    \* what the runs of the directory publish, in their order
  MaxKills,   \* loaders that may be killed
  MaxDrops    \* connections to the server that may be lost

ASSUME IngestAssumption ==
  /\ Dialects \subseteq {"sqlite", "postgres"} /\ IsFiniteSet(Loaders)
  /\ Sites \subseteq DOMAIN FileOf /\ {MaxKills, MaxDrops} \subseteq Nat
  /\ Len(Results) \in Nat /\ DOMAIN Results = 1 .. Len(Results)
  /\ \A i \in DOMAIN Results : Results[i].report.run = i /\ Results[i].artifact.run \in {0, i}

VARIABLES
  dialect,
  published,  \* the files of the directory: the run each is of, 0 for none
  writing,    \* the run between its two files, 0 for none
  created,    \* whether the tables exist
  db,         \* the committed rows of each table, with the loader that inserted them
  load,       \* per loader: where it is, its arguments, what it has read
  exit,       \* per loader: its exit status
  kills, drops

directory == <<published, writing>>
vars == <<dialect, directory, created, db, load, exit, kills, drops>>

Running == -1
Killed  == 137
NoArtifact == [run |-> 0]                  \* of a run that measures no coverage
Final == Len(Results)

-----------------------------------------------------------------------------
(* TABLES: the order of the inserts, and the table a foreign key refers to *)

\* Fault: edges, which refer to sites, come first.
Order_EdgesFirst == <<"runs", "tests", "attempts", "benchmarks", "diagnostics", "coverageRuns",
                      "coverageFiles", "coverageFunctions", "coverageEdges", "coverageSites",
                      "coverageContexts", "coverageContextMetrics">>

Order == <<"runs", "tests", "attempts", "benchmarks", "diagnostics", "coverageRuns",
           "coverageFiles", "coverageFunctions", "coverageSites", "coverageEdges",
           "coverageContexts", "coverageContextMetrics">>
Tables == ToSet(Order)

Refers ==
  [t \in Tables |->
     CASE t = "runs" -> ""
       [] t = "attempts" -> "tests"
       [] t \in {"coverageFunctions", "coverageSites"} -> "coverageFiles"
       [] t = "coverageEdges" -> "coverageSites"
       [] t = "coverageContextMetrics" -> "coverageContexts"
       [] OTHER -> "runs"]

\* A key starts with its run; the parent is the key the foreign key quotes.
Row(key, parent) == [key |-> key, parent |-> parent]
Under(parent, S) == {Row(Append(parent, x), parent) : x \in S}

\* table_contract for a report: a test is known by its execution, an attempt by
\* its number, and a measurement without an identity is passed over.
ReportRows(rep) ==
  LET run == <<rep.run>>  IN
  [runs |-> {Row(run, << >>)},
   tests |-> Under(run, DOMAIN rep.rows),
   attempts |-> UNION {Under(<<rep.run, e>>, 1 .. rep.attempts[e]) : e \in DOMAIN rep.rows},
   benchmarks |-> Under(run, rep.benches),
   diagnostics |-> Under(run, 0 .. rep.diagnostics - 1)]

\* table_contract for an artifact: functions, and the sites and edges that
\* statements and branches have in a file, next to the test contexts.  All keys
\* carry the run of the report.
ArtifactRows(run, art) ==
  LET kept(kinds) == {s \in Sites : FileOf[s] \in art.files /\ KindOf[s] \in kinds}
      file(s) == <<run, FileOf[s]>>
      site(s) == Append(file(s), s)
  IN [coverageRuns |-> {Row(<<run>>, <<run>>)},
      coverageFiles |-> Under(<<run>>, art.files),
      coverageFunctions |-> {Row(site(s), file(s)) : s \in kept({"function"})},
      coverageSites |-> {Row(site(s), file(s)) : s \in kept({"statement", "branch"})},
      coverageEdges |-> UNION {Under(site(s), {0, 1}) : s \in kept({"branch"})},
      coverageContexts |-> Under(<<run>>, DOMAIN art.contexts.hits),
      coverageContextMetrics |->
        UNION {Under(<<run, c>>, art.contexts.metrics[c]) : c \in DOMAIN art.contexts.hits}]

Payload(rep, art) ==
  [t \in Tables |->
     IF t \in DOMAIN ReportRows(rep) THEN ReportRows(rep)[t]
     ELSE IF art = NoArtifact THEN {} ELSE ArtifactRows(rep.run, art)[t]]

\* Fault: the artifact is judged, but not next to the report.
Accepted_Apart(rep, art) ==
  /\ rep.sound /\ SummaryAgrees(rep)
  /\ art # NoArtifact => art.sound

\* The contracts table_contract asks before it makes rows: sound stands for
\* what they ask beyond the relations that matter here.
Accepted(rep, art) ==
  /\ rep.sound /\ SummaryAgrees(rep)
  /\ art # NoArtifact => art.sound /\ BelongsTo(art, rep)

-----------------------------------------------------------------------------
ReportOf(l)   == Results[load[l].report].report
ArtifactOf(l) == IF load[l].coverage = 0 THEN NoArtifact ELSE Results[load[l].coverage].artifact
PayloadOf     == [r \in 1 .. Final |-> [c \in 0 .. Final |->
                    Payload(Results[r].report, IF c = 0 THEN NoArtifact ELSE Results[c].artifact)]]
RowsFor(l)    == PayloadOf[load[l].report][load[l].coverage]

By(l, rows)   == {[key |-> row.key, parent |-> row.parent, by |-> l] : row \in rows}

\* Keys of a table: committed ones, and those a loader has inserted so far.
Committed(t) == {row.key : row \in db[t]}
Inserted(l)  == {Order[i] : i \in 1 .. load[l].next - 1}
Staged(l, t) == IF t \in Inserted(l) THEN {row.key : row \in RowsFor(l)[t]} ELSE {}

At(l, stage) == load[l].at = stage
Goto(l, stage) == load' = [load EXCEPT ![l].at = stage]
Others(l) == Loaders \ {l}

\* SQLite has one writer at a time, from its first insert to the commit.
Inserting(l) == At(l, "insert") /\ load[l].next > 1
LockFree(l) == \A k \in Others(l) : ~Inserting(k)

\* In PostgreSQL a key that another transaction has inserted must be waited for.
KeyFree(l, t) ==
  \A k \in Others(l) : At(k, "insert") => Staged(k, t) \intersect {row.key : row \in RowsFor(l)[t]} = {}

Init ==
  /\ dialect \in Dialects
  /\ published = [report |-> 0, coverage |-> 0] /\ writing = 0
  /\ created = FALSE /\ db = [t \in Tables |-> {}]
  /\ load = [l \in Loaders |-> [at |-> "idle", wants |-> FALSE, report |-> 0, coverage |-> 0,
                                next |-> 1]]
  /\ exit = [l \in Loaders |-> Running]
  /\ kills = 0 /\ drops = 0

\* A run writes its coverage artifact, if it measures any, and then its report;
\* without coverage the artifact of an earlier run stays where it is.
BeginRun ==
  /\ writing = 0 /\ published.report < Final
  /\ writing' = published.report + 1
  /\ published' = IF Results[writing'].artifact = NoArtifact THEN published
                  ELSE [published EXCEPT !.coverage = writing']
  /\ UNCHANGED <<dialect, created, db, load, exit, kills, drops>>

EndRun ==
  /\ writing # 0
  /\ published' = [published EXCEPT !.report = writing] /\ writing' = 0
  /\ UNCHANGED <<dialect, created, db, load, exit, kills, drops>>

-----------------------------------------------------------------------------
Ends(l, status) ==
  /\ exit' = [exit EXCEPT ![l] = status]
  /\ Goto(l, "ended")

\* An exception: the transaction, if one is open, is rolled back.
Fails(l) == Ends(l, 1) /\ UNCHANGED <<created, db>>

Quiet == UNCHANGED <<dialect, directory, kills, drops>>

\* main: --coverage may be given or not.
Start(l) ==
  /\ At(l, "idle")
  /\ \E wants \in BOOLEAN : load' = [load EXCEPT ![l].at = "report", ![l].wants = wants]
  /\ UNCHANGED <<created, db, exit>> /\ Quiet

ReadReport(l) ==
  /\ At(l, "report") /\ Quiet
  /\ \/ published.report = 0 /\ Fails(l)
     \/ /\ published.report # 0
        /\ load' = [load EXCEPT ![l].report = published.report, ![l].at = "coverage"]
        /\ UNCHANGED <<created, db, exit>>

ReadCoverage(l) ==
  /\ At(l, "coverage") /\ Quiet
  /\ \/ load[l].wants /\ published.coverage = 0 /\ Fails(l)
     \/ /\ load[l].wants => published.coverage # 0
        /\ load' = [load EXCEPT ![l].coverage = IF load[l].wants THEN published.coverage ELSE 0,
                                ![l].at = "normalise"]
        /\ UNCHANGED <<created, db, exit>>

Normalise(l) ==
  /\ At(l, "normalise") /\ Quiet
  /\ \/ ~Accepted(ReportOf(l), ArtifactOf(l)) /\ Fails(l)
     \/ /\ Accepted(ReportOf(l), ArtifactOf(l))
        /\ Goto(l, "ddl") /\ UNCHANGED <<created, db, exit>>

\* execute_ddl.  SQLite commits every CREATE TABLE by itself; as nobody touches
\* a table before all exist, and each is made IF NOT EXISTS, they are one step.
CreateTables(l) ==
  /\ At(l, "ddl") /\ Quiet
  /\ dialect = "sqlite" /\ ~created => LockFree(l)
  /\ created' = TRUE
  /\ Goto(l, "validate") /\ UNCHANGED <<db, exit>>

\* Two sessions that create one table: the second fails although it said IF NOT
\* EXISTS.
LosesDdlRace(l) ==
  /\ dialect = "postgres" /\ At(l, "ddl") /\ created
  /\ \E k \in Others(l) : load[k].at \in {"validate", "insert"}
  /\ Fails(l) /\ Quiet

\* validate_payload: a required column without a value.
ValidatePayload(l) ==
  /\ At(l, "validate") /\ Quiet
  /\ \/ ReportOf(l).blank /\ Fails(l)
     \/ ~ReportOf(l).blank /\ Goto(l, "insert") /\ UNCHANGED <<created, db, exit>>

\* The wait for the lock of SQLite has a limit.
Busy(l) ==
  /\ dialect = "sqlite" /\ ~LockFree(l)
  /\ \/ At(l, "ddl") /\ ~created
     \/ At(l, "insert") /\ load[l].next = 1
  /\ Fails(l) /\ Quiet

\* The table whose turn it is.
Due(l) == {Order[i] : i \in {load[l].next} \intersect 1 .. Len(Order)}

\* A row of t holds a value that the database does not take although every check
\* has let it pass: a date that is none, a text with a NUL, a number too large.
Refuses(l, t) == <<dialect, t>> \in ReportOf(l).refused

\* Primary and foreign keys of the rows that the next insert adds.
KeysHold(l, t) ==
  \A row \in RowsFor(l)[t] :
    /\ row.key \notin Committed(t)
    /\ Refers[t] # "" => row.parent \in Committed(Refers[t]) \union Staged(l, Refers[t])

\* load_payload: one table after the other, inside one transaction.
InsertTable(l) ==
  /\ At(l, "insert") /\ load[l].next =< Len(Order) /\ Quiet
  /\ dialect = "sqlite" => LockFree(l)
  /\ LET t == Order[load[l].next]  IN
       /\ dialect = "postgres" => KeyFree(l, t)
       /\ \/ (~KeysHold(l, t) \/ Refuses(l, t)) /\ Fails(l)
          \/ /\ KeysHold(l, t) /\ ~Refuses(l, t)
             /\ load' = [load EXCEPT ![l].next = @ + 1] /\ UNCHANGED <<created, db, exit>>

\* What the warehouse holds once the rows inserted so far are committed.
Loaded(l) ==
  [t \in Tables |-> db[t] \union
     (IF t \in Inserted(l) THEN By(l, RowsFor(l)[t]) ELSE {})]

\* Fault: the connection is closed without a commit.
Commit_Forgotten(l) ==
  /\ At(l, "insert") /\ load[l].next > Len(Order)
  /\ Ends(l, 0) /\ UNCHANGED <<created, db>> /\ Quiet

Commit(l) ==
  /\ At(l, "insert") /\ load[l].next > Len(Order)
  /\ db' = Loaded(l) /\ Ends(l, 0)
  /\ UNCHANGED created /\ Quiet

-----------------------------------------------------------------------------
\* A loader that is cut off: before its commit nothing is kept, while that is
\* under way either may be the case.
AtCommit(l) ==
  IF At(l, "insert") /\ load[l].next > Len(Order) THEN {db, Loaded(l)} ELSE {db}

LosesConnection(l) ==
  /\ dialect = "postgres" /\ drops < MaxDrops /\ load[l].at \in {"ddl", "validate", "insert"}
  /\ drops' = drops + 1
  /\ db' \in AtCommit(l)
  /\ Ends(l, 1) /\ UNCHANGED <<dialect, directory, created, kills>>

Kill(l) ==
  /\ exit[l] = Running /\ ~At(l, "idle") /\ kills < MaxKills
  /\ kills' = kills + 1
  /\ db' \in AtCommit(l)
  /\ Ends(l, Killed) /\ UNCHANGED <<dialect, directory, created, drops>>

Load(l) ==
  \/ ReadReport(l) \/ ReadCoverage(l) \/ Normalise(l)
  \/ CreateTables(l) \/ LosesDdlRace(l)
  \/ ValidatePayload(l) \/ Busy(l) \/ InsertTable(l) \/ Commit(l)

Ended == \A l \in Loaders : exit[l] # Running
Done == Ended /\ writing = 0 /\ published.report = Final /\ UNCHANGED vars

Next ==
  \/ BeginRun \/ EndRun
  \/ \E l \in Loaders : Start(l) \/ Load(l) \/ LosesConnection(l) \/ Kill(l)
  \/ Done

Spec == Init /\ [][Next]_vars
-----------------------------------------------------------------------------
\* A run is in the warehouse as a whole or not at all: the rows of its report,
\* with all those of its own artifact or without any, from a single load.  No
\* killed, failed, repeated or concurrent load leaves anything else.
RunsAreWhole ==
  \A r \in 1 .. Final :
    LET of(t) == {row \in db[t] : row.key[1] = r}
        loads(l, c) == \A t \in Tables : of(t) = By(l, PayloadOf[r][c][t])
    IN \/ \A t \in Tables : of(t) = {}
       \/ \E l \in Loaders, c \in {0, r} : loads(l, c)

\* Exit 0 means that everything the loader read is in the warehouse and stays
\* there; with SQLite exit 1 means that the loader added nothing.  (A server may
\* have committed when the connection broke.)
ExitTellsTheTruth ==
  \A l \in Loaders :
    LET mine(t) == {row.key : row \in {x \in db[t] : x.by = l}}
    IN /\ exit[l] = 0 => \A t \in Tables : mine(t) = {row.key : row \in RowsFor(l)[t]}
       /\ exit[l] = 1 /\ dialect = "sqlite" => \A t \in Tables : mine(t) = {}

\* Rows that the contracts accept fit together: from there on a loader fails only
\* for a missing value, one that the database refuses as it comes to insert it,
\* a run that is already there, another loader at work or a lost connection,
\* never for a row that finds no parent or no free key.
AcceptedCanBeLoaded ==
  [][\A l \in Loaders :
       /\ load[l].at \in {"ddl", "validate", "insert"} /\ exit'[l] = 1
       => \/ ReportOf(l).blank \/ <<ReportOf(l).run>> \in Committed("runs")
          \/ At(l, "insert") /\ \E t \in Due(l) : Refuses(l, t)
          \/ \E k \in Others(l) : load[k].at \in {"ddl", "validate", "insert"}
          \/ drops' # drops]_vars
=============================================================================
