---------------------------- MODULE Ingest_proof ----------------------------
(***************************************************************************)
(* Theorems about Ingest: for any number of loaders, published runs, kills *)
(* and lost connections, runs are in the warehouse as a whole or not at    *)
(* all, an exit status tells what was added, and what the contracts accept *)
(* can be loaded.  The row of the table runs, which is inserted first, is  *)
(* what keeps two loaders of one run apart: whoever is past it holds a run *)
(* that nobody else holds or has committed (Apart).                        *)
(***************************************************************************)
EXTENDS Ingest, SequenceTheorems, TLAPS

CoverageTables == {"coverageRuns", "coverageFiles", "coverageFunctions", "coverageSites",
                   "coverageEdges", "coverageContexts", "coverageContextMetrics"}
ReportTables   == {"runs", "tests", "attempts", "benchmarks", "diagnostics"}

Twelve == {1, 2, 3, 4, 5, 6, 7, 8, 9, 10, 11, 12}

LEMMA OneToTwelve == \A i \in 1 .. 12 : i \in Twelve
BY DEF Twelve

LEMMA OrderFacts ==
  /\ Tables = ReportTables \union CoverageTables
  /\ Len(Order) = 12 /\ Order[1] = "runs"
  /\ \A i \in 1 .. 12 : Order[i] \in Tables
  /\ Tables = {Order[i] : i \in 1 .. 12}
<1>1. Len(Order) = 12 /\ DOMAIN Order = 1 .. 12
  BY DEF Order
<1>2. Tables = {Order[i] : i \in 1 .. 12}
  BY <1>1 DEF Tables, ToSet
<1>3. /\ Order[1] = "runs" /\ Order[2] = "tests" /\ Order[3] = "attempts"
      /\ Order[4] = "benchmarks" /\ Order[5] = "diagnostics" /\ Order[6] = "coverageRuns"
      /\ Order[7] = "coverageFiles" /\ Order[8] = "coverageFunctions"
      /\ Order[9] = "coverageSites" /\ Order[10] = "coverageEdges"
      /\ Order[11] = "coverageContexts" /\ Order[12] = "coverageContextMetrics"
  BY DEF Order
<1>4. \A i \in 1 .. 12 : i \in Twelve
  BY OneToTwelve
<1>5. \A i \in 1 .. 12 : Order[i] \in ReportTables \union CoverageTables
  BY <1>3, <1>4 DEF Twelve, ReportTables, CoverageTables
<1>6. ReportTables \union CoverageTables \subseteq {Order[i] : i \in 1 .. 12}
  BY <1>3 DEF ReportTables, CoverageTables
<1> QED BY <1>1, <1>2, <1>3, <1>5, <1>6

\* A foreign key refers to a table that is filled earlier.
LEMMA ParentsFirst ==
  ASSUME NEW n \in 1 .. 12, Refers[Order[n]] # ""
  PROVE  \E m \in 1 .. n - 1 : Order[m] = Refers[Order[n]]
<1>1. /\ Order[1] = "runs" /\ Order[2] = "tests" /\ Order[3] = "attempts"
      /\ Order[4] = "benchmarks" /\ Order[5] = "diagnostics" /\ Order[6] = "coverageRuns"
      /\ Order[7] = "coverageFiles" /\ Order[8] = "coverageFunctions"
      /\ Order[9] = "coverageSites" /\ Order[10] = "coverageEdges"
      /\ Order[11] = "coverageContexts" /\ Order[12] = "coverageContextMetrics"
  BY DEF Order
<1>2. Order[n] \in Tables
  BY OrderFacts
<1>3. \/ Order[n] = "runs" /\ Refers[Order[n]] = ""
      \/ Order[n] = "attempts" /\ Refers[Order[n]] = "tests"
      \/ Order[n] \in {"coverageFunctions", "coverageSites"} /\ Refers[Order[n]] = "coverageFiles"
      \/ Order[n] = "coverageEdges" /\ Refers[Order[n]] = "coverageSites"
      \/ Order[n] = "coverageContextMetrics" /\ Refers[Order[n]] = "coverageContexts"
      \/ Order[n] # "runs" /\ Refers[Order[n]] = "runs"
  BY <1>2 DEF Refers
<1>4. \A i \in 1 .. 12 : i \in Twelve
  BY OneToTwelve
<1>5. CASE Order[n] # "runs" /\ Refers[Order[n]] = "runs"
  <2>1. n # 1
    BY <1>1, <1>5
  <2> QED BY <1>1, <1>5, <2>1
<1>6. CASE Order[n] = "attempts" /\ Refers[Order[n]] = "tests"
  <2>1. n = 3
    BY <1>1, <1>4, <1>6 DEF Twelve
  <2> QED BY <1>1, <1>6, <2>1
<1>7. CASE Order[n] \in {"coverageFunctions", "coverageSites"} /\ Refers[Order[n]] = "coverageFiles"
  <2>1. n = 8 \/ n = 9
    BY <1>1, <1>4, <1>7 DEF Twelve
  <2>2. CASE n = 8
    BY <1>1, <1>7, <2>2
  <2>3. CASE n = 9
    BY <1>1, <1>7, <2>3
  <2> QED BY <2>1, <2>2, <2>3
<1>8. CASE Order[n] = "coverageEdges" /\ Refers[Order[n]] = "coverageSites"
  <2>1. n = 10
    BY <1>1, <1>4, <1>8 DEF Twelve
  <2> QED BY <1>1, <1>8, <2>1
<1>9. CASE Order[n] = "coverageContextMetrics" /\ Refers[Order[n]] = "coverageContexts"
  <2>1. n = 12
    BY <1>1, <1>4, <1>9 DEF Twelve
  <2> QED BY <1>1, <1>9, <2>1
<1> QED BY <1>3, <1>5, <1>6, <1>7, <1>8, <1>9

\* The rows of a table come from the report or from the artifact.
LEMMA PayloadRows ==
  ASSUME NEW rep, NEW art
  PROVE  /\ \A t \in ReportTables : Payload(rep, art)[t] = ReportRows(rep)[t]
         /\ \A t \in CoverageTables :
              Payload(rep, art)[t] = IF art = NoArtifact THEN {} ELSE ArtifactRows(rep.run, art)[t]
<1>1. DOMAIN ReportRows(rep) = ReportTables
  BY DEF ReportRows, ReportTables
<1>2. \A t \in CoverageTables : t \notin ReportTables
  BY DEF ReportTables, CoverageTables
<1>3. Tables = ReportTables \union CoverageTables
  BY OrderFacts
<1> QED BY <1>1, <1>2, <1>3 DEF Payload

\* Keys start with their run, and the parent of a row is a row of the payload.
RowsLinked(p, r) ==
  /\ p["runs"] = {Row(<<r>>, << >>)}
  /\ \A t \in Tables : \A row \in p[t] : row.key[1] = r
  /\ \A t \in Tables : Refers[t] # "" =>
       \A row \in p[t] : \E parent \in p[Refers[t]] : parent.key = row.parent

LEMMA UnderRows ==
  \A parent, S : \A row \in Under(parent, S) :
    row.parent = parent /\ \E x : row.key = Append(parent, x)
BY DEF Under, Row

LEMMA AppendKey ==
  ASSUME NEW r, NEW x
  PROVE  Append(<<r>>, x) = <<r, x>>
<1> DEFINE S == {r, x}
<1>1. <<r>> \in Seq(S) /\ <<r, x>> \in Seq(S)
  OBVIOUS
<1>2. Append(<<r>>, x) \in Seq(S) /\ Len(Append(<<r>>, x)) = 2 /\ Len(<<r, x>>) = 2
  BY <1>1
<1>3. Append(<<r>>, x)[1] = r /\ Append(<<r>>, x)[2] = x
  BY <1>1
<1>4. \A i \in 1 .. 2 : Append(<<r>>, x)[i] = <<r, x>>[i]
  BY <1>3
<1> QED BY <1>1, <1>2, <1>4, SeqEqual

LEMMA ReportKeys ==
  ASSUME NEW rep, NEW t \in ReportTables, NEW row \in ReportRows(rep)[t]
  PROVE  /\ row.key[1] = rep.run
         /\ t = "attempts" => \E e \in DOMAIN rep.rows : row.parent = <<rep.run, e>>
         /\ t \notin {"runs", "attempts"} => row.parent = <<rep.run>>
<1>1. CASE t = "runs"
  BY <1>1 DEF ReportRows, Row
<1>2. CASE t = "attempts"
  <2>1. PICK e \in DOMAIN rep.rows : row \in Under(<<rep.run, e>>, 1 .. rep.attempts[e])
    BY <1>2 DEF ReportRows
  <2>2. row.parent = <<rep.run, e>> /\ \E x : row.key = Append(<<rep.run, e>>, x)
    BY <2>1, UnderRows
  <2>3. row.key[1] = rep.run
    BY <2>2
  <2> QED BY <1>2, <2>2, <2>3
<1>3. CASE t \in {"tests", "benchmarks", "diagnostics"}
  <2>1. \E S : row \in Under(<<rep.run>>, S)
    BY <1>3 DEF ReportRows
  <2>2. row.parent = <<rep.run>> /\ \E x : row.key = Append(<<rep.run>>, x)
    BY <2>1, UnderRows
  <2>3. row.key[1] = rep.run
    BY <2>2
  <2> QED BY <1>3, <2>2, <2>3
<1> QED BY <1>1, <1>2, <1>3 DEF ReportTables

LEMMA ArtifactKeys ==
  ASSUME NEW run, NEW art, NEW t \in CoverageTables, NEW row \in ArtifactRows(run, art)[t]
  PROVE  /\ row.key[1] = run
         /\ Refers[t] = "runs" => row.parent = <<run>>
         /\ Refers[t] # "runs" => \E parent \in ArtifactRows(run, art)[Refers[t]] :
                                    parent.key = row.parent
<1> DEFINE kept(kinds) == {s \in Sites : FileOf[s] \in art.files /\ KindOf[s] \in kinds}
           file(s) == <<run, FileOf[s]>>
           site(s) == Append(file(s), s)
<1>1. \A s : site(s)[1] = run
  OBVIOUS
<1>2. CASE t = "coverageRuns"
  <2>1. row.parent = <<run>> /\ row.key = <<run>>
    BY <1>2 DEF ArtifactRows, Row
  <2>2. Refers[t] = "runs"
    BY <1>2, OrderFacts DEF Refers, CoverageTables
  <2> QED BY <2>1, <2>2
<1>3. CASE t \in {"coverageFiles", "coverageContexts"}
  <2>1. \E S : row \in Under(<<run>>, S)
    BY <1>3 DEF ArtifactRows
  <2>2. row.parent = <<run>> /\ \E x : row.key = Append(<<run>>, x)
    BY <2>1, UnderRows
  <2>3. Refers[t] = "runs"
    BY <1>3, OrderFacts DEF Refers, CoverageTables
  <2>4. row.key[1] = run
    BY <2>2
  <2> QED BY <2>2, <2>3, <2>4
<1>4. CASE t \in {"coverageFunctions", "coverageSites"}
  <2>1. PICK s \in Sites : FileOf[s] \in art.files /\ row = Row(site(s), file(s))
    BY <1>4 DEF ArtifactRows
  <2>2. row.key = site(s) /\ row.parent = file(s)
    BY <2>1 DEF Row
  <2>3. Refers[t] = "coverageFiles"
    BY <1>4, OrderFacts DEF Refers, CoverageTables
  <2>4. Row(Append(<<run>>, FileOf[s]), <<run>>) \in ArtifactRows(run, art)["coverageFiles"]
    BY <2>1 DEF ArtifactRows, Under
  <2>5. Row(Append(<<run>>, FileOf[s]), <<run>>).key = file(s)
    BY AppendKey DEF Row
  <2> QED BY <1>1, <2>2, <2>3, <2>4, <2>5
<1>5. CASE t = "coverageEdges"
  <2>1. PICK s \in kept({"branch"}) : row \in Under(site(s), {0, 1})
    BY <1>5 DEF ArtifactRows
  <2>2. row.parent = site(s) /\ \E x : row.key = Append(site(s), x)
    BY <2>1, UnderRows
  <2>3. Refers[t] = "coverageSites"
    BY <1>5, OrderFacts DEF Refers, CoverageTables
  <2>4. Row(site(s), file(s)) \in ArtifactRows(run, art)["coverageSites"]
    BY <2>1 DEF ArtifactRows
  <2>5. Row(site(s), file(s)).key = site(s)
    BY DEF Row
  <2>6. row.key[1] = run
    <3>1. PICK x : row.key = Append(site(s), x)
      BY <2>2
    <3>2. site(s) \in Seq({run, FileOf[s], s, x}) /\ Len(site(s)) = 3
      OBVIOUS
    <3> QED BY <1>1, <3>1, <3>2
  <2> QED BY <2>2, <2>3, <2>4, <2>5, <2>6
<1>6. CASE t = "coverageContextMetrics"
  <2>1. PICK c \in DOMAIN art.contexts.hits : \E S : row \in Under(<<run, c>>, S)
    BY <1>6 DEF ArtifactRows
  <2>2. row.parent = <<run, c>> /\ \E x : row.key = Append(<<run, c>>, x)
    BY <2>1, UnderRows
  <2>3. Refers[t] = "coverageContexts"
    BY <1>6, OrderFacts DEF Refers, CoverageTables
  <2>4. Row(Append(<<run>>, c), <<run>>) \in ArtifactRows(run, art)["coverageContexts"]
    BY <2>1 DEF ArtifactRows, Under
  <2>5. Row(Append(<<run>>, c), <<run>>).key = <<run, c>>
    BY AppendKey DEF Row
  <2>6. row.key[1] = run
    BY <2>2
  <2> QED BY <2>2, <2>3, <2>4, <2>5, <2>6
<1> QED BY <1>2, <1>3, <1>4, <1>5, <1>6 DEF CoverageTables

LEMMA PayloadLinked ==
  ASSUME NEW rep, NEW art
  PROVE  RowsLinked(Payload(rep, art), rep.run)
<1> DEFINE p == Payload(rep, art)
<1>1. /\ \A t \in ReportTables : p[t] = ReportRows(rep)[t]
      /\ \A t \in CoverageTables :
           p[t] = IF art = NoArtifact THEN {} ELSE ArtifactRows(rep.run, art)[t]
  BY PayloadRows
<1>2. Tables = ReportTables \union CoverageTables
  BY OrderFacts
<1>3. p["runs"] = {Row(<<rep.run>>, << >>)}
  BY <1>1 DEF ReportRows, ReportTables
<1>4. Row(<<rep.run>>, << >>) \in p["runs"] /\ Row(<<rep.run>>, << >>).key = <<rep.run>>
  BY <1>3 DEF Row
<1> HIDE DEF p
<1>5. ASSUME NEW t \in ReportTables, NEW row \in p[t]
      PROVE  /\ row.key[1] = rep.run
             /\ Refers[t] # "" => \E parent \in p[Refers[t]] : parent.key = row.parent
  <2>1. /\ row.key[1] = rep.run
        /\ t = "attempts" => \E e \in DOMAIN rep.rows : row.parent = <<rep.run, e>>
        /\ t \notin {"runs", "attempts"} => row.parent = <<rep.run>>
    BY <1>1, <1>5, ReportKeys
  <2>2. CASE t = "runs"
    BY <1>2, <2>1, <2>2 DEF Refers
  <2>3. CASE t = "attempts"
    <3>1. PICK e \in DOMAIN rep.rows : row.parent = <<rep.run, e>>
      BY <2>1, <2>3
    <3>2. Row(Append(<<rep.run>>, e), <<rep.run>>) \in ReportRows(rep)["tests"]
      BY <3>1 DEF ReportRows, Under
    <3>3. Row(Append(<<rep.run>>, e), <<rep.run>>).key = <<rep.run, e>>
      BY AppendKey DEF Row
    <3>4. Refers[t] = "tests" /\ "tests" \in ReportTables
      BY <1>2, <2>3 DEF Refers, ReportTables
    <3> QED BY <1>1, <2>1, <3>1, <3>2, <3>3, <3>4
  <2>4. CASE t \notin {"runs", "attempts"}
    <3>1. Refers[t] = "runs"
      BY <1>2, <2>4 DEF Refers, ReportTables
    <3> QED BY <1>4, <2>1, <2>4, <3>1
  <2> QED BY <2>2, <2>3, <2>4
<1>6. ASSUME NEW t \in CoverageTables, NEW row \in p[t]
      PROVE  /\ row.key[1] = rep.run
             /\ Refers[t] # "" => \E parent \in p[Refers[t]] : parent.key = row.parent
  <2>1. art # NoArtifact /\ row \in ArtifactRows(rep.run, art)[t]
    BY <1>1, <1>6
  <2>2. /\ row.key[1] = rep.run
        /\ Refers[t] = "runs" => row.parent = <<rep.run>>
        /\ Refers[t] # "runs" => \E parent \in ArtifactRows(rep.run, art)[Refers[t]] :
                                   parent.key = row.parent
    BY <2>1, ArtifactKeys
  <2>3. Refers[t] = "runs" \/ Refers[t] \in CoverageTables
    BY <1>2 DEF Refers, CoverageTables
  <2> QED BY <1>1, <1>4, <2>1, <2>2, <2>3
<1> QED BY <1>2, <1>3, <1>5, <1>6 DEF RowsLinked, p
-----------------------------------------------------------------------------
(* The payload a loader holds. *)

LEMMA Runs ==
  /\ Final \in Nat
  /\ \A i \in 1 .. Final : Results[i].report.run = i /\ Results[i].artifact.run \in {0, i}
BY IngestAssumption DEF Final

LEMMA HeldPayload ==
  ASSUME NEW r \in 1 .. Final, NEW c \in 0 .. Final
  PROVE  RowsLinked(PayloadOf[r][c], r)
<1>1. PayloadOf[r][c] = Payload(Results[r].report, IF c = 0 THEN NoArtifact ELSE Results[c].artifact)
  BY DEF PayloadOf
<1>2. RowsLinked(PayloadOf[r][c], Results[r].report.run)
  BY <1>1, PayloadLinked
<1> QED BY <1>2, Runs

\* What is accepted is a report alone or with the artifact of its own run.
LEMMA OwnArtifact ==
  ASSUME NEW r \in 1 .. Final, NEW c \in 0 .. Final,
         Accepted(Results[r].report, IF c = 0 THEN NoArtifact ELSE Results[c].artifact)
  PROVE  \E own \in {0, r} : PayloadOf[r][c] = PayloadOf[r][own]
<1>1. CASE c = 0
  BY <1>1
<1>2. CASE c # 0 /\ Results[c].artifact = NoArtifact
  <2>1. 0 \in 0 .. Final
    BY Runs
  <2>2. PayloadOf[r][c] = PayloadOf[r][0]
    BY <1>2, <2>1 DEF PayloadOf
  <2> QED BY <2>2
<1>3. CASE c # 0 /\ Results[c].artifact # NoArtifact
  <2>1. Results[c].artifact.run = Results[r].report.run
    BY <1>3 DEF Accepted, BelongsTo
  <2>2. c \in 1 .. Final
    BY <1>3, Runs
  <2>3. c = r
    BY <2>1, <2>2, Runs
  <2> QED BY <2>3
<1> QED BY <1>1, <1>2, <1>3
-----------------------------------------------------------------------------
(* The invariant. *)

Before == {"idle", "report", "coverage", "normalise"}
Beyond == {"ddl", "validate", "insert"}         \* accepted by the contracts
Loads  == [at : Before \union Beyond \union {"ended"}, wants : BOOLEAN,
           report : 0 .. Final, coverage : 0 .. Final, next : 1 .. 13]

TypeOK ==
  /\ dialect \in {"sqlite", "postgres"}
  /\ published \in [report : 0 .. Final, coverage : 0 .. Final] /\ writing \in 0 .. Final
  /\ load \in [Loaders -> Loads]
  /\ exit \in [Loaders -> {Running, 0, 1, Killed}]
  /\ DOMAIN db = Tables
  /\ \A t \in Tables : \A row \in db[t] : row.by \in Loaders

\* What a loader has put into a table.
Mine(l, t) == {row \in db[t] : row.by = l}
Has(l) == Mine(l, "runs") # {}

\* Where a loader is tells what it knows of the report it reads.
Knows(l) ==
  /\ exit[l] = Running <=> ~At(l, "ended")
  /\ load[l].at \notin {"insert", "ended"} => load[l].next = 1
  /\ load[l].at \in {"coverage", "normalise"} \union Beyond => load[l].report # 0
  /\ load[l].at \in Beyond \/ Has(l) =>
       load[l].report # 0 /\ Accepted(ReportOf(l), ArtifactOf(l))

\* What it has added, at each of its exits.
Added(l) ==
  /\ \/ \A t \in Tables : Mine(l, t) = {}
     \/ Has(l) /\ \A t \in Tables : Mine(l, t) = By(l, RowsFor(l)[t])
  /\ exit[l] = Running => \A t \in Tables : Mine(l, t) = {}
  /\ exit[l] = 0 => Has(l)
  /\ exit[l] = 1 /\ dialect = "sqlite" => ~Has(l)

\* A loader that is past the table runs, or has committed, holds its run alone.
Holds(l) == Inserting(l) \/ Has(l)
Apart == \A l, k \in Loaders : l # k /\ Holds(l) /\ Holds(k) => load[l].report # load[k].report

Inv == (\A l \in Loaders : Knows(l) /\ Added(l)) /\ Apart
-----------------------------------------------------------------------------
(* Type correctness. *)

LEMMA LoadedRows ==
  ASSUME NEW l \in Loaders, TypeOK
  PROVE  /\ DOMAIN Loaded(l) = Tables
         /\ \A t \in Tables : \A row \in Loaded(l)[t] : row.by \in Loaders
<1>1. \A rows : \A row \in By(l, rows) : row.by = l
  BY DEF By
<1> QED BY <1>1 DEF Loaded, TypeOK

LEMMA TypeInit == Init => TypeOK
BY IngestAssumption, Runs DEF Init, TypeOK, Loads, Before

LEMMA TypeStep == TypeOK /\ [Next]_vars => TypeOK'
<1> SUFFICES ASSUME TypeOK, [Next]_vars PROVE TypeOK'
  OBVIOUS
<1> USE Runs DEF TypeOK
<1>1. CASE BeginRun
  <2>1. published' \in [report : 0 .. Final, coverage : 0 .. Final] /\ writing' \in 0 .. Final
    BY <1>1 DEF BeginRun
  <2> QED BY <1>1, <2>1 DEF BeginRun
<1>2. CASE EndRun
  BY <1>2 DEF EndRun
<1>3. ASSUME NEW l \in Loaders, Start(l) PROVE TypeOK'
  <2>1. PICK wants \in BOOLEAN : load' = [load EXCEPT ![l].at = "report", ![l].wants = wants]
    BY <1>3 DEF Start
  <2>2. [load[l] EXCEPT !.at = "report", !.wants = wants] \in Loads
    <3>1. PICK old \in Loads : old = load[l]
      OBVIOUS
    <3>2. [old EXCEPT !.at = "report"] \in Loads
      BY <3>1 DEF Loads, Before
    <3>3. \A x \in Loads : [x EXCEPT !.wants = wants] \in Loads
      BY DEF Loads
    <3>4. [old EXCEPT !.at = "report", !.wants = wants]
            = [[old EXCEPT !.at = "report"] EXCEPT !.wants = wants]
      OBVIOUS
    <3> QED BY <3>1, <3>2, <3>3, <3>4
  <2>3. load' \in [Loaders -> Loads]
    BY <2>1, <2>2
  <2>4. UNCHANGED <<dialect, published, writing, created, db, exit>>
    BY <1>3 DEF Start, Quiet, directory
  <2> QED BY <2>3, <2>4
<1>4. ASSUME NEW l \in Loaders, Load(l) PROVE TypeOK'
  <2> USE DEF Quiet, directory, Fails, Ends, Goto, Loads, Before, Beyond, Killed, Running
  <2>1. CASE ReadReport(l)
    BY <2>1 DEF ReadReport
  <2>2. CASE ReadCoverage(l)
    BY <2>2 DEF ReadCoverage
  <2>3. CASE Normalise(l)
    BY <2>3 DEF Normalise
  <2>4. CASE CreateTables(l)
    BY <2>4 DEF CreateTables
  <2>5. CASE LosesDdlRace(l)
    BY <2>5 DEF LosesDdlRace
  <2>6. CASE ValidatePayload(l)
    BY <2>6 DEF ValidatePayload
  <2>7. CASE Busy(l)
    BY <2>7 DEF Busy
  <2>8. CASE InsertTable(l)
    <3>1. load[l].next + 1 \in 1 .. 13
      BY <2>8, OrderFacts DEF InsertTable
    <3>2. /\ \/ load' = [load EXCEPT ![l].next = @ + 1] /\ exit' = exit
             \/ load' = [load EXCEPT ![l].at = "ended"] /\ exit' = [exit EXCEPT ![l] = 1]
          /\ UNCHANGED <<dialect, published, writing, db>>
      BY <2>8 DEF InsertTable
    <3>3. load' \in [Loaders -> Loads]
      BY <3>1, <3>2
    <3>4. exit' \in [Loaders -> {Running, 0, 1, Killed}]
      BY <3>2
    <3> QED BY <3>2, <3>3, <3>4
  <2>9. CASE Commit(l)
    <3>1. db' = Loaded(l)
      BY <2>9 DEF Commit
    <3>2. DOMAIN db' = Tables /\ \A t \in Tables : \A row \in db'[t] : row.by \in Loaders
      BY <3>1, LoadedRows
    <3>3. load' = [load EXCEPT ![l].at = "ended"] /\ exit' = [exit EXCEPT ![l] = 0]
      BY <2>9 DEF Commit
    <3>4. load' \in [Loaders -> Loads]
      BY <3>3
    <3>5. exit' \in [Loaders -> {Running, 0, 1, Killed}]
      BY <3>3
    <3> QED BY <2>9, <3>2, <3>4, <3>5 DEF Commit
  <2> QED BY <1>4, <2>1, <2>2, <2>3, <2>4, <2>5, <2>6, <2>7, <2>8, <2>9 DEF Load
<1>5. ASSUME NEW l \in Loaders, LosesConnection(l) \/ Kill(l) PROVE TypeOK'
  <2>1. db' = db \/ db' = Loaded(l)
    BY <1>5 DEF LosesConnection, Kill, AtCommit
  <2>2. DOMAIN db' = Tables /\ \A t \in Tables : \A row \in db'[t] : row.by \in Loaders
    BY <2>1, LoadedRows
  <2>3. load' \in [Loaders -> Loads] /\ exit' \in [Loaders -> {Running, 0, 1, Killed}]
    BY <1>5 DEF LosesConnection, Kill, Ends, Goto, Loads
  <2>4. UNCHANGED <<dialect, directory>>
    BY <1>5 DEF LosesConnection, Kill
  <2> QED BY <2>2, <2>3, <2>4 DEF directory
<1>6. CASE UNCHANGED vars
  BY <1>6 DEF vars, directory
<1> QED BY <1>1, <1>2, <1>3, <1>4, <1>5, <1>6 DEF Next, Done

\* Whatever the loaders and runs do, every variable keeps its type.
THEOREM TypeCorrect == Spec => []TypeOK
BY TypeInit, TypeStep, PTL DEF Spec
-----------------------------------------------------------------------------
(* The invariant is inductive.  Steps of a loader leave the others alone     *)
(* (Kept), and are one of three: it advances, it stops, it publishes.        *)

Kept(k) ==
  /\ load'[k] = load[k] /\ exit'[k] = exit[k] /\ dialect' = dialect
  /\ \A t \in Tables : Mine(k, t)' = Mine(k, t)

\* The run of l is not that of another loader that holds one.
Alone(l) == \A k \in Others(l) : Holds(k) => load[k].report # load'[l].report

Good(l) ==
  /\ \A k \in Others(l) : Kept(k)
  /\ Knows(l)' /\ Added(l)'
  /\ Holds(l)' => Alone(l)

LEMMA RunsIsTable == "runs" \in Tables
BY OrderFacts DEF ReportTables

LEMMA KeptLoader ==
  ASSUME NEW k \in Loaders, Knows(k), Added(k), Kept(k)
  PROVE  /\ Knows(k)' /\ Added(k)'
         /\ Holds(k)' <=> Holds(k)
<1>1. Has(k)' <=> Has(k)
  BY RunsIsTable DEF Has, Kept
<1>2. RowsFor(k)' = RowsFor(k) /\ ReportOf(k)' = ReportOf(k) /\ ArtifactOf(k)' = ArtifactOf(k)
  BY DEF RowsFor, ReportOf, ArtifactOf, Kept
<1>3. Knows(k)'
  BY <1>1, <1>2 DEF Knows, Kept, At
<1>4. Added(k)'
  BY <1>1, <1>2 DEF Added, Kept
<1>5. Holds(k)' <=> Holds(k)
  BY <1>1 DEF Holds, Inserting, At, Kept
<1> QED BY <1>3, <1>4, <1>5

LEMMA GoodStep ==
  ASSUME Inv, NEW l \in Loaders, Good(l)
  PROVE  Inv'
<1>1. ASSUME NEW k \in Loaders \ {l}
      PROVE  /\ Knows(k)' /\ Added(k)' /\ load'[k] = load[k]
             /\ Holds(k)' <=> Holds(k)
  BY KeptLoader DEF Good, Inv, Others, Kept
<1>2. \A k \in Loaders : Knows(k)' /\ Added(k)'
  BY <1>1 DEF Good
<1>3. ASSUME NEW k \in Loaders, NEW j \in Loaders, k # j, Holds(k)', Holds(j)'
      PROVE  load'[k].report # load'[j].report
  <2>1. CASE k = l
    BY <1>1, <1>3, <2>1 DEF Good, Alone, Others
  <2>2. CASE j = l
    BY <1>1, <1>3, <2>2 DEF Good, Alone, Others
  <2>3. CASE k # l /\ j # l
    BY <1>1, <1>3, <2>3 DEF Inv, Apart
  <2> QED BY <2>1, <2>2, <2>3
<1> QED BY <1>2, <1>3 DEF Inv, Apart

\* Nobody changes what another loader has added.
LEMMA MineKept ==
  ASSUME TypeOK, NEW l \in Loaders, db' = db \/ db' = Loaded(l), NEW k \in Others(l),
         NEW t \in Tables
  PROVE  Mine(k, t)' = Mine(k, t)
<1>1. \A rows : \A row \in By(l, rows) : row.by = l
  BY DEF By
<1>2. k # l
  BY DEF Others
<1> QED BY <1>1, <1>2 DEF Mine, Loaded

LEMMA Advances ==
  ASSUME TypeOK, Inv, NEW l \in Loaders,
         UNCHANGED <<dialect, db, exit>>, exit[l] = Running,
         \A k \in Others(l) : load'[k] = load[k],
         load'[l].at # "ended",
         load'[l].at \notin {"insert", "ended"} => load'[l].next = 1,
         load'[l].at \in {"coverage", "normalise"} \union Beyond => load'[l].report # 0,
         load'[l].at \in Beyond => Accepted(ReportOf(l)', ArtifactOf(l)'),
         load'[l].at = "insert" /\ load'[l].next > 1 => Alone(l)
  PROVE  Good(l)
<1>1. \A k \in Loaders, t \in Tables : Mine(k, t)' = Mine(k, t)
  BY DEF Mine
<1>2. \A k \in Others(l) : Kept(k)
  BY <1>1 DEF Kept, Others
<1>3. \A t \in Tables : Mine(l, t)' = {}
  BY <1>1 DEF Inv, Added
<1>4. ~Has(l)'
  BY <1>3, RunsIsTable DEF Has
<1>5. Knows(l)'
  BY <1>4 DEF Knows, At, Before, Beyond
<1>6. Added(l)'
  BY <1>3, <1>4 DEF Added, Running
<1>7. Holds(l)' => Alone(l)
  BY <1>4 DEF Holds, Inserting, At
<1> QED BY <1>2, <1>5, <1>6, <1>7 DEF Good

LEMMA Stops ==
  ASSUME TypeOK, Inv, NEW l \in Loaders, NEW s \in {1, Killed}, Ends(l, s),
         UNCHANGED <<dialect, db>>, exit[l] = Running
  PROVE  Good(l)
<1>1. \A k \in Loaders, t \in Tables : Mine(k, t)' = Mine(k, t)
  BY DEF Mine
<1>2. \A k \in Others(l) : load'[k] = load[k] /\ exit'[k] = exit[k]
  BY DEF Ends, Goto, Others, TypeOK
<1>3. \A k \in Others(l) : Kept(k)
  BY <1>1, <1>2 DEF Kept, Others
<1>4. \A t \in Tables : Mine(l, t)' = {}
  BY <1>1 DEF Inv, Added
<1>5. ~Has(l)'
  BY <1>4, RunsIsTable DEF Has
<1>6. load'[l].at = "ended" /\ exit'[l] = s
  BY DEF Ends, Goto, TypeOK, Loads
<1>7. Knows(l)'
  BY <1>5, <1>6 DEF Knows, At, Before, Beyond, Running, Killed
<1>8. Added(l)'
  BY <1>4, <1>5, <1>6 DEF Added, Running, Killed
<1>9. ~Holds(l)'
  BY <1>5, <1>6 DEF Holds, Inserting, At
<1> QED BY <1>3, <1>7, <1>8, <1>9 DEF Good

LEMMA Publishes ==
  ASSUME TypeOK, Inv, NEW l \in Loaders, NEW s \in {0, 1, Killed}, Ends(l, s),
         UNCHANGED dialect, db' = Loaded(l), exit[l] = Running,
         At(l, "insert"), load[l].next > Len(Order), s = 1 => dialect = "postgres"
  PROVE  Good(l)
<1>1. \A k \in Others(l) : load'[k] = load[k] /\ exit'[k] = exit[k]
  BY DEF Ends, Goto, Others, TypeOK
<1>2. \A k \in Others(l) : Kept(k)
  BY <1>1, MineKept DEF Kept
<1>3. load[l].next = 13
  BY OrderFacts DEF TypeOK, Loads
<1>4. \A t \in Tables : t \in Inserted(l)
  BY <1>3, OrderFacts DEF Inserted
<1>5. \A t \in Tables : Mine(l, t) = {}
  BY DEF Inv, Added
<1>6. ASSUME NEW t \in Tables PROVE Mine(l, t)' = By(l, RowsFor(l)[t])
  <2>1. db'[t] = db[t] \union By(l, RowsFor(l)[t])
    BY <1>4 DEF Loaded
  <2>2. \A row \in By(l, RowsFor(l)[t]) : row.by = l
    BY DEF By
  <2> QED BY <1>5, <2>1, <2>2 DEF Mine
<1>7. /\ load'[l] = [load[l] EXCEPT !.at = "ended"] /\ exit'[l] = s
      /\ load'[l].at = "ended" /\ load'[l].report = load[l].report
      /\ load'[l].coverage = load[l].coverage
  BY DEF Ends, Goto, TypeOK, Loads
<1>8. /\ RowsFor(l)' = RowsFor(l) /\ ReportOf(l)' = ReportOf(l) /\ ArtifactOf(l)' = ArtifactOf(l)
  BY <1>7 DEF RowsFor, ReportOf, ArtifactOf
<1>9. load[l].report # 0 /\ Accepted(ReportOf(l), ArtifactOf(l))
  BY DEF Inv, Knows, At, Beyond
<1>10. Has(l)'
  <2>1. load[l].report \in 1 .. Final /\ load[l].coverage \in 0 .. Final
    BY <1>9, Runs DEF TypeOK, Loads
  <2>2. RowsFor(l)["runs"] = {Row(<<load[l].report>>, << >>)}
    BY <2>1, HeldPayload DEF RowsFor, RowsLinked
  <2>3. By(l, RowsFor(l)["runs"]) # {}
    BY <2>2 DEF By
  <2> QED BY <1>6, <2>3, RunsIsTable DEF Has
<1>11. Knows(l)'
  BY <1>7, <1>8, <1>9, <1>10 DEF Knows, At, Before, Beyond, Running, Killed
<1>12. Added(l)'
  BY <1>6, <1>7, <1>8, <1>10 DEF Added, Running, Killed
<1>13. Alone(l)
  <2>1. Holds(l)
    BY <1>3 DEF Holds, Inserting
  <2> QED BY <1>7, <2>1 DEF Inv, Apart, Alone, Others
<1> QED BY <1>2, <1>11, <1>12, <1>13 DEF Good

\* The rows a loader holds are those of the run whose report it has read.
LEMMA HeldRows ==
  ASSUME TypeOK, NEW l \in Loaders, load[l].report # 0
  PROVE  /\ load[l].report \in 1 .. Final /\ load[l].coverage \in 0 .. Final
         /\ RowsLinked(RowsFor(l), load[l].report)
         /\ {row.key : row \in RowsFor(l)["runs"]} = {<<load[l].report>>}
<1>1. load[l].report \in 1 .. Final /\ load[l].coverage \in 0 .. Final
  BY Runs DEF TypeOK, Loads
<1>2. RowsLinked(RowsFor(l), load[l].report)
  BY <1>1, HeldPayload DEF RowsFor
<1>3. RowsFor(l)["runs"] = {Row(<<load[l].report>>, << >>)}
  BY <1>2 DEF RowsLinked
<1>4. Row(<<load[l].report>>, << >>).key = <<load[l].report>>
  BY DEF Row
<1>5. {row.key : row \in RowsFor(l)["runs"]} = {<<load[l].report>>}
  BY <1>3, <1>4
<1> QED BY <1>1, <1>2, <1>5

LEMMA HasItsRun ==
  ASSUME TypeOK, Inv, NEW l \in Loaders, Has(l)
  PROVE  /\ load[l].report # 0 /\ <<load[l].report>> \in Committed("runs")
         /\ \A t \in Tables : Mine(l, t) = By(l, RowsFor(l)[t])
<1>1. load[l].report # 0
  BY DEF Inv, Knows
<1>2. \A t \in Tables : Mine(l, t) = By(l, RowsFor(l)[t])
  BY RunsIsTable DEF Inv, Added, Has
<1>3. PICK row \in RowsFor(l)["runs"] : row.key = <<load[l].report>>
  BY <1>1, HeldRows
<1>4. \E mine \in Mine(l, "runs") : mine.key = <<load[l].report>>
  <2>1. [key |-> row.key, parent |-> row.parent, by |-> l] \in Mine(l, "runs")
    BY <1>2, <1>3, RunsIsTable DEF By
  <2> QED BY <1>3, <2>1
<1> QED BY <1>1, <1>2, <1>4 DEF Committed, Mine

\* Who may insert the row of the run has nobody beside it.
LEMMA InsertsAlone ==
  ASSUME TypeOK, Inv, NEW l \in Loaders, At(l, "insert"), load'[l].report = load[l].report,
         \/ load[l].next > 1
         \/ /\ load[l].next = 1 /\ KeysHold(l, "runs")
            /\ dialect = "sqlite" => LockFree(l)
            /\ dialect = "postgres" => KeyFree(l, "runs")
  PROVE  Alone(l)
<1>1. CASE load[l].next > 1
  BY <1>1 DEF Inv, Apart, Alone, Holds, Inserting, Others
<1>2. CASE ~(load[l].next > 1)
  <2>1. load[l].report # 0
    BY DEF Inv, Knows, At, Beyond
  <2>2. {row.key : row \in RowsFor(l)["runs"]} = {<<load[l].report>>}
    BY <2>1, HeldRows
  <2>3. <<load[l].report>> \notin Committed("runs")
    BY <1>2, <2>2 DEF KeysHold
  <2>4. ASSUME NEW k \in Others(l), Holds(k) PROVE load[k].report # load[l].report
    <3>1. CASE Has(k)
      BY <2>3, <3>1, HasItsRun DEF Others
    <3>2. CASE Inserting(k)
      <4>1. dialect = "postgres" /\ KeyFree(l, "runs")
        BY <1>2, <3>2 DEF LockFree, TypeOK
      <4>2. load[k].report # 0
        BY <3>2 DEF Inv, Knows, At, Beyond, Inserting, Others
      <4>3. "runs" \in Inserted(k)
        BY <3>2, OrderFacts DEF Inserting, Inserted, TypeOK, Loads, Others
      <4>4. Staged(k, "runs") = {<<load[k].report>>}
        BY <4>2, <4>3, HeldRows DEF Staged, Others
      <4>5. Staged(k, "runs") \intersect {<<load[l].report>>} = {}
        BY <2>2, <3>2, <4>1 DEF KeyFree, Inserting
      <4> QED BY <4>4, <4>5
    <3> QED BY <2>4, <3>1, <3>2 DEF Holds
  <2> QED BY <2>4 DEF Alone
<1> QED BY <1>1, <1>2

LEMMA InvInit == Init => Inv
<1> SUFFICES ASSUME Init PROVE Inv
  OBVIOUS
<1>1. \A l \in Loaders : \A t \in Tables : Mine(l, t) = {}
  BY DEF Init, Mine
<1>2. \A l \in Loaders : ~Has(l)
  BY <1>1, RunsIsTable DEF Has
<1>3. \A l \in Loaders : Knows(l)
  BY <1>2 DEF Init, Knows, At, Before, Beyond, Running
<1>4. \A l \in Loaders : Added(l)
  BY <1>1, <1>2 DEF Init, Added, Running
<1>5. \A l \in Loaders : ~Holds(l)
  BY <1>2 DEF Init, Holds, Inserting, At
<1> QED BY <1>3, <1>4, <1>5 DEF Inv, Apart

\* Nothing a loader has or knows changes when runs are published.
LEMMA StillStep ==
  ASSUME Inv, UNCHANGED <<dialect, db, load, exit>>
  PROVE  Inv'
<1>1. \A k \in Loaders : Kept(k)
  BY DEF Kept, Mine
<1>2. \A k \in Loaders : Knows(k)' /\ Added(k)' /\ (Holds(k)' <=> Holds(k))
  BY <1>1, KeptLoader DEF Inv
<1> QED BY <1>2 DEF Inv, Apart

LEMMA LoaderStep ==
  ASSUME TypeOK, TypeOK', Inv, NEW l \in Loaders,
         Start(l) \/ Load(l) \/ LosesConnection(l) \/ Kill(l)
  PROVE  Good(l)
<1>1. ASSUME ~At(l, "ended") PROVE exit[l] = Running
  BY <1>1 DEF Inv, Knows
<1> USE DEF Quiet, directory, Fails, Goto
<1>2. CASE Start(l)
  <2>1. PICK wants \in BOOLEAN : load' = [load EXCEPT ![l].at = "report", ![l].wants = wants]
    BY <1>2 DEF Start
  <2>2. \A k \in Others(l) : load'[k] = load[k]
    BY <2>1 DEF TypeOK, Others
  <2>3. load'[l].at = "report" /\ load'[l].next = load[l].next
    BY <2>1 DEF TypeOK, Loads
  <2>4. load[l].next = 1 /\ exit[l] = Running
    BY <1>1, <1>2 DEF Start, At, Inv, Knows, Before
  <2>5. UNCHANGED <<dialect, db, exit>>
    BY <1>2 DEF Start
  <2> QED BY <2>2, <2>3, <2>4, <2>5, Advances DEF Before, Beyond
<1>3. CASE ReadReport(l)
  <2>1. exit[l] = Running /\ load[l].next = 1
    BY <1>1, <1>3 DEF ReadReport, At, Inv, Knows, Before
  <2>2. CASE Fails(l)
    BY <1>3, <2>1, <2>2, Stops DEF ReadReport
  <2>3. CASE ~Fails(l)
    <3>1. /\ published.report # 0 /\ UNCHANGED <<dialect, db, exit>>
          /\ load' = [load EXCEPT ![l].report = published.report, ![l].at = "coverage"]
      BY <1>3, <2>3 DEF ReadReport
    <3>2. /\ \A k \in Others(l) : load'[k] = load[k]
          /\ load'[l].at = "coverage" /\ load'[l].report = published.report
          /\ load'[l].next = load[l].next
      BY <3>1 DEF TypeOK, Loads, Others
    <3> QED BY <2>1, <3>1, <3>2, Advances DEF Before, Beyond
  <2> QED BY <2>2, <2>3
<1>4. CASE ReadCoverage(l)
  <2>1. exit[l] = Running /\ load[l].next = 1 /\ load[l].report # 0
    BY <1>1, <1>4 DEF ReadCoverage, At, Inv, Knows, Before
  <2>2. CASE Fails(l)
    BY <1>4, <2>1, <2>2, Stops DEF ReadCoverage
  <2>3. CASE ~Fails(l)
    <3>1. /\ UNCHANGED <<dialect, db, exit>>
          /\ load' = [load EXCEPT ![l].coverage = IF load[l].wants THEN published.coverage ELSE 0,
                                  ![l].at = "normalise"]
      BY <1>4, <2>3 DEF ReadCoverage
    <3>2. /\ \A k \in Others(l) : load'[k] = load[k]
          /\ load'[l].at = "normalise" /\ load'[l].report = load[l].report
          /\ load'[l].next = load[l].next
      BY <3>1 DEF TypeOK, Loads, Others
    <3> QED BY <2>1, <3>1, <3>2, Advances DEF Before, Beyond
  <2> QED BY <2>2, <2>3
<1>5. CASE Normalise(l)
  <2>1. exit[l] = Running /\ load[l].next = 1 /\ load[l].report # 0
    BY <1>1, <1>5 DEF Normalise, At, Inv, Knows, Before
  <2>2. CASE Fails(l)
    BY <1>5, <2>1, <2>2, Stops DEF Normalise
  <2>3. CASE ~Fails(l)
    <3>1. /\ UNCHANGED <<dialect, db, exit>> /\ Accepted(ReportOf(l), ArtifactOf(l))
          /\ load' = [load EXCEPT ![l].at = "ddl"]
      BY <1>5, <2>3 DEF Normalise
    <3>2. /\ \A k \in Others(l) : load'[k] = load[k]
          /\ load'[l].at = "ddl" /\ load'[l].report = load[l].report
          /\ load'[l].coverage = load[l].coverage /\ load'[l].next = load[l].next
      BY <3>1 DEF TypeOK, Loads, Others
    <3>3. ReportOf(l)' = ReportOf(l) /\ ArtifactOf(l)' = ArtifactOf(l)
      BY <3>2 DEF ReportOf, ArtifactOf
    <3> QED BY <2>1, <3>1, <3>2, <3>3, Advances DEF Before, Beyond
  <2> QED BY <2>2, <2>3
<1>6. CASE CreateTables(l) \/ ValidatePayload(l)
  <2>1. exit[l] = Running /\ load[l].report # 0 /\ Accepted(ReportOf(l), ArtifactOf(l))
    BY <1>1, <1>6 DEF CreateTables, ValidatePayload, At, Inv, Knows, Beyond
  <2>2. CASE Fails(l)
    BY <1>6, <2>1, <2>2, Stops DEF CreateTables, ValidatePayload
  <2>3. CASE ~Fails(l)
    <3>1. /\ UNCHANGED <<dialect, db, exit>>
          /\ \/ load' = [load EXCEPT ![l].at = "validate"]
             \/ load' = [load EXCEPT ![l].at = "insert"]
      BY <1>6, <2>3 DEF CreateTables, ValidatePayload
    <3>2. /\ \A k \in Others(l) : load'[k] = load[k]
          /\ load'[l].at \in {"validate", "insert"} /\ load'[l].report = load[l].report
          /\ load'[l].coverage = load[l].coverage /\ load'[l].next = load[l].next
      BY <3>1 DEF TypeOK, Loads, Others
    <3>3. ReportOf(l)' = ReportOf(l) /\ ArtifactOf(l)' = ArtifactOf(l)
      BY <3>2 DEF ReportOf, ArtifactOf
    <3>4. load[l].next = 1
      BY <1>6 DEF CreateTables, ValidatePayload, At, Inv, Knows
    <3> QED BY <2>1, <3>1, <3>2, <3>3, <3>4, Advances DEF Before, Beyond
  <2> QED BY <2>2, <2>3
<1>7. CASE LosesDdlRace(l) \/ Busy(l)
  <2>1. exit[l] = Running
    BY <1>1, <1>7 DEF LosesDdlRace, Busy, At
  <2> QED BY <1>7, <2>1, Stops DEF LosesDdlRace, Busy
<1>8. CASE InsertTable(l)
  <2>1. exit[l] = Running /\ load[l].report # 0 /\ Accepted(ReportOf(l), ArtifactOf(l))
    BY <1>1, <1>8 DEF InsertTable, At, Inv, Knows, Beyond
  <2>2. CASE Fails(l)
    BY <1>8, <2>1, <2>2, Stops DEF InsertTable
  <2>3. CASE ~Fails(l)
    <3>1. /\ UNCHANGED <<dialect, db, exit>> /\ At(l, "insert")
          /\ load' = [load EXCEPT ![l].next = @ + 1]
          /\ KeysHold(l, Order[load[l].next])
          /\ dialect = "sqlite" => LockFree(l)
          /\ dialect = "postgres" => KeyFree(l, Order[load[l].next])
      BY <1>8, <2>3 DEF InsertTable
    <3>2. /\ \A k \in Others(l) : load'[k] = load[k]
          /\ load'[l].at = "insert" /\ load'[l].report = load[l].report
          /\ load'[l].coverage = load[l].coverage
      BY <3>1 DEF TypeOK, Loads, Others, At
    <3>3. ReportOf(l)' = ReportOf(l) /\ ArtifactOf(l)' = ArtifactOf(l)
      BY <3>2 DEF ReportOf, ArtifactOf
    <3>4. load[l].next > 1 \/ load[l].next = 1
      BY DEF TypeOK, Loads
    <3>5. Alone(l)
      BY <3>1, <3>2, <3>4, InsertsAlone, OrderFacts
    <3> QED BY <2>1, <3>1, <3>2, <3>3, <3>5, Advances DEF Before, Beyond
  <2> QED BY <2>2, <2>3
<1>9. CASE Commit(l)
  <2>1. exit[l] = Running
    BY <1>1, <1>9 DEF Commit, At
  <2> QED BY <1>9, <2>1, Publishes DEF Commit
<1>10. CASE LosesConnection(l)
  <2>1. exit[l] = Running
    BY <1>1, <1>10 DEF LosesConnection, At
  <2>2. CASE db' = db
    BY <1>10, <2>1, <2>2, Stops DEF LosesConnection
  <2>3. CASE db' # db
    <3>1. db' = Loaded(l) /\ At(l, "insert") /\ load[l].next > Len(Order)
      BY <1>10, <2>3 DEF LosesConnection, AtCommit
    <3> QED BY <1>10, <2>1, <3>1, Publishes DEF LosesConnection
  <2> QED BY <2>2, <2>3
<1>11. CASE Kill(l)
  <2>1. CASE db' = db
    BY <1>11, <2>1, Stops DEF Kill
  <2>2. CASE db' # db
    <3>1. db' = Loaded(l) /\ At(l, "insert") /\ load[l].next > Len(Order)
      BY <1>11, <2>2 DEF Kill, AtCommit
    <3> QED BY <1>11, <3>1, Publishes DEF Kill, Killed
  <2> QED BY <2>1, <2>2
<1> QED BY <1>2, <1>3, <1>4, <1>5, <1>6, <1>7, <1>8, <1>9, <1>10, <1>11 DEF Load

LEMMA InvStep == TypeOK /\ TypeOK' /\ Inv /\ [Next]_vars => Inv'
<1> SUFFICES ASSUME TypeOK, TypeOK', Inv, [Next]_vars PROVE Inv'
  OBVIOUS
<1>1. CASE BeginRun \/ EndRun
  BY <1>1, StillStep DEF BeginRun, EndRun
<1>2. ASSUME NEW l \in Loaders, Start(l) \/ Load(l) \/ LosesConnection(l) \/ Kill(l)
      PROVE  Inv'
  BY <1>2, LoaderStep, GoodStep
<1>3. CASE UNCHANGED vars
  BY <1>3, StillStep DEF vars
<1> QED BY <1>1, <1>2, <1>3 DEF Next, Done

\* What a loader knows and has added at each stage holds throughout.
THEOREM Invariant == Spec => [](TypeOK /\ Inv)
<1>1. Init => TypeOK /\ Inv
  BY TypeInit, InvInit
<1>2. TypeOK /\ Inv /\ [Next]_vars => (TypeOK /\ Inv)'
  BY TypeStep, InvStep
<1> QED BY <1>1, <1>2, PTL DEF Spec
-----------------------------------------------------------------------------
(* The properties. *)

\* A row is of the run that its loader has read, and that loader holds it.
LEMMA RowOwner ==
  ASSUME TypeOK, Inv, NEW t \in Tables, NEW row \in db[t]
  PROVE  /\ row.by \in Loaders /\ Has(row.by)
         /\ load[row.by].report # 0 /\ row.key[1] = load[row.by].report
<1> DEFINE l == row.by
<1>1. l \in Loaders /\ row \in Mine(l, t)
  BY DEF TypeOK, Mine
<1>2. Has(l)
  BY <1>1 DEF Inv, Added
<1>3. load[l].report # 0 /\ Mine(l, t) = By(l, RowsFor(l)[t])
  BY <1>1, <1>2, HasItsRun
<1>4. \A x \in RowsFor(l)[t] : x.key[1] = load[l].report
  BY <1>1, <1>3, HeldRows DEF RowsLinked
<1>5. row.key[1] = load[l].report
  BY <1>1, <1>3, <1>4 DEF By
<1> QED BY <1>1, <1>2, <1>3, <1>5

LEMMA WholeByInv == TypeOK /\ Inv => RunsAreWhole
<1> SUFFICES ASSUME TypeOK, Inv, NEW r \in 1 .. Final,
                    NEW t0 \in Tables, NEW row0 \in db[t0], row0.key[1] = r
             PROVE  \E l \in Loaders, c \in {0, r} : \A t \in Tables :
                      {row \in db[t] : row.key[1] = r} = By(l, PayloadOf[r][c][t])
  BY DEF RunsAreWhole
<1> DEFINE l == row0.by
<1>1. l \in Loaders /\ Has(l) /\ load[l].report = r
  BY RowOwner
<1>2. load[l].coverage \in 0 .. Final /\ RowsLinked(RowsFor(l), r)
  BY <1>1, HeldRows, HasItsRun
<1>3. ASSUME NEW t \in Tables
      PROVE  {row \in db[t] : row.key[1] = r} = Mine(l, t)
  <2>1. ASSUME NEW row \in db[t], row.key[1] = r PROVE row.by = l
    <3>1. row.by \in Loaders /\ Has(row.by) /\ load[row.by].report = r
      BY <2>1, RowOwner
    <3> QED BY <1>1, <3>1 DEF Inv, Apart, Holds
  <2>2. ASSUME NEW row \in Mine(l, t) PROVE row.key[1] = r
    BY <1>1, <2>2, RowOwner DEF Mine
  <2> QED BY <2>1, <2>2 DEF Mine
<1>4. \A t \in Tables : Mine(l, t) = By(l, PayloadOf[r][load[l].coverage][t])
  BY <1>1, HasItsRun DEF RowsFor
<1>5. Accepted(Results[r].report, IF load[l].coverage = 0 THEN NoArtifact
                                  ELSE Results[load[l].coverage].artifact)
  BY <1>1 DEF Inv, Knows, ReportOf, ArtifactOf
<1>6. PICK own \in {0, r} : PayloadOf[r][load[l].coverage] = PayloadOf[r][own]
  BY <1>2, <1>5, OwnArtifact
<1> QED BY <1>1, <1>3, <1>4, <1>6

\* However many loaders run, fail or are killed side by side, a run is in the
\* warehouse as one load made it, with its own artifact or none, or not at all.
THEOREM WholeRuns == Spec => []RunsAreWhole
BY Invariant, WholeByInv, PTL

LEMMA ExitByInv == TypeOK /\ Inv => ExitTellsTheTruth
<1> SUFFICES ASSUME TypeOK, Inv, NEW l \in Loaders
             PROVE  /\ exit[l] = 0 => \A t \in Tables : {row.key : row \in Mine(l, t)}
                                                      = {row.key : row \in RowsFor(l)[t]}
                    /\ exit[l] = 1 /\ dialect = "sqlite" =>
                         \A t \in Tables : {row.key : row \in Mine(l, t)} = {}
  BY DEF ExitTellsTheTruth, Mine
<1>1. ASSUME exit[l] = 0, NEW t \in Tables
      PROVE  {row.key : row \in Mine(l, t)} = {row.key : row \in RowsFor(l)[t]}
  <2>1. Has(l)
    BY <1>1 DEF Inv, Added
  <2>2. Mine(l, t) = By(l, RowsFor(l)[t])
    BY <2>1, HasItsRun
  <2>3. \A row \in By(l, RowsFor(l)[t]) : \E x \in RowsFor(l)[t] : x.key = row.key
    BY DEF By
  <2>4. ASSUME NEW x \in RowsFor(l)[t]
        PROVE  \E row \in By(l, RowsFor(l)[t]) : row.key = x.key
    <3>1. [key |-> x.key, parent |-> x.parent, by |-> l] \in By(l, RowsFor(l)[t])
      BY DEF By
    <3> QED BY <3>1
  <2> QED BY <2>2, <2>3, <2>4
<1>2. ASSUME exit[l] = 1, dialect = "sqlite", NEW t \in Tables
      PROVE  {row.key : row \in Mine(l, t)} = {}
  BY <1>2 DEF Inv, Added
<1> QED BY <1>1, <1>2

\* Exit 0 means loaded; with SQLite exit 1 means nothing added.
THEOREM ExitTells == Spec => []ExitTellsTheTruth
BY Invariant, ExitByInv, PTL

\* Without its run in the warehouse, and without another loader, every row of an
\* accepted payload finds a free key and its parent.
LEMMA RowsFit ==
  ASSUME TypeOK, Inv, NEW l \in Loaders, At(l, "insert"), load[l].next =< Len(Order),
         <<load[l].report>> \notin Committed("runs")
  PROVE  KeysHold(l, Order[load[l].next])
<1> DEFINE n == load[l].next
           t == Order[n]
<1>1. n \in 1 .. 12 /\ t \in Tables
  BY OrderFacts DEF TypeOK, Loads
<1>2. load[l].report # 0
  BY DEF Inv, Knows, At, Beyond
<1>3. RowsLinked(RowsFor(l), load[l].report)
  BY <1>2, HeldRows
<1>4. ASSUME NEW row \in RowsFor(l)[t] PROVE row.key \notin Committed(t)
  <2>1. row.key[1] = load[l].report
    BY <1>1, <1>3 DEF RowsLinked
  <2>2. ASSUME NEW old \in db[t], old.key = row.key PROVE FALSE
    <3>1. old.by \in Loaders /\ Has(old.by) /\ load[old.by].report = load[l].report
      BY <1>1, <2>1, <2>2, RowOwner
    <3> QED BY <3>1, HasItsRun
  <2> QED BY <2>2 DEF Committed
<1>5. ASSUME NEW row \in RowsFor(l)[t], Refers[t] # ""
      PROVE  row.parent \in Staged(l, Refers[t])
  <2>1. PICK m \in 1 .. n - 1 : Order[m] = Refers[t]
    BY <1>1, <1>5, ParentsFirst
  <2>2. Refers[t] \in Inserted(l)
    BY <2>1 DEF Inserted
  <2>3. \E parent \in RowsFor(l)[Refers[t]] : parent.key = row.parent
    BY <1>1, <1>3, <1>5 DEF RowsLinked
  <2> QED BY <2>2, <2>3 DEF Staged
<1> QED BY <1>4, <1>5 DEF KeysHold

LEMMA LoadableStep ==
  TypeOK /\ TypeOK' /\ Inv /\ [Next]_vars =>
    \A l \in Loaders :
       load[l].at \in Beyond /\ exit'[l] = 1
       => \/ ReportOf(l).blank \/ <<ReportOf(l).run>> \in Committed("runs")
          \/ At(l, "insert") /\ \E t \in Due(l) : Refuses(l, t)
          \/ \E k \in Others(l) : load[k].at \in Beyond
          \/ drops' # drops
<1> SUFFICES ASSUME TypeOK, Inv, [Next]_vars, NEW l \in Loaders,
                    load[l].at \in Beyond, exit'[l] = 1,
                    ~ReportOf(l).blank, <<ReportOf(l).run>> \notin Committed("runs"),
                    ~(At(l, "insert") /\ \E t \in Due(l) : Refuses(l, t)),
                    \A k \in Others(l) : load[k].at \notin Beyond
             PROVE  drops' # drops
  OBVIOUS
<1>1. exit[l] = Running
  BY DEF Inv, Knows, At, Beyond
<1>2. ReportOf(l).run = load[l].report
  BY Runs DEF Inv, Knows, TypeOK, Loads, ReportOf
<1>3. exit'[l] # exit[l]
  BY <1>1 DEF Running
<1>4. ASSUME NEW k \in Others(l), Start(k) \/ Load(k) \/ LosesConnection(k) \/ Kill(k)
      PROVE  exit'[l] = exit[l]
  BY <1>4 DEF Others, Start, Load, LosesConnection, Kill, ReadReport, ReadCoverage, Normalise,
     CreateTables, LosesDdlRace, ValidatePayload, Busy, InsertTable, Commit, Fails, Ends, TypeOK
<1>5. CASE Load(l)
  <2>1. LockFree(l)
    BY DEF LockFree, Inserting, At, Beyond
  <2>2. CASE InsertTable(l)
    <3>1. KeysHold(l, Order[load[l].next])
      BY <1>2, <2>2, RowsFit DEF InsertTable
    <3>2. Order[load[l].next] \in Due(l) /\ At(l, "insert")
      <4>1. At(l, "insert") /\ load[l].next =< Len(Order)
        BY <2>2 DEF InsertTable
      <4>2. load[l].next \in 1 .. 13
        BY DEF TypeOK, Loads
      <4> DEFINE n == load[l].next
      <4>3. n \in {n} \intersect 1 .. Len(Order)
        <5>1. n \in 1 .. 12
          BY <4>1, <4>2, OrderFacts
        <5> QED BY <5>1, OrderFacts
      <4> QED BY <4>1, <4>3 DEF Due
    <3>3. ~Refuses(l, Order[load[l].next])
      BY <3>2
    <3> QED BY <1>3, <2>2, <3>1, <3>3 DEF InsertTable
  <2>3. CASE CreateTables(l) \/ ValidatePayload(l)
    BY <1>3, <2>3 DEF CreateTables, ValidatePayload
  <2>4. CASE Commit(l)
    BY <2>4 DEF Commit, Ends, TypeOK
  <2>5. CASE LosesDdlRace(l) \/ Busy(l)
    BY <2>1, <2>5 DEF LosesDdlRace, Busy, Beyond
  <2>6. CASE ReadReport(l) \/ ReadCoverage(l) \/ Normalise(l)
    BY <2>6 DEF ReadReport, ReadCoverage, Normalise, At, Beyond
  <2> QED BY <1>5, <2>2, <2>3, <2>4, <2>5, <2>6 DEF Load
<1>6. CASE LosesConnection(l)
  BY <1>6, IngestAssumption DEF LosesConnection
<1>7. CASE Kill(l)
  BY <1>7 DEF Kill, Ends, Killed, TypeOK
<1>8. CASE Start(l) \/ BeginRun \/ EndRun \/ UNCHANGED vars
  BY <1>3, <1>8 DEF Start, BeginRun, EndRun, vars
<1> QED BY <1>3, <1>4, <1>5, <1>6, <1>7, <1>8 DEF Next, Done, Others

\* What the contracts accept fits together: keys are free and parents are there,
\* so that only a value the database refuses, a missing one, the run itself,
\* another loader or a lost connection makes a load fail.
THEOREM Loadable == Spec => AcceptedCanBeLoaded
<1>1. TypeOK /\ TypeOK' /\ Inv /\ [Next]_vars =>
        [\A l \in Loaders :
           /\ load[l].at \in {"ddl", "validate", "insert"} /\ exit'[l] = 1
           => \/ ReportOf(l).blank \/ <<ReportOf(l).run>> \in Committed("runs")
              \/ At(l, "insert") /\ \E t \in Due(l) : Refuses(l, t)
              \/ \E k \in Others(l) : load[k].at \in {"ddl", "validate", "insert"}
              \/ drops' # drops]_vars
  BY LoadableStep DEF Beyond
<1> QED BY <1>1, Invariant, PTL DEF Spec, AcceptedCanBeLoaded
=============================================================================
