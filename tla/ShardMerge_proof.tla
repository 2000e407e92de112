-------------------------- MODULE ShardMerge_proof --------------------------
(***************************************************************************)
(* What a published merged report is evidence of, for any executions, any  *)
(* configurations, any number of shards and any interleaving of jobs and   *)
(* mergers.  The documents of a run never change once it has started, so   *)
(* what the merger has checked stays true while jobs are repeated; the     *)
(* coverage it merges is bound to the reports by the run ids.              *)
(***************************************************************************)
EXTENDS ShardMerge, FiniteSetTheorems, WellFoundedInduction, TLAPS

\* A run together with the documents that follow from it.
Jobs == [id : Nat, dir : Dirs, revision : Nat, is : Outcomes]
RunOf(job, ended) == [job |-> job, ended |-> ended, coverage |-> Written(job).coverage,
                      report |-> Written(job).report]
Runs == {RunOf(job, ended) : job \in Jobs, ended \in BOOLEAN}

RunsInv == runs \in Seq(Runs)

\* A coverage file was written by a run that measures coverage.
DiskInv ==
  \A d \in Dirs : disk[d].coverage # 0 => runs[disk[d].coverage].job.is.conf.coverage

\* What the merger has checked of artifacts before it adds them up.
Agree(arts) == SitesAgree(arts) /\ ContextsAgree(arts)

\* What the merger knows at each stage.
MergerInv ==
  /\ stage = "read" => Len(read) < Len(paths)
  /\ stage \in {"check", "coverage", "publish"} => read # << >> /\ Len(read) = Len(paths)
  /\ stage \in {"coverage", "publish"} => Consistent(Reports(read))
  /\ stage = "publish" => covers \in {<< >>, read} /\ Agree(Artifacts(covers))

\* What is known of a report that was published.
LastInv ==
  last.wrote => /\ last.read # << >> /\ last.cov \in {<< >>, last.read}
                /\ Consistent(Reports(last.read)) /\ Agree(Artifacts(last.cov))
                /\ LET m == Merged(Reports(last.read), Artifacts(last.cov))
                   IN ReportOk(m) /\ (Green(m) <=> last.code = 0)

IInv == TypeOK /\ RunsInv /\ DiskInv /\ MergerInv /\ LastInv /\ GreenIsEarned

-----------------------------------------------------------------------------
\* The number of deviations is a number.
LEMMA DeviationsType == \A o \in Outcomes : Deviations(o) \in Nat
  BY DEF Deviations

\* A job with its documents is a run.
LEMMA RunIn == \A job \in Jobs, ended \in BOOLEAN : RunOf(job, ended) \in Runs
<1>. SUFFICES ASSUME NEW job \in Jobs, NEW ended \in BOOLEAN
              PROVE  \E j \in Jobs, e \in BOOLEAN : RunOf(job, ended) = RunOf(j, e)
  BY DEF Runs
<1>. WITNESS job \in Jobs, ended \in BOOLEAN
<1>. QED
  OBVIOUS

\* What TypeOK says of a job, and Runs of its documents.
LEMMA RunFacts ==
  ASSUME RunsInv, NEW i \in DOMAIN runs
  PROVE  /\ runs[i].job \in Jobs /\ runs[i].ended \in BOOLEAN
         /\ runs[i].report = Written(runs[i].job).report
         /\ runs[i].coverage = Written(runs[i].job).coverage
         /\ runs[i] = RunOf(runs[i].job, runs[i].ended)
<1>1. runs[i] \in Runs
  BY DEF RunsInv
<1>2. PICK job \in Jobs, ended \in BOOLEAN : runs[i] = RunOf(job, ended)
  BY <1>1 DEF Runs
<1>. QED
  BY <1>2 DEF RunOf

\* The relation of two states that every step keeps: runs are only added, and
\* what a run is and writes does not change.
Grows == \A i \in DOMAIN runs : /\ i \in DOMAIN runs' /\ runs'[i].job = runs[i].job
                                /\ runs'[i].report = runs[i].report
                                /\ runs'[i].coverage = runs[i].coverage

LEMMA StartGrows ==
  ASSUME TypeOK, RunsInv, NEW d \in Dirs, StartRun(d), ShardAssumption
  PROVE  /\ Grows /\ RunsInv' /\ Len(runs') = Len(runs) + 1
         /\ \A i \in 1 .. Len(runs) : runs'[i] = runs[i]
         /\ runs'[Len(runs) + 1].job \in [id : {Len(runs) + 1}, dir : Dirs, revision : Nat, is : Outcomes]
         /\ runs'[Len(runs) + 1].ended \in BOOLEAN
         /\ faults' \in Nat
         /\ \/ disk' = disk
            \/ /\ disk' = [disk EXCEPT ![d].coverage = Len(runs) + 1]
               /\ runs'[Len(runs) + 1].job.is.conf.coverage
<1>. DEFINE jobOf(o) == [id |-> Len(runs) + 1, dir |-> d, revision |-> revision, is |-> o]
            again == IF \E i \in DOMAIN runs : runs[i].job.dir = d THEN 1 ELSE 0
<1>1. PICK o \in Outcomes :
        /\ Deviations(o) + again =< faults /\ faults' = faults - (Deviations(o) + again)
        /\ runs' = Append(runs, RunOf(jobOf(o), FALSE))
        /\ disk' = IF o.conf.coverage THEN [disk EXCEPT ![d].coverage = jobOf(o).id] ELSE disk
  BY Zenon DEF StartRun, RunOf
<1>2. Len(runs) \in Nat /\ DOMAIN runs = 1 .. Len(runs)
  BY DEF RunsInv
<1>3. revision \in Nat /\ faults \in Nat
  BY DEF TypeOK
<1>4. jobOf(o) \in Jobs /\ jobOf(o).id = Len(runs) + 1 /\ jobOf(o).is = o
      /\ jobOf(o) \in [id : {Len(runs) + 1}, dir : Dirs, revision : Nat, is : Outcomes]
  BY <1>1, <1>2, <1>3 DEF Jobs
<1>. DEFINE job == jobOf(o)
<1>. HIDE DEF jobOf
<1>5. RunOf(job, FALSE) \in Runs /\ RunOf(job, FALSE).job = job /\ RunOf(job, FALSE).ended = FALSE
  BY <1>4, RunIn DEF RunOf
<1>. DEFINE x == RunOf(job, FALSE)
<1>6. runs' = Append(runs, x)
  BY <1>1
<1>. HIDE DEF x
<1>7. x \in Runs
  BY <1>5 DEF x
<1>8. /\ runs' \in Seq(Runs) /\ Len(runs') = Len(runs) + 1
      /\ \A i \in 1 .. Len(runs) : runs'[i] = runs[i]
      /\ runs'[Len(runs) + 1] = x
  BY <1>6, <1>7 DEF RunsInv
<1>9. x.job = job /\ x.ended = FALSE
  BY <1>5 DEF x
<1>10. faults' \in Nat
  <2>1. Deviations(o) \in Nat /\ again \in Nat
    BY <1>1, DeviationsType
  <2>. HIDE DEF again
  <2>. QED
    BY <2>1, <1>1, <1>3
<1>11. Grows /\ RunsInv'
  BY <1>2, <1>8 DEF Grows, RunsInv
<1>12. \/ disk' = disk
       \/ /\ disk' = [disk EXCEPT ![d].coverage = Len(runs) + 1]
          /\ runs'[Len(runs) + 1].job.is.conf.coverage
  <2>1. CASE o.conf.coverage
    BY <2>1, <1>1, <1>4, <1>8, <1>9
  <2>2. CASE ~o.conf.coverage
    BY <2>2, <1>1
  <2>. QED
    BY <2>1, <2>2
<1>. QED
  BY <1>4, <1>8, <1>9, <1>10, <1>11, <1>12

LEMMA FinishGrows ==
  ASSUME TypeOK, RunsInv, NEW i \in 1 .. Len(runs), FinishRun(i)
  PROVE  /\ Grows /\ RunsInv' /\ Len(runs') = Len(runs)
         /\ \A j \in DOMAIN runs : runs'[j].ended \in BOOLEAN
<1>1. DOMAIN runs = 1 .. Len(runs) /\ DOMAIN runs' = DOMAIN runs
      /\ \A j \in DOMAIN runs : runs'[j] = IF j = i THEN [runs[i] EXCEPT !.ended = TRUE] ELSE runs[j]
  BY DEF FinishRun, RunsInv
<1>2. runs'[i] = RunOf(runs[i].job, TRUE)
  BY <1>1, RunFacts DEF RunOf
<1>3. runs'[i] \in Runs
  <2>1. runs[i].job \in Jobs
    BY <1>1, RunFacts
  <2>. QED
    BY <2>1, <1>2, RunIn
<1>4. \A j \in DOMAIN runs : runs'[j] \in Runs
  BY <1>1, <1>3 DEF RunsInv
<1>5. runs' \in Seq(Runs) /\ Len(runs') = Len(runs)
  <2>1. runs' = [j \in 1 .. Len(runs) |-> runs'[j]]
    BY <1>1 DEF FinishRun
  <2>2. Len(runs) \in Nat
    BY DEF RunsInv
  <2>. QED
    BY <2>1, <2>2, <1>1, <1>4
<1>6. Grows
  BY <1>1, <1>2, RunFacts DEF Grows, RunOf
<1>7. \A j \in DOMAIN runs : runs'[j].ended \in BOOLEAN
  BY <1>1, RunFacts, <1>2 DEF RunOf
<1>. QED
  BY <1>5, <1>6, <1>7 DEF RunsInv

-----------------------------------------------------------------------------
\* What a report says of the job that wrote it.
LEMMA ReportFacts ==
  ASSUME NEW job, NEW cov
  PROVE  LET r == Report(job, cov)
             trouble == Trouble(job, cov)
         IN /\ r.run = job.id /\ r.revision = job.revision /\ r.conf = job.is.conf
            /\ r.shard.index = Index(job) /\ r.shard.count = job.is.conf.shards
            /\ Known(job) \subseteq DOMAIN r.tests
            /\ r.rows = RowsOf(job, trouble)
            /\ r.coverage = cov
            /\ r.bench = BenchOf(job) /\ r.snapshots = SnapshotsOf(job)
  BY DEF Report, TestsOf

LEMMA DocFacts ==
  ASSUME RunsInv, NEW i \in DOMAIN runs
  PROVE  \E cov : /\ Doc(i) = Report(Job(i), cov)
                  /\ Art(i) = IF Job(i).is.conf.coverage THEN Coverage(Job(i)) ELSE NoCoverage
<1>1. Doc(i) = Written(Job(i)).report /\ Art(i) = Written(Job(i)).coverage
  BY RunFacts DEF Doc, Art, Job
<1>. DEFINE job == Job(i)
            section == Section(Coverage(job).sum, job.is.conf)
            cov == IF job.is.conf.coverage THEN Judged(section, GatesPass(section)) ELSE NoCoverage
<1>2. Written(job).report = Report(job, cov)
  BY DEF Written
<1>3. Written(job).coverage = IF job.is.conf.coverage THEN Coverage(job) ELSE NoCoverage
  BY DEF Written
<1>. QED
  BY <1>1, <1>2, <1>3

\* The rows of a job are those it ran and perhaps its own.
LEMMA RowFacts ==
  ASSUME ShardAssumption, NEW job, NEW trouble
  PROVE  /\ \A e \in DOMAIN RowsOf(job, trouble) : e # Framework => e \in Ran(job)
         /\ Ran(job) \subseteq DOMAIN RowsOf(job, trouble)
         /\ Framework \notin Ran(job)
  BY DEF RowsOf, ShardAssumption, Ran, Selected, Known

LEMMA UnionDomain ==
  ASSUME NEW fs, NEW e
  PROVE  e \in DOMAIN Union(fs) <=> \E f \in fs : e \in DOMAIN f
<1>1. DOMAIN Union(fs) = UNION {DOMAIN f : f \in fs}
  BY DEF Union
<1>2. e \in UNION {DOMAIN f : f \in fs} <=> \E f \in fs : e \in DOMAIN f
  OBVIOUS
<1>. QED
  BY <1>1, <1>2

LEMMA UnionValue ==
  ASSUME NEW fs, NEW e \in DOMAIN Union(fs)
  PROVE  \E f \in fs : e \in DOMAIN f /\ Union(fs)[e] = f[e]
  BY DEF Union

\* The reports of the runs ids are their documents.
LEMMA ReportsOf ==
  ASSUME NEW ids
  PROVE  \A r : r \in All(Reports(ids)) <=> \E k \in Places(ids) : r = Doc(ids[k])
  BY DEF All, Range, Reports

LEMMA ReportsIn ==
  ASSUME NEW ids \in Seq(DOMAIN runs)
  PROVE  /\ Reports(ids) = [k \in 1 .. Len(ids) |-> Doc(ids[k])]
         /\ Len(Reports(ids)) = Len(ids) /\ DOMAIN Reports(ids) = 1 .. Len(ids)
         /\ \A k \in 1 .. Len(ids) : Reports(ids)[k] = Doc(ids[k])
         /\ \A i \in All(ids) : i \in DOMAIN runs /\ Doc(i) \in All(Reports(ids))
         /\ \A r \in All(Reports(ids)) : \E i \in All(ids) : r = Doc(i)
         /\ ids # << >> => ids[1] \in All(ids) /\ Reports(ids)[1] = Doc(ids[1])
                           /\ Reports(ids)[1] \in All(Reports(ids))
<1>1. Reports(ids) = [k \in 1 .. Len(ids) |-> Doc(ids[k])]
  BY DEF Reports, Places
<1>2. Len(ids) \in Nat /\ DOMAIN ids = 1 .. Len(ids) /\ \A k \in 1 .. Len(ids) : ids[k] \in DOMAIN runs
  OBVIOUS
<1>3. Len(Reports(ids)) = Len(ids) /\ DOMAIN Reports(ids) = 1 .. Len(ids)
  BY <1>1, <1>2
<1>4. \A i : i \in All(ids) <=> \E k \in 1 .. Len(ids) : i = ids[k]
  BY <1>2 DEF All, Range
<1>5. \A r : r \in All(Reports(ids)) <=> \E k \in 1 .. Len(ids) : r = Doc(ids[k])
  BY <1>1, <1>3 DEF All, Range
<1>6. ids # << >> => 1 \in 1 .. Len(ids)
  OBVIOUS
<1>. QED
  BY <1>1, <1>2, <1>3, <1>4, <1>5, <1>6

\* Two reports are the same only if their runs are.
LEMMA OneReport ==
  ASSUME TypeOK, RunsInv, NEW i \in DOMAIN runs, NEW j \in DOMAIN runs, Doc(i) = Doc(j)
  PROVE  i = j
<1>1. Doc(i).run = Job(i).id /\ Doc(j).run = Job(j).id
  BY DocFacts, ReportFacts
<1>2. Job(i).id = i /\ Job(j).id = j
  BY DEF TypeOK, Job
<1>. QED
  BY <1>1, <1>2

\* What the merged rows and the merged inventory are of.
LEMMA MergedDomains ==
  ASSUME NEW reports, NEW e
  PROVE  /\ e \in DOMAIN Union({r.rows : r \in All(reports)})
              <=> \E r \in All(reports) : e \in DOMAIN r.rows
         /\ e \in DOMAIN Union({r.tests : r \in All(reports)})
              <=> \E r \in All(reports) : e \in DOMAIN r.tests
<1>1. \A fs : e \in DOMAIN Union(fs) <=> \E f \in fs : e \in DOMAIN f
  BY UnionDomain
<1>2. e \in DOMAIN Union({r.rows : r \in All(reports)})
        <=> \E f \in {r.rows : r \in All(reports)} : e \in DOMAIN f
  BY <1>1
<1>3. e \in DOMAIN Union({r.tests : r \in All(reports)})
        <=> \E f \in {r.tests : r \in All(reports)} : e \in DOMAIN f
  BY <1>1
<1>. QED
  BY <1>2, <1>3

\* What of the merged report the checks speak of.
LEMMA MergedFacts ==
  ASSUME NEW reports, NEW arts
  PROVE  LET m == Merged(reports, arts)
         IN /\ m.rows = Union({r.rows : r \in All(reports)})
            /\ m.completion.missing = {}
            /\ m.shard.selected = DOMAIN Union({r.tests : r \in All(reports)})
  BY DEF Merged

\* Checks and the contract of the merged report make the matrix whole.
LEMMA WholeFromChecks ==
  ASSUME ShardAssumption, TypeOK, RunsInv, NEW ids \in Seq(DOMAIN runs), ids # << >>,
         Consistent(Reports(ids)), NEW arts, ReportOk(Merged(Reports(ids), arts))
  PROVE  WholeMatrix(ids)
<1>1. /\ \A i \in All(ids) : i \in DOMAIN runs /\ Doc(i) \in All(Reports(ids))
      /\ \A r \in All(Reports(ids)) : \E i \in All(ids) : r = Doc(i)
      /\ Reports(ids)[1] \in All(Reports(ids))
  BY ReportsIn
<1>2. \A i \in All(ids) : \E c : Doc(i) = Report(Job(i), c)
  BY <1>1, DocFacts
<1>3. \A i \in All(ids) : /\ Doc(i).revision = Job(i).revision
                          /\ Doc(i).conf = Job(i).is.conf
                          /\ Doc(i).shard.index = Index(Job(i))
                          /\ Doc(i).shard.count = Job(i).is.conf.shards
                          /\ Known(Job(i)) \subseteq DOMAIN Doc(i).tests
                          /\ \E trouble : Doc(i).rows = RowsOf(Job(i), trouble)
  BY <1>2, ReportFacts
<1>4. \A i, j \in All(ids) : /\ Job(i).revision = Job(j).revision
                             /\ Job(i).is.conf = Job(j).is.conf
  BY <1>1, <1>3 DEF Consistent, SameRun
<1>5. \A i, j \in All(ids) : Index(Job(i)) = Index(Job(j)) => i = j
  <2>1. \A k, l \in Places(Reports(ids)) :
          Reports(ids)[k].shard.index = Reports(ids)[l].shard.index => k = l
    BY DEF Consistent, Topology
  <2>2. \A k \in 1 .. Len(ids) : Reports(ids)[k] = Doc(ids[k]) /\ k \in Places(Reports(ids))
    BY ReportsIn DEF Places
  <2>3. \A i \in All(ids) : \E k \in 1 .. Len(ids) : i = ids[k]
    BY DEF All, Range
  <2>. QED
    BY <2>1, <2>2, <2>3, <1>3
<1>6. \A i \in All(ids) : {Index(Job(j)) : j \in All(ids)} = 0 .. Job(i).is.conf.shards - 1
  <2>. SUFFICES ASSUME NEW i \in All(ids)
                PROVE  {Index(Job(j)) : j \in All(ids)} = 0 .. Job(i).is.conf.shards - 1
    OBVIOUS
  <2>1. {Index(Job(j)) : j \in All(ids)} = {r.shard.index : r \in All(Reports(ids))}
    <3>. DEFINE D == All(Reports(ids))
    <3>1. \A j \in All(ids) : Doc(j) \in D /\ Doc(j).shard.index = Index(Job(j))
      BY <1>1, <1>3
    <3>2. \A r \in D : \E j \in All(ids) : r = Doc(j)
      BY <1>1
    <3>. HIDE DEF D
    <3>3. \A j \in All(ids) : \E r \in D : Index(Job(j)) = r.shard.index
      BY <3>1
    <3>4. \A r \in D : \E j \in All(ids) : r.shard.index = Index(Job(j))
      BY <3>1, <3>2
    <3>5. \A x : (\E j \in All(ids) : x = Index(Job(j))) <=> (\E r \in D : x = r.shard.index)
      BY <3>3, <3>4
    <3>. DEFINE A == {Index(Job(j)) : j \in All(ids)}
                B == {r.shard.index : r \in D}
    <3>6. \A x : x \in A <=> \E j \in All(ids) : x = Index(Job(j))
      OBVIOUS
    <3>7. \A x : x \in B <=> \E r \in D : x = r.shard.index
      OBVIOUS
    <3>. HIDE DEF A, B
    <3>8. \A x : x \in A <=> x \in B
      <4>. TAKE x
      <4>1. /\ x \in A <=> \E j \in All(ids) : x = Index(Job(j))
            /\ x \in B <=> \E r \in D : x = r.shard.index
            /\ (\E j \in All(ids) : x = Index(Job(j))) <=> (\E r \in D : x = r.shard.index)
        BY <3>5, <3>6, <3>7, Zenon
      <4>. QED
        BY <4>1, Zenon
    <3>9. A = B
      BY <3>8
    <3>. QED
      BY <3>9 DEF A, B, D
  <2>2. {r.shard.index : r \in All(Reports(ids))} = 0 .. Reports(ids)[1].shard.count - 1
    BY DEF Consistent, Topology
  <2>3. Reports(ids)[1].shard.count = Job(i).is.conf.shards
    BY <1>1, <1>3, <1>4
  <2>. QED
    BY <2>1, <2>2, <2>3
<1>7. ASSUME NEW i \in All(ids), NEW e \in Known(Job(i))
      PROVE  \E j \in All(ids) : /\ e \in Ran(Job(j))
                                 /\ \A l \in All(ids) : e \in Ran(Job(l)) => l = j
  <2>. DEFINE tests == Union({r.tests : r \in All(Reports(ids))})
              rows  == Union({r.rows : r \in All(Reports(ids))})
  <2>1. e \in Execs /\ e # Framework
    BY DEF Known, ShardAssumption
  <2>2. e \in DOMAIN tests
    BY <1>1, <1>3, MergedDomains
  <2>3. e \in DOMAIN rows
    <3>1. CompletionOk(Merged(Reports(ids), arts))
      BY DEF ReportOk
    <3>2. {} = DOMAIN tests \ DOMAIN rows
      BY <3>1, MergedFacts DEF CompletionOk
    <3>. QED
      BY <3>2, <2>2
  <2>4. PICK j \in All(ids) : e \in DOMAIN Doc(j).rows
    <3>1. PICK r \in All(Reports(ids)) : e \in DOMAIN r.rows
      BY <2>3, MergedDomains
    <3>. QED
      BY <3>1, <1>1
  <2>5. e \in Ran(Job(j))
    BY <2>1, <2>4, <1>3, RowFacts
  <2>6. ASSUME NEW l \in All(ids), e \in Ran(Job(l)) PROVE l = j
    <3>1. e \in DOMAIN Doc(l).rows
      BY <2>6, <1>3, RowFacts
    <3>2. Doc(l) = Doc(j)
      BY <3>1, <2>4, <2>1, <1>1 DEF Consistent, Results
    <3>. QED
      BY <3>2, <1>1, OneReport
  <2>. QED
    BY <2>5, <2>6
<1>. QED
  BY <1>4, <1>5, <1>6, <1>7 DEF WholeMatrix

\* Runs keep their documents: what holds of reports and artifacts that were
\* read holds of them later on.
LEMMA StableDocs ==
  ASSUME Grows, NEW i \in DOMAIN runs
  PROVE  /\ Doc(i)' = Doc(i) /\ Art(i)' = Art(i) /\ Job(i)' = Job(i)
         /\ i \in DOMAIN runs'
  BY DEF Grows, Doc, Art, Job

LEMMA StableReports ==
  ASSUME Grows, NEW ids \in Seq(DOMAIN runs)
  PROVE  Reports(ids)' = Reports(ids) /\ Artifacts(ids)' = Artifacts(ids)
<1>1. \A k \in 1 .. Len(ids) : Doc(ids[k])' = Doc(ids[k]) /\ Art(ids[k])' = Art(ids[k])
  BY DEF Grows, Doc, Art
<1>. QED
  BY <1>1 DEF Reports, Artifacts, Places

-----------------------------------------------------------------------------
\* A green merged report speaks for every run in it.
LEMMA GreenSound ==
  ASSUME ShardAssumption, TypeOK, RunsInv, NEW ids \in Seq(DOMAIN runs),
         Consistent(Reports(ids)), NEW arts, Green(Merged(Reports(ids), arts)), NEW i \in All(ids)
  PROVE  /\ ~Job(i).is.crash
         /\ Job(i).is.bad \intersect Ran(Job(i)) # {} => Job(i).is.muted
         /\ Doc(i).coverage # NoCoverage => Doc(i).coverage.passed
<1>. DEFINE rows == Union({r.rows : r \in All(Reports(ids))})
<1>0. /\ \A j \in All(ids) : j \in DOMAIN runs /\ Doc(j) \in All(Reports(ids))
      /\ \A r \in All(Reports(ids)) : \E j \in All(ids) : r = Doc(j)
  BY ReportsIn
<1>1. \A e \in DOMAIN rows : rows[e].status \in Bad => rows[e].muted
  <2>1. Blocking(rows) = {}
    BY MergedFacts DEF Green
  <2>. HIDE DEF rows
  <2>. QED
    BY <2>1 DEF Blocking, BadRows
<1>2. \A e \in DOMAIN rows : \E j \in All(ids) : e \in DOMAIN Doc(j).rows
                                                 /\ rows[e] = Doc(j).rows[e]
  <2>1. ASSUME NEW e \in DOMAIN rows
        PROVE  \E j \in All(ids) : e \in DOMAIN Doc(j).rows /\ rows[e] = Doc(j).rows[e]
    <3>1. \A fs : \A x \in DOMAIN Union(fs) : \E f \in fs : x \in DOMAIN f /\ Union(fs)[x] = f[x]
      BY UnionValue
    <3>. DEFINE all == {r.rows : r \in All(Reports(ids))}
    <3>2. \E f \in all : e \in DOMAIN f /\ Union(all)[e] = f[e]
      <4>1. e \in DOMAIN Union(all)
        OBVIOUS
      <4>. HIDE DEF all
      <4>. QED
        BY <4>1, <3>1
    <3>3. PICK f \in all : e \in DOMAIN f /\ rows[e] = f[e]
      BY <3>2
    <3>. QED
      BY <1>0, <3>3
  <2>. QED
    BY <2>1
<1>3. \A j \in All(ids) : \E c : /\ Doc(j).rows = RowsOf(Job(j), Trouble(Job(j), c))
                                 /\ Doc(j).coverage = c
  <2>1. \A j \in All(ids) : j \in DOMAIN runs
    BY <1>0
  <2>. QED
    BY <2>1, DocFacts, ReportFacts
<1>4. \A j \in All(ids) : \A e \in DOMAIN Doc(j).rows : e \in DOMAIN rows
  BY <1>0, MergedDomains
<1>5. PICK c : Doc(i).rows = RowsOf(Job(i), Trouble(Job(i), c)) /\ Doc(i).coverage = c
  BY <1>3
<1>. HIDE DEF rows
<1>6. Trouble(Job(i), c) = NoTrouble
  <2>. SUFFICES ASSUME Trouble(Job(i), c) # NoTrouble PROVE FALSE
    OBVIOUS
  <2>1. Framework \in DOMAIN Doc(i).rows
    BY <1>5 DEF RowsOf
  <2>2. PICK j \in All(ids) : Framework \in DOMAIN Doc(j).rows
                              /\ rows[Framework] = Doc(j).rows[Framework]
    BY <2>1, <1>4, <1>2
  <2>3. PICK d : Doc(j).rows = RowsOf(Job(j), Trouble(Job(j), d))
    BY <1>3
  <2>4. rows[Framework].status = "error" /\ rows[Framework].muted = FALSE
    BY <2>2, <2>3 DEF RowsOf
  <2>. QED
    BY <2>1, <2>4, <1>1, <1>4 DEF Bad
<1>7. ~Job(i).is.crash
  BY <1>6 DEF Trouble, NoTrouble
<1>8. c # NoCoverage => c.passed
  BY <1>6 DEF Trouble, NoTrouble
<1>9. ASSUME NEW e \in Job(i).is.bad \intersect Ran(Job(i)) PROVE Job(i).is.muted
  <2>1. e \in DOMAIN Doc(i).rows /\ e # Framework
    BY <1>5, <1>9, RowFacts
  <2>2. PICK j \in All(ids) : e \in DOMAIN Doc(j).rows /\ rows[e] = Doc(j).rows[e]
    BY <2>1, <1>4, <1>2
  <2>3. i = j
    <3>1. Doc(i) = Doc(j)
      BY <1>0, <2>1, <2>2 DEF Consistent, Results
    <3>. QED
      BY <1>0, <3>1, OneReport
  <2>4. rows[e].status = "fail" /\ rows[e].muted = (e \in Job(i).is.bad /\ Job(i).is.muted)
    BY <2>1, <2>2, <2>3, <1>5, <1>9 DEF RowsOf
  <2>. QED
    BY <2>1, <2>4, <1>1, <1>4 DEF Bad
<1>. QED
  BY <1>5, <1>7, <1>8, <1>9

\* An artifact names its run.
LEMMA CoverageRun == \A job : Coverage(job).run = job.id
<1>. SUFFICES ASSUME NEW job PROVE Coverage(job).run = job.id
  OBVIOUS
<1>. QED
  BY Zenon DEF Coverage

\* There is nothing to disagree about without artifacts.
LEMMA NoneAgree == Agree(Artifacts(<< >>))
<1>1. All(Artifacts(<< >>)) = {}
  BY DEF All, Range, Artifacts, Places
<1>. QED
  BY <1>1 DEF Agree, SitesAgree, ContextsAgree

\* Coverage that is merged was written by the runs whose reports were read.
LEMMA CoverageSound ==
  ASSUME ShardAssumption, TypeOK, RunsInv, DiskInv, Len(read) = Len(paths),
         NEW cov, cov = [k \in Places(read) |-> disk[paths[k]].coverage],
         CoverageResult(read, cov) = "merged"
  PROVE  cov = read
<1>1. \A k \in Places(read) : cov[k] # 0
  BY DEF CoverageResult
<1>2. \A k \in Places(read) : BelongsTo(Art(cov[k]), Doc(read[k]))
  BY DEF CoverageResult
<1>3. ASSUME NEW k \in Places(read) PROVE cov[k] = read[k]
  <2>1. /\ paths[k] \in Dirs /\ read[k] \in DOMAIN runs
        /\ disk[paths[k]].coverage \in 0 .. Len(runs)
    <3>1. k \in 1 .. Len(read) /\ read \in Seq(DOMAIN runs) /\ paths \in Seq(Dirs)
      BY <1>3 DEF TypeOK, Places
    <3>2. paths[k] \in Dirs /\ read[k] \in DOMAIN runs
      BY <3>1
    <3>3. disk[paths[k]] \in [report : 0 .. Len(runs), coverage : 0 .. Len(runs)]
      BY <3>2 DEF TypeOK
    <3>. QED
      BY <3>2, <3>3
  <2>2. cov[k] \in DOMAIN runs /\ Job(cov[k]).is.conf.coverage
    <3>1. cov[k] = disk[paths[k]].coverage
      BY <1>3
    <3>2. DOMAIN runs = 1 .. Len(runs) /\ Len(runs) \in Nat
      BY DEF RunsInv
    <3>. HIDE DEF RunsInv
    <3>3. cov[k] \in 1 .. Len(runs)
      BY <3>1, <3>2, <2>1, <1>1
    <3>. QED
      BY <3>1, <3>2, <3>3, <2>1, <1>1 DEF DiskInv, Job
  <2>3. Art(cov[k]).run = Job(cov[k]).id
    <3>1. Art(cov[k]) = Coverage(Job(cov[k]))
      BY <2>2, DocFacts
    <3>. QED
      BY <3>1, CoverageRun
  <2>4. Doc(read[k]).run = Job(read[k]).id
    BY <2>1, DocFacts, ReportFacts
  <2>5. Job(cov[k]).id = cov[k] /\ Job(read[k]).id = read[k]
    BY <2>1, <2>2 DEF TypeOK, Job
  <2>. QED
    BY <2>3, <2>4, <2>5, <1>2 DEF BelongsTo
<1>4. read \in Seq(DOMAIN runs)
  BY DEF TypeOK
<1>5. read = [k \in 1 .. Len(read) |-> read[k]]
  BY <1>4
<1>6. cov = [k \in 1 .. Len(read) |-> cov[k]]
  BY DEF Places
<1>. QED
  BY <1>3, <1>5, <1>6 DEF Places

-----------------------------------------------------------------------------
(* The invariant is inductive.                                              *)

LEMMA InitInv ==
  ASSUME ShardAssumption, Init
  PROVE  IInv
<1>1. /\ runs = << >> /\ DOMAIN runs = {} /\ Len(runs) = 0
  BY DEF Init
<1>2. TypeOK
  <2>1. disk \in [Dirs -> [report : 0 .. Len(runs), coverage : 0 .. Len(runs)]]
    BY <1>1 DEF Init
  <2>2. 1 \in Nat /\ 0 \in Nat /\ MaxFaults \in Nat
    BY DEF ShardAssumption
  <2>. QED
    BY <1>1, <2>1, <2>2 DEF Init, TypeOK, NoFile, Untouched, Killed
<1>3. RunsInv /\ DiskInv
  BY DEF Init, RunsInv, DiskInv
<1>4. MergerInv
  BY DEF Init, MergerInv
<1>5. LastInv /\ GreenIsEarned
  BY DEF Init, Untouched, LastInv, GreenIsEarned
<1>. QED
  BY <1>2, <1>3, <1>4, <1>5 DEF IInv

\* Neither what the merger has read nor what the last one told is touched by
\* runs that are added.
LEMMA MergerStable ==
  ASSUME TypeOK, MergerInv, Grows, UNCHANGED <<stage, read, covers>>
  PROVE  /\ stage \in {"coverage", "publish"} => Consistent(Reports(read))'
         /\ stage = "publish" => Agree(Artifacts(covers))'
<1>1. read \in Seq(DOMAIN runs) /\ << >> \in Seq(DOMAIN runs)
  BY DEF TypeOK
<1>2. Reports(read)' = Reports(read)
  BY <1>1, StableReports
<1>3. stage = "publish" => Artifacts(covers)' = Artifacts(covers)
  BY <1>1, StableReports DEF MergerInv
<1>. QED
  BY <1>2, <1>3 DEF MergerInv

LEMMA LastStable ==
  ASSUME TypeOK, LastInv, Grows, UNCHANGED last
  PROVE  LastInv'
<1>1. last.read \in Seq(DOMAIN runs) /\ << >> \in Seq(DOMAIN runs)
  BY DEF TypeOK
<1>2. Reports(last.read)' = Reports(last.read)
  BY <1>1, StableReports
<1>3. last.wrote => Artifacts(last.cov)' = Artifacts(last.cov)
  BY <1>1, StableReports DEF LastInv
<1>. QED
  BY <1>2, <1>3 DEF LastInv

\* Whatever the jobs do, what the merger knows stays true.
LEMMA EnvKeeps ==
  ASSUME ShardAssumption, IInv, Grows, RunsInv', DiskInv', Len(runs') >= Len(runs),
         UNCHANGED <<conf, merger, dest, last>>, {revision', faults'} \subseteq Nat,
         \A i \in DOMAIN runs' : /\ runs'[i].job \in [id : {i}, dir : Dirs, revision : Nat, is : Outcomes]
                                 /\ runs'[i].ended \in BOOLEAN,
         disk' \in [Dirs -> [report : 0 .. Len(runs'), coverage : 0 .. Len(runs')]]
  PROVE  IInv'
<1>. USE DEF IInv
<1>1. DOMAIN runs \subseteq DOMAIN runs' /\ 0 .. Len(runs) \subseteq 0 .. Len(runs')
  BY DEF Grows, RunsInv
<1>2. /\ Seq(DOMAIN runs) \subseteq Seq(DOMAIN runs')
      /\ Seq(0 .. Len(runs)) \subseteq Seq(0 .. Len(runs'))
  BY <1>1
<1>3. TypeOK'
  BY <1>2 DEF TypeOK, merger
<1>4. MergerInv'
  <2>1. CASE stage \in {"coverage", "publish"}
    <3>1. UNCHANGED <<stage, read, covers, paths>>
      BY DEF merger
    <3>2. /\ Consistent(Reports(read))'
          /\ stage = "publish" => Agree(Artifacts(covers))'
      BY <2>1, <3>1, MergerStable
    <3>. QED
      BY <3>1, <3>2 DEF MergerInv
  <2>2. CASE stage \notin {"coverage", "publish"}
    BY <2>2 DEF MergerInv, merger
  <2>. QED
    BY <2>1, <2>2
<1>5. GreenIsEarned'
  <2>1. \A i \in All(last.read) : i \in DOMAIN runs
    <3>1. last.read \in Seq(DOMAIN runs)
      BY DEF TypeOK
    <3>. QED
      BY <3>1 DEF All, Range
  <2>2. \A i \in All(last.read) : runs'[i].job = runs[i].job /\ runs'[i].report = runs[i].report
    BY <2>1 DEF Grows
  <2>. QED
    BY <2>2 DEF GreenIsEarned, All, Job, Doc
<1>6. LastInv'
  BY LastStable
<1>. QED
  BY <1>3, <1>4, <1>5, <1>6

\* Writing one of the two files of a directory.
LEMMA DiskUpdate ==
  ASSUME NEW S, NEW T, S \subseteq T, NEW f \in [Dirs -> [report : S, coverage : S]],
         NEW d \in Dirs, NEW v \in T
  PROVE  /\ f \in [Dirs -> [report : T, coverage : T]]
         /\ [f EXCEPT ![d].report = v] \in [Dirs -> [report : T, coverage : T]]
         /\ [f EXCEPT ![d].coverage = v] \in [Dirs -> [report : T, coverage : T]]
         /\ \A e \in Dirs : [f EXCEPT ![d].report = v][e].coverage = f[e].coverage
         /\ \A e \in Dirs : [f EXCEPT ![d].coverage = v][e].coverage
                             = IF e = d THEN v ELSE f[e].coverage
<1>1. \A e \in Dirs : f[e] \in [report : T, coverage : T]
  <2>1. \A e \in Dirs : f[e] \in [report : S, coverage : S]
    OBVIOUS
  <2>. QED
    BY <2>1
<1>2. \A r \in [report : T, coverage : T] :
        /\ [r EXCEPT !.report = v] \in [report : T, coverage : T]
        /\ [r EXCEPT !.coverage = v] \in [report : T, coverage : T]
        /\ [r EXCEPT !.report = v].coverage = r.coverage
        /\ [r EXCEPT !.coverage = v].coverage = v
  OBVIOUS
<1>3. f \in [Dirs -> [report : T, coverage : T]]
  BY <1>1
<1>. QED
  BY <1>1, <1>2, <1>3

LEMMA EnvInv ==
  ASSUME ShardAssumption, IInv,
         \/ \E d \in Dirs : StartRun(d)
         \/ \E i \in 1 .. Len(runs) : FinishRun(i)
         \/ Commit
  PROVE  IInv'
<1>0. TypeOK /\ RunsInv /\ DiskInv
  BY DEF IInv
<1>1. Len(runs) \in Nat /\ DOMAIN runs = 1 .. Len(runs) /\ revision \in Nat /\ faults \in Nat
      /\ disk \in [Dirs -> [report : 0 .. Len(runs), coverage : 0 .. Len(runs)]]
  BY <1>0 DEF RunsInv, TypeOK
<1>2. \A i \in DOMAIN runs :
        /\ runs[i].job \in [id : {i}, dir : Dirs, revision : Nat, is : Outcomes]
        /\ runs[i].ended \in BOOLEAN
  BY <1>0 DEF TypeOK
<1>3. ASSUME NEW d \in Dirs, StartRun(d) PROVE IInv'
  <2>1. UNCHANGED <<conf, revision, merger, dest, last>>
    BY <1>3 DEF StartRun
  <2>2. /\ Grows /\ RunsInv' /\ Len(runs') = Len(runs) + 1
        /\ \A i \in 1 .. Len(runs) : runs'[i] = runs[i]
        /\ runs'[Len(runs) + 1].job \in [id : {Len(runs) + 1}, dir : Dirs, revision : Nat, is : Outcomes]
        /\ runs'[Len(runs) + 1].ended \in BOOLEAN
        /\ faults' \in Nat
        /\ \/ disk' = disk
           \/ /\ disk' = [disk EXCEPT ![d].coverage = Len(runs) + 1]
              /\ runs'[Len(runs) + 1].job.is.conf.coverage
    BY <1>0, <1>3, StartGrows
  <2>3. DOMAIN runs' = 1 .. Len(runs) + 1
    BY <2>2 DEF RunsInv
  <2>4. \A i \in DOMAIN runs' :
          /\ runs'[i].job \in [id : {i}, dir : Dirs, revision : Nat, is : Outcomes]
          /\ runs'[i].ended \in BOOLEAN
    <3>. SUFFICES ASSUME NEW i \in 1 .. Len(runs) + 1
                  PROVE  /\ runs'[i].job \in [id : {i}, dir : Dirs, revision : Nat, is : Outcomes]
                         /\ runs'[i].ended \in BOOLEAN
      BY <2>3
    <3>1. CASE i = Len(runs) + 1
      BY <3>1, <2>2
    <3>2. CASE i \in 1 .. Len(runs)
      BY <3>2, <2>2, <1>1, <1>2
    <3>3. i = Len(runs) + 1 \/ i \in 1 .. Len(runs)
      <4>1. Len(runs) \in Nat /\ i \in 1 .. Len(runs) + 1
        BY <1>1
      <4>. QED
        BY <4>1
    <3>. QED
      BY <3>1, <3>2, <3>3
  <2>5. disk' \in [Dirs -> [report : 0 .. Len(runs'), coverage : 0 .. Len(runs')]]
    <3>1. \A k \in 0 .. Len(runs) : k \in 0 .. Len(runs')
      BY <2>2, <1>1
    <3>2. Len(runs) + 1 \in 0 .. Len(runs')
      BY <2>2, <1>1
    <3>3. 0 .. Len(runs) \subseteq 0 .. Len(runs')
      BY <3>1
    <3>. DEFINE S == 0 .. Len(runs)
                T == 0 .. Len(runs')
                v == Len(runs) + 1
    <3>4. S \subseteq T /\ disk \in [Dirs -> [report : S, coverage : S]] /\ v \in T
          /\ (disk' = disk \/ disk' = [disk EXCEPT ![d].coverage = v])
      BY <1>1, <2>2, <3>2, <3>3
    <3>. HIDE DEF S, T, v
    <3>5. disk' \in [Dirs -> [report : T, coverage : T]]
      <4>1. disk \in [Dirs -> [report : T, coverage : T]]
        BY <3>4, DiskUpdate
      <4>2. [disk EXCEPT ![d].coverage = v] \in [Dirs -> [report : T, coverage : T]]
        BY <3>4, DiskUpdate
      <4>. QED
        BY <3>4, <4>1, <4>2
    <3>. QED
      BY <3>5 DEF T
  <2>6. DiskInv'
    <3>. SUFFICES ASSUME NEW e \in Dirs, disk'[e].coverage # 0
                  PROVE  runs'[disk'[e].coverage].job.is.conf.coverage
      BY DEF DiskInv
    <3>1. CASE disk'[e].coverage = disk[e].coverage
      <4>1. disk[e].coverage \in 1 .. Len(runs)
        BY <3>1, <1>1
      <4>. QED
        BY <4>1, <3>1, <2>2, <1>0, SMTT(30) DEF DiskInv
    <3>2. CASE disk'[e].coverage # disk[e].coverage
      <4>1. disk' = [disk EXCEPT ![d].coverage = Len(runs) + 1]
            /\ runs'[Len(runs) + 1].job.is.conf.coverage
        BY <3>2, <2>2
      <4>2. disk'[e].coverage = Len(runs) + 1
        <5>. DEFINE S == 0 .. Len(runs)
                    v == Len(runs) + 1
        <5>1. disk \in [Dirs -> [report : S, coverage : S]] /\ S \subseteq S \union {v}
              /\ v \in S \union {v} /\ disk' = [disk EXCEPT ![d].coverage = v]
          BY <1>1, <4>1
        <5>. HIDE DEF S, v
        <5>2. disk'[e].coverage = IF e = d THEN v ELSE disk[e].coverage
          BY <5>1, DiskUpdate
        <5>. QED
          BY <5>2, <3>2 DEF v
      <4>. QED
        BY <4>1, <4>2
    <3>. QED
      BY <3>1, <3>2
  <2>7. Len(runs') >= Len(runs) /\ {revision', faults'} \subseteq Nat
        /\ UNCHANGED <<conf, merger, dest, last>>
    BY <2>1, <2>2, <1>1
  <2>8. Grows /\ RunsInv'
    BY <2>2
  <2>. QED
    BY <2>4, <2>5, <2>6, <2>7, <2>8, EnvKeeps
<1>4. ASSUME NEW i \in 1 .. Len(runs), FinishRun(i) PROVE IInv'
  <2>1. UNCHANGED <<conf, revision, faults, merger, dest, last>>
    BY <1>4 DEF FinishRun
  <2>2. /\ Grows /\ RunsInv' /\ Len(runs') = Len(runs)
        /\ \A j \in DOMAIN runs : runs'[j].ended \in BOOLEAN
    BY <1>0, <1>4, FinishGrows
  <2>3. disk' = [disk EXCEPT ![runs[i].job.dir].report = i]
    BY <1>4 DEF FinishRun
  <2>4. DOMAIN runs' = DOMAIN runs
    BY <2>2, <1>0 DEF RunsInv
  <2>5. \A j \in DOMAIN runs' :
          /\ runs'[j].job \in [id : {j}, dir : Dirs, revision : Nat, is : Outcomes]
          /\ runs'[j].ended \in BOOLEAN
    BY <2>2, <2>4, <1>2 DEF Grows
  <2>. DEFINE S == 0 .. Len(runs)
              e == runs[i].job.dir
  <2>a. /\ S \subseteq S /\ disk \in [Dirs -> [report : S, coverage : S]] /\ i \in S
        /\ e \in Dirs /\ disk' = [disk EXCEPT ![e].report = i]
    <3>1. i \in S /\ i \in DOMAIN runs
      BY <1>0, <1>4 DEF RunsInv
    <3>2. e \in Dirs
      BY <3>1, <1>2
    <3>. QED
      BY <3>1, <3>2, <1>1, <2>3
  <2>. HIDE DEF S, e
  <2>b. /\ disk' \in [Dirs -> [report : S, coverage : S]]
        /\ \A d \in Dirs : disk'[d].coverage = disk[d].coverage
    <3>1. /\ [disk EXCEPT ![e].report = i] \in [Dirs -> [report : S, coverage : S]]
          /\ \A d \in Dirs : [disk EXCEPT ![e].report = i][d].coverage = disk[d].coverage
      <4>1. \A f \in [Dirs -> [report : S, coverage : S]] : \A d \in Dirs :
              [f EXCEPT ![e].report = i][d].coverage = f[d].coverage
        BY <2>a, DiskUpdate
      <4>2. [disk EXCEPT ![e].report = i] \in [Dirs -> [report : S, coverage : S]]
        BY <2>a, DiskUpdate
      <4>. QED
        BY <2>a, <4>1, <4>2
    <3>. QED
      BY <3>1, <2>a
  <2>6. disk' \in [Dirs -> [report : 0 .. Len(runs'), coverage : 0 .. Len(runs')]]
    BY <2>b, <2>2 DEF S
  <2>7. \A d \in Dirs : disk'[d].coverage = disk[d].coverage
    BY <2>b
  <2>8. DiskInv'
    <3>. SUFFICES ASSUME NEW x \in Dirs, disk'[x].coverage # 0
                  PROVE  runs'[disk'[x].coverage].job.is.conf.coverage
      BY DEF DiskInv
    <3>1. disk[x].coverage \in DOMAIN runs /\ disk'[x].coverage = disk[x].coverage
      BY <2>7, <1>1
    <3>2. disk[x].coverage # 0
      <4>1. disk'[x].coverage # 0
        OBVIOUS
      <4>. QED
        BY <3>1, <4>1
    <3>3. runs[disk[x].coverage].job.is.conf.coverage
      BY <3>2, <1>0 DEF DiskInv
    <3>4. runs'[disk[x].coverage].job = runs[disk[x].coverage].job
      BY <3>1, <2>2 DEF Grows
    <3>. QED
      BY <3>1, <3>3, <3>4
  <2>. QED
    BY <2>1, <2>2, <2>5, <2>6, <2>8, <1>1, EnvKeeps
<1>5. ASSUME Commit PROVE IInv'
  <2>1. UNCHANGED <<conf, runs, disk, merger, dest, last>>
        /\ revision' \in Nat /\ faults' \in Nat
    BY <1>5, <1>1 DEF Commit
  <2>2. Grows /\ RunsInv' /\ DiskInv'
    BY <2>1, <1>0 DEF Grows, RunsInv, DiskInv
  <2>3. /\ Len(runs') >= Len(runs)
        /\ \A i \in DOMAIN runs' :
             /\ runs'[i].job \in [id : {i}, dir : Dirs, revision : Nat, is : Outcomes]
             /\ runs'[i].ended \in BOOLEAN
        /\ disk' \in [Dirs -> [report : 0 .. Len(runs'), coverage : 0 .. Len(runs')]]
    BY <2>1, <1>1, <1>2
  <2>. QED
    BY <2>1, <2>2, <2>3, EnvKeeps
<1>. QED
  BY <1>3, <1>4, <1>5

-----------------------------------------------------------------------------
\* A merger that ends tells what it had read; nothing else it knows changes.
LEMMA EndKeeps ==
  ASSUME IInv, NEW code, NEW wrote, End(code, wrote), code \in {-1, 0, 1, 2, Killed},
         wrote \in BOOLEAN, dest' \in [report : Seq(DOMAIN runs), coverage : {dest.coverage}],
         wrote => /\ stage = "publish"
                  /\ LET m == Merged(Reports(read), Artifacts(covers))
                     IN ReportOk(m) /\ (Green(m) <=> code = 0),
         code = 0 => \A i \in All(read) :
                       /\ ~Job(i).is.crash
                       /\ Job(i).is.bad \intersect Ran(Job(i)) # {} => Job(i).is.muted
                       /\ Doc(i).coverage # NoCoverage => Doc(i).coverage.passed
  PROVE  IInv'
<1>1. /\ stage' = "idle" /\ UNCHANGED <<paths, read, covers, merges>>
      /\ UNCHANGED <<conf, revision, faults, runs, disk>>
      /\ last' = [code |-> code, read |-> read, cov |-> covers, wrote |-> wrote]
  BY DEF End, env
<1>2. TypeOK'
  BY <1>1 DEF IInv, TypeOK
<1>3. RunsInv' /\ DiskInv' /\ MergerInv'
  BY <1>1 DEF IInv, RunsInv, DiskInv, MergerInv, Reports, Artifacts, Doc, Art
<1>4. LastInv'
  <2>1. \A ids : Reports(ids)' = Reports(ids) /\ Artifacts(ids)' = Artifacts(ids)
    BY <1>1 DEF Reports, Artifacts, Doc, Art
  <2>2. last'.read = read /\ last'.cov = covers /\ last'.wrote = wrote /\ last'.code = code
    BY <1>1
  <2>3. wrote => /\ read # << >> /\ covers \in {<< >>, read}
                 /\ Consistent(Reports(read)) /\ Agree(Artifacts(covers))
    BY DEF IInv, MergerInv
  <2>4. Reports(last.read)' = Reports(read) /\ Artifacts(last.cov)' = Artifacts(covers)
    BY <2>1, <2>2
  <2>. QED
    BY <2>2, <2>3, <2>4 DEF LastInv
<1>5. GreenIsEarned'
  <2>. DEFINE speaks(i) == /\ ~Job(i).is.crash
                           /\ Job(i).is.bad \intersect Ran(Job(i)) # {} => Job(i).is.muted
                           /\ Doc(i).coverage # NoCoverage => Doc(i).coverage.passed
  <2>1. \A i : Job(i)' = Job(i) /\ Doc(i)' = Doc(i)
    BY <1>1 DEF Job, Doc
  <2>2. code = 0 => \A i \in All(read) : speaks(i)
    OBVIOUS
  <2>3. \A i : speaks(i)' <=> speaks(i)
    BY <2>1
  <2>4. last'.code = code /\ All(last.read)' = All(read)
    BY <1>1 DEF All
  <2>5. last'.code = 0 => \A i \in All(last.read)' : speaks(i)'
    <3>. HIDE DEF speaks
    <3>. QED
      BY <2>2, <2>3, <2>4
  <2>. QED
    BY <2>5 DEF GreenIsEarned
<1>. QED
  BY <1>2, <1>3, <1>4, <1>5 DEF IInv

\* A merger that goes on touches neither the runs nor what the last one told.
LEMMA MergerKeeps ==
  ASSUME IInv, TypeOK', MergerInv', UNCHANGED <<env, last>>
  PROVE  IInv'
<1>1. UNCHANGED <<conf, revision, faults, runs, disk, last>>
  BY DEF env
<1>2. RunsInv' /\ DiskInv' /\ LastInv'
  <2>1. Grows
    BY <1>1 DEF Grows
  <2>. QED
    BY <1>1, <2>1, LastStable DEF IInv, RunsInv, DiskInv
<1>3. GreenIsEarned'
  <2>1. \A i : Job(i)' = Job(i) /\ Doc(i)' = Doc(i)
    BY <1>1 DEF Job, Doc
  <2>. QED
    BY <1>1, <2>1 DEF IInv, GreenIsEarned, All
<1>. QED
  BY <1>2, <1>3 DEF IInv

\* A refusal, a traceback and a kill leave the destination and claim nothing.
LEMMA Stopped ==
  ASSUME IInv, NEW code \in {1, 2, Killed}, End(code, FALSE), UNCHANGED dest
  PROVE  IInv'
<1>1. code # 0 /\ code \in {-1, 0, 1, 2, Killed}
  BY DEF Killed
<1>2. dest' \in [report : Seq(DOMAIN runs), coverage : {dest.coverage}]
  BY DEF IInv, TypeOK
<1>. QED
  BY <1>1, <1>2, EndKeeps

LEMMA StartMergeInv ==
  ASSUME IInv, StartMerge
  PROVE  IInv'
<1>1. PICK n \in 1 .. Cardinality(Dirs) : paths' \in [1 .. n -> Dirs]
  BY DEF StartMerge
<1>2. n \in Nat /\ n >= 1
  BY <1>1
<1>3. paths' \in Seq(Dirs) /\ Len(paths') = n
  BY <1>1, <1>2
<1>4. merges' \in Nat /\ stage' = "read" /\ read' = << >> /\ covers' = << >>
      /\ UNCHANGED <<env, dest, last>>
  BY DEF StartMerge, IInv, TypeOK
<1>5. TypeOK'
  BY <1>3, <1>4, <1>2 DEF IInv, TypeOK, env
<1>6. MergerInv'
  BY <1>2, <1>3, <1>4 DEF MergerInv
<1>. QED
  BY <1>4, <1>5, <1>6, MergerKeeps

LEMMA ReadReportInv ==
  ASSUME IInv, ReadReport
  PROVE  IInv'
<1>. DEFINE id == disk[paths[Len(read) + 1]].report
<1>1. CASE id = 0
  <2>1. End(2, FALSE) /\ UNCHANGED dest
    BY <1>1 DEF ReadReport, Refuse
  <2>. QED
    BY <2>1, Stopped
<1>2. CASE id # 0
  <2>1. /\ read' = Append(read, id)
        /\ stage' = IF Len(read') = Len(paths) THEN "check" ELSE "read"
        /\ UNCHANGED <<paths, covers, merges, env, dest, last>>
    BY <1>2 DEF ReadReport
  <2>2. stage = "read" /\ Len(read) < Len(paths) /\ read \in Seq(DOMAIN runs)
        /\ Len(read) \in Nat /\ Len(paths) \in Nat
    <3>1. read \in Seq(DOMAIN runs) /\ paths \in Seq(Dirs)
      BY DEF IInv, TypeOK
    <3>2. stage = "read" /\ Len(read) < Len(paths)
      BY DEF ReadReport, IInv, MergerInv
    <3>. QED
      BY <3>1, <3>2
  <2>3. id \in DOMAIN runs
    <3>. paths \in Seq(Dirs)
      BY DEF IInv, TypeOK
    <3>1. paths[Len(read) + 1] \in Dirs
      BY <2>2
    <3>2. disk[paths[Len(read) + 1]] \in [report : 0 .. Len(runs), coverage : 0 .. Len(runs)]
      BY <3>1 DEF IInv, TypeOK
    <3>3. Len(runs) \in Nat /\ DOMAIN runs = 1 .. Len(runs)
      BY DEF IInv, RunsInv
    <3>. QED
      BY <3>2, <3>3, <1>2
  <2>. HIDE DEF id
  <2>4. read' \in Seq(DOMAIN runs) /\ Len(read') = Len(read) + 1 /\ read' # << >>
    BY <2>1, <2>2, <2>3
  <2>5. TypeOK'
    <3>1. UNCHANGED <<conf, revision, faults, runs, disk, paths, covers, merges, dest, last>>
      BY <2>1 DEF env
    <3>2. read' \in Seq(DOMAIN runs') /\ Len(read') =< Len(paths')
          /\ stage' \in {"idle", "read", "check", "coverage", "publish"}
      BY <2>1, <2>2, <2>4, <3>1
    <3>. QED
      BY <3>1, <3>2 DEF IInv, TypeOK
  <2>6. MergerInv'
    BY <2>1, <2>2, <2>4 DEF MergerInv
  <2>. QED
    BY <2>1, <2>5, <2>6, MergerKeeps
<1>. QED
  BY <1>1, <1>2

LEMMA CheckInv ==
  ASSUME IInv, Check
  PROVE  IInv'
<1>1. CASE ~Consistent(Reports(read))
  <2>1. End(2, FALSE) /\ UNCHANGED dest
    BY <1>1 DEF Check, Refuse
  <2>. QED
    BY <2>1, Stopped
<1>2. CASE Consistent(Reports(read))
  <2>1. stage = "check" /\ stage' = "coverage"
        /\ UNCHANGED <<paths, read, covers, merges, env, dest, last>>
    BY <1>2 DEF Check
  <2>2. TypeOK'
    BY <2>1 DEF IInv, TypeOK, env
  <2>3. Consistent(Reports(read))'
    <3>1. Reports(read)' = Reports(read)
      BY <2>1 DEF env, Reports, Doc
    <3>. QED
      BY <3>1, <1>2
  <2>4. MergerInv'
    BY <2>1, <2>3 DEF IInv, MergerInv
  <2>. QED
    BY <2>1, <2>2, <2>4, MergerKeeps
<1>. QED
  BY <1>1, <1>2

LEMMA MergeCoverageInv ==
  ASSUME ShardAssumption, IInv, MergeCoverage
  PROVE  IInv'
<1>. DEFINE cov == [k \in Places(read) |-> disk[paths[k]].coverage]
            result == CoverageResult(read, cov)
<1>1. CASE result = "refused"
  <2>1. End(2, FALSE) /\ UNCHANGED dest
    BY <1>1 DEF MergeCoverage, Refuse
  <2>. QED
    BY <2>1, Stopped
<1>2. CASE result = "invalid"
  <2>1. End(1, FALSE) /\ UNCHANGED dest
    BY <1>2 DEF MergeCoverage, Traceback
  <2>. QED
    BY <2>1, Stopped
<1>3. CASE result \notin {"refused", "invalid"}
  <2>1. /\ result \in {"none", "merged"} /\ stage = "coverage" /\ stage' = "publish"
        /\ covers' = IF result = "merged" THEN cov ELSE << >>
        /\ dest' = IF result = "merged" THEN [dest EXCEPT !.coverage = cov] ELSE dest
        /\ UNCHANGED <<paths, read, merges, env, last>>
    BY <1>3 DEF MergeCoverage
  <2>2. result = "merged" => cov = read
    BY CoverageSound, <2>1 DEF IInv, MergerInv
  <2>2a. result = "merged" => Agree(Artifacts(cov))
    BY DEF CoverageResult, Agree
  <2>. HIDE DEF cov, result
  <2>3. /\ covers' \in {<< >>, read}
        /\ dest' \in [report : {dest.report}, coverage : {dest.coverage, read}]
    BY <2>1, <2>2 DEF IInv, TypeOK
  <2>4. read \in Seq(DOMAIN runs) /\ DOMAIN runs \subseteq 0 .. Len(runs)
        /\ read \in Seq(0 .. Len(runs))
    <3>1. DOMAIN runs = 1 .. Len(runs) /\ Len(runs) \in Nat
      BY DEF IInv, RunsInv
    <3>2. read \in Seq(DOMAIN runs)
      BY DEF IInv, TypeOK
    <3>. QED
      BY <3>1, <3>2
  <2>5. TypeOK'
    <3>1. dest' \in [report : Seq(DOMAIN runs), coverage : Seq(0 .. Len(runs))]
      BY <2>3, <2>4 DEF IInv, TypeOK
    <3>2. covers' \in Seq(0 .. Len(runs))
      <4>1. << >> \in Seq(0 .. Len(runs))
        OBVIOUS
      <4>. QED
        BY <2>3, <2>4, <4>1
    <3>. QED
      BY <2>1, <3>1, <3>2 DEF IInv, TypeOK, env
  <2>6. Consistent(Reports(read))' /\ Agree(Artifacts(covers))'
    <3>1. \A ids : Reports(ids)' = Reports(ids) /\ Artifacts(ids)' = Artifacts(ids)
      BY <2>1 DEF env, Reports, Artifacts, Doc, Art
    <3>2. Consistent(Reports(read))
      BY <2>1 DEF IInv, MergerInv
    <3>3. Agree(Artifacts(covers'))
      BY <2>1, <2>2a, NoneAgree
    <3>4. Reports(read)' = Reports(read) /\ Artifacts(covers)' = Artifacts(covers')
      BY <2>1, <3>1
    <3>. QED
      BY <3>2, <3>3, <3>4
  <2>7. MergerInv'
    BY <2>1, <2>3, <2>6 DEF IInv, MergerInv
  <2>. QED
    BY <2>1, <2>5, <2>7, MergerKeeps
<1>. QED
  BY <1>1, <1>2, <1>3

LEMMA PublishInv ==
  ASSUME ShardAssumption, IInv, Publish
  PROVE  IInv' /\ (dest.report' # dest.report => WholeMatrix(dest'.report))
<1>. DEFINE m == Merged(Reports(read), Artifacts(covers))
<1>0. stage = "publish"
  BY DEF Publish
<1>1. CASE ~ReportOk(m)
  <2>1. End(1, FALSE) /\ UNCHANGED dest
    BY <1>1 DEF Publish, Traceback
  <2>. QED
    BY <2>1, Stopped
<1>2. CASE ReportOk(m)
  <2>1. /\ End(IF Green(m) THEN 0 ELSE 1, TRUE)
        /\ dest' = [dest EXCEPT !.report = read]
    BY <1>2 DEF Publish
  <2>2. /\ Consistent(Reports(read)) /\ read # << >> /\ read \in Seq(DOMAIN runs)
        /\ covers \in {<< >>, read} /\ TypeOK /\ RunsInv
    BY <1>0 DEF IInv, MergerInv, TypeOK
  <2>3. ASSUME Green(m), NEW i \in All(read)
        PROVE  /\ ~Job(i).is.crash
               /\ Job(i).is.bad \intersect Ran(Job(i)) # {} => Job(i).is.muted
               /\ Doc(i).coverage # NoCoverage => Doc(i).coverage.passed
    BY <2>2, <2>3, GreenSound
  <2>4. /\ dest' \in [report : Seq(DOMAIN runs), coverage : {dest.coverage}]
        /\ dest'.report \in {read, dest.report}
    BY <2>1, <2>2 DEF TypeOK
  <2>5. IInv'
    <3>1. CASE Green(m)
      <4>1. End(0, TRUE)
        BY <3>1, <2>1
      <4>. QED
        BY <4>1, <3>1, <1>0, <1>2, <2>2, <2>3, <2>4, EndKeeps
    <3>2. CASE ~Green(m)
      <4>1. End(1, TRUE)
        BY <3>2, <2>1
      <4>2. 1 \in {-1, 0, 1, 2, Killed} /\ 1 # 0
        OBVIOUS
      <4>. QED
        BY <4>1, <4>2, <3>2, <1>0, <1>2, <2>4, EndKeeps
    <3>. QED
      BY <3>1, <3>2
  <2>6. WholeMatrix(read)
    BY <2>2, <1>2, WholeFromChecks
  <2>. QED
    BY <2>4, <2>5, <2>6
<1>. QED
  BY <1>1, <1>2

\* Steps of jobs, and steps of the merger.
LEMMA NextInv ==
  ASSUME ShardAssumption, IInv, [Next]_vars
  PROVE  IInv' /\ (dest.report' # dest.report => WholeMatrix(dest'.report))
<1>1. CASE \/ \E d \in Dirs : StartRun(d)
           \/ \E i \in 1 .. Len(runs) : FinishRun(i)
           \/ Commit
  <2>1. IInv'
    BY <1>1, EnvInv
  <2>2. dest' = dest
    BY <1>1 DEF StartRun, FinishRun, Commit
  <2>. QED
    BY <2>1, <2>2
<1>2. CASE StartMerge
  BY <1>2, StartMergeInv DEF StartMerge
<1>3. CASE ReadReport
  <2>1. dest' = dest
    BY <1>3 DEF ReadReport, Refuse
  <2>. QED
    BY <1>3, <2>1, ReadReportInv
<1>4. CASE Check
  <2>1. dest' = dest
    BY <1>4 DEF Check, Refuse
  <2>. QED
    BY <1>4, <2>1, CheckInv
<1>5. CASE MergeCoverage
  <2>1. dest'.report = dest.report
    BY <1>5 DEF MergeCoverage, Refuse, Traceback, IInv, TypeOK
  <2>. QED
    BY <1>5, <2>1, MergeCoverageInv
<1>6. CASE Publish
  BY <1>6, PublishInv
<1>7. CASE Die
  <2>1. End(Killed, FALSE) /\ UNCHANGED dest
    BY <1>7 DEF Die
  <2>. QED
    BY <2>1, Stopped
<1>8. CASE UNCHANGED vars
  <2>1. UNCHANGED <<env, merger, dest, last>>
    BY <1>8 DEF vars
  <2>2. UNCHANGED <<conf, revision, faults, runs, disk, stage, paths, read, covers, merges, dest, last>>
    BY <2>1 DEF env, merger
  <2>3. TypeOK'
    BY <2>2 DEF IInv, TypeOK
  <2>4. MergerInv'
    <3>1. Grows
      BY <2>2 DEF Grows
    <3>. QED
      BY <2>2, <3>1, MergerStable DEF IInv, MergerInv
  <2>. QED
    BY <2>1, <2>2, <2>3, <2>4, MergerKeeps
<1>. QED
  BY <1>1, <1>2, <1>3, <1>4, <1>5, <1>6, <1>7, <1>8 DEF Next

-----------------------------------------------------------------------------
\* With the audit on, a report lists what its run uses and declares.
LEMMA EntryFacts ==
  ASSUME NEW job, NEW n
  PROVE  LET entries == SnapshotsOf(job).entries
         IN /\ n \in DOMAIN entries => job.is.conf.audit
            /\ job.is.conf.audit /\ n \in Uses(job.is.conf, Ran(job)) \union job.is.conf.declares =>
                 n \in DOMAIN entries /\ entries[n].referenced
<1>. DEFINE used == Uses(job.is.conf, Ran(job)) \union job.is.conf.declares
            all == IF job.is.conf.audit THEN used \union Stored ELSE {}
            entries == [x \in all |-> [referenced |-> x \in used, exists |-> x \in Stored]]
<1>1. SnapshotsOf(job).entries = entries
  BY DEF SnapshotsOf
<1>. HIDE DEF used
<1>2. /\ n \in DOMAIN entries => job.is.conf.audit
      /\ job.is.conf.audit /\ n \in used => n \in DOMAIN entries /\ entries[n].referenced
  OBVIOUS
<1>. QED
  BY <1>1, <1>2 DEF used

\* What the merged report calls obsolete, no merged run uses or declares.
LEMMA ObsoleteUnused ==
  ASSUME RunsInv, NEW ids \in Seq(DOMAIN runs), SameRun(Reports(ids)), NEW i \in All(ids),
         NEW n \in DOMAIN MergedEntries(Reports(ids)),
         MergedEntries(Reports(ids))[n] = "obsolete"
  PROVE  n \notin Uses(Job(i).is.conf, Ran(Job(i))) \union Job(i).is.conf.declares
<1>. SUFFICES ASSUME n \in Uses(Job(i).is.conf, Ran(Job(i))) \union Job(i).is.conf.declares
              PROVE FALSE
  OBVIOUS
<1>. DEFINE entries == {r.snapshots.entries : r \in All(Reports(ids))}
<1>1. /\ \A j \in All(ids) : j \in DOMAIN runs /\ Doc(j) \in All(Reports(ids))
      /\ \A r \in All(Reports(ids)) : \E j \in All(ids) : r = Doc(j)
  BY ReportsIn
<1>1a. \A j \in All(ids) : Doc(j).snapshots = SnapshotsOf(Job(j))
  BY <1>1, DocFacts, ReportFacts
<1>2. n \in UNION {DOMAIN f : f \in entries} /\ ~ \E f \in entries : n \in DOMAIN f /\ f[n].referenced
  BY DEF MergedEntries
<1>3. PICK j \in All(ids) : n \in DOMAIN Doc(j).snapshots.entries
  <2>1. PICK r \in All(Reports(ids)) : n \in DOMAIN r.snapshots.entries
    BY <1>2
  <2>. QED
    BY <1>1, <2>1
<1>4. Job(i).is.conf.audit
  <2>1. Job(j).is.conf.audit
    BY <1>1, <1>3, <1>1a, EntryFacts
  <2>2. Doc(i).conf = Job(i).is.conf /\ Doc(j).conf = Job(j).is.conf
    BY <1>1, DocFacts, ReportFacts
  <2>3. Doc(i).conf = Doc(j).conf
    BY <1>1 DEF SameRun
  <2>. QED
    BY <2>1, <2>2, <2>3
<1>5. n \in DOMAIN Doc(i).snapshots.entries /\ Doc(i).snapshots.entries[n].referenced
  BY <1>1, <1>4, <1>1a, EntryFacts
<1>6. Doc(i).snapshots.entries \in entries
  BY <1>1
<1>. QED
  BY <1>2, <1>5, <1>6

-----------------------------------------------------------------------------
(* What is merged does not depend on the order of the reports.              *)

Turn(q) == [k \in DOMAIN q |-> q[Len(q) + 1 - k]]

\* Turning a sequence round changes only the order of its elements.
LEMMA TurnFacts ==
  ASSUME NEW S, NEW q \in Seq(S)
  PROVE  /\ Turn(q) \in Seq(S) /\ Len(Turn(q)) = Len(q) /\ All(Turn(q)) = All(q)
         /\ \A k \in 1 .. Len(q) : Turn(q)[k] = q[Len(q) + 1 - k] /\ Len(q) + 1 - k \in 1 .. Len(q)
         /\ q # << >> => q[1] \in All(q) /\ Turn(q)[1] \in All(q)
         /\ Turn(q) = << >> <=> q = << >>
<1>. DEFINE n == Len(q)
<1>1. n \in Nat /\ DOMAIN q = 1 .. n /\ \A k \in 1 .. n : q[k] \in S
  OBVIOUS
<1>2. Turn(q) = [k \in 1 .. n |-> q[n + 1 - k]]
  BY <1>1 DEF Turn
<1>3. q # << >> => n > 0
  OBVIOUS
<1>4. q = [k \in 1 .. n |-> q[k]]
  OBVIOUS
<1>. HIDE DEF n
<1>5. \A k \in 1 .. n : n + 1 - k \in 1 .. n /\ n + 1 - (n + 1 - k) = k
  BY <1>1
<1>6. Turn(q) \in Seq(S) /\ Len(Turn(q)) = n /\ DOMAIN Turn(q) = 1 .. n
  BY <1>1, <1>2, <1>5
<1>7. \A k \in 1 .. n : Turn(q)[k] = q[n + 1 - k] /\ Turn(q)[n + 1 - k] = q[k]
  BY <1>2, <1>5
<1>8. All(Turn(q)) = {Turn(q)[k] : k \in 1 .. n} /\ All(q) = {q[k] : k \in 1 .. n}
  BY <1>1, <1>6 DEF All, Range
<1>9. {Turn(q)[k] : k \in 1 .. n} = {q[k] : k \in 1 .. n}
  BY <1>5, <1>7
<1>10. q # << >> => q[1] \in All(q) /\ Turn(q)[1] \in All(q)
  <2>. SUFFICES ASSUME q # << >> PROVE q[1] \in All(q) /\ Turn(q)[1] \in All(q)
    OBVIOUS
  <2>1. 1 \in 1 .. n
    BY <1>1, <1>3
  <2>2. q[1] \in {q[k] : k \in 1 .. n} /\ Turn(q)[1] \in {Turn(q)[k] : k \in 1 .. n}
    BY <2>1
  <2>. QED
    BY <2>2, <1>8, <1>9
<1>11. Turn(q) = << >> <=> q = << >>
  <2>1. Turn(q) = << >> <=> Len(Turn(q)) = 0
    BY <1>6
  <2>2. q = << >> <=> n = 0
    BY DEF n
  <2>. QED
    BY <2>1, <2>2, <1>6
<1>. QED
  BY <1>5, <1>6, <1>7, <1>8, <1>9, <1>10, <1>11 DEF n

\* The merger's checks do not look at the order.
LEMMA TurnConsistent ==
  ASSUME NEW S, NEW q \in Seq(S), q # << >>, Consistent(q)
  PROVE  Consistent(Turn(q))
<1>1. /\ Len(Turn(q)) = Len(q) /\ All(Turn(q)) = All(q) /\ Len(q) \in Nat
      /\ \A k \in 1 .. Len(q) : Turn(q)[k] = q[Len(q) + 1 - k] /\ Len(q) + 1 - k \in 1 .. Len(q)
      /\ q[1] \in All(q) /\ Turn(q)[1] \in All(q)
  BY TurnFacts
<1>2. Loadable(Turn(q)) /\ SameRun(Turn(q)) /\ Inventory(Turn(q)) /\ Results(Turn(q)) /\ Ownership(Turn(q))
  <2>1. All(Turn(q)) = All(q)
    BY <1>1
  <2>2. Loadable(Turn(q)) = Loadable(q)
    BY <2>1 DEF Loadable
  <2>3. SameRun(Turn(q)) = SameRun(q)
    BY <2>1 DEF SameRun
  <2>4. Inventory(Turn(q)) = Inventory(q)
    BY <2>1 DEF Inventory
  <2>5. Results(Turn(q)) = Results(q)
    BY <2>1 DEF Results
  <2>6. Ownership(Turn(q)) = Ownership(q)
    BY <2>1 DEF Ownership
  <2>. QED
    BY <2>2, <2>3, <2>4, <2>5, <2>6 DEF Consistent
<1>3. Topology(Turn(q))
  <2>1. \A r, s \in All(Turn(q)) : r.shard.count = s.shard.count
    BY <1>1 DEF Consistent, Topology
  <2>2. ASSUME NEW k \in 1 .. Len(q), NEW l \in 1 .. Len(q),
               Turn(q)[k].shard.index = Turn(q)[l].shard.index
        PROVE  k = l
    <3>1. q[Len(q) + 1 - k].shard.index = q[Len(q) + 1 - l].shard.index
      BY <1>1, <2>2
    <3>2. Len(q) + 1 - k = Len(q) + 1 - l
      BY <1>1, <3>1 DEF Consistent, Topology, Places
    <3>. QED
      BY <3>2, <1>1
  <2>3. {r.shard.index : r \in All(Turn(q))} = 0 .. Turn(q)[1].shard.count - 1
    <3>1. Turn(q)[1].shard.count = q[1].shard.count
      BY <1>1 DEF Consistent, Topology
    <3>2. {r.shard.index : r \in All(q)} = 0 .. q[1].shard.count - 1
      BY DEF Consistent, Topology
    <3>. QED
      BY <1>1, <3>1, <3>2
  <2>. QED
    BY <1>1, <2>1, <2>2, <2>3 DEF Topology, Places
<1>. QED
  BY <1>2, <1>3 DEF Consistent

\* Two sequences of reports with the same elements and alike in what the merger
\* takes from the first of them have the same merged report.
LEMMA SameMerged ==
  ASSUME NEW p, NEW q, All(p) = All(q), p[1].shard.count = q[1].shard.count,
         p[1].revision = q[1].revision, p[1].conf = q[1].conf, p[1].bench.gated = q[1].bench.gated,
         p[1].bench.baseline = q[1].bench.baseline,
         NEW a, NEW b, a = << >> <=> b = << >>,
         a # << >> => MergedCoverage(a).sum = MergedCoverage(b).sum
  PROVE  Merged(p, a) = Merged(q, b)
<1>1. MergedEntries(p) = MergedEntries(q)
  BY DEF MergedEntries
<1>2. MergedSnapshots(p) = MergedSnapshots(q)
  BY <1>1 DEF MergedSnapshots
<1>3. MergedBench(p) = MergedBench(q)
  BY DEF MergedBench
<1>4. MergedSection(p, a) = MergedSection(q, b)
  BY DEF MergedSection
<1>. QED
  BY <1>2, <1>3, <1>4 DEF Merged

\* What a run tells of a site besides its hits decides what is merged of it.
LEMMA SiteHits ==
  ASSUME NEW i, NEW j, NEW s, NEW hits,
         [SiteOf(i, s) EXCEPT !.hits = 0] = [SiteOf(j, s) EXCEPT !.hits = 0]
  PROVE  [SiteOf(i, s) EXCEPT !.hits = hits] = [SiteOf(j, s) EXCEPT !.hits = hits]
<1>1. \A x : \E l, w, r, h :
        SiteOf(x, s) = [loaded |-> l, instrumented |-> w, reason |-> r, hits |-> h]
  BY DEF SiteOf
<1>2. PICK l1, w1, r1, h1 :
        SiteOf(i, s) = [loaded |-> l1, instrumented |-> w1, reason |-> r1, hits |-> h1]
  BY <1>1
<1>3. PICK l2, w2, r2, h2 :
        SiteOf(j, s) = [loaded |-> l2, instrumented |-> w2, reason |-> r2, hits |-> h2]
  BY <1>1
<1>4. \A l, w, r, h, g : [[loaded |-> l, instrumented |-> w, reason |-> r, hits |-> h] EXCEPT !.hits = g]
                        = [loaded |-> l, instrumented |-> w, reason |-> r, hits |-> g]
  OBVIOUS
<1>5. l1 = l2 /\ w1 = w2 /\ r1 = r2
  BY <1>2, <1>3, <1>4
<1>. QED
  BY <1>2, <1>3, <1>4, <1>5

LEMMA CoverageFacts ==
  ASSUME NEW job
  PROVE  /\ \A s \in Sites : Coverage(job).sites[s] = SiteOf(job, s)
         /\ Coverage(job).sum.mode = Mode(job.is.conf)
  BY Zenon DEF Coverage

\* The summary of the merged coverage, whichever artifact comes first.
LEMMA TurnCoverage ==
  ASSUME RunsInv, NEW ids \in Seq(DOMAIN runs), ids # << >>, SitesAgree(Artifacts(ids)),
         SameRun(Reports(ids))
  PROVE  MergedCoverage(Turn(Artifacts(ids))).sum = MergedCoverage(Artifacts(ids)).sum
<1>. DEFINE a == Artifacts(ids)
            A == {Art(i) : i \in DOMAIN runs}
<1>1. Len(ids) \in Nat /\ (\A k \in 1 .. Len(ids) : ids[k] \in DOMAIN runs)
      /\ a = [k \in 1 .. Len(ids) |-> Art(ids[k])] /\ 1 \in 1 .. Len(ids)
  BY DEF Artifacts, Places
<1>2. a \in Seq(A) /\ Len(a) = Len(ids)
  BY <1>1
<1>3. /\ All(Turn(a)) = All(a) /\ a[1] = Art(ids[1])
      /\ \E k \in 1 .. Len(ids) : Turn(a)[1] = Art(ids[k])
  <2>1. Turn(a)[1] = a[Len(a) + 1 - 1] /\ Len(a) + 1 - 1 \in 1 .. Len(a) /\ All(Turn(a)) = All(a)
    <3>1. Len(a) = Len(ids) /\ 1 \in 1 .. Len(a) /\ a \in Seq(A)
      BY <1>1, <1>2
    <3>. HIDE DEF a, A
    <3>2. /\ \A l \in 1 .. Len(a) : Turn(a)[l] = a[Len(a) + 1 - l] /\ Len(a) + 1 - l \in 1 .. Len(a)
          /\ All(Turn(a)) = All(a)
      BY <3>1, TurnFacts
    <3>. QED
      BY <3>1, <3>2
  <2>. QED
    BY <1>1, <1>2, <2>1
<1>4. PICK k \in 1 .. Len(ids) : Turn(a)[1] = Art(ids[k])
  BY <1>3
<1>. DEFINE i == ids[1]
            j == ids[k]
<1>5. i \in DOMAIN runs /\ j \in DOMAIN runs /\ i \in All(ids) /\ j \in All(ids)
  BY <1>1 DEF All, Range
<1>6. Job(i).is.conf = Job(j).is.conf
  <2>1. Doc(i).conf = Job(i).is.conf /\ Doc(j).conf = Job(j).is.conf
    BY <1>5, DocFacts, ReportFacts
  <2>2. Doc(i) \in All(Reports(ids)) /\ Doc(j) \in All(Reports(ids))
    BY <1>5, ReportsIn
  <2>. QED
    BY <2>1, <2>2 DEF SameRun
<1>7. Art(i) \in All(a) /\ Art(j) \in All(a)
  <2>1. DOMAIN a = 1 .. Len(ids) /\ a[1] = Art(i) /\ a[k] = Art(j)
    BY <1>1
  <2>. QED
    BY <2>1, <1>1 DEF All, Range
<1>8. /\ Turn(a)[1].sum.mode = a[1].sum.mode
      /\ \A s \in Sites : \A hits : [Turn(a)[1].sites[s] EXCEPT !.hits = hits]
                                     = [a[1].sites[s] EXCEPT !.hits = hits]
  <2>1. CASE ~Job(i).is.conf.coverage
    <3>1. Art(i) = NoCoverage /\ Art(j) = NoCoverage
      BY <2>1, <1>5, <1>6, DocFacts
    <3>. QED
      BY <3>1, <1>3, <1>4
  <2>2. CASE Job(i).is.conf.coverage
    <3>1. Art(i) = Coverage(Job(i)) /\ Art(j) = Coverage(Job(j))
      BY <2>2, <1>5, <1>6, DocFacts
    <3>4. \A s \in Sites : Art(j).sites[s] = SiteOf(Job(j), s) /\ Art(i).sites[s] = SiteOf(Job(i), s)
      BY <3>1, CoverageFacts
    <3>2. \A s \in Sites : [SiteOf(Job(j), s) EXCEPT !.hits = 0] = [SiteOf(Job(i), s) EXCEPT !.hits = 0]
      <4>. SUFFICES ASSUME NEW s \in Sites
                    PROVE  [SiteOf(Job(j), s) EXCEPT !.hits = 0] = [SiteOf(Job(i), s) EXCEPT !.hits = 0]
        OBVIOUS
      <4>1. [Art(j).sites[s] EXCEPT !.hits = 0] = [Art(i).sites[s] EXCEPT !.hits = 0]
        BY <1>7 DEF SitesAgree
      <4>2. Art(j).sites[s] = SiteOf(Job(j), s) /\ Art(i).sites[s] = SiteOf(Job(i), s)
        BY <3>4
      <4>. QED
        BY <4>1, <4>2
    <3>3. \A s \in Sites : \A hits : [SiteOf(Job(j), s) EXCEPT !.hits = hits]
                                      = [SiteOf(Job(i), s) EXCEPT !.hits = hits]
      BY <3>2, SiteHits
    <3>5. Art(j).sum.mode = Art(i).sum.mode
      BY <3>1, <1>6, CoverageFacts
    <3>6. \A s \in Sites : \A hits : [Art(j).sites[s] EXCEPT !.hits = hits]
                                      = [Art(i).sites[s] EXCEPT !.hits = hits]
      <4>. SUFFICES ASSUME NEW s \in Sites
                    PROVE  \A hits : [Art(j).sites[s] EXCEPT !.hits = hits]
                                     = [Art(i).sites[s] EXCEPT !.hits = hits]
        OBVIOUS
      <4>1. Art(j).sites[s] = SiteOf(Job(j), s) /\ Art(i).sites[s] = SiteOf(Job(i), s)
        BY <3>4
      <4>. QED
        BY <4>1, <3>3
    <3>. QED
      BY <3>5, <3>6, <1>3, <1>4
  <2>. QED
    BY <2>1, <2>2
<1>. HIDE DEF a
<1>9. MergedSites(Turn(a)) = MergedSites(a)
  BY <1>3, <1>8 DEF MergedSites, Total
<1>. QED
  BY <1>8, <1>9 DEF MergedCoverage, a

\* The merged report is the same for the reports in the other order.
LEMMA TurnMerged ==
  ASSUME RunsInv, NEW ids \in Seq(DOMAIN runs), ids # << >>, NEW cov \in {<< >>, ids},
         Consistent(Reports(ids)), Agree(Artifacts(cov))
  PROVE  /\ Consistent(Turn(Reports(ids)))
         /\ Merged(Turn(Reports(ids)), Turn(Artifacts(cov))) = Merged(Reports(ids), Artifacts(cov))
<1>. DEFINE q == Reports(ids)
            a == Artifacts(cov)
            S == {Doc(i) : i \in DOMAIN runs}
            A == {Art(i) : i \in DOMAIN runs}
<1>1. q \in Seq(S) /\ q # << >> /\ a \in Seq(A) /\ (a = << >> <=> cov = << >>)
  <2>1. cov \in Seq(DOMAIN runs)
    <3>1. \A T : << >> \in Seq(T)
      OBVIOUS
    <3>. QED
      BY <3>1
  <2>2. ASSUME NEW x \in Seq(DOMAIN runs)
        PROVE  /\ Reports(x) \in Seq(S) /\ Len(Reports(x)) = Len(x)
               /\ Artifacts(x) \in Seq(A) /\ Len(Artifacts(x)) = Len(x)
    <3>1. Len(x) \in Nat /\ \A k \in 1 .. Len(x) : Doc(x[k]) \in S /\ Art(x[k]) \in A
      OBVIOUS
    <3>2. /\ Reports(x) = [k \in 1 .. Len(x) |-> Doc(x[k])]
          /\ Artifacts(x) = [k \in 1 .. Len(x) |-> Art(x[k])]
      BY DEF Reports, Artifacts, Places
    <3>. HIDE DEF S, A
    <3>. QED
      BY <3>1, <3>2
  <2>3. \A T : \A x \in Seq(T) : x = << >> <=> Len(x) = 0
    OBVIOUS
  <2>. HIDE DEF S, A
  <2>. QED
    BY <2>1, <2>2, <2>3
<1>2. Consistent(Turn(q))
  BY <1>1, TurnConsistent
<1>3. All(Turn(q)) = All(q) /\ q[1] \in All(q) /\ Turn(q)[1] \in All(q)
  BY <1>1, TurnFacts
<1>4. \A r \in All(q) : r.bench.gated = r.conf.bench /\ r.bench.baseline = r.conf.baseline
  <2>1. \A r \in All(q) : \E i \in All(ids) : r = Doc(i)
    BY ReportsIn
  <2>2. \A i \in All(ids) : i \in DOMAIN runs
    BY ReportsIn
  <2>3. \A i \in DOMAIN runs : Doc(i).conf = Job(i).is.conf /\ Doc(i).bench = BenchOf(Job(i))
    BY DocFacts, ReportFacts
  <2>4. \A i \in DOMAIN runs : /\ BenchOf(Job(i)).gated = Job(i).is.conf.bench
                               /\ BenchOf(Job(i)).baseline = Job(i).is.conf.baseline
    BY DEF BenchOf
  <2>. QED
    BY <2>1, <2>2, <2>3, <2>4
<1>5. /\ Turn(q)[1].shard.count = q[1].shard.count
      /\ Turn(q)[1].revision = q[1].revision /\ Turn(q)[1].conf = q[1].conf
      /\ Turn(q)[1].bench.gated = q[1].bench.gated
      /\ Turn(q)[1].bench.baseline = q[1].bench.baseline
  BY <1>3, <1>4 DEF Consistent, Topology, SameRun
<1>6. Turn(a) = << >> <=> a = << >>
  BY <1>1, TurnFacts
<1>7. a # << >> => MergedCoverage(Turn(a)).sum = MergedCoverage(a).sum
  <2>. SUFFICES ASSUME a # << >> PROVE MergedCoverage(Turn(a)).sum = MergedCoverage(a).sum
    OBVIOUS
  <2>1. cov = ids
    BY <1>1
  <2>. QED
    BY <2>1, TurnCoverage DEF Agree, Consistent
<1>. HIDE DEF q, a
<1>8. Merged(Turn(q), Turn(a)) = Merged(q, a)
  BY <1>3, <1>5, <1>6, <1>7, SameMerged
<1>. QED
  BY <1>2, <1>8 DEF q, a

-----------------------------------------------------------------------------
(* Holm's correction.  What needs an induction is derived from the least    *)
(* counterexample.                                                          *)

\* Every nonempty set of natural numbers has a least element.
LEMMA Least ==
  ASSUME NEW T \in SUBSET Nat, T # {}
  PROVE  \E n \in T : \A k \in T : n =< k
<1>. DEFINE R == {ss \in Nat \X Nat : ss[1] < ss[2]}
<1>1. IsWellFoundedOn(R, Nat)
  BY NatLessThanWellFounded DEF OpToRel
<1>2. \A x, y \in Nat : x < y => <<x, y>> \in R
  OBVIOUS
<1>. HIDE DEF R
<1>3. PICK n \in T : \A k \in T : ~ (<<k, n>> \in R)
  BY <1>1, WFMin
<1>4. ASSUME NEW k \in T PROVE n =< k
  <2>1. n \in Nat /\ k \in Nat
    OBVIOUS
  <2>2. ~(k < n)
    BY <2>1, <1>2, <1>3
  <2>. QED
    BY <2>1, <2>2
<1>. QED
  BY <1>4

\* The maximum of a bounded nonempty set of natural numbers, and the minimum of
\* two of them.
LEMMA MaxOf ==
  ASSUME NEW T \in SUBSET Nat, T # {}, NEW b \in Nat, \A k \in T : k =< b
  PROVE  Max(T) \in T /\ \A k \in T : k =< Max(T)
<1>. DEFINE D == {b - k : k \in T}
<1>0. \A k \in T : k \in Nat /\ b - k \in Nat
  OBVIOUS
<1>1. D \in SUBSET Nat /\ D # {}
  BY <1>0
<1>2. PICK d \in D : \A x \in D : d =< x
  BY <1>1, Least
<1>3. PICK n \in T : d = b - n
  OBVIOUS
<1>4. \A k \in T : n >= k
  <2>. SUFFICES ASSUME NEW k \in T PROVE n >= k
    OBVIOUS
  <2>1. b - k \in D
    OBVIOUS
  <2>2. b - n =< b - k
    BY <2>1, <1>2, <1>3
  <2>. QED
    BY <2>2, <1>0
<1>5. Max(T) \in T /\ \A k \in T : Max(T) >= k
  BY <1>4 DEF Max
<1>. QED
  BY <1>5

\* The smaller of two numbers.
LEMMA MinOfTwo ==
  ASSUME NEW a \in Nat, NEW b \in Nat
  PROVE  Min({a, b}) = IF a =< b THEN a ELSE b
<1>1. \E x \in {a, b} : \A y \in {a, b} : x =< y
  OBVIOUS
<1>2. Min({a, b}) \in {a, b} /\ \A y \in {a, b} : Min({a, b}) =< y
  BY <1>1 DEF Min
<1>. QED
  BY <1>2

\* Multiplying by a smaller number gives no more.
LEMMA ProductGrows ==
  ASSUME NEW a \in Nat, NEW b \in Nat, NEW c \in Nat, NEW d \in Nat, a =< b, c =< d
  PROVE  a * c =< b * d /\ a * c \in Nat
<1>1. a * c =< b * c
  OBVIOUS
<1>2. b * c =< b * d
  OBVIOUS
<1>3. a * c \in Nat /\ b * c \in Nat /\ b * d \in Nat
  OBVIOUS
<1>. QED
  BY <1>1, <1>2, <1>3

\* The p-values considered, and what an ascending order of them is.
Values(E) == [E -> 0 .. PScale]
Sorted(p, order) ==
  \A j, k \in DOMAIN order : j < k => p[order[j]] =< p[order[k]]
Sortable(E, p) == \E order \in Bijection(1 .. Cardinality(E), E) : Sorted(p, order)

\* The greatest value comes last behind an order of the others.
LEMMA SortStep ==
  ASSUME NEW E, IsFiniteSet(E), E # {}, PScale \in Nat, NEW p, \A e \in E : p[e] \in 0 .. PScale,
         \A x \in E : Sortable(E \ {x}, p)
  PROVE  Sortable(E, p)
<1>. DEFINE P == {p[e] : e \in E}
            n == Cardinality(E)
<1>1. P \in SUBSET Nat /\ P # {} /\ \A v \in P : v =< PScale
  OBVIOUS
<1>2. Max(P) \in P /\ \A v \in P : v =< Max(P)
  BY <1>1, MaxOf
<1>3. PICK x \in E : Max(P) = p[x]
  BY <1>2
<1>4. \A e \in E : p[e] =< p[x]
  BY <1>2, <1>3
<1>5. n \in Nat /\ n # 0 /\ Cardinality(E \ {x}) = n - 1
  <2>1. n \in Nat /\ n # 0
    BY FS_CardinalityType, FS_EmptySet
  <2>2. Cardinality(E \ {x}) = n - 1
    BY FS_RemoveElement
  <2>. QED
    BY <2>1, <2>2
<1>. HIDE DEF P, n
<1>6. PICK q \in Bijection(1 .. n - 1, E \ {x}) : Sorted(p, q)
  BY <1>5 DEF Sortable
<1>7. /\ q \in [1 .. n - 1 -> E \ {x}] /\ DOMAIN q = 1 .. n - 1
      /\ \A a, b \in 1 .. n - 1 : q[a] = q[b] => a = b
      /\ \A e \in E \ {x} : \E a \in 1 .. n - 1 : q[a] = e
  BY DEF Bijection, Injection, Surjection, IsInjective
<1>. DEFINE order == [k \in 1 .. n |-> IF k = n THEN x ELSE q[k]]
<1>8. /\ order \in [1 .. n -> E] /\ DOMAIN order = 1 .. n
      /\ order[n] = x /\ \A k \in 1 .. n - 1 : k \in 1 .. n /\ order[k] = q[k]
  BY <1>5, <1>7
<1>8a. \A k \in 1 .. n : k # n => k \in 1 .. n - 1
  BY <1>5
<1>. HIDE DEF order
<1>9. \A a, b \in 1 .. n : order[a] = order[b] => a = b
  <2>. SUFFICES ASSUME NEW a \in 1 .. n, NEW b \in 1 .. n, order[a] = order[b] PROVE a = b
    OBVIOUS
  <2>. QED
    BY <1>7, <1>8, <1>8a
<1>10. \A e \in E : \E a \in 1 .. n : order[a] = e
  <2>. SUFFICES ASSUME NEW e \in E PROVE \E a \in 1 .. n : order[a] = e
    OBVIOUS
  <2>1. CASE e = x
    BY <2>1, <1>5, <1>8
  <2>2. CASE e # x
    BY <2>2, <1>7, <1>8
  <2>. QED
    BY <2>1, <2>2
<1>11. order \in Bijection(1 .. n, E)
  BY <1>8, <1>9, <1>10 DEF Bijection, Injection, Surjection, IsInjective
<1>12. Sorted(p, order)
  <2>. SUFFICES ASSUME NEW j \in 1 .. n, NEW k \in 1 .. n, j < k PROVE p[order[j]] =< p[order[k]]
    BY <1>8 DEF Sorted
  <2>1. j \in 1 .. n - 1 /\ order[j] = q[j]
    BY <1>5, <1>8
  <2>2. CASE k = n
    BY <2>1, <2>2, <1>4, <1>7, <1>8
  <2>3. CASE k # n
    BY <2>1, <2>3, <1>6, <1>7, <1>8, <1>8a DEF Sorted
  <2>. QED
    BY <2>2, <2>3
<1>. QED
  BY <1>11, <1>12 DEF Sortable, n

\* Finitely many values can be sorted: a smallest set of them that cannot would
\* not be empty, and without one of its elements it could.
LEMMA SortExists ==
  ASSUME NEW E, IsFiniteSet(E), PScale \in Nat, NEW p \in Values(E)
  PROVE  Sortable(E, p)
<1>. SUFFICES ASSUME ~Sortable(E, p) PROVE FALSE
  OBVIOUS
<1>. DEFINE Wrong == {S \in SUBSET E : ~Sortable(S, p)}
            T == {Cardinality(S) : S \in Wrong}
<1>1. \A S \in Wrong : IsFiniteSet(S) /\ Cardinality(S) \in Nat
  BY FS_Subset, FS_CardinalityType
<1>2. T \in SUBSET Nat /\ T # {}
  <2>1. E \in Wrong
    OBVIOUS
  <2>2. \A S \in Wrong : Cardinality(S) \in T
    OBVIOUS
  <2>. QED
    BY <2>1, <2>2, <1>1
<1>3. PICK n \in T : \A k \in T : n =< k
  BY <1>2, Least
<1>4. PICK S \in Wrong : n = Cardinality(S)
  OBVIOUS
<1>5. IsFiniteSet(S) /\ n \in Nat /\ S \subseteq E
  BY <1>1, <1>4
<1>6. \A x \in S : Sortable(S \ {x}, p)
  <2>. SUFFICES ASSUME NEW x \in S, ~Sortable(S \ {x}, p) PROVE FALSE
    OBVIOUS
  <2>1. S \ {x} \in Wrong
    BY <1>5
  <2>2. Cardinality(S \ {x}) = n - 1
    BY <1>4, <1>5, FS_RemoveElement
  <2>3. n - 1 \in T
    BY <2>1, <2>2
  <2>. HIDE DEF T
  <2>. QED
    BY <2>3, <1>3, <1>5
<1>7. CASE S = {}
  <2>. DEFINE none == [k \in {} |-> k]
  <2>1. Cardinality(S) = 0 /\ 1 .. 0 = {}
    BY <1>7, FS_EmptySet
  <2>2. none \in Bijection({}, {})
    BY DEF Bijection, Injection, Surjection, IsInjective
  <2>3. Sorted(p, none)
    BY DEF Sorted
  <2>. HIDE DEF none
  <2>4. Sortable(S, p)
    BY <1>7, <2>1, <2>2, <2>3 DEF Sortable
  <2>. QED
    BY <2>4
<1>8. CASE S # {}
  <2>1. \A e \in S : p[e] \in 0 .. PScale
    BY <1>5 DEF Values
  <2>2. Sortable(S, p)
    BY <2>1, <1>5, <1>6, <1>8, SortStep
  <2>. QED
    BY <2>2
<1>. QED
  BY <1>7, <1>8

\* An ascending order and what it makes of each value.
LEMMA AscendingFacts ==
  ASSUME NEW E, IsFiniteSet(E), PScale \in Nat, NEW p \in Values(E)
  PROVE  LET m == Cardinality(E)  IN
         /\ m \in Nat /\ Ascending(p) \in [1 .. m -> E]
         /\ \A a, b \in 1 .. m : Ascending(p)[a] = Ascending(p)[b] => a = b
         /\ \A e \in E : \E a \in 1 .. m : Ascending(p)[a] = e
         /\ \A j, k \in 1 .. m : j =< k => p[Ascending(p)[j]] =< p[Ascending(p)[k]]
<1>. DEFINE m == Cardinality(E)
            order == Ascending(p)
<1>1. DOMAIN p = E
  BY DEF Values
<1>2. \E o \in Bijection(1 .. m, E) : Sorted(p, o)
  BY SortExists DEF Sortable
<1>3. order \in Bijection(1 .. m, E) /\ Sorted(p, order)
  BY <1>1, <1>2 DEF Ascending, Sorted
<1>4. m \in Nat
  BY FS_CardinalityType
<1>. HIDE DEF m, order
<1>5. /\ order \in [1 .. m -> E]
      /\ \A a, b \in 1 .. m : order[a] = order[b] => a = b
      /\ \A e \in E : \E a \in 1 .. m : order[a] = e
  BY <1>3 DEF Bijection, Injection, Surjection, IsInjective
<1>6. ASSUME NEW j \in 1 .. m, NEW k \in 1 .. m, j =< k
      PROVE  p[order[j]] =< p[order[k]]
  <2>1. CASE j = k
    <3>1. p[order[j]] \in 0 .. PScale
      BY <1>5 DEF Values
    <3>. QED
      BY <3>1, <2>1
  <2>2. CASE j # k
    <3>1. j < k
      BY <1>6, <2>2, <1>4
    <3>. QED
      BY <3>1, <1>3, <1>5 DEF Sorted
  <2>. QED
    BY <2>1, <2>2
<1>. QED
  BY <1>4, <1>5, <1>6 DEF m, order

\* An adjusted value is the greatest of the scaled ones up to its rank, or the
\* scale's end.
LEMMA HolmFacts ==
  ASSUME NEW E, IsFiniteSet(E), PScale \in Nat, NEW p \in Values(E), NEW r \in 1 .. Cardinality(E)
  PROVE  LET m == Cardinality(E)
             order == Ascending(p)
             scaled(k) == (m - k + 1) * p[order[k]]
         IN /\ \A j \in 1 .. m : scaled(j) \in Nat
            /\ \E j \in 1 .. r : /\ \A k \in 1 .. r : scaled(k) =< scaled(j)
                               /\ Holm(p)[order[r]] = IF scaled(j) =< PScale THEN scaled(j) ELSE PScale
<1>. DEFINE m == Cardinality(E)
            order == Ascending(p)
            scaled(k) == (m - k + 1) * p[order[k]]
            rank(e) == CHOOSE k \in 1 .. m : order[k] = e
            T == {scaled(j) : j \in 1 .. r}
<1>1. /\ m \in Nat /\ order \in [1 .. m -> E] /\ DOMAIN p = E /\ (\A e \in E : p[e] \in 0 .. PScale)
      /\ \A a, b \in 1 .. m : order[a] = order[b] => a = b
  BY AscendingFacts DEF Values
<1>2. order[r] \in E /\ rank(order[r]) = r
  <2>1. r \in 1 .. m /\ \A k \in 1 .. m : order[k] = order[r] => k = r
    BY <1>1
  <2>. HIDE DEF m, order
  <2>. QED
    BY <2>1, <1>1
<1>3. Holm(p)[order[r]] = Min({Max({scaled(j) : j \in 1 .. rank(order[r])}), PScale})
  BY <1>1, <1>2 DEF Holm
<1>4. Holm(p)[order[r]] = Min({Max(T), PScale})
  BY <1>2, <1>3
<1>. HIDE DEF m, order, rank
<1>5. \A j \in 1 .. m : scaled(j) \in Nat /\ scaled(j) =< m * PScale
  <2>. SUFFICES ASSUME NEW j \in 1 .. m PROVE scaled(j) \in Nat /\ scaled(j) =< m * PScale
    OBVIOUS
  <2>1. order[j] \in E
    BY <1>1
  <2>2. p[order[j]] \in Nat /\ p[order[j]] =< PScale
    BY <2>1, <1>1
  <2>3. m - j + 1 \in Nat /\ m - j + 1 =< m
    BY <1>1
  <2>. QED
    BY <2>2, <2>3, <1>1, ProductGrows
<1>6. r \in 1 .. m /\ 1 .. r \subseteq 1 .. m
  <2>1. r \in 1 .. m
    BY DEF m
  <2>. QED
    BY <2>1, <1>1
<1>6a. r \in 1 .. r /\ m * PScale \in Nat
  BY <1>6, <1>1
<1>. HIDE DEF scaled
<1>7. T \in SUBSET Nat /\ T # {} /\ \A k \in T : k =< m * PScale
  BY <1>5, <1>6, <1>6a
<1>8. Max(T) \in T /\ \A k \in T : k =< Max(T)
  BY <1>7, <1>6a, MaxOf
<1>9. PICK j \in 1 .. r : Max(T) = scaled(j)
  BY <1>8
<1>10. \A k \in 1 .. r : scaled(k) =< scaled(j)
  <2>1. \A k \in 1 .. r : scaled(k) \in T
    OBVIOUS
  <2>. QED
    BY <2>1, <1>8, <1>9
<1>11. Holm(p)[order[r]] = IF scaled(j) =< PScale THEN scaled(j) ELSE PScale
  <2>1. Max(T) \in Nat
    BY <1>7, <1>8
  <2>. HIDE DEF T
  <2>. QED
    BY <1>4, <1>9, <2>1, MinOfTwo
<1>12. /\ \A k \in 1 .. m : scaled(k) \in Nat
       /\ \E i \in 1 .. r : /\ \A k \in 1 .. r : scaled(k) =< scaled(i)
                          /\ Holm(p)[order[r]] = IF scaled(i) =< PScale THEN scaled(i) ELSE PScale
  BY <1>5, <1>10, <1>11
<1>. QED
  BY <1>12 DEF scaled, m, order

\* A correction never makes a value smaller.
LEMMA HolmAbove ==
  ASSUME NEW E, IsFiniteSet(E), PScale \in Nat, NEW p \in Values(E), NEW e \in E
  PROVE  p[e] =< Holm(p)[e]
<1>. DEFINE m == Cardinality(E)
            order == Ascending(p)
            scaled(k) == (m - k + 1) * p[order[k]]
<1>1. m \in Nat /\ \E a \in 1 .. m : order[a] = e
  BY AscendingFacts
<1>2. PICK r \in 1 .. m : order[r] = e
  BY <1>1
<1>3. PICK j \in 1 .. r : /\ \A k \in 1 .. r : scaled(k) =< scaled(j)
                         /\ Holm(p)[order[r]] = IF scaled(j) =< PScale THEN scaled(j) ELSE PScale
  BY HolmFacts
<1>4. scaled(r) \in Nat /\ scaled(j) \in Nat
  <2>1. \A k \in 1 .. m : scaled(k) \in Nat
    BY HolmFacts
  <2>2. j \in 1 .. m
    BY <1>1
  <2>. QED
    BY <2>1, <2>2
<1>5. p[e] \in Nat /\ p[e] =< PScale
  BY DEF Values
<1>6. m - r + 1 >= 1 /\ m - r + 1 \in Nat /\ r \in 1 .. r
  BY <1>1
<1>7. p[e] =< (m - r + 1) * p[e]
  <2>1. 1 * p[e] =< (m - r + 1) * p[e]
    BY <1>5, <1>6, ProductGrows
  <2>. QED
    BY <2>1, <1>5
<1>8. p[e] =< scaled(r)
  BY <1>2, <1>7
<1>9. scaled(r) =< scaled(j)
  BY <1>3, <1>6
<1>10. Holm(p)[e] = IF scaled(j) =< PScale THEN scaled(j) ELSE PScale
  BY <1>2, <1>3
<1>. HIDE DEF scaled
<1>. QED
  BY <1>4, <1>5, <1>8, <1>9, <1>10

\* Corrected by its size, some value of the family F is significant.
Rejects(p, F) == \E f \in F : Min({Cardinality(F) * p[f], PScale}) =< Alpha

\* Holm's correction is the closed test: what it calls significant is what is
\* rejected together with every family it belongs to.
LEMMA HolmClosed ==
  ASSUME NEW E, IsFiniteSet(E), PScale \in Nat, Alpha \in Nat, NEW p \in Values(E), NEW e \in E
  PROVE  Holm(p)[e] =< Alpha <=> \A F \in SUBSET E : e \in F => Rejects(p, F)
<1>. DEFINE m == Cardinality(E)
            order == Ascending(p)
            scaled(k) == (m - k + 1) * p[order[k]]
<1>1. /\ m \in Nat /\ order \in [1 .. m -> E]
      /\ \A a, b \in 1 .. m : order[a] = order[b] => a = b
      /\ \A x \in E : \E a \in 1 .. m : order[a] = x
      /\ \A j, k \in 1 .. m : j =< k => p[order[j]] =< p[order[k]]
  BY AscendingFacts
<1>2. PICK r \in 1 .. m : order[r] = e
  BY <1>1
<1>3. PICK top \in 1 .. r : /\ \A k \in 1 .. r : scaled(k) =< scaled(top)
                           /\ Holm(p)[order[r]] = IF scaled(top) =< PScale THEN scaled(top) ELSE PScale
  BY HolmFacts
<1>4. \A k \in 1 .. m : scaled(k) \in Nat
  BY HolmFacts
<1>5. \A x \in E : p[x] \in Nat
  BY DEF Values
<1>6. \A F \in SUBSET E : /\ IsFiniteSet(F) /\ Cardinality(F) \in Nat
                          /\ \A f \in F : Cardinality(F) * p[f] \in Nat
  <2>. SUFFICES ASSUME NEW F \in SUBSET E
                PROVE  /\ IsFiniteSet(F) /\ Cardinality(F) \in Nat
                       /\ \A f \in F : Cardinality(F) * p[f] \in Nat
    OBVIOUS
  <2>1. IsFiniteSet(F) /\ Cardinality(F) \in Nat
    BY FS_Subset, FS_CardinalityType
  <2>2. \A f \in F : p[f] \in Nat
    BY <1>5
  <2>. QED
    BY <2>1, <2>2
<1>7. \A F \in SUBSET E :
        Rejects(p, F) <=> \E f \in F : Cardinality(F) * p[f] =< Alpha \/ PScale =< Alpha
  <2>. SUFFICES ASSUME NEW F \in SUBSET E
                PROVE  Rejects(p, F) <=> \E f \in F : Cardinality(F) * p[f] =< Alpha \/ PScale =< Alpha
    OBVIOUS
  <2>1. \A a \in Nat : Min({a, PScale}) =< Alpha <=> a =< Alpha \/ PScale =< Alpha
    BY MinOfTwo
  <2>2. \A f \in F : Min({Cardinality(F) * p[f], PScale}) =< Alpha
                       <=> Cardinality(F) * p[f] =< Alpha \/ PScale =< Alpha
    BY <2>1, <1>6
  <2>. QED
    BY <2>2 DEF Rejects
<1>8. Holm(p)[e] =< Alpha <=> PScale =< Alpha \/ \A k \in 1 .. r : scaled(k) =< Alpha
  <2>1. top \in 1 .. m /\ 1 .. r \subseteq 1 .. m
    BY <1>1
  <2>2. scaled(top) \in Nat /\ \A k \in 1 .. r : scaled(k) \in Nat
    BY <2>1, <1>4
  <2>3. Holm(p)[e] = IF scaled(top) =< PScale THEN scaled(top) ELSE PScale
    BY <1>2, <1>3
  <2>4. \A k \in 1 .. r : scaled(k) =< scaled(top)
    BY <1>3
  <2>. HIDE DEF scaled
  <2>. QED
    BY <2>2, <2>3, <2>4
<1>. HIDE DEF m, order
<1>9. ASSUME \A k \in 1 .. r : scaled(k) =< Alpha, NEW F \in SUBSET E, e \in F
      PROVE  \E f \in F : Cardinality(F) * p[f] =< Alpha
  <2>. DEFINE R == {k \in 1 .. m : order[k] \in F}
  <2>1. R \in SUBSET Nat /\ r \in R
    BY <1>1, <1>2, <1>9
  <2>2. PICK j \in R : \A k \in R : j =< k
    BY <2>1, Least
  <2>3. j \in 1 .. m /\ j \in 1 .. r /\ order[j] \in F
    BY <2>1, <2>2, <1>1
  <2>4. Cardinality(F) =< m - j + 1
    <3>1. \A f \in F : \E k \in j .. m : order[k] = f
      <4>. SUFFICES ASSUME NEW f \in F PROVE \E k \in j .. m : order[k] = f
        OBVIOUS
      <4>1. PICK k \in 1 .. m : order[k] = f
        BY <1>1
      <4>2. k \in R
        BY <4>1
      <4>3. j =< k
        BY <4>2, <2>2
      <4>. QED
        BY <4>1, <4>3, <1>1, <2>3
    <3>. DEFINE K == {k \in j .. m : order[k] \in F}
                g == [k \in K |-> order[k]]
    <3>2. g \in Surjection(K, F)
      BY <3>1 DEF Surjection
    <3>3. IsFiniteSet(j .. m) /\ Cardinality(j .. m) = m - j + 1
      BY <2>3, <1>1, FS_Interval
    <3>4. IsFiniteSet(K) /\ Cardinality(K) =< m - j + 1
      <4>1. K \in SUBSET (j .. m)
        OBVIOUS
      <4>. HIDE DEF K
      <4>2. IsFiniteSet(K) /\ Cardinality(K) =< Cardinality(j .. m)
        BY <4>1, <3>3, FS_Subset
      <4>. QED
        BY <4>2, <3>3
    <3>5. Cardinality(F) =< Cardinality(K)
      BY <3>2, <3>4, FS_Surjection
    <3>6. Cardinality(K) \in Nat /\ Cardinality(F) \in Nat /\ m - j + 1 \in Nat
      <4>1. Cardinality(K) \in Nat
        <5>. HIDE DEF K
        <5>. QED
          BY <3>4, FS_CardinalityType
      <4>. QED
        BY <4>1, <1>6, <2>3, <1>1
    <3>. HIDE DEF K
    <3>. QED
      BY <3>4, <3>5, <3>6
  <2>5. Cardinality(F) * p[order[j]] =< scaled(j)
    <3>1. m - j + 1 \in Nat /\ Cardinality(F) \in Nat /\ p[order[j]] \in Nat
      BY <1>1, <1>5, <1>6, <2>3
    <3>2. p[order[j]] =< p[order[j]]
      BY <3>1
    <3>. QED
      BY <3>1, <3>2, <2>4, ProductGrows
  <2>6. scaled(j) =< Alpha /\ scaled(j) \in Nat
    BY <2>3, <1>9, <1>4
  <2>7. Cardinality(F) * p[order[j]] \in Nat
    BY <2>3, <1>6
  <2>8. Cardinality(F) * p[order[j]] =< Alpha
    <3>. HIDE DEF scaled
    <3>. QED
      BY <2>5, <2>6, <2>7
  <2>. QED
    BY <2>3, <2>8
<1>10. ASSUME \A F \in SUBSET E : e \in F => \E f \in F : Cardinality(F) * p[f] =< Alpha,
              NEW j \in 1 .. r
       PROVE  scaled(j) =< Alpha
  <2>. DEFINE F == {order[k] : k \in j .. m}
              g == [k \in j .. m |-> order[k]]
  <2>1. j \in 1 .. m /\ r \in j .. m /\ \A k \in j .. m : k \in 1 .. m /\ j =< k
    BY <1>1
  <2>2. F \in SUBSET E /\ e \in F
    BY <1>1, <1>2, <2>1
  <2>3. PICK k \in j .. m : Cardinality(F) * p[order[k]] =< Alpha
    BY <2>2, <1>10
  <2>4. Cardinality(F) = m - j + 1
    <3>1. g \in Surjection(j .. m, F)
      BY DEF Surjection
    <3>2. g \in Injection(j .. m, F)
      BY <2>1, <1>1 DEF Injection, IsInjective
    <3>3. IsFiniteSet(j .. m) /\ Cardinality(j .. m) = m - j + 1
      <4>1. j \in Int /\ m \in Int /\ ~(j > m) /\ m - j + 1 = m - j + 1
        BY <2>1, <1>1
      <4>. HIDE DEF F, g
      <4>. QED
        BY <4>1, FS_Interval
    <3>. HIDE DEF F, g
    <3>. QED
      BY <3>1, <3>2, <3>3, FS_Surjection
  <2>5. p[order[j]] =< p[order[k]] /\ p[order[j]] \in Nat /\ p[order[k]] \in Nat
    BY <2>1, <1>1, <1>5
  <2>6. m - j + 1 \in Nat
    BY <2>1, <1>1
  <2>7. scaled(j) =< (m - j + 1) * p[order[k]]
    BY <2>5, <2>6, ProductGrows
  <2>8. (m - j + 1) * p[order[k]] =< Alpha /\ (m - j + 1) * p[order[k]] \in Nat
    BY <2>3, <2>4, <2>5, <2>6
  <2>9. scaled(j) \in Nat
    BY <2>1, <1>4
  <2>. DEFINE x == (m - j + 1) * p[order[k]]
  <2>. HIDE DEF scaled, x
  <2>. QED
    BY <2>7, <2>8, <2>9 DEF x
<1>. HIDE DEF scaled
<1>11. CASE PScale =< Alpha
  BY <1>11, <1>7, <1>8
<1>12. CASE ~(PScale =< Alpha)
  <2>1. Holm(p)[e] =< Alpha => \A F \in SUBSET E : e \in F => Rejects(p, F)
    BY <1>12, <1>7, <1>8, <1>9
  <2>2. (\A F \in SUBSET E : e \in F => Rejects(p, F)) => Holm(p)[e] =< Alpha
    <3>. SUFFICES ASSUME \A F \in SUBSET E : e \in F => Rejects(p, F) PROVE Holm(p)[e] =< Alpha
      OBVIOUS
    <3>1. \A F \in SUBSET E : e \in F => \E f \in F : Cardinality(F) * p[f] =< Alpha
      BY <1>7, <1>12
    <3>. QED
      BY <3>1, <1>8, <1>10
  <2>. QED
    BY <2>1, <2>2
<1>. QED
  BY <1>11, <1>12

\* What one report and what all of them compare: raw results of executions, on
\* the scale, of which the comparable ones are tested.
RawResults == [p : 0 .. PScale, found : BOOLEAN, comparable : BOOLEAN, slower : BOOLEAN]
Raws(E) == [E -> RawResults]
Tested(raw) == {e \in DOMAIN raw : raw[e].comparable}
TestedValues(raw) == [e \in Tested(raw) |-> raw[e].p]

LEMMA ComparisonFacts ==
  ASSUME NEW raw, NEW e \in DOMAIN raw
  PROVE  LET result == Comparisons(raw)[e]
             holm == Holm(TestedValues(raw))
         IN /\ DOMAIN Comparisons(raw) = DOMAIN raw
            /\ result.raw = raw[e]
            /\ result.adjusted = IF e \in Tested(raw) THEN holm[e] ELSE raw[e].p
            /\ result.regressed <=> e \in Tested(raw) /\ holm[e] =< Alpha /\ raw[e].slower
<1>. DEFINE tested == Tested(raw)
            holm == Holm(TestedValues(raw))
            compared == [x \in DOMAIN raw |->
                           [raw |-> raw[x], adjusted |-> IF x \in tested THEN holm[x] ELSE raw[x].p,
                            regressed |-> x \in tested /\ holm[x] =< Alpha /\ raw[x].slower]]
<1>1. Comparisons(raw) = compared
  BY DEF Comparisons, Tested, TestedValues
<1>. HIDE DEF tested, holm
<1>2. /\ DOMAIN compared = DOMAIN raw /\ compared[e].raw = raw[e]
      /\ compared[e].adjusted = IF e \in tested THEN holm[e] ELSE raw[e].p
      /\ compared[e].regressed <=> e \in tested /\ holm[e] =< Alpha /\ raw[e].slower
  OBVIOUS
<1>. QED
  BY <1>1, <1>2 DEF tested, holm

\* The tested values are a finite family on the scale.
LEMMA TestedFacts ==
  ASSUME NEW E, IsFiniteSet(E), NEW raw \in Raws(E)
  PROVE  /\ Tested(raw) \subseteq E /\ IsFiniteSet(Tested(raw))
         /\ TestedValues(raw) \in Values(Tested(raw))
         /\ \A e \in Tested(raw) : TestedValues(raw)[e] = raw[e].p
<1>1. DOMAIN raw = E /\ \A e \in E : raw[e].p \in 0 .. PScale
  BY DEF Raws, RawResults
<1>2. Tested(raw) \in SUBSET E
  BY <1>1 DEF Tested
<1>3. IsFiniteSet(Tested(raw))
  BY <1>2, FS_Subset
<1>. QED
  BY <1>1, <1>2, <1>3 DEF TestedValues, Values

\* No comparison breaks the contract of the report.
LEMMA ComparisonAbove ==
  ASSUME NEW E, IsFiniteSet(E), PScale \in Nat, NEW raw \in Raws(E), NEW e \in E
  PROVE  ComparisonOk(Comparisons(raw)[e])
<1>1. DOMAIN raw = E /\ raw[e].p \in 0 .. PScale /\ (e \in Tested(raw) <=> raw[e].comparable)
  BY DEF Raws, RawResults, Tested
<1>2. ASSUME e \in Tested(raw) PROVE raw[e].p =< Holm(TestedValues(raw))[e]
  BY <1>2, TestedFacts, HolmAbove
<1>3. ASSUME e \notin Tested(raw) PROVE raw[e].p =< raw[e].p
  BY <1>1
<1>. QED
  BY <1>1, <1>2, <1>3, ComparisonFacts DEF ComparisonOk

Rejected(compared, F) ==
  \E e \in F : Min({Cardinality(F) * compared[e].raw.p, PScale}) =< Alpha

\* The comparisons called regressed are the slower ones among those that the
\* closed test over the comparable ones rejects.
LEMMA ComparisonsClosed ==
  ASSUME NEW E, IsFiniteSet(E), PScale \in Nat, Alpha \in Nat, NEW raw \in Raws(E), NEW e \in E,
         NEW compared, compared = Comparisons(raw)
  PROVE  LET tested == {x \in DOMAIN compared : compared[x].raw.comparable}
         IN compared[e].regressed
              <=> /\ e \in tested /\ compared[e].raw.slower
                  /\ \A F \in SUBSET tested : e \in F => Rejected(compared, F)
<1>. DEFINE tested == {x \in DOMAIN compared : compared[x].raw.comparable}
            p == TestedValues(raw)
<1>1. DOMAIN raw = E /\ DOMAIN compared = E
  BY DEF Raws, Comparisons
<1>2. \A f \in E : compared[f].raw = raw[f]
  BY <1>1, ComparisonFacts
<1>3. tested = Tested(raw)
  BY <1>1, <1>2 DEF Tested
<1>4. /\ Tested(raw) \subseteq E /\ IsFiniteSet(Tested(raw)) /\ p \in Values(Tested(raw))
      /\ \A f \in Tested(raw) : p[f] = raw[f].p
  BY TestedFacts
<1>. HIDE DEF tested, p
<1>5. compared[e].regressed <=> e \in Tested(raw) /\ Holm(p)[e] =< Alpha /\ raw[e].slower
  BY <1>1, ComparisonFacts DEF p
<1>6. e \in Tested(raw) => (Holm(p)[e] =< Alpha <=> \A F \in SUBSET Tested(raw) : e \in F => Rejects(p, F))
  BY <1>4, HolmClosed
<1>7. \A F \in SUBSET Tested(raw) : Rejects(p, F) <=> Rejected(compared, F)
  <2>. SUFFICES ASSUME NEW F \in SUBSET Tested(raw) PROVE Rejects(p, F) <=> Rejected(compared, F)
    OBVIOUS
  <2>1. \A f \in F : compared[f].raw.p = p[f]
    BY <1>2, <1>4
  <2>. QED
    BY <2>1 DEF Rejects, Rejected
<1>8. compared[e].raw.slower = raw[e].slower
  BY <1>2
<1>9. compared[e].regressed
        <=> /\ e \in tested /\ compared[e].raw.slower
            /\ \A F \in SUBSET tested : e \in F => Rejected(compared, F)
  BY <1>3, <1>5, <1>6, <1>7, <1>8
<1>. QED
  BY <1>9 DEF tested

\* The raw results that the merger compares again.
MergedRaws(reports) ==
  LET all == Union({r.bench.compared : r \in All(reports)})
  IN [e \in DOMAIN all |-> all[e].raw]

\* A job's raw results are results on the scale.
LEMMA RawFacts ==
  ASSUME ShardAssumption, NEW job, job.is \in Outcomes, NEW E, E \subseteq Execs
  PROVE  [e \in E |-> RawOf(job, e)] \in Raws(E)
<1>1. \A e \in Execs : job.is.p[e] \in 0 .. PScale /\ PScale \in 0 .. PScale
  BY DEF ShardAssumption
<1>2. ASSUME NEW e \in E
      PROVE  RawOf(job, e) \in RawResults
  BY <1>1 DEF RawOf, RawResults
<1>. QED
  BY <1>2 DEF Raws

\* Every report compares executions, by the raw results of its job.
LEMMA BenchFacts ==
  ASSUME ShardAssumption, TypeOK, RunsInv, NEW i \in DOMAIN runs
  PROVE  LET compared == Doc(i).bench.compared
         IN /\ DOMAIN compared \subseteq Execs \intersect Benches
            /\ \A e \in DOMAIN compared : /\ compared[e].raw = RawOf(Job(i), e)
                                          /\ compared[e].raw \in RawResults
<1>. DEFINE job == Job(i)
            measured == IF job.is.conf.bench THEN (Ran(job) \intersect Benches) \ job.is.bad ELSE {}
            raw == [e \in measured |-> RawOf(job, e)]
<1>1. Doc(i).bench.compared = Comparisons(raw)
  <2>1. Doc(i).bench = BenchOf(job)
    BY DocFacts, ReportFacts
  <2>2. BenchOf(job).compared = Comparisons(raw)
    BY DEF BenchOf
  <2>. QED
    BY <2>1, <2>2
<1>2. measured \subseteq Execs \intersect Benches
  BY DEF Ran, Selected, Known
<1>3. job.is \in Outcomes
  BY DEF TypeOK, Job
<1>. HIDE DEF measured, job
<1>4. raw \in Raws(measured) /\ DOMAIN raw = measured
  BY <1>2, <1>3, RawFacts
<1>5. \A e \in measured : raw[e] = RawOf(job, e) /\ raw[e] \in RawResults
  BY <1>4 DEF Raws
<1>6. DOMAIN raw = measured
  BY <1>4
<1>. HIDE DEF raw
<1>7. DOMAIN Comparisons(raw) = measured /\ \A e \in measured : Comparisons(raw)[e].raw = raw[e]
  <2>1. DOMAIN Comparisons(raw) = DOMAIN raw
    BY DEF Comparisons
  <2>2. \A e \in DOMAIN raw : Comparisons(raw)[e].raw = raw[e]
    BY ComparisonFacts
  <2>. QED
    BY <2>1, <2>2, <1>6
<1>. QED
  BY <1>1, <1>2, <1>5, <1>7 DEF job

\* The merged comparisons are those of the merged results, a finite family.
LEMMA MergedRawFacts ==
  ASSUME ShardAssumption, TypeOK, RunsInv, NEW ids \in Seq(DOMAIN runs)
  PROVE  LET raw == MergedRaws(Reports(ids))
         IN /\ MergedBench(Reports(ids)).compared = Comparisons(raw)
            /\ IsFiniteSet(DOMAIN raw) /\ raw \in Raws(DOMAIN raw) /\ DOMAIN raw \subseteq Benches
            /\ \A e \in DOMAIN raw : \E i \in All(ids) : raw[e] = RawOf(Job(i), e)
            /\ PScale \in Nat /\ Alpha \in Nat
<1>. DEFINE all == {r.bench.compared : r \in All(Reports(ids))}
            merged == Union(all)
            raw == MergedRaws(Reports(ids))
<1>1. MergedBench(Reports(ids)).compared = Comparisons(raw)
  BY DEF MergedBench, MergedRaws
<1>2. \A f \in all : /\ DOMAIN f \subseteq Execs \intersect Benches
                     /\ \E i \in All(ids) : \A e \in DOMAIN f : f[e].raw = RawOf(Job(i), e)
                     /\ \A e \in DOMAIN f : f[e].raw \in RawResults
  <2>1. \A r \in All(Reports(ids)) : \E i \in All(ids) : i \in DOMAIN runs /\ r = Doc(i)
    BY ReportsIn
  <2>. SUFFICES ASSUME NEW f \in all
                PROVE  /\ DOMAIN f \subseteq Execs \intersect Benches
                       /\ \E i \in All(ids) : \A e \in DOMAIN f : f[e].raw = RawOf(Job(i), e)
                       /\ \A e \in DOMAIN f : f[e].raw \in RawResults
    OBVIOUS
  <2>2. PICK r \in All(Reports(ids)) : f = r.bench.compared
    OBVIOUS
  <2>3. PICK i \in All(ids) : i \in DOMAIN runs /\ r = Doc(i)
    BY <2>1
  <2>4. f = Doc(i).bench.compared
    BY <2>2, <2>3
  <2>5. /\ DOMAIN f \subseteq Execs \intersect Benches
        /\ \A e \in DOMAIN f : f[e].raw = RawOf(Job(i), e) /\ f[e].raw \in RawResults
    BY <2>3, <2>4, BenchFacts
  <2>. QED
    BY <2>5
<1>. HIDE DEF all
<1>3. \A e \in DOMAIN merged : /\ e \in Execs \intersect Benches /\ merged[e].raw \in RawResults
                               /\ \E i \in All(ids) : merged[e].raw = RawOf(Job(i), e)
  <2>. SUFFICES ASSUME NEW e \in DOMAIN merged
                PROVE  /\ e \in Execs \intersect Benches /\ merged[e].raw \in RawResults
                       /\ \E i \in All(ids) : merged[e].raw = RawOf(Job(i), e)
    OBVIOUS
  <2>1. PICK f \in all : e \in DOMAIN f /\ merged[e] = f[e]
    BY UnionValue
  <2>. QED
    BY <2>1, <1>2
<1>4. raw = [e \in DOMAIN merged |-> merged[e].raw]
  BY DEF MergedRaws, all
<1>. HIDE DEF merged, raw
<1>5. DOMAIN raw = DOMAIN merged /\ raw \in Raws(DOMAIN raw)
  BY <1>3, <1>4 DEF Raws
<1>6. IsFiniteSet(DOMAIN raw)
  <2>1. DOMAIN raw \in SUBSET Execs
    BY <1>3, <1>5
  <2>. QED
    BY <2>1, FS_Subset DEF ShardAssumption
<1>7. /\ DOMAIN raw \subseteq Benches
      /\ \A e \in DOMAIN raw : \E i \in All(ids) : raw[e] = RawOf(Job(i), e)
  BY <1>3, <1>4, <1>5
<1>8. PScale \in Nat /\ Alpha \in Nat
  BY DEF ShardAssumption
<1>. QED
  BY <1>1, <1>5, <1>6, <1>7, <1>8 DEF raw

\* The merged comparisons are those of the closed test.
LEMMA MergedClosed ==
  ASSUME ShardAssumption, TypeOK, RunsInv, NEW ids \in Seq(DOMAIN runs)
  PROVE  LET compared == MergedBench(Reports(ids)).compared
             tested == {x \in DOMAIN compared : compared[x].raw.comparable}
         IN \A e \in DOMAIN compared :
              compared[e].regressed
                <=> /\ e \in tested /\ compared[e].raw.slower
                    /\ \A F \in SUBSET tested : e \in F => Rejected(compared, F)
<1>. DEFINE raw == MergedRaws(Reports(ids))
            E == DOMAIN raw
            compared == MergedBench(Reports(ids)).compared
<1>1. /\ compared = Comparisons(raw) /\ IsFiniteSet(E) /\ raw \in Raws(E)
      /\ PScale \in Nat /\ Alpha \in Nat
  BY MergedRawFacts
<1>. HIDE DEF raw, compared
<1>2. DOMAIN compared = E
  BY <1>1 DEF Comparisons
<1>3. \A e \in E : LET tested == {x \in DOMAIN compared : compared[x].raw.comparable}
                  IN compared[e].regressed
                       <=> /\ e \in tested /\ compared[e].raw.slower
                           /\ \A F \in SUBSET tested : e \in F => Rejected(compared, F)
  <2>. HIDE DEF E
  <2>. QED
    BY <1>1, ComparisonsClosed
<1>. QED
  BY <1>2, <1>3 DEF compared

-----------------------------------------------------------------------------
(* A matrix in which nothing went wrong.  What the merger holds against the *)
(* reports it has read is kept apart from the invariant above.              *)

\* A report lies in the directory of its run, and the merger reads it there.
DirInv == \A d \in Dirs : disk[d].report # 0 => Job(disk[d].report).dir = d
PathsInv == \A k \in 1 .. Len(read) : Job(read[k]).dir = paths[k]

\* No coverage lies in the directories given to the merger.
Bare == \A k \in 1 .. Len(paths) : disk[paths[k]].coverage = 0

\* The verdict on the runs ids, were there no coverage, is not green.
Blamed(ids) ==
  \/ ~Consistent(Reports(ids))
  \/ LET m == Merged(Reports(ids), Artifacts(<< >>)) IN ~ReportOk(m) \/ ~Green(m)

\* A merger that has read all reports and met no coverage refuses them, and calls
\* them red, only for what is in the reports.
BlameInv ==
  /\ stage = "publish" /\ Bare => covers = << >>
  /\ stage = "idle" /\ last.code \in {1, 2} /\ Len(paths) = Len(read) /\ Bare => Blamed(read)

FairInv == DirInv /\ PathsInv /\ BlameInv

\* What jobs do to the files.
LEMMA DiskSteps ==
  ASSUME ShardAssumption, IInv,
         \/ \E d \in Dirs : StartRun(d)
         \/ \E i \in 1 .. Len(runs) : FinishRun(i)
         \/ Commit
  PROVE  /\ Grows /\ UNCHANGED <<merger, dest, last>>
         /\ \A d \in Dirs :
              /\ disk'[d].coverage = 0 => disk[d].coverage = 0
              /\ \/ disk'[d].report = disk[d].report
                 \/ disk'[d].report \in DOMAIN runs /\ Job(disk'[d].report).dir = d
<1>0. TypeOK /\ RunsInv
  BY DEF IInv
<1>1. Len(runs) \in Nat /\ DOMAIN runs = 1 .. Len(runs)
      /\ disk \in [Dirs -> [report : 0 .. Len(runs), coverage : 0 .. Len(runs)]]
  BY <1>0 DEF RunsInv, TypeOK
<1>2. \A d \in Dirs : \E a, b : disk[d] = [report |-> a, coverage |-> b]
  <2>1. \A S : \A x \in [report : S, coverage : S] : x = [report |-> x.report, coverage |-> x.coverage]
    OBVIOUS
  <2>2. \A d \in Dirs : disk[d] \in [report : 0 .. Len(runs), coverage : 0 .. Len(runs)]
    BY <1>1
  <2>. QED
    BY <2>1, <2>2
<1>4. CASE \E d \in Dirs : StartRun(d)
  <2>1. PICK d \in Dirs : StartRun(d)
    BY <1>4
  <2>2. Grows /\ (disk' = disk \/ disk' = [disk EXCEPT ![d].coverage = Len(runs) + 1])
    BY <1>0, <2>1, StartGrows
  <2>3. UNCHANGED <<merger, dest, last>>
    BY <2>1 DEF StartRun
  <2>4. Len(runs) + 1 # 0
    BY <1>1
  <2>. DEFINE v == Len(runs) + 1
              new == [disk EXCEPT ![d].coverage = v]
  <2>4a. v # 0 /\ (disk' = disk \/ disk' = new)
    BY <2>2, <2>4
  <2>4b. \A e \in Dirs : /\ new[e].report = disk[e].report
                         /\ new[e].coverage = IF e = d THEN v ELSE disk[e].coverage
    <3>. SUFFICES ASSUME NEW e \in Dirs
                  PROVE  /\ new[e].report = disk[e].report
                         /\ new[e].coverage = IF e = d THEN v ELSE disk[e].coverage
      OBVIOUS
    <3>1. PICK a, b : disk[e] = [report |-> a, coverage |-> b]
      BY <1>2
    <3>. HIDE DEF v
    <3>2. new[e] = IF e = d THEN [disk[e] EXCEPT !.coverage = v] ELSE disk[e]
      BY <1>1
    <3>3. [disk[e] EXCEPT !.coverage = v] = [report |-> a, coverage |-> v]
      BY <3>1
    <3>. QED
      BY <3>1, <3>2, <3>3
  <2>. HIDE DEF v, new
  <2>5. \A e \in Dirs : /\ disk'[e].coverage = 0 => disk[e].coverage = 0
                        /\ disk'[e].report = disk[e].report
    BY <2>4a, <2>4b
  <2>. QED
    BY <2>2, <2>3, <2>5
<1>5. CASE \E i \in 1 .. Len(runs) : FinishRun(i)
  <2>1. PICK i \in 1 .. Len(runs) : FinishRun(i)
    BY <1>5
  <2>2. Grows
    BY <1>0, <2>1, FinishGrows
  <2>3. UNCHANGED <<merger, dest, last>> /\ disk' = [disk EXCEPT ![Job(i).dir].report = i]
    BY <2>1 DEF FinishRun, Job
  <2>4. i \in DOMAIN runs /\ Job(i).dir \in Dirs
    BY <1>0, <1>1 DEF TypeOK, Job
  <2>. DEFINE d == Job(i).dir
              new == [disk EXCEPT ![d].report = i]
  <2>4a. d \in Dirs /\ disk' = new
    BY <2>3, <2>4
  <2>. HIDE DEF d
  <2>4b. \A e \in Dirs : /\ new[e].coverage = disk[e].coverage
                         /\ new[e].report = IF e = d THEN i ELSE disk[e].report
    <3>. SUFFICES ASSUME NEW e \in Dirs
                  PROVE  /\ new[e].coverage = disk[e].coverage
                         /\ new[e].report = IF e = d THEN i ELSE disk[e].report
      OBVIOUS
    <3>1. PICK a, b : disk[e] = [report |-> a, coverage |-> b]
      BY <1>2
    <3>2. new[e] = IF e = d THEN [disk[e] EXCEPT !.report = i] ELSE disk[e]
      BY <1>1
    <3>3. [disk[e] EXCEPT !.report = i] = [report |-> i, coverage |-> b]
      BY <3>1
    <3>. QED
      BY <3>1, <3>2, <3>3
  <2>5. \A e \in Dirs : /\ disk'[e].coverage = disk[e].coverage
                        /\ disk'[e].report = IF e = Job(i).dir THEN i ELSE disk[e].report
    BY <2>4a, <2>4b DEF d
  <2>. QED
    BY <2>2, <2>3, <2>4, <2>5
<1>6. CASE Commit
  BY <1>6 DEF Commit, Grows
<1>. QED
  BY <1>4, <1>5, <1>6

\* Jobs do not change what the merger holds against the reports it has read.
LEMMA EnvFair ==
  ASSUME ShardAssumption, IInv, FairInv,
         \/ \E d \in Dirs : StartRun(d)
         \/ \E i \in 1 .. Len(runs) : FinishRun(i)
         \/ Commit
  PROVE  FairInv'
<1>1. /\ Grows /\ UNCHANGED <<stage, paths, read, covers, last>>
      /\ \A d \in Dirs :
           /\ disk'[d].coverage = 0 => disk[d].coverage = 0
           /\ \/ disk'[d].report = disk[d].report
              \/ disk'[d].report \in DOMAIN runs /\ Job(disk'[d].report).dir = d
  BY DiskSteps DEF merger
<1>2. /\ read \in Seq(DOMAIN runs) /\ paths \in Seq(Dirs)
      /\ \A d \in Dirs : disk[d].report # 0 => disk[d].report \in DOMAIN runs
  <2>1. Len(runs) \in Nat /\ DOMAIN runs = 1 .. Len(runs)
    BY DEF IInv, RunsInv
  <2>2. \A d \in Dirs : disk[d].report \in 0 .. Len(runs)
    BY DEF IInv, TypeOK
  <2>3. read \in Seq(DOMAIN runs) /\ paths \in Seq(Dirs)
    BY DEF IInv, TypeOK
  <2>. QED
    BY <2>1, <2>2, <2>3
<1>3. \A i \in DOMAIN runs : Job(i)' = Job(i)
  BY <1>1, StableDocs
<1>4. DirInv'
  <2>. SUFFICES ASSUME NEW d \in Dirs, disk'[d].report # 0
                PROVE  runs'[disk'[d].report].job.dir = d
    BY DEF DirInv, Job
  <2>1. disk'[d].report \in DOMAIN runs /\ Job(disk'[d].report).dir = d
    BY <1>1, <1>2 DEF FairInv, DirInv
  <2>. QED
    BY <2>1, <1>1 DEF Grows, Job
<1>5. PathsInv'
  <2>. SUFFICES ASSUME NEW k \in 1 .. Len(read) PROVE runs'[read[k]].job.dir = paths[k]
    BY <1>1 DEF PathsInv, Job
  <2>1. read[k] \in DOMAIN runs
    BY <1>2
  <2>2. Job(read[k]).dir = paths[k]
    BY DEF FairInv, PathsInv
  <2>. QED
    BY <2>1, <2>2, <1>1 DEF Grows, Job
<1>6. Bare' => Bare
  <2>1. \A k \in 1 .. Len(paths) : paths[k] \in Dirs
    BY <1>2
  <2>. QED
    BY <2>1, <1>1 DEF Bare
<1>7. BlameInv'
  <2>1. Reports(read)' = Reports(read) /\ Artifacts(<< >>)' = Artifacts(<< >>)
    <3>1. << >> \in Seq(DOMAIN runs)
      OBVIOUS
    <3>. QED
      BY <3>1, <1>1, <1>2, StableReports
  <2>2. Blamed(read)' = Blamed(read)
    BY <2>1 DEF Blamed
  <2>. QED
    BY <2>2, <1>1, <1>6 DEF FairInv, BlameInv
<1>. QED
  BY <1>4, <1>5, <1>7 DEF FairInv

\* A merger that ends blames what it has read, if it is to blame anything.
LEMMA EndFair ==
  ASSUME FairInv, NEW code, NEW wrote, End(code, wrote),
         code \in {1, 2} /\ Len(paths) = Len(read) /\ Bare => Blamed(read)
  PROVE  FairInv'
<1>1. /\ stage' = "idle" /\ UNCHANGED <<paths, read, covers, runs, disk>> /\ last'.code = code
  BY DEF End, env
<1>2. DirInv' /\ PathsInv'
  BY <1>1 DEF FairInv, DirInv, PathsInv, Job
<1>3. Blamed(read)' = Blamed(read) /\ Bare' = Bare
  <2>1. Reports(read)' = Reports(read) /\ Artifacts(<< >>)' = Artifacts(<< >>)
    BY <1>1 DEF Reports, Artifacts, Doc, Art
  <2>. QED
    BY <2>1, <1>1 DEF Blamed, Bare
<1>4. BlameInv'
  BY <1>1, <1>3 DEF BlameInv
<1>. QED
  BY <1>2, <1>4 DEF FairInv

\* Neither does a merger that goes on, while it has published nothing.
LEMMA GoesOnFair ==
  ASSUME FairInv, UNCHANGED <<runs, disk>>, stage' # "idle", PathsInv',
         stage' = "publish" /\ Bare' => covers' = << >>
  PROVE  FairInv'
<1>1. DirInv'
  BY DEF FairInv, DirInv, Job
<1>2. BlameInv'
  BY DEF BlameInv
<1>. QED
  BY <1>1, <1>2 DEF FairInv

LEMMA ReadReportFair ==
  ASSUME IInv, FairInv, ReadReport
  PROVE  FairInv'
<1>. DEFINE id == disk[paths[Len(read) + 1]].report
<1>1. Len(read) < Len(paths) /\ Len(read) \in Nat /\ Len(paths) \in Nat
      /\ read \in Seq(DOMAIN runs) /\ paths \in Seq(Dirs)
  <2>1. read \in Seq(DOMAIN runs) /\ paths \in Seq(Dirs)
    BY DEF IInv, TypeOK
  <2>2. Len(read) < Len(paths)
    BY DEF ReadReport, IInv, MergerInv
  <2>. QED
    BY <2>1, <2>2
<1>2. CASE id = 0
  <2>1. End(2, FALSE)
    BY <1>2 DEF ReadReport, Refuse
  <2>2. ~(Len(paths) = Len(read))
    BY <1>1
  <2>. QED
    BY <2>1, <2>2, EndFair
<1>3. CASE id # 0
  <2>1. /\ read' = Append(read, id) /\ stage' # "idle" /\ stage' # "publish"
        /\ UNCHANGED <<paths, runs, disk>>
    BY <1>3 DEF ReadReport, env
  <2>2. Len(read) + 1 \in 1 .. Len(paths) /\ paths[Len(read) + 1] \in Dirs
    BY <1>1
  <2>3. Job(id).dir = paths[Len(read) + 1]
    BY <1>3, <2>2 DEF FairInv, DirInv
  <2>4. PathsInv'
    <3>. HIDE DEF id
    <3>1. Len(read') = Len(read) + 1 /\ read'[Len(read) + 1] = id
          /\ \A k \in 1 .. Len(read) : read'[k] = read[k]
      BY <2>1, <1>1
    <3>. SUFFICES ASSUME NEW k \in 1 .. Len(read) + 1 PROVE Job(read'[k]).dir = paths[k]
      BY <2>1, <3>1 DEF PathsInv, Job
    <3>2. CASE k = Len(read) + 1
      BY <3>1, <3>2, <2>3
    <3>3. CASE k # Len(read) + 1
      <4>1. k \in 1 .. Len(read)
        BY <3>3, <1>1
      <4>. QED
        BY <4>1, <3>1 DEF FairInv, PathsInv
    <3>. QED
      BY <3>2, <3>3
  <2>. QED
    BY <2>1, <2>4, GoesOnFair
<1>. QED
  BY <1>2, <1>3

LEMMA MergeCoverageFair ==
  ASSUME IInv, FairInv, MergeCoverage
  PROVE  FairInv'
<1>. DEFINE cov == [k \in Places(read) |-> disk[paths[k]].coverage]
            result == CoverageResult(read, cov)
<1>1. Len(read) = Len(paths)
  BY DEF MergeCoverage, IInv, MergerInv
<1>2. Bare => result = "none"
  <2>. SUFFICES ASSUME Bare PROVE result = "none"
    OBVIOUS
  <2>1. \A k \in Places(read) : cov[k] = 0
    BY <1>1 DEF Bare, Places
  <2>. HIDE DEF cov
  <2>2. {k \in Places(read) : cov[k] = 0} = Places(read)
    BY <2>1
  <2>. QED
    BY <2>2 DEF CoverageResult
<1>3. CASE result \in {"refused", "invalid"}
  <2>1. End(2, FALSE) \/ End(1, FALSE)
    BY <1>3 DEF MergeCoverage, Refuse, Traceback
  <2>2. ~Bare
    BY <1>2, <1>3
  <2>. QED
    BY <2>1, <2>2, EndFair
<1>4. CASE result \notin {"refused", "invalid"}
  <2>1. /\ stage' = "publish" /\ covers' = (IF result = "merged" THEN cov ELSE << >>)
        /\ UNCHANGED <<paths, read, runs, disk>>
    BY <1>4 DEF MergeCoverage, env
  <2>2. PathsInv' /\ Bare' = Bare
    BY <2>1 DEF FairInv, PathsInv, Job, Bare
  <2>3. Bare => covers' = << >>
    <3>1. Bare => result # "merged"
      BY <1>2
    <3>. HIDE DEF result
    <3>. QED
      BY <2>1, <3>1
  <2>. QED
    BY <2>1, <2>2, <2>3, GoesOnFair
<1>. QED
  BY <1>3, <1>4

LEMMA PublishFair ==
  ASSUME IInv, FairInv, Publish
  PROVE  FairInv'
<1>. DEFINE m == Merged(Reports(read), Artifacts(covers))
            none == Merged(Reports(read), Artifacts(<< >>))
<1>1. Bare => m = none
  BY DEF Publish, FairInv, BlameInv
<1>2. CASE ~ReportOk(m)
  <2>1. End(1, FALSE)
    BY <1>2 DEF Publish, Traceback
  <2>2. Bare => Blamed(read)
    BY <1>1, <1>2 DEF Blamed
  <2>. QED
    BY <2>1, <2>2, EndFair
<1>3. CASE ReportOk(m) /\ ~Green(m)
  <2>1. End(1, TRUE)
    BY <1>3 DEF Publish
  <2>2. Bare => Blamed(read)
    BY <1>1, <1>3 DEF Blamed
  <2>. QED
    BY <2>1, <2>2, EndFair
<1>4. CASE ReportOk(m) /\ Green(m)
  <2>1. End(0, TRUE)
    BY <1>4 DEF Publish
  <2>2. 0 \notin {1, 2}
    OBVIOUS
  <2>. QED
    BY <2>1, <2>2, EndFair
<1>. QED
  BY <1>2, <1>3, <1>4

\* No step of a job or of the merger makes it blame a report wrongly.
LEMMA NextFair ==
  ASSUME ShardAssumption, IInv, FairInv, [Next]_vars
  PROVE  FairInv'
<1>1. CASE \/ \E d \in Dirs : StartRun(d)
           \/ \E i \in 1 .. Len(runs) : FinishRun(i)
           \/ Commit
  BY <1>1, EnvFair
<1>2. CASE StartMerge
  <2>1. read' = << >> /\ stage' = "read" /\ UNCHANGED <<runs, disk>>
    BY <1>2 DEF StartMerge, env
  <2>2. PathsInv'
    BY <2>1 DEF PathsInv
  <2>. QED
    BY <2>1, <2>2, GoesOnFair
<1>3. CASE ReadReport
  BY <1>3, ReadReportFair
<1>4. CASE Check
  <2>1. CASE Consistent(Reports(read))
    <3>1. stage' = "coverage" /\ UNCHANGED <<paths, read, runs, disk>>
      BY <1>4, <2>1 DEF Check, env
    <3>2. PathsInv'
      BY <3>1 DEF FairInv, PathsInv, Job
    <3>. QED
      BY <3>1, <3>2, GoesOnFair
  <2>2. CASE ~Consistent(Reports(read))
    <3>1. End(2, FALSE)
      BY <1>4, <2>2 DEF Check, Refuse
    <3>. QED
      BY <3>1, <2>2, EndFair DEF Blamed
  <2>. QED
    BY <2>1, <2>2
<1>5. CASE MergeCoverage
  BY <1>5, MergeCoverageFair
<1>6. CASE Publish
  BY <1>6, PublishFair
<1>7. CASE Die
  <2>1. End(Killed, FALSE)
    BY <1>7 DEF Die
  <2>2. Killed \notin {1, 2}
    BY DEF Killed
  <2>. QED
    BY <2>1, <2>2, EndFair
<1>8. CASE UNCHANGED vars
  <2>1. UNCHANGED <<runs, disk, stage, paths, read, covers, last>>
    BY <1>8 DEF vars, env, merger
  <2>2. DirInv' /\ PathsInv'
    BY <2>1 DEF FairInv, DirInv, PathsInv, Job
  <2>3. BlameInv'
    <3>1. Reports(read)' = Reports(read) /\ Artifacts(<< >>)' = Artifacts(<< >>)
      BY <2>1 DEF Reports, Artifacts, Doc, Art
    <3>2. Blamed(read)' = Blamed(read) /\ Bare' = Bare
      BY <2>1, <3>1 DEF Blamed, Bare
    <3>. QED
      BY <2>1, <3>2 DEF FairInv, BlameInv
  <2>. QED
    BY <2>2, <2>3 DEF FairInv
<1>. QED
  BY <1>1, <1>2, <1>3, <1>4, <1>5, <1>6, <1>7, <1>8 DEF Next

LEMMA InitFair ==
  ASSUME Init
  PROVE  FairInv
<1>1. DirInv
  BY DEF Init, DirInv
<1>2. PathsInv /\ BlameInv
  BY DEF Init, Untouched, PathsInv, BlameInv
<1>. QED
  BY <1>1, <1>2 DEF FairInv

-----------------------------------------------------------------------------
\* Runs that deviate in nothing.
Undeviating(job) ==
  /\ job.is.conf = conf /\ job.is.skew = 0 /\ job.is.unknown = {} /\ job.is.bad = {}
  /\ job.is.cut = {} /\ ~job.is.crash /\ ~job.is.reporter /\ job.is.unloaded = {}

\* Deviations counts what a run deviates in.
LEMMA NoDeviation ==
  ASSUME NEW job, Deviations(job.is) = 0
  PROVE  Undeviating(job)
<1>. DEFINE a == IF job.is.conf # conf THEN 1 ELSE 0
            b == IF job.is.skew # 0 THEN 1 ELSE 0
            c == IF job.is.unknown # {} THEN 1 ELSE 0
            d == IF job.is.bad # {} THEN 1 ELSE 0
            e == IF job.is.cut # {} THEN 1 ELSE 0
            f == IF job.is.crash THEN 1 ELSE 0
            g == IF job.is.reporter THEN 1 ELSE 0
            h == IF job.is.unloaded # {} THEN 1 ELSE 0
<1>1. /\ a \in Nat /\ b \in Nat /\ c \in Nat /\ d \in Nat
      /\ e \in Nat /\ f \in Nat /\ g \in Nat /\ h \in Nat
  OBVIOUS
<1>2. a + b + c + d + e + f + g + h = 0
  BY DEF Deviations
<1>3. a = 0 /\ b = 0 /\ c = 0 /\ d = 0 /\ e = 0 /\ f = 0 /\ g = 0 /\ h = 0
  <2>. HIDE DEF a, b, c, d, e, f, g, h
  <2>. QED
    BY <1>1, <1>2
<1>. QED
  BY <1>3 DEF Undeviating

\* What such a run reports.
LEMMA CleanReport ==
  ASSUME ShardAssumption, conf \in Confs, NEW job, Undeviating(job), job.is \in Outcomes,
         job.dir \in 0 .. conf.shards - 1
  PROVE  LET n == conf.shards
             ran == {e \in Execs : Slot[e] % n = job.dir}
             r == Report(job, NoCoverage)
         IN /\ Index(job) = job.dir /\ Known(job) = Execs /\ Ran(job) = ran
            /\ r.profile = conf.profile /\ r.sections = (conf.profile = "full")
            /\ r.revision = job.revision /\ r.conf = conf /\ r.coverage = NoCoverage
            /\ r.run = job.id
            /\ r.shard = [index |-> job.dir, count |-> n, merged |-> FALSE, indices |-> {},
                          selected |-> ran]
            /\ r.tests = [e \in Execs |-> [assigned |-> Slot[e] % n,
                                           selected |-> e \in ran, shardable |-> TRUE]]
            /\ r.rows = [e \in ran |-> [status |-> "pass", muted |-> FALSE,
                                        quarantined |-> job.is.muted, says |-> NoTrouble]]
            /\ r.summary = Tally(r.rows)
            /\ r.completion = [complete |-> TRUE, missing |-> {}, reason |-> "completed"]
            /\ r.snapshots = SnapshotsOf(job) /\ r.bench = BenchOf(job)
            /\ (~conf.snapGate => ~r.errors)
            /\ r.events = Events(job.id, r.rows, r.summary, r.snapshots, r.bench)
<1>. DEFINE n == conf.shards
            ran == {e \in Execs : Slot[e] % n = job.dir}
            r == Report(job, NoCoverage)
            rows == RowsOf(job, NoTrouble)
            tests == TestsOf(job, NoTrouble)
<1>1. n \in Nat /\ n > 0 /\ job.dir \in Nat /\ job.dir < n
  BY DEF ShardAssumption
<1>2. Index(job) = job.dir
  <2>1. Index(job) = (job.dir + 0) % n
    BY DEF Index, Undeviating
  <2>. QED
    BY <2>1, <1>1
<1>3. Known(job) = Execs
  BY DEF Known, Undeviating
<1>4. Selected(job) = ran /\ Ran(job) = ran
  BY <1>2, <1>3 DEF Selected, Assigned, Ran, Undeviating
<1>5. Trouble(job, NoCoverage) = NoTrouble
  <2>1. job.is.crash = FALSE
    BY DEF Undeviating, ShardAssumption
  <2>. QED
    BY <2>1 DEF Trouble, NoTrouble
<1>6. Framework \notin Execs
  BY DEF ShardAssumption
<1>7. rows = [e \in ran |-> [status |-> "pass", muted |-> FALSE,
                             quarantined |-> job.is.muted, says |-> NoTrouble]]
  BY <1>4, <1>6 DEF RowsOf, Undeviating
<1>8. tests = [e \in Execs |-> [assigned |-> Slot[e] % n, selected |-> e \in ran, shardable |-> TRUE]]
  BY <1>3, <1>4, <1>6 DEF TestsOf, Assigned, Undeviating
<1>9. SelectedIn(tests) = ran
  <2>1. DOMAIN tests = Execs /\ \A e \in Execs : tests[e].selected <=> e \in ran
    <3>. DEFINE test(e) == [assigned |-> Slot[e] % n, selected |-> e \in ran, shardable |-> TRUE]
    <3>1. tests = [e \in Execs |-> test(e)]
      BY <1>8
    <3>. HIDE DEF tests, ran
    <3>2. \A e : test(e).selected <=> e \in ran
      OBVIOUS
    <3>3. DOMAIN tests = Execs /\ \A e \in Execs : tests[e] = test(e)
      BY <3>1
    <3>. QED
      BY <3>2, <3>3
  <2>2. ran \subseteq Execs
    OBVIOUS
  <2>. HIDE DEF tests, ran
  <2>. QED
    BY <2>1, <2>2 DEF SelectedIn
<1>10. DOMAIN rows = ran
  BY <1>7
<1>11. /\ r.profile = conf.profile /\ r.sections = (conf.profile = "full")
       /\ r.revision = job.revision /\ r.conf = conf /\ r.coverage = NoCoverage /\ r.run = job.id
       /\ r.shard = [index |-> Index(job), count |-> n, merged |-> FALSE, indices |-> {},
                     selected |-> SelectedIn(tests)]
       /\ r.tests = tests /\ r.rows = rows /\ r.summary = Tally(rows)
       /\ r.snapshots = SnapshotsOf(job) /\ r.bench = BenchOf(job)
       /\ r.events = Events(job.id, rows, Tally(rows), SnapshotsOf(job), BenchOf(job))
  BY <1>5 DEF Report, Undeviating
<1>12. r.completion = [complete |-> TRUE, missing |-> {}, reason |-> "completed"]
  <2>. DEFINE missing == SelectedIn(tests) \ DOMAIN rows
  <2>1. r.completion = [complete |-> missing = {} /\ NoTrouble = NoTrouble, missing |-> missing,
                        reason |-> IF NoTrouble # NoTrouble THEN "frameworkError"
                                   ELSE IF missing = {} THEN "completed" ELSE "missingResults"]
    BY <1>5 DEF Report
  <2>2. missing = {}
    BY <1>9, <1>10
  <2>. HIDE DEF missing
  <2>. QED
    BY <2>1, <2>2
<1>13. ~conf.snapGate => ~r.errors
  BY <1>5 DEF Report, Undeviating
<1>. QED
  BY <1>2, <1>3, <1>4, <1>7, <1>8, <1>9, <1>11, <1>12, <1>13

\* What such a run measures.
LEMMA CleanBench ==
  ASSUME ShardAssumption, NEW job, Undeviating(job), job.is \in Outcomes
  PROVE  LET bench == BenchOf(job)
         IN /\ bench.enabled = conf.bench /\ bench.gated = conf.bench
            /\ bench.deferred <=> conf.bench /\ conf.shards > 1
            /\ bench.deferred => bench.passed
            /\ bench.baseline = conf.baseline
            /\ bench.measured = IF conf.bench THEN Ran(job) \intersect Benches ELSE {}
            /\ DOMAIN bench.compared = bench.measured
            /\ \A e \in bench.measured : ComparisonOk(bench.compared[e])
<1>. DEFINE bench == BenchOf(job)
            measured == IF conf.bench THEN Ran(job) \intersect Benches ELSE {}
            raw == [e \in measured |-> RawOf(job, e)]
<1>1. /\ bench.enabled = conf.bench /\ bench.gated = conf.bench
      /\ bench.deferred <=> conf.bench /\ conf.shards > 1
      /\ bench.deferred => bench.passed
      /\ bench.baseline = conf.baseline
      /\ bench.measured = measured /\ bench.compared = Comparisons(raw)
  <2>1. job.is.conf = conf /\ (Ran(job) \intersect Benches) \ job.is.bad = Ran(job) \intersect Benches
    BY DEF Undeviating
  <2>. QED
    BY <2>1 DEF BenchOf
<1>2. measured \in SUBSET Execs
  BY DEF Ran, Selected, Known
<1>3. IsFiniteSet(measured)
  <2>. HIDE DEF measured
  <2>. QED
    BY <1>2, FS_Subset DEF ShardAssumption
<1>4. raw \in Raws(measured) /\ DOMAIN raw = measured /\ PScale \in Nat
  <2>1. PScale \in Nat
    BY DEF ShardAssumption
  <2>. HIDE DEF measured
  <2>. QED
    BY <2>1, <1>2, RawFacts
<1>. HIDE DEF measured, raw, bench
<1>5. DOMAIN Comparisons(raw) = measured
  BY <1>4 DEF Comparisons
<1>6. \A e \in measured : ComparisonOk(Comparisons(raw)[e])
  BY <1>3, <1>4, ComparisonAbove
<1>7. /\ bench.enabled = conf.bench /\ bench.gated = conf.bench
      /\ bench.deferred <=> conf.bench /\ conf.shards > 1
      /\ bench.deferred => bench.passed
      /\ bench.baseline = conf.baseline
      /\ bench.measured = measured
      /\ DOMAIN bench.compared = bench.measured
      /\ \A e \in bench.measured : ComparisonOk(bench.compared[e])
  BY <1>1, <1>5, <1>6
<1>. QED
  BY <1>7 DEF measured, bench

\* The contract accepts its report.
LEMMA CleanOk ==
  ASSUME ShardAssumption, conf \in Confs, NEW job, Undeviating(job), job.is \in Outcomes,
         job.dir \in 0 .. conf.shards - 1, ~conf.snapGate, conf.profile = "full"
  PROVE  ReportOk(Report(job, NoCoverage))
<1>. DEFINE n == conf.shards
            ran == {e \in Execs : Slot[e] % n = job.dir}
            r == Report(job, NoCoverage)
<1>1. /\ Index(job) = job.dir /\ Known(job) = Execs /\ Ran(job) = ran
      /\ r.profile = conf.profile /\ r.sections = (conf.profile = "full")
      /\ r.conf = conf /\ r.coverage = NoCoverage /\ r.run = job.id
      /\ r.shard = [index |-> job.dir, count |-> n, merged |-> FALSE, indices |-> {}, selected |-> ran]
      /\ r.tests = [e \in Execs |-> [assigned |-> Slot[e] % n, selected |-> e \in ran, shardable |-> TRUE]]
      /\ r.rows = [e \in ran |-> [status |-> "pass", muted |-> FALSE,
                                  quarantined |-> job.is.muted, says |-> NoTrouble]]
      /\ r.summary = Tally(r.rows)
      /\ r.completion = [complete |-> TRUE, missing |-> {}, reason |-> "completed"]
      /\ r.snapshots = SnapshotsOf(job) /\ r.bench = BenchOf(job)
      /\ ~r.errors
      /\ r.events = Events(job.id, r.rows, r.summary, r.snapshots, r.bench)
  BY CleanReport, SMTT(20)
<1>2. n \in Nat /\ n > 0 /\ job.dir \in Nat /\ job.dir < n
      /\ \A e \in Execs : Slot[e] % n \in 0 .. n - 1
  <2>1. n \in Nat /\ n > 0
    BY DEF ShardAssumption
  <2>2. \A e \in Execs : Slot[e] \in Nat
    BY DEF ShardAssumption
  <2>. QED
    BY <2>1, <2>2
<1>3. /\ r.bench.enabled = conf.bench /\ r.bench.gated = conf.bench
      /\ r.bench.deferred <=> conf.bench /\ conf.shards > 1
      /\ r.bench.deferred => r.bench.passed
      /\ r.bench.measured \subseteq ran
      /\ DOMAIN r.bench.compared = r.bench.measured
      /\ \A e \in r.bench.measured : ComparisonOk(r.bench.compared[e])
  <2>. DEFINE bench == BenchOf(job)
  <2>1. /\ bench.enabled = conf.bench /\ bench.gated = conf.bench
        /\ bench.deferred <=> conf.bench /\ conf.shards > 1
        /\ bench.deferred => bench.passed
        /\ bench.measured = IF conf.bench THEN Ran(job) \intersect Benches ELSE {}
        /\ DOMAIN bench.compared = bench.measured
        /\ \A e \in bench.measured : ComparisonOk(bench.compared[e])
    BY CleanBench
  <2>2. r.bench = bench /\ Ran(job) = ran
    BY <1>1
  <2>. HIDE DEF bench, r, ran
  <2>3. bench.measured \subseteq ran
    BY <2>1, <2>2
  <2>. QED
    BY <2>1, <2>2, <2>3
<1>4. r.snapshots.reasons = {"sharded"}
  BY <1>1 DEF SnapshotsOf
<1>5. DOMAIN r.rows = ran /\ DOMAIN r.tests = Execs
      /\ (\A e \in ran : r.rows[e].status = "pass" /\ r.rows[e].muted = FALSE)
  BY <1>1
<1>6. \A e \in Execs : /\ r.tests[e].assigned = Slot[e] % n /\ r.tests[e].shardable
                      /\ r.tests[e].selected = (e \in ran)
  <2>. DEFINE test(e) == [assigned |-> Slot[e] % n, selected |-> e \in ran, shardable |-> TRUE]
  <2>1. r.tests = [e \in Execs |-> test(e)]
    BY <1>1
  <2>2. \A e : test(e).assigned = Slot[e] % n /\ test(e).shardable /\ test(e).selected = (e \in ran)
    OBVIOUS
  <2>. HIDE DEF test, r
  <2>3. \A e \in Execs : r.tests[e] = test(e)
    BY <2>1
  <2>. QED
    BY <2>2, <2>3
<1>7. r.shard.index = job.dir /\ r.shard.count = n /\ r.shard.selected = ran /\ ~r.shard.merged
  BY <1>1
<1>8. /\ r.completion.missing = {} /\ r.completion.complete /\ r.completion.reason = "completed"
  BY <1>1
<1>9. ran \subseteq Execs /\ \A e \in Execs : e \in ran <=> Slot[e] % n = job.dir
  OBVIOUS
<1>. HIDE DEF ran, n, r
<1>10. ProfileOk(r)
  BY <1>1 DEF ProfileOk
<1>11. ShardOk(r)
  BY <1>2, <1>7 DEF ShardOk
<1>12. SummaryAgrees(r) /\ RowsOk(r)
  BY <1>1, <1>5 DEF SummaryAgrees, RowsOk, Statuses
<1>13. CompletionOk(r)
  BY <1>5, <1>7, <1>8 DEF CompletionOk
<1>14. ReportCoverageOk(r.coverage) /\ SnapshotsOk(r)
  BY <1>1, <1>4 DEF ReportCoverageOk, SnapshotsOk
<1>15. BenchmarksOk(r)
  BY <1>3, <1>5, <1>7, <1>2 DEF BenchmarksOk, n
<1>16. ManifestOk(r)
  <2>1. InventoryOk(r)
    BY <1>2, <1>5, <1>6, <1>7, <1>9 DEF InventoryOk
  <2>2. SelectedIn(r.tests) = ran
    BY <1>5, <1>6, <1>9 DEF SelectedIn
  <2>. QED
    BY <2>1, <2>2, <1>7, <1>11 DEF ManifestOk
<1>17. EventsOk(r)
  BY <1>1 DEF EventsOk, Events
<1>18. DiagnosticsOk(r)
  BY <1>1 DEF DiagnosticsOk
<1>19. ReportOk(r)
  BY <1>10, <1>11, <1>12, <1>13, <1>14, <1>15, <1>16, <1>17, <1>18 DEF ReportOk
<1>. QED
  BY <1>19 DEF r

-----------------------------------------------------------------------------
\* A configuration without coverage that holds no reason of its own against green.
Smooth ==
  /\ ~conf.coverage /\ conf.profile = "full" /\ ~SharesSnapshots /\ ~conf.snapGate
  /\ conf.bench => conf.baseline /\ Benches # {} /\ Benches \subseteq conf.known

\* The runs ids are a matrix in which nothing went wrong, under such a one.
Clean(ids) ==
  /\ \A i \in All(ids) : /\ i \in DOMAIN runs /\ Undeviating(Job(i)) /\ Job(i).is \in Outcomes
                         /\ Job(i).dir \in 0 .. conf.shards - 1
                         /\ Doc(i) = Report(Job(i), NoCoverage)
  /\ \A i, j \in All(ids) : Job(i).revision = Job(j).revision
  /\ \A k, l \in 1 .. Len(ids) : Job(ids[k]).dir = Job(ids[l]).dir => k = l
  /\ \A d \in 0 .. conf.shards - 1 : \E i \in All(ids) : Job(i).dir = d
  /\ ~conf.snapGate /\ conf.profile = "full"
  /\ conf.bench => conf.baseline /\ Benches # {} /\ Benches \subseteq conf.known
  /\ \A e, f \in DOMAIN conf.uses : e # f => conf.uses[e] \intersect conf.uses[f] = {}

\* An undisturbed matrix is clean, and has one run for each directory.
LEMMA UndisturbedClean ==
  ASSUME ShardAssumption, TypeOK, RunsInv, NEW ids \in Seq(DOMAIN runs), ids # << >>, Undisturbed(ids),
         Smooth
  PROVE  Clean(ids)
<1>. DEFINE n == conf.shards
            dirs == {Job(i).dir : i \in All(ids)}
            f == [k \in 1 .. Len(ids) |-> Job(ids[k]).dir]
<1>1. /\ Len(ids) = n /\ dirs = 0 .. n - 1
      /\ \A i \in All(ids) : Deviations(Job(i).is) = 0 /\ Job(i).revision = Job(ids[1]).revision
      /\ ~conf.snapGate /\ ~conf.coverage /\ conf.profile = "full"
      /\ conf.bench => conf.baseline /\ Benches # {} /\ Benches \subseteq conf.known
      /\ \A e, g \in DOMAIN conf.uses : e # g => conf.uses[e] \intersect conf.uses[g] = {}
  BY DEF Undisturbed, Smooth, SharesSnapshots
<1>2. conf \in Confs /\ n \in Nat /\ n > 0
  <2>1. conf \in Confs
    BY DEF TypeOK
  <2>. QED
    BY <2>1 DEF ShardAssumption
<1>3. \A i : i \in All(ids) <=> \E k \in 1 .. Len(ids) : i = ids[k]
  BY DEF All, Range
<1>4. \A i \in All(ids) : i \in DOMAIN runs
  BY <1>3
<1>5. \A i \in All(ids) : Undeviating(Job(i)) /\ Job(i).is \in Outcomes
  BY <1>1, <1>4, NoDeviation DEF TypeOK, Job
<1>6. \A i \in All(ids) : Doc(i) = Report(Job(i), NoCoverage)
  <2>. SUFFICES ASSUME NEW i \in All(ids) PROVE Doc(i) = Report(Job(i), NoCoverage)
    OBVIOUS
  <2>1. Doc(i) = Written(Job(i)).report
    BY <1>4, RunFacts DEF Doc, Job
  <2>2. ~Job(i).is.conf.coverage
    BY <1>1, <1>5 DEF Undeviating
  <2>. QED
    BY <2>1, <2>2 DEF Written
<1>7. \A k, l \in 1 .. Len(ids) : Job(ids[k]).dir = Job(ids[l]).dir => k = l
  <2>1. IsFiniteSet(1 .. n) /\ Cardinality(1 .. n) = n
    <3>1. 1 \in Int /\ n \in Int /\ ~(1 > n) /\ n - 1 + 1 = n
      BY <1>2
    <3>. HIDE DEF n
    <3>. QED
      BY <3>1, FS_Interval
  <2>2. Cardinality(0 .. n - 1) = n
    <3>1. 0 \in Int /\ n - 1 \in Int /\ ~(0 > n - 1) /\ (n - 1) - 0 + 1 = n
      BY <1>2
    <3>. HIDE DEF n
    <3>. QED
      BY <3>1, FS_Interval
  <2>3. f \in Surjection(1 .. n, 0 .. n - 1)
    <3>1. \A k \in 1 .. n : ids[k] \in All(ids)
      BY <1>1, <1>3
    <3>2. \A k \in 1 .. n : Job(ids[k]).dir \in 0 .. n - 1
      BY <1>1, <3>1
    <3>3. ASSUME NEW d \in 0 .. n - 1 PROVE \E k \in 1 .. n : Job(ids[k]).dir = d
      <4>1. d \in dirs
        BY <1>1
      <4>2. PICK i \in All(ids) : Job(i).dir = d
        BY <4>1
      <4>. QED
        BY <4>2, <1>1, <1>3
    <3>. HIDE DEF n, dirs
    <3>. QED
      BY <3>2, <3>3, <1>1 DEF Surjection
  <2>. HIDE DEF f, n
  <2>4. f \in Injection(1 .. n, 0 .. n - 1)
    BY <2>1, <2>2, <2>3, FS_SurjSameCardinalityImpliesInj
  <2>. QED
    BY <2>4, <1>1 DEF Injection, IsInjective, f
<1>8. /\ \A i \in All(ids) : Job(i).dir \in 0 .. n - 1
      /\ \A d \in 0 .. n - 1 : \E i \in All(ids) : Job(i).dir = d
  BY <1>1
<1>. QED
  BY <1>1, <1>4, <1>5, <1>6, <1>7, <1>8 DEF Clean

\* What falls to the directory d, and what the report of its run then says.
Share(d) == {e \in Execs : Slot[e] % conf.shards = d}
CleanDoc(i) ==
  LET r == Doc(i)
  IN /\ Ran(Job(i)) = Share(Job(i).dir) /\ DOMAIN r.rows = Share(Job(i).dir)
     /\ r.shard.selected = Share(Job(i).dir)
     /\ r.shard.index = Job(i).dir /\ r.shard.count = conf.shards
     /\ r.conf = conf /\ r.revision = Job(i).revision /\ r.profile = "full"
     /\ DOMAIN r.tests = Execs
     /\ \A e \in Execs : /\ r.tests[e].assigned = Slot[e] % conf.shards
                         /\ r.tests[e].shardable = TRUE
                         /\ r.tests[e].selected = (e \in Share(Job(i).dir))
                         /\ r.tests[e] \in [assigned : Int, selected : BOOLEAN, shardable : BOOLEAN]
     /\ \A e \in Share(Job(i).dir) : r.rows[e].status = "pass" /\ r.rows[e].muted = FALSE
     /\ ~r.errors /\ r.bench = BenchOf(Job(i)) /\ r.snapshots = SnapshotsOf(Job(i))
     /\ ReportOk(r)

\* The report of a clean run is that of its share.
LEMMA CleanDocs ==
  ASSUME ShardAssumption, TypeOK, NEW ids, Clean(ids), NEW i \in All(ids)
  PROVE  CleanDoc(i)
<1>. DEFINE n == conf.shards
            job == Job(i)
            ran == {e \in Execs : Slot[e] % n = job.dir}
            r == Report(job, NoCoverage)
<1>1. /\ conf \in Confs /\ Undeviating(job) /\ job.is \in Outcomes /\ job.dir \in 0 .. n - 1
      /\ ~conf.snapGate /\ conf.profile = "full" /\ Doc(i) = r
  BY DEF Clean, TypeOK
<1>. HIDE DEF job
<1>2. /\ Ran(job) = ran
      /\ r.profile = conf.profile /\ r.conf = conf /\ r.revision = job.revision
      /\ r.shard = [index |-> job.dir, count |-> n, merged |-> FALSE, indices |-> {}, selected |-> ran]
      /\ r.tests = [e \in Execs |-> [assigned |-> Slot[e] % n, selected |-> e \in ran, shardable |-> TRUE]]
      /\ r.rows = [e \in ran |-> [status |-> "pass", muted |-> FALSE,
                                  quarantined |-> job.is.muted, says |-> NoTrouble]]
      /\ r.snapshots = SnapshotsOf(job) /\ r.bench = BenchOf(job)
      /\ ~r.errors
  BY <1>1, CleanReport
<1>3. DOMAIN r.rows = ran /\ \A e \in ran : r.rows[e].status = "pass" /\ r.rows[e].muted = FALSE
  BY <1>2
<1>4. DOMAIN r.tests = Execs
      /\ \A e \in Execs : /\ r.tests[e].assigned = Slot[e] % n /\ r.tests[e].shardable = TRUE
                          /\ r.tests[e].selected = (e \in ran)
                          /\ r.tests[e] \in [assigned : Int, selected : BOOLEAN, shardable : BOOLEAN]
  <2>. DEFINE test(e) == [assigned |-> Slot[e] % n, selected |-> e \in ran, shardable |-> TRUE]
  <2>1. r.tests = [e \in Execs |-> test(e)]
    BY <1>2
  <2>2. \A e : test(e).assigned = Slot[e] % n /\ test(e).shardable = TRUE /\ test(e).selected = (e \in ran)
    OBVIOUS
  <2>4. \A e \in Execs : test(e) \in [assigned : Int, selected : BOOLEAN, shardable : BOOLEAN]
    <3>1. \A e \in Execs : Slot[e] % n \in Int
      BY <1>1 DEF ShardAssumption
    <3>. QED
      BY <3>1
  <2>. HIDE DEF test, r
  <2>3. DOMAIN r.tests = Execs /\ \A e \in Execs : r.tests[e] = test(e)
    BY <2>1
  <2>. QED
    BY <2>2, <2>3, <2>4
<1>5. r.shard.index = job.dir /\ r.shard.count = n /\ r.shard.selected = ran
  BY <1>2
<1>6. ReportOk(r)
  BY <1>1, CleanOk
<1>7. ran = Share(job.dir)
  BY DEF Share
<1>. HIDE DEF r, ran
<1>. QED
  BY <1>1, <1>2, <1>3, <1>4, <1>5, <1>6, <1>7 DEF job, CleanDoc

\* What the checks of the merger ask of one of these reports.
Neat(r) ==
  /\ ReportOk(r) /\ r.profile = "full" /\ r.shard.count = conf.shards /\ r.conf = conf
  /\ DOMAIN r.rows = r.shard.selected /\ DOMAIN r.tests = Execs
  /\ \A e \in Execs : /\ r.tests[e].assigned = Slot[e] % conf.shards
                      /\ r.tests[e].shardable = TRUE
                      /\ r.tests[e].selected = (r.tests[e].assigned = r.shard.index)
  /\ \A e \in DOMAIN r.rows : e \in Execs /\ Slot[e] % conf.shards = r.shard.index

\* The merger finds nothing wrong with it.
LEMMA CleanConsistent ==
  ASSUME ShardAssumption, TypeOK, RunsInv, NEW ids \in Seq(DOMAIN runs), ids # << >>, Clean(ids)
  PROVE  Consistent(Reports(ids))
<1>. DEFINE n == conf.shards
            reports == Reports(ids)
<1>1. /\ \A i \in All(ids) : Doc(i) \in All(reports)
      /\ \A r \in All(reports) : \E i \in All(ids) : r = Doc(i)
      /\ reports[1] \in All(reports)
      /\ Len(reports) = Len(ids) /\ \A k \in 1 .. Len(ids) : reports[k] = Doc(ids[k]) /\ ids[k] \in All(ids)
  <2>1. \A k \in 1 .. Len(ids) : ids[k] \in All(ids)
    BY DEF All, Range
  <2>. QED
    BY <2>1, ReportsIn
<1>2. \A i \in All(ids) : CleanDoc(i)
  BY CleanDocs
<1>3. \A r \in All(reports) : Neat(r)
  <2>. SUFFICES ASSUME NEW i \in All(ids) PROVE Neat(Doc(i))
    BY <1>1
  <2>1. CleanDoc(i)
    BY <1>2
  <2>2. \A e : e \in Share(Job(i).dir) <=> e \in Execs /\ Slot[e] % n = Job(i).dir
    BY DEF Share
  <2>3. \A e \in Execs : Doc(i).tests[e].selected = (Doc(i).tests[e].assigned = Doc(i).shard.index)
    BY <2>1, <2>2 DEF CleanDoc
  <2>. QED
    BY <2>1, <2>2, <2>3 DEF CleanDoc, Neat
<1>4. \A k, l \in 1 .. Len(ids) : reports[k].shard.index = reports[l].shard.index => k = l
  <2>1. \A k \in 1 .. Len(ids) : reports[k].shard.index = Job(ids[k]).dir
    BY <1>1, <1>2 DEF CleanDoc
  <2>. QED
    BY <2>1 DEF Clean
<1>5. \A r, q \in All(reports) : r.shard.index = q.shard.index => r = q
  <2>1. \A r \in All(reports) : \E k \in 1 .. Len(ids) : r = reports[k]
    <3>1. \A i \in All(ids) : \E k \in 1 .. Len(ids) : i = ids[k]
      BY DEF All, Range
    <3>. QED
      BY <3>1, <1>1
  <2>. HIDE DEF reports
  <2>. QED
    BY <2>1, <1>4
<1>6. {r.shard.index : r \in All(reports)} = 0 .. n - 1
  <2>1. \A r \in All(reports) : r.shard.index \in 0 .. n - 1
    BY <1>1, <1>2 DEF Clean, CleanDoc
  <2>2. ASSUME NEW d \in 0 .. n - 1
        PROVE  \E r \in All(reports) : d = r.shard.index
    <3>1. PICK i \in All(ids) : Job(i).dir = d
      BY <2>2 DEF Clean
    <3>2. Doc(i) \in All(reports) /\ Doc(i).shard.index = d
      BY <3>1, <1>1, <1>2 DEF CleanDoc
    <3>. QED
      BY <3>2
  <2>. HIDE DEF reports
  <2>. QED
    BY <2>1, <2>2
<1>7. \A r, q \in All(reports) : r.revision = q.revision
  <2>1. \A i \in All(ids) : Doc(i).revision = Job(i).revision
    BY <1>2 DEF CleanDoc
  <2>2. \A i, j \in All(ids) : Job(i).revision = Job(j).revision
    BY DEF Clean
  <2>. HIDE DEF reports
  <2>. QED
    BY <1>1, <2>1, <2>2
<1>. HIDE DEF reports, n
<1>8. Loadable(reports)
  BY <1>3 DEF Loadable, Neat, n
<1>9. Topology(reports)
  BY <1>1, <1>3, <1>4, <1>6 DEF Topology, Places, Neat, n
<1>10. SameRun(reports)
  BY <1>3, <1>7 DEF SameRun, Neat, n
<1>11. Inventory(reports)
  <2>1. \A r, q \in All(reports) : \A e \in DOMAIN r.tests \intersect DOMAIN q.tests :
          /\ r.tests[e].assigned = q.tests[e].assigned
          /\ r.tests[e].shardable = q.tests[e].shardable
    <3>. SUFFICES ASSUME NEW r \in All(reports), NEW q \in All(reports), NEW e \in Execs
                  PROVE  /\ r.tests[e].assigned = q.tests[e].assigned
                         /\ r.tests[e].shardable = q.tests[e].shardable
      BY <1>3 DEF Neat
    <3>1. \A s : Neat(s) => /\ s.tests[e].assigned = Slot[e] % conf.shards
                            /\ s.tests[e].shardable = TRUE
      BY DEF Neat
    <3>2. Neat(r) /\ Neat(q)
      BY <1>3
    <3>. QED
      BY <3>1, <3>2
  <2>2. \A r \in All(reports) : \A e \in DOMAIN r.tests :
          r.tests[e].selected = (r.tests[e].shardable => r.tests[e].assigned = r.shard.index)
    BY <1>3 DEF Neat
  <2>. QED
    BY <2>1, <2>2 DEF Inventory
<1>12. Results(reports)
  BY <1>3, <1>5 DEF Results, Neat, n
<1>13. Ownership(reports)
  <2>1. \A e, f : e # f => Uses(conf, {e}) \intersect Uses(conf, {f}) = {}
    <3>. SUFFICES ASSUME NEW e, NEW f, e # f, NEW s \in Uses(conf, {e}), s \in Uses(conf, {f}) PROVE FALSE
      OBVIOUS
    <3>1. e \in DOMAIN conf.uses /\ s \in conf.uses[e] /\ f \in DOMAIN conf.uses /\ s \in conf.uses[f]
      BY DEF Uses
    <3>2. conf.uses[e] \intersect conf.uses[f] = {}
      BY <3>1 DEF Clean
    <3>. QED
      BY <3>1, <3>2
  <2>. QED
    BY <2>1, <1>3 DEF Ownership, Neat, n
<1>. QED
  BY <1>8, <1>9, <1>10, <1>11, <1>12, <1>13 DEF Consistent, reports

\* Every execution falls to one of the directories.
LEMMA CleanShares ==
  ASSUME ShardAssumption, TypeOK, NEW ids, Clean(ids), NEW e \in Execs
  PROVE  /\ Slot[e] % conf.shards \in 0 .. conf.shards - 1
         /\ \E i \in All(ids) : e \in Share(Job(i).dir)
<1>1. conf.shards \in Nat /\ conf.shards > 0 /\ Slot[e] \in Nat
  <2>1. conf \in Confs
    BY DEF TypeOK
  <2>. QED
    BY <2>1 DEF ShardAssumption
<1>2. Slot[e] % conf.shards \in 0 .. conf.shards - 1
  BY <1>1
<1>. QED
  BY <1>2 DEF Clean, Share

\* The merged rows and the merged inventory are those of all executions.
LEMMA CleanRows ==
  ASSUME ShardAssumption, TypeOK, RunsInv, NEW ids \in Seq(DOMAIN runs), Clean(ids)
  PROVE  LET rows == Union({r.rows : r \in All(Reports(ids))})
         IN /\ DOMAIN rows = Execs
            /\ \A e \in Execs : rows[e].status = "pass" /\ rows[e].muted = FALSE
<1>. DEFINE fs == {r.rows : r \in All(Reports(ids))}
            rows == Union(fs)
<1>1. \A f \in fs : \E i \in All(ids) : CleanDoc(i) /\ f = Doc(i).rows
  BY CleanDocs, ReportsIn
<1>2. \A f \in fs : DOMAIN f \subseteq Execs
                    /\ \A e \in DOMAIN f : f[e].status = "pass" /\ f[e].muted = FALSE
  <2>1. \A i : CleanDoc(i) => /\ DOMAIN Doc(i).rows \subseteq Execs
                              /\ \A e \in DOMAIN Doc(i).rows : /\ Doc(i).rows[e].status = "pass"
                                                               /\ Doc(i).rows[e].muted = FALSE
    BY DEF CleanDoc, Share
  <2>. HIDE DEF fs
  <2>. QED
    BY <1>1, <2>1
<1>3. ASSUME NEW e \in Execs PROVE \E f \in fs : e \in DOMAIN f
  <2>1. PICK i \in All(ids) : e \in Share(Job(i).dir)
    BY CleanShares
  <2>2. CleanDoc(i) /\ Doc(i) \in All(Reports(ids))
    BY CleanDocs, ReportsIn
  <2>3. Doc(i).rows \in fs /\ e \in DOMAIN Doc(i).rows
    BY <2>1, <2>2 DEF CleanDoc
  <2>. QED
    BY <2>3
<1>. HIDE DEF fs
<1>4. DOMAIN rows = UNION {DOMAIN f : f \in fs}
  BY DEF Union
<1>5. DOMAIN rows = Execs
  BY <1>2, <1>3, <1>4
<1>6. ASSUME NEW e \in Execs PROVE rows[e].status = "pass" /\ rows[e].muted = FALSE
  <2>1. PICK f \in fs : e \in DOMAIN f /\ rows[e] = f[e]
    BY <1>5, UnionValue
  <2>. QED
    BY <2>1, <1>2
<1>. QED
  BY <1>5, <1>6 DEF fs

\* In the merged inventory each execution is selected, in one of the shards.
LEMMA CleanTests ==
  ASSUME ShardAssumption, TypeOK, RunsInv, NEW ids \in Seq(DOMAIN runs), Clean(ids)
  PROVE  LET inventory == Union({r.tests : r \in All(Reports(ids))})
             tests == [e \in DOMAIN inventory |-> [inventory[e] EXCEPT !.selected = TRUE]]
         IN /\ DOMAIN tests = Execs
            /\ \A e \in Execs : tests[e].selected = TRUE
                                /\ tests[e].assigned \in 0 .. conf.shards - 1
<1>. DEFINE fs == {r.tests : r \in All(Reports(ids))}
            inventory == Union(fs)
            tests == [e \in DOMAIN inventory |-> [inventory[e] EXCEPT !.selected = TRUE]]
<1>1. \A f \in fs : \E i \in All(ids) : CleanDoc(i) /\ f = Doc(i).tests
  BY CleanDocs, ReportsIn
<1>2. \A f \in fs :
        /\ DOMAIN f = Execs
        /\ \A e \in Execs : /\ f[e].assigned = Slot[e] % conf.shards
                            /\ f[e] \in [assigned : Int, selected : BOOLEAN, shardable : BOOLEAN]
  <2>1. \A i : CleanDoc(i) =>
          /\ DOMAIN Doc(i).tests = Execs
          /\ \A e \in Execs : /\ Doc(i).tests[e].assigned = Slot[e] % conf.shards
                              /\ Doc(i).tests[e] \in [assigned : Int, selected : BOOLEAN, shardable : BOOLEAN]
    BY DEF CleanDoc
  <2>. HIDE DEF fs
  <2>. QED
    BY <1>1, <2>1
<1>3. ASSUME NEW e \in Execs PROVE \E f \in fs : e \in DOMAIN f
  <2>1. PICK i \in All(ids) : e \in Share(Job(i).dir)
    BY CleanShares
  <2>2. CleanDoc(i) /\ Doc(i) \in All(Reports(ids))
    BY CleanDocs, ReportsIn
  <2>3. Doc(i).tests \in fs /\ e \in DOMAIN Doc(i).tests
    BY <2>1, <2>2 DEF CleanDoc
  <2>. QED
    BY <2>3
<1>. HIDE DEF fs
<1>4. DOMAIN inventory = UNION {DOMAIN f : f \in fs}
  BY DEF Union
<1>5. DOMAIN inventory = Execs
  BY <1>2, <1>3, <1>4
<1>6. ASSUME NEW e \in Execs
      PROVE  /\ inventory[e].assigned \in 0 .. conf.shards - 1
             /\ inventory[e] \in [assigned : Int, selected : BOOLEAN, shardable : BOOLEAN]
  <2>1. PICK f \in fs : e \in DOMAIN f /\ inventory[e] = f[e]
    BY <1>5, UnionValue
  <2>2. Slot[e] % conf.shards \in 0 .. conf.shards - 1
    BY CleanShares
  <2>. QED
    BY <2>1, <2>2, <1>2
<1>. HIDE DEF inventory
<1>7. \A e \in Execs : tests[e].selected = TRUE /\ tests[e].assigned = inventory[e].assigned
  BY <1>5, <1>6
<1>. QED
  BY <1>5, <1>6, <1>7 DEF fs, inventory

\* The merged comparisons are those of all benchmarks, if any are asked for.
LEMMA CleanMergedBench ==
  ASSUME ShardAssumption, TypeOK, RunsInv, NEW ids \in Seq(DOMAIN runs), ids # << >>, Clean(ids)
  PROVE  LET bench == MergedBench(Reports(ids))
         IN /\ bench.gated = conf.bench /\ bench.deferred = FALSE
            /\ bench.measured \subseteq Execs /\ DOMAIN bench.compared = bench.measured
            /\ \A e \in bench.measured : ComparisonOk(bench.compared[e])
            /\ conf.bench => bench.measured # {}
            /\ bench.passed <=> (bench.gated =>
                                   \A e \in DOMAIN bench.compared : ~bench.compared[e].regressed)
<1>. DEFINE reports == Reports(ids)
            bench == MergedBench(reports)
            raw == MergedRaws(reports)
            all == {r.bench.compared : r \in All(reports)}
<1>1. \A i \in All(ids) :
        LET own == Doc(i).bench
        IN /\ own.gated = conf.bench /\ DOMAIN own.compared = own.measured
           /\ own.baseline = conf.baseline
           /\ own.measured = IF conf.bench THEN Share(Job(i).dir) \intersect Benches ELSE {}
  <2>. SUFFICES ASSUME NEW i \in All(ids)
                PROVE  LET own == Doc(i).bench
                       IN /\ own.gated = conf.bench /\ DOMAIN own.compared = own.measured
                          /\ own.baseline = conf.baseline
                          /\ own.measured = IF conf.bench THEN Share(Job(i).dir) \intersect Benches ELSE {}
    OBVIOUS
  <2>1. Undeviating(Job(i)) /\ Job(i).is \in Outcomes
    BY DEF Clean
  <2>2. Doc(i).bench = BenchOf(Job(i)) /\ Ran(Job(i)) = Share(Job(i).dir)
    BY CleanDocs DEF CleanDoc
  <2>. QED
    BY <2>1, <2>2, CleanBench
<1>2. /\ \A r \in All(reports) : \E i \in All(ids) : r = Doc(i)
      /\ \A i \in All(ids) : Doc(i) \in All(reports)
      /\ reports[1] \in All(reports)
  BY ReportsIn
<1>3. /\ bench.compared = Comparisons(raw) /\ IsFiniteSet(DOMAIN raw) /\ raw \in Raws(DOMAIN raw)
      /\ DOMAIN raw \subseteq Benches /\ PScale \in Nat
      /\ \A e \in DOMAIN raw : \E i \in All(ids) : raw[e] = RawOf(Job(i), e)
  BY MergedRawFacts
<1>4. bench.measured = UNION {r.bench.measured : r \in All(reports)}
  BY DEF MergedBench
<1>5. DOMAIN raw = UNION {DOMAIN f : f \in all}
  BY DEF MergedRaws, Union
<1>. HIDE DEF reports, raw, bench
<1>6. DOMAIN raw = bench.measured
  <2>1. \A r \in All(reports) : DOMAIN r.bench.compared = r.bench.measured
    <3>. SUFFICES ASSUME NEW r \in All(reports) PROVE DOMAIN r.bench.compared = r.bench.measured
      OBVIOUS
    <3>1. PICK i \in All(ids) : r = Doc(i)
      BY <1>2
    <3>. QED
      BY <3>1, <1>1
  <2>2. UNION {DOMAIN f : f \in all} = UNION {DOMAIN r.bench.compared : r \in All(reports)}
    OBVIOUS
  <2>. HIDE DEF all
  <2>3. {DOMAIN r.bench.compared : r \in All(reports)} = {r.bench.measured : r \in All(reports)}
    BY <2>1
  <2>. QED
    BY <2>2, <2>3, <1>4, <1>5
<1>7. DOMAIN bench.compared = bench.measured
  BY <1>3, <1>6 DEF Comparisons
<1>8. \A e \in bench.measured : ComparisonOk(bench.compared[e])
  BY <1>3, <1>6, ComparisonAbove
<1>9. bench.measured \subseteq Execs
  <2>1. ASSUME NEW r \in All(reports) PROVE r.bench.measured \subseteq Execs
    <3>1. PICK i \in All(ids) : r = Doc(i)
      BY <1>2
    <3>2. r.bench.measured \subseteq Share(Job(i).dir)
      BY <3>1, <1>1
    <3>. QED
      BY <3>2 DEF Share
  <2>. QED
    BY <2>1, <1>4
<1>10. conf.bench => bench.measured # {}
  <2>. SUFFICES ASSUME conf.bench PROVE bench.measured # {}
    OBVIOUS
  <2>1. PICK b \in Execs : b \in Benches
    BY DEF Clean, ShardAssumption
  <2>2. PICK i \in All(ids) : b \in Share(Job(i).dir)
    BY CleanShares
  <2>3. b \in Doc(i).bench.measured
    BY <2>1, <2>2, <1>1
  <2>. QED
    BY <2>3, <1>2, <1>4
<1>11. reports[1].bench.gated = conf.bench /\ reports[1].bench.baseline = conf.baseline
  <2>1. PICK i \in All(ids) : reports[1] = Doc(i)
    BY <1>2
  <2>. QED
    BY <2>1, <1>1
<1>12. ASSUME NEW e \in bench.measured, conf.bench PROVE bench.compared[e].raw.found
  <2>1. PICK i \in All(ids) : raw[e] = RawOf(Job(i), e)
    BY <1>3, <1>6
  <2>2. Job(i).is.conf = conf /\ e \in conf.known
    BY <1>3, <1>6, <1>12 DEF Clean, Undeviating
  <2>3. RawOf(Job(i), e).found = (e \in Job(i).is.conf.known)
    BY DEF RawOf
  <2>4. e \in DOMAIN raw /\ Comparisons(raw)[e].raw = raw[e]
    BY <1>6, ComparisonFacts
  <2>5. bench.compared[e].raw = RawOf(Job(i), e)
    BY <2>1, <2>4, <1>3
  <2>. QED
    BY <2>2, <2>3, <2>5
<1>13. /\ bench.gated = reports[1].bench.gated /\ bench.deferred = FALSE
       /\ bench.passed = (bench.gated => BenchPasses(reports[1].bench.baseline, bench.compared))
  BY DEF MergedBench, bench
<1>14. conf.bench => conf.baseline
  BY DEF Clean
<1>15. bench.gated => (BenchPasses(reports[1].bench.baseline, bench.compared)
                        <=> \A e \in DOMAIN bench.compared : ~bench.compared[e].regressed)
  BY <1>7, <1>10, <1>11, <1>12, <1>13, <1>14 DEF BenchPasses
<1>. QED
  BY <1>7, <1>8, <1>9, <1>10, <1>11, <1>13, <1>15 DEF bench, reports

\* Its merged report is valid, and green unless a benchmark regressed.
LEMMA CleanMerged ==
  ASSUME ShardAssumption, TypeOK, RunsInv, NEW ids \in Seq(DOMAIN runs), ids # << >>, Clean(ids)
  PROVE  LET m == Merged(Reports(ids), Artifacts(<< >>))
         IN /\ ReportOk(m)
            /\ Green(m) \/ ~MergedBench(Reports(ids)).passed
            /\ \/ Green(m)
               \/ \E result \in Range(MergedBench(Reports(ids)).compared) : result.regressed
<1>. DEFINE reports == Reports(ids)
            m == Merged(reports, Artifacts(<< >>))
            rows == Union({r.rows : r \in All(reports)})
            inventory == Union({r.tests : r \in All(reports)})
            tests == [e \in DOMAIN inventory |-> [inventory[e] EXCEPT !.selected = TRUE]]
            n == conf.shards
            bench == MergedBench(reports)
            snapshots == MergedSnapshots(reports)
<1>1. /\ \A r \in All(reports) : \E i \in All(ids) : r = Doc(i) /\ CleanDoc(i)
      /\ reports[1] \in All(reports)
  BY ReportsIn, CleanDocs
<1>2. n \in Nat /\ n >= 1
  <2>1. conf \in Confs
    BY DEF TypeOK
  <2>. QED
    BY <2>1 DEF ShardAssumption
<1>3. Artifacts(<< >>) = << >>
  BY DEF Artifacts, Places
<1>4. /\ DOMAIN rows = Execs
      /\ \A e \in Execs : rows[e].status = "pass" /\ rows[e].muted = FALSE
  BY CleanRows
<1>5. /\ DOMAIN tests = Execs
      /\ \A e \in Execs : tests[e].selected = TRUE /\ tests[e].assigned \in 0 .. n - 1
  BY CleanTests
<1>6. /\ bench.gated = conf.bench /\ bench.deferred = FALSE
      /\ bench.measured \subseteq Execs /\ DOMAIN bench.compared = bench.measured
      /\ \A e \in bench.measured : ComparisonOk(bench.compared[e])
      /\ conf.bench => bench.measured # {}
      /\ bench.passed <=> (bench.gated =>
                             \A e \in DOMAIN bench.compared : ~bench.compared[e].regressed)
  BY CleanMergedBench
<1>7. /\ \A r \in All(reports) : /\ r.shard.count = n /\ ~r.errors
                                 /\ r.snapshots.gated = FALSE /\ "sharded" \in r.snapshots.reasons
  <2>1. \A i \in All(ids) : SnapshotsOf(Job(i)).gated = FALSE /\ "sharded" \in SnapshotsOf(Job(i)).reasons
    <3>. SUFFICES ASSUME NEW i \in All(ids)
                  PROVE  SnapshotsOf(Job(i)).gated = FALSE /\ "sharded" \in SnapshotsOf(Job(i)).reasons
      OBVIOUS
    <3>1. Job(i).is.conf = conf /\ ~conf.snapGate
      BY DEF Clean, Undeviating
    <3>2. SnapshotsOf(Job(i)).gated = Job(i).is.conf.snapGate
          /\ SnapshotsOf(Job(i)).reasons = {"sharded"}
      BY DEF SnapshotsOf
    <3>. QED
      BY <3>1, <3>2
  <2>. QED
    BY <2>1, <1>1 DEF CleanDoc
<1>8. snapshots.gated = FALSE /\ snapshots.passed = TRUE /\ snapshots.reasons # {}
  <2>1. snapshots.gated = FALSE
    BY <1>7 DEF MergedSnapshots
  <2>2. snapshots.passed = TRUE
    BY <1>7 DEF MergedSnapshots
  <2>3. snapshots.reasons = UNION {r.snapshots.reasons : r \in All(reports)}
    BY DEF MergedSnapshots
  <2>. HIDE DEF snapshots, reports
  <2>4. "sharded" \in reports[1].snapshots.reasons
    BY <1>1, <1>7
  <2>5. "sharded" \in snapshots.reasons
    BY <2>3, <2>4, <1>1
  <2>. QED
    BY <2>1, <2>2, <2>5
<1>9. /\ m.run = 0 /\ m.profile = "full" /\ m.sections = TRUE
      /\ m.shard = [index |-> -1, count |-> reports[1].shard.count, merged |-> TRUE,
                    indices |-> 0 .. reports[1].shard.count - 1, selected |-> DOMAIN tests]
      /\ m.tests = tests /\ m.rows = rows /\ m.summary = Tally(rows)
      /\ m.completion = [complete |-> TRUE, missing |-> {}, reason |-> "completed"]
      /\ m.coverage = MergedSection(reports, Artifacts(<< >>))
      /\ m.snapshots = snapshots /\ m.bench = bench
      /\ m.errors = (\E r \in All(reports) : r.errors)
      /\ m.events = Events(0, rows, Tally(rows), snapshots, bench)
  BY DEF Merged
<1>10. m.coverage = NoCoverage
  BY <1>3, <1>9 DEF MergedSection
<1>11. reports[1].shard.count = n /\ m.errors = FALSE
  BY <1>1, <1>7, <1>9
<1>. HIDE DEF m, reports, rows, tests, bench, snapshots, n
<1>12. ProfileOk(m)
  BY <1>9 DEF ProfileOk
<1>13. ShardOk(m)
  BY <1>9, <1>11, <1>2 DEF ShardOk
<1>14. SummaryAgrees(m) /\ RowsOk(m)
  BY <1>4, <1>9 DEF SummaryAgrees, RowsOk, Statuses
<1>15. CompletionOk(m)
  BY <1>4, <1>5, <1>9 DEF CompletionOk
<1>16. ReportCoverageOk(m.coverage) /\ SnapshotsOk(m)
  BY <1>8, <1>9, <1>10 DEF ReportCoverageOk, SnapshotsOk
<1>17. BenchmarksOk(m)
  BY <1>4, <1>6, <1>9 DEF BenchmarksOk
<1>18. ManifestOk(m)
  <2>1. InventoryOk(m)
    BY <1>4, <1>5, <1>9, <1>11 DEF InventoryOk
  <2>2. SelectedIn(m.tests) = Execs
    BY <1>5, <1>9 DEF SelectedIn
  <2>. QED
    BY <2>1, <2>2, <1>5, <1>9, <1>13 DEF ManifestOk
<1>19. EventsOk(m)
  BY <1>9 DEF EventsOk, Events
<1>20. DiagnosticsOk(m)
  BY <1>11 DEF DiagnosticsOk
<1>21. ReportOk(m)
  BY <1>12, <1>13, <1>14, <1>15, <1>16, <1>17, <1>18, <1>19, <1>20 DEF ReportOk
<1>22. Blocking(m.rows) = {}
  BY <1>4, <1>9 DEF Blocking, BadRows, Bad
<1>23. Green(m) \/ ~bench.passed
  BY <1>8, <1>9, <1>10, <1>22 DEF Green
<1>24. ~bench.passed => \E e \in DOMAIN bench.compared : bench.compared[e].regressed
  BY <1>6
<1>25. \A e \in DOMAIN bench.compared : bench.compared[e] \in Range(bench.compared)
  BY DEF Range
<1>. QED
  BY <1>21, <1>23, <1>24, <1>25 DEF m, bench, reports

-----------------------------------------------------------------------------
\* All that the invariant says holds in every reachable state.
THEOREM Inductive == Spec => []IInv
<1>. USE ShardAssumption
<1>1. Init => IInv
  BY InitInv
<1>2. IInv /\ [Next]_vars => IInv'
  BY NextInv
<1>. QED
  BY <1>1, <1>2, PTL DEF Spec

\* Every variable keeps its type.
THEOREM TypeCorrect == Spec => []TypeOK
<1>1. IInv => TypeOK
  BY DEF IInv
<1>. QED
  BY <1>1, Inductive, PTL

\* Exit 0 of the merger is evidence about every run that was merged.
THEOREM GreenEarned == Spec => []GreenIsEarned
<1>1. IInv => GreenIsEarned
  BY DEF IInv
<1>. QED
  BY <1>1, Inductive, PTL

\* The coverage that is merged is that of the runs whose reports are merged.
THEOREM CoverageBound == Spec => []CoverageIsOfTheseRuns
<1>1. IInv => CoverageIsOfTheseRuns
  BY DEF IInv, LastInv, CoverageIsOfTheseRuns
<1>. QED
  BY <1>1, Inductive, PTL

\* An obsolete snapshot is one that none of the merged runs uses or declares.
THEOREM ObsoleteSafe == Spec => []ObsoleteIsUnused
<1>1. ASSUME IInv PROVE ObsoleteIsUnused
  <2>. SUFFICES ASSUME last.wrote, NEW n \in DOMAIN MergedEntries(Reports(last.read)),
                       MergedEntries(Reports(last.read))[n] = "obsolete",
                       NEW i \in All(last.read)
                PROVE  n \notin Uses(Job(i).is.conf, Ran(Job(i))) \union Job(i).is.conf.declares
    BY DEF ObsoleteIsUnused
  <2>1. RunsInv /\ last.read \in Seq(DOMAIN runs) /\ SameRun(Reports(last.read))
    BY <1>1 DEF IInv, TypeOK, LastInv, Consistent
  <2>. QED
    BY <2>1, ObsoleteUnused
<1>. QED
  BY <1>1, Inductive, PTL

\* The merged report, and with it the verdict, is that of the reports in the
\* other order.
THEOREM OrderIgnored == Spec => []VerdictIgnoresOrder
<1>1. ASSUME IInv PROVE VerdictIgnoresOrder
  <2>. SUFFICES ASSUME last.wrote PROVE VerdictIgnoresOrder
    BY DEF VerdictIgnoresOrder
  <2>. DEFINE reports == Turn(Reports(last.read))
              m == Merged(reports, Turn(Artifacts(last.cov)))
  <2>1. /\ RunsInv /\ last.read \in Seq(DOMAIN runs) /\ last.read # << >>
        /\ last.cov \in {<< >>, last.read}
        /\ Consistent(Reports(last.read)) /\ Agree(Artifacts(last.cov))
    BY <1>1 DEF IInv, TypeOK, LastInv
  <2>2. /\ Consistent(reports)
        /\ m = Merged(Reports(last.read), Artifacts(last.cov))
    BY <2>1, TurnMerged
  <2>3. ReportOk(m) /\ (Green(m) <=> last.code = 0)
    BY <2>2, <1>1 DEF IInv, LastInv
  <2>4. VerdictIgnoresOrder <=>
          (last.wrote => Consistent(reports) /\ ReportOk(m) /\ (Green(m) <=> last.code = 0))
    BY DEF VerdictIgnoresOrder, Turn
  <2>. HIDE DEF reports, m
  <2>. QED
    BY <2>2, <2>3, <2>4
<1>. QED
  BY <1>1, Inductive, PTL

\* The comparisons called regressed are the slower ones that the closed test over
\* the comparable ones rejects.
THEOREM HolmIsRight == Spec => []HolmIsClosedTest
<1>. USE ShardAssumption
<1>1. ASSUME IInv PROVE HolmIsClosedTest
  <2>1. TypeOK /\ RunsInv /\ last.read \in Seq(DOMAIN runs)
    BY <1>1 DEF IInv, TypeOK
  <2>. QED
    BY <2>1, MergedClosed DEF HolmIsClosedTest, Rejected
<1>. QED
  BY <1>1, Inductive, PTL

\* Without coverage, a matrix in which nothing went wrong is neither refused nor
\* red, whatever the executions, their shards and the p-values measured, but for
\* the reasons that the property names.
THEOREM UndisturbedGreen == Spec => [](~conf.coverage => UndisturbedIsGreen)
<1>. USE ShardAssumption
<1>1. ASSUME IInv, FairInv PROVE ~conf.coverage => UndisturbedIsGreen
  <2>. SUFFICES ASSUME ~conf.coverage, stage = "idle", last.code \in {1, 2}, Len(paths) = Len(read),
                       Undisturbed(read), conf.profile = "full", ~SharesSnapshots, ~conf.snapGate,
                       ~(conf.bench /\ BenchesInTheWay(read))
                PROVE  FALSE
    BY DEF UndisturbedIsGreen
  <2>1. TypeOK /\ RunsInv /\ read \in Seq(DOMAIN runs)
    BY <1>1 DEF IInv, TypeOK
  <2>2. read # << >>
    <3>1. conf \in Confs /\ Len(read) = conf.shards
      BY <2>1 DEF Undisturbed, TypeOK
    <3>2. conf.shards > 0
      BY <3>1 DEF ShardAssumption
    <3>. QED
      BY <3>1, <3>2
  <2>3. Bare
    <3>. SUFFICES ASSUME NEW k \in 1 .. Len(paths) PROVE disk[paths[k]].coverage = 0
      BY DEF Bare
    <3>1. k \in 1 .. Len(read) /\ read[k] \in All(read)
      BY <2>1 DEF All, Range
    <3>2. paths[k] = Job(read[k]).dir
      BY <1>1, <3>1 DEF FairInv, PathsInv
    <3>3. disk[Job(read[k]).dir] = [report |-> read[k], coverage |-> 0]
      BY <3>1 DEF Undisturbed
    <3>. QED
      BY <3>2, <3>3
  <2>4. Blamed(read)
    BY <1>1, <2>3 DEF FairInv, BlameInv
  <2>5. Smooth
    BY DEF Smooth, BenchesInTheWay
  <2>6. Clean(read)
    BY <2>1, <2>2, <2>5, UndisturbedClean
  <2>7. Consistent(Reports(read))
    BY <2>1, <2>2, <2>6, CleanConsistent
  <2>8. ~Green(Merged(Reports(read), Artifacts(<< >>)))
    BY <2>1, <2>2, <2>4, <2>6, <2>7, CleanMerged DEF Blamed
  <2>9. \E result \in Range(MergedBench(Reports(read)).compared) : result.regressed
    BY <2>1, <2>2, <2>6, <2>8, CleanMerged
  <2>10. conf.bench
    <3>1. ~conf.bench => MergedBench(Reports(read)).passed
      BY <2>1, <2>2, <2>6, CleanMergedBench
    <3>2. MergedBench(Reports(read)).passed => Green(Merged(Reports(read), Artifacts(<< >>)))
      BY <2>1, <2>2, <2>6, CleanMerged
    <3>. QED
      BY <3>1, <3>2, <2>8
  <2>. QED
    BY <2>9, <2>10 DEF BenchesInTheWay
<1>2. IInv /\ [Next]_vars /\ FairInv => FairInv'
  BY NextFair
<1>3. Init => FairInv
  BY InitFair
<1>4. Spec => []FairInv
  BY <1>2, <1>3, Inductive, PTL DEF Spec
<1>. QED
  BY <1>1, <1>4, Inductive, PTL

\* A merged report is published only for one whole matrix.
THEOREM PublishedWhole == Spec => PublishedIsWhole
<1>. USE ShardAssumption
<1>1. IInv /\ [Next]_vars => [dest.report' # dest.report => WholeMatrix(dest'.report)]_<<dest, runs>>
  BY NextInv
<1>. QED
  BY <1>1, Inductive, PTL DEF Spec, PublishedIsWhole
=============================================================================
