-------------------------- MODULE ReleaseGate_proof --------------------------
(***************************************************************************)
(* What an audit of the release gate says is true, for every repository    *)
(* and however the checkout changes while the gate runs.                   *)
(***************************************************************************)
EXTENDS ReleaseGate, TLAPS

Stages == {"clean", "commit", "prepare", "run", "residue", "audit", "seal", "ended"}

TypeOK ==
  /\ tree \in Trees /\ touched \in BOOLEAN
  /\ stage \in Stages /\ passed \in 0..8
  /\ stage = "run" => passed < 8
  /\ stage \in {"residue", "audit", "seal"} => passed = 8
  /\ stage \in {"clean", "commit", "prepare"} => passed = 0 /\ seen = {}
  /\ passed > 0 => seen # {}
  /\ stage \notin {"clean", "ended"} => baseline \in BOOLEAN
  /\ reports = [l \in Compared |-> reports[l]]

\* As long as nobody moves HEAD or takes a change back, the checkout only gets
\* dirtier: if it is clean now, every command so far saw a clean one.
TreeInv ==
  stage \in {"commit", "prepare", "run", "residue"} /\ ~touched =>
    /\ stage # "commit" => tree.head = commit
    /\ baseline = TRUE => tree.ignored = TRUE
    /\ Clean(tree) /\ tree.ignored = baseline => seen \subseteq {CommitTree}

AuditInv ==
  /\ stage \in {"audit", "seal"} \/ audit # None =>
       passed = 8 /\ (touched \/ seen \subseteq {CommitTree})
  /\ audit # None => audit.commit = commit

\* Nothing is written before the end.
NoAuditYet == stage \notin {"seal", "ended"} => audit = None

\* The comparisons that were made by now.
LanesInv ==
  /\ passed >= 2 => /\ reports["normal"].version = version
                    /\ reports["normal"].rows \in [Executions -> Statuses]
  /\ passed >= 3 => /\ reports["isolated"].version = version
                    /\ reports["isolated"].rows = reports["normal"].rows
                    /\ Required \subseteq PassedDescriptions(reports["isolated"])
  /\ passed >= 7 => /\ reports["correctness"].version = version
                    /\ reports["correctness"].rows \in [Quickstart -> Statuses]
  /\ passed >= 8 => /\ reports["coverage"].version = version
                    /\ reports["coverage"].revision = reports["correctness"].revision
                    /\ reports["coverage"].rows = reports["correctness"].rows

IInv == TypeOK /\ TreeInv /\ AuditInv /\ NoAuditYet /\ LanesInv
-----------------------------------------------------------------------------

LEMMA CommandAt ==
  /\ Len(Commands) = 8
  /\ Commands[1] = "static" /\ Commands[2] = "normal" /\ Commands[3] = "isolated"
  /\ Commands[4] = "differential" /\ Commands[5] = "verifiers" /\ Commands[6] = "installation"
  /\ Commands[7] = "correctness" /\ Commands[8] = "coverage"
BY DEF Commands

\* Two reports of the same executions with one projection have the same rows.
LEMMA ProjectionDetermines ==
  ASSUME NEW S, NEW p, NEW q, p.rows \in [S -> Statuses], q.rows \in [S -> Statuses],
         Projection(p) = Projection(q)
  PROVE  p.rows = q.rows
<1>1. \A x \in S : p.rows[x] = q.rows[x]
  <2> SUFFICES ASSUME NEW x \in S PROVE p.rows[x] = q.rows[x]
    OBVIOUS
  <2>1. CASE x \in Found(p)
    <3>1. <<x, p.rows[x]>> \in Projection(q)
      BY <2>1 DEF Projection
    <3> QED BY <3>1 DEF Projection
  <2>2. CASE x \in Found(q)
    <3>1. <<x, q.rows[x]>> \in Projection(p)
      BY <2>2 DEF Projection
    <3> QED BY <3>1 DEF Projection
  <2>3. CASE x \notin Found(p) /\ x \notin Found(q)
    BY <2>3 DEF Found, With
  <2> QED BY <2>1, <2>2, <2>3
<1> QED BY <1>1

\* A command moves the checkout away from a clean one at most, and passes or
\* ends the gate.
LEMMA RunsSoils ==
  ASSUME IInv, Runs
  PROVE  /\ tree' \in Trees /\ tree'.head = tree.head
         /\ Clean(tree') => Clean(tree)
         /\ tree.ignored = TRUE => tree'.ignored = TRUE
BY DEF IInv, TypeOK, Runs, Soiled, Clean, Trees

LEMMA InitInv == Init => IInv
<1> SUFFICES ASSUME Init PROVE IInv
  OBVIOUS
<1>1. stage = "clean" /\ passed = 0 /\ seen = {} /\ audit = None
  BY DEF Init
<1>2. reports = [l \in Compared |-> reports[l]]
  BY DEF Init
<1>3. tree \in Trees /\ touched \in BOOLEAN
  BY DEF Init
<1> QED BY <1>1, <1>2, <1>3 DEF IInv, TypeOK, TreeInv, AuditInv, NoAuditYet, LanesInv, Stages

LEMMA TypeStep ==
  ASSUME IInv, [Next]_vars
  PROVE  TypeOK'
<1> USE DEF IInv
<1>1. CASE Change
  BY <1>1 DEF Change, TypeOK, noted, made, Soiled, Washed, Moved, Trees
<1>2. CASE RequireClean
  BY <1>2 DEF RequireClean, World, made, Goes, Ends, TypeOK, Stages, Trees
<1>3. CASE ReadCommit
  BY <1>3 DEF ReadCommit, World, made, Goes, TypeOK, Stages
<1>4. CASE Prepare
  BY <1>4 DEF Prepare, World, made, Goes, Ends, TypeOK, Stages
<1>5. CASE FailCommand
  BY <1>5, RunsSoils DEF FailCommand, Runs, noted, Ends, TypeOK, Stages
<1>6. CASE RunVerifier \/ RunLane
  <2>1. Runs /\ Passes
    BY <1>6 DEF RunVerifier, RunLane
  <2>2. /\ passed' = passed + 1 /\ passed' \in 0..8 /\ passed' > 0 /\ seen' # {}
        /\ stage' \in {"run", "residue"}
        /\ stage' = "run" => passed' < 8
        /\ stage' = "residue" => passed' = 8
    BY <2>1, CommandAt DEF Runs, Passes, Goes, TypeOK
  <2>3. UNCHANGED <<touched, baseline>> /\ tree' \in Trees
    BY <2>1, RunsSoils DEF Runs, noted
  <2>4. reports' = [l \in Compared |-> reports'[l]]
    BY <1>6 DEF RunVerifier, RunLane, TypeOK
  <2> QED BY <2>1, <2>2, <2>3, <2>4 DEF TypeOK, Stages, Runs
<1>7. CASE RequireNoResidue
  BY <1>7 DEF RequireNoResidue, World, noted, made, Goes, Ends, TypeOK, Stages
<1>8. CASE WriteAudit
  BY <1>8 DEF WriteAudit, World, noted, Goes, Ends, TypeOK, Stages
<1>9. CASE Seal
  BY <1>9 DEF Seal, World, noted, Goes, Ends, TypeOK, Stages
<1>10. CASE UNCHANGED vars
  BY <1>10 DEF vars, noted, made, TypeOK
<1> QED
  BY <1>1, <1>2, <1>3, <1>4, <1>5, <1>6, <1>7, <1>8, <1>9, <1>10 DEF Next, Gate, Done

LEMMA TreeStep ==
  ASSUME IInv, [Next]_vars
  PROVE  TreeInv'
<1> USE DEF IInv
<1>1. CASE Change
  BY <1>1 DEF Change, TypeOK, TreeInv, CommitTree, noted, made, Soiled, Clean, Trees
<1>2. CASE RequireClean
  BY <1>2 DEF RequireClean, World, made, Goes, Ends, TypeOK, TreeInv, CommitTree, Trees
<1>3. CASE ReadCommit
  BY <1>3 DEF ReadCommit, World, made, Goes, TypeOK, TreeInv, CommitTree
<1>4. CASE Prepare
  BY <1>4 DEF Prepare, World, made, Goes, Ends, TypeOK, TreeInv, CommitTree
<1>5. CASE FailCommand
  BY <1>5 DEF FailCommand, Ends, TreeInv
<1>6. CASE RunVerifier \/ RunLane
  <2>1. Runs /\ Passes
    BY <1>6 DEF RunVerifier, RunLane
  <2>2. stage = "run" /\ UNCHANGED <<touched, commit, baseline>> /\ CommitTree' = CommitTree
    BY <2>1 DEF Runs, noted, CommitTree
  <2>3. SUFFICES ASSUME ~touched
                 PROVE  /\ tree'.head = commit
                        /\ baseline = TRUE => tree'.ignored = TRUE
                        /\ Clean(tree') /\ tree'.ignored = baseline => seen' \subseteq {CommitTree}
    BY <2>2 DEF TreeInv
  <2>4. /\ tree.head = commit /\ (baseline = TRUE => tree.ignored = TRUE)
        /\ Clean(tree) /\ tree.ignored = baseline => seen \subseteq {CommitTree}
    BY <2>2, <2>3 DEF TreeInv
  <2>5. Clean(tree') /\ tree'.ignored = baseline => Clean(tree) /\ tree.ignored = baseline
    BY <2>1, <2>2, <2>4, RunsSoils DEF TypeOK, Trees
  <2>6. Clean(tree) /\ tree.ignored = baseline => tree = CommitTree
    BY <2>4 DEF CommitTree, Clean, TypeOK, Trees
  <2>7. seen' = seen \union {Files(Current)} /\ Files(Current) \in {CommitTree, tree}
    BY <2>1 DEF Passes, Files, CommitTree
  <2> QED BY <2>1, <2>4, <2>5, <2>6, <2>7, RunsSoils
<1>7. CASE RequireNoResidue
  BY <1>7 DEF RequireNoResidue, World, noted, made, Goes, Ends, TreeInv
<1>8. CASE WriteAudit
  BY <1>8 DEF WriteAudit, World, noted, Goes, Ends, TreeInv
<1>9. CASE Seal
  BY <1>9 DEF Seal, World, noted, Goes, Ends, TreeInv
<1>10. CASE UNCHANGED vars
  BY <1>10 DEF vars, noted, made, TreeInv, CommitTree
<1> QED
  BY <1>1, <1>2, <1>3, <1>4, <1>5, <1>6, <1>7, <1>8, <1>9, <1>10 DEF Next, Gate, Done

LEMMA AuditStep ==
  ASSUME IInv, [Next]_vars
  PROVE  AuditInv' /\ NoAuditYet'
<1> USE DEF IInv, AuditInv, NoAuditYet
<1>1. CASE Change
  BY <1>1 DEF Change, noted, made, CommitTree
<1>2. CASE RequireClean
  BY <1>2 DEF RequireClean, World, made, Goes, Ends, TypeOK
<1>3. CASE ReadCommit
  BY <1>3 DEF ReadCommit, World, made, Goes, TypeOK
<1>4. CASE Prepare
  BY <1>4 DEF Prepare, World, made, Goes, Ends, TypeOK
<1>5. CASE FailCommand
  BY <1>5 DEF FailCommand, Runs, noted, Ends
<1>6. CASE RunVerifier \/ RunLane
  <2>1. stage = "run" /\ audit' = audit /\ stage' \in {"run", "residue"}
    BY <1>6 DEF RunVerifier, RunLane, Runs, Passes, Goes
  <2> QED BY <2>1
<1>7. CASE RequireNoResidue
  BY <1>7 DEF RequireNoResidue, World, noted, made, Goes, Ends, TypeOK, TreeInv, Residue, CommitTree
<1>8. CASE WriteAudit
  BY <1>8 DEF WriteAudit, World, noted, Goes, Ends, CommitTree
<1>9. CASE Seal
  BY <1>9 DEF Seal, World, noted, Goes, Ends, CommitTree
<1>10. CASE UNCHANGED vars
  BY <1>10 DEF vars, noted, made, CommitTree
<1> QED
  BY <1>1, <1>2, <1>3, <1>4, <1>5, <1>6, <1>7, <1>8, <1>9, <1>10 DEF Next, Gate, Done

\* One lane: its report follows from the tree and is accepted.
LEMMA LaneStep ==
  ASSUME IInv, RunLane
  PROVE  LanesInv'
<1> USE DEF IInv
<1>1. /\ passed \in 0..7 /\ passed' = passed + 1 /\ version' = version
      /\ reports = [l \in Compared |-> reports[l]]
  BY DEF RunLane, Runs, Passes, noted, TypeOK
<1>2. PICK rows \in Rows(Current), totals \in Totals(Current) :
        LET r == ReportIn(tree, rows, totals) IN
          /\ Accepted(Current, r)
          /\ reports' = IF Current \in Compared THEN [reports EXCEPT ![Current] = r] ELSE reports
  BY DEF RunLane
<1> DEFINE r == ReportIn(tree, rows, totals)
<1>3. /\ Accepted(Current, r) /\ r.rows = rows
      /\ reports' = IF Current \in Compared THEN [reports EXCEPT ![Current] = r] ELSE reports
  BY <1>2 DEF ReportIn
<1> HIDE DEF r
<1>4. passed \in {1, 2, 3, 6, 7}
  BY <1>1, CommandAt DEF RunLane, Current, Lanes, Compared
<1>5. CASE passed = 1
  <2>1. Current = "normal" BY <1>5, CommandAt DEF Current
  <2>2. r.version = version /\ rows \in [Executions -> Statuses]
    BY <1>3, <2>1 DEF Accepted, RequireVersion, Rows
  <2>3. reports'["normal"] = r BY <1>1, <1>3, <2>1 DEF Compared
  <2> QED BY <1>1, <1>3, <1>5, <2>2, <2>3 DEF LanesInv
<1>6. CASE passed = 2
  <2>1. Current = "isolated" BY <1>6, CommandAt DEF Current
  <2>2. /\ r.version = version /\ rows \in [Executions -> Statuses]
        /\ Required \subseteq PassedDescriptions(r) /\ Projection(reports["normal"]) = Projection(r)
    BY <1>3, <2>1 DEF Accepted, RequireVersion, SelfContract, ReconcileSuites, Rows
  <2>3. /\ reports'["isolated"] = r /\ reports'["normal"] = reports["normal"]
    BY <1>1, <1>3, <2>1 DEF Compared
  <2>4. reports["normal"].rows \in [Executions -> Statuses] /\ reports["normal"].version = version
    BY <1>6 DEF LanesInv
  <2>5. reports["normal"].rows = r.rows
    BY <1>3, <2>2, <2>4, ProjectionDetermines
  <2>6. Required \subseteq PassedDescriptions(reports'["isolated"])
    BY <2>2, <2>3
  <2> QED BY <1>1, <1>6, <2>2, <2>3, <2>4, <2>5, <2>6 DEF LanesInv, PassedDescriptions, With
<1>7. CASE passed = 3
  <2>1. Current = "differential" BY <1>7, CommandAt DEF Current
  <2>2. reports' = reports BY <1>3, <2>1 DEF Compared
  <2> QED BY <1>1, <1>7, <2>2 DEF LanesInv
<1>8. CASE passed = 6
  <2>1. Current = "correctness" BY <1>8, CommandAt DEF Current
  <2>2. r.version = version /\ rows \in [Quickstart -> Statuses]
    BY <1>3, <2>1 DEF Accepted, RequireVersion, Rows
  <2>3. /\ reports'["correctness"] = r /\ reports'["normal"] = reports["normal"]
        /\ reports'["isolated"] = reports["isolated"]
    BY <1>1, <1>3, <2>1 DEF Compared
  <2> QED BY <1>1, <1>3, <1>8, <2>2, <2>3 DEF LanesInv
<1>9. CASE passed = 7
  <2>1. Current = "coverage" BY <1>9, CommandAt DEF Current
  <2>2. /\ r.version = version /\ rows \in [Quickstart -> Statuses]
        /\ ReconcileReports(reports["correctness"], r)
    BY <1>3, <2>1 DEF Accepted, RequireVersion, Rows
  <2>3. /\ reports'["coverage"] = r /\ reports'["normal"] = reports["normal"]
        /\ reports'["isolated"] = reports["isolated"]
        /\ reports'["correctness"] = reports["correctness"]
    BY <1>1, <1>3, <2>1 DEF Compared
  <2>4. reports["correctness"].rows \in [Quickstart -> Statuses]
    BY <1>9 DEF LanesInv
  <2>5. reports["correctness"].rows = r.rows
    <3>1. ASSUME NEW x \in Quickstart PROVE reports["correctness"].rows[x] = r.rows[x]
      BY <1>3, <2>2, <2>4 DEF ReconcileReports, Found, With
    <3> QED BY <1>3, <2>2, <2>4, <3>1
  <2>6. reports["correctness"].revision = r.revision
    BY <2>2 DEF ReconcileReports
  <2> QED BY <1>1, <1>9, <2>2, <2>3, <2>5, <2>6 DEF LanesInv
<1> QED BY <1>4, <1>5, <1>6, <1>7, <1>8, <1>9

LEMMA LanesStep ==
  ASSUME IInv, [Next]_vars
  PROVE  LanesInv'
<1> USE DEF IInv
<1>1. CASE UNCHANGED <<passed, reports, version>>
  BY <1>1 DEF LanesInv
<1>2. CASE RunVerifier
  <2>1. /\ passed \in 0..7 /\ passed' = passed + 1 /\ UNCHANGED <<version, reports>>
    BY <1>2 DEF RunVerifier, Runs, Passes, noted, TypeOK
  <2>2. passed \in {0, 4, 5}
    BY <1>2, <2>1, CommandAt DEF RunVerifier, Current, Lanes, Compared
  <2> QED BY <2>1, <2>2 DEF LanesInv
<1>3. CASE RunLane
  BY <1>3, LaneStep
<1>4. CASE Prepare
  <2>1. passed = 0 /\ passed' = 0
    BY <1>4 DEF Prepare, World, made, TypeOK
  <2> QED BY <2>1 DEF LanesInv
<1>5. CASE Change \/ RequireClean \/ ReadCommit \/ FailCommand
  BY <1>1, <1>5 DEF Change, RequireClean, ReadCommit, FailCommand, Runs, made, noted
<1>6. CASE RequireNoResidue \/ WriteAudit \/ Seal \/ UNCHANGED vars
  BY <1>1, <1>6 DEF RequireNoResidue, WriteAudit, Seal, noted, made, vars
<1> QED
  BY <1>1, <1>2, <1>3, <1>4, <1>5, <1>6 DEF Next, Gate, Done

\* The gate keeps its promises at every step: the induction of this module.
THEOREM Inductive == Spec => []IInv
<1>1. IInv /\ [Next]_vars => IInv'
  BY TypeStep, TreeStep, AuditStep, LanesStep DEF IInv
<1> QED BY InitInv, <1>1, PTL DEF Spec

\* An audit names the commit whose files every command of the gate saw, unless
\* someone moved HEAD or took a change back in the meantime.
THEOREM AuditNames == Spec => []AuditNamesWhatRan
<1>1. IInv => AuditNamesWhatRan
  BY CommandAt DEF IInv, AuditInv, TypeOK, AuditNamesWhatRan
<1> QED BY <1>1, Inductive, PTL

\* Behind an audit, the modes and lanes of the gate agree on every execution.
THEOREM LanesAgree == Spec => []AuditedLanesAgree
<1>1. IInv => AuditedLanesAgree
  BY DEF IInv, AuditInv, LanesInv, AuditedLanesAgree, Compared
<1> QED BY <1>1, Inductive, PTL
=============================================================================
