------------------------------- MODULE MCSuite -------------------------------
(***************************************************************************)
(* Two suites, of two and of one expectation, two fixtures (a failing      *)
(* setup may find one installed), two directories and one retry.  Each     *)
(* configuration is there for one path: plain runs, testOnly focus,        *)
(* skipped and pending expectations, each way to halt, and a quarantined   *)
(* failure that must not halt.                                             *)
(***************************************************************************)
EXTENDS Suite, FiniteSets

CONSTANTS d1, d2

\* At most one thing is left behind at a time, and one row lost in a run.
FewLeftovers ==
  /\ Cardinality(mocks) + Cardinality(tasks) + (IF specTasks THEN 1 ELSE 0) <= 1
  /\ Cardinality(lost) <= 1

MCExpecCount == <<2, 1>>

C(mode, retries, m11, m12, m21, lenient) ==
  [mode |-> mode, retries |-> retries, lenient |-> lenient,
   mark |-> [i \in {<<1, 1>>, <<1, 2>>, <<2, 1>>} |->
               IF i = <<1, 1>> THEN m11 ELSE IF i = <<1, 2>> THEN m12 ELSE m21]]

MCConfigs == {
  C("none", 1, "run", "run", "skip", {}),
  C("none", 0, "run", "only", "run", {}),
  C("failFast", 0, "run", "pending", "run", {<<1, 1>>}),
  C("failFastExit", 0, "run", "run", "run", {}),
  C("failHard", 1, "run", "run", "run", {}) }
=============================================================================
