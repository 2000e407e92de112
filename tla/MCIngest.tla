------------------------------ MODULE MCIngest ------------------------------
(***************************************************************************)
(* Two loaders and four runs of one directory: the first two measure       *)
(* coverage, of different files; the others do not, so that the artifact   *)
(* of the second lies next to their reports.  PostgreSQL refuses a date in *)
(* the third report, and the fourth has no value in a required column.     *)
(***************************************************************************)
EXTENDS Ingest

CONSTANTS l1, l2

MCKindOf == [f |-> "function", s |-> "statement", b |-> "branch"]
MCFileOf == [f |-> "one.q", s |-> "one.q", b |-> "two.q"]

Rows(bad) == [e \in {"e1", "e2"} |->
                [status |-> IF e \in bad THEN "fail" ELSE "pass", muted |-> FALSE,
                 quarantined |-> FALSE]]
Report(r, bad, blank, refused) ==
  [run |-> r, rows |-> Rows(bad), summary |-> Tally(Rows(bad)), coverage |-> NoCoverage,
   attempts |-> [e1 |-> 2, e2 |-> 1], benches |-> {"e2"}, diagnostics |-> 1,
   sound |-> TRUE, blank |-> blank, refused |-> refused]
Artifact(r, files) ==
  [run |-> r, files |-> files, sound |-> TRUE,
   contexts |-> [hits |-> [e1 |-> 2], metrics |-> [e1 |-> {"f", "s"}]]]

MCResults ==
  <<[report |-> Report(1, {}, FALSE, {}), artifact |-> Artifact(1, {"one.q", "two.q"})],
    [report |-> Report(2, {"e1"}, FALSE, {}), artifact |-> Artifact(2, {"one.q"})],
    [report |-> Report(3, {}, FALSE, {<<"postgres", "tests">>}), artifact |-> NoArtifact],
    [report |-> Report(4, {}, TRUE, {}), artifact |-> NoArtifact]>>
Symmetry == Permutations(Loaders)
=============================================================================
