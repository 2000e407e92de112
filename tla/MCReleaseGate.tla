---------------------------- MODULE MCReleaseGate ----------------------------
(***************************************************************************)
(* Two commits of one version and one of another; three cases of one test, *)
(* of which two share the description that is required.                    *)
(***************************************************************************)
EXTENDS ReleaseGate, TLC

CONSTANTS tagged, fixed, next

MCVersionOf == [c \in Commits |-> IF c = next THEN "2.1" ELSE "2.0"]
MCTestOf == [x \in Executions |-> "t"]
MCDescriptionOf == [x \in Executions |-> IF x = 1 THEN "other" ELSE "contract"]
Symmetry == Permutations({tagged, fixed})
=============================================================================
