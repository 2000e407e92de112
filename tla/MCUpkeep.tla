------------------------------ MODULE MCUpkeep ------------------------------
(***************************************************************************)
(* Two tests, the first of which uses one name in two snapshot roots; both *)
(* are flaky, the second is a benchmark.  The ids of two generations pair  *)
(* up, or the tests share their id in the old or in the new one, or only   *)
(* the id of the case is new.                                              *)
(***************************************************************************)
EXTENDS Upkeep, TLC

CONSTANTS p1, p2

MCUses == [t1 |-> {"a", "b"}, t2 |-> {"c"}]
Shared == [s \in {"a", "b", "c"} |-> IF s = "c" THEN "text/x" ELSE "binary/x"]
MCNamesOf == [t1 |-> {"t1"}, t2 |-> {"t2", "t2 case"}]

Assigned(one, two, case) == [n \in {"t1", "t2", "t2 case"} |->
                               CASE n = "t1" -> one [] n = "t2" -> two [] OTHER -> case]
OneScheme == {<<Assigned("o1", "o2", "oc"), Assigned("n1", "n2", "nc")>>}
MCSchemes == OneScheme \union
             {<<Assigned("o1", "o1", "oc"), Assigned("n1", "n2", "nc")>>,
              <<Assigned("o1", "o2", "oc"), Assigned("n1", "n1", "nc")>>,
              <<Assigned("o1", "o2", "oc"), Assigned("o1", "o2", "nc")>>}
Symmetry == Permutations(Tools)
=============================================================================
