--------------------------- MODULE MCMockRegistry ---------------------------
(***************************************************************************)
(* MockRegistry on two names, a function of a few parameters and one of    *)
(* eight, and one dictionary: enough for a name that exists, one that does *)
(* not, and every substitution laid over every other.  The second name is  *)
(* there to see that nothing touches the wrong one; it is never spied on,  *)
(* which keeps the instance small.                                         *)
(***************************************************************************)
EXTENDS MockRegistry

CONSTANTS n1, n2, f1, f8, d1

MCNames == {n1, n2}
MCLambdas == {f1, f8}
MCWide == {f8}
MCDicts == {d1}

SpiesOnOne == env[n2] \notin Wrappers /\ seqs[n2] = 0
=============================================================================
