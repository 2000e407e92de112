------------------------------ MODULE MockScope ------------------------------
(***************************************************************************)
(* What resQ promises about substituted values, with none of the registry  *)
(* that lib/mock.q keeps: the first substitution of a name since the last  *)
(* restore fixes the value that the restore puts back, a restore touches   *)
(* no other name, and a name it could not put back is reported.  One       *)
(* original is lost: that of a name which is deleted while it is           *)
(* substituted, and then substituted again.                                *)
(***************************************************************************)
CONSTANTS
  Names,      \* fully qualified q names that tests substitute
  Values,     \* values a name can hold
  Absent,     \* the name is not defined
  Untouched   \* the name has not been substituted since the last restore

VARIABLES
  env,        \* the process' global variables
  origin,     \* the value each name had before its first substitution
  lost,       \* names whose original a restore will not put back
  reported    \* names whose restoration failed and was reported

vars == <<env, origin, lost, reported>>

Init ==
  /\ env \in [Names -> Values \union {Absent}]
  /\ origin = [n \in Names |-> Untouched]
  /\ lost = {} /\ reported = {}

Substitute(n, v) ==
  /\ env' = [env EXCEPT ![n] = v]
  /\ origin' = [origin EXCEPT ![n] = IF @ = Untouched THEN env[n] ELSE @]
  /\ lost' = IF env[n] = Absent /\ origin[n] \notin {Untouched, Absent}
             THEN lost \union {n} ELSE lost
  /\ UNCHANGED reported

\* The code under test changes one of its own names.
CodeWrites(n, v) ==
  /\ env' = [env EXCEPT ![n] = v]
  /\ UNCHANGED <<origin, lost, reported>>

Restore(failing) ==
  /\ env' = [n \in Names |-> IF n \in lost THEN Absent
                             ELSE IF origin[n] = Untouched \/ n \in failing THEN env[n]
                             ELSE origin[n]]
  /\ origin' = [n \in Names |-> Untouched] /\ lost' = {}
  /\ reported' = reported \union failing

Next ==
  \/ \E n \in Names, v \in Values : Substitute(n, v)
  \/ \E n \in Names, v \in Values \union {Absent} : CodeWrites(n, v)
  \/ \E failing \in SUBSET {n \in Names : origin[n] \notin {Untouched, Absent}} :
       Restore(failing)

Spec == Init /\ [][Next]_vars
=============================================================================
