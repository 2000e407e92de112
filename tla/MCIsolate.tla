------------------------------ MODULE MCIsolate ------------------------------
(***************************************************************************)
(* Isolate on two files: in one group or in two, before and after the one  *)
(* that is run again.                                                      *)
(***************************************************************************)
EXTENDS Isolate

Plain == [workers |-> 2, caseShard |-> FALSE, filtered |-> FALSE, strict |-> FALSE,
          strictPlugins |-> FALSE, gates |-> FALSE, lenient |-> {}]

Policed  == [Plain EXCEPT !.strict = TRUE, !.strictPlugins = TRUE, !.gates = TRUE]
Filtered == [Plain EXCEPT !.filtered = TRUE, !.workers = 1, !.lenient = {1}]
Shard    == [Plain EXCEPT !.caseShard = TRUE, !.strict = TRUE, !.workers = 1]

MCConfigs == {Policed, Filtered, Shard}
=============================================================================
