--------------------------- MODULE MCRunLifecycle ---------------------------
(***************************************************************************)
(* RunLifecycle on two files: one can load while the other does not, one   *)
(* test can fail while the other is quarantined.                           *)
(***************************************************************************)
EXTENDS RunLifecycle

CONSTANTS f1, f2

MCFiles == {f1, f2}

Plain == [selection |-> "all", describe |-> FALSE, quits |-> TRUE, strict |-> FALSE,
          failFast |-> FALSE, audit |-> FALSE, bench |-> FALSE, plugins |-> FALSE,
          lenient |-> {}, marks |-> TRUE]

Gates     == [Plain EXCEPT !.audit = TRUE, !.bench = TRUE, !.failFast = TRUE,
                           !.lenient = {f1}]
Shard     == [Plain EXCEPT !.selection = "shard", !.strict = TRUE, !.plugins = TRUE]
Filtered  == [Plain EXCEPT !.selection = "filtered", !.failFast = TRUE, !.quits = FALSE,
                           !.marks = FALSE]
Describe  == [Plain EXCEPT !.describe = TRUE, !.audit = TRUE]
Lenient   == [Plain EXCEPT !.lenient = {f1}]

MCConfigs == {Gates, Shard, Filtered, Describe, Lenient}
=============================================================================
