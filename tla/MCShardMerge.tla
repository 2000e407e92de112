---------------------------- MODULE MCShardMerge ----------------------------
(***************************************************************************)
(* Two shards and three executions, two of them in shard 0.  The sites are *)
(* a function, a statement and a branch; e1 and e3 are benchmarks.         *)
(***************************************************************************)
EXTENDS ShardMerge

MCSlot == [e \in Execs |-> IF e = "e3" THEN 1 ELSE 0]
MCKindOf == [f |-> "function", s |-> "statement", b |-> "branch"]
MCHitBy == [e1 |-> {"f", "s"}, e2 |-> {"f"}, e3 |-> {"f", "b"}]
NoUses == [e \in {} |-> {}]

Plain == [shards |-> 2, profile |-> "full", coverage |-> FALSE, modes |-> {}, contexts |-> 0,
          minimum |-> [g \in {} |-> 0], allowPartial |-> FALSE,
          uses |-> NoUses, declares |-> {}, audit |-> FALSE, snapGate |-> FALSE,
          bench |-> FALSE, baseline |-> FALSE, known |-> {}, comparable |-> {}]
Timed     == [Plain EXCEPT !.bench = TRUE, !.baseline = TRUE, !.known = Benches,
                           !.comparable = Benches]
Half      == [Timed EXCEPT !.comparable = {"e1"}]
Newer     == [Timed EXCEPT !.known = {"e1"}, !.comparable = {"e1"}]
Baseless  == [Plain EXCEPT !.bench = TRUE]
Audited   == [Plain EXCEPT !.audit = TRUE, !.uses = [e1 |-> {"n1"}, e3 |-> {"n2"}],
                           !.declares = {"n4"}]
Gated     == [Audited EXCEPT !.snapGate = TRUE]
Covered   == [Plain EXCEPT !.coverage = TRUE, !.modes = {"statement", "branch"},
                           !.contexts = 3, !.minimum = [functions |-> 50]]
Lined     == [Covered EXCEPT !.minimum = [functions |-> 50, lines |-> 1]]
Tight     == [Covered EXCEPT !.contexts = 2, !.minimum = [functions |-> 100]]
Branchless == [Covered EXCEPT !.modes = {"statement"}]
Compact   == [Plain EXCEPT !.profile = "results"]
Single    == [Plain EXCEPT !.shards = 1]

MCConfs == {Plain, Timed, Half, Newer, Baseless, Audited, Gated, Covered, Lined, Tight,
            Branchless, Compact, Single}

\* p-values: with both benchmarks as usual, each of them is significant; e3 alone
\* may be too small a change.
Usual  == [e1 |-> 2, e2 |-> 10, e3 |-> 3]
Higher == [e1 |-> 4, e2 |-> 10, e3 |-> 6]
\* Undisturbed runs, and those with one oddity.
Fine == {[conf |-> c, skew |-> 0, unknown |-> {}, bad |-> {}, muted |-> FALSE, cut |-> {},
          crash |-> FALSE, reporter |-> FALSE, unloaded |-> {}, p |-> q, slower |-> w] :
           c \in MCConfs, q \in {Usual, Higher}, w \in {{"e1", "e3"}, {"e1"}}}
\* What is measured matters where benchmarks are timed.
Basic  == {o \in Fine : /\ o.p = Usual /\ o.slower = {"e1"} /\ o.conf # Half}
Usable == Basic \union {o \in Fine : o.conf = Timed \/ (o.conf = Half /\ o.p = Usual)}

\* What may go wrong in a run of each configuration.
Oddities(c) ==
  CASE c = Plain   -> {"skewed", "e2 unknown", "e3 unknown", "e1 fails", "e1 muted", "e2 cut",
                       "crash", "reporter"}
    [] c = Timed   -> {"e1 fails", "e2 cut"}
    [] c = Audited -> {"e2 cut", "crash"}
    [] c = Covered -> {"s unloaded", "e1 fails", "e2 cut", "reporter"}
    [] OTHER       -> {}
But(o, odd) ==
  CASE odd = "skewed"     -> [o EXCEPT !.skew = 1]
    [] odd = "e2 unknown" -> [o EXCEPT !.unknown = {"e2"}]
    [] odd = "e3 unknown" -> [o EXCEPT !.unknown = {"e3"}]
    [] odd = "e1 fails"   -> [o EXCEPT !.bad = {"e1"}]
    [] odd = "e1 muted"   -> [o EXCEPT !.bad = {"e1"}, !.muted = TRUE]
    [] odd = "e2 cut"     -> [o EXCEPT !.cut = {"e2"}]
    [] odd = "crash"      -> [o EXCEPT !.crash = TRUE]
    [] odd = "reporter"   -> [o EXCEPT !.reporter = TRUE]
    [] odd = "s unloaded" -> [o EXCEPT !.unloaded = {"s"}]

Shapes == Usable \union UNION {{But(o, odd) : odd \in Oddities(o.conf)} : o \in Basic}
=============================================================================
