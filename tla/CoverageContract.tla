--------------------------- MODULE CoverageContract ---------------------------
(***************************************************************************)
(* tools/coverage_contract.py: what a coverage artifact must satisfy, by   *)
(* itself and next to the report of the same run.  A site stands for a     *)
(* function, a measured statement or an edge of a branch; percentages are  *)
(* functions of the counts and are left out.                               *)
(***************************************************************************)
EXTENDS Integers, FiniteSets, FiniteSetsExt

CONSTANTS
  Sites,      \* what coverage measures, in all source files
  KindOf,     \* the kind of each site
  Eligible    \* the sites that can be instrumented at all

Kinds == {"function", "statement", "branch"}

ASSUME CoverageAssumption ==
  IsFiniteSet(Sites) /\ KindOf \in [Sites -> Kinds] /\ Eligible \subseteq Sites

\* FALLBACKS: the reasons the contract knows for a site without instrumentation.
Fallbacks == {"none", "statement_mode_disabled", "source_not_loaded",
              "function_wrapper_unavailable", "rewrite_rejected"}

Gates == {"functions", "lines", "completeness", "branches", "branchCompleteness"}
NoCoverage == [enabled |-> FALSE]         \* the empty coverage section of a report
Unattributed == "unattributed"            \* hits outside every test
Overflow == "overflow"                    \* hits of tests beyond the context limit
Reserved == {Unattributed, Overflow}

OfKind(k) == {s \in Sites : KindOf[s] = k}
Hit(sites) == {s \in DOMAIN sites : sites[s].hits > 0}

\* The aggregate of the files, which the summary has to repeat.
Counts(sites) ==
  LET hit == Hit(sites)
      working == {s \in DOMAIN sites : sites[s].instrumented}
      count(k) == LET all == OfKind(k)
                      counted == IF k = "function" THEN all ELSE all \intersect Eligible
                  IN [found |-> Cardinality(counted), hit |-> Cardinality(counted \intersect hit),
                      eligible |-> Cardinality(all \intersect Eligible),
                      instrumented |-> Cardinality(all \intersect working)]
  IN [function |-> count("function"), statement |-> count("statement"),
      branch |-> count("branch")]

\* Why functions have no statement instrumentation, counted by reason.
Fallen(sites) == [r \in Fallbacks \ {"none"} |->
                    Cardinality({s \in OfKind("function") : sites[s].reason = r})]

\* validate_summary: the counts are ordered, and an instrumentation counts as
\* complete only when its mode is on and there was something to instrument.
SummaryOk(sum) ==
  /\ \A k \in Kinds : /\ sum.counts[k].hit =< sum.counts[k].found
                      /\ sum.counts[k].instrumented =< sum.counts[k].eligible
  /\ \A k \in {"statement", "branch"} :
       sum.complete[k] = (/\ sum.mode[k] /\ sum.counts[k].eligible > 0
                          /\ sum.counts[k].instrumented = sum.counts[k].eligible)

\* What a gate divides by what.
Ratio(gate, counts) ==
  CASE gate = "functions"    -> <<counts["function"].hit, counts["function"].found>>
    [] gate = "lines"        -> <<counts["statement"].hit, counts["statement"].found>>
    [] gate = "branches"     -> <<counts["branch"].hit, counts["branch"].found>>
    [] gate = "completeness" ->
         <<counts["statement"].instrumented, counts["statement"].eligible>>
    [] gate = "branchCompleteness" ->
         <<counts["branch"].instrumented, counts["branch"].eligible>>

Measured(ratio) == ratio[2] > 0
Passes(ratio, minimum) == Measured(ratio) /\ 100 * ratio[1] >= minimum * ratio[2]

\* validate_gate
GateOk(gate) ==
  /\ gate.ratio[1] =< gate.ratio[2]
  /\ gate.measurable = Measured(gate.ratio)
  /\ gate.passed = Passes(gate.ratio, gate.minimum)

Partial(sum, k) == sum.mode[k] /\ sum.counts[k].instrumented < sum.counts[k].eligible

\* The verdict that the independent gates add up to.
GatesPass(cov) ==
  LET asked(g) == cov.gates[g].minimum > 0  IN
  /\ cov.gates["functions"].passed
  /\ asked("lines") => /\ cov.allowPartial \/ ~Partial(cov.sum, "statement")
                       /\ cov.gates["lines"].passed
  /\ asked("completeness") => cov.gates["completeness"].passed
  /\ asked("branches") => ~Partial(cov.sum, "branch") /\ cov.gates["branches"].passed
  /\ asked("branchCompleteness") => cov.gates["branchCompleteness"].passed

\* validate_report_coverage
ReportCoverageOk(cov) ==
  cov # NoCoverage =>
    /\ SummaryOk(cov.sum)
    /\ \A g \in Gates : /\ GateOk(cov.gates[g])
                        /\ cov.gates[g].ratio = Ratio(g, cov.sum.counts)
    /\ cov.partialLines = Partial(cov.sum, "statement")
    /\ cov.partialBranches = Partial(cov.sum, "branch")
    /\ cov.passed = GatesPass(cov)

\* validate_site and validate_hit_record, and the function records' own checks:
\* only functions may have hits that no instrumentation explains.
SiteOk(s, rec) ==
  /\ rec.reason \in Fallbacks
  /\ rec.instrumented => s \in Eligible
  /\ KindOf[s] # "function" /\ ~rec.instrumented => rec.hits = 0

\* validate_context_measurement: only the contexts of tests are counted as
\* stored and bounded by the limit, and every stored context has hits.
ContextsOk(ctx) ==
  LET tests == DOMAIN ctx.hits \ Reserved  IN
  /\ ~ctx.enabled => ctx.hits = << >>
  /\ Cardinality(tests) =< ctx.limit
  /\ \A c \in DOMAIN ctx.hits : ctx.hits[c] > 0
  /\ ctx.stored = Cardinality(tests)
  /\ ctx.unattributed = IF Unattributed \in DOMAIN ctx.hits THEN ctx.hits[Unattributed] ELSE 0
  /\ ctx.truncated = (ctx.overflows > 0)

\* validate_coverage_artifact for an artifact by itself ...
ArtifactOk(art) ==
  /\ SummaryOk(art.sum)
  /\ \A s \in Sites : SiteOk(s, art.sites[s])
  /\ art.sum.counts = Counts(art.sites)
  /\ art.sum.fallen = Fallen(art.sites)
  /\ ContextsOk(art.contexts)

\* Fault: the run is not compared.
BelongsTo_AnyRun(art, report) ==
  /\ ReportCoverageOk(report.coverage)
  /\ report.coverage # NoCoverage => report.coverage.sum = art.sum
  /\ DOMAIN art.contexts.hits \ Reserved \subseteq DOMAIN report.rows

\* ... and next to a report: it must be of the same run and summarise the same.
BelongsTo(art, report) ==
  /\ art.run = report.run
  /\ ReportCoverageOk(report.coverage)
  /\ report.coverage # NoCoverage => report.coverage.sum = art.sum
  /\ DOMAIN art.contexts.hits \ Reserved \subseteq DOMAIN report.rows
=============================================================================
