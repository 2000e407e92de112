CONSTANTS
  Sites = {"f", "s", "b"}
  KindOf <- MCKindOf
  Eligible = {"f", "s", "b"}
  Framework = "run"
  Dirs = {0, 1}
  Execs = {"e1", "e2", "e3"}
  Slot <- MCSlot
  HitBy <- MCHitBy
  HookSites = {}
  Benches = {"e1", "e3"}
  Alpha = 5
  PScale = 100
  Stored = {"n1", "n3"}
  Confs <- MCConfs
  Outcomes <- Shapes
  MaxRuns = 3
  MaxMerges = 1
  MaxFaults = 1
SPECIFICATION Spec
INVARIANTS GreenIsEarned CoverageIsOfTheseRuns VerdictIgnoresOrder HolmIsClosedTest ObsoleteIsUnused UndisturbedIsGreen
PROPERTIES PublishedIsWhole
CHECK_DEADLOCK FALSE
