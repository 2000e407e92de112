CONSTANTS
  p1 = p1
  p2 = p2
  Tools = {p1, p2}
  Families = {"snapshots", "quarantine", "baseline"}
  Tests = {"t1", "t2"}
  Uses <- MCUses
  Place <- Shared
  Flaky = {"t1", "t2", "t2 case"}
  Measured = {"t2"}
  NamesOf <- MCNamesOf
  Schemes <- MCSchemes
  Selections = {"all", "paths", "filtered", "shard"}
  Endings = {"green", "halted", "failed", "gated", "uncovered"}
  MaxRuns = 2
  MaxEdits = 1
  MaxKills = 1
  MaxTime = 1
SPECIFICATION UpkeepSpec
INVARIANTS AuditRestores DocumentsAreEarned IdsMeanTests
PROPERTIES NothingLost UpdatesAccumulate
SYMMETRY Symmetry
