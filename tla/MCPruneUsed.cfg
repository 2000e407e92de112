CONSTANTS
  p1 = p1
  p2 = p2
  Tools = {p1}
  Families = {"snapshots"}
  Tests = {"t1", "t2"}
  Uses <- MCUses
  Place <- Shared
  Flaky = {"t1", "t2", "t2 case"}
  Measured = {"t2"}
  NamesOf <- MCNamesOf
  Schemes <- OneScheme
  Selections = {"all"}
  Endings = {"green", "halted"}
  MaxRuns = 2
  MaxEdits = 0
  MaxKills = 0
  MaxTime = 0
SPECIFICATION UpkeepSpec
INVARIANT PrunedWereUnused
