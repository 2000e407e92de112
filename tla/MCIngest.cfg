CONSTANTS
  l1 = l1
  l2 = l2
  Loaders = {l1, l2}
  Dialects = {"sqlite", "postgres"}
  Sites = {"f", "s", "b"}
  KindOf <- MCKindOf
  Eligible = {"f", "s", "b"}
  FileOf <- MCFileOf
  Framework = "framework"
  Results <- MCResults
  MaxKills = 1
  MaxDrops = 1
SPECIFICATION Spec
INVARIANTS RunsAreWhole ExitTellsTheTruth
PROPERTIES AcceptedCanBeLoaded
SYMMETRY Symmetry
