CONSTANTS
  tagged = tagged
  fixed = fixed
  next = next
  Commits = {tagged, fixed, next}
  VersionOf <- MCVersionOf
  Executions = {1, 2, 3}
  Quickstart = {1, 2}
  TestOf <- MCTestOf
  DescriptionOf <- MCDescriptionOf
  Required = {"contract"}
  MinTests = 2
  MaxSkips = 1
  Expected = 1
  Counts = {0, 1}
  MaxChanges = 2
SPECIFICATION Spec
SYMMETRY Symmetry
INVARIANTS AuditNamesWhatRan AuditedLanesAgree
