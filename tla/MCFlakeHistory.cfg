CONSTANTS
  r1 = r1
  r2 = r2
  r3 = r3
  alice = alice
  bob = bob
  Runs <- TwoRuns
  NoRun = NoRun
  MaxTries = 2
  MaxCrashes = 1
  Shapes <- MCShapes
  Users <- TwoUsers
  Window = 2
  UnseenLimit = 1
SPECIFICATION Spec
INVARIANTS SingleWriter EvidenceKept LockFreed
PROPERTIES RefusesToOverwrite RunsEnd
