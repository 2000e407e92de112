CONSTANTS
  r1 = r1
  r2 = r2
  r3 = r3
  alice = alice
  bob = bob
  Runs <- ThreeRuns
  NoRun = NoRun
  MaxTries = 1
  MaxCrashes = 0
  Shapes <- GoodShape
  Users <- OneUser
  Window = 2
  UnseenLimit = 1
SPECIFICATION Spec
INVARIANT SingleWriter
