CONSTANTS
  d1 = d1
  d2 = d2
  NoDir = NoDir
  Dirs = {d1, d2}
  NumSpecs = 2
  NumFixtures = 2
  ExpecCount <- MCExpecCount
  Configs <- MCConfigs
SPECIFICATION Spec
CONSTRAINT FewLeftovers
INVARIANTS
  RemembersWhereItIs
  AttemptsStartClean
  PassMeansClean
  FixturesUnwound
  SuitesClosed
  ReportFollowsSchedule
PROPERTY RunEnds
