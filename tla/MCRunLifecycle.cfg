CONSTANTS
  f1 = f1
  f2 = f2
  Files <- MCFiles
  Configs <- MCConfigs
SPECIFICATION Spec
INVARIANTS GreenIsEarned VerdictsAgree ManifestFromWholeRun
PROPERTY LauncherEnds
