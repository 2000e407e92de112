CONSTANTS
  NumFiles = 2
  MaxTries = 2
  Configs <- MCConfigs
SPECIFICATION Spec
INVARIANT GreenIsEarned
PROPERTIES NeverRerolled AccountsInOrder RunEnds
