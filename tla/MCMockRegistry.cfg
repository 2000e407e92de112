CONSTANTS
  n1 = n1
  n2 = n2
  f1 = f1
  f8 = f8
  d1 = d1
  Absent = Absent
  Unsaved = Unsaved
  NoImpl = NoImpl
  Names <- MCNames
  Lambdas <- MCLambdas
  Wide <- MCWide
  Dicts <- MCDicts
  MaxLen = 2
SPECIFICATION Spec
INVARIANT WrappersBacked
PROPERTY RestoresOriginals
CONSTRAINT SpiesOnOne
