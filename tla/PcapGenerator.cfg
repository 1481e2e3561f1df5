SPECIFICATION FairSpec
CONSTANTS
  r1 = r1
  r2 = r2
  r3 = r3
  Runs <- ThreeRuns
  Counts = {0, 1}
  Default = 2
  MaxForeign = 1
INVARIANTS
  TypeOK
  NeverTooMany
PROPERTIES
  CountReached
  RunsEnd
