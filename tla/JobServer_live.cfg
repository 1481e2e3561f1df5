CONSTANTS
  j1 = j1  w1 = w1  w2 = w2  d1 = d1  d2 = d2
  Jobs = {j1}
  Workers <- TwoWorkers
  Deletes <- TwoDeletes
  Spellings = {TRUE, FALSE}
  FirstVersion = 4
  DBFails = FALSE
SPECIFICATION FairSpec
PROPERTIES HandlesDrain JobsSettle
