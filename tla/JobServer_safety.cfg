CONSTANTS
  j1 = j1  w1 = w1  w2 = w2  d1 = d1  d2 = d2
  Jobs = {j1}
  Workers <- TwoWorkers
  Deletes <- TwoDeletes
  Spellings = {TRUE, FALSE}
  FirstVersion = 1
  DBFails = TRUE
SYMMETRY AnyOrder
SPECIFICATION Spec
INVARIANTS TypeOK RunningIsCancellable PacketsBelong
