CONSTANTS
  q1 = q1  q2 = q2
  Requests <- TwoRequests
  Cap = 4
  Cost = 2
  MaxNow = 7
SYMMETRY AnyOrder
SPECIFICATION Spec
INVARIANTS TypeOK BurstBound PatientIsServed
