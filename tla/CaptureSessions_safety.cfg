SPECIFICATION Spec
CONSTANTS
  c1 = c1
  c2 = c2
  s1 = s1
  s2 = s2
  w1 = w1
  w2 = w2
  r1 = r1
  r2 = r2
  NoCapture = NoCapture
  NoSession = NoSession
  Captures <- TwoCaptures
  Sessions <- TwoSessions
  Interfaces = {en0}
  Savers <- TwoSavers
  Requests = {r1}
  DBFails = TRUE
SYMMETRY AnyOrder
INVARIANTS
  Stoppable
