SPECIFICATION FairSpec
CONSTANTS
  c1 = c1
  c2 = c2
  s1 = s1
  s2 = s2
  w1 = w1
  w2 = w2
  r1 = r1
  r2 = r2
  NoCapture = NoCapture
  NoSession = NoSession
  Captures = {c1}
  Sessions = {s1}
  Interfaces = {en0}
  Savers <- TwoSavers
  Requests <- TwoRequests
  DBFails = FALSE
PROPERTIES
  SaversLeave
  ShutdownEnds
