CONSTANTS
  a = a  b = b  c = c  w1 = w1  w2 = w2  r1 = r1  r2 = r2  s1 = s1  s2 = s2
  NoFile = NoFile
  FilePaths <- TwoFiles
  Content <- FilesToEnd
  Checksum <- Different
  PreChecks = {w1}
  Readers = {r1, r2}
  Savers = {s1, s2}
  BatchLimit = 2
  StreamCap = 1
  Earlier = {}
SPECIFICATION FairSpec
PROPERTIES JobEnds CancelEndsJob ImplementsJob StepsOfServer
