SPECIFICATION FairSpec
CONSTANTS
  p1 = p1
  p2 = p2
  p3 = p3
  u1 = u1
  u2 = u2
  NoValue = NoValue
  NoProcess = NoProcess
  Processes <- ThreeProcesses
  Urls <- TwoUrls
  Ifaces = {en0}
INVARIANTS
  TypeOK
  ConfigIsKept
  MigratedFirst
  ReachableAlone
PROPERTIES
  CommandsEnd
