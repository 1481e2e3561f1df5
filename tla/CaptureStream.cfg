SPECIFICATION FairSpec
CONSTANTS
  c1 = c1
  c2 = c2
  w1 = w1
  NoConsumer = NoConsumer
  Captures <- TwoCaptures
  Savers <- OneSaver
  NonIP <- FirstOfSecond
  LongName <- ThirdOfFirst
  BatchSize = 2
  PacketLimit <- ThreeAndOne
  QueueRoom = 1
  ReportRoom = 0
  DBFails = TRUE
  MaxFaults = 1
INVARIANTS
  TypeOK
  NothingLeftBehind
  LossNeedsAnEnd
  StoredTwiceHasCause
  
PROPERTIES
  Drains
