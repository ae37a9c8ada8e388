SPECIFICATION FairGenerator
CONSTANTS
  m1 = m1
  m2 = m2
  m3 = m3
  Mbufs <- MCMbufs
  PoolSize = 4
  Burst = 2
  TxDesc = 1
  Ones = 3
  Headers <- MCHeaders
  FilePackets <- MCFilePackets
  Repeats = {2}
  Rounds = 2
  Lcores = {0, 2, 3}
  MaxLcore = 4
  Width = 16
  Totals = {0, 4}
  Cycles = {1, 2}
  Self = 2
INVARIANTS
  TypeOK
  Conserved
  SentFilled
  ChecksumsRight
  NeverStarved
  OneReports
  TimeCovers
PROPERTIES
  Untouched
  SetupEnds
  SendEnds
  ImplementsTally
  
