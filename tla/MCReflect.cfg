SPECIFICATION FairSpec
CONSTANTS
  m1 = m1
  m2 = m2
  Mbufs <- MCMbufs
  Lcores = {0, 1}
  Master = 0
  Ports = 2
  PoolSize = 3
  Burst = 2
  RxDesc = 2
  TxDesc = 1
  SetTo = 2
  Wrap = 16
INVARIANTS
  TypeOK
  Conserved
  CounterExplained
  NumberedFromOne
  SummedLast
PROPERTIES
  QuitEnds
