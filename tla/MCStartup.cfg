SPECIFICATION Spec
CONSTANTS
  Configs <- AnyConfigs
  Masks <- AnyMasks
  NbPorts = 2
  Lcores <- TwoLcores
  SocketOf <- TwoSockets
  NbSockets = 2
  HasPtypes <- FirstPort
  MaxRxQueuePerPort = 2
  MaxRxQueuePerLcore = 2
  MaxTxQueuePerPort = 2
  NbRxd = 4
  NbTxd = 4
  MaxPktBurst = 2
  CacheSize = 2
  MinMbufs = 8
INVARIANTS
  TypeOK
  RxQueuesOwned
  TxQueuesPrivate
