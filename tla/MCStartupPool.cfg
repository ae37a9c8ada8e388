SPECIFICATION Spec
CONSTANTS
  Configs <- WideConfig
  Masks <- BothPorts
  NbPorts = 2
  Lcores <- FiveLcores
  SocketOf <- OneSocket
  NbSockets = 8
  HasPtypes <- FirstPort
  MaxRxQueuePerPort = 128
  MaxRxQueuePerLcore = 16
  MaxTxQueuePerPort = 32
  NbRxd = 128
  NbTxd = 512
  MaxPktBurst = 32
  CacheSize = 256
  MinMbufs = 8192
INVARIANTS
  MbufsSuffice
