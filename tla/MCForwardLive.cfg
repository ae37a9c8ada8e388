SPECIFICATION FairSpec
CONSTANTS
  p0 = p0
  p1 = p1
  BadPort = BadPort
  Ports <- MCPorts
  NumRxQueues = 2
  MaxPktBurst = 3
  MaxTxBurst = 2
  FwdStep = 1
  Simd = FALSE
  MaxArrivals = 4
PROPERTIES
  EventuallyLeaves
  QuitEndsLoop
