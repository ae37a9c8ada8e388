SPECIFICATION Spec
SYMMETRY PortSymmetry
CONSTANTS
  p0 = p0
  p1 = p1
  BadPort = BadPort
  Ports <- MCPorts
  NumRxQueues = 1
  MaxPktBurst = 4
  MaxTxBurst = 2
  FwdStep = 2
  Simd = TRUE
  MaxArrivals = 5
INVARIANTS
  TypeOK
  OneHolder
  PortOrder
  RightPort
PROPERTIES
  ImplementsFifo
