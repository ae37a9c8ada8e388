SPECIFICATION Spec
SYMMETRY PortSymmetry
CONSTANTS
  p0 = p0
  p1 = p1
  Ports <- MCPorts
  BadPort = BadPort
  NoPort = NoPort
  MaxPktBurst = 11
  Garbage = 7
INVARIANTS
  TypeOK
  GroupsAreRuns
