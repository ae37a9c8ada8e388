SPECIFICATION FairSpec
CONSTANTS
  NumSlaves = 2
  NumPorts = 2
  NumRxQueues <- MasterPolls
  MaxCheckTime = 3
  MemAccess = TRUE
  WriteStats = TRUE
INVARIANTS
  TypeOK
  OutliveLoops
  FinallyReported
PROPERTIES
  Launches
  ShutsDown
