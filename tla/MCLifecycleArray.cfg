SPECIFICATION Spec
CONSTANTS
  NumSlaves = 2
  NumPorts = 2
  NumRxQueues <- MasterPolls
  MaxCheckTime = 3
  MemAccess = TRUE
  WriteStats = TRUE
INVARIANTS
  ArrayAllocated
