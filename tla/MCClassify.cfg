SPECIFICATION Spec
CONSTANTS
  Sockets = {s1, s2}
  Masks <- MCMasks
  Entries = {4, 6}
  HashDefault = 4
  HashEntries = 6
  EmRoutes = 4
  LpmRoutes = 4
  ByteValueMax = 2
  Headers <- MCHeaders
  MaxBurst = 3
  Batch = 2
  MaxPorts = 3
  Freed = Freed
INVARIANTS
  RoutedByRule
  EnabledOnly
PROPERTIES
  PlacesAgree
