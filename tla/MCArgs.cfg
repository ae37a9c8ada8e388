SPECIFICATION Spec
CONSTANTS
  cfgA = cfgA
  cfgB = cfgB
  Options <- MCOptions
  MaxOptions = 3
  Malformed = Malformed
  DefaultParams = DefaultParams
  HashDefault = 4
  MaxHash = 6
  MinLen = 4
  MaxLen = 6
  LenDefault = 4
  IntBits = 4
  CharBits = 2
  MaxEthPorts = 3
INVARIANTS
  TypeOK
  OrderFree
