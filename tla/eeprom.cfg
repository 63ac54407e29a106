CONSTANTS
  Slaves = {1, 2}
  Contents <- MCContents
  Wide = {2}
  SiiStart = 1
  MaxEepBuf = 128
  Retries = 1
  MaxSm = 8
  MaxPdo = 3
  MaxName = 2
  Lookups <- MCLookups
  MaxLookups = 2
  MaxFaults = 3
SPECIFICATION Spec
CHECK_DEADLOCK FALSE
INVARIANT CacheHonest
PROPERTY SiiRight
PROPERTY ControlReturned
