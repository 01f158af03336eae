CONSTANTS
  e1 = e1
  s1 = s1
  s2 = s2
  m1 = m1
  Requests <- MCRequests
  Kind <- MCKind
  Driver <- MCDriver
  Malformed <- MCMalformed
  MemReadings <- MCMemReadings
  Uptimes <- MCUptimes
  UintWidth <- MCUintWidth
SPECIFICATION Spec
INVARIANT
  MemoryUsageFromReadings
