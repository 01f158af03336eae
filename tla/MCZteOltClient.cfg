CONSTANTS
  Agent <- MCAgent
  UptimeTicks <- MCUptimeTicks
  PonPortRequests <- MCPonPortRequests

SPECIFICATION Spec

INVARIANT TypeOK
INVARIANT TableCollectionIsAuthoritative
INVARIANT SystemMetricsAreMaxima
