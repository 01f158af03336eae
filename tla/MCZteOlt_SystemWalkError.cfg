CONSTANTS
  Agent <- MCAgent
  UptimeTicks <- MCUptimeTicks
  PonPortRequests <- MCPonPortRequests

SPECIFICATION Spec

INVARIANT SystemWalkFailureAborts
