CONSTANTS
  r1 = r1
  r2 = r2
  ip = ip
  Requests <- MCRequests
  RequestIp <- MCRequestIp
  RequestProtocol <- MCRequestProtocol
  RequestTags <- MCRequestTags
  DbErrors = FALSE

SPECIFICATION Spec

INVARIANT IpUniqueAmongDevices
