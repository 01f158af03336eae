CONSTANTS
  r1 = r1
  r2 = r2
  l1 = l1
  g1 = g1
  c1 = c1
  unknown = unknown
  Requests <- MCRequests
  RequestIp <- MCRequestIp
  RequestProtocol <- MCRequestProtocol
  RequestTags <- MCRequestTags
  DbErrors = TRUE
  ListRequests = {l1}
  PageQueries <- MCPageQueries
  GetRequests = {g1}
  ConfigRequests = {c1}
  UnknownId = unknown
  Words <- MCWords

SPECIFICATION Spec

INVARIANT TypeOK
INVARIANT ApiCommandIsPath
INVARIANT ConfigSessionsReleased
INVARIANT ListTotalCoversPage
