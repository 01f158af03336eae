CONSTANTS
  ipA = ipA
  ipB = ipB
  c1 = c1
  c2 = c2
  r1 = r1
  r2 = r2
  r3 = r3
  Malformed = Malformed
  IPs = {ipA, ipB}
  Creds = {c1, c2}
  Requests = {r1, r2, r3}
  Payload <- MCPayload
  MaxTicks = 2
SPECIFICATION Spec
INVARIANT TypeOK
INVARIANT StoreHoldsOneWholeSync
INVARIANT PollDevicePartialFailure
PROPERTY SyncedTargetEventuallyPolled
