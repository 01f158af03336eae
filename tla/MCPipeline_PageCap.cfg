CONSTANTS
  router = router
  olt = olt
  switch = switch
  Devices <- MCDevices
  Enabled <- MCEnabled
  Protocol <- MCProtocol
  RttValues <- MCRttValues
  MaxTicks = 1
  RequestedPageSize <- MCRequestedPageSize
  MaxPageSize <- MCMaxPageSize
  DefaultPageSize <- MCDefaultPageSize
SPECIFICATION Spec
PROPERTY TickCoversEnabledDevices
