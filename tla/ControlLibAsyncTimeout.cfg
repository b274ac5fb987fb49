\* Requests with a callback, some of which are lost; nothing else fails.
SPECIFICATION FairSpec
CONSTANTS
  a1 = a1
  a2 = a2
  i1 = i1
  i2 = i2
  Apps = {a1, a2}
  Ids = {i1, i2}
  Uses <- Callbacks
  MaxReq = 2
  RequestsMayFail = FALSE
  MallocMayFail = FALSE
  LateResponses = FALSE
PROPERTY
  TimeoutGivesError
