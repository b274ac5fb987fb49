\* Two threads wait for their responses, which come in time.
SPECIFICATION Spec
CONSTANTS
  a1 = a1
  a2 = a2
  i1 = i1
  i2 = i2
  Apps = {a1, a2}
  Ids = {i1, i2}
  Uses <- TwoWaiters
  MaxReq = 2
  RequestsMayFail = FALSE
  MallocMayFail = FALSE
  LateResponses = FALSE
INVARIANT
  OwnResponse
