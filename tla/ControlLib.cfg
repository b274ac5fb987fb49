\* Any use of the library, every fault, responses at any time.
SPECIFICATION FairSpec
CONSTANTS
  a1 = a1
  a2 = a2
  i1 = i1
  i2 = i2
  Apps = {a1, a2}
  Ids = {i1, i2}
  Uses <- Mixed
  MaxReq = 3
  RequestsMayFail = TRUE
  MallocMayFail = TRUE
  LateResponses = TRUE
INVARIANTS
  TypeOK
  FetchFindsResponse
  ListIsSound
  OneOngoing
  OneOwnOutcome
  FiresUnanswered
  

  
  
