\* Failing allocations, up to those that fill a queue; lwIP short of memory.
SPECIFICATION FairSpec
CONSTANTS
  RX_QUEUE_SIZE = 2
  MaxFrames = 5
  MaxMissed = 3
  PoolMayBeEmpty = TRUE
INVARIANTS
  TypeOK
  ReadFindsFrame
  SafeOnceStarted
  OneOwner
  HandedInOrder
  LagIsFailures
PROPERTY
  HandlerReturns
