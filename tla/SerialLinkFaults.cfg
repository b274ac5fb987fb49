\* Lost frames and failing allocations; the smallest queue that can lag.
SPECIFICATION FairSpec
CONSTANTS
  TO_SERIAL_INFT_QUEUE_SIZE = 2
  MaxMsg = 4
  MaxFrags = 3
  FramesMayBeLost = TRUE
  MallocMayFail = TRUE
INVARIANTS
  TypeOK
  FullQueueIsRead
  IndicationIsBacked
  ReadIsWhole
  ReadInOrder
PROPERTIES
  HandlerReturns
  ImplementsChannel
