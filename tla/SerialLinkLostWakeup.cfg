\* Two messages before the reader runs, on a fault-free link.
SPECIFICATION FairSpec
CONSTANTS
  TO_SERIAL_INFT_QUEUE_SIZE = 2
  MaxMsg = 5
  MaxFrags = 1
  FramesMayBeLost = FALSE
  MallocMayFail = FALSE
PROPERTY
  QueueIsEmptied
