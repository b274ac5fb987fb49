\* Two sending threads, the smallest queues, every fault.
SPECIFICATION Spec
CONSTANTS
  Senders = {s1, s2}
  SerialSenders = {s1}
  TransactionTask = tt
  TO_SLAVE_QUEUE_SIZE = 2
  FROM_SLAVE_QUEUE_SIZE = 1
  MaxTx = 2
  MaxRx = 2
  MallocMayFail = TRUE
  WireMayFail = TRUE
INVARIANTS
  TypeOK
  TxNoLostWakeup
  RxNoLostWakeup
  BuffersAccounted
  RxInOrder
