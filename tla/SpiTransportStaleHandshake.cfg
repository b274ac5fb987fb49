\* The handshake line is sampled before the mutex is taken.
SPECIFICATION Spec
CONSTANTS
  Senders = {s1, s2}
  SerialSenders = {s1}
  TransactionTask = tt
  TO_SLAVE_QUEUE_SIZE = 1
  FROM_SLAVE_QUEUE_SIZE = 1
  MaxTx = 2
  MaxRx = 1
  MallocMayFail = FALSE
  WireMayFail = FALSE
PROPERTY
  TransferOnlyWhenReady
