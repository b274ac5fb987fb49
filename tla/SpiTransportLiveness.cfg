\* No wire faults: what is queued is sent, what the slave offers is handled and not lost.
SPECIFICATION FairSpec
CONSTANTS
  Senders = {s1, s2}
  SerialSenders = {s1}
  TransactionTask = tt
  TO_SLAVE_QUEUE_SIZE = 2
  FROM_SLAVE_QUEUE_SIZE = 1
  MaxTx = 2
  MaxRx = 1
  MallocMayFail = FALSE
  WireMayFail = FALSE
PROPERTIES
  TxDrains
  SlaveDataDelivered
  ImplementsChannel
