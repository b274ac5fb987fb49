SPECIFICATION FairSpec
CONSTANTS
  Senders = {s1}
  Receivers = {r1, r2}
  ISR = isr
  NoItem = NoItem
  NoTask = NoTask
  uxLength = 2
INVARIANTS
  TypeOK
  ReceiverWoken
  SenderWoken
PROPERTIES
  ReceiverServed
  ImplementsQueue
