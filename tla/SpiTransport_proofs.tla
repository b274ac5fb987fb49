------------------------ MODULE SpiTransport_proofs ------------------------
(***************************************************************************)
(* Proofs about SpiTransport, for any finite set of sending threads, any   *)
(* queue sizes and any number of packets and frames.                       *)
(***************************************************************************)
EXTENDS SpiTransport, SequenceTheorems, FiniteSetTheorems, TLAPS

USE DEF Threads, NULL, Packet, Frame, Labels, threadVars, slaveVars

(* The type invariant is not inductive alone: what send_to_slave enqueues  *)
(* must be a packet.                                                       *)
TypeInv == /\ TypeOK
           /\ \A t \in Threads : pc[t] = "send" => txbuff[t] \in Packet

(* What taking the first element of a queue, and adding one, preserve. *)
LEMMA QueueGet ==
  ASSUME NEW S, NEW q \in Seq(S), q # <<>>
  PROVE  /\ Head(q) \in S
         /\ Tail(q) \in Seq(S)
         /\ Len(Tail(q)) = Len(q) - 1
         /\ Len(q) \in Nat \ {0}
  BY HeadTailProperties, LenProperties, EmptySeq

LEMMA QueuePut ==
  ASSUME NEW S, NEW q \in Seq(S), NEW e \in S
  PROVE  /\ Append(q, e) \in Seq(S)
         /\ Len(Append(q, e)) = Len(q) + 1
         /\ Len(q) \in Nat
  BY AppendProperties, LenProperties

LEMMA QueuesGet ==
  ASSUME TypeOK
  PROVE  /\ slave_queue # <<>> => /\ Head(slave_queue) \in Frame
                                 /\ Tail(slave_queue) \in Seq(Frame)
         /\ from_slave_queue # <<>> =>
              /\ Head(from_slave_queue) \in Frame
              /\ Tail(from_slave_queue) \in Seq(Frame)
              /\ Len(Tail(from_slave_queue)) <= FROM_SLAVE_QUEUE_SIZE
         /\ to_slave_queue # <<>> =>
              /\ Head(to_slave_queue) \in Packet
              /\ Tail(to_slave_queue) \in Seq(Packet)
              /\ Len(Tail(to_slave_queue)) <= TO_SLAVE_QUEUE_SIZE
<1>1. slave_queue \in Seq(Frame) /\ slave_queue # <<>> =>
         Head(slave_queue) \in Frame /\ Tail(slave_queue) \in Seq(Frame)
  BY QueueGet
<1>2. from_slave_queue \in Seq(Frame) /\ from_slave_queue # <<>> =>
         /\ Head(from_slave_queue) \in Frame
         /\ Tail(from_slave_queue) \in Seq(Frame)
         /\ Len(Tail(from_slave_queue)) = Len(from_slave_queue) - 1
         /\ Len(from_slave_queue) \in Nat
  BY QueueGet
<1>3. to_slave_queue \in Seq(Packet) /\ to_slave_queue # <<>> =>
         /\ Head(to_slave_queue) \in Packet
         /\ Tail(to_slave_queue) \in Seq(Packet)
         /\ Len(Tail(to_slave_queue)) = Len(to_slave_queue) - 1
         /\ Len(to_slave_queue) \in Nat
  BY QueueGet
<1>4. QED
  BY <1>1, <1>2, <1>3, BoundsAssumption DEF TypeOK

LEMMA TypeInit == Init => TypeInv
<1> SUFFICES ASSUME Init PROVE TypeInv
  OBVIOUS
<1> USE BoundsAssumption DEF Init, Rest
<1>1. pc \in [Threads -> Labels]
  OBVIOUS
<1>2. /\ txbuff \in [Threads -> Packet \cup {NULL}]
      /\ rxbuff \in [Threads -> Frame \cup {NULL}]
      /\ data_ready_seen \in [Threads -> BOOLEAN]
  OBVIOUS
<1>3. /\ to_slave_queue \in Seq(Packet) /\ Len(to_slave_queue) = 0
      /\ from_slave_queue \in Seq(Frame) /\ Len(from_slave_queue) = 0
      /\ slave_queue \in Seq(Frame) /\ delivered \in Seq(Frame)
  OBVIOUS
<1>4. \A t \in Threads : pc[t] # "send"
  OBVIOUS
<1>5. /\ Len(to_slave_queue) <= TO_SLAVE_QUEUE_SIZE
      /\ Len(from_slave_queue) <= FROM_SLAVE_QUEUE_SIZE
  BY <1>3
<1>6. TypeOK
  <2>1. /\ osSemaphore \in {0, 1} /\ mutex_spi_trans \in SUBSET Threads
        /\ rx_handle \in Frame \cup {NULL} /\ slave_loaded \in Frame \cup {NULL}
        /\ heap \in Int /\ leaked \in Nat /\ accepted \in 0..MaxTx /\ produced \in 0..MaxRx
    OBVIOUS
  <2>2. /\ transport_active \in BOOLEAN /\ teste \in BOOLEAN
        /\ handshake \in BOOLEAN /\ data_ready \in BOOLEAN
    OBVIOUS
  <2>3. QED
    BY <1>1, <1>2, <1>3, <1>5, <2>1, <2>2, Zenon DEF TypeOK
<1>7. QED
  BY <1>4, <1>6 DEF TypeInv

(* A step of the slave, of send_to_slave or of process_rx_task. *)
LEMMA TypeOthers ==
  ASSUME TypeInv, SlaveProduce \/ SlaveArm \/ ReceiveFrame \/ ProcessFrame \/ AssertFails
  PROVE  TypeInv'
<1> USE DEF TypeInv, TypeOK
<1>1. CASE SlaveProduce
  <2>1. produced + 1 \in Frame /\ produced' \in 0..MaxRx
    BY <1>1, BoundsAssumption DEF SlaveProduce
  <2>2. slave_queue' \in Seq(Frame)
    BY <1>1, <2>1 DEF SlaveProduce
  <2>3. osSemaphore' \in {0, 1} /\ data_ready' \in BOOLEAN
    BY <1>1 DEF SlaveProduce, HAL_GPIO_EXTI_Callback
  <2>4. QED
    BY <1>1, <2>1, <2>2, <2>3 DEF SlaveProduce
<1>2. CASE SlaveArm
  <2>1. osSemaphore' \in {0, 1} /\ data_ready' \in BOOLEAN /\ handshake' \in BOOLEAN
    BY <1>2 DEF SlaveArm, HAL_GPIO_EXTI_Callback
  <2>2. slave_queue' \in Seq(Frame) /\ slave_loaded' \in Frame \cup {NULL}
    BY <1>2, QueuesGet DEF SlaveArm
  <2>3. QED
    BY <1>2, <2>1, <2>2 DEF SlaveArm
<1>3. CASE ReceiveFrame
  BY <1>3, QueuesGet DEF ReceiveFrame
<1>4. CASE ProcessFrame
  BY <1>4 DEF ProcessFrame
<1>5. CASE AssertFails
  BY <1>5 DEF AssertFails
<1>6. QED
  BY <1>1, <1>2, <1>3, <1>4, <1>5

LEMMA TypeSend ==
  ASSUME TypeInv, NEW t \in Senders, CallSend(t) \/ RefuseSend(t) \/ EnqueueTx(t)
  PROVE  TypeInv'
<1> USE DEF TypeInv, TypeOK, Goto
<1>1. CASE CallSend(t)
  BY <1>1, BoundsAssumption DEF CallSend
<1>2. CASE RefuseSend(t)
  BY <1>2 DEF RefuseSend
<1>3. CASE EnqueueTx(t)
  BY <1>3, BoundsAssumption DEF EnqueueTx
<1>4. QED
  BY <1>1, <1>2, <1>3

LEMMA TypeCheck ==
  ASSUME TypeInv, NEW t \in Threads, Check(t)
  PROVE  TypeInv'
<1> USE DEF TypeInv, TypeOK, Goto, Return, Rest
<1>1. CASE WaitReady(t)
  BY <1>1 DEF WaitReady
<1>2. CASE ReadHandshake(t)
  BY <1>2 DEF ReadHandshake
<1>3. CASE ReadDataReady(t)
  BY <1>3 DEF ReadDataReady
<1>4. CASE GetTxBuffer(t)
  <2>1. pc' \in [Threads -> Labels] /\ teste' \in BOOLEAN
    BY <1>4 DEF GetTxBuffer, TransactIfNeeded
  <2>2. \A u \in Threads : pc'[u] = "send" => u # t /\ pc[u] = "send"
    BY <1>4 DEF GetTxBuffer, TransactIfNeeded
  <2>3. txbuff' \in [Threads -> Packet \cup {NULL}]
    BY <1>4, QueuesGet DEF GetTxBuffer, TransactIfNeeded
  <2>4. \A u \in Threads : u # t => txbuff'[u] = txbuff[u]
    BY <1>4 DEF GetTxBuffer, TransactIfNeeded
  <2>5. to_slave_queue' \in Seq(Packet) /\ Len(to_slave_queue') <= TO_SLAVE_QUEUE_SIZE
    BY <1>4, QueuesGet DEF GetTxBuffer, TransactIfNeeded
  <2>6. heap' \in Int
    BY <1>4 DEF GetTxBuffer, TransactIfNeeded
  <2>7. QED
    BY <1>4, <2>1, <2>2, <2>3, <2>4, <2>5, <2>6 DEF GetTxBuffer, TransactIfNeeded
<1>5. CASE TakeMutex(t)
  BY <1>5 DEF TakeMutex
<1>6. CASE Transfer(t)
  <2>1. Clocked(slave_loaded) \subseteq Frame \cup {NULL}
    BY DEF Clocked
  <2>2. /\ handshake' \in BOOLEAN
        /\ slave_loaded' \in Frame \cup {NULL}
    BY <1>6 DEF Transfer
  <2>3. rxbuff' \in [Threads -> Frame \cup {NULL}]
    BY <1>6, <2>1 DEF Transfer
  <2>4. QED
    BY <1>6, <2>2, <2>3 DEF Transfer
<1>7. CASE PostRx(t)
  <2>1. /\ from_slave_queue' \in Seq(Frame)
        /\ Len(from_slave_queue') <= FROM_SLAVE_QUEUE_SIZE
    <3>1. rxbuff[t] # NULL =>
            /\ Append(from_slave_queue, rxbuff[t]) \in Seq(Frame)
            /\ Len(Append(from_slave_queue, rxbuff[t])) = Len(from_slave_queue) + 1
      BY QueuePut
    <3>2. Len(from_slave_queue) \in Nat
      BY LenProperties
    <3>3. CASE rxbuff[t] = NULL
      BY <1>7, <3>3 DEF PostRx
    <3>4. CASE rxbuff[t] # NULL
      <4>1. /\ from_slave_queue' = Append(from_slave_queue, rxbuff[t])
            /\ Len(from_slave_queue) < FROM_SLAVE_QUEUE_SIZE
        BY <1>7, <3>4 DEF PostRx
      <4>2. QED
        BY <4>1, <3>1, <3>2, <3>4, BoundsAssumption
    <3>5. QED
      BY <3>3, <3>4
  <2>2. heap' \in Int
    BY <1>7 DEF PostRx, FreedAfter
  <2>3. txbuff' \in [Threads -> Packet \cup {NULL}]
    BY <1>7 DEF PostRx
  <2>4. rxbuff' \in [Threads -> Frame \cup {NULL}]
    BY <1>7 DEF PostRx
  <2>5. \A u \in Threads : pc'[u] = "send" => pc[u] = "send" /\ txbuff'[u] = txbuff[u]
    BY <1>7 DEF PostRx
  <2>6. pc' \in [Threads -> Labels]
    BY <1>7 DEF PostRx
  <2>7. QED
    BY <1>7, <2>1, <2>2, <2>3, <2>4, <2>5, <2>6 DEF PostRx
<1>8. CASE GiveMutex(t)
  BY <1>8 DEF GiveMutex
<1>9. QED
  BY <1>1, <1>2, <1>3, <1>4, <1>5, <1>6, <1>7, <1>8 DEF Check

LEMMA TypeStep == TypeInv /\ [Next]_vars => TypeInv'
<1> SUFFICES ASSUME TypeInv, [Next]_vars
             PROVE  TypeInv'
  OBVIOUS
<1>1. CASE UNCHANGED vars
  BY <1>1 DEF vars, TypeInv, TypeOK
<1>2. CASE Quiescent
  BY <1>2, <1>1 DEF Quiescent
<1>3. QED
  BY <1>1, <1>2, TypeOthers, TypeSend, TypeCheck DEF Next, Step

(* The type invariant holds in every reachable state: in particular the    *)
(* interrupt semaphore stays binary and no queue outgrows its size.        *)
THEOREM TypeCorrect == Spec => []TypeOK
<1>1. Spec => []TypeInv
  BY TypeInit, TypeStep, PTL DEF Spec
<1>2. TypeInv => TypeOK
  BY DEF TypeInv
<1>3. QED
  BY <1>1, <1>2, PTL

-----------------------------------------------------------------------------
(* No lost wakeup.  Both invariants are inductive relative to TypeOK: a    *)
(* thread leaves the set that justifies them only when the lines or the    *)
(* queue leave the antecedent, and a line rises only together with the     *)
(* semaphore.                                                              *)

LEMMA TxWakeupStep ==
  ASSUME TypeOK, TypeOK', TxNoLostWakeup, [Next]_vars
  PROVE  TxNoLostWakeup'
<1> USE DEF TxNoLostWakeup, WillSample, WillTransfer, TypeOK
<1>1. CASE UNCHANGED vars \/ Quiescent
  BY <1>1 DEF vars, Quiescent
<1>2. CASE SlaveProduce
  BY <1>2 DEF SlaveProduce, HAL_GPIO_EXTI_Callback
<1>3. CASE SlaveArm
  BY <1>3 DEF SlaveArm, HAL_GPIO_EXTI_Callback
<1>4. CASE ReceiveFrame \/ ProcessFrame \/ AssertFails
  BY <1>4 DEF ReceiveFrame, ProcessFrame, AssertFails
<1>5. ASSUME NEW t \in Senders, CallSend(t) \/ RefuseSend(t) \/ EnqueueTx(t)
      PROVE  TxNoLostWakeup'
  BY <1>5 DEF CallSend, RefuseSend, EnqueueTx, Goto
<1>6. ASSUME NEW t \in Threads, Check(t)
      PROVE  TxNoLostWakeup'
  <2> USE DEF Goto, Return, Rest
  <2>1. CASE WaitReady(t)
    BY <2>1 DEF WaitReady
  <2>2. CASE ReadHandshake(t)
    BY <2>2 DEF ReadHandshake
  <2>3. CASE ReadDataReady(t)
    BY <2>3 DEF ReadDataReady
  <2>4. CASE GetTxBuffer(t)
    BY <2>4 DEF GetTxBuffer, TransactIfNeeded
  <2>5. CASE TakeMutex(t)
    BY <2>5 DEF TakeMutex
  <2>6. CASE Transfer(t)
    BY <2>6 DEF Transfer
  <2>7. CASE PostRx(t)
    BY <2>7 DEF PostRx
  <2>8. CASE GiveMutex(t)
    BY <2>8 DEF GiveMutex
  <2>9. QED
    BY <1>6, <2>1, <2>2, <2>3, <2>4, <2>5, <2>6, <2>7, <2>8 DEF Check
<1>7. QED
  BY <1>1, <1>2, <1>3, <1>4, <1>5, <1>6 DEF Next, Step

(* While a packet is queued and the slave is ready, a wakeup is pending or *)
(* a thread is about to dequeue or to transfer, until get_tx_buffer drops  *)
(* a packet for lack of memory.                                            *)
THEOREM TxWakeup == Spec => []TxNoLostWakeup
<1>1. Init => TxNoLostWakeup
  BY DEF Init, TxNoLostWakeup
<1>2. TypeOK /\ TypeOK' /\ TxNoLostWakeup /\ [Next]_vars => TxNoLostWakeup'
  BY TxWakeupStep
<1>3. QED
  BY <1>1, <1>2, TypeCorrect, PTL DEF Spec

LEMMA RxWakeupStep ==
  ASSUME TypeOK, TypeOK', RxNoLostWakeup, [Next]_vars
  PROVE  RxNoLostWakeup'
<1> USE DEF RxNoLostWakeup, WillSample, WillTransfer, TypeOK
<1>1. CASE UNCHANGED vars \/ Quiescent
  BY <1>1 DEF vars, Quiescent
<1>2. CASE SlaveProduce
  BY <1>2 DEF SlaveProduce, HAL_GPIO_EXTI_Callback
<1>3. CASE SlaveArm
  BY <1>3 DEF SlaveArm, HAL_GPIO_EXTI_Callback
<1>4. CASE ReceiveFrame \/ ProcessFrame \/ AssertFails
  BY <1>4 DEF ReceiveFrame, ProcessFrame, AssertFails
<1>5. ASSUME NEW t \in Senders, CallSend(t) \/ RefuseSend(t) \/ EnqueueTx(t)
      PROVE  RxNoLostWakeup'
  BY <1>5 DEF CallSend, RefuseSend, EnqueueTx, Goto
<1>6. ASSUME NEW t \in Threads, Check(t)
      PROVE  RxNoLostWakeup'
  <2> USE DEF Goto, Return, Rest
  <2>1. CASE WaitReady(t)
    BY <2>1 DEF WaitReady
  <2>2. CASE ReadHandshake(t)
    BY <2>2 DEF ReadHandshake
  <2>3. CASE ReadDataReady(t)
    BY <2>3 DEF ReadDataReady
  <2>4. CASE GetTxBuffer(t)
    BY <2>4 DEF GetTxBuffer, TransactIfNeeded
  <2>5. CASE TakeMutex(t)
    BY <2>5 DEF TakeMutex
  <2>6. CASE Transfer(t)
    BY <2>6 DEF Transfer
  <2>7. CASE PostRx(t)
    BY <2>7 DEF PostRx
  <2>8. CASE GiveMutex(t)
    BY <2>8 DEF GiveMutex
  <2>9. QED
    BY <1>6, <2>1, <2>2, <2>3, <2>4, <2>5, <2>6, <2>7, <2>8 DEF Check
<1>7. QED
  BY <1>1, <1>2, <1>3, <1>4, <1>5, <1>6 DEF Next, Step

(* While the slave is ready and offers data, a wakeup is pending or a      *)
(* thread will see the data-ready line or run a transfer anyway, even when *)
(* get_tx_buffer runs out of memory.                                       *)
THEOREM RxWakeup == Spec => []RxNoLostWakeup
<1>1. Init => RxNoLostWakeup
  BY DEF Init, RxNoLostWakeup
<1>2. TypeOK /\ TypeOK' /\ RxNoLostWakeup /\ [Next]_vars => RxNoLostWakeup'
  BY RxWakeupStep
<1>3. QED
  BY <1>1, <1>2, TypeCorrect, PTL DEF Spec

-----------------------------------------------------------------------------
(* The order of the frames.  One thread at a time is between the taking    *)
(* and the giving of the mutex, and a frame is held only there.            *)

MutexInv ==
  /\ \A t \in Threads : pc[t] \in {"xfer", "post", "unlock"} => mutex_spi_trans = {t}
  /\ \A t \in Threads : rxbuff[t] # NULL => pc[t] = "post"

LEMMA MutexStep ==
  ASSUME TypeOK, MutexInv, [Next]_vars
  PROVE  MutexInv'
<1>0. /\ pc = [u \in Threads |-> pc[u]] /\ rxbuff = [u \in Threads |-> rxbuff[u]]
      /\ TransactionTask \in Threads /\ Senders \subseteq Threads
  BY DEF TypeOK
<1>1. CASE \/ UNCHANGED vars \/ Quiescent \/ SlaveProduce \/ SlaveArm
           \/ ReceiveFrame \/ ProcessFrame \/ AssertFails
  <2>1. UNCHANGED <<pc, rxbuff, mutex_spi_trans>>
    BY <1>1 DEF vars, Quiescent, SlaveProduce, SlaveArm, ReceiveFrame, ProcessFrame, AssertFails
  <2> QED BY <2>1 DEF MutexInv
<1>2. ASSUME NEW t \in Threads, NEW l \in {"wait", "idle", "send", "gpio", "ready", "dequeue", "lock"},
             UNCHANGED <<rxbuff, mutex_spi_trans>>, pc' = [pc EXCEPT ![t] = l],
             pc[t] \notin {"post"}
      PROVE  MutexInv'
  BY <1>0, <1>2 DEF MutexInv
<1>3. ASSUME NEW t \in Senders, CallSend(t) \/ RefuseSend(t) \/ EnqueueTx(t)
      PROVE  MutexInv'
  BY <1>0, <1>2, <1>3 DEF CallSend, RefuseSend, EnqueueTx, Goto
<1>4. ASSUME NEW t \in Threads,
             WaitReady(t) \/ ReadHandshake(t) \/ ReadDataReady(t) \/ GetTxBuffer(t)
      PROVE  MutexInv'
  BY <1>2, <1>4 DEF WaitReady, ReadHandshake, ReadDataReady, GetTxBuffer, TransactIfNeeded,
     Goto, Return, Rest
<1>5. ASSUME NEW t \in Threads, TakeMutex(t)
      PROVE  MutexInv'
  <2>1. /\ mutex_spi_trans = {} /\ mutex_spi_trans' = {t} /\ pc' = [pc EXCEPT ![t] = "xfer"]
        /\ rxbuff' = rxbuff /\ pc[t] = "lock"
    BY <1>5 DEF TakeMutex, Goto
  <2>2. \A u \in Threads : pc[u] \notin {"xfer", "post", "unlock"}
    BY <2>1 DEF MutexInv
  <2> QED BY <1>0, <2>1, <2>2 DEF MutexInv
<1>6. ASSUME NEW t \in Threads, Transfer(t) \/ PostRx(t)
      PROVE  MutexInv'
  <2>1. /\ pc[t] \in {"xfer", "post"} /\ mutex_spi_trans' = mutex_spi_trans
        /\ \/ pc' = [pc EXCEPT ![t] = "post"]
           \/ pc' = [pc EXCEPT ![t] = "unlock"] /\ rxbuff' = [rxbuff EXCEPT ![t] = NULL]
        /\ \A u \in Threads \ {t} : rxbuff'[u] = rxbuff[u]
    BY <1>0, <1>6 DEF Transfer, PostRx, Goto
  <2>2. rxbuff'[t] # NULL => pc'[t] = "post"
    BY <1>0, <2>1
  <2> QED BY <1>0, <2>1, <2>2 DEF MutexInv
<1>7. ASSUME NEW t \in Threads, GiveMutex(t)
      PROVE  MutexInv'
  <2>1. /\ mutex_spi_trans' = {} /\ pc' = [pc EXCEPT ![t] = Rest(t)]
        /\ rxbuff' = rxbuff /\ pc[t] = "unlock"
    BY <1>7 DEF GiveMutex, Goto, Return
  <2>2. \A u \in Threads \ {t} : pc[u] \notin {"xfer", "post", "unlock"}
    BY <2>1 DEF MutexInv
  <2> QED BY <1>0, <2>1, <2>2 DEF MutexInv, Rest
<1> QED BY <1>1, <1>3, <1>4, <1>5, <1>6, <1>7 DEF Next, Step, Check

(* A frame goes from the slave's queue to the transfer it is loaded for,   *)
(* to the thread that clocks it in, to the receive queue, and to           *)
(* process_rx_task.  It comes before a stage if its number is below those  *)
(* of the frames there and further up.                                     *)

Rising(q) == \A i, j \in 1..Len(q) : i < j => q[i] < q[j]

BeforeQueue(n) == n <= produced /\ \A i \in 1..Len(slave_queue) : n < slave_queue[i]

BeforeLoaded(n) == BeforeQueue(n) /\ (slave_loaded # NULL => n < slave_loaded)

BeforeHeld(n) == BeforeLoaded(n) /\ \A t \in Threads : rxbuff[t] # NULL => n < rxbuff[t]

BeforeReceived(n) ==
  BeforeHeld(n) /\ \A i \in 1..Len(from_slave_queue) : n < from_slave_queue[i]

BeforeHandled(n) == BeforeReceived(n) /\ (rx_handle # NULL => n < rx_handle)

OrderInv ==
  /\ Rising(slave_queue) /\ \A i \in 1..Len(slave_queue) : slave_queue[i] <= produced
  /\ slave_loaded # NULL => BeforeQueue(slave_loaded)
  /\ \A t \in Threads : rxbuff[t] # NULL => BeforeLoaded(rxbuff[t])
  /\ Rising(from_slave_queue) /\ \A i \in 1..Len(from_slave_queue) : BeforeHeld(from_slave_queue[i])
  /\ rx_handle # NULL => BeforeReceived(rx_handle)
  /\ Rising(delivered) /\ \A i \in 1..Len(delivered) : BeforeHandled(delivered[i])

LEMMA RisingPut ==
  ASSUME NEW q \in Seq(Frame), NEW f \in Frame
  PROVE  /\ Append(q, f) \in Seq(Frame) /\ Len(Append(q, f)) = Len(q) + 1 /\ Len(q) \in Nat
         /\ \A i \in 1..Len(Append(q, f)) : (i \in 1..Len(q) /\ Append(q, f)[i] = q[i])
                                             \/ Append(q, f)[i] = f
         /\ Rising(q) /\ (\A i \in 1..Len(q) : q[i] < f) => Rising(Append(q, f))
<1> USE DEF Rising
<1>1. /\ Append(q, f) \in Seq(Frame) /\ Len(Append(q, f)) = Len(q) + 1 /\ Len(q) \in Nat
      /\ \A i \in 1..Len(q) : Append(q, f)[i] = q[i]
      /\ Append(q, f)[Len(q) + 1] = f
  BY AppendProperties, LenProperties
<1>2. \A i \in 1..Len(Append(q, f)) : i \in 1..Len(q) \/ i = Len(q) + 1
  BY <1>1
<1>3. ASSUME Rising(q), \A i \in 1..Len(q) : q[i] < f,
             NEW i \in 1..Len(Append(q, f)), NEW j \in 1..Len(Append(q, f)), i < j
      PROVE  Append(q, f)[i] < Append(q, f)[j]
  <2>1. i \in 1..Len(q)
    BY <1>1, <1>3
  <2>2. CASE j \in 1..Len(q)
    BY <1>1, <1>3, <2>1, <2>2
  <2>3. CASE j = Len(q) + 1
    BY <1>1, <1>3, <2>1, <2>3
  <2> QED BY <1>2, <2>2, <2>3
<1> QED BY <1>1, <1>2, <1>3

LEMMA RisingGet ==
  ASSUME NEW q \in Seq(Frame), q # <<>>
  PROVE  /\ Head(q) \in Frame /\ Tail(q) \in Seq(Frame) /\ Head(q) = q[1] /\ 1 \in 1..Len(q)
         /\ \A i \in 1..Len(Tail(q)) : i + 1 \in 1..Len(q) /\ Tail(q)[i] = q[i + 1]
         /\ Rising(q) => Rising(Tail(q)) /\ \A i \in 1..Len(Tail(q)) : Head(q) < Tail(q)[i]
<1> USE DEF Rising
<1>1. /\ Head(q) \in Frame /\ Tail(q) \in Seq(Frame)
      /\ Len(Tail(q)) = Len(q) - 1 /\ Len(q) \in Nat \ {0}
      /\ \A i \in 1..Len(Tail(q)) : Tail(q)[i] = q[i + 1]
  BY HeadTailProperties, LenProperties, EmptySeq
<1>2. Head(q) = q[1] /\ 1 \in 1..Len(q)
  BY <1>1
<1>3. \A i \in 1..Len(Tail(q)) : i + 1 \in 1..Len(q)
  BY <1>1
<1>4. ASSUME Rising(q), NEW i \in 1..Len(Tail(q)), NEW j \in 1..Len(Tail(q)), i < j
      PROVE  Tail(q)[i] < Tail(q)[j]
  <2>1. i + 1 \in 1..Len(q) /\ j + 1 \in 1..Len(q) /\ i + 1 < j + 1
    BY <1>1, <1>3, <1>4
  <2> QED BY <1>1, <1>4, <2>1
<1>5. ASSUME Rising(q), NEW i \in 1..Len(Tail(q))
      PROVE  Head(q) < Tail(q)[i]
  <2>1. i + 1 \in 1..Len(q) /\ 1 < i + 1
    BY <1>1, <1>3
  <2> QED BY <1>1, <1>2, <1>5, <2>1
<1> QED BY <1>1, <1>2, <1>3, <1>4, <1>5

(* Stages that a step leaves alone stay in order if what was below the     *)
(* stages further up is still below them.                                  *)
LEMMA CarryHandled ==
  ASSUME TypeOK, OrderInv, UNCHANGED <<rx_handle, delivered>>,
         \A n \in Frame : BeforeReceived(n) => BeforeReceived(n)'
  PROVE  /\ (rx_handle # NULL => BeforeReceived(rx_handle))'
         /\ (Rising(delivered) /\ \A i \in 1..Len(delivered) : BeforeHandled(delivered[i]))'
<1>1. /\ rx_handle # NULL => rx_handle \in Frame
      /\ \A i \in 1..Len(delivered) : delivered[i] \in Frame
  BY ElementOfSeq DEF TypeOK
<1>2. ASSUME NEW n \in Frame, n = rx_handle, n # NULL
      PROVE  BeforeReceived(rx_handle)'
  <2>1. BeforeReceived(n)'
    BY <1>2 DEF OrderInv
  <2> QED BY <1>2, <2>1 DEF BeforeReceived, BeforeHeld, BeforeLoaded, BeforeQueue
<1>3. ASSUME NEW n \in Frame, NEW i \in 1..Len(delivered), n = delivered[i]
      PROVE  BeforeHandled(delivered[i])'
  <2>1. BeforeReceived(n)' /\ (rx_handle # NULL => n < rx_handle)
    BY <1>3 DEF OrderInv, BeforeHandled
  <2> QED
    BY <1>3, <2>1 DEF BeforeHandled, BeforeReceived, BeforeHeld, BeforeLoaded, BeforeQueue
<1>4. Rising(delivered)'
  BY DEF OrderInv, Rising
<1> QED BY <1>1, <1>2, <1>3, <1>4

LEMMA CarryReceived ==
  ASSUME TypeOK, OrderInv, UNCHANGED <<from_slave_queue, rx_handle, delivered>>,
         \A n \in Frame : BeforeHeld(n) => BeforeHeld(n)'
  PROVE  /\ (Rising(from_slave_queue)
             /\ \A i \in 1..Len(from_slave_queue) : BeforeHeld(from_slave_queue[i]))'
         /\ (rx_handle # NULL => BeforeReceived(rx_handle))'
         /\ (Rising(delivered) /\ \A i \in 1..Len(delivered) : BeforeHandled(delivered[i]))'
<1>1. \A i \in 1..Len(from_slave_queue) : from_slave_queue[i] \in Frame
  BY ElementOfSeq DEF TypeOK
<1>2. ASSUME NEW n \in Frame, NEW i \in 1..Len(from_slave_queue), n = from_slave_queue[i]
      PROVE  BeforeHeld(from_slave_queue[i])'
  <2>1. BeforeHeld(n)'
    BY <1>2 DEF OrderInv
  <2> QED BY <1>2, <2>1 DEF BeforeHeld, BeforeLoaded, BeforeQueue
<1>3. \A n \in Frame : BeforeReceived(n) => BeforeReceived(n)'
  BY DEF BeforeReceived
<1>4. Rising(from_slave_queue)'
  BY DEF OrderInv, Rising
<1> QED BY <1>1, <1>2, <1>3, <1>4, CarryHandled

(* What the slave does leaves what has been clocked in where it is.        *)
LEMMA OrderSlave ==
  ASSUME TypeOK, OrderInv, SlaveProduce \/ SlaveArm
  PROVE  OrderInv'
<1>1. UNCHANGED <<rxbuff, from_slave_queue, rx_handle, delivered>>
  BY DEF SlaveProduce, SlaveArm
<1>2. slave_queue \in Seq(Frame) /\ produced \in 0..MaxRx /\ produced \in Int
  BY BoundsAssumption DEF TypeOK
<1>3. /\ (Rising(slave_queue) /\ \A i \in 1..Len(slave_queue) : slave_queue[i] <= produced)'
      /\ (slave_loaded # NULL => BeforeQueue(slave_loaded))'
      /\ \A n \in Frame : BeforeLoaded(n) => BeforeLoaded(n)'
  <2>1. CASE SlaveProduce
    <3>1. /\ produced' = produced + 1 /\ slave_queue' = Append(slave_queue, produced + 1)
          /\ slave_loaded' = slave_loaded /\ produced + 1 \in Frame
      BY <1>2, <2>1, BoundsAssumption DEF SlaveProduce
    <3>2. \A i \in 1..Len(slave_queue) : slave_queue[i] \in Frame /\ slave_queue[i] <= produced
      BY <1>2, ElementOfSeq DEF OrderInv
    <3>3. \A i \in 1..Len(slave_queue) : slave_queue[i] < produced + 1
      BY <1>2, <3>2, BoundsAssumption
    <3>4. Rising(slave_queue') /\ \A i \in 1..Len(slave_queue') : slave_queue'[i] <= produced'
      <4> DEFINE f == produced + 1
      <4>1. /\ Rising(Append(slave_queue, f))
            /\ \A i \in 1..Len(Append(slave_queue, f)) :
                 \/ i \in 1..Len(slave_queue) /\ Append(slave_queue, f)[i] = slave_queue[i]
                 \/ Append(slave_queue, f)[i] = f
        <5> HIDE DEF f
        <5>1. f \in Frame /\ \A i \in 1..Len(slave_queue) : slave_queue[i] < f
          BY <3>1, <3>3 DEF f
        <5> QED BY <1>2, <5>1, RisingPut DEF OrderInv
      <4>2. \A i \in 1..Len(slave_queue) : slave_queue[i] <= f
        BY <1>2, <3>2
      <4>3. f <= f
        BY <1>2
      <4> HIDE DEF f
      <4>4. slave_queue' = Append(slave_queue, f) /\ produced' = f
        BY <3>1 DEF f
      <4> QED BY <4>1, <4>2, <4>3, <4>4
    <3>5. \A n \in Frame : BeforeQueue(n) => BeforeQueue(n)'
      <4> SUFFICES ASSUME NEW n \in Frame, BeforeQueue(n)
                   PROVE  n <= produced' /\ \A i \in 1..Len(slave_queue') : n < slave_queue'[i]
        BY DEF BeforeQueue
      <4>1. n \in Int /\ n <= produced
        BY DEF BeforeQueue
      <4> QED BY <1>2, <3>1, <4>1, RisingPut DEF BeforeQueue
    <3>6. slave_loaded # NULL => slave_loaded \in Frame
      BY DEF TypeOK
    <3>7. (slave_loaded # NULL => BeforeQueue(slave_loaded))'
      BY <3>1, <3>5, <3>6 DEF OrderInv, BeforeQueue
    <3> QED BY <3>1, <3>4, <3>5, <3>7 DEF BeforeLoaded, Rising
  <2>2. CASE SlaveArm /\ slave_queue = <<>>
    <3>1. produced' = produced /\ slave_queue' = slave_queue /\ slave_loaded' = NULL
      BY <2>2 DEF SlaveArm
    <3> QED BY <3>1 DEF OrderInv, BeforeLoaded, BeforeQueue, Rising
  <2>3. CASE SlaveArm /\ slave_queue # <<>>
    <3>1. /\ produced' = produced /\ slave_queue' = Tail(slave_queue)
          /\ slave_loaded' = Head(slave_queue)
      BY <2>3 DEF SlaveArm
    <3>2. /\ Head(slave_queue) = slave_queue[1] /\ 1 \in 1..Len(slave_queue)
          /\ \A i \in 1..Len(Tail(slave_queue)) :
               i + 1 \in 1..Len(slave_queue) /\ Tail(slave_queue)[i] = slave_queue[i + 1]
          /\ Rising(Tail(slave_queue))
          /\ \A i \in 1..Len(Tail(slave_queue)) : Head(slave_queue) < Tail(slave_queue)[i]
      BY <1>2, <2>3, RisingGet DEF OrderInv
    <3>3. Rising(slave_queue') /\ \A i \in 1..Len(slave_queue') : slave_queue'[i] <= produced'
      BY <3>1, <3>2 DEF OrderInv
    <3>4. (slave_loaded # NULL => BeforeQueue(slave_loaded))'
      BY <3>1, <3>2 DEF OrderInv, BeforeQueue
    <3>5. \A n \in Frame : BeforeLoaded(n) => BeforeLoaded(n)'
      BY <3>1, <3>2 DEF BeforeLoaded, BeforeQueue
    <3> QED BY <3>3, <3>4, <3>5 DEF Rising
  <2> QED BY <2>1, <2>2, <2>3
<1>4. \A n \in Frame : BeforeHeld(n) => BeforeHeld(n)'
  BY <1>1, <1>3 DEF BeforeHeld
<1>5. \A t \in Threads : rxbuff[t] # NULL => rxbuff[t] \in Frame
  BY DEF TypeOK
<1>6. (\A t \in Threads : rxbuff[t] # NULL => BeforeLoaded(rxbuff[t]))'
  <2>1. ASSUME NEW n \in Frame, NEW t \in Threads, n = rxbuff[t], n # NULL
        PROVE  BeforeLoaded(rxbuff[t])'
    <3>1. BeforeLoaded(n)'
      BY <1>3, <2>1 DEF OrderInv
    <3> QED BY <1>1, <2>1, <3>1 DEF BeforeLoaded, BeforeQueue
  <2> QED BY <1>1, <1>5, <2>1
<1> QED BY <1>1, <1>3, <1>4, <1>6, CarryReceived DEF OrderInv

(* A transfer empties the slave's buffer into the thread's, if anything.   *)
LEMMA OrderTransfer ==
  ASSUME TypeOK, MutexInv, OrderInv, NEW t \in Threads, Transfer(t)
  PROVE  OrderInv'
<1>1. /\ UNCHANGED <<from_slave_queue, rx_handle, delivered, slave_queue, produced>>
      /\ slave_loaded' \in {slave_loaded, NULL}
      /\ rxbuff'[t] # NULL => rxbuff'[t] = slave_loaded /\ slave_loaded' = NULL
      /\ \A u \in Threads \ {t} : rxbuff'[u] = rxbuff[u]
  BY DEF Transfer, Clocked, TypeOK
<1>2. \A n : BeforeQueue(n)' <=> BeforeQueue(n)
  BY <1>1 DEF BeforeQueue
<1>3. \A n \in Frame : /\ BeforeLoaded(n) => BeforeLoaded(n)'
                       /\ BeforeHeld(n) => BeforeHeld(n)'
  BY <1>1 DEF BeforeHeld, BeforeLoaded, BeforeQueue
<1>4. (Rising(slave_queue) /\ \A i \in 1..Len(slave_queue) : slave_queue[i] <= produced)'
  BY <1>1 DEF OrderInv, Rising
<1>5. (slave_loaded # NULL => BeforeQueue(slave_loaded))'
  BY <1>1 DEF OrderInv, BeforeQueue
<1>6. ASSUME NEW u \in Threads, rxbuff'[u] # NULL
      PROVE  BeforeLoaded(rxbuff[u])'
  <2>1. CASE u = t
    BY <1>1, <1>6, <2>1 DEF OrderInv, BeforeLoaded, BeforeQueue
  <2>2. CASE u # t
    BY <1>1, <1>6, <2>2 DEF OrderInv, BeforeLoaded, BeforeQueue
  <2> QED BY <2>1, <2>2
<1> QED BY <1>1, <1>3, <1>4, <1>5, <1>6, CarryReceived DEF OrderInv

(* The thread that holds the mutex queues what it clocked in: nobody else  *)
(* holds a frame then.                                                     *)
LEMMA OrderPost ==
  ASSUME TypeOK, MutexInv, OrderInv, NEW t \in Threads, PostRx(t)
  PROVE  OrderInv'
<1>1. /\ UNCHANGED <<slave_loaded, slave_queue, produced, rx_handle, delivered>>
      /\ rxbuff'[t] = NULL /\ rxbuff[t] \in Frame \cup {NULL}
      /\ from_slave_queue \in Seq(Frame)
      /\ \/ rxbuff[t] = NULL /\ from_slave_queue' = from_slave_queue
         \/ rxbuff[t] # NULL /\ from_slave_queue' = Append(from_slave_queue, rxbuff[t])
  BY DEF PostRx, TypeOK
<1>2. \A u \in Threads : rxbuff'[u] = NULL
  <2>1. pc[t] = "post" /\ \A u \in Threads \ {t} : rxbuff'[u] = rxbuff[u]
    BY DEF PostRx, TypeOK
  <2>2. \A u \in Threads \ {t} : rxbuff[u] = NULL
    BY <2>1 DEF MutexInv
  <2> QED BY <1>1, <2>1, <2>2
<1>3. (Rising(slave_queue) /\ \A i \in 1..Len(slave_queue) : slave_queue[i] <= produced)'
  BY <1>1 DEF OrderInv, Rising
<1>4. (slave_loaded # NULL => BeforeQueue(slave_loaded))'
  BY <1>1 DEF OrderInv, BeforeQueue
<1>5. \A n \in Frame : BeforeLoaded(n) => BeforeLoaded(n)' /\ BeforeHeld(n)'
  BY <1>1, <1>2 DEF BeforeHeld, BeforeLoaded, BeforeQueue
<1>6. CASE rxbuff[t] = NULL
  <2>1. \A n \in Frame : BeforeHeld(n) => BeforeHeld(n)'
    BY <1>5 DEF BeforeHeld
  <2>2. UNCHANGED <<from_slave_queue, rx_handle, delivered>>
    BY <1>1, <1>6
  <2> QED BY <1>2, <1>3, <1>4, <2>1, <2>2, CarryReceived DEF OrderInv
<1>7. CASE rxbuff[t] # NULL
  <2>1. rxbuff[t] \in Frame /\ BeforeLoaded(rxbuff[t])
    BY <1>1, <1>7 DEF OrderInv
  <2>2. \A i \in 1..Len(from_slave_queue) :
          /\ from_slave_queue[i] \in Frame /\ BeforeHeld(from_slave_queue[i])
          /\ from_slave_queue[i] < rxbuff[t]
    BY <1>1, <1>7, ElementOfSeq DEF OrderInv, BeforeHeld
  <2> DEFINE q == Append(from_slave_queue, rxbuff[t])
  <2>3. /\ Rising(q)
        /\ \A i \in 1..Len(q) : \/ i \in 1..Len(from_slave_queue) /\ q[i] = from_slave_queue[i]
                                \/ q[i] = rxbuff[t]
    BY <1>1, <2>1, <2>2, RisingPut DEF OrderInv
  <2>4. from_slave_queue' = q
    BY <1>1, <1>7
  <2> HIDE DEF q
  <2>5. \A i \in 1..Len(q) : q[i] \in Frame /\ BeforeLoaded(q[i])
    BY <2>1, <2>2, <2>3 DEF BeforeHeld
  <2>6. ASSUME NEW i \in 1..Len(q), NEW n \in Frame, n = q[i]
        PROVE  BeforeHeld(from_slave_queue[i])'
    <3>1. BeforeHeld(n)'
      BY <1>5, <2>5, <2>6
    <3> QED BY <2>4, <2>6, <3>1 DEF BeforeHeld, BeforeLoaded, BeforeQueue
  <2>7. (Rising(from_slave_queue)
         /\ \A i \in 1..Len(from_slave_queue) : BeforeHeld(from_slave_queue[i]))'
    BY <2>3, <2>4, <2>5, <2>6 DEF Rising
  <2>8. ASSUME NEW n \in Frame, BeforeReceived(n)
        PROVE  BeforeReceived(n)'
    <3>1. BeforeHeld(n)' /\ n < rxbuff[t]
      BY <1>5, <1>7, <2>8 DEF BeforeReceived, BeforeHeld
    <3>2. \A i \in 1..Len(q) : n < q[i]
      BY <2>3, <2>8, <3>1 DEF BeforeReceived
    <3> QED BY <2>4, <3>1, <3>2 DEF BeforeReceived
  <2>9. UNCHANGED <<rx_handle, delivered>>
    BY <1>1
  <2> QED BY <1>2, <1>3, <1>4, <2>7, <2>8, <2>9, CarryHandled DEF OrderInv
<1> QED BY <1>6, <1>7

(* process_rx_task takes the oldest frame, and then hands it on. *)
LEMMA OrderProcess ==
  ASSUME TypeOK, OrderInv, ReceiveFrame \/ ProcessFrame
  PROVE  OrderInv'
<1>1. /\ UNCHANGED <<slave_loaded, slave_queue, produced, rxbuff>>
      /\ from_slave_queue \in Seq(Frame) /\ delivered \in Seq(Frame)
      /\ rx_handle \in Frame \cup {NULL}
  BY DEF ReceiveFrame, ProcessFrame, TypeOK
<1>2. /\ (Rising(slave_queue) /\ \A i \in 1..Len(slave_queue) : slave_queue[i] <= produced)'
      /\ (slave_loaded # NULL => BeforeQueue(slave_loaded))'
      /\ (\A t \in Threads : rxbuff[t] # NULL => BeforeLoaded(rxbuff[t]))'
  BY <1>1 DEF OrderInv, Rising, BeforeQueue, BeforeLoaded
<1>3. \A n \in Frame : BeforeHeld(n) => BeforeHeld(n)'
  BY <1>1 DEF BeforeHeld, BeforeLoaded, BeforeQueue
<1>4. CASE ReceiveFrame
  <2> DEFINE q == Tail(from_slave_queue)
  <2>1. /\ Head(from_slave_queue) = from_slave_queue[1] /\ 1 \in 1..Len(from_slave_queue)
        /\ Head(from_slave_queue) \in Frame /\ q \in Seq(Frame)
        /\ \A i \in 1..Len(q) :
             i + 1 \in 1..Len(from_slave_queue) /\ q[i] = from_slave_queue[i + 1]
        /\ Rising(q) /\ \A i \in 1..Len(q) : Head(from_slave_queue) < q[i]
    BY <1>1, <1>4, RisingGet DEF OrderInv, ReceiveFrame
  <2>2. /\ from_slave_queue' = q /\ rx_handle' = Head(from_slave_queue)
        /\ rx_handle = NULL /\ delivered' = delivered
    BY <1>4 DEF ReceiveFrame
  <2> HIDE DEF q
  <2>3. \A i \in 1..Len(q) : q[i] \in Frame /\ BeforeHeld(q[i])
    BY <2>1, ElementOfSeq DEF OrderInv
  <2>4. ASSUME NEW i \in 1..Len(q), NEW n \in Frame, n = q[i]
        PROVE  BeforeHeld(from_slave_queue[i])'
    <3>1. BeforeHeld(n)'
      BY <1>3, <2>3, <2>4
    <3> QED BY <2>2, <2>4, <3>1 DEF BeforeHeld, BeforeLoaded, BeforeQueue
  <2>5. (Rising(from_slave_queue)
         /\ \A i \in 1..Len(from_slave_queue) : BeforeHeld(from_slave_queue[i]))'
    BY <2>1, <2>2, <2>3, <2>4 DEF Rising
  <2>6. PICK h \in Frame : h = Head(from_slave_queue)
    BY <2>1
  <2>7. BeforeHeld(h) /\ \A i \in 1..Len(q) : h < q[i]
    BY <2>1, <2>6 DEF OrderInv
  <2>8. (rx_handle # NULL => BeforeReceived(rx_handle))'
    <3>1. BeforeHeld(h)'
      BY <1>3, <2>7
    <3> QED BY <2>2, <2>6, <2>7, <3>1 DEF BeforeReceived, BeforeHeld, BeforeLoaded, BeforeQueue
  <2>9. ASSUME NEW i \in 1..Len(delivered), NEW n \in Frame, n = delivered[i]
        PROVE  BeforeHandled(delivered[i])'
    <3>1. BeforeReceived(n)
      BY <2>9 DEF OrderInv, BeforeHandled
    <3>2. BeforeHeld(n)' /\ n < h /\ \A j \in 1..Len(q) : n < q[j]
      BY <1>3, <2>1, <2>6, <3>1 DEF BeforeReceived
    <3> QED
      BY <2>2, <2>6, <2>9, <3>2 DEF BeforeHandled, BeforeReceived, BeforeHeld, BeforeLoaded, BeforeQueue
  <2>10. (Rising(delivered) /\ \A i \in 1..Len(delivered) : BeforeHandled(delivered[i]))'
    BY <1>1, <2>2, <2>9, ElementOfSeq DEF OrderInv, Rising
  <2> QED BY <1>2, <2>5, <2>8, <2>10 DEF OrderInv
<1>5. CASE ProcessFrame
  <2> DEFINE q == Append(delivered, rx_handle)
  <2>1. /\ from_slave_queue' = from_slave_queue /\ rx_handle' = NULL
        /\ rx_handle # NULL /\ rx_handle \in Frame /\ delivered' = q
    BY <1>1, <1>5 DEF ProcessFrame
  <2>2. /\ BeforeReceived(rx_handle)
        /\ \A i \in 1..Len(delivered) :
             /\ delivered[i] \in Frame /\ BeforeReceived(delivered[i])
             /\ delivered[i] < rx_handle
    BY <1>1, <2>1, ElementOfSeq DEF OrderInv, BeforeHandled
  <2>3. /\ Rising(q)
        /\ \A i \in 1..Len(q) : \/ i \in 1..Len(delivered) /\ q[i] = delivered[i]
                                \/ q[i] = rx_handle
    BY <1>1, <2>1, <2>2, RisingPut DEF OrderInv
  <2> HIDE DEF q
  <2>4. \A i \in 1..Len(q) : q[i] \in Frame /\ BeforeReceived(q[i])
    BY <2>1, <2>2, <2>3
  <2>5. ASSUME NEW i \in 1..Len(q), NEW n \in Frame, n = q[i]
        PROVE  BeforeHandled(delivered[i])'
    <3>1. BeforeHeld(n)' /\ \A j \in 1..Len(from_slave_queue) : n < from_slave_queue[j]
      BY <1>3, <2>4, <2>5 DEF BeforeReceived
    <3> QED
      BY <2>1, <2>5, <3>1 DEF BeforeHandled, BeforeReceived, BeforeHeld, BeforeLoaded, BeforeQueue
  <2>6. (Rising(delivered) /\ \A i \in 1..Len(delivered) : BeforeHandled(delivered[i]))'
    BY <2>1, <2>3, <2>4, <2>5 DEF Rising
  <2>7. (Rising(from_slave_queue)
         /\ \A i \in 1..Len(from_slave_queue) : BeforeHeld(from_slave_queue[i]))'
    <3>1. ASSUME NEW i \in 1..Len(from_slave_queue), NEW n \in Frame, n = from_slave_queue[i]
          PROVE  BeforeHeld(from_slave_queue[i])'
      BY <1>3, <2>1, <3>1 DEF OrderInv, BeforeHeld, BeforeLoaded, BeforeQueue
    <3> QED BY <1>1, <2>1, <3>1, ElementOfSeq DEF OrderInv, Rising
  <2> QED BY <1>2, <2>1, <2>6, <2>7 DEF OrderInv
<1> QED BY <1>4, <1>5

LEMMA OrderStep ==
  ASSUME TypeOK, MutexInv, OrderInv, [Next]_vars
  PROVE  OrderInv'
<1>1. ASSUME UNCHANGED <<slave_queue, slave_loaded, produced, rxbuff, from_slave_queue,
                         rx_handle, delivered>>
      PROVE  OrderInv'
  <2>1. \A n \in Frame : BeforeHeld(n) => BeforeHeld(n)'
    BY <1>1 DEF BeforeHeld, BeforeLoaded, BeforeQueue
  <2>2. /\ (Rising(slave_queue) /\ \A i \in 1..Len(slave_queue) : slave_queue[i] <= produced)'
        /\ (slave_loaded # NULL => BeforeQueue(slave_loaded))'
        /\ (\A t \in Threads : rxbuff[t] # NULL => BeforeLoaded(rxbuff[t]))'
    BY <1>1 DEF OrderInv, Rising, BeforeQueue, BeforeLoaded
  <2> QED BY <1>1, <2>1, <2>2, CarryReceived DEF OrderInv
<1>2. CASE UNCHANGED vars \/ Quiescent \/ AssertFails
  BY <1>1, <1>2 DEF vars, Quiescent, AssertFails
<1>3. CASE SlaveProduce \/ SlaveArm
  BY <1>3, OrderSlave
<1>4. ASSUME NEW t \in Senders, CallSend(t) \/ RefuseSend(t) \/ EnqueueTx(t)
      PROVE  OrderInv'
  BY <1>1, <1>4 DEF CallSend, RefuseSend, EnqueueTx
<1>5. ASSUME NEW t \in Threads, Check(t)
      PROVE  OrderInv'
  <2>1. CASE WaitReady(t) \/ ReadHandshake(t) \/ ReadDataReady(t) \/ GetTxBuffer(t)
             \/ TakeMutex(t) \/ GiveMutex(t)
    BY <1>1, <2>1 DEF WaitReady, ReadHandshake, ReadDataReady, GetTxBuffer, TakeMutex, GiveMutex
  <2> QED BY <1>5, <2>1, OrderTransfer, OrderPost DEF Check
<1>6. CASE ReceiveFrame \/ ProcessFrame
  BY <1>6, OrderProcess
<1> QED BY <1>2, <1>3, <1>4, <1>5, <1>6 DEF Next, Step

(* process_rx_task hands the frames on in the order in which the slave     *)
(* sent them and none twice, however many threads run transfers: a frame   *)
(* is queued before the mutex under which it was clocked in is given.      *)
THEOREM FramesInOrder == Spec => []RxInOrder
<1>1. Init => MutexInv /\ OrderInv
  BY DEF Init, MutexInv, OrderInv, Rising, BeforeHeld, BeforeLoaded, Rest
<1>2. TypeOK /\ MutexInv /\ OrderInv /\ [Next]_vars => MutexInv' /\ OrderInv'
  BY MutexStep, OrderStep
<1>3. TypeOK /\ OrderInv => RxInOrder
  <2> SUFFICES ASSUME TypeOK, OrderInv PROVE RxInOrder
    OBVIOUS
  <2>1. DOMAIN delivered = 1..Len(delivered)
    BY DEF TypeOK
  <2> QED BY <2>1 DEF OrderInv, Rising, RxInOrder, Increasing
<1> QED BY <1>1, <1>2, <1>3, TypeCorrect, PTL DEF Spec

-----------------------------------------------------------------------------
(* The buffers.  A step of a thread changes the number of live buffers by  *)
(* what it changes of the thread's own share and of the two queues.        *)

Share(t) == (IF pc[t] = "send" THEN 1 ELSE 0)
            + (IF pc[t] = "lock" /\ txbuff[t] # NULL THEN 1 ELSE 0)
            + (IF pc[t] \in {"xfer", "post"} THEN 2 ELSE 0)

Queued == Len(to_slave_queue) + Len(from_slave_queue) + (IF rx_handle = NULL THEN 0 ELSE 1)

(* The buffers that have an owner, and who owns them. *)
Net == heap - leaked

Accounted ==
  Net = Cardinality({t \in Threads : pc[t] = "send"})
        + Len(to_slave_queue)
        + Cardinality({t \in Threads : pc[t] = "lock" /\ txbuff[t] # NULL})
        + 2 * Cardinality({t \in Threads : pc[t] \in {"xfer", "post"}})
        + Len(from_slave_queue)
        + (IF rx_handle = NULL THEN 0 ELSE 1)

HeapInv ==
  ~stopped =>
    /\ Accounted
    /\ \A t \in Threads : pc[t] \notin {"send", "lock", "xfer", "post"} => txbuff[t] = NULL

LEMMA CardinalityChange ==
  ASSUME NEW A \in SUBSET Threads, NEW B \in SUBSET Threads, NEW t \in Threads,
         A \ {t} = B \ {t}
  PROVE  /\ Cardinality(A) \in Int /\ Cardinality(B) \in Int
         /\ Cardinality(B)
              = Cardinality(A) + (IF t \in B THEN 1 ELSE 0) - (IF t \in A THEN 1 ELSE 0)
<1>1. IsFiniteSet(A) /\ IsFiniteSet(B)
  BY ThreadsAssumption, FS_AddElement, FS_Subset
<1>2. /\ Cardinality(A) \in Int /\ Cardinality(B) \in Int
      /\ Cardinality(A \ {t}) = IF t \in A THEN Cardinality(A) - 1 ELSE Cardinality(A)
      /\ Cardinality(B \ {t}) = IF t \in B THEN Cardinality(B) - 1 ELSE Cardinality(B)
  BY <1>1, FS_CardinalityType, FS_RemoveElement
<1> QED BY <1>2

LEMMA HeapChange ==
  ASSUME TypeOK, TypeOK', Accounted, NEW t \in Threads,
         \A u \in Threads \ {t} : pc'[u] = pc[u] /\ txbuff'[u] = txbuff[u],
         Net' - Net = Share(t)' - Share(t) + Queued' - Queued
  PROVE  Accounted'
<1> DEFINE S == {u \in Threads : pc[u] = "send"}
           L == {u \in Threads : pc[u] = "lock" /\ txbuff[u] # NULL}
           X == {u \in Threads : pc[u] \in {"xfer", "post"}}
<1>1. S' \ {t} = S \ {t} /\ L' \ {t} = L \ {t} /\ X' \ {t} = X \ {t}
  OBVIOUS
<1>2. /\ t \in S <=> pc[t] = "send"
      /\ t \in L <=> pc[t] = "lock" /\ txbuff[t] # NULL
      /\ t \in X <=> pc[t] \in {"xfer", "post"}
      /\ t \in S' <=> pc'[t] = "send"
      /\ t \in L' <=> pc'[t] = "lock" /\ txbuff'[t] # NULL
      /\ t \in X' <=> pc'[t] \in {"xfer", "post"}
  OBVIOUS
<1>3. /\ S \in SUBSET Threads /\ S' \in SUBSET Threads
      /\ L \in SUBSET Threads /\ L' \in SUBSET Threads
      /\ X \in SUBSET Threads /\ X' \in SUBSET Threads
  OBVIOUS
<1>4. /\ Net = Cardinality(S) + Len(to_slave_queue) + Cardinality(L) + 2 * Cardinality(X)
                + Len(from_slave_queue) + (IF rx_handle = NULL THEN 0 ELSE 1)
      /\ Accounted' <=>
           Net' = Cardinality(S') + Len(to_slave_queue') + Cardinality(L') + 2 * Cardinality(X')
                   + Len(from_slave_queue') + (IF rx_handle' = NULL THEN 0 ELSE 1)
  BY DEF Accounted
<1>5. /\ Net \in Int /\ Net' \in Int
      /\ Len(to_slave_queue) \in Int /\ Len(to_slave_queue') \in Int
      /\ Len(from_slave_queue) \in Int /\ Len(from_slave_queue') \in Int
  BY LenProperties DEF Net, TypeOK
<1> HIDE DEF S, L, X
<1> DEFINE s == IF pc[t] = "send" THEN 1 ELSE 0
           s1 == IF pc'[t] = "send" THEN 1 ELSE 0
           l == IF pc[t] = "lock" /\ txbuff[t] # NULL THEN 1 ELSE 0
           l1 == IF pc'[t] = "lock" /\ txbuff'[t] # NULL THEN 1 ELSE 0
           x == IF pc[t] \in {"xfer", "post"} THEN 1 ELSE 0
           x1 == IF pc'[t] \in {"xfer", "post"} THEN 1 ELSE 0
           h == IF rx_handle = NULL THEN 0 ELSE 1
           h1 == IF rx_handle' = NULL THEN 0 ELSE 1
<1>6. /\ Cardinality(S) \in Int /\ Cardinality(S') \in Int
      /\ Cardinality(S') = Cardinality(S) + s1 - s
  BY <1>1, <1>2, <1>3, CardinalityChange
<1>7. /\ Cardinality(L) \in Int /\ Cardinality(L') \in Int
      /\ Cardinality(L') = Cardinality(L) + l1 - l
  BY <1>1, <1>2, <1>3, CardinalityChange
<1>8. /\ Cardinality(X) \in Int /\ Cardinality(X') \in Int
      /\ Cardinality(X') = Cardinality(X) + x1 - x
  BY <1>1, <1>2, <1>3, CardinalityChange
<1>9. /\ s \in Int /\ s1 \in Int /\ l \in Int /\ l1 \in Int /\ x \in Int /\ x1 \in Int
      /\ h \in Int /\ h1 \in Int
      /\ Share(t) = s + l + 2 * x /\ Share(t)' = s1 + l1 + 2 * x1
      /\ Queued = Len(to_slave_queue) + Len(from_slave_queue) + h
      /\ Queued' = Len(to_slave_queue') + Len(from_slave_queue') + h1
  BY DEF Share, Queued
<1>10. /\ Net = Cardinality(S) + Len(to_slave_queue) + Cardinality(L) + 2 * Cardinality(X)
                 + Len(from_slave_queue) + h
       /\ Accounted' <=>
            Net' = Cardinality(S') + Len(to_slave_queue') + Cardinality(L') + 2 * Cardinality(X')
                    + Len(from_slave_queue') + h1
  BY <1>4
<1>11. Net' - Net = (s1 + l1 + 2 * x1) - (s + l + 2 * x)
                      + (Len(to_slave_queue') + Len(from_slave_queue') + h1)
                      - (Len(to_slave_queue) + Len(from_slave_queue) + h)
  BY <1>9
<1> HIDE DEF s, s1, l, l1, x, x1, h, h1
<1>12. /\ 2 * Cardinality(X) = Cardinality(X) + Cardinality(X)
       /\ 2 * Cardinality(X') = Cardinality(X') + Cardinality(X')
       /\ 2 * x = x + x /\ 2 * x1 = x1 + x1
  BY <1>8, <1>9
<1>13. Net' = Net + (s1 + l1 + (x1 + x1)) - (s + l + (x + x))
                    + (Len(to_slave_queue') + Len(from_slave_queue') + h1)
                    - (Len(to_slave_queue) + Len(from_slave_queue) + h)
  BY <1>5, <1>9, <1>11, <1>12
<1>14. Net = Cardinality(S) + Len(to_slave_queue) + Cardinality(L)
              + (Cardinality(X) + Cardinality(X)) + Len(from_slave_queue) + h
  BY <1>10, <1>12
<1>15. Net' = Cardinality(S') + Len(to_slave_queue') + Cardinality(L')
               + (Cardinality(X') + Cardinality(X')) + Len(from_slave_queue') + h1
  <2> DEFINE cs == Cardinality(S)  cl == Cardinality(L)  cx == Cardinality(X)
             to == Len(to_slave_queue)  to1 == Len(to_slave_queue')
             from == Len(from_slave_queue)  from1 == Len(from_slave_queue')
  <2>1. /\ cs \in Int /\ cl \in Int /\ cx \in Int
        /\ to \in Int /\ to1 \in Int /\ from \in Int /\ from1 \in Int
        /\ s \in Int /\ s1 \in Int /\ l \in Int /\ l1 \in Int /\ x \in Int /\ x1 \in Int
        /\ h \in Int /\ h1 \in Int /\ Net \in Int /\ Net' \in Int
        /\ Net = cs + to + cl + (cx + cx) + from + h
        /\ Net' = Net + (s1 + l1 + (x1 + x1)) - (s + l + (x + x)) + (to1 + from1 + h1)
                   - (to + from + h)
    BY <1>5, <1>6, <1>7, <1>8, <1>9, <1>13, <1>14
  <2> HIDE DEF cs, cl, cx, to, to1, from, from1
  <2>2. Net' = cs + cl + (cx + cx) + (s1 + l1 + (x1 + x1)) - (s + l + (x + x))
                + (to1 + from1 + h1)
    BY <2>1
  <2>3. Net' = (cs + s1 - s) + to1 + (cl + l1 - l) + ((cx + x1 - x) + (cx + x1 - x)) + from1 + h1
    BY <2>1, <2>2
  <2> QED BY <1>6, <1>7, <1>8, <2>3 DEF cs, cl, cx, to1, from1
<1> QED BY <1>10, <1>12, <1>15

LEMMA HeapSend ==
  ASSUME TypeOK, TypeOK', HeapInv, NEW t \in Senders,
         CallSend(t) \/ RefuseSend(t) \/ EnqueueTx(t), ~stopped, ~stopped'
  PROVE  HeapInv'
<1>1. t \in Threads /\ \A u \in Threads \ {t} : pc'[u] = pc[u] /\ txbuff'[u] = txbuff[u]
  BY DEF CallSend, RefuseSend, EnqueueTx, Goto, TypeOK
<1>2. /\ Net \in Int /\ Len(to_slave_queue) \in Int /\ Len(from_slave_queue) \in Int
      /\ pc \in [Threads -> Labels] /\ txbuff \in [Threads -> Packet \cup {NULL}]
  BY LenProperties DEF Net, TypeOK
<1>3. CASE CallSend(t)
  <2>1. /\ pc[t] = "idle" /\ pc'[t] = "send" /\ Net' = Net + 1
        /\ UNCHANGED <<to_slave_queue, from_slave_queue, rx_handle>>
    BY <1>1, <1>2, <1>3 DEF CallSend, Goto, Net, TypeOK
  <2>2. Net' - Net = Share(t)' - Share(t) + Queued' - Queued
    BY <1>2, <2>1 DEF Share, Queued
  <2> QED BY <1>1, <2>1, <2>2, HeapChange DEF HeapInv
<1>4. CASE RefuseSend(t)
  <2>1. /\ pc[t] = "send" /\ pc'[t] = "idle" /\ Net' = Net - 1 /\ txbuff'[t] = NULL
        /\ UNCHANGED <<to_slave_queue, from_slave_queue, rx_handle>>
    <3>1. t \notin SerialSenders
      BY <1>4 DEF RefuseSend
    <3>2. heap' = heap - 1 /\ leaked' = leaked
      BY <1>4, <3>1 DEF RefuseSend
    <3>3. Net' = Net - 1
      BY <3>2 DEF Net, TypeOK
    <3> QED BY <1>1, <1>2, <1>4, <3>3 DEF RefuseSend, Goto
  <2>2. Net' - Net = Share(t)' - Share(t) + Queued' - Queued
    BY <1>2, <2>1 DEF Share, Queued
  <2> QED BY <1>1, <2>1, <2>2, HeapChange DEF HeapInv
<1>5. CASE EnqueueTx(t)
  <2>1. /\ pc[t] = "send" /\ pc'[t] = "gpio" /\ Net' = Net /\ txbuff'[t] = NULL
        /\ to_slave_queue' = Append(to_slave_queue, txbuff[t])
        /\ UNCHANGED <<from_slave_queue, rx_handle>>
    BY <1>1, <1>2, <1>5 DEF EnqueueTx, Goto, Net, TypeOK
  <2>2. Len(to_slave_queue') = Len(to_slave_queue) + 1
    BY <2>1 DEF Net, TypeOK
  <2>3. Net' - Net = Share(t)' - Share(t) + Queued' - Queued
    BY <1>2, <2>1, <2>2 DEF Share, Queued
  <2> QED BY <1>1, <2>1, <2>3, HeapChange DEF HeapInv
<1> QED BY <1>3, <1>4, <1>5

LEMMA HeapCheck ==
  ASSUME TypeOK, TypeOK', HeapInv, NEW t \in Threads, Check(t), ~stopped
  PROVE  HeapInv'
<1> USE DEF Goto, Return, Rest
<1>1. \A u \in Threads \ {t} : pc'[u] = pc[u] /\ txbuff'[u] = txbuff[u]
  BY DEF Net, TypeOK, Check, WaitReady, ReadHandshake, ReadDataReady, GetTxBuffer,
     TransactIfNeeded, TakeMutex, Transfer, PostRx, GiveMutex
<1>2. /\ Net \in Int /\ Len(to_slave_queue) \in Int /\ Len(from_slave_queue) \in Int
      /\ pc \in [Threads -> Labels] /\ txbuff \in [Threads -> Packet \cup {NULL}]
  BY LenProperties DEF Net, TypeOK
<1>3. SUFFICES /\ Net' - Net = Share(t)' - Share(t) + Queued' - Queued
               /\ pc'[t] \notin {"send", "lock", "xfer", "post"} => txbuff'[t] = NULL
  BY <1>1, HeapChange DEF HeapInv
<1>4. CASE WaitReady(t) \/ ReadHandshake(t) \/ ReadDataReady(t) \/ GiveMutex(t)
  <2>1. /\ pc[t] \in {"wait", "gpio", "ready", "unlock"}
        /\ pc'[t] \in {"wait", "idle", "gpio", "ready", "dequeue"}
        /\ UNCHANGED <<txbuff, Net, to_slave_queue, from_slave_queue, rx_handle>>
    BY <1>2, <1>4 DEF WaitReady, ReadHandshake, ReadDataReady, GiveMutex, Net
  <2> QED BY <1>2, <2>1 DEF Share, Queued, HeapInv
<1>5. CASE GetTxBuffer(t)
  <2>1. pc[t] = "dequeue" /\ txbuff[t] = NULL /\ UNCHANGED <<from_slave_queue, rx_handle>>
    BY <1>5 DEF GetTxBuffer, HeapInv
  <2>2. /\ pc'[t] \in {"wait", "idle", "lock"}
        /\ \/ /\ Net' = Net /\ to_slave_queue' = to_slave_queue /\ txbuff'[t] = NULL
           \/ /\ Net' = Net /\ to_slave_queue # <<>> /\ pc'[t] = "lock"
              /\ to_slave_queue' = Tail(to_slave_queue) /\ txbuff'[t] = Head(to_slave_queue)
           \/ /\ Net' = Net - 1 /\ to_slave_queue # <<>>
              /\ to_slave_queue' = Tail(to_slave_queue) /\ txbuff'[t] = NULL
    <3>1. leaked' = leaked /\ leaked \in Int /\ heap \in Int
      BY <1>5 DEF GetTxBuffer, TypeOK
    <3>2. (heap' = heap => Net' = Net) /\ (heap' = heap - 1 => Net' = Net - 1)
      BY <3>1 DEF Net
    <3> QED BY <1>2, <1>5, <2>1, <3>2 DEF GetTxBuffer, TransactIfNeeded
  <2>3. to_slave_queue # <<>> =>
          Head(to_slave_queue) \in Packet /\ Len(Tail(to_slave_queue)) = Len(to_slave_queue) - 1
    BY QueueGet DEF Net, TypeOK
  <2> QED BY <1>2, <2>1, <2>2, <2>3 DEF Share, Queued
<1>6. CASE TakeMutex(t)
  <2>1. /\ pc[t] = "lock" /\ pc'[t] = "xfer"
        /\ Net' = Net + (IF txbuff[t] = NULL THEN 2 ELSE 1)
        /\ UNCHANGED <<txbuff, to_slave_queue, from_slave_queue, rx_handle>>
    BY <1>2, <1>6 DEF TakeMutex, Net, TypeOK
  <2> QED BY <1>2, <2>1 DEF Share, Queued
<1>7. CASE Transfer(t)
  <2>1. /\ pc[t] = "xfer" /\ pc'[t] = "post"
        /\ UNCHANGED <<txbuff, Net, to_slave_queue, from_slave_queue, rx_handle>>
    BY <1>2, <1>7 DEF Transfer, Net
  <2> QED BY <1>2, <2>1 DEF Share, Queued
<1>8. CASE PostRx(t)
  <2>1. /\ pc[t] = "post" /\ pc'[t] = "unlock" /\ txbuff'[t] = NULL
        /\ \/ rxbuff[t] = NULL /\ from_slave_queue' = from_slave_queue /\ Net' = Net - 2
           \/ /\ rxbuff[t] # NULL /\ Net' = Net - 1
              /\ from_slave_queue' = Append(from_slave_queue, rxbuff[t])
        /\ UNCHANGED <<to_slave_queue, rx_handle>>
    BY <1>2, <1>8 DEF PostRx, FreedAfter, Net, TypeOK
  <2>2. rxbuff[t] # NULL => Len(Append(from_slave_queue, rxbuff[t])) = Len(from_slave_queue) + 1
    BY QueuePut DEF Net, TypeOK
  <2> QED BY <1>2, <2>1, <2>2 DEF Share, Queued
<1> QED BY <1>4, <1>5, <1>6, <1>7, <1>8 DEF Check

LEMMA HeapStep ==
  ASSUME TypeOK, TypeOK', HeapInv, [Next]_vars
  PROVE  HeapInv'
<1>0. CASE stopped'
  BY <1>0 DEF HeapInv
<1> SUFFICES ASSUME ~stopped' PROVE HeapInv'
  BY <1>0
<1>a. ~stopped
  BY DEF Next, vars, Quiescent
<1>1. ASSUME pc' = pc, txbuff' = txbuff, Net' - Net = Queued' - Queued
      PROVE  HeapInv'
  <2>1. TransactionTask \in Threads
    OBVIOUS
  <2>2. Share(TransactionTask)' = Share(TransactionTask) /\ Share(TransactionTask) \in Int
    BY <1>1 DEF Share
  <2>3. Queued \in Int /\ Queued' \in Int
    BY LenProperties DEF Queued, TypeOK
  <2>4. Net' - Net = Share(TransactionTask)' - Share(TransactionTask) + Queued' - Queued
    BY <1>1, <2>2, <2>3
  <2> QED BY <1>1, <1>a, <2>1, <2>4, HeapChange DEF HeapInv
<1>2. Net \in Int /\ Len(to_slave_queue) \in Int /\ Len(from_slave_queue) \in Int
  BY LenProperties DEF Net, TypeOK
<1>3. CASE UNCHANGED vars \/ Quiescent \/ SlaveProduce \/ SlaveArm
  <2>1. UNCHANGED <<pc, txbuff, Net, to_slave_queue, from_slave_queue, rx_handle>>
    BY <1>3 DEF vars, Quiescent, SlaveProduce, SlaveArm, Net
  <2> QED BY <1>1, <1>2, <2>1 DEF Queued
<1>4. CASE ReceiveFrame
  <2>1. /\ UNCHANGED <<pc, txbuff, Net, to_slave_queue>>
        /\ rx_handle = NULL /\ rx_handle' = Head(from_slave_queue)
        /\ from_slave_queue # <<>> /\ from_slave_queue' = Tail(from_slave_queue)
    BY <1>4 DEF ReceiveFrame, Net
  <2>2. /\ Head(from_slave_queue) \in Frame
        /\ Len(Tail(from_slave_queue)) = Len(from_slave_queue) - 1
    BY <2>1, QueueGet DEF Net, TypeOK
  <2> QED BY <1>1, <1>2, <2>1, <2>2 DEF Queued
<1>5. CASE ProcessFrame
  <2>1. /\ UNCHANGED <<pc, txbuff, to_slave_queue, from_slave_queue>>
        /\ rx_handle # NULL /\ rx_handle' = NULL /\ Net' = Net - 1
    <3>1. \/ heap' = heap - 1 /\ leaked' = leaked
          \/ heap' = heap /\ leaked' = leaked + 1
      BY <1>5 DEF ProcessFrame
    <3>2. leaked \in Int /\ heap \in Int
      BY DEF TypeOK
    <3>3. Net' = Net - 1
      BY <3>1, <3>2 DEF Net
    <3> QED BY <1>5, <3>3 DEF ProcessFrame
  <2> QED BY <1>1, <1>2, <2>1 DEF Queued
<1>6. ~AssertFails
  BY DEF AssertFails
<1> QED BY <1>a, <1>3, <1>4, <1>5, <1>6, HeapSend, HeapCheck DEF Next, Step

LEMMA AccountedIs ==
  ASSUME TypeOK, Accounted
  PROVE  BuffersAccounted
<1> DEFINE S == {t \in Threads : pc[t] = "send"}
           L == {t \in Threads : pc[t] = "lock" /\ txbuff[t] # NULL}
           X == {t \in Threads : pc[t] \in {"xfer", "post"}}
<1>1. S \in SUBSET Threads /\ L \in SUBSET Threads /\ X \in SUBSET Threads
  OBVIOUS
<1>2. /\ heap - leaked = Cardinality(S) + Len(to_slave_queue) + Cardinality(L)
                         + 2 * Cardinality(X) + Len(from_slave_queue)
                         + (IF rx_handle = NULL THEN 0 ELSE 1)
      /\ BuffersAccounted <=>
           (~stopped =>
              heap = leaked + Cardinality(S) + Len(to_slave_queue) + Cardinality(L)
                     + 2 * Cardinality(X) + Len(from_slave_queue)
                     + (IF rx_handle = NULL THEN 0 ELSE 1))
  BY DEF Accounted, BuffersAccounted, Net
<1> HIDE DEF S, L, X
<1>3. Cardinality(S) \in Int /\ Cardinality(L) \in Int /\ Cardinality(X) \in Int
  BY <1>1, CardinalityChange, TransactionTask \in Threads
<1>4. heap \in Int /\ leaked \in Int /\ Len(to_slave_queue) \in Int /\ Len(from_slave_queue) \in Int
  BY LenProperties DEF TypeOK
<1> DEFINE h == IF rx_handle = NULL THEN 0 ELSE 1
           cs == Cardinality(S)  cl == Cardinality(L)  cx == Cardinality(X)
           to == Len(to_slave_queue)  from == Len(from_slave_queue)
<1>5. /\ heap - leaked = cs + to + cl + 2 * cx + from + h
      /\ BuffersAccounted <=> (~stopped => heap = leaked + cs + to + cl + 2 * cx + from + h)
      /\ cs \in Int /\ cl \in Int /\ cx \in Int /\ to \in Int /\ from \in Int /\ h \in Int
  BY <1>2, <1>3, <1>4
<1> HIDE DEF h, cs, cl, cx, to, from
<1>6. heap = leaked + cs + to + cl + 2 * cx + from + h
  BY <1>4, <1>5
<1> QED BY <1>5, <1>6

(* Until the firmware stops, every live buffer has exactly one owner, but  *)
(* for the payloads of private events, which nobody frees, whichever       *)
(* allocation fails and whatever the wire does, for any number of sending  *)
(* threads.                                                                *)
THEOREM BuffersOwned == Spec => []BuffersAccounted
<1>1. Init => HeapInv
  <2> SUFFICES ASSUME Init PROVE HeapInv
    OBVIOUS
  <2>1. \A t \in Threads : pc[t] \notin {"send", "lock", "xfer", "post"} /\ txbuff[t] = NULL
    BY DEF Init, Rest
  <2>2. /\ {t \in Threads : pc[t] = "send"} = {}
        /\ {t \in Threads : pc[t] = "lock" /\ txbuff[t] # NULL} = {}
        /\ {t \in Threads : pc[t] \in {"xfer", "post"}} = {}
    BY <2>1
  <2>3. Cardinality({}) = 0 /\ Len(to_slave_queue) = 0 /\ Len(from_slave_queue) = 0
    BY FS_EmptySet DEF Init
  <2>4. Net = 0 /\ rx_handle = NULL
    BY DEF Init, Net
  <2> DEFINE S == {t \in Threads : pc[t] = "send"}
             L == {t \in Threads : pc[t] = "lock" /\ txbuff[t] # NULL}
             X == {t \in Threads : pc[t] \in {"xfer", "post"}}
  <2>5. Accounted
    <3>1. Cardinality(S) = 0 /\ Cardinality(L) = 0 /\ Cardinality(X) = 0
      <4> HIDE DEF S, L, X
      <4>1. S = {} /\ L = {} /\ X = {}
        BY <2>2 DEF S, L, X
      <4> QED BY <2>3, <4>1
    <3>2. Accounted <=>
            Net = Cardinality(S) + Len(to_slave_queue) + Cardinality(L) + 2 * Cardinality(X)
                   + Len(from_slave_queue) + (IF rx_handle = NULL THEN 0 ELSE 1)
      BY DEF Accounted
    <3> HIDE DEF S, L, X
    <3> QED BY <2>3, <2>4, <3>1, <3>2
  <2> QED BY <2>1, <2>5 DEF HeapInv
<1>2. TypeOK /\ TypeOK' /\ HeapInv /\ [Next]_vars => HeapInv'
  BY HeapStep
<1>3. TypeOK /\ HeapInv => BuffersAccounted
  <2>1. stopped => BuffersAccounted
    BY DEF BuffersAccounted
  <2> QED BY <2>1, AccountedIs DEF HeapInv
<1> QED BY <1>1, <1>2, <1>3, TypeCorrect, PTL DEF Spec

-----------------------------------------------------------------------------
(* The ordered channel.  A step of the driver moves a frame to the next    *)
(* stage, which leaves the set of the frames in transit as it is; the      *)
(* stage it moves to is empty, or a queue.                                 *)

LoadedInv == ~handshake => slave_loaded = NULL

LEMMA LoadedStep ==
  ASSUME LoadedInv, [Next]_vars
  PROVE  LoadedInv'
<1>1. CASE SlaveArm
  BY <1>1 DEF LoadedInv, SlaveArm
<1>2. ASSUME NEW t \in Threads, Transfer(t)
      PROVE  LoadedInv'
  BY <1>2 DEF LoadedInv, Transfer
<1>3. CASE UNCHANGED <<handshake, slave_loaded>>
  BY <1>3 DEF LoadedInv
<1> QED
  BY <1>1, <1>2, <1>3 DEF Next, Step, vars, Quiescent, SlaveProduce, CallSend, RefuseSend, EnqueueTx,
     Check, WaitReady, ReadHandshake, ReadDataReady, GetTxBuffer, TakeMutex, PostRx, GiveMutex,
     ReceiveFrame, ProcessFrame, AssertFails

LEMMA ElementsPut ==
  ASSUME NEW q \in Seq(Frame), NEW e \in Frame
  PROVE  Elements(Append(q, e)) = Elements(q) \cup {e}
<1>1. /\ DOMAIN q = 1..Len(q) /\ Len(q) \in Nat
      /\ DOMAIN Append(q, e) = 1..(Len(q) + 1)
      /\ \A i \in 1..Len(q) : Append(q, e)[i] = q[i]
      /\ Append(q, e)[Len(q) + 1] = e
  BY AppendProperties, LenProperties
<1>2. 1..(Len(q) + 1) = 1..Len(q) \cup {Len(q) + 1}
  BY <1>1
<1> QED BY <1>1, <1>2 DEF Elements

LEMMA ElementsGet ==
  ASSUME NEW q \in Seq(Frame), q # <<>>
  PROVE  Elements(q) = {Head(q)} \cup Elements(Tail(q))
<1>1. /\ Len(q) \in Nat \ {0} /\ DOMAIN q = 1..Len(q) /\ Head(q) = q[1]
      /\ DOMAIN Tail(q) = 1..(Len(q) - 1)
      /\ \A i \in 1..(Len(q) - 1) : Tail(q)[i] = q[i + 1]
  BY HeadTailProperties, LenProperties, EmptySeq
<1>2. \A n : n \in Elements(q) => n \in {Head(q)} \cup Elements(Tail(q))
  <2> SUFFICES ASSUME NEW i \in 1..Len(q), i # 1
               PROVE  q[i] \in Elements(Tail(q))
    BY <1>1 DEF Elements
  <2>1. i - 1 \in 1..(Len(q) - 1) /\ (i - 1) + 1 = i
    BY <1>1
  <2>2. Tail(q)[i - 1] = q[i]
    BY <1>1, <2>1
  <2> QED BY <1>1, <2>1, <2>2 DEF Elements
<1>3. \A n : n \in {Head(q)} \cup Elements(Tail(q)) => n \in Elements(q)
  <2>1. \A i \in 1..(Len(q) - 1) : i + 1 \in 1..Len(q)
    BY <1>1
  <2>2. 1 \in 1..Len(q)
    BY <1>1
  <2> QED BY <1>1, <2>1, <2>2 DEF Elements
<1> QED BY <1>2, <1>3

(* A step that leaves the frames in transit where they are, or loses one   *)
(* of them on a wire that may fail.                                        *)
LEMMA ChannelCarries ==
  ASSUME UNCHANGED <<produced, delivered>>,
         \/ InTransit' = InTransit
         \/ WireMayFail /\ InTransit' \subseteq InTransit /\ InTransit \ InTransit' \subseteq Frame
  PROVE  Channel!Next
BY DEF Channel!Next, Channel!Lose, Channel!Carry

LEMMA ChannelSlave ==
  ASSUME TypeOK, LoadedInv, SlaveProduce \/ SlaveArm
  PROVE  Channel!Next
<1>1. UNCHANGED <<rxbuff, from_slave_queue, rx_handle, delivered>>
  BY DEF SlaveProduce, SlaveArm
<1>2. CASE SlaveProduce
  <2>1. /\ produced + 1 \in Frame /\ produced' = produced + 1 /\ slave_loaded' = slave_loaded
        /\ slave_queue' = Append(slave_queue, produced + 1) /\ slave_queue \in Seq(Frame)
    BY <1>2, BoundsAssumption DEF SlaveProduce, TypeOK
  <2>2. Elements(slave_queue') = Elements(slave_queue) \cup {produced + 1}
    <3> DEFINE f == produced + 1
    <3>1. f \in Frame /\ slave_queue' = Append(slave_queue, f)
      BY <2>1
    <3> HIDE DEF f
    <3>2. Elements(Append(slave_queue, f)) = Elements(slave_queue) \cup {f}
      BY <2>1, <3>1, ElementsPut
    <3> QED BY <3>1, <3>2 DEF f
  <2>3. InTransit' = InTransit \cup {produced + 1}
    <3>1. produced + 1 # NULL
      BY <2>1
    <3> QED BY <1>1, <2>1, <2>2, <3>1 DEF InTransit, Elements
  <2> QED BY <1>1, <2>1, <2>3 DEF Channel!Next, Channel!Send, Channel!Carry
<1>3. CASE SlaveArm
  <2>1. produced' = produced /\ slave_loaded = NULL /\ slave_queue \in Seq(Frame)
    BY <1>3 DEF SlaveArm, LoadedInv, TypeOK
  <2>2. Elements(slave_queue') \cup {slave_loaded', NULL} = Elements(slave_queue) \cup {NULL}
    <3>1. CASE slave_queue = <<>>
      BY <1>3, <3>1 DEF SlaveArm
    <3>2. CASE slave_queue # <<>>
      <4>1. slave_queue' = Tail(slave_queue) /\ slave_loaded' = Head(slave_queue)
        BY <1>3, <3>2 DEF SlaveArm
      <4>2. Elements(slave_queue) = {Head(slave_queue)} \cup Elements(Tail(slave_queue))
        BY <2>1, <3>2, ElementsGet
      <4> QED BY <4>1, <4>2
    <3> QED BY <3>1, <3>2
  <2>3. InTransit' = InTransit
    BY <1>1, <2>1, <2>2 DEF InTransit, Elements
  <2> QED BY <1>1, <2>1, <2>3, ChannelCarries
<1> QED BY <1>2, <1>3

(* The frame the slave has loaded goes to the thread that runs the         *)
(* transfer, whose own buffer was empty, or is lost on the wire.           *)
LEMMA ChannelTransfer ==
  ASSUME TypeOK, LoadedInv, MutexInv, NEW t \in Threads, Transfer(t)
  PROVE  Channel!Next
<1>1. /\ UNCHANGED <<slave_queue, produced, from_slave_queue, rx_handle, delivered>>
      /\ rxbuff[t] = NULL /\ \A u \in Threads \ {t} : rxbuff'[u] = rxbuff[u]
  BY DEF Transfer, MutexInv, TypeOK
<1>2. /\ slave_loaded' = NULL
      /\ rxbuff'[t] = slave_loaded \/ (WireMayFail /\ rxbuff'[t] = NULL)
  <2>1. CASE handshake
    BY <2>1 DEF Transfer, Clocked, TypeOK
  <2>2. CASE ~handshake
    BY <2>2 DEF Transfer, LoadedInv, TypeOK
  <2> QED BY <2>1, <2>2
<1> DEFINE held == {rxbuff[u] : u \in Threads \ {t}}
           rest == Elements(slave_queue) \cup Elements(from_slave_queue) \cup {rx_handle}
<1>3. /\ {rxbuff[u] : u \in Threads} = held \cup {rxbuff[t]}
      /\ {rxbuff'[u] : u \in Threads} = held \cup {rxbuff'[t]}
  BY <1>1
<1>4. /\ InTransit = (rest \cup {slave_loaded} \cup held \cup {rxbuff[t]}) \ {NULL}
      /\ InTransit' = (rest \cup {slave_loaded'} \cup held \cup {rxbuff'[t]}) \ {NULL}
  <2>1. InTransit = (Elements(slave_queue) \cup {slave_loaded} \cup {rxbuff[u] : u \in Threads}
                      \cup Elements(from_slave_queue) \cup {rx_handle}) \ {NULL}
    BY DEF InTransit
  <2>2. InTransit' = (Elements(slave_queue) \cup {slave_loaded'} \cup {rxbuff'[u] : u \in Threads}
                       \cup Elements(from_slave_queue) \cup {rx_handle}) \ {NULL}
    BY <1>1 DEF InTransit, Elements
  <2> HIDE DEF held
  <2> QED BY <1>3, <2>1, <2>2
<1>5. \/ InTransit' = InTransit
      \/ WireMayFail /\ InTransit' \subseteq InTransit /\ InTransit \ InTransit' \subseteq Frame
  <2>1. CASE rxbuff'[t] = slave_loaded
    <3> HIDE DEF held, rest
    <3> QED BY <1>1, <1>2, <1>4, <2>1
  <2>2. CASE WireMayFail /\ rxbuff'[t] = NULL
    <3>1. slave_loaded \in Frame \cup {NULL}
      BY DEF TypeOK
    <3> HIDE DEF held, rest
    <3> QED BY <1>1, <1>2, <1>4, <2>2, <3>1
  <2> QED BY <1>2, <2>1, <2>2
<1> QED BY <1>1, <1>5, ChannelCarries

LEMMA ChannelPost ==
  ASSUME TypeOK, NEW t \in Threads, PostRx(t)
  PROVE  Channel!Next
<1>1. /\ UNCHANGED <<slave_queue, slave_loaded, produced, rx_handle, delivered>>
      /\ rxbuff'[t] = NULL /\ \A u \in Threads \ {t} : rxbuff'[u] = rxbuff[u]
      /\ from_slave_queue \in Seq(Frame) /\ rxbuff[t] \in Frame \cup {NULL}
  BY DEF PostRx, TypeOK
<1>2. Elements(from_slave_queue') \cup {NULL} = Elements(from_slave_queue) \cup {rxbuff[t], NULL}
  <2>1. CASE rxbuff[t] = NULL
    BY <2>1 DEF PostRx
  <2>2. CASE rxbuff[t] # NULL
    <3>1. rxbuff[t] \in Frame /\ from_slave_queue' = Append(from_slave_queue, rxbuff[t])
      BY <1>1, <2>2 DEF PostRx
    <3>2. Elements(Append(from_slave_queue, rxbuff[t])) = Elements(from_slave_queue) \cup {rxbuff[t]}
      BY <1>1, <3>1, ElementsPut
    <3> QED BY <3>1, <3>2
  <2> QED BY <2>1, <2>2
<1> DEFINE held == {rxbuff[u] : u \in Threads \ {t}}
           rest == Elements(slave_queue) \cup {slave_loaded, rx_handle}
<1>3. /\ {rxbuff[u] : u \in Threads} = held \cup {rxbuff[t]}
      /\ {rxbuff'[u] : u \in Threads} = held \cup {rxbuff'[t]}
  BY <1>1
<1>4. InTransit' = InTransit
  <2>1. InTransit = (Elements(slave_queue) \cup {slave_loaded} \cup {rxbuff[u] : u \in Threads}
                      \cup Elements(from_slave_queue) \cup {rx_handle}) \ {NULL}
    BY DEF InTransit
  <2>2. InTransit' = (Elements(slave_queue) \cup {slave_loaded} \cup {rxbuff'[u] : u \in Threads}
                       \cup Elements(from_slave_queue') \cup {rx_handle}) \ {NULL}
    BY <1>1 DEF InTransit, Elements
  <2> HIDE DEF held
  <2> QED BY <1>1, <1>2, <1>3, <2>1, <2>2
<1> QED BY <1>1, <1>4, ChannelCarries

(* What process_rx_task hands on is the oldest frame in transit.           *)
LEMMA ChannelProcess ==
  ASSUME TypeOK, OrderInv, ReceiveFrame \/ ProcessFrame
  PROVE  Channel!Next
<1>1. UNCHANGED <<slave_queue, slave_loaded, produced, rxbuff>> /\ from_slave_queue \in Seq(Frame)
  BY DEF ReceiveFrame, ProcessFrame, TypeOK
<1>2. CASE ReceiveFrame
  <2>1. /\ rx_handle = NULL /\ rx_handle' = Head(from_slave_queue)
        /\ from_slave_queue' = Tail(from_slave_queue) /\ delivered' = delivered
        /\ Elements(from_slave_queue)
             = {Head(from_slave_queue)} \cup Elements(Tail(from_slave_queue))
    BY <1>1, <1>2, ElementsGet DEF ReceiveFrame
  <2>2. InTransit' = InTransit
    BY <1>1, <2>1 DEF InTransit, Elements
  <2> QED BY <1>1, <2>1, <2>2, ChannelCarries
<1>3. CASE ProcessFrame
  <2>1. /\ from_slave_queue' = from_slave_queue /\ rx_handle' = NULL
        /\ rx_handle # NULL /\ rx_handle \in Frame /\ delivered' = Append(delivered, rx_handle)
    BY <1>3 DEF ProcessFrame, TypeOK
  <2>2. BeforeReceived(rx_handle)
    BY <2>1 DEF OrderInv
  <2>3. \A n \in InTransit : n = rx_handle \/ rx_handle < n
    <3>1. DOMAIN slave_queue = 1..Len(slave_queue)
          /\ DOMAIN from_slave_queue = 1..Len(from_slave_queue)
      BY DEF TypeOK
    <3> QED
      BY <2>2, <3>1 DEF InTransit, Elements, BeforeReceived, BeforeHeld, BeforeLoaded, BeforeQueue
  <2>4. InTransit' = InTransit \ {rx_handle}
    <3> DEFINE others == (Elements(slave_queue) \cup {slave_loaded} \cup {rxbuff[u] : u \in Threads}
                           \cup Elements(from_slave_queue)) \ {NULL}
    <3>1. InTransit = others \cup {rx_handle} /\ InTransit' = others
      BY <1>1, <2>1 DEF InTransit, Elements
    <3>2. rx_handle \notin others
      <4>1. DOMAIN slave_queue = 1..Len(slave_queue)
            /\ DOMAIN from_slave_queue = 1..Len(from_slave_queue)
        BY DEF TypeOK
      <4> QED
        BY <2>1, <2>2, <4>1
        DEF Elements, BeforeReceived, BeforeHeld, BeforeLoaded, BeforeQueue
    <3> QED BY <3>1, <3>2
  <2>5. rx_handle \in InTransit
    BY <2>1 DEF InTransit
  <2>6. \A n \in InTransit : rx_handle <= n
    <3>1. \A n \in InTransit : n \in Int
      <4>1. /\ \A i \in DOMAIN slave_queue : slave_queue[i] \in Int
            /\ \A i \in DOMAIN from_slave_queue : from_slave_queue[i] \in Int
        <5>1. \A q \in Seq(Frame) : DOMAIN q = 1..Len(q) /\ \A i \in 1..Len(q) : q[i] \in Frame
          <6> HIDE DEF Frame
          <6> QED BY ElementOfSeq
        <5>2. slave_queue \in Seq(Frame) /\ from_slave_queue \in Seq(Frame)
          BY DEF TypeOK
        <5> QED BY <5>1, <5>2
      <4> QED BY <4>1 DEF InTransit, Elements, TypeOK
    <3> QED BY <2>1, <2>3, <3>1
  <2> QED BY <1>1, <2>1, <2>4, <2>5, <2>6 DEF Channel!Next, Channel!Deliver
<1> QED BY <1>2, <1>3

LEMMA ChannelStep ==
  ASSUME TypeOK, LoadedInv, MutexInv, OrderInv, [Next]_vars
  PROVE  [Channel!Next]_(Channel!vars)
<1>1. ASSUME UNCHANGED <<slave_queue, slave_loaded, produced, rxbuff, from_slave_queue,
                         rx_handle, delivered>>
      PROVE  Channel!Next
  <2>1. InTransit' = InTransit
    BY <1>1 DEF InTransit, Elements
  <2> QED BY <1>1, <2>1, ChannelCarries
<1>2. CASE UNCHANGED vars \/ Quiescent \/ AssertFails
  BY <1>1, <1>2 DEF vars, Quiescent, AssertFails
<1>3. ASSUME NEW t \in Senders, CallSend(t) \/ RefuseSend(t) \/ EnqueueTx(t)
      PROVE  Channel!Next
  BY <1>1, <1>3 DEF CallSend, RefuseSend, EnqueueTx
<1>4. ASSUME NEW t \in Threads, Check(t)
      PROVE  Channel!Next
  <2>1. CASE WaitReady(t) \/ ReadHandshake(t) \/ ReadDataReady(t) \/ GetTxBuffer(t)
             \/ TakeMutex(t) \/ GiveMutex(t)
    BY <1>1, <2>1 DEF WaitReady, ReadHandshake, ReadDataReady, GetTxBuffer, TakeMutex, GiveMutex
  <2> QED BY <1>4, <2>1, ChannelTransfer, ChannelPost DEF Check
<1> QED BY <1>2, <1>3, <1>4, ChannelSlave, ChannelProcess DEF Next, Step

(* From the slave to the handlers of the interfaces the driver is an       *)
(* ordered channel, and only a wire that fails loses a frame: no number of *)
(* threads running transfers, no full queue and no failing allocation      *)
(* makes the driver drop, repeat or reorder what it has clocked in.        *)
THEOREM DriverIsOrderedChannel == Spec => ImplementsChannel
<1>1. Init => MutexInv /\ OrderInv /\ LoadedInv
  BY DEF Init, MutexInv, OrderInv, LoadedInv, Rising, BeforeHeld, BeforeLoaded, Rest
<1>2. Init => Channel!Init
  <2> SUFFICES ASSUME Init PROVE Channel!Init
    OBVIOUS
  <2>1. Elements(<<>>) = {}
    BY DEF Elements
  <2>2. InTransit = {}
    BY <2>1 DEF Init, InTransit
  <2> QED BY <2>2, BoundsAssumption DEF Init, Channel!Init
<1>3. TypeOK /\ MutexInv /\ OrderInv /\ LoadedInv /\ [Next]_vars
        => MutexInv' /\ OrderInv' /\ LoadedInv'
  BY MutexStep, OrderStep, LoadedStep
<1>4. TypeOK /\ MutexInv /\ OrderInv /\ LoadedInv /\ [Next]_vars => [Channel!Next]_(Channel!vars)
  BY ChannelStep
<1> QED BY <1>1, <1>2, <1>3, <1>4, TypeCorrect, PTL DEF Spec, ImplementsChannel, Channel!Spec
-----------------------------------------------------------------------------
(* What an ordered channel is good for: its receiver can rely on it.       *)

ReliableInv ==
  /\ produced \in Nat /\ delivered \in Seq(Nat)
  /\ Channel!Reliable

LEMMA ReliableStep ==
  ASSUME ReliableInv, [Channel!Next]_(Channel!vars)
  PROVE  ReliableInv'
<1> DEFINE h == {f \in Frame : WireMayFail}  s == produced  t == InTransit  g == delivered
           Reliable(a, n, b, c) ==
             /\ n \in Nat /\ c \in Seq(Nat)
             /\ \A k \in 1..n : k \in a \/ k \in b \/ \E i \in DOMAIN c : c[i] = k
             /\ \A i, j \in DOMAIN c : i < j => c[i] < c[j]
             /\ b \subseteq 1..n
             /\ \A i \in DOMAIN c : c[i] <= n /\ \A m \in b : c[i] < m
<1>1. Reliable(h, s, t, g)
  BY DEF ReliableInv, Channel!Reliable, Channel!Complete, Channel!InOrder, Channel!StillToCome
<1>2. Reliable(h', s', t', g') => ReliableInv'
  BY DEF ReliableInv, Channel!Reliable, Channel!Complete, Channel!InOrder, Channel!StillToCome
<1>3. \/ h' = h /\ s' = s /\ t' = t /\ g' = g
      \/ /\ h \subseteq h'
         /\ \/ \E S \in {t, t \cup {s + 1}} :
                 /\ \/ S = t /\ s' = s
                    \/ S = t \cup {s + 1} /\ s' = s + 1
                 /\ g' = g /\ t' \subseteq S /\ S \ t' \subseteq h'
            \/ \E m \in t :
                 /\ \A n \in t : m <= n
                 /\ t' = t \ {m} /\ g' = Append(g, m) /\ s' = s
  BY DEF Channel!Next, Channel!vars, Channel!Send, Channel!Lose, Channel!Deliver, Channel!Carry
<1> HIDE DEF h, s, t, g
<1>4. CASE h' = h /\ s' = s /\ t' = t /\ g' = g
  BY <1>1, <1>2, <1>4
<1>5. ASSUME h \subseteq h', g' = g, NEW S \in {t, t \cup {s + 1}},
             (S = t /\ s' = s) \/ (S = t \cup {s + 1} /\ s' = s + 1), t' \subseteq S, S \ t' \subseteq h'
      PROVE  ReliableInv'
  <2>1. s' \in Nat /\ s <= s' /\ S \subseteq 1..s' /\ (1..s') \ (1..s) \subseteq S
    BY <1>1, <1>5
  <2>2. \A i \in DOMAIN g : g[i] \in Nat /\ g[i] <= s' /\ \A m \in t' : g[i] < m
    BY <1>1, <1>5, <2>1, ElementOfSeq
  <2>3. \A k \in 1..s' : k \in h' \/ k \in t' \/ \E i \in DOMAIN g : g[i] = k
    BY <1>1, <1>5, <2>1
  <2>4. /\ g' \in Seq(Nat) /\ t' \subseteq 1..s'
        /\ \A i, j \in DOMAIN g' : i < j => g'[i] < g'[j]
    BY <1>1, <1>5, <2>1
  <2>5. \A i \in DOMAIN g' : g'[i] <= s' /\ \A m \in t' : g'[i] < m
    BY <1>5, <2>2
  <2>6. \A k \in 1..s' : k \in h' \/ k \in t' \/ \E i \in DOMAIN g' : g'[i] = k
    BY <1>5, <2>3
  <2>7. s' \in Nat
    BY <2>1
  <2> QED BY <1>2, <2>4, <2>5, <2>6, <2>7
<1>6. ASSUME h \subseteq h', NEW m \in t, \A n \in t : m <= n,
             t' = t \ {m}, g' = Append(g, m), s' = s
      PROVE  ReliableInv'
  <2>1. /\ m \in 1..s /\ m \in Nat /\ Len(g) \in Nat /\ DOMAIN g = 1..Len(g)
        /\ \A i \in 1..Len(g) : g[i] \in Nat /\ g[i] < m
    BY <1>1, <1>6, LenProperties, ElementOfSeq
  <2>2. /\ g' \in Seq(Nat) /\ DOMAIN g' = 1..(Len(g) + 1)
        /\ \A i \in 1..Len(g) : g'[i] = g[i]
        /\ g'[Len(g) + 1] = m
    BY <1>1, <1>6, <2>1, AppendProperties, LenProperties
  <2>3. \A k \in 1..s : k \in h' \/ k \in t' \/ \E i \in DOMAIN g' : g'[i] = k
    <3> SUFFICES ASSUME NEW k \in 1..s, k \notin h', k \notin t'
                 PROVE  \E i \in DOMAIN g' : g'[i] = k
      OBVIOUS
    <3>1. CASE k = m
      BY <2>1, <2>2, <3>1
    <3>2. CASE k # m
      <4>1. k \notin h /\ k \notin t
        BY <1>6, <3>2
      <4>2. \E i \in DOMAIN g : g[i] = k
        BY <1>1, <4>1, Zenon
      <4>3. PICK i \in 1..Len(g) : g[i] = k
        BY <2>1, <4>2, Zenon
      <4>4. i \in DOMAIN g' /\ g'[i] = k
        BY <2>1, <2>2, <4>3
      <4> QED BY <4>4, Zenon
    <3> QED BY <3>1, <3>2
  <2>4. \A i, j \in DOMAIN g' : i < j => g'[i] < g'[j]
    <3> SUFFICES ASSUME NEW i \in 1..(Len(g) + 1), NEW j \in 1..(Len(g) + 1), i < j
                 PROVE  g'[i] < g'[j]
      BY <2>2
    <3>1. i \in 1..Len(g) /\ (j \in 1..Len(g) \/ j = Len(g) + 1)
      BY <2>1
    <3> QED BY <1>1, <2>1, <2>2, <3>1
  <2>5. \A i \in DOMAIN g' : g'[i] <= s /\ \A n \in t' : g'[i] < n
    <3> SUFFICES ASSUME NEW i \in 1..(Len(g) + 1)
                 PROVE  g'[i] <= s /\ \A n \in t' : g'[i] < n
      BY <2>2
    <3>1. CASE i = Len(g) + 1
      BY <1>1, <1>6, <2>1, <2>2, <3>1
    <3>2. CASE i # Len(g) + 1
      <4>1. i \in 1..Len(g)
        BY <2>1, <3>2
      <4> QED BY <1>1, <1>6, <2>1, <2>2, <4>1
    <3> QED BY <3>1, <3>2
  <2>6. t' \subseteq 1..s
    BY <1>1, <1>6
  <2> QED BY <1>1, <1>2, <1>6, <2>2, <2>3, <2>4, <2>5, <2>6
<1>7. CASE /\ h \subseteq h'
           /\ \E S \in {t, t \cup {s + 1}} :
                 /\ \/ S = t /\ s' = s
                    \/ S = t \cup {s + 1} /\ s' = s + 1
                 /\ g' = g /\ t' \subseteq S /\ S \ t' \subseteq h'
  BY <1>5, <1>7
<1>8. CASE /\ h \subseteq h'
           /\ \E m \in t :
                 /\ \A n \in t : m <= n
                 /\ t' = t \ {m} /\ g' = Append(g, m) /\ s' = s
  BY <1>6, <1>8
<1> QED BY <1>3, <1>4, <1>7, <1>8

(* Every frame the slave has produced is handled or on its way, unless a   *)
(* wire that fails may have lost it; and frames are handled once and in    *)
(* the order in which they were produced, with none left behind.           *)
THEOREM DriverIsReliable == Spec => []Channel!Reliable
<1>1. Channel!Init => ReliableInv
  <2> SUFFICES ASSUME Channel!Init PROVE ReliableInv
    OBVIOUS
  <2>1. produced = 0 /\ InTransit = {} /\ delivered = <<>>
    BY DEF Channel!Init
  <2> DEFINE s == produced  g == delivered
  <2>2. s = 0 /\ g = <<>> /\ InTransit = {}
    BY <2>1
  <2> HIDE DEF s, g
  <2>3. /\ s \in Nat /\ g \in Seq(Nat)
        /\ \A k \in 1..s : FALSE
        /\ \A i \in DOMAIN g : FALSE
        /\ InTransit \subseteq 1..s
    BY <2>2
  <2> QED
    BY <2>3 DEF s, g, ReliableInv, Channel!Reliable, Channel!Complete, Channel!InOrder,
                Channel!StillToCome
<1>2. ReliableInv /\ [Channel!Next]_(Channel!vars) => ReliableInv'
  BY ReliableStep
<1>3. ReliableInv => Channel!Reliable
  BY DEF ReliableInv
<1> QED BY <1>1, <1>2, <1>3, DriverIsOrderedChannel, PTL DEF ImplementsChannel, Channel!Spec
=============================================================================
