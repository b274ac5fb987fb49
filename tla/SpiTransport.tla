---------------------------- MODULE SpiTransport ----------------------------
(***************************************************************************)
(* The SPI transport driver of the host (driver/transport/spi/spi_drv.c).  *)
(*                                                                         *)
(* Every thread that calls send_to_slave, and the driver's own             *)
(* transaction_task, runs check_and_execute_spi_transaction: it samples    *)
(* the two lines of the slave, dequeues a transmit buffer, takes the SPI   *)
(* mutex and runs one full-duplex transfer.  The interrupt handler of the  *)
(* two lines releases a binary semaphore on each rising edge.  The frames  *)
(* received go through from_slave_queue to process_rx_task.                *)
(*                                                                         *)
(* The slave (the ESP chip) is outside the repository: it is modelled by   *)
(* the protocol the driver relies on.  It arms one transfer at a time,     *)
(* raising the handshake line, and keeps the data-ready line high while it *)
(* has something to send.                                                  *)
(*                                                                         *)
(* Packets and frames are numbers in the order in which they are produced; *)
(* NULL stands for a null pointer or an all-zero (dummy) buffer.           *)
(*                                                                         *)
(* The model ends (stopped) where the firmware does: when an assertion on  *)
(* an allocation fails, and when a buffer is freed twice, after which the  *)
(* behaviour of the heap is undefined.                                     *)
(***************************************************************************)
EXTENDS Integers, Sequences, FiniteSets

CONSTANTS
  Senders,             (* threads that call send_to_slave                  *)
  SerialSenders,       (* those that call it for the serial interface      *)
  TransactionTask,     (* the driver's transaction_task                    *)
  TO_SLAVE_QUEUE_SIZE,
  FROM_SLAVE_QUEUE_SIZE,
  MaxTx,               (* bound: packets handed to send_to_slave           *)
  MaxRx,               (* bound: frames the slave produces                 *)
  MallocMayFail,       (* may malloc fail?                                 *)
  WireMayFail          (* may a transfer be corrupted or end in HAL_ERROR? *)

ASSUME ThreadsAssumption ==
  /\ TransactionTask \notin Senders
  /\ SerialSenders \subseteq Senders
  /\ IsFiniteSet(Senders)
ASSUME BoundsAssumption ==
  /\ TO_SLAVE_QUEUE_SIZE \in Nat \ {0}
  /\ FROM_SLAVE_QUEUE_SIZE \in Nat \ {0}
  /\ MaxTx \in Nat
  /\ MaxRx \in Nat
ASSUME FaultsAssumption == MallocMayFail \in BOOLEAN /\ WireMayFail \in BOOLEAN

Threads == Senders \cup {TransactionTask}
NULL    == 0
Packet  == 1..MaxTx
Frame   == 1..MaxRx
NoOwner == "none"

VARIABLES
  pc,               (* where each thread is                                *)
  txbuff,           (* the transmit buffer a thread holds                  *)
  rxbuff,           (* the frame a thread received in its transfer         *)
  data_ready_seen,  (* gpio_rx_data_ready, as a thread sampled it          *)
  osSemaphore,      (* the binary semaphore of the interrupt handler       *)
  mutex_spi_trans,  (* the set of threads holding the SPI mutex            *)
  to_slave_queue,
  from_slave_queue,
  rx_handle,        (* the frame process_rx_task is processing             *)
  transport_active, (* the TRANSPORT_ACTIVE event has been delivered       *)
  teste,            (* transaction_task has completed a check              *)
  heap,             (* number of live buffers of the driver                *)
  leaked,           (* history: those that nobody holds any more           *)
  accepted,         (* packets taken from callers so far                   *)
  handshake, data_ready, slave_queue, slave_loaded, produced,
  delivered,        (* history: frames process_rx_task handled, in order   *)
  dropped,          (* history: get_tx_buffer has dropped a packet         *)
  stopped           (* the firmware has stopped                            *)

threadVars == <<pc, txbuff, rxbuff, data_ready_seen>>
slaveVars  == <<handshake, data_ready, slave_queue, slave_loaded, produced>>
vars == <<threadVars, osSemaphore, mutex_spi_trans, to_slave_queue,
          from_slave_queue, rx_handle, transport_active, teste, heap,
          leaked, accepted, slaveVars, delivered, dropped, stopped>>

Rest(t) == IF t = TransactionTask THEN "wait" ELSE "idle"

Init ==
  /\ pc = [t \in Threads |-> Rest(t)]
  /\ txbuff = [t \in Threads |-> NULL]
  /\ rxbuff = [t \in Threads |-> NULL]
  /\ data_ready_seen = [t \in Threads |-> FALSE]
  /\ osSemaphore = 1          \* vSemaphoreCreateBinary: created available
  /\ mutex_spi_trans = {}
  /\ to_slave_queue = <<>>
  /\ from_slave_queue = <<>>
  /\ rx_handle = NULL
  /\ transport_active = FALSE
  /\ teste = FALSE
  /\ heap = 0
  /\ leaked = 0
  /\ accepted = 0
  /\ handshake \in BOOLEAN   \* the slave may have armed before this side starts
  /\ data_ready = FALSE
  /\ slave_queue = <<>>
  /\ slave_loaded = NULL
  /\ produced = 0
  /\ delivered = <<>>
  /\ dropped = FALSE
  /\ stopped = FALSE

Goto(t, label) == pc' = [pc EXCEPT ![t] = label]

(* The thread leaves check_and_execute_spi_transaction. *)
Return(t) == /\ Goto(t, Rest(t))
             /\ teste' = (teste \/ t = TransactionTask)

-----------------------------------------------------------------------------
(* The two lines of the slave.  A rising edge of either runs the interrupt *)
(* handler, which releases the semaphore; releasing a semaphore that is    *)
(* already available fails and the handler ignores that.                   *)

(* Variants: an edge of one line is ignored; releases are counted. *)
IgnoreHandshakeEdge(pin, rising) ==
  osSemaphore' = IF rising /\ pin # "HANDSHAKE" THEN 1 ELSE osSemaphore
IgnoreDataReadyEdge(pin, rising) ==
  osSemaphore' = IF rising /\ pin # "DATA_READY" THEN 1 ELSE osSemaphore
CountEdges(pin, rising) ==
  osSemaphore' = IF rising THEN osSemaphore + 1 ELSE osSemaphore

HAL_GPIO_EXTI_Callback(pin, rising) ==
  osSemaphore' = IF rising /\ pin \in {"DATA_READY", "HANDSHAKE"}
                   THEN 1 ELSE osSemaphore

SlaveProduce ==
  /\ produced < MaxRx
  /\ produced' = produced + 1
  /\ slave_queue' = Append(slave_queue, produced + 1)
  /\ data_ready' = TRUE
  /\ HAL_GPIO_EXTI_Callback("DATA_READY", ~data_ready)
  /\ UNCHANGED <<threadVars, mutex_spi_trans, to_slave_queue, from_slave_queue,
                 rx_handle, transport_active, teste, heap, accepted,
                 handshake, slave_loaded, delivered, dropped,
                 leaked, stopped>>

(* The slave prepares the next transfer with the frame it has to send, or  *)
(* a dummy one (the data-ready line drops), and raises the handshake line. *)
SlaveArm ==
  /\ ~handshake
  /\ handshake' = TRUE
  /\ HAL_GPIO_EXTI_Callback("HANDSHAKE", TRUE)
  /\ IF slave_queue = <<>>
       THEN /\ slave_loaded' = NULL
            /\ data_ready' = FALSE
            /\ UNCHANGED slave_queue
       ELSE /\ slave_loaded' = Head(slave_queue)
            /\ slave_queue' = Tail(slave_queue)
            /\ UNCHANGED data_ready
  /\ UNCHANGED <<threadVars, mutex_spi_trans, to_slave_queue, from_slave_queue,
                 rx_handle, transport_active, teste, heap, accepted,
                 produced, delivered, dropped,
                 leaked, stopped>>

-----------------------------------------------------------------------------
(* send_to_slave *)

(* A caller arrives with a buffer it allocated. *)
CallSend(t) ==
  /\ t \in Senders /\ pc[t] = "idle"
  /\ accepted < MaxTx
  /\ accepted' = accepted + 1
  /\ heap' = heap + 1
  /\ txbuff' = [txbuff EXCEPT ![t] = accepted + 1]
  /\ Goto(t, "send")
  /\ UNCHANGED <<rxbuff, data_ready_seen, osSemaphore, mutex_spi_trans,
                 to_slave_queue, from_slave_queue, rx_handle, transport_active,
                 teste, slaveVars, delivered, dropped,
                 leaked, stopped>>

(* A length of zero or above MAX_PAYLOAD_SIZE: the buffer is freed.  The   *)
(* serial interface's sender frees it again when send_to_slave fails; the  *)
(* network's does not.                                                     *)
RefuseSend(t) ==
  /\ pc[t] = "send"
  /\ heap' = heap - (IF t \in SerialSenders THEN 2 ELSE 1)
  /\ stopped' = (t \in SerialSenders)
  /\ txbuff' = [txbuff EXCEPT ![t] = NULL]
  /\ Goto(t, "idle")
  /\ UNCHANGED <<rxbuff, data_ready_seen, osSemaphore, mutex_spi_trans,
                 to_slave_queue, from_slave_queue, rx_handle, transport_active,
                 teste, accepted, slaveVars, delivered, dropped, leaked>>

(* xQueueSend with portMAX_DELAY: blocks while the queue is full. *)
EnqueueTx(t) ==
  /\ pc[t] = "send"
  /\ Len(to_slave_queue) < TO_SLAVE_QUEUE_SIZE
  /\ to_slave_queue' = Append(to_slave_queue, txbuff[t])
  /\ txbuff' = [txbuff EXCEPT ![t] = NULL]
  /\ Goto(t, "gpio")
  /\ UNCHANGED <<rxbuff, data_ready_seen, osSemaphore, mutex_spi_trans,
                 from_slave_queue, rx_handle, transport_active, teste, heap,
                 accepted, slaveVars, delivered, dropped,
                 leaked, stopped>>

-----------------------------------------------------------------------------
(* check_and_execute_spi_transaction *)

(* transaction_task: osSemaphoreWait, then the check. *)
WaitReady(t) ==
  /\ pc[t] = "wait"
  /\ osSemaphore = 1
  /\ osSemaphore' = 0
  /\ Goto(t, "gpio")
  /\ UNCHANGED <<txbuff, rxbuff, data_ready_seen, mutex_spi_trans,
                 to_slave_queue, from_slave_queue, rx_handle, transport_active,
                 teste, heap, accepted, slaveVars, delivered, dropped,
                 leaked, stopped>>

ReadHandshake(t) ==
  /\ pc[t] = "gpio"
  /\ IF handshake
       THEN Goto(t, "ready") /\ UNCHANGED teste
       ELSE \* the code samples data-ready too, and returns
            Return(t)
  /\ UNCHANGED <<txbuff, rxbuff, data_ready_seen, osSemaphore, mutex_spi_trans,
                 to_slave_queue, from_slave_queue, rx_handle, transport_active,
                 heap, accepted, slaveVars, delivered, dropped,
                 leaked, stopped>>

ReadDataReady(t) ==
  /\ pc[t] = "ready"
  /\ data_ready_seen' = [data_ready_seen EXCEPT ![t] = data_ready]
  /\ Goto(t, "dequeue")
  /\ UNCHANGED <<txbuff, rxbuff, osSemaphore, mutex_spi_trans, to_slave_queue,
                 from_slave_queue, rx_handle, transport_active, teste, heap,
                 accepted, slaveVars, delivered, dropped,
                 leaked, stopped>>

(* Variant: a transfer is run only when there is a packet to send. *)
TransactForTxOnly(t, valid) ==
  IF valid THEN Goto(t, "lock") /\ UNCHANGED teste ELSE Return(t)

(* What the check does with the buffer get_tx_buffer returned. *)
TransactIfNeeded(t, valid) ==
  IF data_ready_seen[t] \/ valid
    THEN Goto(t, "lock") /\ UNCHANGED teste
    ELSE Return(t)

(* get_tx_buffer: a packet is copied into a new buffer and its own buffer  *)
(* is freed; when that allocation fails the packet is gone.                *)
GetTxBuffer(t) ==
  /\ pc[t] = "dequeue"
  /\ \/ /\ to_slave_queue = <<>>
        /\ TransactIfNeeded(t, FALSE)
        /\ UNCHANGED <<to_slave_queue, txbuff, heap, dropped>>
     \/ /\ to_slave_queue # <<>>
        /\ to_slave_queue' = Tail(to_slave_queue)
        /\ txbuff' = [txbuff EXCEPT ![t] = Head(to_slave_queue)]
        /\ TransactIfNeeded(t, TRUE)
        /\ UNCHANGED <<heap, dropped>>     \* one buffer allocated, one freed
     \/ /\ MallocMayFail
        /\ to_slave_queue # <<>>
        /\ to_slave_queue' = Tail(to_slave_queue)
        /\ heap' = heap - 1
        /\ dropped' = TRUE
        /\ TransactIfNeeded(t, FALSE)
        /\ UNCHANGED txbuff
  /\ UNCHANGED <<rxbuff, data_ready_seen, osSemaphore, mutex_spi_trans,
                 from_slave_queue, rx_handle, transport_active, accepted,
                 slaveVars, delivered, leaked, stopped>>

-----------------------------------------------------------------------------
(* spi_transaction_v2, run with the mutex held *)

(* Variant: the mutex is not waited for. *)
TakeMutexAtOnce(t) ==
  /\ pc[t] = "lock"
  /\ mutex_spi_trans' = mutex_spi_trans \cup {t}
  /\ heap' = heap + (IF txbuff[t] = NULL THEN 2 ELSE 1)
  /\ Goto(t, "xfer")
  /\ UNCHANGED <<txbuff, rxbuff, data_ready_seen, osSemaphore, to_slave_queue,
                 from_slave_queue, rx_handle, transport_active, teste, accepted,
                 slaveVars, delivered, dropped,
                 leaked, stopped>>

(* The mutex is taken; the receive buffer, and a dummy transmit buffer     *)
(* when there is none to send, are allocated.                              *)
TakeMutex(t) ==
  /\ pc[t] = "lock"
  /\ mutex_spi_trans = {}
  /\ mutex_spi_trans' = {t}
  /\ heap' = heap + (IF txbuff[t] = NULL THEN 2 ELSE 1)
  /\ Goto(t, "xfer")
  /\ UNCHANGED <<txbuff, rxbuff, data_ready_seen, osSemaphore, to_slave_queue,
                 from_slave_queue, rx_handle, transport_active, teste, accepted,
                 slaveVars, delivered, dropped,
                 leaked, stopped>>

(* What the driver makes of the buffer clocked in: the frame or, after a   *)
(* HAL error or with a bad length, offset or checksum, nothing.            *)
Clocked(buffer) == IF WireMayFail THEN {buffer, NULL} ELSE {buffer}

(* Variant: a frame is kept only if the data-ready line was seen high.     *)
TransferIfSeen(t) ==
  /\ pc[t] = "xfer"
  /\ Goto(t, "post")
  /\ rxbuff' = [rxbuff EXCEPT ![t] = IF data_ready_seen[t] THEN slave_loaded ELSE NULL]
  /\ handshake' = FALSE
  /\ slave_loaded' = NULL
  /\ UNCHANGED <<txbuff, data_ready_seen, osSemaphore, mutex_spi_trans,
                 to_slave_queue, from_slave_queue, rx_handle, transport_active,
                 teste, heap, accepted, data_ready, slave_queue, produced,
                 delivered, dropped,
                 leaked, stopped>>

(* The slave takes part only when it has armed the transfer; otherwise     *)
(* what the host clocks out is lost and what it clocks in has length zero. *)
Transfer(t) ==
  /\ pc[t] = "xfer"
  /\ Goto(t, "post")
  /\ IF handshake
       THEN /\ handshake' = FALSE
            /\ slave_loaded' = NULL
            /\ \E frame \in Clocked(slave_loaded) :
                 rxbuff' = [rxbuff EXCEPT ![t] = frame]
       ELSE /\ rxbuff' = [rxbuff EXCEPT ![t] = NULL]
            /\ UNCHANGED <<handshake, slave_loaded>>
  /\ UNCHANGED <<txbuff, data_ready_seen, osSemaphore, mutex_spi_trans,
                 to_slave_queue, from_slave_queue, rx_handle, transport_active,
                 teste, heap, accepted, data_ready, slave_queue, produced,
                 delivered, dropped,
                 leaked, stopped>>

(* What PostRx frees: the transmit buffer and, unless it is handed over, *)
(* the receive buffer.  Variant: a rejected frame is forgotten.           *)
ForgetRejected(t) == 1
FreedAfter(t) == IF rxbuff[t] = NULL THEN 2 ELSE 1

(* A good frame is queued for process_rx_task, waiting for room with the   *)
(* mutex held; anything else is freed.  The transmit buffer is freed.      *)
PostRx(t) ==
  /\ pc[t] = "post"
  /\ \/ /\ rxbuff[t] = NULL
        /\ UNCHANGED from_slave_queue
     \/ /\ rxbuff[t] # NULL
        /\ Len(from_slave_queue) < FROM_SLAVE_QUEUE_SIZE
        /\ from_slave_queue' = Append(from_slave_queue, rxbuff[t])
  /\ heap' = heap - FreedAfter(t)
  /\ txbuff' = [txbuff EXCEPT ![t] = NULL]
  /\ rxbuff' = [rxbuff EXCEPT ![t] = NULL]
  /\ Goto(t, "unlock")
  /\ UNCHANGED <<data_ready_seen, osSemaphore, mutex_spi_trans, to_slave_queue,
                 rx_handle, transport_active, teste, accepted, slaveVars, delivered, dropped,
                 leaked, stopped>>

GiveMutex(t) ==
  /\ pc[t] = "unlock"
  /\ mutex_spi_trans' = {}
  /\ Return(t)
  /\ UNCHANGED <<txbuff, rxbuff, data_ready_seen, osSemaphore, to_slave_queue,
                 from_slave_queue, rx_handle, transport_active, heap, accepted,
                 slaveVars, delivered, dropped,
                 leaked, stopped>>

-----------------------------------------------------------------------------
(* process_rx_task *)

ReceiveFrame ==
  /\ rx_handle = NULL
  /\ from_slave_queue # <<>>
  /\ rx_handle' = Head(from_slave_queue)
  /\ from_slave_queue' = Tail(from_slave_queue)
  /\ UNCHANGED <<threadVars, osSemaphore, mutex_spi_trans, to_slave_queue,
                 transport_active, teste, heap, accepted, slaveVars,
                 delivered, dropped,
                 leaked, stopped>>

(* The frame goes to the handler of its interface type and is freed.  The  *)
(* serial and the network interface get a copy that is theirs to free      *)
(* (modules SerialLink and NetDev); frames of the test interface, of an    *)
(* unknown one and of a network interface without netdev go nowhere.       *)
(* process_priv_communication frees the container of its copy and leaves   *)
(* the payload to nobody; an INIT event reports that the transport is      *)
(* active.                                                                 *)
ProcessFrame ==
  /\ rx_handle # NULL
  /\ delivered' = Append(delivered, rx_handle)
  /\ rx_handle' = NULL
  /\ \/ /\ heap' = heap - 1
        /\ UNCHANGED <<leaked, transport_active>>
     \/ /\ heap' = heap      \* the frame is freed, the copy's payload is not
        /\ leaked' = leaked + 1
        /\ \E init_event \in BOOLEAN :
             transport_active' = (transport_active \/ init_event)
  /\ UNCHANGED <<threadVars, osSemaphore, mutex_spi_trans, to_slave_queue,
                 from_slave_queue, teste, accepted, slaveVars, dropped, stopped>>

(* An asserted allocation fails: the receive buffer or the dummy transmit  *)
(* buffer of a transfer, or the copy of a network or a private frame.      *)
AssertFails ==
  /\ MallocMayFail
  /\ \/ mutex_spi_trans = {} /\ \E t \in Threads : pc[t] = "lock"
     \/ rx_handle # NULL
  /\ stopped' = TRUE
  /\ UNCHANGED <<threadVars, osSemaphore, mutex_spi_trans, to_slave_queue,
                 from_slave_queue, rx_handle, transport_active, teste, heap,
                 leaked, accepted, slaveVars, delivered, dropped>>

-----------------------------------------------------------------------------
Check(t) == \/ WaitReady(t) \/ ReadHandshake(t) \/ ReadDataReady(t)
            \/ GetTxBuffer(t) \/ TakeMutex(t) \/ Transfer(t) \/ PostRx(t)
            \/ GiveMutex(t)

(* Every bounded source is used up and nothing is left to do, or the       *)
(* firmware has stopped.                                                   *)
Quiescent ==
  /\ \/ stopped
     \/ /\ accepted = MaxTx /\ produced = MaxRx
        /\ \A t \in Threads : pc[t] = Rest(t)
        /\ osSemaphore = 0 /\ handshake /\ (to_slave_queue = <<>> \/ dropped)
        /\ from_slave_queue = <<>> /\ rx_handle = NULL
  /\ UNCHANGED vars

Step ==
  \/ SlaveProduce
  \/ SlaveArm
  \/ \E t \in Senders : CallSend(t)
  \/ \E t \in Senders : RefuseSend(t)
  \/ \E t \in Senders : EnqueueTx(t)
  \/ \E t \in Threads : Check(t)
  \/ ReceiveFrame
  \/ ProcessFrame
  \/ AssertFails

Next == (~stopped /\ Step) \/ Quiescent

Spec == Init /\ [][Next]_vars

(* The scheduler runs every ready task in the end, FreeRTOS wakes the      *)
(* waiters of a queue or a mutex in turn, and the slave re-arms after each *)
(* transfer.  Nobody has to call send_to_slave or to produce frames.       *)
Fairness ==
  /\ WF_vars(~stopped /\ SlaveArm)
  /\ \A t \in Senders : WF_vars(~stopped /\ EnqueueTx(t))
  /\ \A t \in Threads : WF_vars(~stopped /\ Check(t))
  /\ WF_vars(~stopped /\ ReceiveFrame)
  /\ WF_vars(~stopped /\ ProcessFrame)

FairSpec == Spec /\ Fairness

-----------------------------------------------------------------------------
(* Properties *)

Labels == {"wait", "idle", "send", "gpio", "ready", "dequeue", "lock", "xfer",
           "post", "unlock"}

(* Type invariant.  The semaphore of the interrupt handler is binary and   *)
(* the two queues never exceed the size they are created with.             *)
TypeOK ==
  /\ pc \in [Threads -> Labels]
  /\ txbuff \in [Threads -> Packet \cup {NULL}]
  /\ rxbuff \in [Threads -> Frame \cup {NULL}]
  /\ data_ready_seen \in [Threads -> BOOLEAN]
  /\ osSemaphore \in {0, 1}
  /\ mutex_spi_trans \in SUBSET Threads
  /\ to_slave_queue \in Seq(Packet) /\ Len(to_slave_queue) <= TO_SLAVE_QUEUE_SIZE
  /\ from_slave_queue \in Seq(Frame) /\ Len(from_slave_queue) <= FROM_SLAVE_QUEUE_SIZE
  /\ rx_handle \in Frame \cup {NULL}
  /\ transport_active \in BOOLEAN /\ teste \in BOOLEAN
  /\ heap \in Int
  /\ accepted \in 0..MaxTx
  /\ handshake \in BOOLEAN /\ data_ready \in BOOLEAN
  /\ slave_queue \in Seq(Frame)
  /\ slave_loaded \in Frame \cup {NULL}
  /\ produced \in 0..MaxRx
  /\ delivered \in Seq(Frame)
  /\ leaked \in Nat
  /\ dropped \in BOOLEAN /\ stopped \in BOOLEAN

(* Threads that will sample the lines anew, and threads that are bound to  *)
(* run a transfer, after which the slave re-arms and raises an edge.       *)
WillSample == {t \in Threads : pc[t] \in {"gpio", "ready"}}
WillTransfer == {t \in Threads : pc[t] \in {"lock", "xfer"}}

(* No lost wakeup for transmission: while a packet is queued and the slave *)
(* is ready, a wakeup is pending or some thread is on its way to dequeue   *)
(* or to transfer.  The binary semaphore merges edges and a caller that    *)
(* finds the handshake low walks away, so this rests on the order of the   *)
(* enqueue, the sampling and the edges.  It ends with the first packet     *)
(* that get_tx_buffer drops for lack of memory: no transfer follows it,    *)
(* and so no edge, and the packets behind it wait for the next caller.     *)
TxNoLostWakeup ==
  (handshake /\ to_slave_queue # <<>> /\ ~dropped) =>
    \/ osSemaphore = 1
    \/ \E t \in Threads : t \in WillSample \cup WillTransfer \/ pc[t] = "dequeue"

(* No lost wakeup for reception: while the slave is ready and has raised   *)
(* data-ready, a wakeup is pending or some thread will see the line, has   *)
(* seen it, or is bound to run a transfer anyway.                          *)
RxNoLostWakeup ==
  (handshake /\ data_ready) =>
    \/ osSemaphore = 1
    \/ \E t \in Threads : \/ t \in WillSample \cup WillTransfer
                          \/ pc[t] = "dequeue" /\ data_ready_seen[t]

(* Every live buffer has exactly one owner, whatever fails on the way: a   *)
(* caller about to enqueue, one of the two queues, a thread holding a      *)
(* transmit buffer, the transfer in progress (one buffer each way), or     *)
(* process_rx_task; only the payload of a private event is leaked.  It     *)
(* says nothing of what follows the two frees of a refused serial send.    *)
BuffersAccounted ==
  ~stopped =>
    heap = leaked
           + Cardinality({t \in Threads : pc[t] = "send"})
           + Len(to_slave_queue)
           + Cardinality({t \in Threads : pc[t] = "lock" /\ txbuff[t] # NULL})
           + 2 * Cardinality({t \in Threads : pc[t] \in {"xfer", "post"}})
           + Len(from_slave_queue)
           + (IF rx_handle = NULL THEN 0 ELSE 1)

Increasing(s) == \A i, j \in DOMAIN s : i < j => s[i] < s[j]

(* Frames are handled in the order in which the slave sent them, none      *)
(* twice: several threads run transfers, and only queueing the frame       *)
(* before the mutex is given keeps them in order.                          *)
RxInOrder == Increasing(delivered)

(* A transfer is run only when the slave has armed one. *)
TransferOnlyWhenReady ==
  [][\A t \in Threads : pc[t] = "xfer" /\ pc'[t] = "post" => handshake]_vars

(* Every queued packet leaves the transmit queue, unless the firmware      *)
(* stops.                                                                  *)
TxDrains == \A p \in Packet :
  (\E i \in DOMAIN to_slave_queue : to_slave_queue[i] = p)
    ~> (stopped \/ ~\E i \in DOMAIN to_slave_queue : to_slave_queue[i] = p)

(* Every frame the slave has to send is fetched and handled, unless the    *)
(* firmware stops or the wire corrupts it: checked with a faultless wire.  *)
SlaveDataDelivered == \A f \in Frame :
  (produced >= f) ~> (stopped \/ \E i \in DOMAIN delivered : delivered[i] = f)

Elements(q) == {q[i] : i \in DOMAIN q}

(* The frames between the slave and the handler of their interface: in the *)
(* slave's queue, in the transfer it has armed, with the thread that has   *)
(* clocked them in, in the receive queue, and with process_rx_task.        *)
InTransit ==
  (Elements(slave_queue) \cup {slave_loaded} \cup {rxbuff[t] : t \in Threads}
     \cup Elements(from_slave_queue) \cup {rx_handle}) \ {NULL}

(* From the slave to the handlers the driver is an ordered channel, and    *)
(* only a wire that fails loses a frame: the driver itself drops none,     *)
(* however many threads run transfers and whenever memory runs out.        *)
Channel == INSTANCE OrderedChannel WITH
  harmed <- {f \in Frame : WireMayFail},
  sent <- produced, transit <- InTransit, got <- delivered

ImplementsChannel == Channel!Spec
=============================================================================
