------------------------------- MODULE NetDev -------------------------------
(***************************************************************************)
(* The network devices of the access point and of the station              *)
(* (driver/network/netdev_stub.c, netdev_api.c), between two threads:      *)
(* process_rx_task, which hands them the slave's frames, and the default   *)
(* task, which opens them and adds them to lwIP (Core/lwip/lwip_startup.c).*)
(* The receive callbacks of lwip_startup.c are run by process_rx_task.     *)
(*                                                                         *)
(* process_rx_task has the higher priority: the default task runs only     *)
(* when it waits.  Frames are numbered as they come.  A step the code      *)
(* takes through a null pointer, or on data nobody wrote, is undefined     *)
(* behaviour, and the behaviour of the model ends there.                   *)
(***************************************************************************)
EXTENDS Integers, Sequences, FiniteSets, SequencesExt

CONSTANTS
  RX_QUEUE_SIZE,
  MaxFrames,        (* bound: frames from the slave                        *)
  MaxMissed,        (* bound: allocations that fail in network_read        *)
  PoolMayBeEmpty    (* may lwIP have no buffer or no message left?         *)

ASSUME QueueAssumption == RX_QUEUE_SIZE \in Nat \ {0}
ASSUME BoundsAssumption == MaxFrames \in Nat /\ MaxMissed \in Nat
ASSUME PoolAssumption == PoolMayBeEmpty \in BOOLEAN

Interface == {"ap", "station"}
Frame == 1..MaxFrames

VARIABLES
  state,        (* of each device: UP or DOWN                              *)
  rx_q,         (* its receive queue, once it has been opened              *)
  net_handle,   (* is its network handle set?                              *)
  netif,        (* lwIP's interface: none, added (no flags yet), up        *)
  opener,       (* where the default task is                               *)
  opening,      (* the interface it opens                                  *)
  rx,           (* where process_rx_task is                                *)
  dev,          (* the device of the frame it handles                      *)
  buf,          (* the frame whose payload it holds, or 0                  *)
  count,        (* frames that have come                                   *)
  missed,       (* of each device: allocations that failed                 *)
  frees,        (* history: how often the payload of a frame was freed     *)
  lost,         (* history: frames that a reset of their queue dropped     *)
  delivered,    (* history: of each interface, the frames given to lwIP    *)
  undefined     (* what undefined behaviour has been met                   *)

devices == <<state, rx_q, net_handle>>
start   == <<netif, opener, opening>>
handler == <<rx, dev, buf>>
history == <<frees, lost, delivered>>
vars == <<devices, start, handler, count, missed, history, undefined>>

(* init_netdev: both devices are allocated, zeroed and registered. *)
Init ==
  /\ state = [i \in Interface |-> "DOWN"]
  /\ rx_q = [i \in Interface |-> <<>>]
  /\ net_handle = [i \in Interface |-> FALSE]
  /\ netif = [i \in Interface |-> "none"]
  /\ opener = "idle" /\ opening = "ap"
  /\ rx = "idle" /\ dev = "ap" /\ buf = 0
  /\ count = 0
  /\ missed = [i \in Interface |-> 0]
  /\ frees = [f \in Frame |-> 0]
  /\ lost = {}
  /\ delivered = [i \in Interface |-> <<>>]
  /\ undefined = "no"

-----------------------------------------------------------------------------
(* The default task *)

(* Variant: both threads have the same priority. *)
AnyTime == TRUE

(* Variant: the queue takes one frame more. *)
RoomForOneMore(i) == Len(rx_q[i]) <= RX_QUEUE_SIZE

HasRoom(i) == Len(rx_q[i]) < RX_QUEUE_SIZE

(* process_rx_task waits for a frame, in osDelay, or for room in a queue. *)
OpenerRuns == rx \in {"idle", "delay"} \/ (rx = "send" /\ ~HasRoom(dev))

OpenerAt(pc) == undefined = "no" /\ OpenerRuns /\ opener = pc

(* Variant: opening a device takes its old handle away first. *)
netdev_reopen(i) ==
  /\ rx_q' = [rx_q EXCEPT ![i] = <<>>]
  /\ state' = [state EXCEPT ![i] = "UP"]
  /\ lost' = lost \cup ToSet(rx_q[i])
  /\ net_handle' = [net_handle EXCEPT ![i] = FALSE]

(* netdev_open: a queue that exists is emptied, and the frames in it are   *)
(* not freed; otherwise it is created, and the device is up.               *)
netdev_open(i) ==
  /\ rx_q' = [rx_q EXCEPT ![i] = <<>>]
  /\ state' = [state EXCEPT ![i] = "UP"]
  /\ lost' = lost \cup ToSet(rx_q[i])
  /\ UNCHANGED net_handle

(* lwip_startup_ap is called once and first, lwip_startup_station for each *)
(* configuration.                                                          *)
Starts(i) ==
  /\ OpenerAt("idle")
  /\ (i = "ap") <=> (netif["ap"] = "none")

(* There is no memory for the handle, and it is filled in all the same.    *)
WriteNullHandle(i) ==
  /\ Starts(i)
  /\ undefined' = "null new handle"
  /\ UNCHANGED <<devices, start, handler, count, missed, history>>

(* There is no memory for the queue, which the first opening creates.  The *)
(* device keeps the handle it has, none, and the assertion on what         *)
(* network_open returns stops the default task.                            *)
FailOpen(i) ==
  /\ Starts(i)
  /\ state[i] = "DOWN"
  /\ opener' = "halted" /\ opening' = i
  /\ UNCHANGED <<devices, netif, handler, count, missed, history, undefined>>

(* network_open, up to the device being open.                              *)
OpenDevice(i) ==
  /\ Starts(i)
  /\ netdev_open(i)
  /\ opener' = "publish"
  /\ opening' = i
  /\ UNCHANGED <<netif, handler, count, missed, frees, delivered, undefined>>

(* The device gets its handle, and network_open returns. *)
Publish ==
  /\ OpenerAt("publish")
  /\ net_handle' = [net_handle EXCEPT ![opening] = TRUE]
  /\ opener' = "add"
  /\ UNCHANGED <<state, rx_q, netif, opening, handler, count, missed, history, undefined>>

(* netif_add sets the interface's input function and clears its flags.  It *)
(* does not return for an interface that lwIP has already.                 *)
AddInterface ==
  /\ OpenerAt("add")
  /\ netif' = [netif EXCEPT ![opening] = "added"]
  /\ opener' = IF netif[opening] = "none" THEN "configure" ELSE "stuck"
  /\ UNCHANGED <<devices, opening, handler, count, missed, history, undefined>>

(* The flags are set, and the interface is up. *)
Configure ==
  /\ OpenerAt("configure")
  /\ netif' = [netif EXCEPT ![opening] = "up"]
  /\ opener' = "idle"
  /\ UNCHANGED <<devices, opening, handler, count, missed, history, undefined>>

-----------------------------------------------------------------------------
(* process_rx_task: netdev_rx and the receive callback it calls *)

HandlerAt(pc) == undefined = "no" /\ rx = pc

Free(f) == frees' = [frees EXCEPT ![f] = @ + 1]

(* A frame for a device that is up is copied and will be queued. *)
Accept(i) ==
  /\ HandlerAt("idle") /\ count < MaxFrames
  /\ state[i] = "UP"
  /\ count' = count + 1
  /\ rx' = "send" /\ dev' = i /\ buf' = count + 1
  /\ UNCHANGED <<devices, start, missed, history, undefined>>

(* A frame for a device that is down is freed, and the task sleeps. *)
Drop(i) ==
  /\ HandlerAt("idle") /\ count < MaxFrames
  /\ state[i] = "DOWN"
  /\ count' = count + 1
  /\ Free(count + 1)
  /\ rx' = "delay" /\ dev' = i
  /\ UNCHANGED <<devices, start, buf, missed, lost, delivered, undefined>>

osDelay ==
  /\ HandlerAt("delay")
  /\ rx' = "idle"
  /\ UNCHANGED <<devices, start, dev, buf, count, missed, history, undefined>>

(* Variant: the frame goes to the front of the queue. *)
xQueueSendToFront(i, f) == rx_q' = [rx_q EXCEPT ![i] = <<f>> \o @]

xQueueSend(i, f) == rx_q' = [rx_q EXCEPT ![i] = Append(@, f)]

(* xQueueSend with portMAX_DELAY: waits while the queue is full. *)
Queue ==
  /\ HandlerAt("send")
  /\ HasRoom(dev)
  /\ xQueueSend(dev, buf)
  /\ rx' = "call" /\ buf' = 0
  /\ UNCHANGED <<state, net_handle, start, dev, count, missed, history, undefined>>

(* Variant: the callback is called only when lwIP's interface is up. *)
CallsBack(i) == netif[i] = "up"

(* Every network handle of this firmware has a callback. *)
HasCallback(i) == TRUE

(* The callback is read through the device's handle, and called.  The      *)
(* container of the frame, of which the queue has a copy, is freed.        *)
CallBack ==
  /\ HandlerAt("call")
  /\ \/ ~net_handle[dev] /\ undefined' = "null handle" /\ UNCHANGED rx
     \/ /\ net_handle[dev]
        /\ rx' = IF HasCallback(dev) THEN "read" ELSE "idle"
        /\ UNCHANGED undefined
  /\ UNCHANGED <<devices, start, dev, buf, count, missed, history>>

(* network_read finds no memory: the callback returns. *)
MissFrame ==
  /\ HandlerAt("read")
  /\ missed[dev] < MaxMissed
  /\ missed' = [missed EXCEPT ![dev] = @ + 1]
  /\ rx' = "idle"
  /\ UNCHANGED <<devices, start, dev, buf, count, history, undefined>>

(* network_read takes a frame without waiting, and does not look whether   *)
(* there was one.                                                          *)
ReadFrame ==
  /\ HandlerAt("read")
  /\ \/ rx_q[dev] = <<>> /\ undefined' = "no frame" /\ UNCHANGED <<rx_q, rx, buf>>
     \/ /\ rx_q[dev] # <<>>
        /\ buf' = Head(rx_q[dev])
        /\ rx_q' = [rx_q EXCEPT ![dev] = Tail(@)]
        /\ rx' = "input"
        /\ UNCHANGED undefined
  /\ UNCHANGED <<state, net_handle, start, dev, count, missed, history>>

(* The interface's input function, tcpip_input, takes the packet for the   *)
(* lwIP thread: as an Ethernet frame when the flags say so, and otherwise  *)
(* as an IP packet, which a frame is not.                                  *)
Input ==
  IF netif[dev] = "up"
    THEN delivered' = [delivered EXCEPT ![dev] = Append(@, buf)]
    ELSE UNCHANGED delivered

(* Variant: the payload is freed when it is passed on, and at the end. *)
FreeTwice(f) == frees' = [frees EXCEPT ![f] = @ + 2]

FreePayload(f) == Free(f)

(* The rest of the callback: the payload is copied into a packet, handed   *)
(* to lwIP and freed.  Without a packet a null pointer is handed to lwIP,  *)
(* which takes it if it has room for the message.                          *)
HandOver ==
  /\ HandlerAt("input")
  /\ \/ netif[dev] = "none" /\ undefined' = "null input" /\ UNCHANGED <<handler, frees, delivered>>
     \/ PoolMayBeEmpty /\ undefined' = "null packet" /\ UNCHANGED <<handler, frees, delivered>>
     \/ /\ netif[dev] # "none"
        /\ Input \/ (PoolMayBeEmpty /\ UNCHANGED delivered)
        /\ FreePayload(buf)
        /\ rx' = "idle" /\ buf' = 0
        /\ UNCHANGED <<dev, undefined>>
  /\ UNCHANGED <<devices, start, count, missed, lost>>

-----------------------------------------------------------------------------
(* The slave has sent everything and both threads wait; or process_rx_task *)
(* waits for room that only it could make; or the behaviour is undefined.  *)
Quiescent ==
  /\ \/ undefined # "no"
     \/ rx = "idle" /\ count = MaxFrames
     \/ rx = "send" /\ ~HasRoom(dev) /\ missed[dev] >= RX_QUEUE_SIZE
  /\ UNCHANGED vars

Handle ==
  \/ osDelay \/ Queue \/ CallBack \/ MissFrame \/ ReadFrame \/ HandOver

Next ==
  \/ \E i \in Interface : WriteNullHandle(i) \/ FailOpen(i) \/ OpenDevice(i)
  \/ \E i \in Interface : Accept(i) \/ Drop(i)
  \/ Publish \/ AddInterface \/ Configure
  \/ Handle
  \/ Quiescent

Spec == Init /\ [][Next]_vars

(* process_rx_task runs whenever it can.  Nothing has to be opened, and no *)
(* frame has to come.                                                      *)
FairSpec == Spec /\ WF_vars(Handle)

-----------------------------------------------------------------------------
(* Properties *)

(* Type invariant. *)
TypeOK ==
  /\ state \in [Interface -> {"UP", "DOWN"}]
  /\ rx_q \in [Interface -> Seq(Frame)]
  /\ \A i \in Interface : Len(rx_q[i]) <= RX_QUEUE_SIZE
  /\ net_handle \in [Interface -> BOOLEAN]
  /\ netif \in [Interface -> {"none", "added", "up"}]
  /\ opener \in {"idle", "publish", "add", "configure", "stuck", "halted"}
  /\ rx \in {"idle", "delay", "send", "call", "read", "input"}
  /\ opening \in Interface /\ dev \in Interface
  /\ buf \in 0..MaxFrames /\ count \in 0..MaxFrames
  /\ missed \in [Interface -> 0..MaxMissed]
  /\ frees \in [Frame -> Nat]
  /\ lost \in SUBSET Frame
  /\ delivered \in [Interface -> Seq(Frame)]
  /\ undefined \in {"no", "null new handle", "null handle", "null input", "null packet",
                   "no frame"}

(* network_read does not check whether it got a frame.  It always gets     *)
(* one: the default task, which empties the queue when it opens a device   *)
(* again, does not run between the sending and the reading of a frame.     *)
ReadFindsFrame == undefined # "no frame"

(* A frame meets a null handle or a null input function only while its     *)
(* device is opened for the first time.  It meets none while the device is *)
(* opened again, nor when the other interface could not be opened.  (A     *)
(* handle without memory is undefined for the task that opens the device.) *)
SafeOnceStarted ==
  undefined \in {"null handle", "null input"} => netif[dev] = "none"

(* The payload of a frame is in a queue, held by process_rx_task, freed,   *)
(* or lost in the reset of a queue; in one of them only, and freed once.   *)
OneOwner ==
  \A f \in 1..count :
    Cardinality({i \in Interface : f \in ToSet(rx_q[i])})
      + (IF f = buf THEN 1 ELSE 0) + (IF f \in lost THEN 1 ELSE 0) + frees[f] = 1

(* lwIP gets the frames of an interface in the order in which they came,   *)
(* and no frame that waits in the queue is overtaken by a later one.       *)
HandedInOrder ==
  \A i \in Interface :
    LET frames == delivered[i] \o rx_q[i] IN
    \A m, n \in DOMAIN frames : m < n => frames[m] < frames[n]

(* The callback reads one frame for each frame queued.  So a device lags   *)
(* by one frame for each allocation that failed, for ever, and by no more; *)
(* process_rx_task waits for room only after RX_QUEUE_SIZE failures.       *)
LagIsFailures ==
  \A i \in Interface :
    Len(rx_q[i]) <= missed[i] + (IF dev = i /\ rx \in {"call", "read"} THEN 1 ELSE 0)

(* As long as fewer than RX_QUEUE_SIZE allocations failed, process_rx_task *)
(* gets through every frame, and goes on to serve the other interfaces.    *)
HandlerReturns ==
  (rx # "idle") ~> \/ rx = "idle" \/ undefined # "no"
                   \/ missed[dev] >= RX_QUEUE_SIZE
=============================================================================
