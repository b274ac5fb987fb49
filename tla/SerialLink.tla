----------------------------- MODULE SerialLink -----------------------------
(***************************************************************************)
(* The serial link that carries control messages from the slave to the     *)
(* control library: the fragment reassembly of serial_ll_rx_handler        *)
(* (driver/serial/serial_ll_if.c), run by the transport's process_rx_task, *)
(* and the reader serial_drv_read (port/src/platform_wrapper.c) with       *)
(* parse_tlv (virtual_serial_if/src/serial_if.c), run by ctrl_rx_thread.   *)
(* They share the interface queue and the binary semaphore readSemaphore.  *)
(*                                                                         *)
(* A control message is numbered in the order in which the slave sends it  *)
(* and cut into "of" fragments; a fragment stands for its bytes, and the   *)
(* first one holds the TLV header with the length of the whole message.    *)
(*                                                                         *)
(* serial_buff_cleanup frees the reassembly buffer and keeps its address.  *)
(* The model ends (undefined) where a later fragment makes the handler     *)
(* read that freed block and free it again.                                *)
(***************************************************************************)
EXTENDS Integers, Sequences

CONSTANTS
  TO_SERIAL_INFT_QUEUE_SIZE,
  MaxMsg,           (* bound: control messages the slave sends             *)
  MaxFrags,         (* bound: fragments of one message                     *)
  FramesMayBeLost,  (* may the transport drop a frame (bad checksum)?      *)
  MallocMayFail     (* may an allocation on this path fail?                *)

ASSUME QueueAssumption == TO_SERIAL_INFT_QUEUE_SIZE \in Nat \ {0}
ASSUME MessagesAssumption == MaxMsg \in Nat /\ MaxFrags \in Nat \ {0}
ASSUME FaultsAssumption == FramesMayBeLost \in BOOLEAN /\ MallocMayFail \in BOOLEAN

Fragment == [msg : 1..MaxMsg + 1, part : 1..MaxFrags, of : 1..MaxFrags]

VARIABLES
  next,           (* the next fragment the slave sends                     *)
  opened,         (* the interface is registered and ACTIVE                *)
  r,              (* the reassembly buffer: fragments accumulated          *)
  dangling,       (* r.data is the address of a block that has been freed  *)
  undefined,      (* a freed block has been read and freed again           *)
  rx,             (* where serial_ll_rx_handler is                         *)
  new_buf_handle, (* the message it has completed                          *)
  queue,          (* the interface queue                                   *)
  readSemaphore,
  reader,         (* where the reading thread is                           *)
  read,           (* history: what serial_drv_read returned                *)
  lost,           (* history: messages that lost a frame on the wire       *)
  failed          (* history: messages that came too early or met an       *)
                  (*          allocation that failed                       *)

memVars == <<dangling, undefined>>
rxVars == <<r, memVars, rx, new_buf_handle>>
vars == <<next, opened, rxVars, queue, readSemaphore, reader, read,
          lost, failed>>

Init ==
  /\ next \in {f \in Fragment : f.msg = 1 /\ f.part = 1}
  /\ opened = FALSE
  /\ r = <<>>
  /\ dangling = FALSE
  /\ undefined = FALSE
  /\ rx = "idle"
  /\ new_buf_handle = <<>>
  /\ queue = <<>>
  /\ readSemaphore = 0
  /\ reader = "off"
  /\ read = <<>>
  /\ lost = {}
  /\ failed = {}

-----------------------------------------------------------------------------
(* The slave and the transport, outside this module: fragments come in     *)
(* order, and a frame with a bad checksum does not come at all.            *)

Advance ==
  /\ next.msg <= MaxMsg
  /\ IF next.part < next.of
       THEN next' = [next EXCEPT !.part = @ + 1]
       ELSE \E k \in 1..MaxFrags :
              next' = [msg |-> next.msg + 1, part |-> 1, of |-> k]

MoreFragment(f) == f.part < f.of

LoseFrame ==
  /\ FramesMayBeLost
  /\ rx = "idle"
  /\ Advance
  /\ lost' = lost \cup {next.msg}
  /\ UNCHANGED <<opened, rxVars, queue, readSemaphore, reader, read, failed>>

(* Variant: the semaphore is created available and not taken. *)
LeaveAvailable == readSemaphore' = 1

(* The semaphore is created available and taken at once. *)
CreateReadSemaphore == readSemaphore' = 0

(* control_path_platform_init, run by process_rx_task when the transport   *)
(* becomes active: the semaphore is created, and the interface is created  *)
(* and opened with an empty queue.                                         *)
Open ==
  /\ ~opened /\ rx = "idle"
  /\ opened' = TRUE
  /\ CreateReadSemaphore
  /\ queue' = <<>>
  /\ UNCHANGED <<next, rxVars, reader, read, lost, failed>>

-----------------------------------------------------------------------------
(* serial_ll_rx_handler *)

Spoil(message) == failed' = failed \cup {message}

(* SERIAL_ALLOC_REALLOC_RDATA fails: the pointer becomes null and what was *)
(* accumulated is lost.                                                    *)
AllocFails == MallocMayFail /\ r' = <<>> /\ Spoil(next.msg) /\ UNCHANGED dangling

(* serial_buff_cleanup: the length is reset and the data freed, if there   *)
(* is any; hosted_free clears its own copy of the pointer only.            *)
Cleanup(allocated) == r' = <<>> /\ dangling' = allocated

(* Not registered yet: the frame is dropped. *)
DropUnregistered ==
  /\ rx = "idle" /\ ~opened
  /\ Advance
  /\ Cleanup(r # <<>>) /\ Spoil(next.msg)
  /\ UNCHANGED <<undefined, opened, rx, new_buf_handle, queue, readSemaphore,
                 reader, read, lost>>

(* A fragment that comes when r.data points to a freed block: unless its   *)
(* allocation fails, and the pointer becomes null, hosted_realloc copies   *)
(* the freed block and frees it again.                                     *)
ReuseFreed ==
  /\ rx = "idle" /\ opened /\ dangling
  /\ Advance
  /\ Spoil(next.msg)
  /\ r' = <<>>
  /\ \/ MallocMayFail /\ dangling' = FALSE /\ UNCHANGED undefined
     \/ undefined' = TRUE /\ UNCHANGED dangling
  /\ UNCHANGED <<opened, rx, new_buf_handle, queue, readSemaphore, reader, read, lost>>

(* A fragment that does not end its message is accumulated. *)
Accumulate ==
  /\ rx = "idle" /\ opened /\ ~dangling
  /\ Advance
  /\ MoreFragment(next)
  /\ \/ r' = Append(r, next) /\ UNCHANGED <<dangling, failed>>
     \/ AllocFails
  /\ UNCHANGED <<undefined, opened, rx, new_buf_handle, queue, readSemaphore,
                 reader, read, lost>>

(* Variant: the last fragment does not reset the buffer. *)
KeepReassembly == r' = Append(r, next)

(* The buffer is copied into the message, freed and its pointer cleared. *)
ResetReassembly == r' = <<>>

(* The last fragment, or the only one: the message is complete. *)
Complete ==
  /\ rx = "idle" /\ opened /\ ~dangling
  /\ Advance
  /\ ~MoreFragment(next)
  /\ \/ /\ rx' = "enqueue"
        /\ new_buf_handle' = Append(r, next)
        /\ ResetReassembly
        /\ UNCHANGED <<dangling, failed>>
     \/ /\ AllocFails          \* no room to grow the buffer
        /\ UNCHANGED <<rx, new_buf_handle>>
     \/ /\ MallocMayFail       \* no room for the message: "drop pkt"
        /\ Cleanup(TRUE) /\ Spoil(next.msg)
        /\ UNCHANGED <<rx, new_buf_handle>>
  /\ UNCHANGED <<undefined, opened, queue, readSemaphore, reader, read, lost>>

(* xQueueSend with portMAX_DELAY: waits while the queue is full. *)
Enqueue ==
  /\ rx = "enqueue"
  /\ Len(queue) < TO_SERIAL_INFT_QUEUE_SIZE
  /\ queue' = Append(queue, new_buf_handle)
  /\ new_buf_handle' = <<>>
  /\ rx' = "indicate"
  /\ UNCHANGED <<next, opened, r, memVars, readSemaphore, reader, read, lost, failed>>

(* Variants: releases are counted; only the first message in an empty     *)
(* queue is indicated.                                                     *)
CountReleases == readSemaphore' = readSemaphore + 1
IndicateFirst == readSemaphore' = IF Len(queue) = 1 THEN 1 ELSE readSemaphore

(* control_path_rx_indication releases the binary semaphore. *)
control_path_rx_indication == readSemaphore' = 1

Indicate ==
  /\ rx = "indicate"
  /\ control_path_rx_indication
  /\ rx' = "idle"
  /\ UNCHANGED <<next, opened, r, memVars, new_buf_handle, queue,
                 reader, read, lost, failed>>

-----------------------------------------------------------------------------
(* serial_drv_read *)

(* ctrl_rx_thread is created once the interface is open. *)
SpawnReader ==
  /\ reader = "off" /\ opened
  /\ reader' = "wait"
  /\ UNCHANGED <<next, opened, rxVars, queue, readSemaphore, read, lost, failed>>

WaitForIndication ==
  /\ reader = "wait"
  /\ readSemaphore = 1
  /\ readSemaphore' = 0
  /\ reader' = "read"
  /\ UNCHANGED <<next, opened, rxVars, queue, read, lost, failed>>

(* Variant: what is read is returned without a look at its header. *)
AcceptAll(m) == {m}

(* What the reader makes of a message: parse_tlv wants the header at the   *)
(* start, the header's length must not exceed what was read, and that many *)
(* bytes are returned.  Anything else is freed and nothing is returned.    *)
Parsed(m) ==
  IF m[1].part = 1 /\ Len(m) >= m[1].of THEN {SubSeq(m, 1, m[1].of)} ELSE {}

(* The blocking read of one queue element, and its parsing; the copies may *)
(* fail for lack of memory.                                                *)
ReadMessage ==
  /\ reader = "read"
  /\ queue # <<>>
  /\ queue' = Tail(queue)
  /\ reader' = "wait"
  /\ \/ \E m \in Parsed(Head(queue)) : read' = Append(read, m) /\ UNCHANGED failed
     \/ Parsed(Head(queue)) = {} /\ UNCHANGED <<read, failed>>
     \/ MallocMayFail /\ Spoil(Head(queue)[1].msg) /\ UNCHANGED read
  /\ UNCHANGED <<next, opened, rxVars, readSemaphore, lost>>

-----------------------------------------------------------------------------
(* The slave has sent everything and everybody waits, or the behaviour is  *)
(* undefined from here on.                                                 *)
Quiescent ==
  /\ \/ undefined
     \/ /\ next.msg > MaxMsg /\ opened /\ rx = "idle"
        /\ reader = "wait" /\ readSemaphore = 0
  /\ UNCHANGED vars

Step ==
  \/ LoseFrame
  \/ Open
  \/ DropUnregistered
  \/ ReuseFreed
  \/ Accumulate
  \/ Complete
  \/ Enqueue
  \/ Indicate
  \/ SpawnReader
  \/ WaitForIndication
  \/ ReadMessage

Next == (~undefined /\ Step) \/ Quiescent

Spec == Init /\ [][Next]_vars

(* Both threads run whenever they can, and the interface is opened.  The   *)
(* slave need not send anything.                                           *)
Fairness ==
  /\ WF_vars(~undefined /\ Open)
  /\ WF_vars(~undefined /\ Enqueue)
  /\ WF_vars(~undefined /\ Indicate)
  /\ WF_vars(~undefined /\ SpawnReader)
  /\ WF_vars(~undefined /\ WaitForIndication)
  /\ WF_vars(~undefined /\ ReadMessage)

FairSpec == Spec /\ Fairness

-----------------------------------------------------------------------------
(* Properties *)

(* Type invariant. *)
TypeOK ==
  /\ next \in Fragment
  /\ opened \in BOOLEAN
  /\ r \in Seq(Fragment)
  /\ dangling \in BOOLEAN /\ undefined \in BOOLEAN
  /\ rx \in {"idle", "enqueue", "indicate"}
  /\ new_buf_handle \in Seq(Fragment)
  /\ queue \in Seq(Seq(Fragment)) /\ Len(queue) <= TO_SERIAL_INFT_QUEUE_SIZE
  /\ readSemaphore \in {0, 1}
  /\ reader \in {"off", "wait", "read"}
  /\ read \in Seq(Seq(Fragment))
  /\ lost \in SUBSET (1..MaxMsg) /\ failed \in SUBSET (1..MaxMsg + 1)

(* The reader is bound to take a message from the queue. *)
WillRead == readSemaphore = 1 \/ reader = "read"

(* The binary semaphore merges indications, so messages can be left behind *)
(* in the queue; but a full queue always has a read coming, and therefore  *)
(* the handler, which waits for room with process_rx_task, never waits     *)
(* for a reader that waits for it.                                         *)
FullQueueIsRead ==
  (Len(queue) = TO_SERIAL_INFT_QUEUE_SIZE /\ rx # "indicate") => WillRead

(* A reader past the semaphore always finds a message: its blocking read   *)
(* of the queue never blocks, and so it never reads without indication.    *)
IndicationIsBacked == WillRead => queue # <<>>

Whole(m) == \A i \in DOMAIN m : m[i].msg = m[1].msg /\ m[i].part = i /\ m[i].of = Len(m)

(* What the control library reads is exactly one message of the slave, no  *)
(* fragment missing and none of another message, unless the message it     *)
(* starts with lost a frame on the wire.  Frames that come before the      *)
(* interface is open do no damage, nor does a failed allocation until a    *)
(* block it left freed is used again: nothing is said of what follows.     *)
ReadIsWhole == \A i \in DOMAIN read : Whole(read[i]) \/ read[i][1].msg \in lost

(* Messages are read in the order sent and none twice, even when frames    *)
(* are lost in between, or allocations fail without a freed block being    *)
(* used again: nothing is said of what follows such a use.                 *)
ReadInOrder == \A i, j \in DOMAIN read : i < j => read[i][1].msg < read[j][1].msg

(* The handler is never stuck waiting for room: process_rx_task goes on.   *)
HandlerReturns == (rx = "enqueue") ~> (rx = "idle")

(* Every message put in the queue is read. *)
QueueIsEmptied == (queue # <<>>) ~> (queue = <<>>)

(* The messages sent of which the first fragment is here and begins what   *)
(* is accumulated, completed or queued.                                    *)
InTransit ==
  {n \in 1..(next.msg - 1) :
     \E m \in {queue[i] : i \in DOMAIN queue} \cup {new_buf_handle, r} :
       m # <<>> /\ m[1].part = 1 /\ m[1].msg = n}

(* A message that lost a frame can be taken for the beginning of the next. *)
Harmed == failed \cup lost \cup {n + 1 : n \in lost}

(* The link is an ordered channel: a message is lost only if it came too   *)
(* early, met an allocation that failed, lost a frame itself or follows    *)
(* one that did.  A frame lost on the wire costs two messages at most, and *)
(* merging indications or waiting for room costs none.  The channel is     *)
(* kept until a freed block is used again, and only until then.            *)
Channel == INSTANCE OrderedChannel WITH
  harmed <- Harmed,
  sent <- next.msg - 1,
  transit <- InTransit,
  got <- [i \in DOMAIN read |-> read[i][1].msg]

ImplementsChannel == Channel!Spec
=============================================================================
