----------------------------- MODULE RtosQueue -----------------------------
(***************************************************************************)
(* The FreeRTOS queue (Source/queue.c) under the firmware's queues: tasks  *)
(* that send and receive with and without a time limit, an interrupt       *)
(* handler that sends, and a task that resets the queue.  Semaphores have  *)
(* functions of their own (xQueueSemaphoreTake, xQueueGiveFromISR), which  *)
(* are not modelled.                                                       *)
(*                                                                         *)
(* A critical section is one step.  Between two of them other tasks run,   *)
(* unless the scheduler is suspended, and interrupts come at any time.  An *)
(* item is named after who sent it.  The tasks have one priority, so an    *)
(* event list is in the order of arrival.                                  *)
(***************************************************************************)
EXTENDS Integers, Sequences, FiniteSets, SequencesExt

CONSTANTS
  Senders, Receivers,   (* tasks                                           *)
  ISR,                  (* the interrupt handler                           *)
  NoItem,               (* what is in memory nobody has written            *)
  NoTask,               (* the scheduler is not suspended                  *)
  uxLength

Task == Senders \cup Receivers
Item == Senders \cup {ISR}

(* The firmware's longest queue has 100 items.  The bound is that of an    *)
(* int8_t, which has to count what is sent to a locked queue.              *)
ASSUME LengthAssumption == uxLength \in 1..127
ASSUME TaskAssumption == Senders \cap Receivers = {} /\ NoTask \notin Task
ASSUME FiniteAssumption == IsFiniteSet(Task)
ASSUME ItemAssumption == ISR \notin Task /\ NoItem \notin Item

queueUNLOCKED == -1
queueLOCKED_UNMODIFIED == 0

VARIABLES
  store, pcWriteTo, pcReadFrom,   (* the ring of cells, from 0             *)
  uxMessagesWaiting,
  cTxLock,                        (* locked: sent by interrupts since then *)
  xTasksWaitingToSend,            (* the event lists                       *)
  xTasksWaitingToReceive,
  uxSchedulerSuspended,           (* the task that has suspended it        *)
  pc,                             (* where each task is                    *)
  xTicksToWait,                   (* none, finite, expired or forever      *)
  xEntryTimeSet,                  (* has the call found it cannot go on?   *)
  pvBuffer,                       (* what the last receiver got            *)
  forgotten                       (* history: a reset woke one sender of   *)
                                  (* several                               *)

ring   == <<store, pcWriteTo, pcReadFrom, uxMessagesWaiting>>
lists  == <<xTasksWaitingToSend, xTasksWaitingToReceive>>
caller == <<pc, xTicksToWait, xEntryTimeSet>>
vars == <<ring, cTxLock, lists, uxSchedulerSuspended, caller, pvBuffer, forgotten>>

(* xQueueGenericCreate, and tasks that have called nothing yet.            *)
Init ==
  /\ store = [c \in 0..uxLength - 1 |-> NoItem]
  /\ pcWriteTo = 0 /\ pcReadFrom = uxLength - 1
  /\ uxMessagesWaiting = 0
  /\ cTxLock = queueUNLOCKED
  /\ xTasksWaitingToSend = <<>> /\ xTasksWaitingToReceive = <<>>
  /\ uxSchedulerSuspended = NoTask
  /\ pc = [t \in Task |-> "idle"]
  /\ xTicksToWait = [t \in Task |-> "none"]
  /\ xEntryTimeSet = [t \in Task |-> FALSE]
  /\ pvBuffer = NoItem
  /\ forgotten = FALSE

-----------------------------------------------------------------------------
(* The ring *)

(* Variant: the queue is full one item later.                              *)
FullLate == uxMessagesWaiting > uxLength

Full == uxMessagesWaiting = uxLength
Empty == uxMessagesWaiting = 0

Wrap(cell) == IF cell >= uxLength THEN cell - uxLength ELSE cell

(* queueSEND_TO_BACK *)
prvCopyDataToQueue(item) ==
  /\ store' = [store EXCEPT ![pcWriteTo] = item]
  /\ pcWriteTo' = Wrap(pcWriteTo + 1)
  /\ uxMessagesWaiting' = uxMessagesWaiting + 1
  /\ UNCHANGED pcReadFrom

(* Variant: the cell is read before the pointer moves to the next one.     *)
ReadThenMove ==
  /\ pvBuffer' = store[pcReadFrom]
  /\ pcReadFrom' = Wrap(pcReadFrom + 1)
  /\ uxMessagesWaiting' = uxMessagesWaiting - 1
  /\ UNCHANGED <<store, pcWriteTo>>

prvCopyDataFromQueue ==
  /\ pcReadFrom' = Wrap(pcReadFrom + 1)
  /\ pvBuffer' = store[Wrap(pcReadFrom + 1)]
  /\ uxMessagesWaiting' = uxMessagesWaiting - 1
  /\ UNCHANGED <<store, pcWriteTo>>

(* xTaskRemoveFromEventList: the first task of a list can run again.  It   *)
(* does so, when the scheduler is suspended, once it is resumed.           *)
WakeFirst(list) == IF list = <<>> THEN <<>> ELSE Tail(list)

-----------------------------------------------------------------------------
(* The steps of a call.  A task runs when no event list has it, and when   *)
(* no other task has suspended the scheduler.                              *)

Waiting(t) == t \in ToSet(xTasksWaitingToSend) \cup ToSet(xTasksWaitingToReceive)

TaskAt(t, at) ==
  /\ pc[t] = at
  /\ \/ uxSchedulerSuspended = t
     \/ uxSchedulerSuspended = NoTask /\ ~Waiting(t)

Goto(t, at) == pc' = [pc EXCEPT ![t] = at]

(* The variables of the call are gone.                                     *)
Return(t) ==
  /\ Goto(t, "idle")
  /\ xTicksToWait' = [xTicksToWait EXCEPT ![t] = "none"]
  /\ xEntryTimeSet' = [xEntryTimeSet EXCEPT ![t] = FALSE]

Call(t, ticks) ==
  /\ TaskAt(t, "idle")
  /\ Goto(t, "try")
  /\ xTicksToWait' = [xTicksToWait EXCEPT ![t] = ticks]
  /\ UNCHANGED <<ring, cTxLock, lists, uxSchedulerSuspended, xEntryTimeSet, pvBuffer, forgotten>>

(* The queue is full, or empty, for this call.  Without time to wait it    *)
(* fails; otherwise the time of entry is noted.                            *)
CannotGoOn(t) ==
  /\ IF xTicksToWait[t] = "none"
       THEN Return(t)
       ELSE /\ Goto(t, "suspend")
            /\ xEntryTimeSet' = [xEntryTimeSet EXCEPT ![t] = TRUE]
            /\ UNCHANGED xTicksToWait
  /\ UNCHANGED <<ring, lists, pvBuffer>>

(* xQueueGenericSend, its first critical section *)
TrySend(s) ==
  /\ TaskAt(s, "try")
  /\ \/ /\ ~Full
        /\ prvCopyDataToQueue(s)
        /\ xTasksWaitingToReceive' = WakeFirst(xTasksWaitingToReceive)
        /\ Return(s)
        /\ UNCHANGED <<xTasksWaitingToSend, pvBuffer>>
     \/ Full /\ CannotGoOn(s)
  /\ UNCHANGED <<cTxLock, uxSchedulerSuspended, forgotten>>

(* xQueueReceive, its first critical section *)
TryReceive(r) ==
  /\ TaskAt(r, "try")
  /\ \/ /\ ~Empty
        /\ prvCopyDataFromQueue
        /\ xTasksWaitingToSend' = WakeFirst(xTasksWaitingToSend)
        /\ Return(r)
        /\ UNCHANGED xTasksWaitingToReceive
     \/ Empty /\ CannotGoOn(r)
  /\ UNCHANGED <<cTxLock, uxSchedulerSuspended, forgotten>>

vTaskSuspendAll(t) ==
  /\ TaskAt(t, "suspend")
  /\ uxSchedulerSuspended' = t
  /\ Goto(t, "lock")
  /\ UNCHANGED <<ring, cTxLock, lists, xTicksToWait, xEntryTimeSet, pvBuffer, forgotten>>

prvLockQueue(t) ==
  /\ TaskAt(t, "lock")
  /\ cTxLock' = queueLOCKED_UNMODIFIED
  /\ Goto(t, "check")
  /\ UNCHANGED <<ring, lists, uxSchedulerSuspended, xTicksToWait, xEntryTimeSet, pvBuffer, forgotten>>

(* A time limit may have passed, and has passed for a task the tick woke.  *)
xTaskCheckForTimeOut(t) ==
  /\ TaskAt(t, "check")
  /\ \/ /\ xTicksToWait[t] \in {"finite", "forever"}
        /\ Goto(t, "look")
        /\ UNCHANGED xTicksToWait
     \/ /\ xTicksToWait[t] \in {"finite", "expired"}
        /\ Goto(t, "unlock")
        /\ xTicksToWait' = [xTicksToWait EXCEPT ![t] = "none"]
  /\ UNCHANGED <<ring, cTxLock, lists, uxSchedulerSuspended, xEntryTimeSet, pvBuffer, forgotten>>

(* Variant: the task waits without looking at the queue again.             *)
NoSecondLook(t) == TRUE

(* prvIsQueueFull, prvIsQueueEmpty *)
StillCannotGoOn(t) == IF t \in Senders THEN Full ELSE Empty

Look(t) ==
  /\ TaskAt(t, "look")
  /\ Goto(t, IF StillCannotGoOn(t) THEN "place" ELSE "unlock")
  /\ UNCHANGED <<ring, cTxLock, lists, uxSchedulerSuspended, xTicksToWait, xEntryTimeSet, pvBuffer, forgotten>>

vTaskPlaceOnEventList(t) ==
  /\ TaskAt(t, "place")
  /\ IF t \in Senders
       THEN /\ xTasksWaitingToSend' = Append(xTasksWaitingToSend, t)
            /\ UNCHANGED xTasksWaitingToReceive
       ELSE /\ xTasksWaitingToReceive' = Append(xTasksWaitingToReceive, t)
            /\ UNCHANGED xTasksWaitingToSend
  /\ Goto(t, "unlock")
  /\ UNCHANGED <<ring, cTxLock, uxSchedulerSuspended, xTicksToWait, xEntryTimeSet, pvBuffer, forgotten>>

(* Variant: what interrupts have sent is forgotten.                        *)
WakeNobody == xTasksWaitingToReceive

(* One receiver is woken for each item an interrupt has sent.              *)
WakeForEach ==
  SubSeq(xTasksWaitingToReceive, cTxLock + 1, Len(xTasksWaitingToReceive))

(* No interrupt receives, so no sender is to be woken.                     *)
prvUnlockQueue(t) ==
  /\ TaskAt(t, "unlock")
  /\ xTasksWaitingToReceive' = WakeForEach
  /\ cTxLock' = queueUNLOCKED
  /\ Goto(t, "resume")
  /\ UNCHANGED <<ring, xTasksWaitingToSend, uxSchedulerSuspended, xTicksToWait, xEntryTimeSet, pvBuffer, forgotten>>

(* A sender whose time has passed fails, a receiver looks once more, and   *)
(* the others try again, when no event list has them any more.             *)
xTaskResumeAll(t) ==
  /\ TaskAt(t, "resume")
  /\ uxSchedulerSuspended' = NoTask
  /\ IF xTicksToWait[t] = "none" /\ t \in Senders
       THEN Return(t)
       ELSE /\ Goto(t, IF xTicksToWait[t] = "none" THEN "recheck" ELSE "try")
            /\ UNCHANGED <<xTicksToWait, xEntryTimeSet>>
  /\ UNCHANGED <<ring, cTxLock, lists, pvBuffer, forgotten>>

(* The receiver's last look.  With an item it tries again, with no time    *)
(* to wait.                                                                *)
Recheck(r) ==
  /\ TaskAt(r, "recheck")
  /\ IF Empty THEN Return(r) ELSE Goto(r, "try") /\ UNCHANGED <<xTicksToWait, xEntryTimeSet>>
  /\ UNCHANGED <<ring, cTxLock, lists, uxSchedulerSuspended, pvBuffer, forgotten>>

-----------------------------------------------------------------------------
(* The interrupt handler, the tick, and the reset *)

(* Variant: a locked queue does not count what it is sent.                 *)
DoNotCount == cTxLock

(* cTxLock is an int8_t.                                                   *)
CountPost == IF cTxLock = 127 THEN -128 ELSE cTxLock + 1

xQueueGenericSendFromISR ==
  /\ ~Full
  /\ prvCopyDataToQueue(ISR)
  /\ IF cTxLock = queueUNLOCKED
       THEN /\ xTasksWaitingToReceive' = WakeFirst(xTasksWaitingToReceive)
            /\ UNCHANGED cTxLock
       ELSE cTxLock' = CountPost /\ UNCHANGED xTasksWaitingToReceive
  /\ UNCHANGED <<xTasksWaitingToSend, uxSchedulerSuspended, caller, pvBuffer, forgotten>>

uxListRemove(list, t) ==
  IF t \in ToSet(list)
    THEN RemoveAt(list, CHOOSE k \in DOMAIN list : list[k] = t)
    ELSE list

(* The tick takes a task whose time has passed off its event list.  It     *)
(* does so only when the scheduler is not suspended.                       *)
xTaskIncrementTick(t) ==
  /\ uxSchedulerSuspended = NoTask
  /\ Waiting(t) /\ xTicksToWait[t] = "finite"
  /\ xTicksToWait' = [xTicksToWait EXCEPT ![t] = "expired"]
  /\ xTasksWaitingToSend' = uxListRemove(xTasksWaitingToSend, t)
  /\ xTasksWaitingToReceive' = uxListRemove(xTasksWaitingToReceive, t)
  /\ UNCHANGED <<ring, cTxLock, uxSchedulerSuspended, pc, xEntryTimeSet, pvBuffer, forgotten>>

(* xQueueGenericReset of a queue in use, by a task outside of it.  One     *)
(* sender is woken, whatever the room.                                     *)
xQueueReset ==
  /\ uxSchedulerSuspended = NoTask
  /\ uxMessagesWaiting' = 0
  /\ pcWriteTo' = 0 /\ pcReadFrom' = uxLength - 1
  /\ cTxLock' = queueUNLOCKED
  /\ xTasksWaitingToSend' = WakeFirst(xTasksWaitingToSend)
  /\ forgotten' = (forgotten \/ Len(xTasksWaitingToSend) > 1)
  /\ UNCHANGED <<store, xTasksWaitingToReceive, uxSchedulerSuspended, caller, pvBuffer>>

-----------------------------------------------------------------------------
Wait(t) ==
  \/ vTaskSuspendAll(t) \/ prvLockQueue(t) \/ xTaskCheckForTimeOut(t)
  \/ Look(t) \/ vTaskPlaceOnEventList(t) \/ prvUnlockQueue(t) \/ xTaskResumeAll(t)

SenderStep(s) == TrySend(s) \/ Wait(s)
ReceiverStep(r) == TryReceive(r) \/ Wait(r) \/ Recheck(r)

Next ==
  \/ \E t \in Task : \E ticks \in {"none", "finite", "forever"} : Call(t, ticks)
  \/ \E s \in Senders : SenderStep(s)
  \/ \E r \in Receivers : ReceiverStep(r)
  \/ \E t \in Task : xTaskIncrementTick(t)
  \/ xQueueGenericSendFromISR
  \/ xQueueReset

Spec == Init /\ [][Next]_vars

(* The scheduler slices the time between tasks of one priority: a task     *)
(* that can run again and again between suspensions gets its turn.         *)
FairSpec ==
  /\ Spec
  /\ \A s \in Senders : SF_vars(SenderStep(s))
  /\ \A r \in Receivers : SF_vars(ReceiverStep(r))

-----------------------------------------------------------------------------
(* Properties *)

(* Type invariant.                                                         *)
TypeOK ==
  /\ store \in [0..uxLength - 1 -> Item \cup {NoItem}]
  /\ pcWriteTo \in 0..uxLength - 1 /\ pcReadFrom \in 0..uxLength - 1
  /\ uxMessagesWaiting \in 0..uxLength
  /\ cTxLock \in -1..uxLength
  /\ xTasksWaitingToSend \in Seq(Senders) /\ xTasksWaitingToReceive \in Seq(Receivers)
  /\ uxSchedulerSuspended \in Task \cup {NoTask}
  /\ pc \in [Task -> {"idle", "try", "suspend", "lock", "check", "look",
                      "place", "unlock", "resume", "recheck"}]
  /\ xTicksToWait \in [Task -> {"none", "finite", "expired", "forever"}]
  /\ xEntryTimeSet \in [Task -> BOOLEAN]
  /\ pvBuffer \in Item \cup {NoItem}
  /\ forgotten \in BOOLEAN

(* A call still to take place: the task will look at the queue before it   *)
(* waits or fails.                                                         *)
WillLook(t) == pc[t] \notin {"idle", "place"} /\ ~Waiting(t)

(* No wake-up of a receiver is lost between its look at the empty queue    *)
(* and its place on the event list: while one waits, each item in the      *)
(* queue has a receiver that will look for it, or is counted in the lock.  *)
ReceiverWoken ==
  xTasksWaitingToReceive # <<>> =>
    uxMessagesWaiting <= Cardinality({r \in Receivers : WillLook(r)})
                           + (IF cTxLock > 0 THEN cTxLock ELSE 0)

(* No wake-up of a sender is lost: while one waits, each free cell has a   *)
(* sender that will look for it; unless a reset freed several at once.     *)
SenderWoken ==
  xTasksWaitingToSend # <<>> /\ ~forgotten =>
    uxLength - uxMessagesWaiting <= Cardinality({s \in Senders : WillLook(s)})

(* A receiver does not wait for ever at a queue that is never empty.       *)
ReceiverServed ==
  \A r \in Receivers :
    (Waiting(r) /\ ~Empty) ~> (~Waiting(r) \/ Empty)

(* The queue as it is read out: the items after the cell read last.        *)
Contents == [k \in 1..uxMessagesWaiting |-> store[Wrap(pcReadFrom + k)]]

(* The calls take effect one at a time, in the order of the items, and     *)
(* fail only for a reason: the code implements the queue it promises.      *)
Atomic == INSTANCE AtomicQueue WITH
  items <- Contents,
  calling <- {t \in Task : pc[t] # "idle"},
  refused <- {s \in Senders : xEntryTimeSet[s]},
  received <- pvBuffer

ImplementsQueue == Atomic!Spec
=============================================================================
