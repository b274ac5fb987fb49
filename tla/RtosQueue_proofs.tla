-------------------------- MODULE RtosQueue_proofs --------------------------
(***************************************************************************)
(* The FreeRTOS queue implements the queue it promises, for any number of  *)
(* tasks and any length.                                                   *)
(***************************************************************************)
EXTENDS RtosQueue, SequenceTheorems, TLAPS

Cell == 0..uxLength - 1

(* The ring: the cells from the one after pcReadFrom to the one before     *)
(* pcWriteTo hold the items.                                               *)
RingInv ==
  /\ store \in [Cell -> Item \cup {NoItem}]
  /\ pcWriteTo \in Cell /\ pcReadFrom \in Cell
  /\ uxMessagesWaiting \in 0..uxLength
  /\ pcWriteTo = Wrap(Wrap(pcReadFrom + 1) + uxMessagesWaiting)

(* A call that waits has found the queue full, or empty, before.           *)
CallInv ==
  /\ pc \in [Task -> {"idle", "try", "suspend", "lock", "check", "look",
                      "place", "unlock", "resume", "recheck"}]
  /\ xEntryTimeSet \in [Task -> BOOLEAN]
  /\ \A t \in Task : pc[t] \notin {"idle", "try"} => xEntryTimeSet[t]

IInv == RingInv /\ CallInv

(* The wrapped cell after a cell, and the cells that hold items.           *)
LEMMA WrapCell ==
  ASSUME NEW c \in Cell, NEW k \in 0..uxLength
  PROVE  Wrap(c + k) \in Cell
<1> QED BY LengthAssumption DEF Wrap, Cell

(* The queue as it is read out is a sequence.                              *)
LEMMA ContentsSeq ==
  ASSUME RingInv
  PROVE  /\ Contents \in Seq(Item \cup {NoItem})
         /\ Len(Contents) = uxMessagesWaiting
         /\ \A k \in 1..uxMessagesWaiting : Contents[k] = store[Wrap(pcReadFrom + k)]
<1>1. \A k \in 1..uxMessagesWaiting : store[Wrap(pcReadFrom + k)] \in Item \cup {NoItem}
  BY WrapCell, LengthAssumption DEF RingInv, Cell
<1> QED BY <1>1 DEF Contents, RingInv

(* To copy an item to the queue appends it.                                *)
LEMMA CopyTo ==
  ASSUME RingInv, ~Full, NEW item \in Item, prvCopyDataToQueue(item)
  PROVE  /\ RingInv'
         /\ Contents' = Append(Contents, item)
         /\ Len(Contents) < uxLength
<1>1. RingInv'
  BY LengthAssumption DEF RingInv, prvCopyDataToQueue, Wrap, Cell, Full
<1>2. uxMessagesWaiting' = uxMessagesWaiting + 1 /\ uxMessagesWaiting < uxLength
  BY LengthAssumption DEF RingInv, prvCopyDataToQueue, Full
<1>3. ASSUME NEW k \in 1..uxMessagesWaiting
      PROVE  store'[Wrap(pcReadFrom + k)] = store[Wrap(pcReadFrom + k)]
  BY LengthAssumption, <1>2 DEF RingInv, prvCopyDataToQueue, Wrap, Cell
<1>4. store'[Wrap(pcReadFrom + uxMessagesWaiting + 1)] = item
  BY LengthAssumption, <1>2 DEF RingInv, prvCopyDataToQueue, Wrap, Cell
<1>5. /\ Contents' \in Seq(Item \cup {NoItem})
      /\ Len(Contents') = uxMessagesWaiting'
      /\ \A k \in 1..uxMessagesWaiting' : Contents'[k] = store'[Wrap(pcReadFrom + k)]
  <2>1. pcReadFrom' = pcReadFrom
    BY DEF prvCopyDataToQueue
  <2>2. \A k \in 1..uxMessagesWaiting' : store'[Wrap(pcReadFrom + k)] \in Item \cup {NoItem}
    BY <1>1, <1>2, <2>1, LengthAssumption DEF RingInv, Wrap, Cell
  <2>3. Contents' = [k \in 1..uxMessagesWaiting' |-> store'[Wrap(pcReadFrom + k)]]
    BY <2>1 DEF Contents, Wrap
  <2>4. uxMessagesWaiting' \in Nat
    BY <1>1 DEF RingInv
  <2> HIDE <1>1
  <2> QED BY <2>2, <2>3, <2>4
<1>6. /\ Append(Contents, item) \in Seq(Item \cup {NoItem})
      /\ Len(Append(Contents, item)) = uxMessagesWaiting + 1
      /\ Append(Contents, item)[uxMessagesWaiting + 1] = item
      /\ \A k \in 1..uxMessagesWaiting : Append(Contents, item)[k] = Contents[k]
  BY ContentsSeq, AppendProperties
<1>7. ASSUME NEW k \in 1..uxMessagesWaiting + 1
      PROVE  Contents'[k] = Append(Contents, item)[k]
  <2>1. CASE k = uxMessagesWaiting + 1
    BY <2>1, <1>2, <1>4, <1>5, <1>6 DEF RingInv, Cell
  <2>2. CASE k \in 1..uxMessagesWaiting
    <3>1. Contents'[k] = store'[Wrap(pcReadFrom + k)]
      BY <2>2, <1>2, <1>5
    <3> QED BY <3>1, <2>2, <1>3, <1>6, ContentsSeq
  <2>3. k = uxMessagesWaiting + 1 \/ k \in 1..uxMessagesWaiting
    BY LengthAssumption DEF RingInv
  <2> QED BY <2>1, <2>2, <2>3
<1> QED BY <1>1, <1>2, <1>5, <1>6, <1>7, ContentsSeq, SeqEqual

(* To copy an item from the queue takes the first one.                     *)
LEMMA CopyFrom ==
  ASSUME RingInv, ~Empty, prvCopyDataFromQueue
  PROVE  /\ RingInv'
         /\ Contents # <<>>
         /\ Contents' = Tail(Contents)
         /\ pvBuffer' = Head(Contents)
<1>1. RingInv'
  BY LengthAssumption DEF RingInv, prvCopyDataFromQueue, Wrap, Cell, Empty
<1>2. uxMessagesWaiting' = uxMessagesWaiting - 1 /\ uxMessagesWaiting > 0
  BY LengthAssumption DEF RingInv, prvCopyDataFromQueue, Empty
<1>3. \A k \in 1..uxMessagesWaiting' :
        store'[Wrap(pcReadFrom' + k)] = store[Wrap(pcReadFrom + (k + 1))]
  BY LengthAssumption, <1>2 DEF RingInv, prvCopyDataFromQueue, Wrap, Cell
<1>4. /\ Contents' \in Seq(Item \cup {NoItem})
      /\ Len(Contents') = uxMessagesWaiting - 1
      /\ \A k \in 1..uxMessagesWaiting - 1 : Contents'[k] = store[Wrap(pcReadFrom + (k + 1))]
  <2>1. Contents' = [k \in 1..uxMessagesWaiting - 1 |-> store'[Wrap(pcReadFrom' + k)]]
    BY <1>2 DEF Contents, Wrap
  <2>2. \A k \in 1..uxMessagesWaiting - 1 :
          store'[Wrap(pcReadFrom' + k)] = store[Wrap(pcReadFrom + (k + 1))]
    BY <1>2, <1>3
  <2>3. \A k \in 1..uxMessagesWaiting - 1 :
          store[Wrap(pcReadFrom + (k + 1))] \in Item \cup {NoItem}
    BY LengthAssumption DEF RingInv, Wrap, Cell
  <2>4. uxMessagesWaiting - 1 \in Nat
    BY <1>2, LengthAssumption DEF RingInv
  <2> QED BY <2>1, <2>2, <2>3, <2>4
<1>5. Contents # <<>> /\ pvBuffer' = Head(Contents)
  BY ContentsSeq, <1>2 DEF prvCopyDataFromQueue, RingInv
<1>6. /\ Tail(Contents) \in Seq(Item \cup {NoItem})
      /\ Len(Tail(Contents)) = uxMessagesWaiting - 1
      /\ \A k \in 1..uxMessagesWaiting - 1 : Tail(Contents)[k] = Contents[k + 1]
  BY ContentsSeq, HeadTailProperties, <1>5
<1>7. ASSUME NEW k \in 1..uxMessagesWaiting - 1
      PROVE  Contents'[k] = Tail(Contents)[k]
  <2>1. k + 1 \in 1..uxMessagesWaiting
    BY LengthAssumption DEF RingInv
  <2>2. Contents[k + 1] = store[Wrap(pcReadFrom + (k + 1))]
    BY <2>1, ContentsSeq
  <2> QED BY <2>2, <1>4, <1>6
<1> QED BY <1>1, <1>4, <1>5, <1>6, <1>7, SeqEqual

-----------------------------------------------------------------------------
(* The strengthened invariant is inductive.                                *)

LEMMA InitIInv == Init => IInv
<1> QED BY LengthAssumption, TaskAssumption
       DEF Init, IInv, RingInv, CallInv, Wrap, Cell, Item

(* A reset leaves a ring with no items.                                    *)
LEMMA ResetRing ==
  ASSUME RingInv, xQueueReset
  PROVE  RingInv' /\ Contents' = <<>>
<1>1. RingInv'
  BY LengthAssumption DEF RingInv, xQueueReset, Wrap, Cell
<1> QED BY <1>1 DEF xQueueReset, Contents

(* The calls of the operations, and the steps in which they wait, leave    *)
(* the ring and the buffer alone.                                          *)
LEMMA WaitRing ==
  ASSUME NEW t, NEW ticks, Wait(t) \/ Recheck(t) \/ Call(t, ticks) \/ xTaskIncrementTick(t)
  PROVE  UNCHANGED <<ring, pvBuffer>>
<1> QED BY DEF Wait, Recheck, Call, xTaskIncrementTick, vTaskSuspendAll, prvLockQueue,
       xTaskCheckForTimeOut, Look, vTaskPlaceOnEventList, prvUnlockQueue, xTaskResumeAll

Place == {"idle", "try", "suspend", "lock", "check", "look",
          "place", "unlock", "resume", "recheck"}

calling == {t \in Task : pc[t] # "idle"}
refused == {s \in Senders : xEntryTimeSet[s]}

(* The return of a call is the return of the abstract one.                 *)
LEMMA Returning ==
  ASSUME CallInv, NEW t \in Task, pc[t] # "idle", Return(t)
  PROVE  CallInv' /\ Atomic!Return(t)
<1>1. CallInv'
  BY DEF CallInv, Return, Goto
<1>2. calling' = calling \ {t} /\ t \in calling
  BY DEF CallInv, Return, Goto, calling
<1>3. refused' = refused \ {t}
  BY DEF CallInv, Return, Goto, refused, Task
<1> QED BY <1>1, <1>2, <1>3 DEF Atomic!Return, calling, refused

(* A step within a call leaves the abstract call where it is.              *)
LEMMA Going ==
  ASSUME CallInv, NEW t \in Task, pc[t] # "idle",
         NEW at \in Place \ {"idle"}, Goto(t, at),
         at # "try" => xEntryTimeSet[t], UNCHANGED xEntryTimeSet
  PROVE  CallInv' /\ UNCHANGED <<calling, refused>>
<1>1. CallInv'
  BY DEF CallInv, Goto, Place
<1>2. calling' = calling
  BY DEF CallInv, Goto, calling
<1> QED BY <1>1, <1>2 DEF refused

(* The steps of waiting, but for the return of a sender, are stutters.     *)
LEMMA WaitStep ==
  ASSUME IInv, NEW t \in Task, Wait(t)
  PROVE  /\ CallInv'
         /\ \/ UNCHANGED <<calling, refused>>
            \/ t \in Senders /\ t \in refused /\ Atomic!Return(t)
<1> USE DEF IInv
<1>1. pc[t] \notin {"idle", "try"} /\ xEntryTimeSet[t]
  BY DEF Wait, CallInv, TaskAt, vTaskSuspendAll, prvLockQueue, xTaskCheckForTimeOut,
         Look, vTaskPlaceOnEventList, prvUnlockQueue, xTaskResumeAll
<1>2. CASE UNCHANGED xEntryTimeSet /\ \E at \in Place \ {"idle"} : Goto(t, at)
  BY <1>1, <1>2, Going
<1>3. CASE t \in Senders /\ Return(t)
  BY <1>1, <1>3, Returning DEF refused
<1> QED BY <1>2, <1>3
    DEF Wait, Place, vTaskSuspendAll, prvLockQueue, xTaskCheckForTimeOut,
        Look, vTaskPlaceOnEventList, prvUnlockQueue, xTaskResumeAll

(* A failure of a call in its first critical section.                      *)
LEMMA CannotGoOnStep ==
  ASSUME IInv, NEW t \in Task, pc[t] = "try", CannotGoOn(t)
  PROVE  /\ CallInv'
         /\ \/ Atomic!Return(t)
            \/ calling' = calling /\ refused' = refused \cup ({t} \cap Senders)
<1> USE DEF IInv
<1>1. CASE Return(t)
  BY <1>1, Returning
<1>2. CASE Goto(t, "suspend") /\ xEntryTimeSet' = [xEntryTimeSet EXCEPT ![t] = TRUE]
  <2>1. CallInv'
    BY <1>2 DEF CallInv, Goto
  <2>2. calling' = calling
    BY <1>2 DEF CallInv, Goto, calling
  <2>3. refused' = refused \cup ({t} \cap Senders)
    BY <1>2 DEF CallInv, refused, Task
  <2> QED BY <2>1, <2>2, <2>3
<1> QED BY <1>1, <1>2 DEF CannotGoOn

(* Without a step of the ring, the invariant of the ring stays.            *)
LEMMA RingStays ==
  ASSUME RingInv, UNCHANGED ring
  PROVE  RingInv' /\ Contents' = Contents
<1> QED BY DEF RingInv, ring, Contents, Wrap

-----------------------------------------------------------------------------
(* The steps of the code, one by one *)

LEMMA TrySendStep ==
  ASSUME IInv, NEW s \in Senders, TrySend(s)
  PROVE  IInv' /\ [Atomic!Next]_(Atomic!vars)
<1> USE DEF IInv
<1>0. s \in Task /\ s \in Item /\ pc[s] = "try"
  BY DEF TrySend, TaskAt, Task, Item
<1>1. CASE ~Full
  <2>1. prvCopyDataToQueue(s) /\ Return(s) /\ UNCHANGED pvBuffer
    BY <1>1 DEF TrySend
  <2>2. RingInv' /\ Contents' = Append(Contents, s) /\ Len(Contents) < uxLength
    BY <1>0, <1>1, <2>1, CopyTo
  <2>3. CallInv' /\ Atomic!Return(s)
    BY <1>0, <2>1, Returning
  <2>4. Atomic!Send(s)
    BY <2>1, <2>2, <2>3 DEF Atomic!Send, Atomic!Put
  <2> QED BY <2>2, <2>3, <2>4 DEF Atomic!Next
<1>2. CASE Full
  <2>1. CannotGoOn(s) /\ UNCHANGED <<ring, pvBuffer>>
    BY <1>2 DEF TrySend, CannotGoOn
  <2>2. RingInv' /\ Contents' = Contents
    BY <2>1, RingStays
  <2>3. Len(Contents) = uxLength
    BY <1>2, ContentsSeq DEF Full
  <2>4. CallInv'
    BY <1>0, <2>1, CannotGoOnStep
  <2>5. CASE Atomic!Return(s)
    BY <2>1, <2>2, <2>3, <2>4, <2>5 DEF Atomic!Next, Atomic!FailSend
  <2>6. CASE calling' = calling /\ refused' = refused \cup {s}
    <3>1. s \in calling
      BY <1>0 DEF calling
    <3>2. Atomic!Refuse(s)
      BY <3>1, <2>1, <2>2, <2>3, <2>6 DEF Atomic!Refuse, calling, refused
    <3> QED BY <2>2, <2>4, <3>2 DEF Atomic!Next
  <2> QED BY <1>0, <2>1, <2>5, <2>6, CannotGoOnStep
<1> QED BY <1>1, <1>2

LEMMA TryReceiveStep ==
  ASSUME IInv, NEW r \in Receivers, TryReceive(r)
  PROVE  IInv' /\ [Atomic!Next]_(Atomic!vars)
<1> USE DEF IInv
<1>0. r \in Task /\ r \notin Senders /\ pc[r] = "try"
  BY TaskAssumption DEF TryReceive, TaskAt, Task
<1>1. CASE ~Empty
  <2>1. prvCopyDataFromQueue /\ Return(r)
    BY <1>1 DEF TryReceive
  <2>2. /\ RingInv' /\ Contents # <<>>
        /\ Contents' = Tail(Contents) /\ pvBuffer' = Head(Contents)
    BY <1>1, <2>1, CopyFrom
  <2>3. CallInv' /\ Atomic!Return(r)
    BY <1>0, <2>1, Returning
  <2>4. Atomic!Receive(r)
    BY <2>2, <2>3 DEF Atomic!Receive
  <2> QED BY <2>2, <2>3, <2>4 DEF Atomic!Next
<1>2. CASE Empty
  <2>1. CannotGoOn(r) /\ UNCHANGED <<ring, pvBuffer>>
    BY <1>2 DEF TryReceive, CannotGoOn
  <2>2. RingInv' /\ Contents' = Contents
    BY <2>1, RingStays
  <2>3. Contents = <<>>
    BY <1>2, ContentsSeq DEF Empty
  <2>4. CallInv'
    BY <1>0, <2>1, CannotGoOnStep
  <2>5. CASE Atomic!Return(r)
    BY <2>1, <2>2, <2>3, <2>4, <2>5 DEF Atomic!Next, Atomic!FailReceive
  <2>6. CASE calling' = calling /\ refused' = refused
    BY <2>1, <2>2, <2>4, <2>6 DEF Atomic!vars, calling, refused
  <2> QED BY <1>0, <2>1, <2>5, <2>6, CannotGoOnStep
<1> QED BY <1>1, <1>2

LEMMA CallStep ==
  ASSUME IInv, NEW t \in Task, NEW ticks, Call(t, ticks)
  PROVE  IInv' /\ [Atomic!Next]_(Atomic!vars)
<1> USE DEF IInv
<1>1. RingInv' /\ Contents' = Contents /\ pvBuffer' = pvBuffer
  BY WaitRing, RingStays
<1>2. CallInv'
  BY DEF CallInv, Call, Goto
<1>3. Atomic!Call(t)
  <2>1. t \notin calling /\ calling' = calling \cup {t} /\ refused' = refused
    BY DEF CallInv, Call, TaskAt, Goto, calling, refused
  <2> QED BY <1>1, <2>1 DEF Atomic!Call, calling, refused
<1> QED BY <1>1, <1>2, <1>3 DEF Atomic!Next, Task

(* A sender that was in time to see room may yet fail, since it has seen   *)
(* the queue full before.                                                  *)
LEMMA WaitingStep ==
  ASSUME IInv, NEW t \in Task, Wait(t)
  PROVE  IInv' /\ [Atomic!Next]_(Atomic!vars)
<1> USE DEF IInv
<1>1. RingInv' /\ Contents' = Contents /\ pvBuffer' = pvBuffer
  BY WaitRing, RingStays
<1>2. CASE UNCHANGED <<calling, refused>>
  BY <1>1, <1>2, WaitStep DEF Atomic!vars, calling, refused
<1>3. CASE t \in Senders /\ t \in refused /\ Atomic!Return(t)
  <2>1. Atomic!FailSend(t)
    BY <1>1, <1>3 DEF Atomic!FailSend, refused
  <2> QED BY <1>1, <1>3, <2>1, WaitStep DEF Atomic!Next
<1> QED BY <1>2, <1>3, WaitStep

LEMMA RecheckStep ==
  ASSUME IInv, NEW r \in Receivers, Recheck(r)
  PROVE  IInv' /\ [Atomic!Next]_(Atomic!vars)
<1> USE DEF IInv
<1>0. r \in Task /\ pc[r] = "recheck"
  BY DEF Recheck, TaskAt, Task
<1>1. RingInv' /\ Contents' = Contents /\ pvBuffer' = pvBuffer
  BY WaitRing, RingStays
<1>2. CASE Empty /\ Return(r)
  <2>1. CallInv' /\ Atomic!Return(r)
    BY <1>0, <1>2, Returning
  <2>2. Contents = <<>>
    BY <1>2, ContentsSeq DEF Empty
  <2> QED BY <1>1, <2>1, <2>2 DEF Atomic!Next, Atomic!FailReceive
<1>3. CASE Goto(r, "try") /\ UNCHANGED xEntryTimeSet
  <2>1. CallInv' /\ UNCHANGED <<calling, refused>>
    BY <1>0, <1>3, Going DEF Place
  <2> QED BY <1>1, <2>1 DEF Atomic!vars, calling, refused
<1> QED BY <1>2, <1>3 DEF Recheck

LEMMA FromISRStep ==
  ASSUME IInv, xQueueGenericSendFromISR
  PROVE  IInv' /\ [Atomic!Next]_(Atomic!vars)
<1> USE DEF IInv
<1>1. ~Full /\ prvCopyDataToQueue(ISR) /\ ISR \in Item /\ UNCHANGED <<caller, pvBuffer>>
  BY DEF xQueueGenericSendFromISR, Item
<1>2. RingInv' /\ Contents' = Append(Contents, ISR) /\ Len(Contents) < uxLength
  BY <1>1, CopyTo
<1>3. CallInv' /\ UNCHANGED <<calling, refused>>
  BY <1>1 DEF CallInv, caller, calling, refused
<1>4. Atomic!SendFromISR
  BY <1>1, <1>2, <1>3 DEF Atomic!SendFromISR, Atomic!Put, calling, refused
<1> QED BY <1>2, <1>3, <1>4 DEF Atomic!Next

LEMMA ResetStep ==
  ASSUME IInv, xQueueReset
  PROVE  IInv' /\ [Atomic!Next]_(Atomic!vars)
<1> USE DEF IInv
<1>1. RingInv' /\ Contents' = <<>>
  BY ResetRing
<1>2. CallInv' /\ UNCHANGED <<calling, refused, pvBuffer>>
  BY DEF xQueueReset, CallInv, caller, calling, refused
<1>3. Atomic!Reset
  BY <1>1, <1>2 DEF Atomic!Reset, calling, refused
<1> QED BY <1>1, <1>2, <1>3 DEF Atomic!Next

LEMMA TickStep ==
  ASSUME IInv, NEW t \in Task, xTaskIncrementTick(t)
  PROVE  IInv' /\ [Atomic!Next]_(Atomic!vars)
<1> USE DEF IInv
<1>1. RingInv' /\ Contents' = Contents /\ pvBuffer' = pvBuffer
  BY WaitRing, RingStays
<1>2. CallInv' /\ UNCHANGED <<calling, refused>>
  BY DEF xTaskIncrementTick, CallInv, calling, refused
<1> QED BY <1>1, <1>2 DEF Atomic!vars, calling, refused

LEMMA NextStep ==
  ASSUME IInv, [Next]_vars
  PROVE  IInv' /\ [Atomic!Next]_(Atomic!vars)
<1>1. ASSUME NEW t \in Task, NEW ticks \in {"none", "finite", "forever"}, Call(t, ticks)
      PROVE  IInv' /\ [Atomic!Next]_(Atomic!vars)
  BY <1>1, CallStep
<1>2. ASSUME NEW s \in Senders, SenderStep(s)
      PROVE  IInv' /\ [Atomic!Next]_(Atomic!vars)
  BY <1>2, TrySendStep, WaitingStep DEF SenderStep, Task
<1>3. ASSUME NEW r \in Receivers, ReceiverStep(r)
      PROVE  IInv' /\ [Atomic!Next]_(Atomic!vars)
  BY <1>3, TryReceiveStep, WaitingStep, RecheckStep DEF ReceiverStep, Task
<1>4. ASSUME NEW t \in Task, xTaskIncrementTick(t)
      PROVE  IInv' /\ [Atomic!Next]_(Atomic!vars)
  BY <1>4, TickStep
<1>5. CASE UNCHANGED vars
  <2>1. RingInv' /\ Contents' = Contents
    BY <1>5, RingStays DEF IInv, vars
  <2>2. CallInv' /\ UNCHANGED <<calling, refused, pvBuffer>>
    BY <1>5 DEF IInv, CallInv, vars, caller, calling, refused
  <2> QED BY <2>1, <2>2 DEF IInv, Atomic!vars, calling, refused
<1> QED BY <1>1, <1>2, <1>3, <1>4, <1>5, FromISRStep, ResetStep DEF Next

-----------------------------------------------------------------------------
(* The ring's pointers and its count agree, whatever the interleaving of   *)
(* tasks, interrupts, ticks and resets; a call that waits has been refused *)
(* before.                                                                 *)
THEOREM RingConsistent == Spec => []IInv
<1>1. Init => IInv
  BY InitIInv
<1>2. IInv /\ [Next]_vars => IInv'
  BY NextStep
<1> QED BY <1>1, <1>2, PTL DEF Spec

LEMMA InitMaps == Init => Atomic!Init
<1> SUFFICES ASSUME Init PROVE Atomic!Init
  OBVIOUS
<1>1. Contents = <<>>
  BY DEF Init, Contents
<1> QED BY <1>1 DEF Init, Atomic!Init, Task

(* The FreeRTOS queue implements the abstract one: each call takes effect  *)
(* at one moment, items leave in the order in which they came, a receiver  *)
(* fails only at an empty queue, a sender only after a full one.           *)
THEOREM QueueIsAtomic == Spec => ImplementsQueue
<1>1. Init => Atomic!Init
  BY InitMaps
<1>2. IInv /\ [Next]_vars => [Atomic!Next]_(Atomic!vars)
  BY NextStep
<1> QED BY <1>1, <1>2, RingConsistent, PTL DEF Spec, ImplementsQueue, Atomic!Spec
=============================================================================
