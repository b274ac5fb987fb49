---------------------------- MODULE NetDev_proofs ----------------------------
(***************************************************************************)
(* Proofs about the network devices, for any queue size, any number of     *)
(* frames and of failing allocations.                                      *)
(***************************************************************************)
EXTENDS NetDev, SequenceTheorems, FiniteSetTheorems, TLAPS

USE QueueAssumption, BoundsAssumption

(* The type invariant is not inductive alone: what process_rx_task puts in *)
(* a queue, or gives to lwIP, must be a frame.                             *)
TypeInv == TypeOK /\ (rx \in {"send", "input"} => buf \in Frame)

(* A frame that has been put in the queue is there until it is read.       *)
FrameInv == rx \in {"call", "read"} => rx_q[dev] # <<>>

(* An interface that lwIP has belongs to a device that has its handle.     *)
HandleInv ==
  /\ opener \in {"add", "configure"} => net_handle[opening]
  /\ \A i \in Interface : netif[i] # "none" => net_handle[i]
  /\ undefined = "null handle" => ~net_handle[dev]
  /\ undefined = "null input" => netif[dev] = "none"

IInv == TypeInv /\ FrameInv /\ HandleInv /\ LagIsFailures /\ ReadFindsFrame

LEMMA QueueGet ==
  ASSUME NEW q \in Seq(Frame), q # <<>>
  PROVE  /\ Head(q) \in Frame /\ Tail(q) \in Seq(Frame)
         /\ Len(Tail(q)) = Len(q) - 1 /\ Len(q) \in Nat \ {0}
  BY HeadTailProperties, LenProperties, EmptySeq

LEMMA QueuePut ==
  ASSUME NEW q \in Seq(Frame), NEW f \in Frame
  PROVE  /\ Append(q, f) \in Seq(Frame) /\ Append(q, f) # <<>>
         /\ Len(Append(q, f)) = Len(q) + 1 /\ Len(q) \in Nat
  BY AppendProperties, LenProperties

LEMMA QueueSet ==
  ASSUME NEW q \in Seq(Frame)
  PROVE  ToSet(q) \subseteq Frame
<1> QED BY ElementOfSeq, LenProperties DEF ToSet

LEMMA Types ==
  ASSUME IInv
  PROVE  /\ TypeOK /\ LagIsFailures /\ dev \in Interface /\ opening \in Interface
         /\ rx_q \in [Interface -> Seq(Frame)]
         /\ \A j \in Interface : rx_q[j] \in Seq(Frame) /\ Len(rx_q[j]) <= RX_QUEUE_SIZE
         /\ missed \in [Interface -> 0..MaxMissed] /\ \A j \in Interface : missed[j] \in Nat
         /\ count \in 0..MaxFrames /\ frees \in [Frame -> Nat] /\ lost \subseteq Frame
<1>1. TypeOK /\ LagIsFailures
  BY DEF IInv, TypeInv
<1>2. missed \in [Interface -> 0..MaxMissed]
  BY <1>1 DEF TypeOK
<1>3. \A j \in Interface : missed[j] \in Nat
  BY <1>2
<1> QED BY <1>1, <1>2, <1>3 DEF TypeOK

LEMMA InitIInv == Init => IInv
<1> QED BY EmptySeq DEF Init, IInv, TypeInv, TypeOK, FrameInv, HandleInv, LagIsFailures,
       ReadFindsFrame, Interface, Frame

-----------------------------------------------------------------------------
(* The steps of the default task.  process_rx_task is not between the      *)
(* putting and the reading of a frame.                                     *)
LEMMA OpenStep ==
  ASSUME IInv, NEW i \in Interface, OpenDevice(i)
  PROVE  IInv'
<1> USE DEF IInv
<1>1. TypeInv'
  <2>1. lost' \subseteq Frame
    BY Types, QueueSet DEF OpenDevice, netdev_open
  <2>2. /\ rx_q' \in [Interface -> Seq(Frame)]
        /\ \A j \in Interface : Len(rx_q'[j]) <= RX_QUEUE_SIZE
    <3>1. rx_q' = [rx_q EXCEPT ![i] = <<>>]
      BY DEF OpenDevice, netdev_open
    <3>2. <<>> \in Seq(Frame) /\ Len(<<>>) <= RX_QUEUE_SIZE
      BY EmptySeq
    <3> QED BY <3>1, <3>2, Types
  <2> QED BY <2>1, <2>2
      DEF OpenDevice, netdev_open, Starts, OpenerAt, TypeInv, TypeOK, handler, Interface
<1>2. FrameInv'
  BY DEF OpenDevice, Starts, OpenerAt, OpenerRuns, FrameInv, handler
<1>3. HandleInv'
  BY DEF OpenDevice, Starts, OpenerAt, netdev_open, HandleInv, handler
<1>4. LagIsFailures'
  <2> SUFFICES ASSUME NEW j \in Interface
               PROVE  Len(rx_q'[j]) <= missed'[j]
                        + (IF dev' = j /\ rx' \in {"call", "read"} THEN 1 ELSE 0)
    BY DEF LagIsFailures
  <2>1. missed[j] \in Nat /\ Len(<<>>) = 0
    BY Types
  <2>2. rx_q'[j] = rx_q[j] \/ rx_q'[j] = <<>>
    BY Types DEF OpenDevice, netdev_open
  <2> QED BY <2>1, <2>2 DEF OpenDevice, LagIsFailures, handler
<1>5. ReadFindsFrame'
  BY DEF OpenDevice, ReadFindsFrame
<1> QED BY <1>1, <1>2, <1>3, <1>4, <1>5

(* What the default task cannot allocate changes no device.                *)
LEMMA FailsAlone ==
  ASSUME NEW i \in Interface, WriteNullHandle(i) \/ FailOpen(i)
  PROVE  /\ UNCHANGED <<devices, netif, handler, count, missed, history>>
         /\ undefined' \in {undefined, "null new handle"}
         /\ \/ UNCHANGED <<opener, opening>>
            \/ opener' = "halted" /\ opening' = i
<1> QED BY DEF WriteNullHandle, FailOpen, start

LEMMA FailStep ==
  ASSUME IInv, NEW i \in Interface, WriteNullHandle(i) \/ FailOpen(i)
  PROVE  IInv'
<1>1. UNCHANGED <<state, rx_q, net_handle, netif, rx, dev, buf, count, missed, frees, lost, delivered>>
  BY FailsAlone DEF devices, handler, history
<1>2. TypeInv'
  BY <1>1, FailsAlone DEF IInv, TypeInv, TypeOK
<1>3. FrameInv' /\ LagIsFailures' /\ ReadFindsFrame'
  BY <1>1, FailsAlone DEF IInv, FrameInv, LagIsFailures, ReadFindsFrame
<1>4. HandleInv'
  BY <1>1, FailsAlone DEF IInv, HandleInv
<1> QED BY <1>2, <1>3, <1>4 DEF IInv

LEMMA StartStep ==
  ASSUME IInv, Publish \/ AddInterface \/ Configure
  PROVE  IInv'
<1> USE DEF IInv
<1>1. UNCHANGED <<rx_q, handler, count, missed, history, undefined>>
  BY DEF Publish, AddInterface, Configure, devices
<1>2. TypeInv'
  BY <1>1 DEF Publish, AddInterface, Configure, devices, handler, history, TypeInv, TypeOK
<1>3. FrameInv' /\ LagIsFailures' /\ ReadFindsFrame'
  BY <1>1 DEF handler, FrameInv, LagIsFailures, ReadFindsFrame
<1>4. HandleInv'
  <2>1. CASE Publish
    <3>1. /\ net_handle' = [net_handle EXCEPT ![opening] = TRUE] /\ undefined = "no"
          /\ opening' = opening /\ netif' = netif
      BY <2>1 DEF Publish, OpenerAt
    <3>2. net_handle'[opening] /\ \A j \in Interface : net_handle[j] => net_handle'[j]
      BY <3>1, Types DEF TypeOK
    <3> QED BY <1>1, <3>1, <3>2 DEF HandleInv
  <2>2. CASE AddInterface \/ Configure
    <3>1. /\ opener \in {"add", "configure"} /\ undefined = "no"
          /\ opening' = opening /\ net_handle' = net_handle
      BY <2>2 DEF AddInterface, Configure, OpenerAt, devices
    <3>2. \A j \in Interface \ {opening} : netif'[j] = netif[j]
      BY <2>2, Types DEF AddInterface, Configure, TypeOK
    <3> QED BY <1>1, <3>1, <3>2 DEF HandleInv
  <2> QED BY <2>1, <2>2
<1> QED BY <1>2, <1>3, <1>4

-----------------------------------------------------------------------------
(* The steps of process_rx_task.                                           *)
LEMMA ArriveStep ==
  ASSUME IInv, NEW i \in Interface, Accept(i) \/ Drop(i)
  PROVE  IInv'
<1> USE DEF IInv
<1>1. count + 1 \in Frame /\ rx = "idle" /\ undefined = "no" /\ undefined' = "no"
  BY Types DEF Accept, Drop, HandlerAt, Frame
<1>2. rx_q' = rx_q /\ missed' = missed /\ rx' \in {"send", "delay"}
  BY DEF Accept, Drop, devices
<1>3. TypeInv'
  <2>1. /\ UNCHANGED <<state, rx_q, net_handle, netif, opener, opening, missed, lost, delivered>>
        /\ rx' \in {"send", "delay"} /\ dev' = i
        /\ buf' = buf \/ buf' = count + 1
        /\ rx' = "send" => buf' = count + 1
        /\ count' = count + 1
    BY DEF Accept, Drop, devices, start, history
  <2>2. \/ frees' = frees
        \/ frees' = [frees EXCEPT ![count + 1] = frees[count + 1] + 1]
    BY DEF Accept, Drop, Free, history
  <2>3. frees' \in [Frame -> Nat]
    <3>1. frees \in [Frame -> Nat]
      BY Types
    <3>2. frees[count + 1] + 1 \in Nat
      BY <1>1, <3>1
    <3> QED BY <1>1, <2>2, <3>1, <3>2
  <2>4. buf' \in 0..MaxFrames /\ count' \in 0..MaxFrames
    <3>1. buf \in 0..MaxFrames /\ count + 1 \in 0..MaxFrames
      BY <1>1, Types DEF TypeOK, Frame
    <3> QED BY <2>1, <3>1
  <2> QED BY <1>1, <2>1, <2>3, <2>4 DEF TypeInv, TypeOK
<1>4. FrameInv' /\ ReadFindsFrame'
  BY <1>1, <1>2 DEF FrameInv, ReadFindsFrame
<1>5. HandleInv'
  BY <1>1 DEF Accept, Drop, HandleInv, devices, start
<1>6. LagIsFailures'
  BY <1>1, <1>2 DEF LagIsFailures
<1> QED BY <1>3, <1>4, <1>5, <1>6

LEMMA QueueStep ==
  ASSUME IInv, Queue
  PROVE  IInv'
<1> USE DEF IInv
<1>1. /\ buf \in Frame /\ dev \in Interface /\ rx_q[dev] \in Seq(Frame)
      /\ rx_q' = [rx_q EXCEPT ![dev] = Append(rx_q[dev], buf)]
      /\ Len(rx_q[dev]) < RX_QUEUE_SIZE /\ rx = "send" /\ rx' = "call" /\ dev' = dev
      /\ missed' = missed
  BY DEF Queue, HandlerAt, HasRoom, xQueueSend, TypeInv, TypeOK
<1>2. /\ rx_q'[dev] \in Seq(Frame) /\ rx_q'[dev] # <<>>
      /\ Len(rx_q'[dev]) = Len(rx_q[dev]) + 1 /\ Len(rx_q[dev]) \in Nat
      /\ \A j \in Interface \ {dev} : rx_q'[j] = rx_q[j]
  BY <1>1, QueuePut DEF TypeInv, TypeOK
<1>3. TypeInv'
  <2>1. /\ rx_q' \in [Interface -> Seq(Frame)]
        /\ \A j \in Interface : Len(rx_q'[j]) <= RX_QUEUE_SIZE
    BY <1>1, <1>2, Types
  <2>2. /\ UNCHANGED <<state, net_handle, netif, opener, opening, count, frees, lost,
                       delivered, undefined>>
        /\ buf' = 0
    BY DEF Queue, start, history
  <2>3. TypeOK /\ buf' \in 0..MaxFrames
    BY <2>2, Types
  <2> QED BY <1>1, <2>1, <2>2, <2>3 DEF TypeInv, TypeOK
<1>4. FrameInv'
  BY <1>1, <1>2 DEF FrameInv
<1>5. HandleInv' /\ ReadFindsFrame'
  BY DEF Queue, HandleInv, ReadFindsFrame, start
<1>6. LagIsFailures'
  <2> SUFFICES ASSUME NEW j \in Interface
               PROVE  Len(rx_q'[j]) <= missed[j] + (IF dev = j THEN 1 ELSE 0)
    BY <1>1 DEF LagIsFailures
  <2>1. missed[j] \in Nat
    BY Types
  <2>2. Len(rx_q[j]) <= missed[j]
    BY <1>1, <2>1 DEF LagIsFailures
  <2> QED BY <1>1, <1>2, <2>1, <2>2
<1> QED BY <1>3, <1>4, <1>5, <1>6

LEMMA ReadStep ==
  ASSUME IInv, ReadFrame
  PROVE  IInv'
<1> USE DEF IInv
<1>1. /\ rx = "read" /\ undefined = "no" /\ dev \in Interface /\ dev' = dev
      /\ rx_q[dev] \in Seq(Frame) /\ rx_q[dev] # <<>> /\ missed' = missed
  BY DEF ReadFrame, HandlerAt, FrameInv, TypeInv, TypeOK
<1>2. /\ rx_q' = [rx_q EXCEPT ![dev] = Tail(rx_q[dev])]
      /\ rx' = "input" /\ buf' = Head(rx_q[dev]) /\ undefined' = "no"
  BY <1>1 DEF ReadFrame
<1>3. /\ rx_q'[dev] \in Seq(Frame) /\ buf' \in Frame
      /\ Len(rx_q'[dev]) = Len(rx_q[dev]) - 1 /\ Len(rx_q[dev]) \in Nat
      /\ \A j \in Interface \ {dev} : rx_q'[j] = rx_q[j]
  BY <1>1, <1>2, QueueGet DEF TypeInv, TypeOK
<1>4. TypeInv'
  <2>1. /\ rx_q' \in [Interface -> Seq(Frame)]
        /\ \A j \in Interface : Len(rx_q'[j]) <= RX_QUEUE_SIZE
    BY <1>2, <1>3, Types
  <2>2. UNCHANGED <<state, net_handle, netif, opener, opening, count, frees, lost, delivered>>
    BY DEF ReadFrame, start, history
  <2>3. buf' \in 0..MaxFrames
    BY <1>3 DEF Frame
  <2> QED BY <1>1, <1>2, <1>3, <2>1, <2>2, <2>3 DEF TypeInv, TypeOK
<1>5. FrameInv' /\ ReadFindsFrame'
  BY <1>2 DEF FrameInv, ReadFindsFrame
<1>6. HandleInv'
  BY <1>1, <1>2 DEF ReadFrame, HandleInv, start
<1>7. LagIsFailures'
  <2> SUFFICES ASSUME NEW j \in Interface
               PROVE  Len(rx_q'[j]) <= missed[j]
    BY <1>1, <1>2 DEF LagIsFailures, TypeInv, TypeOK
  <2>1. missed[j] \in Nat
    BY Types
  <2>2. Len(rx_q[j]) <= missed[j] + (IF dev = j THEN 1 ELSE 0)
    BY <1>1, <2>1 DEF LagIsFailures
  <2> QED BY <1>1, <1>3, <2>1, <2>2
<1> QED BY <1>4, <1>5, <1>6, <1>7

(* The steps that leave the queues alone.                                  *)
LEMMA HandOverTypes ==
  ASSUME IInv, HandOver
  PROVE  TypeInv'
<1>1. TypeOK /\ buf \in Frame /\ dev \in Interface
  BY DEF IInv, TypeInv, TypeOK, HandOver, HandlerAt
<1>2. /\ rx = "input"
      /\ UNCHANGED <<state, rx_q, net_handle, netif, opener, opening, count, missed, lost, dev>>
      /\ undefined' \in {"no", "null input", "null packet"}
  BY DEF HandOver, HandlerAt, devices, start, handler
<1>3. \/ rx' = "input" /\ buf' = buf
      \/ rx' = "idle" /\ buf' = 0
  BY <1>2 DEF HandOver, handler
<1>4. delivered' \in [Interface -> Seq(Frame)]
  <2>1. delivered \in [Interface -> Seq(Frame)] /\ delivered[dev] \in Seq(Frame)
    BY <1>1 DEF TypeOK
  <2>2. Append(delivered[dev], buf) \in Seq(Frame)
    BY <1>1, <2>1, QueuePut
  <2>3. \/ UNCHANGED delivered
        \/ delivered' = [delivered EXCEPT ![dev] = Append(delivered[dev], buf)]
    BY DEF HandOver, Input
  <2> QED BY <2>1, <2>2, <2>3
<1>5. frees' \in [Frame -> Nat]
  <2>1. frees \in [Frame -> Nat]
    BY <1>1 DEF TypeOK
  <2>2. frees[buf] + 1 \in Nat
    BY <1>1, <2>1
  <2>3. \/ UNCHANGED frees
        \/ frees' = [frees EXCEPT ![buf] = frees[buf] + 1]
    BY DEF HandOver, FreePayload, Free
  <2> QED BY <2>1, <2>2, <2>3
<1>6. rx' \in {"idle", "input"} /\ buf' \in 0..MaxFrames /\ (rx' = "input" => buf' \in Frame)
  BY <1>1, <1>3 DEF Frame
<1> QED BY <1>1, <1>2, <1>4, <1>5, <1>6 DEF TypeInv, TypeOK

LEMMA OtherTypes ==
  ASSUME IInv, osDelay \/ CallBack \/ MissFrame
  PROVE  TypeInv'
<1>1. TypeOK
  BY DEF IInv, TypeInv
<1>2. /\ UNCHANGED <<state, rx_q, net_handle, netif, opener, opening, count, dev, buf,
                     frees, lost, delivered>>
      /\ rx' \in {"idle", "call", "read"}
      /\ undefined' \in {"no", "null handle"}
  BY DEF osDelay, CallBack, MissFrame, HandlerAt, HasCallback, devices, start, history
<1>3. missed' \in [Interface -> 0..MaxMissed]
  <2>1. missed \in [Interface -> 0..MaxMissed] /\ dev \in Interface
    BY <1>1 DEF TypeOK
  <2>2. \/ missed' = missed
        \/ missed[dev] < MaxMissed /\ missed' = [missed EXCEPT ![dev] = missed[dev] + 1]
    BY DEF osDelay, CallBack, MissFrame
  <2> QED BY <2>1, <2>2
<1> QED BY <1>1, <1>2, <1>3 DEF TypeInv, TypeOK

LEMMA OtherLag ==
  ASSUME IInv, osDelay \/ CallBack \/ MissFrame \/ HandOver
  PROVE  LagIsFailures'
<1>1. TypeOK /\ LagIsFailures
  BY DEF IInv, TypeInv
<1>2. rx_q' = rx_q /\ dev' = dev
  BY DEF osDelay, CallBack, MissFrame, HandOver, devices, handler
<1>3. missed \in [Interface -> 0..MaxMissed] /\ dev \in Interface
  BY <1>1 DEF TypeOK
<1> SUFFICES ASSUME NEW j \in Interface
             PROVE  Len(rx_q[j]) <= missed'[j]
                      + (IF dev = j /\ rx' \in {"call", "read"} THEN 1 ELSE 0)
  BY <1>2 DEF LagIsFailures
<1>4. missed[j] \in Nat
  BY <1>3
<1>5. rx_q[j] \in Seq(Frame)
  BY <1>1 DEF TypeOK
<1>6. Len(rx_q[j]) \in Nat
  BY <1>5, LenProperties
<1>7. Len(rx_q[j]) <= missed[j] + (IF dev = j /\ rx \in {"call", "read"} THEN 1 ELSE 0)
  BY <1>1 DEF LagIsFailures
<1>8. CASE MissFrame
  <2>1. rx = "read" /\ rx' = "idle" /\ missed' = [missed EXCEPT ![dev] = missed[dev] + 1]
    BY <1>8 DEF MissFrame, HandlerAt
  <2>2. missed'[j] = missed[j] + (IF dev = j THEN 1 ELSE 0)
    BY <1>3, <1>4, <2>1
  <2> QED BY <1>4, <1>6, <1>7, <2>1, <2>2
<1>9. CASE osDelay \/ CallBack \/ HandOver
  <2>1. missed' = missed /\ (rx' \in {"call", "read"} <=> rx \in {"call", "read"})
    BY <1>9 DEF osDelay, CallBack, HandOver, HandlerAt, HasCallback, handler
  <2> QED BY <1>7, <2>1
<1> QED BY <1>8, <1>9

LEMMA OtherStep ==
  ASSUME IInv, osDelay \/ CallBack \/ MissFrame \/ HandOver
  PROVE  IInv'
<1>1. /\ UNCHANGED <<rx_q, net_handle, netif, opener, opening, dev>>
      /\ undefined = "no" /\ undefined' # "no frame"
  BY DEF osDelay, CallBack, MissFrame, HandOver, HandlerAt, devices, start, handler
<1>2. TypeInv'
  BY HandOverTypes, OtherTypes
<1>3. rx' \in {"call", "read"} => rx \in {"call", "read"}
  BY DEF osDelay, CallBack, MissFrame, HandOver, HandlerAt, HasCallback, handler
<1>4. FrameInv' /\ ReadFindsFrame'
  BY <1>1, <1>3 DEF IInv, FrameInv, ReadFindsFrame
<1>5. /\ undefined' = "null handle" => ~net_handle[dev]
      /\ undefined' = "null input" => netif[dev] = "none"
  BY <1>1 DEF osDelay, CallBack, MissFrame, HandOver
<1>6. HandleInv'
  BY <1>1, <1>5 DEF IInv, HandleInv
<1>7. LagIsFailures'
  BY OtherLag
<1> QED BY <1>2, <1>4, <1>6, <1>7 DEF IInv

LEMMA StutterStep ==
  ASSUME IInv, UNCHANGED vars
  PROVE  IInv'
<1>1. UNCHANGED <<state, rx_q, net_handle, netif, opener, opening, rx, dev, buf, count, missed,
                  frees, lost, delivered, undefined>>
  BY DEF vars, devices, start, handler, history
<1>2. TypeInv'
  BY <1>1 DEF IInv, TypeInv, TypeOK
<1> QED BY <1>1, <1>2 DEF IInv, FrameInv, HandleInv, LagIsFailures, ReadFindsFrame

LEMMA NextStep == IInv /\ [Next]_vars => IInv'
<1> QED BY OpenStep, FailStep, StartStep, ArriveStep, QueueStep, ReadStep, OtherStep, StutterStep
       DEF Next, Handle, Quiescent

LEMMA Invariance == Spec => []IInv
<1> QED BY InitIInv, NextStep, PTL DEF Spec

-----------------------------------------------------------------------------
(* The queues keep to their sizes, and only frames are in them.            *)
THEOREM TypeCorrect == Spec => []TypeOK
<1>1. IInv => TypeOK
  BY DEF IInv, TypeInv
<1> QED BY <1>1, Invariance, PTL

(* network_read, which does not look whether it got a frame, always does.  *)
THEOREM ReadsFrame == Spec => []ReadFindsFrame
<1>1. IInv => ReadFindsFrame
  BY DEF IInv
<1> QED BY <1>1, Invariance, PTL

(* Frames meet no null handle and no null input function once their        *)
(* interface was added: not when a device is opened again, and not when    *)
(* an allocation fails on the way.                                         *)
THEOREM NoNullOnceStarted == Spec => []SafeOnceStarted
<1>1. IInv => SafeOnceStarted
  BY DEF IInv, TypeInv, TypeOK, HandleInv, SafeOnceStarted
<1> QED BY <1>1, Invariance, PTL

(* A device lags by one frame for each failed allocation, and no more.     *)
THEOREM LagBounded == Spec => []LagIsFailures
<1>1. IInv => LagIsFailures
  BY DEF IInv
<1> QED BY <1>1, Invariance, PTL

-----------------------------------------------------------------------------
(* The order of the frames.  On the way to lwIP a frame is held, queued,   *)
(* held again and delivered; its number is below those of the frames of    *)
(* the same device that are further up.                                    *)

Rising(q) == \A m, n \in 1..Len(q) : m < n => q[m] < q[n]

OrderInv ==
  /\ \A i \in Interface :
       /\ Rising(delivered[i]) /\ Rising(rx_q[i])
       /\ \A m \in 1..Len(delivered[i]) : delivered[i][m] <= count
       /\ \A n \in 1..Len(rx_q[i]) : rx_q[i][n] <= count
       /\ \A m \in 1..Len(delivered[i]), n \in 1..Len(rx_q[i]) : delivered[i][m] < rx_q[i][n]
  /\ buf <= count
  /\ rx = "send" => /\ \A m \in 1..Len(delivered[dev]) : delivered[dev][m] < buf
                    /\ \A n \in 1..Len(rx_q[dev]) : rx_q[dev][n] < buf
  /\ rx = "input" => /\ \A m \in 1..Len(delivered[dev]) : delivered[dev][m] < buf
                     /\ \A n \in 1..Len(rx_q[dev]) : buf < rx_q[dev][n]

LEMMA RisingPut ==
  ASSUME NEW q \in Seq(Frame), NEW f \in Frame
  PROVE  /\ Len(Append(q, f)) = Len(q) + 1 /\ Len(q) \in Nat
         /\ \A m \in 1..Len(Append(q, f)) : (m \in 1..Len(q) /\ Append(q, f)[m] = q[m])
                                             \/ Append(q, f)[m] = f
         /\ Rising(q) /\ (\A m \in 1..Len(q) : q[m] < f) => Rising(Append(q, f))
<1> USE DEF Rising
<1>1. /\ Len(Append(q, f)) = Len(q) + 1 /\ Len(q) \in Nat
      /\ \A m \in 1..Len(q) : Append(q, f)[m] = q[m]
      /\ Append(q, f)[Len(q) + 1] = f
  BY AppendProperties, LenProperties
<1>2. \A m \in 1..Len(Append(q, f)) : m \in 1..Len(q) \/ m = Len(q) + 1
  BY <1>1
<1>3. ASSUME Rising(q), \A m \in 1..Len(q) : q[m] < f,
             NEW m \in 1..Len(Append(q, f)), NEW n \in 1..Len(Append(q, f)), m < n
      PROVE  Append(q, f)[m] < Append(q, f)[n]
  <2>1. m \in 1..Len(q)
    BY <1>1, <1>3
  <2>2. CASE n \in 1..Len(q)
    BY <1>1, <1>3, <2>1, <2>2
  <2>3. CASE n = Len(q) + 1
    BY <1>1, <1>3, <2>1, <2>3
  <2> QED BY <1>2, <2>2, <2>3
<1> QED BY <1>1, <1>2, <1>3

LEMMA RisingGet ==
  ASSUME NEW q \in Seq(Frame), q # <<>>
  PROVE  /\ Head(q) = q[1] /\ 1 \in 1..Len(q)
         /\ \A m \in 1..Len(Tail(q)) : m + 1 \in 1..Len(q) /\ Tail(q)[m] = q[m + 1]
         /\ Rising(q) => Rising(Tail(q)) /\ \A m \in 1..Len(Tail(q)) : Head(q) < Tail(q)[m]
<1> USE DEF Rising
<1>1. /\ Len(Tail(q)) = Len(q) - 1 /\ Len(q) \in Nat \ {0}
      /\ \A m \in 1..Len(Tail(q)) : Tail(q)[m] = q[m + 1]
      /\ Head(q) = q[1]
  BY HeadTailProperties, LenProperties, EmptySeq
<1>2. 1 \in 1..Len(q) /\ \A m \in 1..Len(Tail(q)) : m + 1 \in 1..Len(q)
  BY <1>1
<1>3. ASSUME Rising(q), NEW m \in 1..Len(Tail(q)), NEW n \in 1..Len(Tail(q)), m < n
      PROVE  Tail(q)[m] < Tail(q)[n]
  <2>1. m + 1 \in 1..Len(q) /\ n + 1 \in 1..Len(q) /\ m + 1 < n + 1
    BY <1>1, <1>2, <1>3
  <2> QED BY <1>1, <1>3, <2>1
<1>4. ASSUME Rising(q), NEW m \in 1..Len(Tail(q))
      PROVE  Head(q) < Tail(q)[m]
  <2>1. m + 1 \in 1..Len(q) /\ 1 < m + 1
    BY <1>1, <1>2
  <2> QED BY <1>1, <1>2, <1>4, <2>1
<1> QED BY <1>1, <1>2, <1>3, <1>4

LEMMA Elements ==
  ASSUME IInv
  PROVE  /\ delivered \in [Interface -> Seq(Frame)] /\ rx_q \in [Interface -> Seq(Frame)]
         /\ \A i \in Interface : delivered[i] \in Seq(Frame) /\ rx_q[i] \in Seq(Frame)
         /\ \A i \in Interface : \A m \in 1..Len(delivered[i]) : delivered[i][m] \in Frame
         /\ \A i \in Interface : \A n \in 1..Len(rx_q[i]) : rx_q[i][n] \in Frame
         /\ dev \in Interface /\ buf \in Int /\ count \in Int /\ 0 <= count
<1>1. /\ delivered \in [Interface -> Seq(Frame)] /\ rx_q \in [Interface -> Seq(Frame)]
      /\ dev \in Interface /\ buf \in 0..MaxFrames /\ count \in 0..MaxFrames
  BY DEF IInv, TypeInv, TypeOK
<1>2. \A i \in Interface : delivered[i] \in Seq(Frame) /\ rx_q[i] \in Seq(Frame)
  BY <1>1
<1>3. buf \in Int /\ count \in Int /\ 0 <= count
  BY <1>1
<1> QED BY <1>1, <1>2, <1>3, ElementOfSeq

(* Opening a device can only empty its queue.                              *)
LEMMA OrderOpen ==
  ASSUME IInv, OrderInv, NEW i \in Interface, OpenDevice(i)
  PROVE  OrderInv'
<1>1. /\ UNCHANGED <<delivered, count, buf, rx, dev>>
      /\ rx_q' = [rx_q EXCEPT ![i] = <<>>]
  BY DEF OpenDevice, netdev_open, handler
<1>2. \A j \in Interface : rx_q'[j] = rx_q[j] \/ (rx_q'[j] = <<>> /\ Len(rx_q'[j]) = 0)
  BY <1>1, Elements, EmptySeq
<1> QED BY <1>1, <1>2, Elements DEF OrderInv, Rising

(* A frame that comes is later than all before.                            *)
LEMMA OrderArrive ==
  ASSUME IInv, OrderInv, NEW i \in Interface, Accept(i) \/ Drop(i)
  PROVE  OrderInv'
<1>1. /\ UNCHANGED <<delivered, rx_q>> /\ count' = count + 1 /\ dev' = i
      /\ \/ buf' = buf /\ rx' = "delay"
         \/ buf' = count + 1 /\ rx' = "send"
  BY DEF Accept, Drop, devices, history
<1>2. count < count + 1 /\ count <= count + 1
  BY Elements
<1>3. /\ \A j \in Interface : \A m \in 1..Len(delivered[j]) : /\ delivered[j][m] <= count + 1
                                                              /\ delivered[j][m] < count + 1
      /\ \A j \in Interface : \A n \in 1..Len(rx_q[j]) : /\ rx_q[j][n] <= count + 1
                                                         /\ rx_q[j][n] < count + 1
  <2>1. \A a \in Frame : a <= count => a <= count + 1 /\ a < count + 1
    BY Elements DEF Frame
  <2>2. /\ \A j \in Interface : \A m \in 1..Len(delivered[j]) : delivered[j][m] <= count
        /\ \A j \in Interface : \A n \in 1..Len(rx_q[j]) : rx_q[j][n] <= count
    BY DEF OrderInv
  <2> QED BY <2>1, <2>2, Elements
<1>4. buf <= count + 1 /\ count + 1 <= count + 1
  BY Elements DEF OrderInv
<1>5. \A j \in Interface : Rising(delivered[j])' /\ Rising(rx_q[j])'
  BY <1>1 DEF OrderInv, Rising
<1> QED BY <1>1, <1>3, <1>4, <1>5 DEF OrderInv, Rising

LEMMA OrderQueue ==
  ASSUME IInv, OrderInv, Queue
  PROVE  OrderInv'
<1>1. /\ buf \in Frame /\ rx = "send" /\ rx' = "call" /\ dev' = dev /\ buf' = 0
      /\ UNCHANGED <<delivered, count>>
      /\ rx_q' = [rx_q EXCEPT ![dev] = Append(rx_q[dev], buf)]
  BY DEF Queue, HandlerAt, xQueueSend, history, IInv, TypeInv
<1> DEFINE q == Append(rx_q[dev], buf)
<1>2. /\ rx_q'[dev] = q /\ \A j \in Interface \ {dev} : rx_q'[j] = rx_q[j]
      /\ dev \in Interface /\ rx_q[dev] \in Seq(Frame)
  BY <1>1, Elements
<1>3. /\ \A n \in 1..Len(q) : (n \in 1..Len(rx_q[dev]) /\ q[n] = rx_q[dev][n]) \/ q[n] = buf
      /\ Rising(q)
  <2>1. Rising(rx_q[dev]) /\ \A n \in 1..Len(rx_q[dev]) : rx_q[dev][n] < buf
    BY <1>1, <1>2 DEF OrderInv
  <2> QED BY <1>1, <1>2, <2>1, RisingPut
<1> HIDE DEF q
<1>4. /\ \A n \in 1..Len(q) : q[n] <= count
      /\ \A m \in 1..Len(delivered[dev]), n \in 1..Len(q) : delivered[dev][m] < q[n]
  BY <1>1, <1>2, <1>3 DEF OrderInv
<1>5. 0 <= count
  BY Elements
<1>6. \A j \in Interface : Rising(rx_q'[j])
  <2> SUFFICES ASSUME NEW j \in Interface PROVE Rising(rx_q'[j])
    OBVIOUS
  <2> QED BY <1>2, <1>3 DEF OrderInv
<1>7. ASSUME NEW j \in Interface
      PROVE  /\ Rising(delivered[j])
             /\ \A m \in 1..Len(delivered[j]) : delivered[j][m] <= count
             /\ \A n \in 1..Len(rx_q'[j]) : rx_q'[j][n] <= count
             /\ \A m \in 1..Len(delivered[j]), n \in 1..Len(rx_q'[j]) :
                  delivered[j][m] < rx_q'[j][n]
  <2>1. CASE j = dev
    BY <1>2, <1>4, <2>1 DEF OrderInv
  <2>2. CASE j # dev
    BY <1>2, <2>2 DEF OrderInv
  <2> QED BY <2>1, <2>2
<1> QED BY <1>1, <1>5, <1>6, <1>7 DEF OrderInv, Rising

LEMMA OrderRead ==
  ASSUME IInv, OrderInv, ReadFrame
  PROVE  OrderInv'
<1>1. CASE rx_q[dev] = <<>>
  <2>1. UNCHANGED <<delivered, count, buf, rx, dev, rx_q>>
    BY <1>1 DEF ReadFrame, history
  <2> QED BY <2>1 DEF OrderInv, Rising
<1>2. CASE rx_q[dev] # <<>>
  <2> DEFINE q == Tail(rx_q[dev])
  <2>1. /\ rx' = "input" /\ dev' = dev /\ buf' = Head(rx_q[dev])
        /\ UNCHANGED <<delivered, count>>
        /\ rx_q' = [rx_q EXCEPT ![dev] = q]
    BY <1>2 DEF ReadFrame, history
  <2>2. /\ rx_q'[dev] = q /\ \A j \in Interface \ {dev} : rx_q'[j] = rx_q[j]
        /\ dev \in Interface /\ rx_q[dev] \in Seq(Frame)
    BY <2>1, Elements
  <2>3. /\ Head(rx_q[dev]) = rx_q[dev][1] /\ 1 \in 1..Len(rx_q[dev])
        /\ \A n \in 1..Len(q) : n + 1 \in 1..Len(rx_q[dev]) /\ q[n] = rx_q[dev][n + 1]
        /\ Rising(q) /\ \A n \in 1..Len(q) : Head(rx_q[dev]) < q[n]
    BY <1>2, <2>2, RisingGet DEF OrderInv
  <2> HIDE DEF q
  <2>4. /\ \A n \in 1..Len(q) : q[n] <= count
        /\ \A m \in 1..Len(delivered[dev]), n \in 1..Len(q) : delivered[dev][m] < q[n]
        /\ buf' <= count
        /\ \A m \in 1..Len(delivered[dev]) : delivered[dev][m] < buf'
        /\ \A n \in 1..Len(q) : buf' < q[n]
    BY <2>1, <2>2, <2>3 DEF OrderInv
  <2>5. \A j \in Interface : Rising(rx_q'[j])
    BY <2>2, <2>3 DEF OrderInv
  <2> QED BY <2>1, <2>2, <2>4, <2>5 DEF OrderInv, Rising
<1> QED BY <1>1, <1>2

LEMMA OrderHandOver ==
  ASSUME IInv, OrderInv, HandOver
  PROVE  OrderInv'
<1>1. /\ buf \in Frame /\ rx = "input" /\ dev' = dev
      /\ UNCHANGED <<rx_q, count>>
      /\ UNCHANGED <<rx, buf>> \/ (rx' = "idle" /\ buf' = 0)
      /\ \/ UNCHANGED delivered
         \/ /\ rx' = "idle" /\ buf' = 0
            /\ delivered' = [delivered EXCEPT ![dev] = Append(delivered[dev], buf)]
  BY DEF HandOver, HandlerAt, Input, handler, devices, IInv, TypeInv
<1>2. 0 <= count
  BY Elements
<1>3. CASE UNCHANGED delivered
  BY <1>1, <1>2, <1>3 DEF OrderInv, Rising
<1>4. CASE /\ rx' = "idle" /\ buf' = 0
           /\ delivered' = [delivered EXCEPT ![dev] = Append(delivered[dev], buf)]
  <2> DEFINE q == Append(delivered[dev], buf)
  <2>1. /\ delivered'[dev] = q /\ \A j \in Interface \ {dev} : delivered'[j] = delivered[j]
        /\ dev \in Interface /\ delivered[dev] \in Seq(Frame)
    BY <1>4, Elements
  <2>2. /\ \A n \in 1..Len(q) :
             (n \in 1..Len(delivered[dev]) /\ q[n] = delivered[dev][n]) \/ q[n] = buf
        /\ Rising(q)
    <3>1. Rising(delivered[dev]) /\ \A n \in 1..Len(delivered[dev]) : delivered[dev][n] < buf
      BY <1>1, <2>1 DEF OrderInv
    <3> QED BY <1>1, <2>1, <3>1, RisingPut
  <2> HIDE DEF q
  <2>3. /\ \A n \in 1..Len(q) : q[n] <= count
        /\ \A m \in 1..Len(q), n \in 1..Len(rx_q[dev]) : q[m] < rx_q[dev][n]
    BY <1>1, <2>1, <2>2 DEF OrderInv
  <2>4. \A j \in Interface : Rising(delivered'[j])
    BY <2>1, <2>2 DEF OrderInv
  <2> QED BY <1>1, <1>2, <1>4, <2>1, <2>3, <2>4 DEF OrderInv, Rising
<1> QED BY <1>1, <1>3, <1>4

LEMMA OrderStep ==
  ASSUME IInv, OrderInv, [Next]_vars
  PROVE  OrderInv'
<1>1. CASE \/ Publish \/ AddInterface \/ Configure \/ Quiescent \/ UNCHANGED vars
           \/ osDelay \/ CallBack \/ MissFrame
  <2>1. /\ UNCHANGED <<delivered, rx_q, count, buf, dev>>
        /\ rx' \in {"send", "input"} => rx' = rx
    BY <1>1 DEF Publish, AddInterface, Configure, Quiescent, osDelay, CallBack, MissFrame, HasCallback,
       vars, devices, start, handler, history
  <2> QED BY <2>1 DEF OrderInv, Rising
<1>2. ASSUME NEW i \in Interface, WriteNullHandle(i) \/ FailOpen(i)
      PROVE  OrderInv'
  <2>1. UNCHANGED <<delivered, rx_q, count, buf, dev, rx>>
    BY <1>2, FailsAlone DEF devices, handler, history
  <2> QED BY <2>1 DEF OrderInv, Rising
<1> QED BY <1>1, <1>2, OrderOpen, OrderArrive, OrderQueue, OrderRead, OrderHandOver DEF Next, Handle

LEMMA Ordered == Spec => []OrderInv
<1>1. Init => OrderInv
  BY EmptySeq DEF Init, OrderInv, Rising
<1>2. IInv /\ OrderInv /\ [Next]_vars => OrderInv'
  BY OrderStep
<1> QED BY <1>1, <1>2, Invariance, PTL DEF Spec

(* lwIP gets the frames of an interface in the order in which they came,   *)
(* and what waits in the queue comes after what was handed over, whatever  *)
(* allocations fail and however often the device is opened.                *)
THEOREM InOrder == Spec => []HandedInOrder
<1>1. IInv /\ OrderInv => HandedInOrder
  <2> SUFFICES ASSUME IInv, OrderInv, NEW i \in Interface,
                      NEW m \in DOMAIN (delivered[i] \o rx_q[i]),
                      NEW n \in DOMAIN (delivered[i] \o rx_q[i]), m < n
               PROVE  (delivered[i] \o rx_q[i])[m] < (delivered[i] \o rx_q[i])[n]
    BY DEF HandedInOrder
  <2> DEFINE d == delivered[i]  q == rx_q[i]
  <2>1. d \in Seq(Frame) /\ q \in Seq(Frame)
    BY Elements
  <2>2. /\ Rising(d) /\ Rising(q)
        /\ \A a \in 1..Len(d), b \in 1..Len(q) : d[a] < q[b]
    BY DEF OrderInv
  <2> HIDE DEF d, q
  <2>3. /\ Len(d) \in Nat /\ Len(q) \in Nat
        /\ m \in 1..Len(d) + Len(q) /\ n \in 1..Len(d) + Len(q)
    <3>1. d \o q \in Seq(Frame) /\ Len(d \o q) = Len(d) + Len(q)
      BY <2>1, ConcatProperties
    <3>2. Len(d) \in Nat /\ Len(q) \in Nat /\ DOMAIN (d \o q) = 1..Len(d \o q)
      BY <2>1, <3>1, LenProperties
    <3>3. m \in DOMAIN (d \o q) /\ n \in DOMAIN (d \o q)
      BY DEF d, q
    <3> QED BY <3>1, <3>2, <3>3
  <2>4. \A k \in 1..Len(d) + Len(q) :
          (d \o q)[k] = IF k <= Len(d) THEN d[k] ELSE q[k - Len(d)]
    BY <2>1, ConcatProperties
  <2>5. (d \o q)[m] < (d \o q)[n]
    <3>1. CASE n <= Len(d)
      BY <2>2, <2>3, <2>4, <3>1 DEF Rising
    <3>2. CASE m <= Len(d) /\ ~(n <= Len(d))
      <4>1. m \in 1..Len(d) /\ n - Len(d) \in 1..Len(q)
        BY <2>3, <3>2
      <4> QED BY <2>2, <2>3, <2>4, <3>2, <4>1
    <3>3. CASE ~(m <= Len(d))
      <4>1. /\ m - Len(d) \in 1..Len(q) /\ n - Len(d) \in 1..Len(q)
            /\ m - Len(d) < n - Len(d) /\ ~(n <= Len(d))
        BY <2>3, <3>3
      <4> QED BY <2>2, <2>3, <2>4, <3>3, <4>1 DEF Rising
    <3> QED BY <2>3, <3>1, <3>2, <3>3
  <2> QED BY <2>5 DEF d, q
<1> QED BY <1>1, Invariance, Ordered, PTL

-----------------------------------------------------------------------------
(* The owner of a frame.  It changes hands in one interface at a time.     *)

Queues(f) == {i \in Interface : f \in ToSet(rx_q[i])}

OwnerInv ==
  /\ OneOwner
  /\ buf \in 0..count
  /\ buf # 0 => rx \in {"send", "input"}
  /\ \A f \in Frame : f > count => frees[f] = 0 /\ f \notin lost

LEMMA InterfaceFinite == IsFiniteSet(Interface)
<1>1. IsFiniteSet({"ap"} \cup {"station"})
  BY FS_Singleton, FS_AddElement
<1>2. Interface = {"ap"} \cup {"station"}
  BY DEF Interface
<1> QED BY <1>1, <1>2

LEMMA CardinalityChange ==
  ASSUME NEW A \in SUBSET Interface, NEW B \in SUBSET Interface, NEW i \in Interface,
         A \ {i} = B \ {i}
  PROVE  /\ Cardinality(A) \in Nat /\ Cardinality(B) \in Nat
         /\ Cardinality(B) - Cardinality(A)
              = (IF i \in B THEN 1 ELSE 0) - (IF i \in A THEN 1 ELSE 0)
<1>1. IsFiniteSet(A) /\ IsFiniteSet(B)
  BY InterfaceFinite, FS_Subset
<1>2. /\ Cardinality(A) \in Nat /\ Cardinality(B) \in Nat
      /\ Cardinality(A \ {i}) = IF i \in A THEN Cardinality(A) - 1 ELSE Cardinality(A)
      /\ Cardinality(B \ {i}) = IF i \in B THEN Cardinality(B) - 1 ELSE Cardinality(B)
  BY <1>1, FS_CardinalityType, FS_RemoveElement
<1> QED BY <1>2

LEMMA SetOfQueue ==
  /\ ToSet(<<>>) = {}
  /\ \A q \in Seq(Frame), f \in Frame : ToSet(Append(q, f)) = ToSet(q) \cup {f}
  /\ \A q \in Seq(Frame) :
       q # <<>> /\ Rising(q) => /\ Head(q) \in ToSet(q)
                                /\ ToSet(Tail(q)) = ToSet(q) \ {Head(q)}
<1>1. ToSet(<<>>) = {}
  BY EmptySeq DEF ToSet
<1>2. ASSUME NEW q \in Seq(Frame), NEW f \in Frame
      PROVE  ToSet(Append(q, f)) = ToSet(q) \cup {f}
  <2>1. /\ DOMAIN q = 1..Len(q) /\ DOMAIN Append(q, f) = 1..Len(q) + 1 /\ Len(q) \in Nat
        /\ \A m \in 1..Len(q) : Append(q, f)[m] = q[m]
        /\ Append(q, f)[Len(q) + 1] = f
    BY AppendProperties, LenProperties
  <2>2. 1..Len(q) + 1 = 1..Len(q) \cup {Len(q) + 1}
    BY <2>1
  <2> QED BY <2>1, <2>2 DEF ToSet
<1>3. ASSUME NEW q \in Seq(Frame), q # <<>>, Rising(q)
      PROVE  Head(q) \in ToSet(q) /\ ToSet(Tail(q)) = ToSet(q) \ {Head(q)}
  <2>1. /\ DOMAIN q = 1..Len(q) /\ DOMAIN Tail(q) = 1..Len(q) - 1 /\ Len(q) \in Nat \ {0}
        /\ \A m \in 1..Len(q) - 1 : Tail(q)[m] = q[m + 1]
        /\ Head(q) = q[1] /\ 1 \in 1..Len(q) /\ \A m \in 1..Len(q) : q[m] \in Frame
    BY <1>3, HeadTailProperties, LenProperties, EmptySeq, ElementOfSeq
  <2>2. \A m \in 1..Len(q) : m = 1 \/ (m - 1 \in 1..Len(q) - 1 /\ m = (m - 1) + 1)
    BY <2>1
  <2>3. \A m \in 1..Len(q) - 1 : m + 1 \in 1..Len(q) /\ 1 < m + 1
    BY <2>1
  <2>4. \A m \in 1..Len(q) - 1 : Tail(q)[m] # Head(q)
    <3> SUFFICES ASSUME NEW m \in 1..Len(q) - 1 PROVE q[m + 1] # q[1]
      BY <2>1
    <3>1. q[1] < q[m + 1] /\ q[1] \in Frame /\ q[m + 1] \in Frame
      BY <1>3, <2>1, <2>3 DEF Rising
    <3> QED BY <3>1 DEF Frame
  <2>5. ToSet(q) = {q[m] : m \in 1..Len(q)} /\ ToSet(Tail(q)) = {Tail(q)[m] : m \in 1..Len(q) - 1}
    BY <2>1 DEF ToSet
  <2>6. ASSUME NEW f, f \in ToSet(Tail(q))
        PROVE  f \in ToSet(q) \ {Head(q)}
    BY <2>1, <2>3, <2>4, <2>5, <2>6
  <2>7. ASSUME NEW f, f \in ToSet(q) \ {Head(q)}
        PROVE  f \in ToSet(Tail(q))
    <3>1. PICK m \in 1..Len(q) : f = q[m]
      BY <2>5, <2>7
    <3>2. m # 1
      BY <2>1, <2>7, <3>1
    <3>3. m - 1 \in 1..Len(q) - 1 /\ Tail(q)[m - 1] = q[m]
      BY <2>1, <2>2, <3>2
    <3> QED BY <2>5, <3>1, <3>3
  <2> QED BY <2>1, <2>5, <2>6, <2>7
<1> QED BY <1>1, <1>2, <1>3

(* Who may own a frame, counted.                                           *)
LEMMA OwnerTypes ==
  ASSUME IInv, OrderInv, OwnerInv
  PROVE  /\ frees \in [Frame -> Nat] /\ count \in 0..MaxFrames
         /\ \A f \in 1..count :
              /\ f \in Frame /\ frees[f] \in Nat /\ Cardinality(Queues(f)) \in Nat
              /\ Cardinality(Queues(f)) + (IF f = buf THEN 1 ELSE 0)
                   + (IF f \in lost THEN 1 ELSE 0) + frees[f] = 1
         /\ \A f : Queues(f) \in SUBSET Interface
         /\ \A i \in Interface : ToSet(rx_q[i]) \subseteq 1..count
<1>1. frees \in [Frame -> Nat] /\ count \in 0..MaxFrames
  BY DEF IInv, TypeInv, TypeOK
<1>2. \A f : Queues(f) \in SUBSET Interface
  BY DEF Queues
<1>3. \A f : Cardinality(Queues(f)) \in Nat
  BY <1>2, InterfaceFinite, FS_Subset, FS_CardinalityType
<1>4. \A f \in 1..count : f \in Frame /\ frees[f] \in Nat
  BY <1>1 DEF Frame
<1>5. \A f \in 1..count :
        Cardinality(Queues(f)) + (IF f = buf THEN 1 ELSE 0)
          + (IF f \in lost THEN 1 ELSE 0) + frees[f] = 1
  BY DEF OwnerInv, OneOwner, Queues
<1>6. \A i \in Interface : ToSet(rx_q[i]) \subseteq 1..count
  <2> SUFFICES ASSUME NEW i \in Interface, NEW f \in ToSet(rx_q[i]) PROVE f \in 1..count
    OBVIOUS
  <2>1. PICK n \in 1..Len(rx_q[i]) : f = rx_q[i][n]
    BY Elements, LenProperties DEF ToSet
  <2>2. f \in Frame /\ f <= count
    BY <2>1, Elements DEF OrderInv
  <2> QED BY <1>1, <2>2 DEF Frame
<1> QED BY <1>1, <1>2, <1>3, <1>4, <1>5, <1>6

(* What it takes that every frame still has one owner.                     *)
LEMMA OwnerFrom ==
  ASSUME \A f \in 1..count' :
           Cardinality(Queues(f)') + (IF f = buf' THEN 1 ELSE 0)
             + (IF f \in lost' THEN 1 ELSE 0) + frees'[f] = 1
  PROVE  OneOwner'
<1> QED BY DEF OneOwner, Queues

LEMMA OwnerSame ==
  ASSUME rx_q' = rx_q
  PROVE  \A f : Queues(f)' = Queues(f)
<1> QED BY DEF Queues

LEMMA OwnerOpen ==
  ASSUME IInv, OrderInv, OwnerInv, NEW i \in Interface, OpenDevice(i)
  PROVE  OwnerInv'
<1>1. /\ UNCHANGED <<frees, count, buf, rx>>
      /\ rx_q' = [rx_q EXCEPT ![i] = <<>>] /\ lost' = lost \cup ToSet(rx_q[i])
  BY DEF OpenDevice, netdev_open, handler
<1>2. ToSet(rx_q'[i]) = {} /\ \A j \in Interface \ {i} : rx_q'[j] = rx_q[j]
  BY <1>1, Elements, SetOfQueue
<1>3. ASSUME NEW f \in 1..count
      PROVE  Cardinality(Queues(f)') + (IF f = buf THEN 1 ELSE 0)
               + (IF f \in lost' THEN 1 ELSE 0) + frees[f] = 1
  <2>1. /\ Queues(f)' \ {i} = Queues(f) \ {i}
        /\ i \notin Queues(f)'
        /\ i \in Queues(f) <=> f \in ToSet(rx_q[i])
        /\ Queues(f)' \in SUBSET Interface
    BY <1>2 DEF Queues
  <2>2. /\ Cardinality(Queues(f)') \in Nat /\ Cardinality(Queues(f)) \in Nat
        /\ Cardinality(Queues(f)') - Cardinality(Queues(f))
             = 0 - (IF f \in ToSet(rx_q[i]) THEN 1 ELSE 0)
    BY <2>1, OwnerTypes, CardinalityChange
  <2>3. /\ frees[f] \in Nat
        /\ Cardinality(Queues(f)) + (IF f = buf THEN 1 ELSE 0)
             + (IF f \in lost THEN 1 ELSE 0) + frees[f] = 1
    BY OwnerTypes
  <2>4. CASE f \in ToSet(rx_q[i])
    <3>1. f \in lost' /\ f \notin lost
      BY <1>1, <2>2, <2>3, <2>4
    <3> QED BY <2>2, <2>3, <2>4, <3>1
  <2>5. CASE f \notin ToSet(rx_q[i])
    <3>1. f \in lost' <=> f \in lost
      BY <1>1, <2>5
    <3> QED BY <2>2, <2>3, <2>5, <3>1
  <2> QED BY <2>4, <2>5
<1>4. \A f \in Frame : f > count => f \notin lost'
  <2>1. \A f \in ToSet(rx_q[i]) : f \in 1..count
    BY OwnerTypes
  <2>2. \A f \in Frame : f > count => f \notin 1..count
    BY OwnerTypes DEF Frame
  <2> QED BY <1>1, <2>1, <2>2 DEF OwnerInv
<1>5. OneOwner'
  BY <1>1, <1>3, OwnerFrom
<1> QED BY <1>1, <1>4, <1>5 DEF OwnerInv

LEMMA OwnerArrive ==
  ASSUME IInv, OrderInv, OwnerInv, NEW i \in Interface, Accept(i) \/ Drop(i)
  PROVE  OwnerInv'
<1>1. /\ UNCHANGED <<rx_q, lost>> /\ count' = count + 1 /\ buf = 0
      /\ \/ buf' = count + 1 /\ rx' = "send" /\ frees' = frees
         \/ buf' = buf /\ frees' = [frees EXCEPT ![count + 1] = @ + 1]
  <2>1. buf = 0
    BY DEF Accept, Drop, HandlerAt, OwnerInv
  <2> QED BY <2>1 DEF Accept, Drop, devices, history, Free
<1>2. /\ count \in Nat /\ count + 1 \in Frame /\ frees \in [Frame -> Nat]
      /\ \A f \in Frame : f > count + 1 => f > count
      /\ count + 1 > count
  BY OwnerTypes DEF Frame, Accept, Drop
<1>3. /\ \A f \in Frame \ {count + 1} : frees'[f] = frees[f]
      /\ frees[count + 1] = 0 /\ count + 1 \notin lost
      /\ \/ buf' = count + 1 /\ frees'[count + 1] = 0
         \/ buf' = 0 /\ frees'[count + 1] = 1
  BY <1>1, <1>2 DEF OwnerInv
<1>4. Cardinality(Queues(count + 1)) = 0
  <2>1. \A j \in Interface : count + 1 \notin ToSet(rx_q[j])
    <3>1. \A f \in 1..count : f # count + 1
      BY <1>2
    <3> QED BY <3>1, OwnerTypes
  <2>2. Queues(count + 1) = {}
    BY <2>1 DEF Queues
  <2> QED BY <2>2, FS_EmptySet
<1>5. ASSUME NEW f \in 1..count + 1
      PROVE  Cardinality(Queues(f)') + (IF f = buf' THEN 1 ELSE 0)
               + (IF f \in lost' THEN 1 ELSE 0) + frees'[f] = 1
  <2>1. Queues(f)' = Queues(f)
    BY <1>1, OwnerSame
  <2>2. CASE f = count + 1
    BY <1>1, <1>2, <1>3, <1>4, <2>1, <2>2
  <2>3. CASE f # count + 1
    <3>1. f \in 1..count /\ f # 0 /\ f \in Frame
      BY <1>2, <2>3, OwnerTypes
    <3>2. frees'[f] = frees[f] /\ f # buf' /\ f # buf /\ lost' = lost
      BY <1>1, <1>3, <2>3, <3>1
    <3>3. Cardinality(Queues(f)) + (IF f = buf THEN 1 ELSE 0)
            + (IF f \in lost THEN 1 ELSE 0) + frees[f] = 1
      BY <3>1, OwnerTypes
    <3> QED BY <2>1, <3>2, <3>3
  <2> QED BY <2>2, <2>3
<1>6. OneOwner'
  BY <1>1, <1>5, OwnerFrom
<1>7. \A f \in Frame : f > count + 1 => frees'[f] = 0 /\ f \notin lost'
  BY <1>1, <1>2, <1>3 DEF OwnerInv
<1>8. buf' \in 0..count + 1 /\ (buf' # 0 => rx' \in {"send", "input"})
  BY <1>1, <1>2
<1> QED BY <1>1, <1>6, <1>7, <1>8 DEF OwnerInv

LEMMA OwnerQueue ==
  ASSUME IInv, OrderInv, OwnerInv, Queue
  PROVE  OwnerInv'
<1>1. /\ UNCHANGED <<frees, count, lost>> /\ buf' = 0 /\ buf \in Frame /\ dev \in Interface
      /\ rx_q' = [rx_q EXCEPT ![dev] = Append(rx_q[dev], buf)]
  BY Elements DEF Queue, HandlerAt, xQueueSend, history, IInv, TypeInv
<1>2. /\ ToSet(rx_q'[dev]) = ToSet(rx_q[dev]) \cup {buf}
      /\ \A j \in Interface \ {dev} : rx_q'[j] = rx_q[j]
  BY <1>1, Elements, SetOfQueue
<1>3. ASSUME NEW f \in 1..count
      PROVE  Cardinality(Queues(f)') + (IF f = 0 THEN 1 ELSE 0)
               + (IF f \in lost THEN 1 ELSE 0) + frees[f] = 1
  <2>1. /\ Queues(f)' \ {dev} = Queues(f) \ {dev}
        /\ dev \in Queues(f)' <=> f \in ToSet(rx_q[dev]) \/ f = buf
        /\ dev \in Queues(f) <=> f \in ToSet(rx_q[dev])
        /\ Queues(f)' \in SUBSET Interface /\ Queues(f) \in SUBSET Interface
    BY <1>1, <1>2 DEF Queues
  <2>2. /\ Cardinality(Queues(f)') \in Nat /\ Cardinality(Queues(f)) \in Nat
        /\ Cardinality(Queues(f)') - Cardinality(Queues(f))
             = (IF dev \in Queues(f)' THEN 1 ELSE 0) - (IF dev \in Queues(f) THEN 1 ELSE 0)
    BY <1>1, <2>1, CardinalityChange
  <2>3. /\ frees[f] \in Nat /\ f # 0
        /\ Cardinality(Queues(f)) + (IF f = buf THEN 1 ELSE 0)
             + (IF f \in lost THEN 1 ELSE 0) + frees[f] = 1
    BY OwnerTypes
  <2>4. CASE f = buf
    <3>1. Cardinality(Queues(f)) = 0
      BY <2>2, <2>3, <2>4
    <3>2. dev \notin Queues(f)
      <4>1. Queues(f) = {}
        BY <2>1, <3>1, InterfaceFinite, FS_Subset, FS_EmptySet
      <4> QED BY <4>1
    <3> QED BY <2>1, <2>2, <2>3, <2>4, <3>1, <3>2
  <2>5. CASE f # buf
    BY <2>1, <2>2, <2>3, <2>5
  <2> QED BY <2>4, <2>5
<1>4. OneOwner'
  BY <1>1, <1>3, OwnerFrom
<1>5. 0 \in 0..count
  BY OwnerTypes
<1> QED BY <1>1, <1>4, <1>5 DEF OwnerInv

LEMMA OwnerRead ==
  ASSUME IInv, OrderInv, OwnerInv, ReadFrame
  PROVE  OwnerInv'
<1>1. /\ rx = "read" /\ dev \in Interface /\ rx_q[dev] # <<>> /\ buf = 0
      /\ rx_q[dev] \in Seq(Frame) /\ Rising(rx_q[dev])
  BY Elements DEF ReadFrame, HandlerAt, IInv, FrameInv, OrderInv, OwnerInv
<1> DEFINE h == Head(rx_q[dev])
<1>2. /\ UNCHANGED <<frees, count, lost>> /\ buf' = h /\ rx' = "input"
      /\ rx_q' = [rx_q EXCEPT ![dev] = Tail(rx_q[dev])]
  BY <1>1 DEF ReadFrame, history
<1>3. /\ h \in ToSet(rx_q[dev]) /\ ToSet(rx_q'[dev]) = ToSet(rx_q[dev]) \ {h}
      /\ \A j \in Interface \ {dev} : rx_q'[j] = rx_q[j]
  BY <1>1, <1>2, Elements, SetOfQueue
<1> HIDE DEF h
<1>4. h \in 1..count
  BY <1>1, <1>3, OwnerTypes
<1>5. ASSUME NEW f \in 1..count
      PROVE  Cardinality(Queues(f)') + (IF f = h THEN 1 ELSE 0)
               + (IF f \in lost THEN 1 ELSE 0) + frees[f] = 1
  <2>1. /\ Queues(f)' \ {dev} = Queues(f) \ {dev}
        /\ dev \in Queues(f)' <=> f \in ToSet(rx_q[dev]) /\ f # h
        /\ dev \in Queues(f) <=> f \in ToSet(rx_q[dev])
        /\ Queues(f)' \in SUBSET Interface /\ Queues(f) \in SUBSET Interface
    BY <1>1, <1>3 DEF Queues
  <2>2. /\ Cardinality(Queues(f)') \in Nat /\ Cardinality(Queues(f)) \in Nat
        /\ Cardinality(Queues(f)') - Cardinality(Queues(f))
             = (IF dev \in Queues(f)' THEN 1 ELSE 0) - (IF dev \in Queues(f) THEN 1 ELSE 0)
    BY <1>1, <2>1, CardinalityChange
  <2>3. /\ frees[f] \in Nat /\ f # buf
        /\ Cardinality(Queues(f)) + (IF f = buf THEN 1 ELSE 0)
             + (IF f \in lost THEN 1 ELSE 0) + frees[f] = 1
    BY <1>1, OwnerTypes
  <2>4. CASE f = h
    BY <1>3, <2>1, <2>2, <2>3, <2>4
  <2>5. CASE f # h
    BY <2>1, <2>2, <2>3, <2>5
  <2> QED BY <2>4, <2>5
<1>6. OneOwner'
  BY <1>2, <1>5, OwnerFrom
<1>7. h \in 0..count
  BY <1>4, OwnerTypes
<1> QED BY <1>2, <1>6, <1>7 DEF OwnerInv

LEMMA OwnerHandOver ==
  ASSUME IInv, OrderInv, OwnerInv, HandOver
  PROVE  OwnerInv'
<1>1. /\ UNCHANGED <<rx_q, count, lost>> /\ buf \in Frame
      /\ \/ UNCHANGED <<rx, buf, frees>>
         \/ buf' = 0 /\ frees' = [frees EXCEPT ![buf] = @ + 1]
  BY DEF HandOver, HandlerAt, FreePayload, Free, handler, devices, IInv, TypeInv
<1>2. \A f : Queues(f)' = Queues(f)
  BY <1>1, OwnerSame
<1>3. CASE UNCHANGED <<rx, buf, frees>>
  <2>1. OneOwner'
    BY <1>1, <1>2, <1>3, OwnerTypes, OwnerFrom
  <2> QED BY <1>1, <1>3, <2>1 DEF OwnerInv
<1>4. CASE buf' = 0 /\ frees' = [frees EXCEPT ![buf] = @ + 1]
  <2>1. /\ frees \in [Frame -> Nat] /\ frees'[buf] = frees[buf] + 1
        /\ \A f \in Frame \ {buf} : frees'[f] = frees[f]
    BY <1>1, <1>4, OwnerTypes
  <2>2. ASSUME NEW f \in 1..count
        PROVE  Cardinality(Queues(f)) + (IF f = 0 THEN 1 ELSE 0)
                 + (IF f \in lost THEN 1 ELSE 0) + frees'[f] = 1
    <3>1. /\ frees[f] \in Nat /\ f # 0 /\ f \in Frame /\ Cardinality(Queues(f)) \in Nat
          /\ Cardinality(Queues(f)) + (IF f = buf THEN 1 ELSE 0)
               + (IF f \in lost THEN 1 ELSE 0) + frees[f] = 1
      BY OwnerTypes
    <3>2. CASE f = buf
      BY <2>1, <3>1, <3>2
    <3>3. CASE f # buf
      BY <2>1, <3>1, <3>3
    <3> QED BY <3>2, <3>3
  <2>3. OneOwner'
    BY <1>1, <1>2, <1>4, <2>2, OwnerFrom
  <2>4. 0 \in 0..count /\ \A f \in Frame : f > count => f # buf
    BY OwnerTypes DEF OwnerInv, Frame
  <2> QED BY <1>1, <1>4, <2>1, <2>3, <2>4 DEF OwnerInv
<1> QED BY <1>1, <1>3, <1>4

LEMMA OwnerStep ==
  ASSUME IInv, OrderInv, OwnerInv, [Next]_vars
  PROVE  OwnerInv'
<1>1. CASE \/ Publish \/ AddInterface \/ Configure \/ Quiescent \/ UNCHANGED vars
           \/ osDelay \/ CallBack \/ MissFrame
  <2>1. /\ UNCHANGED <<rx_q, count, buf, frees, lost>>
        /\ rx \in {"send", "input"} => rx' = rx
    BY <1>1 DEF Publish, AddInterface, Configure, Quiescent, osDelay, CallBack, MissFrame,
       HandlerAt, vars, devices, start, handler, history
  <2>2. OneOwner'
    BY <2>1, OwnerSame, OwnerTypes, OwnerFrom
  <2> QED BY <2>1, <2>2 DEF OwnerInv
<1>2. ASSUME NEW i \in Interface, WriteNullHandle(i) \/ FailOpen(i)
      PROVE  OwnerInv'
  <2>1. UNCHANGED <<rx_q, count, buf, frees, lost, rx>>
    BY <1>2, FailsAlone DEF devices, handler, history
  <2>2. OneOwner'
    BY <2>1, OwnerSame, OwnerTypes, OwnerFrom
  <2> QED BY <2>1, <2>2 DEF OwnerInv
<1> QED BY <1>1, <1>2, OwnerOpen, OwnerArrive, OwnerQueue, OwnerRead, OwnerHandOver DEF Next, Handle

(* The payload of every frame has one owner and is freed once, or lost in  *)
(* the reset of a queue, for any queue size and any number of frames.      *)
THEOREM Owned == Spec => []OneOwner
<1>1. Init => OwnerInv
  BY DEF Init, OwnerInv, OneOwner, Frame
<1>2. IInv /\ OrderInv /\ OwnerInv /\ [Next]_vars => OwnerInv'
  BY OwnerStep
<1>3. OwnerInv => OneOwner
  BY DEF OwnerInv
<1> QED BY <1>1, <1>2, <1>3, Invariance, Ordered, PTL DEF Spec
=============================================================================
