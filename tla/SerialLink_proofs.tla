-------------------------- MODULE SerialLink_proofs --------------------------
(***************************************************************************)
(* Proofs about SerialLink, for any queue size, any number of messages and *)
(* fragments, with frames lost and allocations failing or not.             *)
(***************************************************************************)
EXTENDS SerialLink, SequenceTheorems, TLAPS

USE QueueAssumption, MessagesAssumption, FaultsAssumption

Message == Seq(Fragment) \ {<<>>}

(* The type invariant is not inductive alone: parse_tlv reads the first    *)
(* fragment of what it gets, so no empty message may be queued.            *)
TypeInv == /\ TypeOK
           /\ queue \in Seq(Message)
           /\ rx = "enqueue" => new_buf_handle \in Message

(* What taking the first element of a queue, and adding one, preserve. *)
LEMMA QueueGet ==
  ASSUME NEW S, NEW q \in Seq(S), q # <<>>
  PROVE  /\ Head(q) \in S
         /\ Tail(q) \in Seq(S)
         /\ Len(Tail(q)) = Len(q) - 1
         /\ Len(q) \in Nat \ {0}
  BY HeadTailProperties, LenProperties, EmptySeq

LEMMA QueuePut ==
  ASSUME NEW S, NEW q \in Seq(S), NEW e \in S
  PROVE  /\ Append(q, e) \in Seq(S)
         /\ Append(q, e) # <<>>
         /\ Len(Append(q, e)) = Len(q) + 1
         /\ Len(q) \in Nat
  BY AppendProperties, LenProperties

(* What parse_tlv returns is a sequence of fragments. *)
LEMMA ParsedType ==
  ASSUME NEW m \in Message
  PROVE  Parsed(m) \subseteq Seq(Fragment)
<1> SUFFICES ASSUME Parsed(m) # {}
             PROVE  SubSeq(m, 1, m[1].of) \in Seq(Fragment)
  BY DEF Parsed
<1>1. m \in Seq(Fragment) /\ Len(m) \in Nat \ {0}
  BY LenProperties, EmptySeq DEF Message
<1>2. m[1] \in Fragment
  <2>1. 1 \in 1..Len(m)
    BY <1>1
  <2>2. QED
    BY <1>1, <2>1, ElementOfSeq
<1>3. m[1].of \in 1..Len(m)
  BY <1>1, <1>2 DEF Parsed, Fragment
<1>4. \A i \in 1..m[1].of : m[i] \in Fragment
  BY <1>1, <1>3, ElementOfSeq
<1>5. QED
  BY <1>1, <1>3, <1>4, SubSeqProperties

(* The fragment after next is again one, and the message of next is one of *)
(* those the slave sends.                                                  *)
LEMMA AdvanceType ==
  ASSUME next \in Fragment, Advance
  PROVE  next' \in Fragment /\ next.msg \in 1..MaxMsg
<1> USE DEF Fragment
<1>1. next.msg \in 1..MaxMsg /\ next.part \in 1..MaxFrags /\ next.of \in 1..MaxFrags
  BY DEF Advance
<1>2. CASE next.part < next.of
  BY <1>1, <1>2 DEF Advance
<1>3. CASE ~(next.part < next.of)
  <2>1. PICK k \in 1..MaxFrags : next' = [msg |-> next.msg + 1, part |-> 1, of |-> k]
    BY <1>3 DEF Advance
  <2>2. QED
    BY <1>1, <2>1
<1>4. QED
  BY <1>2, <1>3

LEMMA TypeInit == Init => TypeInv
<1> SUFFICES ASSUME Init PROVE TypeInv
  OBVIOUS
<1>1. <<>> \in Seq(Fragment) /\ <<>> \in Seq(Seq(Fragment)) /\ <<>> \in Seq(Message)
  OBVIOUS
<1>2. Len(queue) = 0
  BY DEF Init
<1>3. TypeOK
  <2>1. next \in Fragment
    BY DEF Init
  <2>2. Len(queue) <= TO_SERIAL_INFT_QUEUE_SIZE
    BY <1>2
  <2>3. QED
    BY <1>1, <2>1, <2>2, Zenon DEF Init, TypeOK
<1>4. QED
  BY <1>1, <1>3 DEF Init, TypeInv

(* A fragment that is not accumulated, because the interface is not open   *)
(* or what was allocated for it has been freed.                            *)
Discard ==
  /\ rx = "idle" /\ (~opened \/ dangling)
  /\ Advance /\ Spoil(next.msg)
  /\ r' = <<>>
  /\ dangling \in BOOLEAN => dangling' \in BOOLEAN
  /\ undefined \in BOOLEAN => undefined' \in BOOLEAN
  /\ UNCHANGED <<opened, rx, new_buf_handle, queue, readSemaphore, reader, read, lost>>

LEMMA Discards == DropUnregistered \/ ReuseFreed => Discard
  BY DEF DropUnregistered, ReuseFreed, Discard, Cleanup

(* A step of the slave or of serial_ll_rx_handler. *)
LEMMA TypeHandler ==
  ASSUME TypeInv,
         LoseFrame \/ Discard \/ Accumulate \/ Complete \/ Enqueue \/ Indicate
  PROVE  TypeInv'
<1> USE DEF TypeInv, TypeOK, rxVars, memVars
<1>1. Append(r, next) \in Message
  BY QueuePut DEF Message
<1>2. <<>> \in Seq(Fragment) /\ Message \subseteq Seq(Fragment)
  BY DEF Message
<1>0. next.msg \in 1..MaxMsg + 1
  BY DEF Fragment
<1>3. CASE LoseFrame
  BY <1>3, AdvanceType DEF LoseFrame
<1>4. CASE Discard
  BY <1>0, <1>2, <1>4, AdvanceType DEF Discard, Cleanup, Spoil
<1>5. CASE Accumulate
  BY <1>0, <1>1, <1>2, <1>5, AdvanceType DEF Accumulate, AllocFails, Spoil
<1>6. CASE Complete
  <2>1. next' \in Fragment
    BY <1>6, AdvanceType DEF Complete
  <2>2. r' = <<>>
    BY <1>6 DEF Complete, ResetReassembly, AllocFails, Cleanup
  <2>3. \/ rx' = "enqueue" /\ new_buf_handle' = Append(r, next)
        \/ rx' = "idle" /\ new_buf_handle' = new_buf_handle
    BY <1>6 DEF Complete
  <2>4. failed' \in SUBSET (1..MaxMsg + 1)
    BY <1>0, <1>6 DEF Complete, AllocFails, Spoil
  <2>5. dangling' \in BOOLEAN /\ undefined' \in BOOLEAN
    BY <1>6 DEF Complete, AllocFails, Cleanup
  <2>6. QED
    BY <1>1, <1>2, <1>6, <2>1, <2>2, <2>3, <2>4, <2>5 DEF Complete
<1>7. CASE Enqueue
  <2>1. new_buf_handle \in Message
    BY <1>7 DEF Enqueue
  <2>2. /\ queue' \in Seq(Message) /\ queue' \in Seq(Seq(Fragment))
        /\ Len(queue') <= TO_SERIAL_INFT_QUEUE_SIZE
    <3>1. Append(queue, new_buf_handle) \in Seq(Message)
      BY <2>1, QueuePut
    <3>2. /\ Append(queue, new_buf_handle) \in Seq(Seq(Fragment))
          /\ Len(Append(queue, new_buf_handle)) = Len(queue) + 1
          /\ Len(queue) \in Nat
      BY QueuePut
    <3>3. QED
      BY <1>7, <3>1, <3>2 DEF Enqueue
  <2>3. QED
    BY <1>2, <1>7, <2>2 DEF Enqueue
<1>8. CASE Indicate
  BY <1>8 DEF Indicate, control_path_rx_indication
<1>9. QED
  BY <1>3, <1>4, <1>5, <1>6, <1>7, <1>8

(* A step of the initialisation or of the reading thread. *)
LEMMA TypeReader ==
  ASSUME TypeInv, Open \/ SpawnReader \/ WaitForIndication \/ ReadMessage
  PROVE  TypeInv'
<1> USE DEF TypeInv, TypeOK, rxVars, memVars
<1>1. CASE Open
  <2>1. <<>> \in Seq(Seq(Fragment)) /\ <<>> \in Seq(Message) /\ Len(<<>>) = 0
    OBVIOUS
  <2>2. QED
    BY <1>1, <2>1 DEF Open, CreateReadSemaphore
<1>2. CASE SpawnReader
  BY <1>2 DEF SpawnReader
<1>3. CASE WaitForIndication
  BY <1>3 DEF WaitForIndication
<1>4. CASE ReadMessage
  <2>1. queue # <<>> /\ queue' = Tail(queue)
    BY <1>4 DEF ReadMessage
  <2>2. Head(queue) \in Message /\ queue' \in Seq(Message)
    BY <2>1, QueueGet
  <2>3. queue' \in Seq(Seq(Fragment)) /\ Len(queue') <= TO_SERIAL_INFT_QUEUE_SIZE
    <3>1. Tail(queue) \in Seq(Seq(Fragment)) /\ Len(Tail(queue)) = Len(queue) - 1
          /\ Len(queue) \in Nat
      BY <2>1, QueueGet
    <3>2. QED
      BY <2>1, <3>1
  <2>4. read' \in Seq(Seq(Fragment))
    <3>1. CASE read' = read
      BY <3>1
    <3>2. ASSUME NEW m \in Parsed(Head(queue)), read' = Append(read, m)
          PROVE  read' \in Seq(Seq(Fragment))
      BY <2>2, <3>2, ParsedType, QueuePut
    <3>3. QED
      BY <1>4, <3>1, <3>2 DEF ReadMessage
  <2>5. failed' \in SUBSET (1..MaxMsg + 1)
    <3>1. Head(queue)[1] \in Fragment
      <4>1. Head(queue) \in Seq(Fragment) /\ 1 \in 1..Len(Head(queue))
        BY <2>2, LenProperties, EmptySeq DEF Message
      <4> QED BY <4>1, ElementOfSeq
    <3>2. Head(queue)[1].msg \in 1..MaxMsg + 1
      BY <3>1 DEF Fragment
    <3> QED BY <1>4, <3>2 DEF ReadMessage, Spoil
  <2>6. QED
    BY <1>4, <2>2, <2>3, <2>4, <2>5 DEF ReadMessage
<1>5. QED
  BY <1>1, <1>2, <1>3, <1>4

LEMMA TypeStep == TypeInv /\ [Next]_vars => TypeInv'
<1> SUFFICES ASSUME TypeInv, [Next]_vars
             PROVE  TypeInv'
  OBVIOUS
<1>1. CASE UNCHANGED vars \/ Quiescent
  BY <1>1 DEF vars, rxVars, memVars, Quiescent, TypeInv, TypeOK
<1>2. QED
  BY Discards, <1>1, TypeHandler, TypeReader DEF Next, Step

(* The type invariant holds in every reachable state: in particular the    *)
(* read semaphore stays binary and the queue keeps to its size.            *)
THEOREM TypeCorrect == Spec => []TypeOK
<1>1. Spec => []TypeInv
  BY TypeInit, TypeStep, PTL DEF Spec
<1>2. TypeInv => TypeOK
  BY DEF TypeInv
<1>3. QED
  BY <1>1, <1>2, PTL

-----------------------------------------------------------------------------
(* The semaphore and the queue.  Every read under way, indicated or about  *)
(* to be indicated has a message of its own in the queue: the count is     *)
(* what makes IndicationIsBacked inductive, for a read takes the message   *)
(* that a second indication may stand for.                                 *)

ReadsDue == readSemaphore + (IF reader = "read" THEN 1 ELSE 0)
                          + (IF rx = "indicate" THEN 1 ELSE 0)

Backed == /\ ReadsDue <= Len(queue)
          /\ ~opened => reader = "off" /\ readSemaphore = 0 /\ rx = "idle"

LEMMA BackedStep ==
  ASSUME TypeOK, Backed, [Next]_vars
  PROVE  Backed'
<1> USE DEF Backed, ReadsDue, TypeOK, rxVars
<1>1. CASE UNCHANGED vars \/ Quiescent
  BY <1>1 DEF vars, Quiescent
<1>2. CASE LoseFrame
  BY <1>2 DEF LoseFrame
<1>3. CASE Open
  BY <1>3 DEF Open, CreateReadSemaphore
<1>4. CASE Discard
  BY <1>4 DEF Discard
<1>5. CASE Accumulate
  BY <1>5 DEF Accumulate
<1>6. CASE Complete
  BY <1>6 DEF Complete
<1>7. CASE Enqueue
  <2>1. Len(Append(queue, new_buf_handle)) = Len(queue) + 1 /\ Len(queue) \in Nat
    BY QueuePut
  <2>2. QED
    BY <1>7, <2>1 DEF Enqueue
<1>8. CASE Indicate
  <2>1. Len(queue) \in Nat /\ queue' = queue /\ opened' = opened /\ reader' = reader
    BY <1>8, LenProperties DEF Indicate
  <2>2. rx = "indicate" /\ rx' = "idle" /\ readSemaphore' = 1
    BY <1>8 DEF Indicate, control_path_rx_indication
  <2>3. opened
    BY <2>1, <2>2
  <2>4. QED
    BY <2>1, <2>2, <2>3
<1>9. CASE SpawnReader
  BY <1>9 DEF SpawnReader
<1>10. CASE WaitForIndication
  BY <1>10, LenProperties DEF WaitForIndication
<1>11. CASE ReadMessage
  <2>1. queue # <<>> => Len(Tail(queue)) = Len(queue) - 1 /\ Len(queue) \in Nat
    BY QueueGet
  <2>2. QED
    BY <1>11, <2>1 DEF ReadMessage
<1>12. QED
  BY Discards, <1>1, <1>2, <1>3, <1>4, <1>5, <1>6, <1>7, <1>8, <1>9, <1>10, <1>11 DEF Next, Step

(* Whenever a read is under way or indicated the queue holds a message, so *)
(* serial_drv_read never blocks on the queue, however messages, losses and *)
(* failing allocations interleave.                                         *)
THEOREM ReadNeverBlocks == Spec => []IndicationIsBacked
<1>1. Init => Backed
  BY DEF Init, Backed, ReadsDue
<1>2. TypeOK /\ Backed /\ [Next]_vars => Backed'
  BY BackedStep
<1>3. TypeOK /\ Backed => IndicationIsBacked
  BY LenProperties DEF TypeOK, Backed, ReadsDue, IndicationIsBacked, WillRead
<1>4. QED
  BY <1>1, <1>2, <1>3, TypeCorrect, PTL DEF Spec

LEMMA FullQueueStep ==
  ASSUME TypeOK, FullQueueIsRead, [Next]_vars
  PROVE  FullQueueIsRead'
<1> USE DEF FullQueueIsRead, WillRead, TypeOK, rxVars
<1>1. CASE UNCHANGED vars \/ Quiescent
  BY <1>1 DEF vars, Quiescent
<1>2. CASE LoseFrame
  BY <1>2 DEF LoseFrame
<1>3. CASE Open
  BY <1>3 DEF Open
<1>4. CASE Discard
  BY <1>4 DEF Discard
<1>5. CASE Accumulate
  BY <1>5 DEF Accumulate
<1>6. CASE Complete
  BY <1>6 DEF Complete
<1>7. CASE Enqueue
  BY <1>7 DEF Enqueue
<1>8. CASE Indicate
  BY <1>8 DEF Indicate, control_path_rx_indication
<1>9. CASE SpawnReader
  BY <1>9 DEF SpawnReader
<1>10. CASE WaitForIndication
  BY <1>10 DEF WaitForIndication
<1>11. CASE ReadMessage
  <2>1. queue # <<>> => Len(Tail(queue)) = Len(queue) - 1 /\ Len(queue) \in Nat
    BY QueueGet
  <2>2. QED
    BY <1>11, <2>1 DEF ReadMessage
<1>12. QED
  BY Discards, <1>1, <1>2, <1>3, <1>4, <1>5, <1>6, <1>7, <1>8, <1>9, <1>10, <1>11 DEF Next, Step

(* A full queue always has a read coming: serial_ll_rx_handler, which      *)
(* waits for room with process_rx_task, never waits for a reader that      *)
(* waits for it, for any queue size and although indications are merged.   *)
THEOREM HandlerHasRoom == Spec => []FullQueueIsRead
<1>1. Init => FullQueueIsRead
  BY DEF Init, FullQueueIsRead
<1>2. TypeOK /\ FullQueueIsRead /\ [Next]_vars => FullQueueIsRead'
  BY FullQueueStep
<1>3. QED
  BY <1>1, <1>2, TypeCorrect, PTL DEF Spec

-----------------------------------------------------------------------------
(* The order of the messages.  Messages are told apart by the number of    *)
(* their first fragment.  Those read, queued, and completed go up in that  *)
(* order, and below the number of the message that will be completed next: *)
(* that of the first fragment accumulated, if there is one.                *)

First(m) == m[1].msg

Ascending(q) == \A i, j \in 1..Len(q) : i < j => First(q[i]) < First(q[j])

Below(q, n) == \A i \in 1..Len(q) : First(q[i]) < n

Upcoming == IF r = <<>> THEN next.msg ELSE r[1].msg

OrderInv ==
  /\ read \in Seq(Message)
  /\ Upcoming <= next.msg
  /\ Ascending(read) /\ Below(read, Upcoming)
  /\ Ascending(queue) /\ Below(queue, Upcoming)
  /\ \A i \in 1..Len(queue) : Below(read, First(queue[i]))
  /\ rx = "enqueue" => /\ First(new_buf_handle) < Upcoming
                       /\ Below(read, First(new_buf_handle))
                       /\ Below(queue, First(new_buf_handle))

LEMMA FirstType ==
  ASSUME NEW m \in Message
  PROVE  m[1] \in Fragment /\ First(m) \in Int /\ m \in Seq(Fragment) /\ Len(m) \in Nat \ {0}
<1>1. m \in Seq(Fragment) /\ Len(m) \in Nat \ {0}
  BY LenProperties, EmptySeq DEF Message
<1>2. 1 \in 1..Len(m)
  BY <1>1
<1>3. m[1] \in Fragment
  BY <1>1, <1>2, ElementOfSeq
<1> QED BY <1>1, <1>3 DEF First, Fragment

LEMMA NumbersOf ==
  ASSUME NEW q \in Seq(Message)
  PROVE  Len(q) \in Nat /\ \A i \in 1..Len(q) : q[i] \in Message /\ First(q[i]) \in Int
BY FirstType, ElementOfSeq, LenProperties

(* What is accumulated keeps its first fragment.                           *)
LEMMA FirstOfAppend ==
  ASSUME NEW s \in Seq(Fragment), NEW f \in Fragment
  PROVE  /\ Append(s, f) \in Message
         /\ First(Append(s, f)) = IF s = <<>> THEN f.msg ELSE s[1].msg
<1>1. /\ Append(s, f) \in Seq(Fragment) /\ Append(s, f) # <<>>
      /\ \A i \in 1..Len(s) : Append(s, f)[i] = s[i]
      /\ Append(s, f)[Len(s) + 1] = f
  BY AppendProperties
<1>2. CASE s = <<>>
  <2>1. Len(s) = 0
    BY <1>2
  <2> QED BY <1>1, <1>2, <2>1 DEF First, Message
<1>3. CASE s # <<>>
  <2>1. 1 \in 1..Len(s)
    BY <1>3, EmptySeq, LenProperties
  <2> QED BY <1>1, <1>3, <2>1 DEF First, Message
<1> QED BY <1>2, <1>3

LEMMA BelowMore ==
  ASSUME NEW q \in Seq(Message), NEW n \in Int, NEW k \in Int, Below(q, n), n <= k
  PROVE  Below(q, k)
BY NumbersOf DEF Below

LEMMA PutInOrder ==
  ASSUME NEW q \in Seq(Message), NEW m \in Message
  PROVE  /\ Ascending(q) /\ Below(q, First(m)) => Ascending(Append(q, m))
         /\ \A n : Below(q, n) /\ First(m) < n => Below(Append(q, m), n)
         /\ \A i \in 1..Len(Append(q, m)) :
              (\E j \in 1..Len(q) : Append(q, m)[i] = q[j]) \/ Append(q, m)[i] = m
<1>1. /\ Len(Append(q, m)) = Len(q) + 1 /\ Len(q) \in Nat
      /\ \A i \in 1..Len(q) : Append(q, m)[i] = q[i]
      /\ Append(q, m)[Len(q) + 1] = m
  BY AppendProperties, LenProperties
<1>2. ASSUME NEW i \in 1..Len(Append(q, m))
      PROVE  i \in 1..Len(q) \/ i = Len(q) + 1
  BY <1>1
<1>3. ASSUME Ascending(q), Below(q, First(m))
      PROVE  Ascending(Append(q, m))
  <2> SUFFICES ASSUME NEW i \in 1..Len(Append(q, m)), NEW j \in 1..Len(Append(q, m)), i < j
               PROVE  First(Append(q, m)[i]) < First(Append(q, m)[j])
    BY DEF Ascending
  <2>1. i \in 1..Len(q)
    BY <1>1
  <2>2. CASE j \in 1..Len(q)
    BY <1>1, <1>3, <2>1, <2>2 DEF Ascending
  <2>3. CASE j = Len(q) + 1
    BY <1>1, <1>3, <2>1, <2>3 DEF Below
  <2> QED BY <1>2, <2>2, <2>3
<1>4. ASSUME NEW n, Below(q, n), First(m) < n
      PROVE  Below(Append(q, m), n)
  <2> SUFFICES ASSUME NEW i \in 1..Len(Append(q, m))
               PROVE  First(Append(q, m)[i]) < n
    BY DEF Below
  <2> QED BY <1>1, <1>2, <1>4 DEF Below
<1>5. \A i \in 1..Len(Append(q, m)) :
        (\E j \in 1..Len(q) : Append(q, m)[i] = q[j]) \/ Append(q, m)[i] = m
  BY <1>1, <1>2
<1> QED BY <1>3, <1>4, <1>5

LEMMA GetInOrder ==
  ASSUME NEW q \in Seq(Message), q # <<>>
  PROVE  /\ Head(q) \in Message /\ Tail(q) \in Seq(Message) /\ Head(q) = q[1] /\ 1 \in 1..Len(q)
         /\ \A i \in 1..Len(Tail(q)) : i + 1 \in 1..Len(q) /\ Tail(q)[i] = q[i + 1]
         /\ Ascending(q) => Ascending(Tail(q))
         /\ Ascending(q) => \A i \in 1..Len(Tail(q)) : First(Head(q)) < First(Tail(q)[i])
         /\ \A n : Below(q, n) => Below(Tail(q), n) /\ First(Head(q)) < n
<1>1. /\ Head(q) \in Message /\ Tail(q) \in Seq(Message)
      /\ Len(Tail(q)) = Len(q) - 1 /\ Len(q) \in Nat \ {0}
      /\ \A i \in 1..Len(Tail(q)) : Tail(q)[i] = q[i + 1]
  BY HeadTailProperties, LenProperties, EmptySeq
<1>2. Head(q) = q[1] /\ 1 \in 1..Len(q)
  BY <1>1
<1>3. \A i \in 1..Len(Tail(q)) : i + 1 \in 1..Len(q)
  BY <1>1
<1>4. Ascending(q) => Ascending(Tail(q))
  <2> SUFFICES ASSUME Ascending(q), NEW i \in 1..Len(Tail(q)), NEW j \in 1..Len(Tail(q)), i < j
               PROVE  First(Tail(q)[i]) < First(Tail(q)[j])
    BY DEF Ascending
  <2>1. i + 1 \in 1..Len(q) /\ j + 1 \in 1..Len(q) /\ i + 1 < j + 1
    BY <1>1, <1>3
  <2> QED BY <1>1, <2>1 DEF Ascending
<1>5. Ascending(q) => \A i \in 1..Len(Tail(q)) : First(Head(q)) < First(Tail(q)[i])
  <2> SUFFICES ASSUME Ascending(q), NEW i \in 1..Len(Tail(q))
               PROVE  First(q[1]) < First(q[i + 1])
    BY <1>1, <1>2
  <2>1. i + 1 \in 1..Len(q) /\ 1 < i + 1
    BY <1>1, <1>3
  <2> QED BY <1>2, <2>1 DEF Ascending
<1>6. \A n : Below(q, n) => Below(Tail(q), n) /\ First(Head(q)) < n
  BY <1>1, <1>2, <1>3 DEF Below
<1> QED BY <1>1, <1>2, <1>3, <1>4, <1>5, <1>6

(* What parse_tlv returns begins with the message's first fragment.        *)
LEMMA ParsedMessage ==
  ASSUME NEW h \in Message, NEW m \in Parsed(h)
  PROVE  m \in Message /\ First(m) = First(h)
<1>1. h[1] \in Fragment /\ h \in Seq(Fragment) /\ Len(h) \in Nat \ {0}
  BY FirstType
<1>2. m = SubSeq(h, 1, h[1].of) /\ h[1].of \in 1..Len(h)
  BY <1>1 DEF Parsed, Fragment
<1>3. \A i \in 1..h[1].of : h[i] \in Fragment
  BY <1>1, <1>2, ElementOfSeq
<1>4. m \in Seq(Fragment) /\ Len(m) = h[1].of /\ \A i \in 1..h[1].of : m[i] = h[1 + i - 1]
  <2> HIDE DEF Fragment
  <2>1. h[1].of \in Int /\ 1 <= h[1].of /\ h[1].of - 1 + 1 = h[1].of
    BY <1>1, <1>2
  <2> QED BY <1>2, <1>3, <2>1, SubSeqProperties
<1>5. m # <<>> /\ m[1] = h[1]
  BY <1>1, <1>2, <1>4
<1> QED BY <1>4, <1>5 DEF Message, First

LEMMA NumberType ==
  ASSUME NEW n \in Fragment, NEW s \in Seq(Fragment)
  PROVE  n.msg \in Int /\ (IF s = <<>> THEN n.msg ELSE s[1].msg) \in Int
<1>1. n.msg \in Int
  BY DEF Fragment
<1>2. ASSUME s # <<>>
      PROVE  s[1].msg \in Int
  <2>1. s[1] \in Fragment
    BY <1>2, FirstType DEF Message
  <2> QED BY <2>1 DEF Fragment
<1> QED BY <1>1, <1>2

(* Messages come up later and later: nothing that was below comes above.   *)
LEMMA OrderLater ==
  ASSUME TypeInv, OrderInv, TypeInv', Upcoming <= Upcoming', Upcoming' <= next'.msg,
         UNCHANGED <<read, queue>>, rx' = "enqueue" => UNCHANGED <<rx, new_buf_handle>>
  PROVE  OrderInv'
<1>1. Upcoming \in Int /\ Upcoming' \in Int
  <2>1. next \in Fragment /\ r \in Seq(Fragment) /\ next' \in Fragment /\ r' \in Seq(Fragment)
    BY DEF TypeInv, TypeOK
  <2> QED BY <2>1, NumberType DEF Upcoming
<1>2. /\ read \in Seq(Message) /\ queue \in Seq(Message)
      /\ Below(read, Upcoming) /\ Below(queue, Upcoming)
  BY DEF OrderInv, TypeInv
<1>3. Below(read, Upcoming') /\ Below(queue, Upcoming')
  BY <1>1, <1>2, BelowMore
<1>4. ASSUME rx' = "enqueue"
      PROVE  /\ First(new_buf_handle) < Upcoming'
             /\ Below(read, First(new_buf_handle)) /\ Below(queue, First(new_buf_handle))
  <2>1. rx = "enqueue" /\ new_buf_handle \in Message
    BY <1>4 DEF TypeInv
  <2> QED BY <1>1, <2>1, FirstType DEF OrderInv
<1>5. (Below(read, Upcoming) /\ Below(queue, Upcoming))'
  BY <1>3 DEF Below
<1>6. (\A i \in 1..Len(queue) : Below(read, First(queue[i])))' /\ Ascending(read)' /\ Ascending(queue)'
  BY DEF OrderInv, Ascending, Below, First
<1>7. (rx = "enqueue" => /\ First(new_buf_handle) < Upcoming
                         /\ Below(read, First(new_buf_handle))
                         /\ Below(queue, First(new_buf_handle)))'
  BY <1>4 DEF Below, First
<1> QED BY <1>2, <1>5, <1>6, <1>7 DEF OrderInv

(* What is accumulated next does not go down, whatever is lost.            *)
LEMMA UpcomingStep ==
  ASSUME TypeInv, OrderInv, LoseFrame \/ Discard \/ Accumulate
  PROVE  Upcoming <= Upcoming' /\ Upcoming' <= next'.msg
<1>1. /\ next \in Fragment /\ next' \in Fragment /\ next.msg <= next'.msg
      /\ Upcoming <= next.msg /\ r \in Seq(Fragment)
  <2>1. next \in Fragment /\ Advance
    BY DEF TypeInv, TypeOK, LoseFrame, Discard, Accumulate
  <2>2. next' \in Fragment
    BY <2>1, AdvanceType
  <2>3. next.msg <= next'.msg
    BY <2>1 DEF Advance, Fragment
  <2> QED BY <2>1, <2>2, <2>3 DEF OrderInv, TypeInv, TypeOK
<1>2. next.msg \in Int /\ next'.msg \in Int /\ Upcoming \in Int
  BY <1>1, NumberType DEF Upcoming
<1>3. CASE LoseFrame
  <2>1. Upcoming' = IF r = <<>> THEN next'.msg ELSE r[1].msg
    BY <1>3 DEF LoseFrame, rxVars, Upcoming
  <2> QED BY <1>1, <1>2, <2>1 DEF Upcoming
<1>4. CASE r' = <<>>
  BY <1>1, <1>2, <1>4 DEF Upcoming
<1>5. CASE r' = Append(r, next)
  <2>1. r' # <<>> /\ r'[1].msg = Upcoming
    BY <1>1, <1>5, FirstOfAppend DEF First, Upcoming, Message
  <2>2. Upcoming' = Upcoming
    BY <2>1 DEF Upcoming
  <2> QED BY <1>1, <1>2, <2>2
<1> QED BY <1>3, <1>4, <1>5 DEF Discard, Accumulate, Cleanup, AllocFails

LEMMA OrderComplete ==
  ASSUME TypeInv, OrderInv, TypeInv', Complete
  PROVE  OrderInv'
<1>1. /\ next \in Fragment /\ r \in Seq(Fragment) /\ next' \in Fragment /\ next'.msg = next.msg + 1
      /\ rx = "idle" /\ r' = <<>> /\ UNCHANGED <<read, queue>>
  <2>1. next \in Fragment /\ r \in Seq(Fragment) /\ next' \in Fragment
    BY DEF TypeInv, TypeOK
  <2>2. next'.msg = next.msg + 1
    BY <2>1 DEF Complete, Advance, MoreFragment
  <2>3. r' = <<>>
    BY DEF Complete, ResetReassembly, AllocFails, Cleanup
  <2> QED BY <2>1, <2>2, <2>3 DEF Complete
<1>2. next.msg \in Int /\ Upcoming \in Int /\ Upcoming <= next.msg
  BY <1>1, NumberType DEF Upcoming, OrderInv
<1>3. Upcoming' = next.msg + 1
  BY <1>1 DEF Upcoming
<1>4. CASE rx' = "idle"
  BY <1>1, <1>2, <1>3, <1>4, OrderLater
<1>5. CASE rx' = "enqueue"
  <2>1. new_buf_handle' = Append(r, next)
    BY <1>1, <1>5 DEF Complete
  <2>2. new_buf_handle' \in Message /\ First(new_buf_handle') = Upcoming
    BY <1>1, <2>1, FirstOfAppend DEF Upcoming
  <2>3. /\ read \in Seq(Message) /\ queue \in Seq(Message)
        /\ Below(read, Upcoming) /\ Below(queue, Upcoming)
    BY DEF OrderInv, TypeInv
  <2>4. Below(read, next.msg + 1) /\ Below(queue, next.msg + 1) /\ Upcoming < next.msg + 1
    BY <1>2, <2>3, BelowMore
  <2>5. (Below(read, Upcoming) /\ Below(queue, Upcoming))'
    BY <1>1, <1>3, <2>4 DEF Below
  <2>6. (\A i \in 1..Len(queue) : Below(read, First(queue[i])))'
        /\ Ascending(read)' /\ Ascending(queue)'
    BY <1>1 DEF OrderInv, Ascending, Below, First
  <2>7. (/\ First(new_buf_handle) < Upcoming
         /\ Below(read, First(new_buf_handle)) /\ Below(queue, First(new_buf_handle)))'
    <3>1. First(new_buf_handle)' = First(new_buf_handle')
      BY DEF First
    <3> QED BY <1>1, <1>3, <2>2, <2>3, <2>4, <3>1 DEF Below
  <2> QED BY <1>1, <1>2, <1>3, <2>3, <2>5, <2>6, <2>7 DEF OrderInv
<1> QED BY <1>4, <1>5 DEF Complete

LEMMA OrderEnqueue ==
  ASSUME TypeInv, OrderInv, Enqueue
  PROVE  OrderInv'
<1>1. /\ new_buf_handle \in Message /\ queue \in Seq(Message) /\ read \in Seq(Message)
      /\ queue' = Append(queue, new_buf_handle) /\ rx' = "indicate"
      /\ UNCHANGED <<read, r, next>>
  BY DEF Enqueue, TypeInv, OrderInv
<1>2. /\ Ascending(queue) /\ Below(queue, First(new_buf_handle)) /\ Below(queue, Upcoming)
      /\ First(new_buf_handle) < Upcoming /\ Below(read, First(new_buf_handle))
      /\ \A i \in 1..Len(queue) : Below(read, First(queue[i]))
  BY DEF Enqueue, OrderInv
<1>3. Ascending(queue') /\ Below(queue', Upcoming)
  BY <1>1, <1>2, PutInOrder
<1>4. \A i \in 1..Len(queue') : Below(read, First(queue'[i]))
  BY <1>1, <1>2, PutInOrder
<1>5. Upcoming' = Upcoming
  BY <1>1 DEF Upcoming
<1> QED BY <1>1, <1>3, <1>4, <1>5 DEF OrderInv, Ascending, Below, First

LEMMA OrderRead ==
  ASSUME TypeInv, OrderInv, ReadMessage
  PROVE  OrderInv'
<1>1. /\ queue \in Seq(Message) /\ queue # <<>> /\ queue' = Tail(queue) /\ read \in Seq(Message)
      /\ UNCHANGED <<r, rx, next, new_buf_handle>> /\ Upcoming' = Upcoming
  BY DEF ReadMessage, TypeInv, OrderInv, rxVars, Upcoming
<1> DEFINE h == Head(queue)
<1>2. /\ h \in Message /\ Tail(queue) \in Seq(Message) /\ h = queue[1] /\ 1 \in 1..Len(queue)
      /\ Ascending(Tail(queue)) /\ Below(Tail(queue), Upcoming) /\ First(h) < Upcoming
      /\ \A i \in 1..Len(Tail(queue)) : i + 1 \in 1..Len(queue) /\ Tail(queue)[i] = queue[i + 1]
      /\ \A i \in 1..Len(Tail(queue)) : First(h) < First(Tail(queue)[i])
  BY <1>1, GetInOrder DEF OrderInv
<1>3. Below(read, First(h)) /\ \A i \in 1..Len(Tail(queue)) : Below(read, First(Tail(queue)[i]))
  BY <1>2 DEF OrderInv
<1>4. rx = "enqueue" => /\ Below(Tail(queue), First(new_buf_handle))
                        /\ First(h) < First(new_buf_handle)
  BY <1>1, GetInOrder DEF OrderInv
<1> HIDE DEF h
<1>5. CASE read' = read
  BY <1>1, <1>2, <1>3, <1>4, <1>5 DEF OrderInv, Ascending, Below, First
<1>6. ASSUME NEW m \in Parsed(h), read' = Append(read, m)
      PROVE  OrderInv'
  <2>1. m \in Message /\ First(m) = First(h)
    BY <1>2, ParsedMessage
  <2>2. read' \in Seq(Message) /\ Ascending(read')
    BY <1>1, <1>3, <1>6, <2>1, PutInOrder, AppendProperties DEF OrderInv
  <2>3. Below(read', Upcoming) /\ \A i \in 1..Len(Tail(queue)) : Below(read', First(Tail(queue)[i]))
    <3>1. \A n : Below(read, n) /\ First(m) < n => Below(read', n)
      BY <1>1, <1>6, <2>1, PutInOrder
    <3> QED BY <1>2, <1>3, <2>1, <3>1 DEF OrderInv
  <2>4. rx = "enqueue" => Below(read', First(new_buf_handle))
    BY <1>1, <1>4, <1>6, <2>1, PutInOrder DEF OrderInv
  <2> QED BY <1>1, <1>2, <1>4, <2>2, <2>3, <2>4 DEF OrderInv, Ascending, Below, First
<1> QED BY <1>5, <1>6 DEF ReadMessage, h

LEMMA OrderStep ==
  ASSUME TypeInv, OrderInv, TypeInv', [Next]_vars
  PROVE  OrderInv'
<1>1. CASE LoseFrame \/ Discard \/ Accumulate
  <2>1. UNCHANGED <<read, queue, rx, new_buf_handle>>
    BY <1>1 DEF LoseFrame, Discard, Accumulate, rxVars
  <2> QED BY <1>1, <2>1, UpcomingStep, OrderLater
<1>2. CASE Open
  BY <1>2, EmptySeq DEF Open, rxVars, OrderInv, Upcoming, Ascending, Below, First
<1>3. CASE Indicate \/ SpawnReader \/ WaitForIndication \/ Quiescent \/ UNCHANGED vars
  <2>1. UNCHANGED <<next, r, read, queue, new_buf_handle>> /\ (rx' = "enqueue" => rx = "enqueue")
    BY <1>3 DEF Indicate, SpawnReader, WaitForIndication, Quiescent, vars, rxVars
  <2> QED BY <2>1 DEF OrderInv, Upcoming, Ascending, Below, First
<1> QED BY Discards, <1>1, <1>2, <1>3, OrderComplete, OrderEnqueue, OrderRead DEF Next, Step

LEMMA Typed == Spec => []TypeInv
<1> QED BY TypeInit, TypeStep, PTL DEF Spec

LEMMA Ordered == Spec => []OrderInv
<1>1. Init => OrderInv
  <2> SUFFICES ASSUME Init PROVE OrderInv
    OBVIOUS
  <2>1. <<>> \in Seq(Message) /\ Len(<<>>) = 0 /\ next \in Fragment
    BY DEF Init
  <2>2. read = <<>> /\ queue = <<>> /\ r = <<>> /\ rx = "idle"
    BY DEF Init
  <2>3. Upcoming = next.msg /\ next.msg \in Int
    BY <2>1, <2>2 DEF Upcoming, Fragment
  <2> QED BY <2>1, <2>2, <2>3 DEF OrderInv, Ascending, Below
<1>2. TypeInv /\ TypeInv' /\ OrderInv /\ [Next]_vars => OrderInv'
  BY OrderStep
<1> QED BY <1>1, <1>2, Typed, PTL DEF Spec

(* Messages are read in the order in which the slave sent them, and none   *)
(* is read twice, whatever frames are lost and whatever allocations fail.  *)
THEOREM InOrder == Spec => []ReadInOrder
<1>1. OrderInv => ReadInOrder
  BY LenProperties DEF OrderInv, ReadInOrder, Ascending, First
<1> QED BY <1>1, Ordered, PTL

-----------------------------------------------------------------------------
(* What is read is whole.  The fragments of a message that lost none are a *)
(* run of consecutive parts, and next is the part that follows those       *)
(* accumulated; a completed message runs up to its last part.  It may have *)
(* lost its first parts, to a failed allocation or because the interface   *)
(* was not open, and then parse_tlv refuses it.                            *)

Run(m) ==
  \A i \in 1..Len(m) :
    m[i].msg = m[1].msg /\ m[i].part = m[1].part + i - 1 /\ m[i].of = m[1].of

Ended(m) == Run(m) /\ m[1].part + Len(m) - 1 = m[1].of

Following(f, s) ==
  f.msg = s[1].msg /\ f.part = s[1].part + Len(s) /\ f.of = s[1].of

WholeInv ==
  /\ next.part <= next.of
  /\ r # <<>> /\ First(r) \notin lost => Run(r) /\ Following(next, r)
  /\ rx = "enqueue" => First(new_buf_handle) \in lost \/ Ended(new_buf_handle)
  /\ \A i \in 1..Len(queue) : First(queue[i]) \in lost \/ Ended(queue[i])
  /\ ReadIsWhole

LEMMA RunMore ==
  ASSUME NEW s \in Seq(Fragment), NEW f \in Fragment,
         s # <<>> => Run(s) /\ Following(f, s)
  PROVE  /\ Run(Append(s, f)) /\ Len(Append(s, f)) = Len(s) + 1 /\ Len(s) \in Nat
         /\ LET m == Append(s, f)[1] IN
              m \in Fragment /\ m.msg = f.msg /\ m.of = f.of /\ f.part = m.part + Len(s)
<1>1. /\ Append(s, f) \in Seq(Fragment) /\ Len(Append(s, f)) = Len(s) + 1
      /\ \A i \in 1..Len(s) : Append(s, f)[i] = s[i]
      /\ Append(s, f)[Len(s) + 1] = f /\ Len(s) \in Nat
  BY AppendProperties, LenProperties
<1>2. f.part \in Int
  BY DEF Fragment
<1>3. CASE s = <<>>
  <2>1. Len(s) = 0
    BY <1>3
  <2>2. Append(s, f)[1] = f
    BY <1>1, <2>1
  <2> QED BY <1>1, <1>2, <2>1, <2>2 DEF Run
<1>4. CASE s # <<>>
  <2>1. 1 \in 1..Len(s) /\ s[1] \in Fragment /\ Append(s, f)[1] = s[1]
    BY <1>1, <1>4, FirstType DEF Message
  <2>2. s[1].part \in Int
    BY <2>1 DEF Fragment
  <2>3. ASSUME NEW i \in 1..Len(s) + 1
        PROVE  /\ Append(s, f)[i].msg = s[1].msg /\ Append(s, f)[i].of = s[1].of
               /\ Append(s, f)[i].part = s[1].part + i - 1
    <3>1. CASE i \in 1..Len(s)
      BY <1>1, <1>4, <3>1 DEF Run
    <3>2. CASE i = Len(s) + 1
      BY <1>1, <1>4, <2>2, <3>2 DEF Following
    <3> QED BY <1>1, <3>1, <3>2
  <2> QED BY <1>1, <1>4, <2>1, <2>3 DEF Run, Following
<1> QED BY <1>3, <1>4

(* The fragment the slave sends after next.                                *)
LEMMA AdvanceParts ==
  ASSUME next \in Fragment, next.part <= next.of, Advance
  PROVE  /\ next'.part <= next'.of
         /\ MoreFragment(next) => /\ next'.msg = next.msg /\ next'.of = next.of
                                  /\ next'.part = next.part + 1
         /\ ~MoreFragment(next) => next.part = next.of
<1>1. next.part \in 1..MaxFrags /\ next.of \in 1..MaxFrags
  BY DEF Fragment
<1>2. CASE next.part < next.of
  <2>1. next' = [next EXCEPT !.part = next.part + 1]
    BY <1>2 DEF Advance
  <2>2. next'.part = next.part + 1 /\ next'.of = next.of /\ next'.msg = next.msg
    BY <2>1 DEF Fragment
  <2> QED BY <1>1, <1>2, <2>2 DEF MoreFragment
<1>3. CASE ~(next.part < next.of)
  <2>1. PICK k \in 1..MaxFrags : next' = [msg |-> next.msg + 1, part |-> 1, of |-> k]
    BY <1>3 DEF Advance
  <2>2. next'.part = 1 /\ next'.of = k
    BY <2>1
  <2> QED BY <1>1, <1>3, <2>1, <2>2 DEF MoreFragment
<1> QED BY <1>2, <1>3

(* What parse_tlv returns of a message that lost no frame is that message. *)
LEMMA ParsedWhole ==
  ASSUME NEW h \in Message, Ended(h), NEW m \in Parsed(h)
  PROVE  Whole(m)
<1>1. h[1] \in Fragment /\ h \in Seq(Fragment) /\ Len(h) \in Nat \ {0}
  BY FirstType
<1>2. m = SubSeq(h, 1, h[1].of) /\ h[1].part = 1 /\ h[1].of <= Len(h)
  BY DEF Parsed
<1>3. h[1].of = Len(h)
  BY <1>1, <1>2 DEF Ended, Fragment
<1>4. \A i \in 1..Len(h) : h[i] \in Fragment
  BY <1>1, ElementOfSeq
<1>5. m \in Seq(Fragment) /\ Len(m) = Len(h) /\ \A i \in 1..Len(h) : m[i] = h[1 + i - 1]
  BY <1>1, <1>2, <1>3, <1>4, SubSeqProperties
<1>6. \A i \in 1..Len(h) : m[i] = h[i]
  BY <1>1, <1>5
<1>7. DOMAIN m = 1..Len(h) /\ m[1] = h[1]
  BY <1>1, <1>5, <1>6, LenProperties
<1>8. \A i \in 1..Len(h) : h[i].msg = h[1].msg /\ h[i].part = i /\ h[i].of = Len(h)
  BY <1>1, <1>2, <1>3 DEF Ended, Run
<1> QED BY <1>5, <1>6, <1>7, <1>8 DEF Whole

LEMMA WholeLost ==
  ASSUME TypeInv, WholeInv, LoseFrame
  PROVE  WholeInv'
<1>1. /\ UNCHANGED <<r, rx, new_buf_handle, queue, read>>
      /\ lost' = lost \cup {next.msg} /\ next'.part <= next'.of
  BY AdvanceParts DEF LoseFrame, rxVars, TypeInv, TypeOK, WholeInv
<1>2. r # <<>> => First(r) \in lost'
  BY <1>1 DEF WholeInv, Following, First
<1> QED BY <1>1, <1>2 DEF WholeInv, Ended, Run, First, ReadIsWhole, Whole

LEMMA WholeAccumulate ==
  ASSUME TypeInv, WholeInv, Discard \/ Accumulate
  PROVE  WholeInv'
<1>1. /\ UNCHANGED <<rx, new_buf_handle, queue, read, lost>>
      /\ next \in Fragment /\ r \in Seq(Fragment) /\ next.part <= next.of /\ Advance
  BY DEF Discard, Accumulate, TypeInv, TypeOK, WholeInv
<1>2. next'.part <= next'.of
  BY <1>1, AdvanceParts
<1>3. /\ rx' = "enqueue" => First(new_buf_handle') \in lost' \/ Ended(new_buf_handle')
      /\ \A i \in 1..Len(queue') : First(queue'[i]) \in lost' \/ Ended(queue'[i])
      /\ ReadIsWhole'
  BY <1>1 DEF WholeInv, ReadIsWhole
<1>4. r' # <<>> /\ First(r') \notin lost => Run(r') /\ Following(next', r')
  <2> SUFFICES ASSUME r' # <<>>, First(r') \notin lost
               PROVE  Run(r') /\ Following(next', r')
    OBVIOUS
  <2>1. r' = Append(r, next) /\ MoreFragment(next)
    BY DEF Discard, Accumulate, Cleanup, AllocFails
  <2>2. First(r') = IF r = <<>> THEN next.msg ELSE First(r)
    BY <1>1, <2>1, FirstOfAppend DEF First
  <2>3. r # <<>> => Run(r) /\ Following(next, r)
    BY <2>2 DEF WholeInv
  <2>4. /\ Run(r') /\ Len(r') = Len(r) + 1 /\ Len(r) \in Nat /\ r'[1] \in Fragment
        /\ r'[1].msg = next.msg /\ r'[1].of = next.of /\ next.part = r'[1].part + Len(r)
    BY <1>1, <2>1, <2>3, RunMore
  <2>5. next'.msg = next.msg /\ next'.of = next.of /\ next'.part = next.part + 1
    BY <1>1, <2>1, AdvanceParts
  <2>6. r'[1].part \in Int
    BY <2>4 DEF Fragment
  <2> QED BY <2>4, <2>5, <2>6 DEF Following
<1> QED BY <1>1, <1>2, <1>3, <1>4 DEF WholeInv, First, Run, Following, Ended, ReadIsWhole

LEMMA WholeComplete ==
  ASSUME TypeInv, WholeInv, Complete
  PROVE  WholeInv'
<1>1. /\ UNCHANGED <<queue, read, lost>> /\ rx = "idle" /\ ~MoreFragment(next)
      /\ next \in Fragment /\ r \in Seq(Fragment) /\ next.part <= next.of /\ Advance
  BY DEF Complete, TypeInv, TypeOK, WholeInv
<1>2. r' = <<>> /\ next'.part <= next'.of /\ next.part = next.of
  BY <1>1, AdvanceParts DEF Complete, ResetReassembly, AllocFails, Cleanup
<1>3. ASSUME rx' = "enqueue"
      PROVE  First(new_buf_handle') \in lost \/ Ended(new_buf_handle')
  <2> SUFFICES ASSUME First(new_buf_handle') \notin lost
               PROVE  Ended(new_buf_handle')
    OBVIOUS
  <2>1. new_buf_handle' = Append(r, next)
    BY <1>1, <1>3 DEF Complete
  <2>2. First(new_buf_handle') = IF r = <<>> THEN next.msg ELSE First(r)
    BY <1>1, <2>1, FirstOfAppend DEF First
  <2>3. r # <<>> => Run(r) /\ Following(next, r)
    BY <2>2 DEF WholeInv
  <2> DEFINE m == new_buf_handle'
  <2>4. /\ Run(m) /\ Len(m) = Len(r) + 1 /\ Len(r) \in Nat /\ m[1] \in Fragment
        /\ m[1].of = next.of /\ next.part = m[1].part + Len(r)
    BY <1>1, <2>1, <2>3, RunMore
  <2>5. m[1].part \in Int
    BY <2>4 DEF Fragment
  <2> QED BY <1>2, <2>4, <2>5 DEF Ended
<1>4. (\A i \in 1..Len(queue) : First(queue[i]) \in lost \/ Ended(queue[i]))' /\ ReadIsWhole'
  BY <1>1 DEF WholeInv, First, Run, Ended, ReadIsWhole
<1>5. (rx = "enqueue" => First(new_buf_handle) \in lost \/ Ended(new_buf_handle))'
  BY <1>1, <1>3 DEF First, Run, Ended
<1> QED BY <1>2, <1>4, <1>5 DEF WholeInv

LEMMA WholeEnqueue ==
  ASSUME TypeInv, WholeInv, Enqueue
  PROVE  WholeInv'
<1>1. /\ new_buf_handle \in Message /\ queue \in Seq(Message)
      /\ queue' = Append(queue, new_buf_handle) /\ rx' = "indicate"
      /\ UNCHANGED <<read, r, next, lost>>
  BY DEF Enqueue, TypeInv
<1>2. First(new_buf_handle) \in lost \/ Ended(new_buf_handle)
  BY DEF Enqueue, WholeInv
<1>3. \A i \in 1..Len(queue') : First(queue'[i]) \in lost \/ Ended(queue'[i])
  BY <1>1, <1>2, PutInOrder DEF WholeInv
<1>4. (\A i \in 1..Len(queue) : First(queue[i]) \in lost \/ Ended(queue[i]))'
  BY <1>1, <1>3 DEF First, Run, Ended
<1> QED BY <1>1, <1>4 DEF WholeInv, First, Run, Following, ReadIsWhole

LEMMA WholeRead ==
  ASSUME TypeInv, OrderInv, WholeInv, ReadMessage
  PROVE  WholeInv'
<1>1. /\ queue \in Seq(Message) /\ queue # <<>> /\ queue' = Tail(queue) /\ read \in Seq(Message)
      /\ UNCHANGED <<r, rx, next, new_buf_handle, lost>>
  BY DEF ReadMessage, TypeInv, OrderInv, rxVars
<1> DEFINE h == Head(queue)
<1>2. h \in Message /\ (First(h) \in lost \/ Ended(h))
  BY <1>1, GetInOrder DEF WholeInv
<1>3. (\A i \in 1..Len(queue) : First(queue[i]) \in lost \/ Ended(queue[i]))'
  <2>1. \A i \in 1..Len(queue') : First(queue'[i]) \in lost \/ Ended(queue'[i])
    BY <1>1, GetInOrder DEF WholeInv
  <2> QED BY <1>1, <2>1 DEF First, Run, Ended
<1> HIDE DEF h
<1>4. ASSUME NEW m \in Parsed(h), read' = Append(read, m)
      PROVE  ReadIsWhole'
  <2>1. m \in Message /\ First(m) = First(h)
    BY <1>2, ParsedMessage
  <2>2. Whole(m) \/ m[1].msg \in lost
    BY <1>2, <2>1, ParsedWhole DEF First
  <2>3. /\ DOMAIN read' = 1..Len(read) + 1 /\ DOMAIN read = 1..Len(read) /\ Len(read) \in Nat
        /\ \A i \in 1..Len(read) : read'[i] = read[i]
        /\ read'[Len(read) + 1] = m
    <3>1. read' \in Seq(Message) /\ Len(read') = Len(read) + 1
      BY <1>1, <1>4, <2>1, AppendProperties
    <3> QED BY <1>1, <1>4, <2>1, <3>1, AppendProperties, LenProperties
  <2>4. \A i \in 1..Len(read) + 1 : Whole(read'[i]) \/ read'[i][1].msg \in lost
    <3> SUFFICES ASSUME NEW i \in 1..Len(read) + 1
                 PROVE  Whole(read'[i]) \/ read'[i][1].msg \in lost
      OBVIOUS
    <3>1. i \in 1..Len(read) \/ i = Len(read) + 1
      BY <2>3
    <3> QED BY <2>2, <2>3, <3>1 DEF WholeInv, ReadIsWhole
  <2> QED BY <1>1, <2>3, <2>4 DEF ReadIsWhole, Whole
<1>5. read' = read => ReadIsWhole'
  BY <1>1 DEF WholeInv, ReadIsWhole, Whole
<1>6. ReadIsWhole'
  BY <1>4, <1>5 DEF ReadMessage, h
<1> QED BY <1>1, <1>3, <1>6 DEF WholeInv, First, Run, Following, Ended

LEMMA WholeStep ==
  ASSUME TypeInv, OrderInv, WholeInv, [Next]_vars
  PROVE  WholeInv'
<1>1. CASE Open
  <2>1. /\ UNCHANGED <<next, r, rx, new_buf_handle, read, lost>> /\ Len(queue') = 0
    BY <1>1 DEF Open, rxVars
  <2> QED BY <2>1 DEF WholeInv, First, Run, Following, Ended, ReadIsWhole, Whole
<1>2. CASE Indicate \/ SpawnReader \/ WaitForIndication \/ Quiescent \/ UNCHANGED vars
  <2>1. /\ UNCHANGED <<next, r, read, queue, new_buf_handle, lost>>
        /\ rx' = "enqueue" => rx = "enqueue"
    BY <1>2 DEF Indicate, SpawnReader, WaitForIndication, Quiescent, vars, rxVars
  <2> QED BY <2>1 DEF WholeInv, First, Run, Following, Ended, ReadIsWhole, Whole
<1> QED BY Discards, <1>1, <1>2, WholeLost, WholeAccumulate, WholeComplete, WholeEnqueue, WholeRead
       DEF Next, Step

LEMMA Wholly == Spec => []WholeInv
<1>1. Init => WholeInv
  <2> SUFFICES ASSUME Init PROVE WholeInv
    OBVIOUS
  <2>1. next.part = 1 /\ next.of \in 1..MaxFrags
    BY DEF Init, Fragment
  <2>2. read = <<>> /\ queue = <<>> /\ r = <<>> /\ rx = "idle" /\ Len(<<>>) = 0
    BY DEF Init
  <2>3. DOMAIN read = {}
    BY <2>2
  <2> QED BY <2>1, <2>2, <2>3 DEF WholeInv, ReadIsWhole
<1>2. TypeInv /\ OrderInv /\ WholeInv /\ [Next]_vars => WholeInv'
  BY WholeStep
<1> QED BY <1>1, <1>2, Typed, Ordered, PTL DEF Spec

(* What the control library reads is one message, and all of it, unless    *)
(* the transport dropped one of the message's frames: neither failing      *)
(* allocations nor frames that come before the interface is open mix two   *)
(* messages or shorten one.                                                *)
THEOREM WholeMessages == Spec => []ReadIsWhole
<1>1. WholeInv => ReadIsWhole
  BY DEF WholeInv
<1> QED BY <1>1, Wholly, PTL

-----------------------------------------------------------------------------
(* The ordered channel.  What the reassembly buffer begins with is the     *)
(* message next belongs to, unless the message before that lost a frame;   *)
(* and it begins with a first fragment, unless the message is harmed.      *)

ChannelInv ==
  /\ rx # "enqueue" => new_buf_handle = <<>>
  /\ ~opened => r = <<>> /\ queue = <<>> /\ rx = "idle"
  /\ dangling => r = <<>>
  /\ r # <<>> /\ First(r) < next.msg => next.msg - 1 \in lost
  /\ r = <<>> /\ next.part # 1 => next.msg \in lost \cup failed
  /\ r # <<>> /\ r[1].part # 1 => First(r) \in lost \cup failed

Serial == TypeInv /\ OrderInv /\ WholeInv /\ ChannelInv

LEMMA NextFragment ==
  ASSUME next \in Fragment, Advance
  PROVE  /\ MoreFragment(next) => next'.msg = next.msg /\ next'.part = next.part + 1
         /\ ~MoreFragment(next) => next'.msg = next.msg + 1 /\ next'.part = 1
<1>1. CASE next.part < next.of
  <2>1. next' = [next EXCEPT !.part = next.part + 1]
    BY <1>1 DEF Advance
  <2> QED BY <1>1, <2>1 DEF Fragment, MoreFragment
<1>2. CASE ~(next.part < next.of)
  <2>1. PICK k \in 1..MaxFrags : next' = [msg |-> next.msg + 1, part |-> 1, of |-> k]
    BY <1>2 DEF Advance
  <2> QED BY <1>2, <2>1 DEF MoreFragment
<1> QED BY <1>1, <1>2

LEMMA HeadOfAppend ==
  ASSUME NEW s \in Seq(Fragment), NEW f \in Fragment
  PROVE  /\ Append(s, f) # <<>>
         /\ Append(s, f)[1] = IF s = <<>> THEN f ELSE s[1]
<1>1. /\ Append(s, f) # <<>> /\ Append(s, f)[Len(s) + 1] = f
      /\ \A i \in 1..Len(s) : Append(s, f)[i] = s[i]
  BY AppendProperties
<1>2. CASE s = <<>>
  <2>1. Len(s) = 0
    BY <1>2
  <2> QED BY <1>1, <1>2, <2>1
<1>3. CASE s # <<>>
  <2>1. 1 \in 1..Len(s)
    BY <1>3, EmptySeq, LenProperties
  <2> QED BY <1>1, <1>3, <2>1
<1> QED BY <1>2, <1>3

(* A step of the slave or of the handler that takes the next fragment.     *)
LEMMA ChannelAdvance ==
  ASSUME TypeInv, ChannelInv, LoseFrame \/ Discard \/ Accumulate
  PROVE  ChannelInv'
<1> USE DEF ChannelInv, First
<1>1. /\ next \in Fragment /\ r \in Seq(Fragment) /\ Advance /\ rx = "idle"
      /\ UNCHANGED <<opened, rx, new_buf_handle, queue>>
      /\ next.msg \in Int /\ next.part \in Int
  <2>1. next \in Fragment /\ r \in Seq(Fragment)
    BY DEF TypeInv, TypeOK
  <2>2. next.msg \in Int /\ next.part \in Int
    BY <2>1 DEF Fragment
  <2> QED BY <2>1, <2>2 DEF LoseFrame, Discard, Accumulate, rxVars
<1>2. CASE LoseFrame
  <2>1. lost' = lost \cup {next.msg} /\ failed' = failed /\ r' = r /\ dangling' = dangling
    BY <1>2 DEF LoseFrame, rxVars, memVars
  <2> QED BY <1>1, <2>1, NextFragment
<1>3. CASE Discard
  <2>1. r' = <<>> /\ failed' = failed \cup {next.msg} /\ lost' = lost
    BY <1>3 DEF Discard, Cleanup, Spoil
  <2> QED BY <1>1, <2>1, NextFragment
<1>4. CASE Accumulate
  <2>1. /\ MoreFragment(next) /\ lost' = lost /\ opened /\ ~dangling /\ dangling' = dangling
        /\ \/ r' = Append(r, next) /\ failed' = failed
           \/ r' = <<>> /\ failed' = failed \cup {next.msg}
    BY <1>4 DEF Accumulate, AllocFails, Spoil
  <2>2. next'.msg = next.msg /\ next'.part = next.part + 1
    BY <1>1, <2>1, NextFragment
  <2>3. Append(r, next) # <<>> /\ Append(r, next)[1] = IF r = <<>> THEN next ELSE r[1]
    BY <1>1, HeadOfAppend
  <2>4. CASE r' = <<>>
    BY <1>1, <2>1, <2>2, <2>3, <2>4
  <2>5. CASE r' = Append(r, next) /\ failed' = failed /\ r = <<>>
    <3>1. r' # <<>> /\ r'[1] = next
      BY <2>3, <2>5
    <3>2. (r' # <<>> /\ First(r') < next'.msg => next'.msg - 1 \in lost')
      BY <1>1, <2>2, <3>1
    <3> QED BY <1>1, <2>1, <2>5, <3>1, <3>2
  <2>6. CASE r' = Append(r, next) /\ failed' = failed /\ r # <<>>
    <3>1. r' # <<>> /\ r'[1] = r[1]
      BY <2>3, <2>6
    <3> QED BY <1>1, <2>1, <2>2, <2>6, <3>1
  <2> QED BY <2>1, <2>4, <2>5, <2>6
<1> QED BY <1>2, <1>3, <1>4

LEMMA ChannelInvStep ==
  ASSUME TypeInv, ChannelInv, [Next]_vars
  PROVE  ChannelInv'
<1> USE DEF ChannelInv, First, rxVars
<1>1. CASE Complete
  <2>1. next \in Fragment /\ Advance /\ ~MoreFragment(next)
    BY <1>1 DEF Complete, TypeInv, TypeOK
  <2>2. next'.part = 1
    BY <2>1, NextFragment
  <2>3. /\ r' = <<>> /\ rx = "idle" /\ opened /\ opened' = opened
        /\ rx' = "enqueue" \/ (rx' = rx /\ new_buf_handle' = new_buf_handle)
    BY <1>1 DEF Complete, ResetReassembly, AllocFails, Cleanup
  <2> QED BY <2>2, <2>3
<1>2. CASE Open
  BY <1>2 DEF Open
<1>3. CASE Enqueue
  <2>1. opened' = opened /\ new_buf_handle' = <<>> /\ UNCHANGED <<next, r, dangling, lost, failed>>
    BY <1>3 DEF Enqueue, memVars
  <2>2. opened
    BY <1>3 DEF Enqueue
  <2> QED BY <2>1, <2>2
<1>4. CASE ReadMessage
  <2>1. /\ UNCHANGED <<next, opened, rx, new_buf_handle, r, dangling, lost>> /\ failed \subseteq failed'
        /\ queue # <<>>
    BY <1>4 DEF ReadMessage, Spoil, memVars
  <2> QED BY <2>1
<1>5. CASE Indicate \/ SpawnReader \/ WaitForIndication \/ Quiescent \/ UNCHANGED vars
  <2>1. UNCHANGED <<next, opened, r, dangling, new_buf_handle, queue, lost, failed>>
        /\ (rx' = rx \/ rx = "indicate")
    BY <1>5 DEF Indicate, SpawnReader, WaitForIndication, Quiescent, vars, memVars
  <2> QED BY <2>1
<1> QED BY Discards, <1>1, <1>2, <1>3, <1>4, <1>5, ChannelAdvance DEF Next, Step

(* A message in transit begins what is completed, accumulated or queued.   *)
Begins(m, n) == m # <<>> /\ m[1].part = 1 /\ m[1].msg = n

LEMMA TransitDef ==
  ASSUME TypeOK
  PROVE  \A n : n \in InTransit <=>
           /\ n \in 1..(next.msg - 1)
           /\ \/ Begins(new_buf_handle, n) \/ Begins(r, n)
              \/ \E i \in 1..Len(queue) : Begins(queue[i], n)
<1>1. DOMAIN queue = 1..Len(queue)
  BY DEF TypeOK
<1> QED BY <1>1 DEF InTransit, Begins

LEMMA TransitNext ==
  ASSUME TypeOK'
  PROVE  \A n : n \in InTransit' <=>
           /\ n \in 1..(next'.msg - 1)
           /\ \/ Begins(new_buf_handle', n) \/ Begins(r', n)
              \/ \E i \in 1..Len(queue') : Begins(queue'[i], n)
<1>1. DOMAIN queue' = 1..Len(queue')
  BY DEF TypeOK
<1> QED BY <1>1 DEF InTransit, Begins

LEMMA Carries ==
  ASSUME next'.msg = next.msg, read' = read, Harmed \subseteq Harmed',
         InTransit' \subseteq InTransit, InTransit \ InTransit' \subseteq Harmed'
  PROVE  Channel!Next
BY DEF Channel!Next, Channel!Lose, Channel!Carry

LEMMA Sends ==
  ASSUME next.msg \in Int, next'.msg = next.msg + 1, read' = read, Harmed \subseteq Harmed',
         InTransit' \subseteq InTransit \cup {next.msg},
         (InTransit \cup {next.msg}) \ InTransit' \subseteq Harmed'
  PROVE  Channel!Next
<1>1. next.msg - 1 + 1 = next.msg /\ next'.msg - 1 = next.msg
  OBVIOUS
<1> QED BY <1>1 DEF Channel!Next, Channel!Send, Channel!Carry

(* What harms a message is not forgotten, and the transit set depends on   *)
(* four variables.                                                         *)
LEMMA HarmedGrows == [Next]_vars => Harmed \subseteq Harmed'
<1> SUFFICES ASSUME [Next]_vars PROVE lost \subseteq lost' /\ failed \subseteq failed'
  BY DEF Harmed
<1> QED
  BY Discards DEF Next, Step, vars, rxVars, Quiescent, LoseFrame, Open, Discard, Accumulate, Complete,
     AllocFails, Spoil, Enqueue, Indicate, SpawnReader, WaitForIndication, ReadMessage

(* A fragment that is lost on the wire, or comes too early.                *)
LEMMA ChannelMisses ==
  ASSUME Serial, TypeOK', LoseFrame \/ Discard, Harmed \subseteq Harmed'
  PROVE  Channel!Next
<1>1. /\ next \in Fragment /\ Advance /\ next.msg \in Int
      /\ UNCHANGED <<new_buf_handle, queue, read>>
  <2>1. next \in Fragment
    BY DEF Serial, TypeInv, TypeOK
  <2> QED BY <2>1 DEF LoseFrame, Discard, rxVars, Fragment
<1>2. r' = r
  BY DEF LoseFrame, rxVars, Discard, Cleanup, Serial, ChannelInv
<1>3. next.msg \in Harmed'
  BY DEF LoseFrame, Discard, Spoil, Harmed
<1>4. \A n : n \in InTransit <=>
         /\ n \in 1..(next.msg - 1)
         /\ \/ Begins(new_buf_handle, n) \/ Begins(r, n)
            \/ \E i \in 1..Len(queue) : Begins(queue[i], n)
  BY TransitDef DEF Serial, TypeInv
<1>5. \A n : n \in InTransit' <=>
         /\ n \in 1..(next'.msg - 1)
         /\ \/ Begins(new_buf_handle, n) \/ Begins(r, n)
            \/ \E i \in 1..Len(queue) : Begins(queue[i], n)
  BY <1>1, <1>2, TransitNext DEF Begins
<1>6. CASE MoreFragment(next)
  <2>1. next'.msg = next.msg
    BY <1>1, <1>6, NextFragment
  <2>2. InTransit' = InTransit
    BY <1>4, <1>5, <2>1
  <2> QED BY <1>1, <2>1, <2>2, Carries
<1>7. CASE ~MoreFragment(next)
  <2>1. next'.msg = next.msg + 1
    BY <1>1, <1>7, NextFragment
  <2>2. \A n : n \in 1..(next'.msg - 1) <=> n \in 1..(next.msg - 1) \/ (n = next.msg /\ n >= 1)
    BY <1>1, <2>1
  <2>3. InTransit' \subseteq InTransit \cup {next.msg} /\ InTransit \subseteq InTransit'
    BY <1>4, <1>5, <2>2
  <2> QED BY <1>1, <1>3, <2>1, <2>3, Sends
<1> QED BY <1>6, <1>7

LEMMA ChannelAccumulates ==
  ASSUME Serial, TypeOK', Accumulate, Harmed \subseteq Harmed'
  PROVE  Channel!Next
<1>1. /\ next \in Fragment /\ next'.msg = next.msg /\ next.msg \in Int /\ r \in Seq(Fragment)
      /\ UNCHANGED <<new_buf_handle, queue, read>>
  <2>1. next \in Fragment /\ r \in Seq(Fragment) /\ Advance /\ MoreFragment(next)
    BY DEF Serial, TypeInv, TypeOK, Accumulate
  <2> QED BY <2>1, NextFragment DEF Accumulate, Fragment
<1>2. \A n : n \in InTransit <=>
         /\ n \in 1..(next.msg - 1)
         /\ \/ Begins(new_buf_handle, n) \/ Begins(r, n)
            \/ \E i \in 1..Len(queue) : Begins(queue[i], n)
  BY TransitDef DEF Serial, TypeInv
<1>3. \A n : n \in InTransit' <=>
         /\ n \in 1..(next.msg - 1)
         /\ \/ Begins(new_buf_handle, n) \/ Begins(r', n)
            \/ \E i \in 1..Len(queue) : Begins(queue[i], n)
  BY <1>1, TransitNext DEF Begins
<1>4. CASE r' = Append(r, next)
  <2>1. \A n \in 1..(next.msg - 1) : Begins(r', n) <=> Begins(r, n)
    <3>1. r' # <<>> /\ r'[1] = IF r = <<>> THEN next ELSE r[1]
      BY <1>1, <1>4, HeadOfAppend
    <3> QED BY <1>1, <3>1 DEF Begins
  <2>2. InTransit' = InTransit
    BY <1>2, <1>3, <2>1
  <2> QED BY <1>1, <2>2, Carries
<1>5. CASE r' = <<>>
  <2>1. \A n : ~Begins(r', n)
    BY <1>5 DEF Begins
  <2>2. InTransit' \subseteq InTransit
    BY <1>2, <1>3, <2>1
  <2>3. ASSUME NEW n \in InTransit, n \notin InTransit'
        PROVE  n \in Harmed'
    <3>1. n \in 1..(next.msg - 1) /\ Begins(r, n)
      BY <1>2, <1>3, <2>1, <2>3
    <3>2. First(r) \in lost
      BY <1>1, <3>1 DEF Serial, WholeInv, Following, Begins, First
    <3>3. n \in Harmed
      BY <3>1, <3>2 DEF Begins, First, Harmed
    <3> QED BY <3>3
  <2> QED BY <1>1, <2>2, <2>3, Carries
<1> QED BY <1>4, <1>5 DEF Accumulate, AllocFails

(* The last fragment: the message is on its way, unless it is harmed.      *)
LEMMA ChannelCompletes ==
  ASSUME Serial, TypeOK', Complete, Harmed \subseteq Harmed'
  PROVE  Channel!Next
<1>1. /\ next \in Fragment /\ next.msg \in Int /\ next.msg >= 1
      /\ next'.msg = next.msg + 1 /\ r \in Seq(Fragment)
      /\ UNCHANGED <<queue, read>> /\ r' = <<>> /\ new_buf_handle = <<>>
      /\ lost' = lost /\ failed \subseteq failed'
  <2>1. next \in Fragment /\ r \in Seq(Fragment) /\ Advance /\ ~MoreFragment(next)
    BY DEF Serial, TypeInv, TypeOK, Complete
  <2>2. /\ r' = <<>> /\ new_buf_handle = <<>> /\ UNCHANGED <<queue, read, lost>>
        /\ failed \subseteq failed'
    BY DEF Complete, ResetReassembly, AllocFails, Cleanup, Spoil, Serial, ChannelInv
  <2> QED BY <2>1, <2>2, NextFragment DEF Fragment
<1>2. \A n : n \in InTransit <=>
         /\ n \in 1..(next.msg - 1)
         /\ Begins(r, n) \/ \E i \in 1..Len(queue) : Begins(queue[i], n)
  BY <1>1, TransitDef DEF Serial, TypeInv, Begins
<1>3. \A n : n \in InTransit' <=>
         /\ n \in 1..(next'.msg - 1)
         /\ Begins(new_buf_handle', n) \/ \E i \in 1..Len(queue) : Begins(queue[i], n)
  BY <1>1, TransitNext DEF Begins
<1>4. \A n : n \in 1..(next'.msg - 1) <=> n \in 1..(next.msg - 1) \/ n = next.msg
  BY <1>1
<1>5. r # <<>> => First(r) <= next.msg /\ First(r) \in Int
  BY <1>1, NumberType DEF Serial, OrderInv, Upcoming, First
<1>6. \A n \in 1..(next.msg - 1) : Begins(r, n) => n \in lost
  BY <1>1 DEF Serial, WholeInv, Following, Begins, First
<1>7. CASE new_buf_handle' = Append(r, next)
  <2>1. new_buf_handle' # <<>> /\ new_buf_handle'[1] = IF r = <<>> THEN next ELSE r[1]
    BY <1>1, <1>7, HeadOfAppend
  <2>2. \A n \in 1..(next.msg - 1) : Begins(new_buf_handle', n) <=> Begins(r, n)
    BY <1>1, <2>1 DEF Begins
  <2>3. InTransit' \subseteq InTransit \cup {next.msg} /\ InTransit \subseteq InTransit'
    BY <1>2, <1>3, <1>4, <2>2
  <2>4. next.msg \in InTransit' \/ next.msg \in Harmed
    <3>1. CASE r = <<>> /\ next.part = 1
      BY <1>1, <1>3, <1>4, <2>1, <3>1 DEF Begins
    <3>2. CASE r = <<>> /\ next.part # 1
      BY <3>2 DEF Serial, ChannelInv, Harmed
    <3>3. CASE r # <<>> /\ First(r) < next.msg
      <4>1. next.msg - 1 \in lost /\ next.msg = (next.msg - 1) + 1
        BY <1>1, <3>3 DEF Serial, ChannelInv
      <4> QED BY <4>1 DEF Harmed
    <3>4. CASE r # <<>> /\ First(r) = next.msg /\ r[1].part = 1
      BY <1>1, <1>3, <1>4, <2>1, <3>4 DEF Begins, First
    <3>5. CASE r # <<>> /\ First(r) = next.msg /\ r[1].part # 1
      BY <3>5 DEF Serial, ChannelInv, Harmed
    <3> QED BY <1>1, <1>5, <3>1, <3>2, <3>3, <3>4, <3>5
  <2> QED BY <1>1, <2>3, <2>4, Sends
<1>8. CASE new_buf_handle' = <<>> /\ next.msg \in failed'
  <2>1. \A n : ~Begins(new_buf_handle', n)
    BY <1>8 DEF Begins
  <2>2. InTransit' \subseteq InTransit \cup {next.msg}
    BY <1>2, <1>3, <1>4, <2>1
  <2>3. next.msg \in Harmed'
    BY <1>8 DEF Harmed
  <2>4. ASSUME NEW n \in InTransit, n \notin InTransit'
        PROVE  n \in Harmed'
    <3>1. n \in 1..(next.msg - 1) /\ Begins(r, n)
      BY <1>2, <1>3, <1>4, <2>1, <2>4
    <3>2. n \in Harmed
      BY <1>6, <3>1 DEF Harmed
    <3> QED BY <3>2
  <2> QED BY <1>1, <2>2, <2>3, <2>4, Sends
<1> QED BY <1>1, <1>7, <1>8 DEF Complete, AllocFails, Spoil

LEMMA ChannelEnqueues ==
  ASSUME Serial, TypeOK', Enqueue, Harmed \subseteq Harmed'
  PROVE  Channel!Next
<1>1. /\ new_buf_handle \in Message /\ queue \in Seq(Message) /\ new_buf_handle' = <<>>
      /\ queue' = Append(queue, new_buf_handle) /\ UNCHANGED <<next, r, read>>
  BY DEF Enqueue, Serial, TypeInv
<1>2. /\ Len(queue') = Len(queue) + 1 /\ Len(queue) \in Nat
      /\ \A i \in 1..Len(queue) : queue'[i] = queue[i]
      /\ queue'[Len(queue) + 1] = new_buf_handle
  BY <1>1, AppendProperties, LenProperties
<1>3. \A n : n \in InTransit <=>
         /\ n \in 1..(next.msg - 1)
         /\ \/ Begins(new_buf_handle, n) \/ Begins(r, n)
            \/ \E i \in 1..Len(queue) : Begins(queue[i], n)
  BY TransitDef DEF Serial, TypeInv
<1>4. \A n : n \in InTransit' <=>
         /\ n \in 1..(next.msg - 1)
         /\ Begins(r, n) \/ \E i \in 1..Len(queue') : Begins(queue'[i], n)
  BY <1>1, TransitNext DEF Begins
<1>5. \A n : (\E i \in 1..Len(queue') : Begins(queue'[i], n))
              <=> Begins(new_buf_handle, n) \/ \E i \in 1..Len(queue) : Begins(queue[i], n)
  <2>1. \A i \in 1..Len(queue') : i \in 1..Len(queue) \/ i = Len(queue) + 1
    BY <1>2
  <2>2. Len(queue) + 1 \in 1..Len(queue') /\ \A i \in 1..Len(queue) : i \in 1..Len(queue')
    BY <1>2
  <2> QED BY <1>2, <2>1, <2>2
<1>6. InTransit' = InTransit
  BY <1>3, <1>4, <1>5
<1> QED BY <1>1, <1>6, Carries

(* The message read is the oldest one in transit; one that is not read was *)
(* harmed, or begins in the middle and was not in transit.                 *)
LEMMA ChannelReads ==
  ASSUME Serial, TypeOK', ReadMessage, Harmed \subseteq Harmed'
  PROVE  Channel!Next
<1>1. /\ queue \in Seq(Message) /\ queue # <<>> /\ queue' = Tail(queue) /\ read \in Seq(Message)
      /\ UNCHANGED <<next, r, rx, new_buf_handle, lost>> /\ next.msg \in Int
      /\ r \in Seq(Fragment) /\ next \in Fragment
  <2>1. next \in Fragment
    BY DEF Serial, TypeInv, TypeOK
  <2> QED BY <2>1 DEF ReadMessage, Serial, TypeInv, TypeOK, OrderInv, rxVars, Fragment
<1> DEFINE h == Head(queue)
           n == First(h)
<1>2. /\ h \in Message /\ Tail(queue) \in Seq(Message) /\ h = queue[1] /\ 1 \in 1..Len(queue)
      /\ \A i \in 1..Len(queue') : i + 1 \in 1..Len(queue) /\ queue'[i] = queue[i + 1]
      /\ \A i \in 1..Len(queue') : n < First(queue'[i])
      /\ n < Upcoming /\ (rx = "enqueue" => n < First(new_buf_handle))
  BY <1>1, GetInOrder DEF Serial, OrderInv
<1>3. n \in Int /\ n \in 1..(next.msg - 1) /\ h \in Seq(Fragment) /\ h # <<>>
  <2>1. n \in Int /\ h[1] \in Fragment /\ h \in Seq(Fragment) /\ h # <<>>
    BY <1>2, FirstType DEF Message
  <2>2. n >= 1
    BY <2>1 DEF First, Fragment
  <2>3. Upcoming <= next.msg /\ Upcoming \in Int
    BY <1>1, NumberType DEF Serial, OrderInv, Upcoming
  <2> QED BY <1>1, <1>2, <2>1, <2>2, <2>3
<1>4. \A k : k \in InTransit <=>
         /\ k \in 1..(next.msg - 1)
         /\ \/ Begins(new_buf_handle, k) \/ Begins(r, k)
            \/ \E i \in 1..Len(queue) : Begins(queue[i], k)
  BY TransitDef DEF Serial, TypeInv
<1>5. \A k : k \in InTransit' <=>
         /\ k \in 1..(next.msg - 1)
         /\ \/ Begins(new_buf_handle, k) \/ Begins(r, k)
            \/ \E i \in 1..Len(queue') : Begins(queue'[i], k)
  BY <1>1, TransitNext DEF Begins
<1> HIDE DEF h
<1>6. \A k : (\E i \in 1..Len(queue) : Begins(queue[i], k))
              <=> Begins(h, k) \/ \E i \in 1..Len(queue') : Begins(queue'[i], k)
  <2>1. \A i \in 1..Len(queue) : i = 1 \/ (i - 1 \in 1..Len(queue') /\ queue[i] = queue'[i - 1])
    <3>1. Len(queue') = Len(queue) - 1 /\ Len(queue) \in Nat \ {0}
      BY <1>1, QueueGet
    <3> SUFFICES ASSUME NEW i \in 1..Len(queue), i # 1
                 PROVE  i - 1 \in 1..Len(queue') /\ queue[i] = queue'[i - 1]
      OBVIOUS
    <3>2. i - 1 \in 1..Len(queue') /\ (i - 1) + 1 = i
      BY <3>1
    <3> QED BY <1>2, <3>2
  <2> QED BY <1>2, <2>1
<1>7. \A k : Begins(h, k) <=> h[1].part = 1 /\ k = n
  BY <1>3 DEF Begins, First
<1>8. \A k \in InTransit' : n < k
  <2>1. \A k : Begins(new_buf_handle, k) => n < k
    BY <1>2 DEF Begins, First, Serial, ChannelInv
  <2>2. \A k : Begins(r, k) => n < k
    BY <1>2 DEF Begins, Upcoming
  <2>3. \A k : \A i \in 1..Len(queue') : Begins(queue'[i], k) => n < k
    BY <1>2 DEF Begins, First
  <2> QED BY <1>5, <2>1, <2>2, <2>3
<1> HIDE DEF n
<1>9. n \notin InTransit'
  BY <1>3, <1>8
<1>10. InTransit = IF h[1].part = 1 THEN InTransit' \cup {n} ELSE InTransit'
  BY <1>3, <1>4, <1>5, <1>6, <1>7
<1>11. ASSUME NEW m \in Parsed(h), read' = Append(read, m)
       PROVE  Channel!Next
  <2>1. m \in Message /\ First(m) = n /\ h[1].part = 1
    BY <1>2, <1>11, ParsedMessage DEF Parsed, n
  <2>2. n \in InTransit /\ InTransit' = InTransit \ {n}
    BY <1>9, <1>10, <2>1
  <2>3. \A k \in InTransit : n <= k
    <3>1. \A k \in InTransit : k \in Int
      BY <1>4
    <3> QED BY <1>3, <1>8, <1>10, <2>1, <3>1
  <2> DEFINE g == [i \in DOMAIN read |-> read[i][1].msg]
             g1 == [i \in DOMAIN read' |-> read'[i][1].msg]
  <2>4. g1 = Append(g, n)
    <3>1. /\ DOMAIN read = 1..Len(read) /\ Len(read) \in Nat
          /\ DOMAIN read' = 1..(Len(read) + 1)
          /\ \A i \in 1..Len(read) : read'[i] = read[i]
          /\ read'[Len(read) + 1] = m
      BY <1>1, <1>11, <2>1, AppendProperties, LenProperties
    <3>2. /\ g \in Seq(Int) /\ Len(g) = Len(read) /\ \A i \in 1..Len(read) : g[i] = read[i][1].msg
      <4>1. \A i \in 1..Len(read) : read[i][1].msg \in Int
        BY <1>1, NumbersOf DEF First
      <4>2. g = [i \in 1..Len(read) |-> read[i][1].msg]
        BY <3>1
      <4> QED BY <3>1, <4>1, <4>2
    <3>3. g1 = [i \in 1..(Len(read) + 1) |-> IF i \in 1..Len(read) THEN g[i] ELSE n]
      <4>1. \A i \in 1..(Len(read) + 1) : i \in 1..Len(read) \/ i = Len(read) + 1
        BY <3>1
      <4>2. Len(read) + 1 \notin 1..Len(read)
        BY <3>1
      <4>3. m[1].msg = n
        BY <2>1 DEF First
      <4> QED BY <3>1, <3>2, <4>1, <4>2, <4>3
    <3>4. Append(g, n) = [i \in 1..(Len(g) + 1) |-> IF i \in 1..Len(g) THEN g[i] ELSE n]
      <4> HIDE DEF g
      <4>1. /\ Append(g, n) \in Seq(Int) /\ Len(Append(g, n)) = Len(g) + 1
            /\ \A i \in 1..Len(g) : Append(g, n)[i] = g[i]
            /\ Append(g, n)[Len(g) + 1] = n
        BY <1>3, <3>2, AppendProperties
      <4>2. Append(g, n) = [i \in 1..(Len(g) + 1) |-> Append(g, n)[i]]
        <5> DEFINE a == Append(g, n)
        <5> HIDE DEF a
        <5>1. a \in Seq(Int) /\ Len(a) = Len(g) + 1
          BY <4>1 DEF a
        <5>2. a = [i \in 1..Len(a) |-> a[i]]
          BY <5>1
        <5> QED BY <5>1, <5>2 DEF a
      <4>3. \A i \in 1..(Len(g) + 1) : i \notin 1..Len(g) => i = Len(g) + 1
        BY <3>1, <3>2
      <4> QED BY <4>1, <4>2, <4>3
    <3> QED BY <3>2, <3>3, <3>4
  <2> QED BY <1>1, <2>2, <2>3, <2>4 DEF Channel!Next, Channel!Deliver
<1>12. ASSUME read' = read, \/ Parsed(h) = {}
                            \/ h[1].msg \in failed'
       PROVE  Channel!Next
  <2>1. h[1].part = 1 => n \in Harmed'
    <3>1. CASE h[1].msg \in failed'
      BY <3>1 DEF Harmed, First, n
    <3>2. CASE Parsed(h) = {} /\ h[1].part = 1
      <4>1. n \in lost \/ Ended(h)
        BY <1>2 DEF Serial, WholeInv, n
      <4>2. ~Ended(h)
        <5>1. ~(Len(h) >= h[1].of)
          BY <3>2 DEF Parsed
        <5>2. h[1] \in Fragment /\ Len(h) \in Nat
          BY <1>2, FirstType
        <5> QED BY <3>2, <5>1, <5>2 DEF Ended, Fragment
      <4> QED BY <1>1, <4>1, <4>2 DEF Harmed
    <3> QED BY <1>12, <3>1, <3>2
  <2>2. InTransit' \subseteq InTransit /\ InTransit \ InTransit' \subseteq Harmed'
    BY <1>10, <2>1
  <2> QED BY <1>1, <1>12, <2>2, Carries
<1> QED BY <1>11, <1>12 DEF ReadMessage, Spoil, h

LEMMA SerialChannelStep ==
  ASSUME Serial, TypeOK', [Next]_vars
  PROVE  Channel!Next
<1>1. Harmed \subseteq Harmed'
  BY HarmedGrows
<1>2. ASSUME UNCHANGED <<next, r, new_buf_handle, queue, read>>
      PROVE  Channel!Next
  <2>1. InTransit' = InTransit
    BY <1>2 DEF InTransit
  <2> QED BY <1>1, <1>2, <2>1, Carries
<1>3. CASE Open
  BY <1>2, <1>3 DEF Open, rxVars, Serial, ChannelInv
<1>4. CASE Indicate \/ SpawnReader \/ WaitForIndication \/ Quiescent \/ UNCHANGED vars
  BY <1>2, <1>4 DEF Indicate, SpawnReader, WaitForIndication, Quiescent, vars, rxVars
<1> QED
  BY <1>1, <1>3, <1>4, ChannelMisses, ChannelAccumulates, ChannelCompletes, ChannelEnqueues,
     ChannelReads, Discards DEF Next, Step

(* From the slave to the control library the serial link is an ordered     *)
(* channel: a message is lost only if it came before the interface was     *)
(* open, met an allocation that failed, lost a frame on the wire or        *)
(* follows one that did; merged indications and full queues lose none.     *)
THEOREM LinkIsOrderedChannel == Spec => ImplementsChannel
<1>1. Init => ChannelInv
  BY DEF Init, ChannelInv
<1>2. Init => Channel!Init
  <2> SUFFICES ASSUME Init PROVE Channel!Init
    OBVIOUS
  <2>1. Harmed = {}
    BY DEF Init, Harmed
  <2>2. next.msg = 1
    BY DEF Init
  <2>3. InTransit = {}
    BY <2>2 DEF InTransit
  <2>4. [i \in DOMAIN read |-> read[i][1].msg] = <<>>
    BY DEF Init
  <2> QED BY <2>1, <2>2, <2>3, <2>4 DEF Channel!Init
<1>3. TypeInv /\ ChannelInv /\ [Next]_vars => ChannelInv'
  BY ChannelInvStep
<1>4. Serial /\ TypeOK' /\ [Next]_vars => [Channel!Next]_(Channel!vars)
  BY SerialChannelStep
<1>5. TypeInv /\ OrderInv /\ WholeInv /\ ChannelInv => Serial
  BY DEF Serial
<1> QED
  BY <1>1, <1>2, <1>3, <1>4, <1>5, Typed, TypeCorrect, Ordered, Wholly, PTL
  DEF Spec, ImplementsChannel, Channel!Spec
-----------------------------------------------------------------------------
(* What an ordered channel is good for: its receiver can rely on it.       *)

ReliableInv ==
  /\ next.msg - 1 \in Nat /\ [i \in DOMAIN read |-> read[i][1].msg] \in Seq(Nat)
  /\ Channel!Reliable

LEMMA ReliableStep ==
  ASSUME ReliableInv, [Channel!Next]_(Channel!vars)
  PROVE  ReliableInv'
<1> DEFINE h == Harmed  s == next.msg - 1  t == InTransit  g == [i \in DOMAIN read |-> read[i][1].msg]
           Reliable(a, n, b, c) ==
             /\ n \in Nat /\ c \in Seq(Nat)
             /\ \A k \in 1..n : k \in a \/ k \in b \/ \E i \in DOMAIN c : c[i] = k
             /\ \A i, j \in DOMAIN c : i < j => c[i] < c[j]
             /\ b \subseteq 1..n
             /\ \A i \in DOMAIN c : c[i] <= n /\ \A m \in b : c[i] < m
<1>1. Reliable(h, s, t, g)
  BY DEF ReliableInv, Channel!Reliable, Channel!Complete, Channel!InOrder, Channel!StillToCome
<1>2. Reliable(h', s', t', g') => ReliableInv'
  BY DEF ReliableInv, Channel!Reliable, Channel!Complete, Channel!InOrder, Channel!StillToCome
<1>3. \/ h' = h /\ s' = s /\ t' = t /\ g' = g
      \/ /\ h \subseteq h'
         /\ \/ \E S \in {t, t \cup {s + 1}} :
                 /\ \/ S = t /\ s' = s
                    \/ S = t \cup {s + 1} /\ s' = s + 1
                 /\ g' = g /\ t' \subseteq S /\ S \ t' \subseteq h'
            \/ \E m \in t :
                 /\ \A n \in t : m <= n
                 /\ t' = t \ {m} /\ g' = Append(g, m) /\ s' = s
  BY DEF Channel!Next, Channel!vars, Channel!Send, Channel!Lose, Channel!Deliver, Channel!Carry
<1> HIDE DEF h, s, t, g
<1>4. CASE h' = h /\ s' = s /\ t' = t /\ g' = g
  BY <1>1, <1>2, <1>4
<1>5. ASSUME h \subseteq h', g' = g, NEW S \in {t, t \cup {s + 1}},
             (S = t /\ s' = s) \/ (S = t \cup {s + 1} /\ s' = s + 1), t' \subseteq S, S \ t' \subseteq h'
      PROVE  ReliableInv'
  <2>1. s' \in Nat /\ s <= s' /\ S \subseteq 1..s' /\ (1..s') \ (1..s) \subseteq S
    BY <1>1, <1>5
  <2>2. \A i \in DOMAIN g : g[i] \in Nat /\ g[i] <= s' /\ \A m \in t' : g[i] < m
    BY <1>1, <1>5, <2>1, ElementOfSeq
  <2>3. \A k \in 1..s' : k \in h' \/ k \in t' \/ \E i \in DOMAIN g : g[i] = k
    BY <1>1, <1>5, <2>1
  <2>4. /\ g' \in Seq(Nat) /\ t' \subseteq 1..s'
        /\ \A i, j \in DOMAIN g' : i < j => g'[i] < g'[j]
    BY <1>1, <1>5, <2>1
  <2>5. \A i \in DOMAIN g' : g'[i] <= s' /\ \A m \in t' : g'[i] < m
    BY <1>5, <2>2
  <2>6. \A k \in 1..s' : k \in h' \/ k \in t' \/ \E i \in DOMAIN g' : g'[i] = k
    BY <1>5, <2>3
  <2>7. s' \in Nat
    BY <2>1
  <2> QED BY <1>2, <2>4, <2>5, <2>6, <2>7
<1>6. ASSUME h \subseteq h', NEW m \in t, \A n \in t : m <= n,
             t' = t \ {m}, g' = Append(g, m), s' = s
      PROVE  ReliableInv'
  <2>1. /\ m \in 1..s /\ m \in Nat /\ Len(g) \in Nat /\ DOMAIN g = 1..Len(g)
        /\ \A i \in 1..Len(g) : g[i] \in Nat /\ g[i] < m
    BY <1>1, <1>6, LenProperties, ElementOfSeq
  <2>2. /\ g' \in Seq(Nat) /\ DOMAIN g' = 1..(Len(g) + 1)
        /\ \A i \in 1..Len(g) : g'[i] = g[i]
        /\ g'[Len(g) + 1] = m
    BY <1>1, <1>6, <2>1, AppendProperties, LenProperties
  <2>3. \A k \in 1..s : k \in h' \/ k \in t' \/ \E i \in DOMAIN g' : g'[i] = k
    <3> SUFFICES ASSUME NEW k \in 1..s, k \notin h', k \notin t'
                 PROVE  \E i \in DOMAIN g' : g'[i] = k
      OBVIOUS
    <3>1. CASE k = m
      BY <2>1, <2>2, <3>1
    <3>2. CASE k # m
      <4>1. k \notin h /\ k \notin t
        BY <1>6, <3>2
      <4>2. \E i \in DOMAIN g : g[i] = k
        BY <1>1, <4>1, Zenon
      <4>3. PICK i \in 1..Len(g) : g[i] = k
        BY <2>1, <4>2, Zenon
      <4>4. i \in DOMAIN g' /\ g'[i] = k
        BY <2>1, <2>2, <4>3
      <4> QED BY <4>4, Zenon
    <3> QED BY <3>1, <3>2
  <2>4. \A i, j \in DOMAIN g' : i < j => g'[i] < g'[j]
    <3> SUFFICES ASSUME NEW i \in 1..(Len(g) + 1), NEW j \in 1..(Len(g) + 1), i < j
                 PROVE  g'[i] < g'[j]
      BY <2>2
    <3>1. i \in 1..Len(g) /\ (j \in 1..Len(g) \/ j = Len(g) + 1)
      BY <2>1
    <3> QED BY <1>1, <2>1, <2>2, <3>1
  <2>5. \A i \in DOMAIN g' : g'[i] <= s /\ \A n \in t' : g'[i] < n
    <3> SUFFICES ASSUME NEW i \in 1..(Len(g) + 1)
                 PROVE  g'[i] <= s /\ \A n \in t' : g'[i] < n
      BY <2>2
    <3>1. CASE i = Len(g) + 1
      BY <1>1, <1>6, <2>1, <2>2, <3>1
    <3>2. CASE i # Len(g) + 1
      <4>1. i \in 1..Len(g)
        BY <2>1, <3>2
      <4> QED BY <1>1, <1>6, <2>1, <2>2, <4>1
    <3> QED BY <3>1, <3>2
  <2>6. t' \subseteq 1..s
    BY <1>1, <1>6
  <2> QED BY <1>1, <1>2, <1>6, <2>2, <2>3, <2>4, <2>5, <2>6
<1>7. CASE /\ h \subseteq h'
           /\ \E S \in {t, t \cup {s + 1}} :
                 /\ \/ S = t /\ s' = s
                    \/ S = t \cup {s + 1} /\ s' = s + 1
                 /\ g' = g /\ t' \subseteq S /\ S \ t' \subseteq h'
  BY <1>5, <1>7
<1>8. CASE /\ h \subseteq h'
           /\ \E m \in t :
                 /\ \A n \in t : m <= n
                 /\ t' = t \ {m} /\ g' = Append(g, m) /\ s' = s
  BY <1>6, <1>8
<1> QED BY <1>3, <1>4, <1>7, <1>8

(* Every message the slave has sent is read or on its way, unless it came  *)
(* too early, met a failed allocation, lost a frame or follows one that    *)
(* did; and messages are read once and in order, with none left behind.    *)
THEOREM LinkIsReliable == Spec => []Channel!Reliable
<1>1. Channel!Init => ReliableInv
  <2> SUFFICES ASSUME Channel!Init PROVE ReliableInv
    OBVIOUS
  <2>1. next.msg - 1 = 0 /\ InTransit = {} /\ [i \in DOMAIN read |-> read[i][1].msg] = <<>>
    BY DEF Channel!Init
  <2> DEFINE s == next.msg - 1  g == [i \in DOMAIN read |-> read[i][1].msg]
  <2>2. s = 0 /\ g = <<>> /\ InTransit = {}
    BY <2>1
  <2> HIDE DEF s, g
  <2>3. /\ s \in Nat /\ g \in Seq(Nat)
        /\ \A k \in 1..s : FALSE
        /\ \A i \in DOMAIN g : FALSE
        /\ InTransit \subseteq 1..s
    BY <2>2
  <2> QED
    BY <2>3 DEF s, g, ReliableInv, Channel!Reliable, Channel!Complete, Channel!InOrder,
                Channel!StillToCome
<1>2. ReliableInv /\ [Channel!Next]_(Channel!vars) => ReliableInv'
  BY ReliableStep
<1>3. ReliableInv => Channel!Reliable
  BY DEF ReliableInv
<1> QED BY <1>1, <1>2, <1>3, LinkIsOrderedChannel, PTL DEF ImplementsChannel, Channel!Spec
=============================================================================
