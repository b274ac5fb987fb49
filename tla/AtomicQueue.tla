---------------------------- MODULE AtomicQueue ----------------------------
(***************************************************************************)
(* What a FreeRTOS queue promises the tasks and the interrupts that use    *)
(* it: a bounded FIFO queue whose operations happen at one moment between  *)
(* their call and their return.  An item is named after who sent it.       *)
(***************************************************************************)
EXTENDS Naturals, Sequences

CONSTANTS
  Senders, Receivers,   (* tasks                                           *)
  ISR,                  (* an interrupt handler that sends                 *)
  NoItem,               (* what is in a buffer nothing was received into   *)
  uxLength              (* room in the queue                               *)

VARIABLES
  items,     (* the queue                                                  *)
  calling,   (* the tasks between the call of an operation and its return  *)
  refused,   (* the senders whose call has found the queue full            *)
  received   (* the item received last                                     *)

vars == <<items, calling, refused, received>>

Init ==
  /\ items = <<>>
  /\ calling = {}
  /\ refused = {}
  /\ received = NoItem

Call(t) ==
  /\ t \notin calling
  /\ calling' = calling \cup {t}
  /\ UNCHANGED <<items, refused, received>>

Return(t) ==
  /\ t \in calling
  /\ calling' = calling \ {t}
  /\ refused' = refused \ {t}

Put(item) == Len(items) < uxLength /\ items' = Append(items, item)

Send(s) == Put(s) /\ Return(s) /\ UNCHANGED received

(* The call finds the queue full, and goes on waiting.                     *)
Refuse(s) ==
  /\ s \in calling /\ Len(items) = uxLength
  /\ refused' = refused \cup {s}
  /\ UNCHANGED <<items, calling, received>>

(* A sender gives up only if the queue was full at a moment of its call.   *)
FailSend(s) ==
  /\ s \in refused \/ Len(items) = uxLength
  /\ Return(s)
  /\ UNCHANGED <<items, received>>

Receive(r) ==
  /\ items # <<>>
  /\ items' = Tail(items)
  /\ received' = Head(items)
  /\ Return(r)

(* A receiver gives up only at a moment when the queue is empty.           *)
FailReceive(r) ==
  /\ items = <<>>
  /\ Return(r)
  /\ UNCHANGED <<items, received>>

SendFromISR == Put(ISR) /\ UNCHANGED <<calling, refused, received>>

Reset == items' = <<>> /\ UNCHANGED <<calling, refused, received>>

Next ==
  \/ \E t \in Senders \cup Receivers : Call(t)
  \/ \E s \in Senders : Send(s) \/ Refuse(s) \/ FailSend(s)
  \/ \E r \in Receivers : Receive(r) \/ FailReceive(r)
  \/ SendFromISR
  \/ Reset

Spec == Init /\ [][Next]_vars
=============================================================================
