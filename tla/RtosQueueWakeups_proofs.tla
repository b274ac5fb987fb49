----------------------- MODULE RtosQueueWakeups_proofs -----------------------
(***************************************************************************)
(* The FreeRTOS queue loses no wake-up, for any finite number of senders   *)
(* and receivers and any length, with interrupts, time limits and resets.  *)
(***************************************************************************)
EXTENDS RtosQueue_proofs, FiniteSetTheorems

LEMMA LengthIsPositive == uxLength \in Nat \ {0}
<1> QED BY LengthAssumption

USE LengthIsPositive

-----------------------------------------------------------------------------
(* The inductive invariant.                                                *)

Injective(list) == \A m, n \in 1..Len(list) : list[m] = list[n] => m = n

(* A task that an event list has is in no other place of it, has looked at *)
(* the queue and is to try again; until it has resumed the scheduler, no   *)
(* other task runs.                                                        *)
ListsInv ==
  /\ xTasksWaitingToSend \in Seq(Senders) /\ Injective(xTasksWaitingToSend)
  /\ xTasksWaitingToReceive \in Seq(Receivers) /\ Injective(xTasksWaitingToReceive)
  /\ \A t \in Task : Waiting(t) =>
       /\ pc[t] \in {"try", "unlock", "resume"}
       /\ xTicksToWait[t] \in {"finite", "forever"}

(* The queue is locked by the task that has suspended the scheduler.       *)
LockInv ==
  /\ uxSchedulerSuspended \in Task \cup {NoTask}
  /\ \A t \in Task : pc[t] \in {"lock", "check", "look", "place", "unlock", "resume"}
                       <=> uxSchedulerSuspended = t
  /\ cTxLock \in Int /\ -1 <= cTxLock /\ cTxLock <= uxMessagesWaiting
  /\ cTxLock # -1 => \E t \in Task : pc[t] \in {"check", "look", "place", "unlock"}
  /\ \A t \in Task : pc[t] \in {"check", "look", "place", "unlock"} => cTxLock # -1

(* A task on its way to an event list has time left.                       *)
TicksInv ==
  /\ xTicksToWait \in [Task -> {"none", "finite", "expired", "forever"}]
  /\ \A t \in Task : pc[t] \in {"look", "place"} => xTicksToWait[t] \in {"finite", "forever"}
  /\ pvBuffer \in Item \cup {NoItem} /\ forgotten \in BOOLEAN

(* What a task about to be placed on an event list has seen still holds,   *)
(* but for what interrupts have sent.                                      *)
PlaceInv ==
  /\ \A r \in Receivers : pc[r] = "place" => uxMessagesWaiting <= cTxLock
  /\ \A s \in Senders : pc[s] = "place" => uxMessagesWaiting = uxLength

Lookers == {r \in Receivers : WillLook(r)}

(* The senders in sight of the queue.  Those still on their way to wait    *)
(* may run out of time instead.                                            *)
Triers == {s \in Senders : pc[s] = "try" /\ ~Waiting(s)}

Posts == IF cTxLock > 0 THEN cTxLock ELSE 0

ReceiversInv ==
  xTasksWaitingToReceive # <<>> => uxMessagesWaiting <= Cardinality(Lookers) + Posts

SendersInv ==
  xTasksWaitingToSend # <<>> /\ ~forgotten =>
    uxLength - uxMessagesWaiting <= Cardinality(Triers)

StateInv == IInv /\ ListsInv /\ LockInv /\ TicksInv /\ PlaceInv

WakeInv == StateInv /\ ReceiversInv /\ SendersInv

-----------------------------------------------------------------------------
(* Event lists as sets of tasks.                                           *)

LEMMA SetOfList ==
  ASSUME NEW S, NEW list \in Seq(S)
  PROVE  /\ Len(list) \in Nat /\ DOMAIN list = 1..Len(list)
         /\ ToSet(list) = {list[k] : k \in 1..Len(list)}
         /\ ToSet(list) \subseteq S
         /\ list = <<>> <=> ToSet(list) = {}
         /\ \A k \in 1..Len(list) : list[k] \in S
<1>1. Len(list) \in Nat /\ DOMAIN list = 1..Len(list) /\ \A k \in 1..Len(list) : list[k] \in S
  BY LenProperties, ElementOfSeq
<1>2. ToSet(list) = {list[k] : k \in 1..Len(list)}
  BY <1>1 DEF ToSet
<1>3. list = <<>> <=> Len(list) = 0
  BY EmptySeq
<1>4. Len(list) = 0 <=> ToSet(list) = {}
  <2>1. CASE Len(list) = 0
    BY <1>2, <2>1
  <2>2. CASE Len(list) # 0
    <3>1. 1 \in 1..Len(list)
      BY <1>1, <2>2
    <3> QED BY <1>2, <2>2, <3>1
  <2> QED BY <2>1, <2>2
<1> QED BY <1>1, <1>2, <1>3, <1>4

LEMMA FirstGone ==
  ASSUME NEW S, NEW list \in Seq(S), Injective(list), list # <<>>
  PROVE  /\ WakeFirst(list) \in Seq(S) /\ Injective(WakeFirst(list))
         /\ Head(list) \in S /\ Head(list) \in ToSet(list)
         /\ ToSet(WakeFirst(list)) = ToSet(list) \ {Head(list)}
         /\ Len(WakeFirst(list)) = Len(list) - 1
<1> DEFINE rest == Tail(list)
<1>1. /\ WakeFirst(list) = rest /\ rest \in Seq(S) /\ Len(rest) = Len(list) - 1
      /\ \A k \in 1..Len(list) - 1 : rest[k] = list[k + 1]
      /\ Head(list) = list[1] /\ Len(list) \in Nat \ {0} /\ Head(list) \in S
  BY HeadTailProperties, LenProperties, EmptySeq DEF WakeFirst
<1>2. /\ ToSet(rest) = {rest[k] : k \in 1..Len(list) - 1}
      /\ ToSet(list) = {list[k] : k \in 1..Len(list)}
  <2>1. ToSet(rest) = {rest[k] : k \in 1..Len(rest)}
    BY <1>1, SetOfList
  <2>2. ToSet(list) = {list[k] : k \in 1..Len(list)}
    BY SetOfList
  <2> HIDE DEF rest
  <2> QED BY <1>1, <2>1, <2>2
<1> HIDE DEF rest
<1>3. Injective(rest)
  <2> SUFFICES ASSUME NEW m \in 1..Len(list) - 1, NEW n \in 1..Len(list) - 1, rest[m] = rest[n]
               PROVE  m = n
    BY <1>1 DEF Injective
  <2>1. m + 1 \in 1..Len(list) /\ n + 1 \in 1..Len(list) /\ list[m + 1] = list[n + 1]
    BY <1>1
  <2>2. m + 1 = n + 1
    BY <2>1 DEF Injective
  <2> QED BY <2>2
<1>4. ASSUME NEW e \in ToSet(rest)
      PROVE  e \in ToSet(list) \ {Head(list)}
  <2>1. PICK k \in 1..Len(list) - 1 : e = list[k + 1]
    BY <1>1, <1>2
  <2>2. k + 1 \in 1..Len(list) /\ 1 \in 1..Len(list) /\ k + 1 # 1
    BY <1>1
  <2> QED BY <1>1, <1>2, <2>1, <2>2 DEF Injective
<1>5. ASSUME NEW e \in ToSet(list) \ {Head(list)}
      PROVE  e \in ToSet(rest)
  <2>1. PICK k \in 1..Len(list) : e = list[k]
    BY <1>2
  <2>2. k - 1 \in 1..Len(list) - 1 /\ (k - 1) + 1 = k
    BY <1>1, <1>5, <2>1
  <2>3. rest[k - 1] = e
    BY <1>1, <2>1, <2>2
  <2> QED BY <1>2, <2>2, <2>3
<1>6. 1 \in 1..Len(list)
  BY <1>1
<1> QED BY <1>1, <1>2, <1>3, <1>4, <1>5, <1>6

LEMMA LastAdded ==
  ASSUME NEW S, NEW list \in Seq(S), Injective(list), NEW e \in S, e \notin ToSet(list)
  PROVE  /\ Append(list, e) \in Seq(S) /\ Injective(Append(list, e))
         /\ ToSet(Append(list, e)) = ToSet(list) \cup {e}
<1> DEFINE longer == Append(list, e)
<1>1. /\ longer \in Seq(S) /\ Len(longer) = Len(list) + 1 /\ Len(list) \in Nat
      /\ \A k \in 1..Len(list) : longer[k] = list[k]
      /\ longer[Len(list) + 1] = e
  BY AppendProperties, LenProperties
<1>2. 1..Len(list) + 1 = 1..Len(list) \cup {Len(list) + 1}
  BY <1>1
<1>3. /\ ToSet(longer) = {longer[k] : k \in 1..Len(list) + 1}
      /\ ToSet(list) = {list[k] : k \in 1..Len(list)}
  <2>1. ToSet(longer) = {longer[k] : k \in 1..Len(longer)}
    BY <1>1, SetOfList
  <2>2. ToSet(list) = {list[k] : k \in 1..Len(list)}
    BY SetOfList
  <2> HIDE DEF longer
  <2> QED BY <1>1, <2>1, <2>2
<1>4. \A k \in 1..Len(list) : list[k] # e
  BY <1>3
<1>5. Injective(longer)
  BY <1>1, <1>2, <1>4 DEF Injective
<1> QED BY <1>1, <1>2, <1>3, <1>5

(* The task at a place is taken off.                                       *)
LEMMA Unlinked ==
  ASSUME NEW S, NEW list \in Seq(S), Injective(list), NEW e \in ToSet(list)
  PROVE  /\ uxListRemove(list, e) \in Seq(S) /\ Injective(uxListRemove(list, e))
         /\ ToSet(uxListRemove(list, e)) = ToSet(list) \ {e}
<1> DEFINE at   == CHOOSE k \in DOMAIN list : list[k] = e
           rest == RemoveAt(list, at)
           From(k) == IF k < at THEN k ELSE k + 1
<1>1. /\ Len(list) \in Nat /\ DOMAIN list = 1..Len(list)
      /\ ToSet(list) = {list[k] : k \in 1..Len(list)} /\ \A k \in 1..Len(list) : list[k] \in S
  BY SetOfList
<1>2. at \in 1..Len(list) /\ list[at] = e
  BY <1>1
<1> HIDE DEF at
<1>3. /\ rest \in Seq(S) /\ Len(rest) = Len(list) - 1
      /\ \A k \in 1..Len(list) - 1 : rest[k] = list[From(k)]
  <2> DEFINE left == SubSeq(list, 1, at - 1)
             right == SubSeq(list, at + 1, Len(list))
  <2>1. /\ left \in Seq(S) /\ Len(left) = at - 1
        /\ \A k \in 1..at - 1 : left[k] = list[k]
    <3>1. /\ left \in Seq(S) /\ Len(left) = IF 1 <= at - 1 THEN at - 1 - 1 + 1 ELSE 0
          /\ \A k \in 1..at - 1 - 1 + 1 : left[k] = list[1 + k - 1]
      BY <1>1, <1>2, SubSeqProperties
    <3> QED BY <1>1, <1>2, <3>1
  <2>2. /\ right \in Seq(S) /\ Len(right) = Len(list) - at
        /\ \A k \in 1..Len(list) - at : right[k] = list[at + k]
    <3>1. /\ right \in Seq(S)
          /\ Len(right) = IF at + 1 <= Len(list) THEN Len(list) - (at + 1) + 1 ELSE 0
          /\ \A k \in 1..Len(list) - (at + 1) + 1 : right[k] = list[(at + 1) + k - 1]
      BY <1>1, <1>2, SubSeqProperties
    <3> QED BY <1>1, <1>2, <3>1
  <2>3. /\ left \o right \in Seq(S) /\ Len(left \o right) = Len(left) + Len(right)
        /\ \A k \in 1..Len(left) + Len(right) :
             (left \o right)[k] = IF k <= Len(left) THEN left[k] ELSE right[k - Len(left)]
    BY <2>1, <2>2, ConcatProperties
  <2>4. rest = left \o right
    BY DEF RemoveAt
  <2> HIDE DEF left, right, rest
  <2>5. Len(left) + Len(right) = Len(list) - 1
    BY <1>1, <1>2, <2>1, <2>2
  <2>6. ASSUME NEW k \in 1..Len(list) - 1
        PROVE  rest[k] = list[From(k)]
    <3>1. rest[k] = IF k <= at - 1 THEN left[k] ELSE right[k - (at - 1)]
      BY <2>1, <2>3, <2>4, <2>5
    <3>2. CASE k < at
      BY <1>1, <1>2, <2>1, <3>1, <3>2
    <3>3. CASE ~(k < at)
      <4>1. ~(k <= at - 1) /\ k - (at - 1) \in 1..Len(list) - at /\ at + (k - (at - 1)) = k + 1
        BY <1>1, <1>2, <3>3
      <4> QED BY <2>2, <3>1, <3>3, <4>1
    <3> QED BY <3>2, <3>3
  <2> QED BY <2>3, <2>4, <2>5, <2>6
<1>4. uxListRemove(list, e) = rest
  BY DEF uxListRemove, at
<1> HIDE DEF rest
<1>5. /\ \A k \in 1..Len(list) - 1 : From(k) \in 1..Len(list) /\ From(k) # at
      /\ \A m, n \in 1..Len(list) - 1 : From(m) = From(n) => m = n
      /\ \A j \in 1..Len(list) : j # at => \E k \in 1..Len(list) - 1 : From(k) = j
  <2>1. \A j \in 1..Len(list) : j # at =>
           IF j < at THEN j \in 1..Len(list) - 1 /\ From(j) = j
                     ELSE j - 1 \in 1..Len(list) - 1 /\ From(j - 1) = j
    BY <1>1, <1>2
  <2> QED BY <1>1, <1>2, <2>1
<1> HIDE DEF From
<1>6. Injective(rest)
  BY <1>3, <1>5 DEF Injective
<1>7. ToSet(rest) = {rest[k] : k \in 1..Len(list) - 1}
  BY <1>3, SetOfList
<1>8. ToSet(rest) = ToSet(list) \ {e}
  <2>1. ASSUME NEW x \in ToSet(rest)
        PROVE  x \in ToSet(list) \ {e}
    BY <1>1, <1>2, <1>3, <1>5, <1>7 DEF Injective
  <2>2. ASSUME NEW x \in ToSet(list) \ {e}
        PROVE  x \in ToSet(rest)
    <3>1. PICK j \in 1..Len(list) : x = list[j] /\ j # at
      BY <1>1, <1>2, <2>2
    <3>2. PICK k \in 1..Len(list) - 1 : From(k) = j
      BY <1>5, <3>1
    <3> QED BY <1>3, <1>7, <3>1, <3>2
  <2> QED BY <2>1, <2>2
<1> QED BY <1>3, <1>4, <1>6, <1>8

(* The first tasks are taken off: if some are left, as many as was asked.  *)
LEMMA SomeGone ==
  ASSUME NEW S, NEW list \in Seq(S), Injective(list), NEW n \in Nat
  PROVE  LET rest == SubSeq(list, n + 1, Len(list)) IN
         /\ rest \in Seq(S) /\ Injective(rest) /\ ToSet(rest) \subseteq ToSet(list)
         /\ rest # <<>> => Cardinality(ToSet(list) \ ToSet(rest)) = n
<1> DEFINE rest == SubSeq(list, n + 1, Len(list))
<1>1. /\ Len(list) \in Nat /\ \A k \in 1..Len(list) : list[k] \in S
      /\ ToSet(list) = {list[k] : k \in 1..Len(list)}
  BY SetOfList
<1>2. /\ rest \in Seq(S)
      /\ Len(rest) = IF n + 1 <= Len(list) THEN Len(list) - (n + 1) + 1 ELSE 0
      /\ \A k \in 1..Len(list) - (n + 1) + 1 : rest[k] = list[(n + 1) + k - 1]
  BY <1>1, SubSeqProperties
<1> HIDE DEF rest
<1>3. /\ n < Len(list) => Len(rest) = Len(list) - n
      /\ n >= Len(list) => Len(rest) = 0
      /\ \A k \in 1..Len(list) - n : rest[k] = list[n + k]
  BY <1>1, <1>2
<1>4. /\ ToSet(rest) = {rest[k] : k \in 1..Len(rest)} /\ (rest = <<>> <=> Len(rest) = 0)
  BY <1>2, SetOfList, EmptySeq
<1>5. CASE n >= Len(list)
  <2>1. ToSet(rest) = {} /\ rest = <<>>
    BY <1>3, <1>4, <1>5
  <2>2. Injective(rest)
    BY <1>3, <1>5 DEF Injective
  <2> QED BY <1>2, <2>1, <2>2 DEF rest
<1>6. CASE n < Len(list)
  <2>1. Len(rest) = Len(list) - n /\ \A k \in 1..Len(list) - n : n + k \in 1..Len(list)
    BY <1>1, <1>3, <1>6
  <2>2. Injective(rest)
    BY <1>1, <1>3, <2>1 DEF Injective
  <2>3. ToSet(rest) = {list[n + k] : k \in 1..Len(list) - n}
    BY <1>3, <1>4, <2>1
  <2>4. \A j \in 1..Len(list) : j > n => j - n \in 1..Len(list) - n /\ n + (j - n) = j
    BY <1>1, <1>6
  <2>5. \A j \in 1..n : j \in 1..Len(list) /\ \A k \in 1..Len(list) - n : j # n + k
    BY <1>1, <1>6
  <2>6. ToSet(list) \ ToSet(rest) = {list[j] : j \in 1..n}
    <3>1. ASSUME NEW e \in ToSet(list) \ ToSet(rest)
          PROVE  e \in {list[j] : j \in 1..n}
      <4>1. PICK j \in 1..Len(list) : e = list[j]
        BY <1>1
      <4>2. ~(j > n)
        BY <2>3, <2>4, <3>1, <4>1
      <4>3. j \in 1..n
        BY <1>1, <4>2
      <4> QED BY <4>1, <4>3
    <3>2. ASSUME NEW j \in 1..n
          PROVE  list[j] \in ToSet(list) \ ToSet(rest)
      BY <1>1, <2>1, <2>3, <2>5 DEF Injective
    <3> QED BY <3>1, <3>2
  <2> DEFINE f == [j \in 1..n |-> list[j]]
  <2>7. f \in Bijection(1..n, {list[j] : j \in 1..n})
    <3>1. f \in [1..n -> {list[j] : j \in 1..n}]
      OBVIOUS
    <3>2. \A i, j \in 1..n : f[i] = f[j] => i = j
      BY <2>5 DEF Injective
    <3>3. \A e \in {list[j] : j \in 1..n} : \E j \in 1..n : f[j] = e
      OBVIOUS
    <3> QED BY <3>1, <3>2, <3>3 DEF Bijection, Injection, Surjection, IsInjective
  <2>8. IsFiniteSet(1..n) /\ Cardinality(1..n) = n
    BY FS_Interval
  <2>9. Cardinality({list[j] : j \in 1..n}) = n
    BY <2>7, <2>8, FS_Bijection DEF ExistsBijection
  <2>10. ToSet(rest) \subseteq ToSet(list)
    BY <1>1, <2>1, <2>3
  <2> QED BY <1>2, <2>2, <2>6, <2>9, <2>10 DEF rest
<1> QED BY <1>1, <1>5, <1>6

-----------------------------------------------------------------------------
(* Who waits, and who runs.                                                *)

LEMMA WaitingKinds ==
  ASSUME ListsInv
  PROVE  /\ \A r \in Receivers : Waiting(r) <=> r \in ToSet(xTasksWaitingToReceive)
         /\ \A s \in Senders : Waiting(s) <=> s \in ToSet(xTasksWaitingToSend)
         /\ ToSet(xTasksWaitingToReceive) \subseteq Receivers
         /\ ToSet(xTasksWaitingToSend) \subseteq Senders
<1>1. /\ ToSet(xTasksWaitingToReceive) \subseteq Receivers
      /\ ToSet(xTasksWaitingToSend) \subseteq Senders
  BY SetOfList DEF ListsInv
<1> QED BY <1>1, TaskAssumption DEF Waiting

(* Outside of the suspension of the scheduler nobody has suspended it, the *)
(* queue is not locked, and who waits is to try again.                     *)
LEMMA Running ==
  ASSUME ListsInv, LockInv, NEW t \in Task, NEW at \in {"idle", "try", "suspend", "recheck"},
         TaskAt(t, at)
  PROVE  /\ uxSchedulerSuspended = NoTask /\ ~Waiting(t) /\ cTxLock = -1
         /\ \A u \in Task : pc[u] \notin {"lock", "check", "look", "place", "unlock", "resume"}
         /\ \A u \in Task : Waiting(u) => pc[u] = "try"
<1>1. pc[t] = at /\ uxSchedulerSuspended # t
  BY DEF LockInv, TaskAt
<1>2. uxSchedulerSuspended = NoTask /\ ~Waiting(t)
  BY <1>1 DEF TaskAt
<1>3. \A u \in Task : pc[u] \notin {"lock", "check", "look", "place", "unlock", "resume"}
  BY <1>2, TaskAssumption DEF LockInv
<1> QED BY <1>2, <1>3 DEF LockInv, ListsInv

(* The task that has suspended the scheduler is alone with the queue.      *)
LEMMA Suspending ==
  ASSUME LockInv, NEW t \in Task,
         pc[t] \in {"lock", "check", "look", "place", "unlock", "resume"}
  PROVE  /\ uxSchedulerSuspended = t
         /\ \A u \in Task \ {t} :
              pc[u] \notin {"lock", "check", "look", "place", "unlock", "resume"}
         /\ pc[t] \in {"lock", "resume"} => cTxLock = -1
<1> QED BY DEF LockInv

-----------------------------------------------------------------------------
(* Counting.                                                               *)

LEMMA FiniteTasks == IsFiniteSet(Senders) /\ IsFiniteSet(Receivers)
<1> QED BY FiniteAssumption, FS_Subset DEF Task

LEMMA Counts ==
  /\ IsFiniteSet(Lookers) /\ Cardinality(Lookers) \in Nat
  /\ IsFiniteSet(Triers) /\ Cardinality(Triers) \in Nat
<1>1. IsFiniteSet(Lookers) /\ IsFiniteSet(Triers)
  BY FiniteTasks, FS_Subset DEF Lookers, Triers
<1> QED BY <1>1, FS_CardinalityType

LEMMA Counts2 ==
  /\ IsFiniteSet(Lookers') /\ Cardinality(Lookers') \in Nat
  /\ IsFiniteSet(Triers') /\ Cardinality(Triers') \in Nat
<1>1. IsFiniteSet(Lookers') /\ IsFiniteSet(Triers')
  BY FiniteTasks, FS_Subset DEF Lookers, Triers
<1> QED BY <1>1, FS_CardinalityType

(* One more or one less.                                                   *)
LEMMA Compared ==
  ASSUME NEW A, NEW B, IsFiniteSet(A), IsFiniteSet(B), NEW x
  PROVE  /\ A \subseteq B => Cardinality(A) <= Cardinality(B)
         /\ A \ {x} \subseteq B => Cardinality(A) - 1 <= Cardinality(B)
         /\ A \cup {x} \subseteq B /\ x \notin A => Cardinality(A) + 1 <= Cardinality(B)
<1>1. Cardinality(A) \in Nat /\ Cardinality(B) \in Nat
  BY FS_CardinalityType
<1>2. A \subseteq B => Cardinality(A) <= Cardinality(B)
  BY FS_Subset
<1>3. ASSUME A \ {x} \subseteq B PROVE Cardinality(A) - 1 <= Cardinality(B)
  <2>1. IsFiniteSet(A \ {x}) /\ Cardinality(A \ {x}) <= Cardinality(B)
    BY <1>3, FS_Subset
  <2>2. Cardinality(A \ {x}) = IF x \in A THEN Cardinality(A) - 1 ELSE Cardinality(A)
    BY FS_RemoveElement
  <2> QED BY <1>1, <2>1, <2>2
<1>4. ASSUME A \cup {x} \subseteq B, x \notin A PROVE Cardinality(A) + 1 <= Cardinality(B)
  <2>1. Cardinality(A \cup {x}) = Cardinality(A) + 1
    BY <1>4, FS_AddElement
  <2>2. Cardinality(A \cup {x}) <= Cardinality(B)
    BY <1>4, FS_Subset
  <2> QED BY <2>1, <2>2
<1> QED BY <1>2, <1>3, <1>4

-----------------------------------------------------------------------------
(* A task goes on within its call; the ring and the lists stay.            *)

LEMMA GoesOn ==
  ASSUME WakeInv, IInv', LockInv', NEW t \in Task, NEW l \in Place,
         NEW k \in {"none", "finite", "expired", "forever"},
         pc' = [pc EXCEPT ![t] = l], xTicksToWait' = [xTicksToWait EXCEPT ![t] = k],
         UNCHANGED <<lists, uxMessagesWaiting, forgotten, pvBuffer>>,
         cTxLock' = cTxLock \/ (cTxLock = -1 /\ cTxLock' = 0),
         Waiting(t) => l \in {"try", "unlock", "resume"} /\ k \in {"finite", "forever"},
         l \in {"look", "place"} => k \in {"finite", "forever"},
         l = "place" => cTxLock' = cTxLock /\ (t \in Receivers => uxMessagesWaiting <= cTxLock),
         l = "place" /\ t \in Senders => uxMessagesWaiting = uxLength,
         t \in Receivers /\ l \in {"idle", "place"} => uxMessagesWaiting = 0,
         t \in Senders /\ pc[t] = "try" => uxMessagesWaiting = uxLength
  PROVE  WakeInv'
<1>0. /\ pc \in [Task -> Place] /\ xTicksToWait \in [Task -> {"none", "finite", "expired", "forever"}]
      /\ uxMessagesWaiting \in 0..uxLength /\ cTxLock \in Int
      /\ Senders \subseteq Task /\ Receivers \subseteq Task
  BY DEF WakeInv, StateInv, IInv, CallInv, RingInv, TicksInv, LockInv, Place, Task
<1>1. /\ pc'[t] = l /\ xTicksToWait'[t] = k
      /\ \A u \in Task \ {t} : pc'[u] = pc[u] /\ xTicksToWait'[u] = xTicksToWait[u]
      /\ \A u : Waiting(u)' <=> Waiting(u)
      /\ UNCHANGED <<xTasksWaitingToSend, xTasksWaitingToReceive>>
  BY <1>0 DEF lists, Waiting
<1>2. ListsInv'
  BY <1>1 DEF WakeInv, StateInv, ListsInv
<1>3. TicksInv'
  BY <1>0, <1>1 DEF WakeInv, StateInv, TicksInv
<1>4. PlaceInv'
  <2>1. ASSUME NEW u \in Task \ {t}, pc[u] = "place"
        PROVE  cTxLock' = cTxLock
    BY <2>1 DEF WakeInv, StateInv, LockInv
  <2> QED BY <1>0, <1>1, <2>1 DEF WakeInv, StateInv, PlaceInv
<1>5. ReceiversInv'
  <2>1. CASE uxMessagesWaiting = 0
    BY <1>0, <2>1, Counts2 DEF ReceiversInv, Posts
  <2>2. CASE uxMessagesWaiting # 0
    <3>1. Lookers \subseteq Lookers'
      BY <1>1, <2>2 DEF Lookers, WillLook, Task
    <3>2. Cardinality(Lookers) <= Cardinality(Lookers')
      BY <3>1, Counts, Counts2, Compared
    <3>3. Posts' = Posts
      BY DEF Posts
    <3> QED BY <1>0, <1>1, <3>2, <3>3, Counts, Counts2 DEF WakeInv, ReceiversInv, Posts
  <2> QED BY <2>1, <2>2
<1>6. SendersInv'
  <2>1. CASE uxMessagesWaiting = uxLength
    BY <1>0, <2>1, Counts2 DEF SendersInv
  <2>2. CASE uxMessagesWaiting # uxLength
    <3>1. Triers \subseteq Triers'
      BY <1>0, <1>1, <2>2 DEF Triers
    <3>2. Cardinality(Triers) <= Cardinality(Triers')
      BY <3>1, Counts, Counts2, Compared
    <3> QED BY <1>0, <1>1, <3>2, Counts, Counts2 DEF WakeInv, SendersInv
  <2> QED BY <2>1, <2>2
<1> QED BY <1>2, <1>3, <1>4, <1>5, <1>6 DEF WakeInv, StateInv

(* The lock, when a task that does not hold it goes on.                    *)
LEMMA LockKept ==
  ASSUME WakeInv, NEW t \in Task, NEW l \in {"idle", "try", "suspend", "recheck"},
         pc[t] \in {"idle", "try", "suspend", "recheck"}, pc' = [pc EXCEPT ![t] = l],
         UNCHANGED <<uxSchedulerSuspended, cTxLock, uxMessagesWaiting>>
  PROVE  LockInv'
<1>1. pc'[t] = l /\ \A u \in Task \ {t} : pc'[u] = pc[u]
  BY DEF WakeInv, StateInv, IInv, CallInv
<1> QED BY <1>1 DEF WakeInv, StateInv, LockInv

LEMMA CallTypes ==
  ASSUME WakeInv
  PROVE  /\ pc \in [Task -> Place] /\ xEntryTimeSet \in [Task -> BOOLEAN]
         /\ xTicksToWait \in [Task -> {"none", "finite", "expired", "forever"}]
         /\ \A t \in Task : [xTicksToWait EXCEPT ![t] = xTicksToWait[t]] = xTicksToWait
         /\ uxMessagesWaiting \in 0..uxLength /\ cTxLock \in Int /\ -1 <= cTxLock
         /\ Senders \subseteq Task /\ Receivers \subseteq Task /\ Senders \cap Receivers = {}
<1> QED BY TaskAssumption
        DEF WakeInv, StateInv, IInv, CallInv, RingInv, TicksInv, LockInv, Place, Task

LEMMA CallWakes ==
  ASSUME WakeInv, IInv', NEW t \in Task, NEW ticks \in {"none", "finite", "forever"},
         Call(t, ticks)
  PROVE  WakeInv'
<1>1. /\ pc[t] = "idle" /\ pc' = [pc EXCEPT ![t] = "try"]
      /\ xTicksToWait' = [xTicksToWait EXCEPT ![t] = ticks]
      /\ UNCHANGED <<lists, uxMessagesWaiting, forgotten, pvBuffer, cTxLock, uxSchedulerSuspended>>
  BY DEF Call, TaskAt, Goto, ring
<1>2. ~Waiting(t)
  BY Running DEF WakeInv, StateInv, Call
<1>3. LockInv'
  BY <1>1, LockKept
<1> QED BY <1>1, <1>2, <1>3, GoesOn, CallTypes DEF Place

(* A call that finds the queue full, or empty.                             *)
LEMMA FailWakes ==
  ASSUME WakeInv, IInv', NEW t \in Task, TaskAt(t, "try"), CannotGoOn(t),
         t \in Senders => Full, t \in Receivers => Empty,
         UNCHANGED <<cTxLock, uxSchedulerSuspended, forgotten>>
  PROVE  WakeInv'
<1>1. /\ pc[t] = "try" /\ ~Waiting(t)
      /\ UNCHANGED <<lists, uxMessagesWaiting, forgotten, pvBuffer, cTxLock, uxSchedulerSuspended>>
  BY Running DEF CannotGoOn, ring, TaskAt, WakeInv, StateInv
<1>2. PICK l \in {"idle", "suspend"}, k \in {"none", "finite", "expired", "forever"} :
        pc' = [pc EXCEPT ![t] = l] /\ xTicksToWait' = [xTicksToWait EXCEPT ![t] = k]
  BY CallTypes DEF CannotGoOn, Return, Goto
<1>3. LockInv'
  BY <1>1, <1>2, LockKept
<1>4. l \in Place /\ (t \in Senders => uxMessagesWaiting = uxLength)
      /\ (t \in Receivers => uxMessagesWaiting = 0)
  BY DEF Full, Empty, Place
<1> QED BY <1>1, <1>2, <1>3, <1>4, GoesOn

LEMMA SuspendWakes ==
  ASSUME WakeInv, IInv', NEW t \in Task, vTaskSuspendAll(t)
  PROVE  WakeInv'
<1>1. /\ pc[t] = "suspend" /\ pc' = [pc EXCEPT ![t] = "lock"] /\ xTicksToWait' = xTicksToWait
      /\ uxSchedulerSuspended' = t
      /\ UNCHANGED <<lists, uxMessagesWaiting, forgotten, pvBuffer, cTxLock>>
  BY DEF vTaskSuspendAll, TaskAt, Goto, ring
<1>2. /\ ~Waiting(t) /\ cTxLock = -1
      /\ \A u \in Task : pc[u] \notin {"lock", "check", "look", "place", "unlock", "resume"}
  BY Running DEF WakeInv, StateInv, vTaskSuspendAll
<1>3. pc'[t] = "lock" /\ \A u \in Task \ {t} : pc'[u] = pc[u]
  BY <1>1, CallTypes
<1>4. LockInv'
  BY <1>1, <1>2, <1>3 DEF WakeInv, StateInv, LockInv
<1> QED BY <1>1, <1>2, <1>4, GoesOn, CallTypes DEF Place

LEMMA LockWakes ==
  ASSUME WakeInv, IInv', NEW t \in Task, prvLockQueue(t)
  PROVE  WakeInv'
<1>1. /\ pc[t] = "lock" /\ pc' = [pc EXCEPT ![t] = "check"] /\ xTicksToWait' = xTicksToWait
      /\ cTxLock' = 0
      /\ UNCHANGED <<lists, uxMessagesWaiting, forgotten, pvBuffer, uxSchedulerSuspended>>
  BY DEF prvLockQueue, TaskAt, Goto, ring, queueLOCKED_UNMODIFIED
<1>2. /\ cTxLock = -1 /\ uxSchedulerSuspended = t /\ ~Waiting(t)
      /\ \A u \in Task \ {t} :
           pc[u] \notin {"lock", "check", "look", "place", "unlock", "resume"}
  BY <1>1, Suspending DEF WakeInv, StateInv, ListsInv
<1>3. pc'[t] = "check" /\ \A u \in Task \ {t} : pc'[u] = pc[u]
  BY <1>1, CallTypes
<1>4. LockInv'
  BY <1>1, <1>2, <1>3, CallTypes DEF WakeInv, StateInv, LockInv
<1> QED BY <1>1, <1>2, <1>4, GoesOn, CallTypes DEF Place

LEMMA CheckWakes ==
  ASSUME WakeInv, IInv', NEW t \in Task, xTaskCheckForTimeOut(t) \/ Look(t)
  PROVE  WakeInv'
<1>1. /\ pc[t] \in {"check", "look"}
      /\ UNCHANGED <<lists, uxMessagesWaiting, forgotten, pvBuffer, uxSchedulerSuspended, cTxLock>>
  BY DEF xTaskCheckForTimeOut, Look, TaskAt, ring
<1>2. PICK l \in {"look", "unlock", "place"}, k \in {"none", "finite", "expired", "forever"} :
        /\ pc' = [pc EXCEPT ![t] = l] /\ xTicksToWait' = [xTicksToWait EXCEPT ![t] = k]
        /\ l = "place" => StillCannotGoOn(t)
        /\ l \in {"look", "place"} => k \in {"finite", "forever"}
  BY CallTypes DEF xTaskCheckForTimeOut, Look, TaskAt, Goto, WakeInv, StateInv, TicksInv
<1>3. ~Waiting(t) /\ cTxLock # -1 /\ uxSchedulerSuspended = t
  BY <1>1, Suspending DEF WakeInv, StateInv, ListsInv, LockInv
<1>4. pc'[t] = l /\ \A u \in Task \ {t} : pc'[u] = pc[u]
  BY <1>2, CallTypes
<1>5. LockInv'
  BY <1>1, <1>2, <1>3, <1>4 DEF WakeInv, StateInv, LockInv
<1>6. l = "place" =>
        IF t \in Senders THEN uxMessagesWaiting = uxLength
                         ELSE uxMessagesWaiting = 0 /\ uxMessagesWaiting <= cTxLock
  BY <1>2, <1>3, CallTypes DEF StillCannotGoOn, Full, Empty
<1> QED BY <1>1, <1>2, <1>3, <1>5, <1>6, GoesOn, CallTypes DEF Place

LEMMA ResumeWakes ==
  ASSUME WakeInv, IInv', NEW t \in Task, xTaskResumeAll(t)
  PROVE  WakeInv'
<1>1. /\ pc[t] = "resume" /\ uxSchedulerSuspended' = NoTask
      /\ UNCHANGED <<lists, uxMessagesWaiting, forgotten, pvBuffer, cTxLock>>
  BY DEF xTaskResumeAll, TaskAt, ring
<1>2. PICK l \in {"idle", "try", "recheck"}, k \in {"none", "finite", "expired", "forever"} :
        /\ pc' = [pc EXCEPT ![t] = l] /\ xTicksToWait' = [xTicksToWait EXCEPT ![t] = k]
        /\ xTicksToWait[t] # "none" => l = "try" /\ k = xTicksToWait[t]
        /\ l = "idle" => t \in Senders
  BY CallTypes DEF xTaskResumeAll, Goto, Return
<1>3. /\ cTxLock = -1
      /\ \A u \in Task \ {t} :
           pc[u] \notin {"lock", "check", "look", "place", "unlock", "resume"}
  BY <1>1, Suspending DEF WakeInv, StateInv
<1>4. pc'[t] = l /\ \A u \in Task \ {t} : pc'[u] = pc[u]
  BY <1>2, CallTypes
<1>5. LockInv'
  BY <1>1, <1>3, <1>4, TaskAssumption DEF WakeInv, StateInv, LockInv
<1>6. Waiting(t) => l = "try" /\ k \in {"finite", "forever"}
  BY <1>2 DEF WakeInv, StateInv, ListsInv
<1> QED BY <1>1, <1>2, <1>5, <1>6, GoesOn, CallTypes DEF Place

LEMMA RecheckWakes ==
  ASSUME WakeInv, IInv', NEW r \in Receivers, Recheck(r)
  PROVE  WakeInv'
<1>0. r \in Task /\ r \notin Senders
  BY CallTypes
<1>1. /\ pc[r] = "recheck"
      /\ UNCHANGED <<lists, uxMessagesWaiting, forgotten, pvBuffer, uxSchedulerSuspended, cTxLock>>
  BY DEF Recheck, TaskAt, ring
<1>2. PICK l \in {"idle", "try"}, k \in {"none", "finite", "expired", "forever"} :
        /\ pc' = [pc EXCEPT ![r] = l] /\ xTicksToWait' = [xTicksToWait EXCEPT ![r] = k]
        /\ l = "idle" => Empty
  BY <1>0, CallTypes DEF Recheck, Goto, Return
<1>3. ~Waiting(r)
  BY <1>0, Running DEF Recheck, WakeInv, StateInv
<1>4. LockInv'
  BY <1>0, <1>1, <1>2, LockKept
<1> QED BY <1>0, <1>1, <1>2, <1>3, <1>4, GoesOn DEF Place, Empty
-----------------------------------------------------------------------------
(* The first task of an event list is woken.                               *)

LEMMA ReceiverRuns ==
  ASSUME ListsInv, xTasksWaitingToReceive' = WakeFirst(xTasksWaitingToReceive),
         UNCHANGED xTasksWaitingToSend
  PROVE  /\ xTasksWaitingToReceive' \in Seq(Receivers) /\ Injective(xTasksWaitingToReceive')
         /\ \A u \in Task : Waiting(u)' => Waiting(u)
         /\ \A s \in Senders : Waiting(s)' <=> Waiting(s)
         /\ xTasksWaitingToReceive' # <<>> =>
              \E h \in Receivers : Waiting(h) /\ ~Waiting(h)' /\ xTasksWaitingToReceive # <<>>
<1>1. CASE xTasksWaitingToReceive = <<>>
  <2>1. UNCHANGED <<xTasksWaitingToSend, xTasksWaitingToReceive>>
    BY <1>1 DEF WakeFirst
  <2> QED BY <1>1, <2>1 DEF ListsInv, Waiting
<1>2. CASE xTasksWaitingToReceive # <<>>
  <2> DEFINE h == Head(xTasksWaitingToReceive)
  <2>1. /\ xTasksWaitingToReceive' \in Seq(Receivers) /\ Injective(xTasksWaitingToReceive')
        /\ h \in Receivers /\ h \in ToSet(xTasksWaitingToReceive)
        /\ ToSet(xTasksWaitingToReceive') = ToSet(xTasksWaitingToReceive) \ {h}
    BY <1>2, FirstGone DEF ListsInv
  <2> HIDE DEF h
  <2>2. ToSet(xTasksWaitingToSend) \subseteq Senders
    BY WaitingKinds
  <2> QED BY <1>2, <2>1, <2>2, TaskAssumption DEF Waiting
<1> QED BY <1>1, <1>2

LEMMA SenderRuns ==
  ASSUME ListsInv, xTasksWaitingToSend' = WakeFirst(xTasksWaitingToSend),
         UNCHANGED xTasksWaitingToReceive
  PROVE  /\ xTasksWaitingToSend' \in Seq(Senders) /\ Injective(xTasksWaitingToSend')
         /\ \A u \in Task : Waiting(u)' => Waiting(u)
         /\ \A r \in Receivers : Waiting(r)' <=> Waiting(r)
         /\ xTasksWaitingToSend' # <<>> =>
              \E h \in Senders : Waiting(h) /\ ~Waiting(h)' /\ xTasksWaitingToSend # <<>>
<1>1. CASE xTasksWaitingToSend = <<>>
  <2>1. UNCHANGED <<xTasksWaitingToSend, xTasksWaitingToReceive>>
    BY <1>1 DEF WakeFirst
  <2> QED BY <1>1, <2>1 DEF ListsInv, Waiting
<1>2. CASE xTasksWaitingToSend # <<>>
  <2> DEFINE h == Head(xTasksWaitingToSend)
  <2>1. /\ xTasksWaitingToSend' \in Seq(Senders) /\ Injective(xTasksWaitingToSend')
        /\ h \in Senders /\ h \in ToSet(xTasksWaitingToSend)
        /\ ToSet(xTasksWaitingToSend') = ToSet(xTasksWaitingToSend) \ {h}
    BY <1>2, FirstGone DEF ListsInv
  <2> HIDE DEF h
  <2>2. ToSet(xTasksWaitingToReceive) \subseteq Receivers
    BY WaitingKinds
  <2> QED BY <1>2, <2>1, <2>2, TaskAssumption DEF Waiting
<1> QED BY <1>1, <1>2

(* A call that found room, or an item, returns.                            *)
LEMMA Returned ==
  ASSUME WakeInv, IInv', NEW t \in Task, TaskAt(t, "try"), Return(t),
         UNCHANGED <<uxSchedulerSuspended, cTxLock, forgotten>>,
         pvBuffer' \in Item \cup {NoItem}
  PROVE  /\ LockInv' /\ TicksInv' /\ PlaceInv' /\ cTxLock = -1 /\ pc[t] = "try" /\ ~Waiting(t)
         /\ \A u \in Task \ {t} : pc'[u] = pc[u] /\ xTicksToWait'[u] = xTicksToWait[u]
         /\ pc'[t] = "idle" /\ \A u \in Task : Waiting(u) => pc[u] = "try"
         /\ uxMessagesWaiting' \in 0..uxLength
<1>1. /\ cTxLock = -1 /\ ~Waiting(t) /\ uxSchedulerSuspended = NoTask
      /\ \A u \in Task : pc[u] \notin {"lock", "check", "look", "place", "unlock", "resume"}
      /\ \A u \in Task : Waiting(u) => pc[u] = "try"
  BY Running DEF WakeInv, StateInv
<1>2. /\ pc'[t] = "idle" /\ xTicksToWait' = [xTicksToWait EXCEPT ![t] = "none"]
      /\ \A u \in Task \ {t} : pc'[u] = pc[u] /\ xTicksToWait'[u] = xTicksToWait[u]
      /\ pc[t] = "try" /\ uxMessagesWaiting' \in 0..uxLength
  BY CallTypes DEF Return, Goto, TaskAt, IInv, RingInv
<1>3. \A u \in Task : pc'[u] \notin {"lock", "check", "look", "place", "unlock", "resume"}
  BY <1>1, <1>2
<1>4. LockInv'
  BY <1>1, <1>2, <1>3, TaskAssumption DEF LockInv, WakeInv, StateInv
<1>5. TicksInv'
  BY <1>2, <1>3, CallTypes DEF TicksInv, WakeInv, StateInv
<1>6. PlaceInv'
  BY <1>3 DEF PlaceInv, Task
<1> QED BY <1>1, <1>2, <1>4, <1>5, <1>6

LEMMA TrySendWakes ==
  ASSUME WakeInv, IInv', NEW s \in Senders, TrySend(s)
  PROVE  WakeInv'
<1>0. s \in Task /\ s \notin Receivers /\ TaskAt(s, "try")
      /\ UNCHANGED <<uxSchedulerSuspended, cTxLock, forgotten>>
  BY CallTypes DEF TrySend
<1>1. CASE Full
  <2>1. CannotGoOn(s)
    BY <1>1 DEF TrySend
  <2> QED BY <1>0, <1>1, <2>1, FailWakes
<1>2. CASE ~Full
  <2>1. /\ uxMessagesWaiting' = uxMessagesWaiting + 1 /\ Return(s) /\ UNCHANGED pvBuffer
        /\ xTasksWaitingToReceive' = WakeFirst(xTasksWaitingToReceive)
        /\ UNCHANGED xTasksWaitingToSend
    BY <1>2 DEF TrySend, prvCopyDataToQueue
  <2>2. /\ LockInv' /\ TicksInv' /\ PlaceInv' /\ cTxLock = -1 /\ pc[s] = "try" /\ ~Waiting(s)
        /\ \A u \in Task \ {s} : pc'[u] = pc[u] /\ xTicksToWait'[u] = xTicksToWait[u]
        /\ \A u \in Task : Waiting(u) => pc[u] = "try"
    <3>1. pvBuffer' \in Item \cup {NoItem}
      BY <2>1 DEF WakeInv, StateInv, TicksInv
    <3> QED BY <1>0, <2>1, <3>1, Returned
  <2>3. /\ xTasksWaitingToReceive' \in Seq(Receivers) /\ Injective(xTasksWaitingToReceive')
        /\ \A u \in Task : Waiting(u)' => Waiting(u)
        /\ \A u \in Senders : Waiting(u)' <=> Waiting(u)
        /\ xTasksWaitingToReceive' # <<>> =>
             \E h \in Receivers : Waiting(h) /\ ~Waiting(h)' /\ xTasksWaitingToReceive # <<>>
    BY <2>1, ReceiverRuns DEF WakeInv, StateInv
  <2>4. ListsInv'
    BY <2>1, <2>2, <2>3 DEF WakeInv, StateInv, ListsInv
  <2>5. ASSUME xTasksWaitingToReceive' # <<>>
        PROVE  uxMessagesWaiting' <= Cardinality(Lookers') + Posts'
    <3>1. PICK h \in Receivers : Waiting(h) /\ ~Waiting(h)' /\ xTasksWaitingToReceive # <<>>
      BY <2>3, <2>5
    <3>2. Lookers \cup {h} \subseteq Lookers' /\ h \notin Lookers
      BY <1>0, <2>2, <2>3, <3>1, CallTypes DEF Lookers, WillLook
    <3>3. Cardinality(Lookers) + 1 <= Cardinality(Lookers')
      BY <3>2, Counts, Counts2, Compared
    <3>4. uxMessagesWaiting <= Cardinality(Lookers)
      BY <2>2, <3>1, Counts DEF WakeInv, ReceiversInv, Posts
    <3>5. Posts' = 0
      BY <1>0, <2>2 DEF Posts
    <3> QED BY <2>1, <3>3, <3>4, <3>5, Counts, Counts2, CallTypes
  <2>6. ASSUME xTasksWaitingToSend' # <<>>, ~forgotten'
        PROVE  uxLength - uxMessagesWaiting' <= Cardinality(Triers')
    <3>1. Triers \ {s} \subseteq Triers'
      BY <2>2, <2>3, CallTypes DEF Triers
    <3>2. Cardinality(Triers) - 1 <= Cardinality(Triers')
      BY <3>1, Counts, Counts2, Compared
    <3>3. uxLength - uxMessagesWaiting <= Cardinality(Triers)
      BY <1>0, <2>1, <2>6 DEF WakeInv, SendersInv
    <3> QED BY <2>1, <3>2, <3>3, Counts, Counts2, CallTypes
  <2> QED BY <2>2, <2>4, <2>5, <2>6 DEF WakeInv, StateInv, ReceiversInv, SendersInv
<1> QED BY <1>1, <1>2

LEMMA TryReceiveWakes ==
  ASSUME WakeInv, IInv', NEW r \in Receivers, TryReceive(r)
  PROVE  WakeInv'
<1>0. r \in Task /\ r \notin Senders /\ TaskAt(r, "try")
      /\ UNCHANGED <<uxSchedulerSuspended, cTxLock, forgotten>>
  BY CallTypes DEF TryReceive
<1>1. CASE Empty
  <2>1. CannotGoOn(r)
    BY <1>1 DEF TryReceive
  <2> QED BY <1>0, <1>1, <2>1, FailWakes
<1>2. CASE ~Empty
  <2>1. /\ uxMessagesWaiting' = uxMessagesWaiting - 1 /\ Return(r)
        /\ pvBuffer' = store[Wrap(pcReadFrom + 1)]
        /\ xTasksWaitingToSend' = WakeFirst(xTasksWaitingToSend)
        /\ UNCHANGED xTasksWaitingToReceive
    BY <1>2 DEF TryReceive, prvCopyDataFromQueue
  <2>2. /\ LockInv' /\ TicksInv' /\ PlaceInv' /\ cTxLock = -1 /\ pc[r] = "try" /\ ~Waiting(r)
        /\ \A u \in Task \ {r} : pc'[u] = pc[u] /\ xTicksToWait'[u] = xTicksToWait[u]
        /\ \A u \in Task : Waiting(u) => pc[u] = "try"
    <3>1. pvBuffer' \in Item \cup {NoItem}
      BY <2>1, WrapCell DEF WakeInv, StateInv, IInv, RingInv
    <3> QED BY <1>0, <2>1, <3>1, Returned
  <2>3. /\ xTasksWaitingToSend' \in Seq(Senders) /\ Injective(xTasksWaitingToSend')
        /\ \A u \in Task : Waiting(u)' => Waiting(u)
        /\ \A u \in Receivers : Waiting(u)' <=> Waiting(u)
        /\ xTasksWaitingToSend' # <<>> =>
             \E h \in Senders : Waiting(h) /\ ~Waiting(h)' /\ xTasksWaitingToSend # <<>>
    BY <2>1, SenderRuns DEF WakeInv, StateInv
  <2>4. ListsInv'
    BY <2>1, <2>2, <2>3 DEF WakeInv, StateInv, ListsInv
  <2>5. ASSUME xTasksWaitingToReceive' # <<>>
        PROVE  uxMessagesWaiting' <= Cardinality(Lookers') + Posts'
    <3>1. Lookers \ {r} \subseteq Lookers'
      BY <2>2, <2>3, CallTypes DEF Lookers, WillLook
    <3>2. Cardinality(Lookers) - 1 <= Cardinality(Lookers')
      BY <3>1, Counts, Counts2, Compared
    <3>3. uxMessagesWaiting <= Cardinality(Lookers)
      BY <2>1, <2>2, <2>5, Counts DEF WakeInv, ReceiversInv, Posts
    <3>4. Posts' = 0
      BY <1>0, <2>2 DEF Posts
    <3> QED BY <2>1, <3>2, <3>3, <3>4, Counts, Counts2, CallTypes
  <2>6. ASSUME xTasksWaitingToSend' # <<>>, ~forgotten'
        PROVE  uxLength - uxMessagesWaiting' <= Cardinality(Triers')
    <3>1. PICK h \in Senders : Waiting(h) /\ ~Waiting(h)' /\ xTasksWaitingToSend # <<>>
      BY <2>3, <2>6
    <3>2. Triers \cup {h} \subseteq Triers' /\ h \notin Triers
      BY <1>0, <2>2, <2>3, <3>1, CallTypes DEF Triers
    <3>3. Cardinality(Triers) + 1 <= Cardinality(Triers')
      BY <3>2, Counts, Counts2, Compared
    <3>4. uxLength - uxMessagesWaiting <= Cardinality(Triers)
      BY <1>0, <2>6, <3>1 DEF WakeInv, SendersInv
    <3> QED BY <2>1, <3>3, <3>4, Counts, Counts2, CallTypes
  <2> QED BY <2>2, <2>4, <2>5, <2>6 DEF WakeInv, StateInv, ReceiversInv, SendersInv
<1> QED BY <1>1, <1>2
-----------------------------------------------------------------------------
(* The task that holds the lock.                                           *)

LEMMA PlaceWakes ==
  ASSUME WakeInv, IInv', NEW t \in Task, vTaskPlaceOnEventList(t)
  PROVE  WakeInv'
<1>1. /\ pc[t] = "place" /\ pc' = [pc EXCEPT ![t] = "unlock"]
      /\ UNCHANGED <<uxMessagesWaiting, forgotten, pvBuffer, uxSchedulerSuspended, cTxLock,
                     xTicksToWait>>
      /\ IF t \in Senders
           THEN /\ xTasksWaitingToSend' = Append(xTasksWaitingToSend, t)
                /\ UNCHANGED xTasksWaitingToReceive
           ELSE /\ xTasksWaitingToReceive' = Append(xTasksWaitingToReceive, t)
                /\ UNCHANGED xTasksWaitingToSend
  BY DEF vTaskPlaceOnEventList, TaskAt, Goto, ring
<1>2. /\ ~Waiting(t) /\ xTicksToWait[t] \in {"finite", "forever"}
      /\ \A u \in Task \ {t} :
           pc[u] \notin {"lock", "check", "look", "place", "unlock", "resume"}
  BY <1>1, Suspending DEF WakeInv, StateInv, ListsInv, TicksInv
<1>3. pc'[t] = "unlock" /\ \A u \in Task \ {t} : pc'[u] = pc[u]
  BY <1>1, CallTypes
<1>4. /\ xTasksWaitingToSend' \in Seq(Senders) /\ Injective(xTasksWaitingToSend')
      /\ xTasksWaitingToReceive' \in Seq(Receivers) /\ Injective(xTasksWaitingToReceive')
      /\ \A u \in Task \ {t} : Waiting(u)' <=> Waiting(u)
  <2>1. CASE t \in Senders
    <3>1. /\ t \notin ToSet(xTasksWaitingToSend)
          /\ xTasksWaitingToSend \in Seq(Senders) /\ Injective(xTasksWaitingToSend)
      BY <1>2 DEF Waiting, WakeInv, StateInv, ListsInv
    <3>2. /\ Append(xTasksWaitingToSend, t) \in Seq(Senders) /\ Injective(Append(xTasksWaitingToSend, t))
          /\ ToSet(Append(xTasksWaitingToSend, t)) = ToSet(xTasksWaitingToSend) \cup {t}
      BY <2>1, <3>1, LastAdded
    <3>3. xTasksWaitingToSend' = Append(xTasksWaitingToSend, t) /\ xTasksWaitingToReceive' = xTasksWaitingToReceive
      BY <1>1, <2>1
    <3> QED BY <3>2, <3>3 DEF Waiting, WakeInv, StateInv, ListsInv
  <2>2. CASE t \notin Senders
    <3>1. /\ t \notin ToSet(xTasksWaitingToReceive) /\ t \in Receivers
          /\ xTasksWaitingToReceive \in Seq(Receivers) /\ Injective(xTasksWaitingToReceive)
      BY <1>2, <2>2 DEF Waiting, WakeInv, StateInv, ListsInv, Task
    <3>2. /\ Append(xTasksWaitingToReceive, t) \in Seq(Receivers) /\ Injective(Append(xTasksWaitingToReceive, t))
          /\ ToSet(Append(xTasksWaitingToReceive, t)) = ToSet(xTasksWaitingToReceive) \cup {t}
      BY <2>2, <3>1, LastAdded
    <3>3. xTasksWaitingToReceive' = Append(xTasksWaitingToReceive, t) /\ xTasksWaitingToSend' = xTasksWaitingToSend
      BY <1>1, <2>2
    <3> QED BY <3>2, <3>3 DEF Waiting, WakeInv, StateInv, ListsInv
  <2> QED BY <2>1, <2>2
<1>5. ListsInv'
  BY <1>1, <1>2, <1>3, <1>4 DEF WakeInv, StateInv, ListsInv
<1>6. LockInv'
  BY <1>1, <1>2, <1>3 DEF WakeInv, StateInv, LockInv
<1>7. TicksInv' /\ PlaceInv'
  BY <1>1, <1>2, <1>3, CallTypes DEF WakeInv, StateInv, TicksInv, PlaceInv
<1>8. ASSUME xTasksWaitingToReceive' # <<>>
      PROVE  uxMessagesWaiting <= Cardinality(Lookers') + Posts
  <2>1. CASE t \in Receivers
    <3>1. uxMessagesWaiting <= cTxLock
      BY <1>1, <2>1 DEF WakeInv, StateInv, PlaceInv
    <3> QED BY <3>1, Counts2, CallTypes DEF Posts
  <2>2. CASE t \in Senders
    <3>1. Lookers \subseteq Lookers'
      BY <1>3, <1>4, <2>2, CallTypes DEF Lookers, WillLook
    <3>2. Cardinality(Lookers) <= Cardinality(Lookers')
      BY <3>1, Counts, Counts2, Compared
    <3>3. xTasksWaitingToReceive' = xTasksWaitingToReceive
      BY <1>1, <2>2
    <3> QED BY <1>8, <3>2, <3>3, Counts, Counts2, CallTypes DEF WakeInv, ReceiversInv, Posts
  <2> QED BY <2>1, <2>2 DEF Task
<1>9. ASSUME xTasksWaitingToSend' # <<>>, ~forgotten
      PROVE  uxLength - uxMessagesWaiting <= Cardinality(Triers')
  <2>1. CASE t \in Senders
    <3>1. uxMessagesWaiting = uxLength
      BY <1>1, <2>1 DEF WakeInv, StateInv, PlaceInv
    <3> QED BY <3>1, Counts2
  <2>2. CASE t \in Receivers
    <3>1. Triers \subseteq Triers'
      BY <1>3, <1>4, <2>2, CallTypes DEF Triers
    <3>2. Cardinality(Triers) <= Cardinality(Triers')
      BY <3>1, Counts, Counts2, Compared
    <3>3. xTasksWaitingToSend' = xTasksWaitingToSend
      BY <1>1, <2>2, CallTypes
    <3> QED BY <1>9, <3>2, <3>3, Counts, Counts2, CallTypes DEF WakeInv, SendersInv
  <2> QED BY <2>1, <2>2 DEF Task
<1>10. Posts' = Posts
  BY <1>1 DEF Posts
<1>11. ReceiversInv' /\ SendersInv'
  BY <1>1, <1>8, <1>9, <1>10 DEF ReceiversInv, SendersInv
<1> QED BY <1>5, <1>6, <1>7, <1>11 DEF WakeInv, StateInv

(* What interrupts have sent becomes as many receivers in sight.           *)
LEMMA UnlockWakes ==
  ASSUME WakeInv, IInv', NEW t \in Task, prvUnlockQueue(t)
  PROVE  WakeInv'
<1> DEFINE gone == ToSet(xTasksWaitingToReceive) \ ToSet(xTasksWaitingToReceive')
<1>1. /\ pc[t] = "unlock" /\ pc' = [pc EXCEPT ![t] = "resume"] /\ cTxLock' = -1
      /\ xTasksWaitingToReceive' =
           SubSeq(xTasksWaitingToReceive, cTxLock + 1, Len(xTasksWaitingToReceive))
      /\ UNCHANGED <<uxMessagesWaiting, forgotten, pvBuffer, uxSchedulerSuspended,
                     xTicksToWait, xTasksWaitingToSend>>
  BY DEF prvUnlockQueue, TaskAt, Goto, ring, WakeForEach, queueUNLOCKED
<1>2. /\ cTxLock \in Nat
      /\ \A u \in Task \ {t} :
           pc[u] \notin {"lock", "check", "look", "place", "unlock", "resume"}
  BY <1>1, Suspending DEF WakeInv, StateInv, LockInv
<1>3. pc'[t] = "resume" /\ \A u \in Task \ {t} : pc'[u] = pc[u]
  BY <1>1, CallTypes
<1>4. /\ xTasksWaitingToReceive' \in Seq(Receivers) /\ Injective(xTasksWaitingToReceive')
      /\ ToSet(xTasksWaitingToReceive') \subseteq ToSet(xTasksWaitingToReceive)
      /\ xTasksWaitingToReceive' # <<>> => Cardinality(gone) = cTxLock
  BY <1>1, <1>2, SomeGone DEF WakeInv, StateInv, ListsInv
<1>5. /\ \A u \in Task : Waiting(u)' => Waiting(u)
      /\ \A s \in Senders : Waiting(s)' <=> Waiting(s)
      /\ \A r \in Receivers : Waiting(r)' <=> r \in ToSet(xTasksWaitingToReceive')
      /\ \A r \in Receivers : Waiting(r) <=> r \in ToSet(xTasksWaitingToReceive)
      /\ ToSet(xTasksWaitingToReceive) \subseteq Receivers
  <2>1. /\ ToSet(xTasksWaitingToReceive) \subseteq Receivers
        /\ ToSet(xTasksWaitingToSend) \subseteq Senders
    BY WaitingKinds DEF WakeInv, StateInv
  <2> QED BY <1>1, <1>4, <2>1, CallTypes DEF Waiting
<1>6. ListsInv'
  BY <1>1, <1>3, <1>4, <1>5 DEF WakeInv, StateInv, ListsInv
<1>7. LockInv'
  BY <1>1, <1>2, <1>3, CallTypes DEF WakeInv, StateInv, LockInv
<1>8. TicksInv' /\ PlaceInv'
  BY <1>1, <1>2, <1>3, CallTypes DEF WakeInv, StateInv, TicksInv, PlaceInv
<1>9. ASSUME xTasksWaitingToReceive' # <<>>
      PROVE  uxMessagesWaiting <= Cardinality(Lookers')
  <2>1. Cardinality(gone) = cTxLock /\ xTasksWaitingToReceive # <<>>
    <3>1. ToSet(xTasksWaitingToReceive') # {}
      BY <1>4, <1>9, SetOfList
    <3>2. xTasksWaitingToReceive # <<>>
      BY <1>4, <3>1, SetOfList DEF WakeInv, StateInv, ListsInv
    <3> QED BY <1>4, <1>9, <3>2
  <2>2. uxMessagesWaiting <= Cardinality(Lookers) + cTxLock
    BY <1>2, <2>1, Counts, CallTypes DEF WakeInv, ReceiversInv, Posts
  <2>3. Lookers \subseteq Lookers'
    BY <1>3, <1>5, CallTypes DEF Lookers, WillLook
  <2>4. gone \subseteq Lookers'
    <3> SUFFICES ASSUME NEW r \in gone PROVE r \in Lookers'
      OBVIOUS
    <3>1. r \in Receivers /\ Waiting(r) /\ ~Waiting(r)'
      BY <1>5
    <3>2. pc[r] \in {"try", "unlock", "resume"}
      BY <3>1, CallTypes DEF WakeInv, StateInv, ListsInv
    <3>3. pc'[r] \notin {"idle", "place"}
      BY <1>3, <3>1, <3>2, CallTypes
    <3> QED BY <3>1, <3>3 DEF Lookers, WillLook
  <2>5. gone \cap Lookers = {}
    BY <1>5 DEF Lookers, WillLook
  <2>6. IsFiniteSet(gone)
    BY <2>4, Counts2, FS_Subset
  <2> HIDE DEF gone
  <2>7. Cardinality(gone \cup Lookers) = Cardinality(gone) + Cardinality(Lookers)
    <3>1. /\ Cardinality(gone \cup Lookers)
              = Cardinality(gone) + Cardinality(Lookers) - Cardinality(gone \cap Lookers)
      BY <2>6, Counts, FS_Union
    <3>2. Cardinality(gone \cap Lookers) = 0
      BY <2>5, FS_EmptySet
    <3> QED BY <2>1, <3>1, <3>2, Counts, <1>2
  <2>8. Cardinality(gone \cup Lookers) <= Cardinality(Lookers')
    <3>1. gone \cup Lookers \subseteq Lookers'
      BY <2>3, <2>4
    <3> QED BY <3>1, Counts2, FS_Subset
  <2> QED BY <1>2, <2>1, <2>2, <2>7, <2>8, Counts, Counts2, CallTypes
<1>10. ASSUME xTasksWaitingToSend' # <<>>, ~forgotten
      PROVE  uxLength - uxMessagesWaiting <= Cardinality(Triers')
  <2>1. Triers \subseteq Triers'
    BY <1>1, <1>3, <1>5, CallTypes DEF Triers
  <2>2. Cardinality(Triers) <= Cardinality(Triers')
    BY <2>1, Counts, Counts2, Compared
  <2> QED BY <1>1, <1>10, <2>2, Counts, Counts2, CallTypes DEF WakeInv, SendersInv
<1>11. Posts' = 0
  BY <1>1 DEF Posts
<1>12. ReceiversInv' /\ SendersInv'
  BY <1>1, <1>9, <1>10, <1>11, Counts2 DEF ReceiversInv, SendersInv
<1> QED BY <1>6, <1>7, <1>8, <1>12 DEF WakeInv, StateInv
-----------------------------------------------------------------------------
(* The interrupt handler, the tick and the reset.                          *)

(* An interrupt wakes a receiver, or is counted in the lock.               *)
LEMMA FromISRWakes ==
  ASSUME WakeInv, IInv', xQueueGenericSendFromISR
  PROVE  WakeInv'
<1>1. /\ uxMessagesWaiting' = uxMessagesWaiting + 1 /\ uxMessagesWaiting # uxLength
      /\ UNCHANGED <<pc, xTicksToWait, forgotten, pvBuffer, uxSchedulerSuspended,
                     xTasksWaitingToSend>>
      /\ IF cTxLock = -1
           THEN /\ xTasksWaitingToReceive' = WakeFirst(xTasksWaitingToReceive)
                /\ cTxLock' = cTxLock
           ELSE cTxLock' = cTxLock + 1 /\ UNCHANGED xTasksWaitingToReceive
  <2>1. uxMessagesWaiting \in 0..uxLength /\ uxMessagesWaiting # uxLength
        /\ cTxLock \in Int /\ cTxLock <= uxMessagesWaiting
    BY CallTypes DEF xQueueGenericSendFromISR, Full, WakeInv, StateInv, LockInv
  <2>2. cTxLock # 127
    BY <2>1, LengthAssumption
  <2> QED
    BY <2>2 DEF xQueueGenericSendFromISR, prvCopyDataToQueue, Full, caller, queueUNLOCKED, CountPost
<1>2. /\ xTasksWaitingToReceive' \in Seq(Receivers) /\ Injective(xTasksWaitingToReceive')
      /\ \A u \in Task : Waiting(u)' => Waiting(u)
      /\ \A u \in Senders : Waiting(u)' <=> Waiting(u)
      /\ xTasksWaitingToReceive' # <<>> /\ cTxLock = -1 =>
           \E h \in Receivers : Waiting(h) /\ ~Waiting(h)' /\ xTasksWaitingToReceive # <<>>
  <2>1. CASE cTxLock = -1
    BY <1>1, <2>1, ReceiverRuns DEF WakeInv, StateInv
  <2>2. CASE cTxLock # -1
    BY <1>1, <2>2 DEF WakeInv, StateInv, ListsInv, Waiting
  <2> QED BY <2>1, <2>2
<1>3. ListsInv'
  BY <1>1, <1>2 DEF WakeInv, StateInv, ListsInv
<1>4. LockInv'
  BY <1>1, CallTypes DEF WakeInv, StateInv, LockInv
<1>5. TicksInv'
  BY <1>1 DEF WakeInv, StateInv, TicksInv
<1>6. PlaceInv'
  BY <1>1, CallTypes DEF WakeInv, StateInv, PlaceInv, LockInv
<1>7. ASSUME xTasksWaitingToReceive' # <<>>
      PROVE  uxMessagesWaiting' <= Cardinality(Lookers') + Posts'
  <2>1. CASE cTxLock = -1
    <3>1. PICK h \in Receivers : Waiting(h) /\ ~Waiting(h)' /\ xTasksWaitingToReceive # <<>>
      BY <1>2, <1>7, <2>1
    <3>2. pc[h] \in {"try", "unlock", "resume"}
      BY <3>1, CallTypes DEF WakeInv, StateInv, ListsInv
    <3>3. Lookers \cup {h} \subseteq Lookers' /\ h \notin Lookers
      BY <1>1, <1>2, <3>1, <3>2, CallTypes DEF Lookers, WillLook
    <3>4. Cardinality(Lookers) + 1 <= Cardinality(Lookers')
      BY <3>3, Counts, Counts2, Compared
    <3>5. uxMessagesWaiting <= Cardinality(Lookers) + 0 /\ Posts' = 0
      BY <1>1, <2>1, <3>1 DEF WakeInv, ReceiversInv, Posts
    <3> QED BY <1>1, <3>4, <3>5, Counts, Counts2, CallTypes
  <2>2. CASE cTxLock # -1
    <3>1. Lookers' = Lookers /\ xTasksWaitingToReceive # <<>>
      BY <1>1, <1>7, <2>2 DEF Lookers, WillLook, Waiting
    <3>2. Posts' = Posts + 1 /\ Posts \in Nat
      BY <1>1, <2>2, CallTypes DEF Posts
    <3> QED BY <1>1, <3>1, <3>2, Counts, CallTypes DEF WakeInv, ReceiversInv
  <2> QED BY <2>1, <2>2
<1>8. ASSUME xTasksWaitingToSend' # <<>>, ~forgotten'
      PROVE  uxLength - uxMessagesWaiting' <= Cardinality(Triers')
  <2>1. Triers' = Triers
    BY <1>1, <1>2 DEF Triers
  <2> QED BY <1>1, <1>8, <2>1, Counts, CallTypes DEF WakeInv, SendersInv
<1> QED BY <1>3, <1>4, <1>5, <1>6, <1>7, <1>8 DEF WakeInv, StateInv, ReceiversInv, SendersInv

(* A list that has a task is changed, the other one stays.                 *)
LEMMA TakenOff ==
  ASSUME NEW S, NEW list \in Seq(S), Injective(list), NEW t
  PROVE  /\ uxListRemove(list, t) \in Seq(S) /\ Injective(uxListRemove(list, t))
         /\ ToSet(uxListRemove(list, t)) = ToSet(list) \ {t}
         /\ list = <<>> => uxListRemove(list, t) = <<>>
<1>1. CASE t \in ToSet(list)
  <2>1. ToSet(list) # {}
    BY <1>1
  <2> QED BY <1>1, <2>1, Unlinked, SetOfList
<1>2. CASE t \notin ToSet(list)
  BY <1>2 DEF uxListRemove
<1> QED BY <1>1, <1>2

LEMMA TickWakes ==
  ASSUME WakeInv, IInv', NEW t \in Task, xTaskIncrementTick(t)
  PROVE  WakeInv'
<1>1. /\ uxSchedulerSuspended = NoTask /\ Waiting(t)
      /\ xTicksToWait' = [xTicksToWait EXCEPT ![t] = "expired"]
      /\ xTasksWaitingToSend' = uxListRemove(xTasksWaitingToSend, t)
      /\ xTasksWaitingToReceive' = uxListRemove(xTasksWaitingToReceive, t)
      /\ UNCHANGED <<uxMessagesWaiting, cTxLock, uxSchedulerSuspended, pc, pvBuffer, forgotten>>
  BY DEF xTaskIncrementTick, ring
<1>2. \A u \in Task : pc[u] \notin {"lock", "check", "look", "place", "unlock", "resume"}
  BY <1>1, TaskAssumption DEF WakeInv, StateInv, LockInv
<1>3. /\ xTicksToWait' \in [Task -> {"none", "finite", "expired", "forever"}]
      /\ \A u \in Task \ {t} : xTicksToWait'[u] = xTicksToWait[u]
  BY <1>1, CallTypes
<1>4. /\ xTasksWaitingToSend' \in Seq(Senders) /\ Injective(xTasksWaitingToSend')
      /\ ToSet(xTasksWaitingToSend') = ToSet(xTasksWaitingToSend) \ {t}
      /\ xTasksWaitingToSend = <<>> => xTasksWaitingToSend' = <<>>
  BY <1>1, TakenOff DEF WakeInv, StateInv, ListsInv
<1>5. /\ xTasksWaitingToReceive' \in Seq(Receivers) /\ Injective(xTasksWaitingToReceive')
      /\ ToSet(xTasksWaitingToReceive') = ToSet(xTasksWaitingToReceive) \ {t}
      /\ xTasksWaitingToReceive = <<>> => xTasksWaitingToReceive' = <<>>
  BY <1>1, TakenOff DEF WakeInv, StateInv, ListsInv
<1>6. \A u : Waiting(u)' <=> Waiting(u) /\ u # t
  BY <1>4, <1>5 DEF Waiting
<1>7. ListsInv'
  BY <1>1, <1>3, <1>4, <1>5, <1>6 DEF WakeInv, StateInv, ListsInv
<1>8. LockInv' /\ TicksInv' /\ PlaceInv'
  BY <1>1, <1>2, <1>3, CallTypes DEF WakeInv, StateInv, LockInv, TicksInv, PlaceInv
<1>9. Cardinality(Lookers) <= Cardinality(Lookers') /\ Cardinality(Triers) <= Cardinality(Triers')
  <2>1. Lookers \subseteq Lookers' /\ Triers \subseteq Triers'
    BY <1>1, <1>6 DEF Lookers, Triers, WillLook
  <2> QED BY <2>1, Counts, Counts2, Compared
<1>10. Posts' = Posts /\ Posts \in Nat
  BY <1>1, CallTypes DEF Posts
<1>11. ReceiversInv' /\ SendersInv'
  BY <1>1, <1>4, <1>5, <1>9, <1>10, Counts, Counts2, CallTypes
     DEF WakeInv, ReceiversInv, SendersInv
<1> QED BY <1>7, <1>8, <1>11 DEF WakeInv, StateInv

LEMMA ResetWakes ==
  ASSUME WakeInv, IInv', xQueueReset
  PROVE  WakeInv'
<1>1. /\ uxSchedulerSuspended = NoTask /\ uxMessagesWaiting' = 0 /\ cTxLock' = -1
      /\ xTasksWaitingToSend' = WakeFirst(xTasksWaitingToSend)
      /\ forgotten' = (forgotten \/ Len(xTasksWaitingToSend) > 1)
      /\ UNCHANGED <<xTasksWaitingToReceive, uxSchedulerSuspended, pc, xTicksToWait, pvBuffer>>
  BY DEF xQueueReset, caller, queueUNLOCKED
<1>2. \A u \in Task : pc[u] \notin {"lock", "check", "look", "place", "unlock", "resume"}
  BY <1>1, TaskAssumption DEF WakeInv, StateInv, LockInv
<1>3. /\ xTasksWaitingToSend' \in Seq(Senders) /\ Injective(xTasksWaitingToSend')
      /\ \A u \in Task : Waiting(u)' => Waiting(u)
  BY <1>1, SenderRuns DEF WakeInv, StateInv
<1>4. ListsInv'
  BY <1>1, <1>3 DEF WakeInv, StateInv, ListsInv
<1>5. LockInv' /\ PlaceInv'
  BY <1>1, <1>2, CallTypes DEF WakeInv, StateInv, LockInv, PlaceInv
<1>6. TicksInv'
  <2>1. forgotten' \in BOOLEAN
    BY <1>1 DEF WakeInv, StateInv, TicksInv
  <2> QED BY <1>1, <1>2, <2>1 DEF WakeInv, StateInv, TicksInv
<1>7. ReceiversInv'
  BY <1>1, Counts2 DEF ReceiversInv, Posts
<1>8. SendersInv'
  <2> SUFFICES ASSUME xTasksWaitingToSend' # <<>> PROVE forgotten'
    BY DEF SendersInv
  <2>1. xTasksWaitingToSend # <<>>
    BY <1>1 DEF WakeFirst
  <2>2. Len(xTasksWaitingToSend') = Len(xTasksWaitingToSend) - 1
    BY <1>1, <2>1, FirstGone DEF WakeInv, StateInv, ListsInv
  <2>3. Len(xTasksWaitingToSend') \in Nat \ {0} /\ Len(xTasksWaitingToSend) \in Nat
    BY <1>3, LenProperties, EmptySeq DEF WakeInv, StateInv, ListsInv
  <2>4. Len(xTasksWaitingToSend) > 1
    BY <2>2, <2>3
  <2> QED BY <1>1, <2>4, Zenon
<1> QED BY <1>4, <1>5, <1>6, <1>7, <1>8 DEF WakeInv, StateInv

-----------------------------------------------------------------------------
(* The invariant is inductive.                                             *)

LEMMA InitWakes == Init => WakeInv
<1> SUFFICES ASSUME Init PROVE WakeInv
  OBVIOUS
<1>1. IInv
  BY InitIInv
<1>2. <<>> \in Seq(Senders) /\ <<>> \in Seq(Receivers) /\ Injective(<<>>) /\ ToSet(<<>>) = {}
  BY EmptySeq DEF Injective, ToSet
<1>3. ListsInv
  BY <1>2 DEF Init, ListsInv, Waiting
<1>4. LockInv
  <2>1. \A t \in Task : pc[t] = "idle" /\ t # NoTask
    BY TaskAssumption DEF Init
  <2> QED BY <2>1 DEF Init, LockInv, queueUNLOCKED
<1>5. TicksInv /\ PlaceInv
  BY DEF Init, TicksInv, PlaceInv, Task
<1> QED BY <1>1, <1>3, <1>4, <1>5 DEF Init, WakeInv, StateInv, ReceiversInv, SendersInv

LEMMA StutterWakes ==
  ASSUME WakeInv, UNCHANGED vars
  PROVE  WakeInv'
<1>1. /\ UNCHANGED <<store, pcWriteTo, pcReadFrom, uxMessagesWaiting, cTxLock,
                     xTasksWaitingToSend, xTasksWaitingToReceive, uxSchedulerSuspended,
                     pc, xTicksToWait, xEntryTimeSet, pvBuffer, forgotten>>
  BY DEF vars, ring, lists, caller
<1>2. \A u : Waiting(u)' <=> Waiting(u)
  BY <1>1 DEF Waiting
<1>3. Lookers' = Lookers /\ Triers' = Triers /\ Posts' = Posts
  BY <1>1, <1>2 DEF Lookers, Triers, Posts, WillLook
<1>4. IInv'
  BY <1>1 DEF WakeInv, StateInv, IInv, RingInv, CallInv, Wrap
<1>5. ListsInv' /\ LockInv' /\ TicksInv' /\ PlaceInv'
  BY <1>1, <1>2 DEF WakeInv, StateInv, ListsInv, LockInv, TicksInv, PlaceInv
<1> QED BY <1>1, <1>3, <1>4, <1>5 DEF WakeInv, StateInv, ReceiversInv, SendersInv

LEMMA WakeStep ==
  ASSUME WakeInv, [Next]_vars
  PROVE  WakeInv'
<1>0. IInv'
  BY NextStep DEF WakeInv, StateInv
<1>1. ASSUME NEW t \in Task, NEW ticks \in {"none", "finite", "forever"}, Call(t, ticks)
      PROVE  WakeInv'
  BY <1>0, <1>1, CallWakes
<1>2. ASSUME NEW t \in Task, Wait(t)
      PROVE  WakeInv'
  BY <1>0, <1>2, SuspendWakes, LockWakes, CheckWakes, PlaceWakes, UnlockWakes, ResumeWakes
     DEF Wait
<1>3. ASSUME NEW s \in Senders, SenderStep(s)
      PROVE  WakeInv'
  BY <1>0, <1>2, <1>3, TrySendWakes DEF SenderStep, Task
<1>4. ASSUME NEW r \in Receivers, ReceiverStep(r)
      PROVE  WakeInv'
  BY <1>0, <1>2, <1>4, TryReceiveWakes, RecheckWakes DEF ReceiverStep, Task
<1>5. ASSUME NEW t \in Task, xTaskIncrementTick(t)
      PROVE  WakeInv'
  BY <1>0, <1>5, TickWakes
<1>6. CASE UNCHANGED vars
  BY <1>6, StutterWakes
<1> QED BY <1>0, <1>1, <1>3, <1>4, <1>5, <1>6, FromISRWakes, ResetWakes DEF Next

LEMMA WakeInvariant == Spec => []WakeInv
<1>1. Init => WakeInv
  BY InitWakes
<1>2. WakeInv /\ [Next]_vars => WakeInv'
  BY WakeStep
<1> QED BY <1>1, <1>2, PTL DEF Spec

-----------------------------------------------------------------------------
(* The theorems.                                                           *)

(* The variables keep their types; what interrupts have sent to a locked   *)
(* queue is in the queue, so its count stays within the length.            *)
THEOREM TypeCorrect == Spec => []TypeOK
<1>1. WakeInv => TypeOK
  BY DEF WakeInv, StateInv, IInv, RingInv, CallInv, ListsInv, LockInv, TicksInv, TypeOK, Cell
<1> QED BY <1>1, WakeInvariant, PTL

(* While a receiver waits, each item in the queue has a receiver in sight  *)
(* of it, or is counted in the lock: xQueueReceive's two looks at the      *)
(* queue, the interrupt's post between them and prvUnlockQueue lose no     *)
(* wake-up.                                                                *)
THEOREM ReceiversWoken == Spec => []ReceiverWoken
<1>1. WakeInv => ReceiverWoken
  BY DEF WakeInv, ReceiversInv, ReceiverWoken, Lookers, Posts
<1> QED BY <1>1, WakeInvariant, PTL

(* While a sender waits, each free cell has a sender in sight of it,       *)
(* unless xQueueGenericReset freed several at once and woke one of them.   *)
THEOREM SendersWoken == Spec => []SenderWoken
<1>1. WakeInv => SenderWoken
  <2> SUFFICES ASSUME WakeInv, xTasksWaitingToSend # <<>>, ~forgotten
               PROVE  uxLength - uxMessagesWaiting <= Cardinality({s \in Senders : WillLook(s)})
    BY DEF SenderWoken
  <2> DEFINE looking == {s \in Senders : WillLook(s)}
  <2>1. IsFiniteSet(looking) /\ Triers \subseteq looking
    BY FiniteTasks, FS_Subset DEF Triers, WillLook
  <2>2. Cardinality(Triers) <= Cardinality(looking) /\ Cardinality(looking) \in Nat
    BY <2>1, FS_Subset, FS_CardinalityType
  <2> QED BY <2>2, Counts, CallTypes DEF WakeInv, SendersInv
<1> QED BY <1>1, WakeInvariant, PTL
=============================================================================
