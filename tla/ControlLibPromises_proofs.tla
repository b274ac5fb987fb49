---------------------- MODULE ControlLibPromises_proofs ----------------------
(***************************************************************************)
(* What the control library promises until something disturbs it that it   *)
(* does not cope with; for any number of threads, of ids, of uses and of   *)
(* requests, and whatever may fail.                                        *)
(***************************************************************************)
EXTENDS ControlLib_proofs

-----------------------------------------------------------------------------
(* The invariant of a library that nothing has disturbed.                  *)

Sending == {a \in Apps : app[a] \in {"register", "timer", "send"}}

Distinct ==
  \A a, b \in Apps : app[a] # "idle" /\ app[b] # "idle" /\ req[a] = req[b] => a = b

OneCalls == \A a, b \in Apps : InCall(a) /\ InCall(b) => a = b

ThreadOK(a) ==
  /\ app[a] \in {"wait", "fetch", "advance", "clear"} => ~IsAsync(req[a])
  /\ app[a] = "timer" => IsAsync(req[a])
  /\ app[a] \in {"acquire", "register", "timer", "send"} => req[a] \notin settled
  /\ app[a] \notin {"idle", "decode", "clear"} => outcomes[req[a]] = <<>>
  /\ app[a] = "decode" /\ ~IsAsync(req[a]) => outcomes[req[a]] = <<>>
  /\ app[a] = "decode" => (ctrl_resp_cb_table[requests[req[a]].id] # 0 <=> IsAsync(req[a]))

ThreadInv == Distinct /\ OneCalls /\ \A a \in Apps : ThreadOK(a)

(* What is queued is for the thread that waits.                            *)
QueuedInv ==
  \/ ctrl_msg_Q = <<>>
  \/ /\ \E a \in Apps : /\ app[a] \in {"decode", "wait", "fetch", "advance"} /\ ~IsAsync(req[a])
                        /\ ctrl_msg_Q = <<req[a]>>
     /\ read_sem = 1 \/ rx = "indicate" \/ \E a \in Apps : app[a] \in {"fetch", "advance"}

UnmadeInv == \A n \in Request \ Made : n \notin settled /\ outcomes[n] = <<>>

(* What a request was given: nothing yet, an error, or its own response.   *)
OutcomeInv == \A n \in Request : outcomes[n] \in {<<>>, <<0>>, <<n>>}

(* Nobody has ctrl_req_sem.                                                *)
Free ==
  /\ Sending = {} /\ at_slave = {} /\ timers = {} /\ rx = "idle" /\ timer_task = "idle"
  /\ \A a \in Apps : ~Waits(a)

Registered(n) == ctrl_resp_cb_table[requests[n].id] = IF IsAsync(n) THEN n ELSE 0

Timed(n) ==
  /\ IsAsync(n) => timers = {n} /\ async_timer_handle = n
  /\ ~IsAsync(n) => timers = {}

Unanswered(n) == outcomes[n] = <<>> /\ (IsAsync(n) \/ \E a \in Apps : req[a] = n /\ Waits(a))

(* The stages of the request n that has it.                                *)
Making(n) ==
  /\ rx = "idle" /\ timer_task = "idle" /\ at_slave = {}
  /\ \E a \in Apps :
       /\ Sending = {a} /\ req[a] = n
       /\ app[a] # "register" => Registered(n)
       /\ IF app[a] = "send" THEN Timed(n) ELSE timers = {}

AtSlave(n) ==
  /\ rx = "idle" /\ timer_task = "idle" /\ at_slave = {n} /\ Sending = {}
  /\ Registered(n) /\ Timed(n) /\ Unanswered(n) /\ n \notin settled

Answered(n) ==
  /\ rx # "idle" /\ timer_task = "idle" /\ at_slave = {} /\ Sending = {}
  /\ app_resp = n /\ n \notin settled
  /\ rx \in {"stop", "deliver", "first"} => Registered(n) /\ Unanswered(n)
  /\ rx = "first" => ~IsAsync(n)
  /\ rx # "link"
  /\ IF rx = "stop" THEN Timed(n) ELSE timers = {}
  /\ rx = "indicate" => ctrl_msg_Q = <<n>>
  /\ rx = "post" => \A a \in Apps : ~Waits(a)

Lost(n) ==
  /\ rx = "idle" /\ at_slave = {} /\ Sending = {} /\ n \in settled /\ Unanswered(n)
  /\ timer_task # "idle" => IsAsync(n) /\ expired = n /\ timers = {}
  /\ timer_task = "idle" => timers = IF IsAsync(n) THEN {n} ELSE {}

Stage(n) == Making(n) \/ AtSlave(n) \/ Answered(n) \/ Lost(n)

Only(n) ==
  \A a \in Apps : /\ Waits(a) => req[a] = n
                  /\ app[a] \in {"acquire", "fail"} => req[a] # n

Stages ==
  \/ ctrl_req_sem = 1 /\ Free
  \/ ctrl_req_sem = 0 /\ \E n \in Made : Stage(n) /\ Only(n)

Promises == ThreadInv /\ QueuedInv /\ UnmadeInv /\ OutcomeInv /\ Stages

IInv == QueueInv /\ ~overlapped /\ Promises

-----------------------------------------------------------------------------
(* What the invariant says of threads and of the queue.                    *)

LEMMA Parts ==
  ASSUME IInv
  PROVE  /\ TypeInv /\ ListShape /\ FetchesDue <= Len(ctrl_msg_Q) /\ ~overlapped
         /\ app \in [Apps -> {"idle", "acquire", "register", "timer", "send", "fail",
                              "decode", "wait", "fetch", "advance", "clear"}]
         /\ req \in [Apps -> 0..MaxReq] /\ settled \subseteq Request
         /\ disturbed \in BOOLEAN
         /\ ThreadInv /\ QueuedInv /\ UnmadeInv /\ OutcomeInv /\ Stages
<1> QED BY DEF IInv, QueueInv, ListInv, Backed, Promises, TypeInv, TypeOK

LEMMA Callers ==
  ASSUME IInv, NEW a \in Apps, app[a] # "idle"
  PROVE  /\ req[a] \in Made /\ req[a] \in Request /\ req[a] # 0
         /\ requests[req[a]] \in Kind /\ requests[req[a]].id \in Ids
<1>1. TypeInv
  BY Parts
<1> QED BY <1>1, MadeType DEF TypeInv, Request

(* One synchronous request is made at a time.                              *)
LEMMA Alone ==
  ASSUME IInv, NEW a \in Apps, NEW b \in Apps, InCall(a), InCall(b)
  PROVE  a = b
<1> QED BY DEF IInv, Promises, ThreadInv, OneCalls

(* The response in the queue is for the thread that makes it.              *)
LEMMA QueuedIsMine ==
  ASSUME IInv, NEW a \in Apps, InCall(a), ctrl_msg_Q # <<>>
  PROVE  ctrl_msg_Q = <<req[a]>> /\ app[a] \in {"decode", "wait", "fetch", "advance"}
<1>1. PICK b \in Apps : /\ app[b] \in {"decode", "wait", "fetch", "advance"} /\ ~IsAsync(req[b])
                        /\ ctrl_msg_Q = <<req[b]>>
  BY DEF IInv, Promises, QueuedInv
<1>2. InCall(b)
  BY <1>1 DEF InCall
<1> QED BY <1>1, <1>2, Alone

(* With a response queued, and only then, one of the three is under way.   *)
LEMMA QueueLength ==
  ASSUME IInv
  PROVE  /\ ctrl_msg_Q = <<>> => read_sem = 0 /\ rx # "indicate" /\ Fetchers = {}
         /\ rx = "indicate" \/ read_sem = 1 => Fetchers = {}
<1>1. /\ IsFiniteSet(Fetchers) /\ Cardinality(Fetchers) \in Nat /\ read_sem \in {0, 1}
      /\ FetchesDue <= Len(ctrl_msg_Q)
  BY Parts, FetchersType
<1>2. Cardinality(Fetchers) = 0 => Fetchers = {}
  BY <1>1, FS_EmptySet
<1>3. Len(ctrl_msg_Q) \in Nat /\ Len(ctrl_msg_Q) <= 1
  <2>1. Len(ctrl_msg_Q) \in Nat
    BY Parts, FetchersType
  <2>2. ctrl_msg_Q = <<>> \/ \E n : ctrl_msg_Q = <<n>>
    BY DEF IInv, Promises, QueuedInv
  <2>3. CASE ctrl_msg_Q = <<>>
    BY <2>1, <2>3
  <2>4. CASE ctrl_msg_Q # <<>>
    <3>1. PICK n : ctrl_msg_Q = <<n>>
      BY <2>2, <2>4
    <3>2. Len(ctrl_msg_Q) = 1
      BY <3>1
    <3> QED BY <3>2
  <2> QED BY <2>3, <2>4
<1>4. ctrl_msg_Q = <<>> => Len(ctrl_msg_Q) = 0
  OBVIOUS
<1>5. Cardinality(Fetchers) + read_sem + (IF rx = "indicate" THEN 1 ELSE 0) <= 1
  BY <1>1, <1>3 DEF FetchesDue
<1>6. ctrl_msg_Q = <<>> => Cardinality(Fetchers) + read_sem + (IF rx = "indicate" THEN 1 ELSE 0) <= 0
  BY <1>1, <1>4 DEF FetchesDue
<1>7. ctrl_msg_Q = <<>> => read_sem = 0 /\ rx # "indicate" /\ Cardinality(Fetchers) = 0
  BY <1>1, <1>6
<1>8. rx = "indicate" \/ read_sem = 1 => Cardinality(Fetchers) = 0
  BY <1>1, <1>5
<1> QED BY <1>2, <1>7, <1>8

(* A caller times out only when nothing is queued: a response that is      *)
(* queued is indicated already, or its request is not settled yet.         *)
LEMMA TimesOutUnanswered ==
  ASSUME IInv, ~disturbed', NEW a \in Apps, TimeOutSync(a)
  PROVE  Waits(a) /\ req[a] \in settled
<1>1. app[a] = "wait" /\ read_sem = 0 /\ req[a] \in settled /\ ~IsAsync(req[a])
  BY Parts DEF TimeOutSync, Disturb, ThreadInv, ThreadOK
<1>2. SUFFICES ASSUME ctrl_msg_Q # <<>> PROVE FALSE
  BY <1>1 DEF Waits
<1>3. ctrl_msg_Q = <<req[a]>>
  BY <1>1, <1>2, QueuedIsMine DEF InCall
<1>4. \A c \in Apps : app[c] \notin {"fetch", "advance"}
  <2>1. \A c \in Apps : app[c] \in {"fetch", "advance"} => InCall(c)
    BY Parts DEF ThreadInv, ThreadOK, InCall
  <2>2. InCall(a)
    BY <1>1 DEF InCall
  <2> QED BY <1>1, <2>1, <2>2, Alone
<1>5. rx = "indicate"
  BY <1>1, <1>2, <1>4, Parts DEF QueuedInv
<1>6. PICK n \in Made : Answered(n)
  BY <1>5, Parts DEF Stages, Free, Stage, Making, AtSlave, Lost
<1>7. <<n>> = <<req[a]>> /\ n \notin settled
  BY <1>3, <1>5, <1>6 DEF Answered
<1> QED BY <1>1, <1>7

LEMMA Given ==
  ASSUME IInv, NEW n \in Request, NEW v, Give(n, v)
  PROVE  /\ outcomes' = [outcomes EXCEPT ![n] = Append(outcomes[n], v)]
         /\ outcomes'[n] = Append(outcomes[n], v)
         /\ \A m \in Request \ {n} : outcomes'[m] = outcomes[m]
<1> QED BY DEF IInv, QueueInv, TypeInv, TypeOK, Give

(* A thread past read_sem takes its own response.                          *)
LEMMA Fetches ==
  ASSUME IInv, NEW a \in Apps, app[a] \in {"fetch", "advance"}
  PROVE  /\ InCall(a) /\ ~IsAsync(req[a]) /\ a \in Fetchers
         /\ ctrl_msg_Q = <<req[a]>> /\ outcomes[req[a]] = <<>>
<1>1. ~IsAsync(req[a]) /\ outcomes[req[a]] = <<>>
  BY Parts DEF ThreadInv, ThreadOK
<1>2. InCall(a) /\ a \in Fetchers
  BY <1>1 DEF InCall, Fetchers
<1> QED BY <1>1, <1>2, QueueLength, QueuedIsMine

-----------------------------------------------------------------------------
(* Threads: a step changes what is known of one of them.                   *)

LEMMA AppMoves ==
  ASSUME IInv, NEW a \in Apps, AppStep(a)
  PROVE  /\ app[a] # "idle" /\ ThreadOK(a)
         /\ UNCHANGED <<req, requests, expired, timer_task, rx, app_resp>> /\ Made' = Made
         /\ req[a] \in Made /\ req[a] \in Request /\ req[a] # 0 /\ requests[req[a]].id \in Ids
         /\ \A b \in Apps \ {a} : app'[b] = app[b] /\ (InCall(b)' <=> InCall(b))
         /\ \A b \in Apps \ {a} : app[b] # "idle" => req[b] # req[a] /\ req[b] \in Request
         /\ InCall(a)' => InCall(a) \/ Acquire(a)
<1>1. /\ app[a] # "idle" /\ UNCHANGED <<req, requests, expired, timer_task, rx, app_resp>>
  BY Parts, TypeMove
<1>2. \/ app' = app
      \/ \E l \in {"idle", "register", "timer", "send", "fail", "decode", "wait", "fetch",
                   "advance", "clear"} :
           /\ app' = [app EXCEPT ![a] = l]
           /\ \/ Acquire(a) \/ l \in {"idle", "timer", "fail"}
              \/ app[a] \in {"register", "timer", "send", "decode", "wait", "fetch", "advance",
                              "clear"}
  BY DEF AppStep, Acquire, RefuseInProgress, Reject, Register, StartTimer, Send, Fail, Decode,
         WaitResponse, TimeOutSync, FetchResponse, Advance, ClearRear, Goto
<1>3. \A b \in Apps \ {a} : app'[b] = app[b]
  BY <1>2, Parts
<1>4. \A b \in Apps \ {a} : InCall(b)' <=> InCall(b)
  BY <1>1, <1>3 DEF InCall, IsAsync
<1>5. InCall(a)' => InCall(a) \/ Acquire(a)
  <2> SUFFICES ASSUME InCall(a)', ~Acquire(a)
               PROVE  InCall(a)
    OBVIOUS
  <2>1. app[a] = "timer" => IsAsync(req[a])
    BY Parts DEF ThreadInv, ThreadOK
  <2>2. ~IsAsync(req[a]) /\ app'[a] \in {"register", "send", "decode", "wait", "fetch", "advance", "clear"}
    BY <1>1 DEF InCall, IsAsync
  <2>3. app[a] \in {"register", "send", "decode", "wait", "fetch", "advance", "clear"}
    BY <1>2, <2>1, <2>2, Parts
  <2> QED BY <2>2, <2>3 DEF InCall
<1>6. \A b \in Apps \ {a} : app[b] # "idle" => req[b] # req[a] /\ req[b] \in Request
  BY <1>1, Callers, Parts DEF ThreadInv, Distinct
<1>7. ThreadOK(a)
  BY Parts DEF ThreadInv
<1>8. req[a] \in Made /\ req[a] \in Request /\ req[a] # 0 /\ requests[req[a]].id \in Ids
  BY <1>1, Callers
<1> QED BY <1>1, <1>3, <1>4, <1>5, <1>6, <1>7, <1>8 DEF Made

(* The thread that makes the request has ctrl_req_sem, and nothing waits.  *)
LEMMA Maker ==
  ASSUME IInv, NEW a \in Apps, app[a] \in {"register", "timer", "send"}
  PROVE  /\ ctrl_req_sem = 0 /\ req[a] \in Made /\ Sending = {a} /\ at_slave = {}
         /\ rx = "idle" /\ timer_task = "idle"
         /\ app[a] # "register" => Registered(req[a])
         /\ IF app[a] = "send" THEN Timed(req[a]) ELSE timers = {}
         /\ \A b \in Apps : ~Waits(b)
         /\ \A b \in Apps \ {a} : app[b] # "idle" => req[b] # req[a]
<1>1. a \in Sending
  BY DEF Sending
<1>2. PICK n \in Made : ctrl_req_sem = 0 /\ Making(n) /\ Only(n)
  BY <1>1, Parts DEF Stages, Free, Stage, AtSlave, Answered, Lost
<1>3. PICK c \in Apps : /\ Sending = {c} /\ req[c] = n
                        /\ app[c] # "register" => Registered(n)
                        /\ IF app[c] = "send" THEN Timed(n) ELSE timers = {}
  BY <1>2 DEF Making
<1>4. c = a
  BY <1>1, <1>3
<1>5. \A b \in Apps \ {a} : app[b] # "idle" => req[b] # req[a]
  BY Parts DEF ThreadInv, Distinct
<1>6. \A b \in Apps : ~Waits(b)
  BY <1>2, <1>3, <1>4, <1>5 DEF Only, Waits
<1> QED BY <1>2, <1>3, <1>4, <1>5, <1>6 DEF Making

(* The steps that disturb nothing: no request fails once it has            *)
(* ctrl_req_sem.                                                           *)
LEMMA Undisturbed ==
  ASSUME IInv, ~disturbed', NEW a \in Apps, AppStep(a)
  PROVE  /\ ~Reject(a) /\ settled' = settled
         /\ StartTimer(a) => hosted_timer_start(req[a]) /\ Goto(a, "send")
         /\ Send(a) => /\ at_slave' = at_slave \cup {req[a]} /\ Goto(a, "decode")
                       /\ UNCHANGED disturbed
         /\ Fail(a) => Give(req[a], 0)
         /\ Acquire(a) => IsAsync(req[a]) \/ \A b \in Apps \ {a} : ~InCall(b)
         /\ Register(a) => \A b \in Apps \ {a} : ~Misled(a, b)
         /\ \/ settled' = settled /\ at_slave' = at_slave
            \/ Send(a)
<1>1. /\ ~Reject(a)
      /\ StartTimer(a) => hosted_timer_start(req[a]) /\ Goto(a, "send")
      /\ Send(a) => /\ at_slave' = at_slave \cup {req[a]} /\ Goto(a, "decode")
                    /\ UNCHANGED <<settled, disturbed>>
      /\ Fail(a) => Give(req[a], 0)
      /\ Acquire(a) => IsAsync(req[a]) \/ \A b \in Apps \ {a} : ~InCall(b)
      /\ Register(a) => \A b \in Apps \ {a} : ~Misled(a, b)
  BY DEF Reject, StartTimer, Send, Fail, Acquire, Register, Disturb
<1>2. Send(a) \/ UNCHANGED <<settled, at_slave>>
  BY <1>1 DEF AppStep, Acquire, RefuseInProgress, Register, StartTimer, Fail, Decode,
         WaitResponse, TimeOutSync, FetchResponse, Advance, ClearRear
<1> QED BY <1>1, <1>2

LEMMA ThreadsFrom ==
  ASSUME IInv, NEW a \in Apps, AppStep(a), OneCalls', settled' = settled,
         ThreadOK(a)',
         \A b \in Apps \ {a} : app[b] # "idle" => outcomes'[req[b]] = outcomes[req[b]],
         \A b \in Apps \ {a} : app[b] = "decode" =>
           (ctrl_resp_cb_table'[requests[req[b]].id] # 0 <=> IsAsync(req[b]))
  PROVE  ThreadInv'
<1>1. /\ \A b \in Apps \ {a} : app'[b] = app[b]
      /\ UNCHANGED <<req, requests>> /\ app[a] # "idle"
  BY AppMoves
<1>2. Distinct'
  BY <1>1, Parts DEF ThreadInv, Distinct
<1>3. ASSUME NEW b \in Apps \ {a} PROVE ThreadOK(b)'
  <2>1. ThreadOK(b)
    BY Parts DEF ThreadInv
  <2>2. app'[b] = app[b] /\ (IsAsync(req[b])' <=> IsAsync(req[b]))
    BY <1>1 DEF IsAsync
  <2>3. app[b] # "idle" => outcomes'[req[b]] = outcomes[req[b]]
    OBVIOUS
  <2> QED BY <1>1, <2>1, <2>2, <2>3 DEF ThreadOK
<1> QED BY <1>2, <1>3 DEF ThreadInv

LEMMA ThreadsApp ==
  ASSUME IInv, ~disturbed', NEW a \in Apps, AppStep(a)
  PROVE  ThreadInv'
<1>1. /\ app[a] # "idle" /\ ThreadOK(a) /\ UNCHANGED <<req, requests>>
      /\ req[a] \in Request /\ req[a] # 0 /\ requests[req[a]].id \in Ids
      /\ \A b \in Apps \ {a} : app'[b] = app[b] /\ (InCall(b)' <=> InCall(b))
      /\ \A b \in Apps \ {a} : app[b] # "idle" => req[b] # req[a] /\ req[b] \in Request
      /\ InCall(a)' => InCall(a) \/ Acquire(a)
  BY AppMoves
<1>2. ctrl_resp_cb_table \in [Ids -> 0..MaxReq] /\ settled' = settled
  BY Undisturbed, Parts DEF TypeInv, TypeOK
<1>3. OneCalls'
  <2>1. ASSUME NEW b \in Apps \ {a}, InCall(b), InCall(a)' PROVE FALSE
    <3>1. CASE InCall(a)
      BY <2>1, <3>1, Alone
    <3>2. CASE Acquire(a)
      BY <1>1, <2>1, <3>2, Undisturbed DEF InCall, IsAsync
    <3> QED BY <1>1, <2>1, <3>1, <3>2
  <2>2. \A b, c \in Apps \ {a} : InCall(b)' /\ InCall(c)' => b = c
    BY <1>1, Alone
  <2>3. ASSUME NEW b \in Apps, NEW c \in Apps, InCall(b)', InCall(c)' PROVE b = c
    BY <1>1, <2>1, <2>2, <2>3
  <2> QED BY <2>3 DEF OneCalls
<1>4. \A b \in Apps \ {a} : app[b] # "idle" => outcomes'[req[b]] = outcomes[req[b]]
  <2>1. UNCHANGED outcomes \/ \E v : Give(req[a], v)
    BY DEF AppStep, Acquire, RefuseInProgress, Reject, Register, StartTimer, Send, Fail,
       Decode, WaitResponse, TimeOutSync, FetchResponse, Advance, ClearRear
  <2> QED BY <1>1, <2>1, Given
<1>5. ASSUME NEW b \in Apps \ {a}, app[b] = "decode"
      PROVE  ctrl_resp_cb_table'[requests[req[b]].id] # 0 <=> IsAsync(req[b])
  <2>1. ctrl_resp_cb_table[requests[req[b]].id] # 0 <=> IsAsync(req[b])
    BY <1>5, Parts DEF ThreadInv, ThreadOK
  <2>2. CASE Register(a)
    <3>1. /\ ctrl_resp_cb_table' = [ctrl_resp_cb_table EXCEPT ![requests[req[a]].id] =
                                      IF IsAsync(req[a]) THEN req[a] ELSE 0]
      BY <2>2 DEF Register, set_async_resp_callback
    <3>2. requests[req[b]].id \in Ids
      BY <1>5, Callers
    <3>3. CASE requests[req[b]].id # requests[req[a]].id
      BY <1>2, <2>1, <3>1, <3>2, <3>3
    <3>4. CASE requests[req[b]].id = requests[req[a]].id
      <4>1. IsAsync(req[a]) = IsAsync(req[b])
        BY <1>5, <2>2, <3>4, Undisturbed DEF Misled
      <4>2. ctrl_resp_cb_table'[requests[req[b]].id] = IF IsAsync(req[a]) THEN req[a] ELSE 0
        BY <1>2, <3>1, <3>2, <3>4
      <4> QED BY <1>1, <4>1, <4>2
    <3> QED BY <3>3, <3>4
  <2>3. CASE ~Register(a)
    <3>1. ctrl_resp_cb_table' = ctrl_resp_cb_table
      BY <2>3 DEF AppStep, Acquire, RefuseInProgress, Reject, StartTimer, Send, Fail,
         Decode, WaitResponse, TimeOutSync, FetchResponse, Advance, ClearRear
    <3> QED BY <2>1, <3>1
  <2> QED BY <2>2, <2>3
<1>6. ASSUME NEW l, app' = [app EXCEPT ![a] = l] PROVE app'[a] = l
  BY <1>6, Parts
<1>7. ThreadOK(a)'
  <2>1. CASE Acquire(a) \/ RefuseInProgress(a)
    BY <1>1, <1>2, <1>6, <2>1 DEF Acquire, RefuseInProgress, Goto, ThreadOK, IsAsync
  <2>2. CASE Register(a)
    BY <1>1, <1>2, <1>6, <2>2 DEF Register, Goto, ThreadOK, IsAsync
  <2>3. CASE StartTimer(a)
    BY <1>1, <1>2, <1>6, <2>3, Undisturbed DEF StartTimer, Goto, ThreadOK, IsAsync
  <2>4. CASE Send(a)
    <3>1. /\ app[a] = "send" /\ app'[a] = "decode"
          /\ UNCHANGED <<ctrl_resp_cb_table, outcomes>>
      BY <1>6, <2>4, Undisturbed DEF Send, Goto
    <3>2. Registered(req[a])
      BY <3>1, Maker
    <3> QED BY <1>1, <3>1, <3>2 DEF Registered, ThreadOK, IsAsync
  <2>5. CASE Fail(a) \/ TimeOutSync(a) \/ ClearRear(a)
    BY <1>6, <2>5 DEF Fail, TimeOutSync, ClearRear, Goto, ThreadOK
  <2>6. CASE FetchResponse(a)
    <3>1. app'[a] = "idle" \/ (app'[a] = "advance" /\ outcomes' = outcomes)
      BY <1>6, <2>6 DEF FetchResponse, Goto
    <3>2. app[a] = "fetch"
      BY <2>6 DEF FetchResponse
    <3> QED BY <1>1, <3>1, <3>2 DEF ThreadOK, IsAsync
  <2>7. CASE Advance(a)
    <3>1. \/ app'[a] \in {"idle", "clear"}
          \/ app'[a] = "advance" /\ outcomes' = outcomes
      BY <1>6, <2>7 DEF Advance, Goto
    <3>2. app[a] = "advance"
      BY <2>7 DEF Advance
    <3> QED BY <1>1, <3>1, <3>2 DEF ThreadOK, IsAsync
  <2>8. CASE Decode(a)
    <3>1. app'[a] = "idle" \/ (app'[a] = "wait" /\ outcomes' = outcomes
                                /\ ctrl_resp_cb_table[requests[req[a]].id] = 0)
      BY <1>6, <2>8 DEF Decode, Goto
    <3>2. app[a] = "decode"
      BY <2>8 DEF Decode
    <3> QED BY <1>1, <3>1, <3>2 DEF ThreadOK, IsAsync
  <2>9. CASE WaitResponse(a)
    BY <1>1, <1>6, <2>9 DEF WaitResponse, Goto, ThreadOK, IsAsync
  <2> QED BY <2>1, <2>2, <2>3, <2>4, <2>5, <2>6, <2>7, <2>8, <2>9, Undisturbed DEF AppStep
<1> QED BY <1>2, <1>3, <1>4, <1>5, <1>7, ThreadsFrom

(* A request just made is nobody else's.                                   *)
LEMMA NewRequest ==
  ASSUME IInv, NEW a \in Apps, MakeRequest(a)
  PROVE  /\ \A n \in Made : requests'[n] = requests[n] /\ n \in Made'
         /\ req'[a] \in Request \ Made /\ Made' = Made \cup {req'[a]}
         /\ app[a] = "idle" /\ app'[a] = "acquire"
         /\ \A b \in Apps \ {a} : app'[b] = app[b] /\ req'[b] = req[b]
         /\ \A b \in Apps : app[b] # "idle" => requests'[req[b]] = requests[req[b]]
         /\ UNCHANGED <<ctrl_req_sem, read_sem, ctrl_msg_Q, overlapped, ctrl_resp_cb_table,
                        async_timer_handle, timers, expired, timer_task, rx, app_resp, at_slave,
                        settled, outcomes, disturbed>>
<1>1. PICK k \in Uses[a] : requests' = Append(requests, k)
  BY DEF MakeRequest
<1>2. requests \in Seq(Kind) /\ k \in Kind /\ Len(requests) \in Nat /\ Len(requests) < MaxReq
  BY UsesAssumption, LenProperties, Parts DEF TypeInv, TypeOK, MakeRequest
<1>3. /\ Len(requests') = Len(requests) + 1
      /\ \A n \in 1..Len(requests) : requests'[n] = requests[n]
  BY <1>1, <1>2, AppendProperties
<1>4. req' = [req EXCEPT ![a] = Len(requests) + 1] /\ app' = [app EXCEPT ![a] = "acquire"]
  BY DEF MakeRequest, Goto
<1>5. /\ req'[a] = Len(requests) + 1 /\ app'[a] = "acquire" /\ app[a] = "idle"
      /\ \A b \in Apps \ {a} : app'[b] = app[b] /\ req'[b] = req[b]
  BY <1>4, Parts DEF MakeRequest
<1>6. Made' = Made \cup {req'[a]} /\ req'[a] \in Request \ Made
  <2>1. 1..Len(requests) + 1 = 1..Len(requests) \cup {Len(requests) + 1}
    BY <1>2
  <2>2. Made' = 1..Len(requests')
    BY DEF Made
  <2> QED BY <1>2, <1>3, <1>5, <2>1, <2>2, BoundAssumption DEF Made, Request
<1>7. \A b \in Apps : app[b] # "idle" => requests'[req[b]] = requests[req[b]]
  BY <1>3, Callers DEF Made
<1>8. UNCHANGED <<ctrl_req_sem, read_sem, ctrl_msg_Q, overlapped, ctrl_resp_cb_table,
                  async_timer_handle, timers, expired, timer_task, rx, app_resp, at_slave,
                  settled, outcomes, disturbed>>
  BY DEF MakeRequest, queueVars, timerVars, rxVars
<1> QED BY <1>3, <1>5, <1>6, <1>7, <1>8 DEF Made

LEMMA ThreadsMake ==
  ASSUME IInv, NEW a \in Apps, MakeRequest(a)
  PROVE  ThreadInv'
<1>1. \A b \in Apps \ {a} : app[b] # "idle" => req[b] \in Made /\ requests'[req[b]] = requests[req[b]]
  BY Callers, NewRequest
<1>2. Distinct'
  BY <1>1, NewRequest, Parts DEF ThreadInv, Distinct
<1>3. OneCalls'
  <2>1. \A b \in Apps : InCall(b)' => InCall(b) /\ b # a
    BY <1>1, NewRequest DEF InCall, IsAsync
  <2> QED BY <2>1, Alone DEF OneCalls
<1>4. ASSUME NEW b \in Apps \ {a} PROVE ThreadOK(b)'
  <2>1. ThreadOK(b)
    BY Parts DEF ThreadInv
  <2>2. /\ app'[b] = app[b] /\ req'[b] = req[b]
        /\ UNCHANGED <<settled, outcomes, ctrl_resp_cb_table>>
    BY NewRequest
  <2> QED BY <1>1, <2>1, <2>2 DEF ThreadOK, IsAsync
<1>5. ThreadOK(a)'
  <2>1. req'[a] \notin settled /\ outcomes[req'[a]] = <<>>
    BY NewRequest, Parts DEF UnmadeInv
  <2> QED BY <2>1, NewRequest DEF ThreadOK
<1> QED BY <1>2, <1>3, <1>4, <1>5 DEF ThreadInv

-----------------------------------------------------------------------------
(* The queue and the outcomes.                                             *)

LEMMA QueuedMake ==
  ASSUME IInv, NEW a \in Apps, MakeRequest(a)
  PROVE  QueuedInv' /\ UnmadeInv' /\ OutcomeInv'
<1>1. UNCHANGED <<read_sem, ctrl_msg_Q, rx, settled, outcomes>>
  BY NewRequest
<1>2. QueuedInv'
  <2>1. CASE ctrl_msg_Q = <<>>
    BY <1>1, <2>1 DEF QueuedInv
  <2>2. CASE ctrl_msg_Q # <<>>
    <3>1. PICK b \in Apps : /\ app[b] \in {"decode", "wait", "fetch", "advance"} /\ ~IsAsync(req[b])
                            /\ ctrl_msg_Q = <<req[b]>>
      BY <2>2, Parts DEF QueuedInv
    <3>2. app'[b] = app[b] /\ req'[b] = req[b] /\ requests'[req[b]] = requests[req[b]]
      BY <3>1, NewRequest
    <3>3. \A c \in Apps : app[c] \in {"fetch", "advance"} => app'[c] \in {"fetch", "advance"}
      BY NewRequest
    <3>4. read_sem = 1 \/ rx = "indicate" \/ \E c \in Apps : app[c] \in {"fetch", "advance"}
      BY <2>2, Parts DEF QueuedInv
    <3> QED BY <1>1, <3>1, <3>2, <3>3, <3>4 DEF QueuedInv, IsAsync
  <2> QED BY <2>1, <2>2
<1>3. UnmadeInv'
  BY <1>1, NewRequest, Parts DEF UnmadeInv
<1> QED BY <1>1, <1>2, <1>3, Parts DEF OutcomeInv

(* The list's own steps: what is read is the thread's own response, and    *)
(* nothing is left.                                                        *)
LEMMA TakesOwn ==
  ASSUME IInv, NEW a \in Apps, Advance(a)
  PROVE  /\ app[a] = "advance" /\ ctrl_msg_Q = <<req[a]>> /\ outcomes[req[a]] = <<>>
         /\ \/ /\ UNCHANGED <<app, ctrl_msg_Q, outcomes>>
            \/ /\ ctrl_msg_Q' = <<>> /\ Give(req[a], req[a])
               /\ app' = [app EXCEPT ![a] = "clear"]
<1>1. /\ app[a] = "advance" /\ ctrl_msg_Q = <<req[a]>> /\ outcomes[req[a]] = <<>>
      /\ taken[a] = ctrl_msg_Q
  BY Fetches, Parts DEF Advance, ListShape
<1>2. Len(<<req[a]>>) = 1 /\ Head(<<req[a]>>) = req[a]
  OBVIOUS
<1> QED BY <1>1, <1>2 DEF Advance, FrontAfter, Goto

LEMMA FetchMoves ==
  ASSUME IInv, NEW a \in Apps, FetchResponse(a)
  PROVE  /\ app[a] = "fetch" /\ app' = [app EXCEPT ![a] = "advance"]
         /\ ctrl_msg_Q = <<req[a]>> /\ UNCHANGED <<ctrl_msg_Q, outcomes>>
<1>1. app[a] = "fetch" /\ ctrl_msg_Q = <<req[a]>>
  BY Fetches DEF FetchResponse
<1>2. <<req[a]>> # <<>>
  OBVIOUS
<1> QED BY <1>1, <1>2 DEF FetchResponse, Goto

LEMMA QueuedApp ==
  ASSUME IInv, ~disturbed', NEW a \in Apps, AppStep(a)
  PROVE  QueuedInv'
<1>1. /\ app[a] # "idle" /\ UNCHANGED <<req, requests, rx>>
      /\ \A b \in Apps \ {a} : app'[b] = app[b]
      /\ ThreadOK(a)
  BY AppMoves
<1>2. CASE ctrl_msg_Q = <<>>
  <2>1. ~Advance(a)
    <3>1. <<req[a]>> # <<>>
      OBVIOUS
    <3> QED BY <1>2, <3>1, TakesOwn
  <2>2. ctrl_msg_Q' = ctrl_msg_Q
    BY <2>1 DEF AppStep, Acquire, RefuseInProgress, Reject, Register, StartTimer, Send, Fail,
       Decode, WaitResponse, TimeOutSync, FetchResponse, ClearRear, queueVars
  <2> QED BY <1>2, <2>2 DEF QueuedInv
<1>3. CASE ctrl_msg_Q # <<>>
  <2>1. PICK b \in Apps : /\ app[b] \in {"decode", "wait", "fetch", "advance"} /\ ~IsAsync(req[b])
                          /\ ctrl_msg_Q = <<req[b]>>
    BY <1>3, Parts DEF QueuedInv
  <2>2. read_sem = 1 \/ rx = "indicate" \/ \E c \in Apps : app[c] \in {"fetch", "advance"}
    BY <1>3, Parts DEF QueuedInv
  <2>3. IsAsync(req[b])' <=> IsAsync(req[b])
    BY <1>1 DEF IsAsync
  <2>4. CASE Advance(a)
    BY <1>1, <1>3, <2>1, <2>2, <2>3, <2>4, TakesOwn DEF QueuedInv, Advance
  <2>5. CASE ~Advance(a)
    <3>1. ctrl_msg_Q' = ctrl_msg_Q
      BY <2>5 DEF AppStep, Acquire, RefuseInProgress, Reject, Register, StartTimer, Send, Fail,
         Decode, WaitResponse, TimeOutSync, FetchResponse, ClearRear, queueVars
    <3>2. app'[b] \in {"decode", "wait", "fetch", "advance"}
      <4>1. CASE a # b
        BY <1>1, <2>1, <4>1
      <4>2. CASE a = b
        <5>1. ~TimeOutSync(a)
          BY <1>3, TimesOutUnanswered DEF Waits
        <5>2. Decode(a) => app' = [app EXCEPT ![a] = "wait"]
          BY <1>1, <2>1, <4>2 DEF Decode, Goto, ThreadOK
        <5>3. FetchResponse(a) => app' = [app EXCEPT ![a] = "advance"]
          BY FetchMoves
        <5>4. Decode(a) \/ WaitResponse(a) \/ FetchResponse(a)
          BY <2>1, <2>5, <4>2, <5>1 DEF AppStep, Acquire, RefuseInProgress, Reject, Register,
             StartTimer, Send, Fail, ClearRear
        <5>5. \E l \in {"wait", "fetch", "advance"} : app' = [app EXCEPT ![a] = l]
          BY <5>2, <5>3, <5>4 DEF WaitResponse, Goto
        <5> QED BY <4>2, <5>5, Parts
      <4> QED BY <4>1, <4>2
    <3>3. (\E c \in Apps : app[c] \in {"fetch", "advance"}) =>
            (\E c \in Apps : app'[c] \in {"fetch", "advance"})
      <4>1. app[a] \in {"fetch", "advance"} => FetchResponse(a)
        BY <2>5 DEF AppStep, Acquire, RefuseInProgress, Reject, Register, StartTimer, Send, Fail,
           Decode, WaitResponse, TimeOutSync, ClearRear
      <4>2. FetchResponse(a) => app'[a] = "advance"
        BY FetchMoves, Parts
      <4> QED BY <1>1, <4>1, <4>2
    <3>4. read_sem' = read_sem \/ app'[a] = "fetch"
      <4>1. WaitResponse(a) \/ read_sem' = read_sem
        BY DEF AppStep, Acquire, RefuseInProgress, Reject, Register, StartTimer,
           Send, Fail, Decode, TimeOutSync, FetchResponse, Advance, ClearRear
      <4> QED BY <4>1, Parts DEF WaitResponse, Goto
    <3> QED BY <1>1, <2>1, <2>2, <2>3, <3>1, <3>2, <3>3, <3>4 DEF QueuedInv
  <2> QED BY <2>4, <2>5
<1> QED BY <1>2, <1>3

(* A request is given an outcome once, and an error or its own response.   *)
LEMMA OutcomesFrom ==
  ASSUME IInv, NEW n \in Request, NEW v \in {0, n}, outcomes[n] = <<>>, Give(n, v)
  PROVE  OutcomeInv' /\ \A m \in Request \ {n} : outcomes'[m] = outcomes[m]
<1>1. Append(<<>>, v) = <<v>>
  OBVIOUS
<1> QED BY <1>1, Given, Parts DEF OutcomeInv

(* What an application thread is given.                                    *)
LEMMA GivesOwn ==
  ASSUME IInv, ~disturbed', NEW a \in Apps, AppStep(a)
  PROVE  \/ outcomes' = outcomes
         \/ /\ outcomes[req[a]] = <<>> /\ \E v \in {0, req[a]} : Give(req[a], v)
            /\ Fail(a) \/ TimeOutSync(a) \/ Advance(a)
<1>1. ThreadOK(a)
  BY AppMoves
<1>2. CASE Fail(a) \/ TimeOutSync(a)
  BY <1>1, <1>2, Undisturbed DEF Fail, TimeOutSync, ThreadOK
<1>3. CASE FetchResponse(a)
  BY <1>3, FetchMoves
<1>4. CASE Advance(a)
  BY <1>4, TakesOwn
<1>5. CASE Decode(a)
  BY <1>1, <1>5 DEF Decode, ThreadOK
<1>6. CASE ~(Fail(a) \/ TimeOutSync(a) \/ FetchResponse(a) \/ Advance(a) \/ Decode(a))
  BY <1>6 DEF AppStep, Acquire, RefuseInProgress, Reject, Register, StartTimer, Send, WaitResponse,
     ClearRear
<1> QED BY <1>2, <1>3, <1>4, <1>5, <1>6

LEMMA UnmadeApp ==
  ASSUME IInv, ~disturbed', NEW a \in Apps, AppStep(a)
  PROVE  UnmadeInv' /\ OutcomeInv'
<1>1. req[a] \in Made /\ req[a] \in Request /\ Made' = Made /\ settled' = settled
  BY AppMoves, Undisturbed
<1>2. OutcomeInv' /\ \A n \in Request \ Made : outcomes'[n] = outcomes[n]
  <2>1. CASE outcomes' = outcomes
    BY <2>1, Parts DEF OutcomeInv
  <2>2. CASE outcomes' # outcomes
    BY <1>1, <2>2, GivesOwn, OutcomesFrom
  <2> QED BY <2>1, <2>2
<1> QED BY <1>1, <1>2, Parts DEF UnmadeInv

-----------------------------------------------------------------------------
(* The stages.  A step of a thread that has not sent the request that has  *)
(* ctrl_req_sem leaves the stage as it is.                                 *)

LEMMA StagesKept ==
  ASSUME IInv,
         UNCHANGED <<ctrl_req_sem, ctrl_resp_cb_table, async_timer_handle, timers, expired,
                     timer_task, rx, app_resp, at_slave, settled>>,
         \A n \in Made : n \in Made' /\ requests'[n] = requests[n],
         Sending' = Sending,
         \A a \in Sending : app'[a] = app[a],
         \A a \in Apps : app[a] # "idle" => req'[a] = req[a],
         \A a \in Apps : Waits(a)' <=> Waits(a),
         \A a \in Apps : app'[a] \in {"acquire", "fail"} =>
            app[a] \in {"acquire", "fail"} \/ req'[a] \notin Made,
         \A n \in Made : Stage(n) /\ Only(n) /\ Unanswered(n) => outcomes'[n] = <<>>,
         rx = "indicate" => ctrl_msg_Q' = ctrl_msg_Q
  PROVE  Stages'
<1>1. CASE ctrl_req_sem = 1 /\ Free
  <2>1. Free'
    BY <1>1 DEF Free
  <2> QED BY <1>1, <2>1 DEF Stages
<1>2. CASE ctrl_req_sem = 0
  <2>1. PICK n \in Made : Stage(n) /\ Only(n)
    BY <1>2, Parts DEF Stages
  <2>2. requests'[n] = requests[n] /\ n \in Made'
    BY <2>1
  <2>3. \A a \in Apps : Waits(a) => app[a] # "idle"
    BY DEF Waits
  <2>4. \A a \in Sending : app[a] # "idle"
    BY DEF Sending
  <2>5. Only(n)'
    BY <2>1, <2>3 DEF Only
  <2>6. /\ Registered(n)' <=> Registered(n)
        /\ Timed(n)' <=> Timed(n)
        /\ Unanswered(n) => Unanswered(n)'
    BY <2>1, <2>2, <2>3 DEF Registered, Timed, Unanswered, IsAsync
  <2>7. CASE Making(n)
    <3>1. PICK a \in Apps : /\ Sending = {a} /\ req[a] = n
                            /\ app[a] # "register" => Registered(n)
                            /\ IF app[a] = "send" THEN Timed(n) ELSE timers = {}
      BY <2>7 DEF Making
    <3>2. Sending' = {a} /\ req'[a] = n /\ app'[a] = app[a]
      BY <2>4, <3>1
    <3>3. Making(n)'
      BY <2>6, <2>7, <3>1, <3>2 DEF Making
    <3> QED BY <1>2, <2>2, <2>5, <3>3 DEF Stages, Stage
  <2>8. CASE AtSlave(n)
    <3>1. AtSlave(n)'
      BY <2>6, <2>8 DEF AtSlave
    <3> QED BY <1>2, <2>2, <2>5, <3>1 DEF Stages, Stage
  <2>9. CASE Answered(n)
    <3>1. IsAsync(n)' <=> IsAsync(n)
      BY <2>2 DEF IsAsync
    <3>2. rx = "post" => \A a \in Apps : ~Waits(a)'
      BY <2>9 DEF Answered
    <3>3. Answered(n)'
      BY <2>6, <2>9, <3>1, <3>2 DEF Answered
    <3> QED BY <1>2, <2>2, <2>5, <3>3 DEF Stages, Stage
  <2>10. CASE Lost(n)
    <3>1. Lost(n)'
      BY <2>2, <2>6, <2>10 DEF Lost, IsAsync
    <3> QED BY <1>2, <2>2, <2>5, <3>1 DEF Stages, Stage
  <2> QED BY <2>1, <2>7, <2>8, <2>9, <2>10 DEF Stage
<1> QED BY <1>1, <1>2, Parts DEF Stages

LEMMA StagesMake ==
  ASSUME IInv, NEW a \in Apps, MakeRequest(a)
  PROVE  Stages'
<1>1. /\ \A b \in Apps : app[b] # "idle" => app'[b] = app[b] /\ req'[b] = req[b]
      /\ \A n \in Made : n \in Made' /\ requests'[n] = requests[n]
      /\ app[a] = "idle" /\ app'[a] = "acquire" /\ req'[a] \notin Made
      /\ \A b \in Apps \ {a} : app'[b] = app[b] /\ req'[b] = req[b]
      /\ \A b \in Apps : app[b] # "idle" => requests'[req[b]] = requests[req[b]]
      /\ UNCHANGED <<ctrl_req_sem, ctrl_msg_Q, ctrl_resp_cb_table, async_timer_handle, timers,
                     expired, timer_task, rx, app_resp, at_slave, settled, outcomes>>
  BY NewRequest
<1>2. Sending' = Sending /\ \A b \in Sending : app'[b] = app[b]
  BY <1>1 DEF Sending
<1>3. \A b \in Apps : Waits(b)' <=> Waits(b)
  BY <1>1 DEF Waits, IsAsync
<1> QED BY <1>1, <1>2, <1>3, StagesKept DEF Unanswered

(* The steps of a thread that has no part in the stages: its request was   *)
(* refused, or has been answered.                                          *)
Quiet(a) ==
  \/ RefuseInProgress(a) \/ Fail(a) \/ Decode(a) \/ WaitResponse(a)
  \/ FetchResponse(a) \/ Advance(a) \/ ClearRear(a)

LEMMA QuietMoves ==
  ASSUME IInv, NEW a \in Apps, Quiet(a)
  PROVE  /\ AppStep(a)
         /\ app[a] \in {"acquire", "fail", "decode", "wait", "fetch", "advance", "clear"}
         /\ UNCHANGED <<req, requests, ctrl_req_sem, ctrl_resp_cb_table, async_timer_handle,
                        timers, expired, timer_task, rx, app_resp, at_slave, settled>>
         /\ Advance(a) \/ ctrl_msg_Q' = ctrl_msg_Q
         /\ app'[a] \in {"fail", "idle", "wait", "fetch", "advance", "clear"}
         /\ app'[a] = "fail" => app[a] = "acquire"
         /\ \A b \in Apps \ {a} : app'[b] = app[b]
         /\ Sending' = Sending /\ \A b \in Sending : app'[b] = app[b]
         /\ \A b \in Apps : Waits(b)' <=> Waits(b)
<1>1. /\ AppStep(a)
      /\ app[a] \in {"acquire", "fail", "decode", "wait", "fetch", "advance", "clear"}
      /\ UNCHANGED <<req, requests, ctrl_req_sem, ctrl_resp_cb_table, async_timer_handle, timers,
                     expired, timer_task, rx, app_resp, at_slave, settled>>
      /\ Advance(a) \/ ctrl_msg_Q' = ctrl_msg_Q
      /\ \/ app' = app /\ Advance(a)
         \/ \E l \in {"fail", "idle", "wait", "fetch", "advance", "clear"} :
              app' = [app EXCEPT ![a] = l] /\ (l = "fail" => app[a] = "acquire")
  BY DEF Quiet, AppStep, RefuseInProgress, Fail, Decode, WaitResponse, FetchResponse, Advance,
     ClearRear, Goto, timerVars, rxVars, queueVars
<1>2. /\ app'[a] \in {"fail", "idle", "wait", "fetch", "advance", "clear"}
      /\ app'[a] = "fail" => app[a] = "acquire"
      /\ \A b \in Apps \ {a} : app'[b] = app[b]
  BY <1>1, Parts DEF Advance
<1>3. Sending' = Sending /\ \A b \in Sending : app'[b] = app[b]
  BY <1>1, <1>2 DEF Sending
<1>4. ThreadOK(a)
  BY <1>1, AppMoves
<1>5. \A b \in Apps : Waits(b)' <=> Waits(b)
  <2>1. CASE RefuseInProgress(a) \/ Fail(a) \/ ClearRear(a)
    <3>1. app[a] \in {"acquire", "fail", "clear"} /\ app'[a] \in {"fail", "idle"} /\ ctrl_msg_Q' = ctrl_msg_Q
      BY <1>1, <2>1, Parts DEF RefuseInProgress, Fail, ClearRear, Goto, Advance
    <3> QED BY <1>1, <1>2, <3>1 DEF Waits, IsAsync
  <2>2. CASE Decode(a)
    <3>1. app[a] = "decode" /\ (IsAsync(req[a]) \/ app'[a] = "wait") /\ app'[a] \in {"idle", "wait"}
      BY <1>4, <2>2, Parts DEF Decode, Goto, ThreadOK
    <3>2. ctrl_msg_Q' = ctrl_msg_Q
      BY <2>2 DEF Decode, queueVars
    <3> QED BY <1>1, <1>2, <3>1, <3>2 DEF Waits, IsAsync
  <2>3. CASE WaitResponse(a)
    <3>1. ctrl_msg_Q # <<>> /\ ctrl_msg_Q' = ctrl_msg_Q
      BY <2>3, QueueLength DEF WaitResponse, queueVars
    <3> QED BY <3>1 DEF Waits
  <2>4. CASE FetchResponse(a)
    <3>1. ctrl_msg_Q # <<>> /\ ctrl_msg_Q' = ctrl_msg_Q
      BY <2>4, FetchMoves
    <3> QED BY <3>1 DEF Waits
  <2>5. CASE Advance(a)
    <3>1. ctrl_msg_Q # <<>> /\ InCall(a) /\ app[a] = "advance"
      BY <2>5, Fetches DEF Advance
    <3>2. ASSUME NEW b \in Apps, Waits(b)' PROVE FALSE
      <4>1. ~IsAsync(req[b]) /\ app'[b] \in {"decode", "wait"}
        BY <1>1, <3>2 DEF Waits, IsAsync
      <4>2. app'[a] \notin {"decode", "wait"}
        <5>1. app' = app \/ app' = [app EXCEPT ![a] = "clear"]
          BY <2>5, TakesOwn
        <5> QED BY <3>1, <5>1, Parts
      <4>3. b # a /\ InCall(b)
        BY <1>2, <4>1, <4>2 DEF InCall
      <4> QED BY <3>1, <4>3, Alone
    <3> QED BY <3>1, <3>2 DEF Waits
  <2> QED BY <2>1, <2>2, <2>3, <2>4, <2>5 DEF Quiet
<1> QED BY <1>1, <1>2, <1>3, <1>5

LEMMA StagesQuiet ==
  ASSUME IInv, ~disturbed', NEW a \in Apps, Quiet(a)
  PROVE  Stages'
<1>1. /\ AppStep(a)
      /\ UNCHANGED <<req, requests, ctrl_req_sem, ctrl_resp_cb_table, async_timer_handle, timers,
                     expired, timer_task, rx, app_resp, at_slave, settled>>
      /\ Advance(a) \/ ctrl_msg_Q' = ctrl_msg_Q
      /\ \A b \in Apps \ {a} : app'[b] = app[b]
      /\ app'[a] \in {"fail", "idle", "wait", "fetch", "advance", "clear"}
      /\ app'[a] = "fail" => app[a] = "acquire"
      /\ Sending' = Sending /\ \A b \in Sending : app'[b] = app[b]
      /\ \A b \in Apps : Waits(b)' <=> Waits(b)
  BY QuietMoves
<1>2. req[a] \in Request
  BY <1>1, AppMoves
<1>3. rx = "indicate" => ctrl_msg_Q' = ctrl_msg_Q
  BY <1>1, QueueLength, Fetches DEF Advance
<1>4. ASSUME NEW n \in Made, Only(n), Unanswered(n)
      PROVE  outcomes'[n] = <<>>
  <2>1. CASE outcomes' = outcomes
    BY <1>4, <2>1 DEF Unanswered
  <2>2. CASE outcomes' # outcomes
    <3>1. PICK v \in {0, req[a]} : /\ outcomes[req[a]] = <<>> /\ Give(req[a], v)
                                   /\ Fail(a) \/ Advance(a)
      <4>1. ~TimeOutSync(a)
        <5>1. ~(TimeOutSync(a) /\ Quiet(a))
          BY Parts DEF Quiet, RefuseInProgress, Fail, Decode, WaitResponse, FetchResponse, Advance,
             ClearRear, TimeOutSync, Goto
        <5> QED BY <5>1
      <4> QED BY <1>1, <2>2, <4>1, GivesOwn
    <3>2. req[a] # n
      <4>1. CASE Fail(a)
        BY <1>4, <4>1 DEF Fail, Only
      <4>2. CASE Advance(a)
        <5>1. ctrl_msg_Q # <<>> /\ ~IsAsync(req[a])
          BY <4>2, Fetches DEF Advance
        <5> QED BY <1>4, <5>1 DEF Unanswered, Waits
      <4> QED BY <3>1, <4>1, <4>2
    <3>3. n \in Request
      BY MadeType, Parts
    <3> QED BY <1>2, <1>4, <3>1, <3>2, <3>3, OutcomesFrom DEF Unanswered
  <2> QED BY <2>1, <2>2
<1>5. Made' = Made
  BY <1>1 DEF Made
<1> QED BY <1>1, <1>3, <1>4, <1>5, StagesKept

LEMMA StagesAcquire ==
  ASSUME IInv, NEW a \in Apps, Acquire(a)
  PROVE  Stages'
<1>1. app[a] = "acquire" /\ Free /\ req[a] \in Made
  BY Callers, Parts DEF Acquire, Stages
<1>2. /\ ctrl_req_sem' = 0 /\ app' = [app EXCEPT ![a] = "register"]
      /\ UNCHANGED <<req, requests, ctrl_msg_Q, timers, timer_task, rx, at_slave>>
  BY DEF Acquire, Goto, timerVars, rxVars, queueVars
<1>3. app'[a] = "register" /\ \A b \in Apps \ {a} : app'[b] = app[b]
  BY <1>2, Parts
<1>4. Sending' = {a}
  BY <1>1, <1>3 DEF Sending, Free
<1>5. Making(req[a])'
  BY <1>1, <1>2, <1>3, <1>4 DEF Making, Free
<1>6. Only(req[a])'
  <2>1. \A b \in Apps : ~Waits(b)'
    BY <1>1, <1>2, <1>3 DEF Free, Waits, IsAsync
  <2>2. \A b \in Apps \ {a} : app[b] # "idle" => req[b] # req[a]
    BY <1>1, Parts DEF ThreadInv, Distinct
  <2> QED BY <1>2, <1>3, <2>1, <2>2 DEF Only
<1> QED BY <1>1, <1>2, <1>5, <1>6 DEF Stages, Stage, Made

(* What the steps of the thread that makes the request keep.               *)
LEMMA MakerMoves ==
  ASSUME IInv, NEW a \in Apps, app[a] \in {"register", "timer", "send"},
         NEW l \in {"timer", "send", "decode"}, app' = [app EXCEPT ![a] = l],
         UNCHANGED <<req, requests, ctrl_msg_Q>>
  PROVE  /\ app'[a] = l /\ \A b \in Apps \ {a} : app'[b] = app[b]
         /\ Sending' = IF l = "decode" THEN {} ELSE {a}
         /\ \A b \in Apps \ {a} : ~Waits(b)'
         /\ Only(req[a])'
<1>1. app'[a] = l /\ \A b \in Apps \ {a} : app'[b] = app[b]
  BY Parts
<1>2. Sending' = IF l = "decode" THEN {} ELSE {a}
  BY <1>1, Maker DEF Sending
<1>3. \A b \in Apps \ {a} : ~Waits(b)'
  BY <1>1, Maker DEF Waits, IsAsync
<1>4. Only(req[a])'
  BY <1>1, <1>3, Maker DEF Only
<1> QED BY <1>1, <1>2, <1>3, <1>4

LEMMA StagesSend ==
  ASSUME IInv, ~disturbed', NEW a \in Apps, Register(a) \/ StartTimer(a) \/ Send(a)
  PROVE  Stages'
<1> DEFINE n == req[a]
<1>0. AppStep(a)
  BY DEF AppStep
<1>1. /\ app[a] \in {"register", "timer", "send"} /\ ThreadOK(a)
      /\ n \in Made /\ n \in Request /\ requests[n].id \in Ids
      /\ ctrl_resp_cb_table = [i \in Ids |-> ctrl_resp_cb_table[i]]
  BY <1>0, AppMoves, Parts DEF Register, StartTimer, Send, TypeInv, TypeOK
<1>2. /\ UNCHANGED <<req, requests, ctrl_msg_Q, ctrl_req_sem, rx, timer_task, settled, outcomes>>
      /\ Made' = Made
  BY <1>0, Undisturbed DEF Register, StartTimer, Send, timerVars, rxVars, queueVars, Made
<1>3. CASE Register(a)
  <2>1. PICK l \in {"timer", "send"} : /\ app' = [app EXCEPT ![a] = l]
                                       /\ l = "send" => ~IsAsync(n)
    BY <1>3 DEF Register, Goto
  <2>2. Registered(n)'
    BY <1>1, <1>2, <1>3 DEF Register, set_async_resp_callback, Registered, IsAsync
  <2>3. UNCHANGED <<timers, at_slave>>
    BY <1>3 DEF Register, timerVars
  <2>4. timers = {}
    BY <1>3, Maker DEF Register
  <2>5. Making(n)'
    BY <1>1, <1>2, <2>1, <2>2, <2>3, <2>4, Maker, MakerMoves DEF Making, Timed, IsAsync
  <2> QED BY <1>1, <1>2, <2>1, <2>5, Maker, MakerMoves DEF Stages, Stage
<1>4. CASE StartTimer(a)
  <2>1. /\ app' = [app EXCEPT ![a] = "send"] /\ async_timer_handle' = n /\ timers' = timers \cup {n}
        /\ UNCHANGED <<ctrl_resp_cb_table, at_slave>>
    BY <1>0, <1>4, Undisturbed DEF StartTimer, hosted_timer_start, Goto
  <2>2. timers = {} /\ Registered(n) /\ IsAsync(n)
    BY <1>1, <1>4, Maker DEF StartTimer, ThreadOK
  <2>3. Registered(n)' /\ Timed(n)'
    BY <1>2, <2>1, <2>2 DEF Registered, Timed, IsAsync
  <2>4. Making(n)'
    BY <1>1, <1>2, <2>1, <2>3, Maker, MakerMoves DEF Making
  <2> QED BY <1>1, <1>2, <2>1, <2>4, Maker, MakerMoves DEF Stages, Stage
<1>5. CASE Send(a)
  <2>1. /\ app' = [app EXCEPT ![a] = "decode"] /\ at_slave' = at_slave \cup {n}
        /\ UNCHANGED <<ctrl_resp_cb_table, timers, async_timer_handle>>
    BY <1>0, <1>5, Undisturbed DEF Send, Goto, timerVars
  <2>2. Timed(n) /\ Registered(n) /\ at_slave = {} /\ app[a] = "send"
    BY <1>5, Maker DEF Send
  <2>3. Timed(n)' /\ Registered(n)' /\ at_slave' = {n}
    BY <1>2, <2>1, <2>2 DEF Registered, Timed, IsAsync
  <2>4. app'[a] = "decode" /\ Sending' = {} /\ Only(n)'
    BY <1>1, <1>2, <2>1, MakerMoves
  <2>5. ~IsAsync(n) => ctrl_msg_Q = <<>>
    BY <2>2, QueuedIsMine DEF InCall
  <2>6. Unanswered(n)'
    BY <1>1, <1>2, <2>2, <2>4, <2>5 DEF Unanswered, Waits, IsAsync, ThreadOK
  <2>7. AtSlave(n)'
    BY <1>1, <1>2, <2>2, <2>3, <2>4, <2>6, Maker DEF AtSlave, ThreadOK
  <2> QED BY <1>1, <1>2, <2>4, <2>7, Maker DEF Stages, Stage
<1> QED BY <1>3, <1>4, <1>5

(* The synchronous caller whose request was lost gives up, and posts.      *)
LEMMA TimesOutLost ==
  ASSUME IInv, ~disturbed', NEW a \in Apps, TimeOutSync(a)
  PROVE  /\ Waits(a) /\ req[a] \in Made /\ ctrl_req_sem = 0 /\ ~IsAsync(req[a])
         /\ Lost(req[a]) /\ Only(req[a]) /\ app[a] = "wait"
<1>1. app[a] = "wait" /\ Waits(a) /\ req[a] \in settled
  BY TimesOutUnanswered DEF TimeOutSync
<1>2. PICK n \in Made : ctrl_req_sem = 0 /\ Stage(n) /\ Only(n)
  BY <1>1, Parts DEF Stages, Free
<1>3. req[a] = n /\ ~IsAsync(n)
  BY <1>1, <1>2 DEF Only, Waits
<1>4. ~Making(n)
  <2> SUFFICES ASSUME Making(n) PROVE FALSE
    OBVIOUS
  <2>1. PICK c \in Apps : Sending = {c} /\ req[c] = n
    BY DEF Making
  <2>2. app[c] \in {"register", "timer", "send"}
    BY <2>1 DEF Sending
  <2> QED BY <1>1, <1>3, <2>1, <2>2, Parts DEF ThreadInv, Distinct
<1> QED BY <1>1, <1>2, <1>3, <1>4 DEF Stage, AtSlave, Answered

LEMMA StagesTimeOut ==
  ASSUME IInv, ~disturbed', NEW a \in Apps, TimeOutSync(a)
  PROVE  Stages'
<1>1. app[a] = "wait" /\ ~IsAsync(req[a]) /\ Lost(req[a]) /\ Only(req[a])
  BY TimesOutLost
<1>2. /\ app' = [app EXCEPT ![a] = "idle"] /\ ctrl_req_sem' = 1
      /\ UNCHANGED <<req, requests, ctrl_msg_Q, timers, timer_task, rx, at_slave>>
  BY DEF TimeOutSync, Goto, timerVars, rxVars, queueVars
<1>3. app'[a] = "idle" /\ \A b \in Apps \ {a} : app'[b] = app[b]
  BY <1>2, Parts
<1>4. Sending' = {}
  BY <1>1, <1>3 DEF Sending, Lost
<1>5. \A b \in Apps : ~Waits(b)'
  <2> SUFFICES ASSUME NEW b \in Apps, Waits(b)' PROVE FALSE
    OBVIOUS
  <2>1. b # a /\ InCall(b)
    BY <1>2, <1>3 DEF Waits, IsAsync, InCall
  <2>2. InCall(a)
    BY <1>1 DEF InCall
  <2> QED BY <2>1, <2>2, Alone
<1>6. timer_task = "idle" /\ timers = {}
  BY <1>1 DEF Lost
<1> QED BY <1>1, <1>2, <1>4, <1>5, <1>6 DEF Stages, Free, Lost

-----------------------------------------------------------------------------
(* The steps of the slave, of ctrl_rx_thread and of the timer task.  They  *)
(* concern the request n that has ctrl_req_sem.                            *)

LEMMA OthersFrom ==
  ASSUME IInv, NEW n \in Made, Sending = {}, Only(n),
         UNCHANGED <<app, req, requests, ctrl_resp_cb_table>>,
         settled' = settled \/ settled' = settled \cup {n},
         \/ outcomes' = outcomes
         \/ IsAsync(n) /\ outcomes[n] = <<>> /\ \E v \in {0, n} : Give(n, v)
  PROVE  ThreadInv' /\ UnmadeInv' /\ OutcomeInv' /\ Made' = Made /\ Sending' = Sending
<1>1. Made' = Made /\ n \in Request /\ Sending' = Sending
  BY MadeType, Parts DEF Made, Sending
<1>2. OutcomeInv' /\ \A m \in Request \ {n} : outcomes'[m] = outcomes[m]
  BY <1>1, OutcomesFrom, Parts DEF OutcomeInv
<1>3. UnmadeInv'
  BY <1>1, <1>2, Parts DEF UnmadeInv
<1>4. ASSUME NEW a \in Apps PROVE ThreadOK(a)'
  <2>1. ThreadOK(a) /\ app[a] \notin {"register", "timer", "send"}
        /\ (app[a] \in {"acquire", "fail"} => req[a] # n)
    BY Parts DEF ThreadInv, Sending, Only
  <2>2. app[a] # "idle" => req[a] \in Request
    BY Callers
  <2>3. outcomes' # outcomes => IsAsync(n)
    OBVIOUS
  <2>4. app[a] \notin {"idle", "decode", "clear"} => outcomes'[req[a]] = <<>>
    <3>1. app[a] \in {"idle", "acquire", "fail", "decode", "wait", "fetch", "advance", "clear"}
      BY <2>1, Parts
    <3> QED BY <1>2, <2>1, <2>2, <2>3, <3>1 DEF ThreadOK
  <2>5. app[a] = "decode" /\ ~IsAsync(req[a]) => outcomes'[req[a]] = <<>>
    BY <1>2, <2>1, <2>2, <2>3 DEF ThreadOK
  <2>6. app[a] \in {"acquire", "register", "timer", "send"} => req[a] \notin settled'
    BY <2>1 DEF ThreadOK
  <2> QED BY <2>1, <2>4, <2>5, <2>6 DEF ThreadOK, IsAsync
<1>5. Distinct' /\ OneCalls'
  BY Parts DEF ThreadInv, Distinct, OneCalls, InCall, IsAsync
<1> QED BY <1>1, <1>2, <1>3, <1>4, <1>5 DEF ThreadInv

LEMMA QueuedFrom ==
  ASSUME IInv, UNCHANGED <<app, req, requests, ctrl_msg_Q>>,
         read_sem' = read_sem \/ read_sem' = 1,
         rx = "indicate" => rx' = "indicate" \/ read_sem' = 1
  PROVE  QueuedInv'
<1>1. CASE ctrl_msg_Q = <<>>
  BY <1>1 DEF QueuedInv
<1>2. CASE ctrl_msg_Q # <<>>
  <2>1. PICK a \in Apps : /\ app[a] \in {"decode", "wait", "fetch", "advance"} /\ ~IsAsync(req[a])
                          /\ ctrl_msg_Q = <<req[a]>>
    BY <1>2, Parts DEF QueuedInv
  <2>2. read_sem = 1 \/ rx = "indicate" \/ \E c \in Apps : app[c] \in {"fetch", "advance"}
    BY <1>2, Parts DEF QueuedInv
  <2> QED BY <2>1, <2>2 DEF QueuedInv, IsAsync
<1> QED BY <1>1, <1>2

(* The stage that follows.                                                 *)
LEMMA Follows ==
  ASSUME NEW n \in Made', ctrl_req_sem' = 0, Stage(n)', Only(n)',
         ThreadInv', QueuedInv', UnmadeInv', OutcomeInv', ~overlapped'
  PROVE  Promises' /\ ~overlapped'
<1> QED BY DEF Promises, Stages

LEMMA LoseStep ==
  ASSUME IInv, NEW n \in Request, LoseRequest(n)
  PROVE  Promises' /\ ~overlapped'
<1>1. n \in Made /\ AtSlave(n) /\ Only(n) /\ ctrl_req_sem = 0
  BY Parts DEF LoseRequest, Stages, Free, Stage, Making, AtSlave, Answered, Lost
<1>2. /\ at_slave' = at_slave \ {n} /\ settled' = settled \cup {n}
      /\ UNCHANGED <<app, req, requests, ctrl_req_sem, read_sem, ctrl_msg_Q, overlapped,
                     ctrl_resp_cb_table, async_timer_handle, timers, expired, timer_task, rx,
                     app_resp, outcomes>>
  BY DEF LoseRequest, appVars, queueVars, timerVars, rxVars
<1>3. ThreadInv' /\ UnmadeInv' /\ OutcomeInv' /\ Made' = Made /\ Sending' = Sending
  BY <1>1, <1>2, OthersFrom DEF AtSlave
<1>4. QueuedInv'
  BY <1>2, QueuedFrom
<1>5. Unanswered(n)' /\ Only(n)'
  BY <1>1, <1>2 DEF AtSlave, Unanswered, Waits, IsAsync, Only
<1>6. Lost(n)'
  BY <1>1, <1>2, <1>3, <1>5 DEF AtSlave, Lost, Timed, IsAsync
<1> QED BY <1>1, <1>2, <1>3, <1>4, <1>5, <1>6, Follows, Parts DEF Stage

LEMMA ReceiveStep ==
  ASSUME IInv, NEW n \in Request, Receive(n)
  PROVE  Promises' /\ ~overlapped'
<1>1. n \in Made /\ AtSlave(n) /\ Only(n) /\ ctrl_req_sem = 0
  BY Parts DEF Receive, Stages, Free, Stage, Making, AtSlave, Answered, Lost
<1>2. /\ at_slave' = at_slave \ {n} /\ rx = "idle"
      /\ UNCHANGED <<app, req, requests, ctrl_req_sem, read_sem, ctrl_msg_Q, overlapped,
                     ctrl_resp_cb_table, async_timer_handle, timers, expired, timer_task, outcomes>>
      /\ \/ rx' = "stop" /\ app_resp' = n /\ UNCHANGED settled
         \/ settled' = settled \cup {n} /\ UNCHANGED <<rx, app_resp>>
  BY DEF Receive, appVars, queueVars, timerVars, rxVars
<1>3. ThreadInv' /\ UnmadeInv' /\ OutcomeInv' /\ Made' = Made /\ Sending' = Sending
  <2>1. settled' = settled \/ settled' = settled \cup {n}
    BY <1>2
  <2> QED BY <1>1, <1>2, <2>1, OthersFrom DEF AtSlave
<1>4. QueuedInv'
  BY <1>2, QueuedFrom
<1>5. Unanswered(n)' /\ Only(n)' /\ Registered(n)' /\ Timed(n)' /\ (IsAsync(n)' <=> IsAsync(n))
  BY <1>1, <1>2 DEF AtSlave, Unanswered, Waits, IsAsync, Only, Registered, Timed
<1>6. CASE rx' = "stop" /\ app_resp' = n /\ UNCHANGED settled
  <2>1. Answered(n)'
    BY <1>1, <1>2, <1>3, <1>5, <1>6 DEF AtSlave, Answered
  <2> QED BY <1>1, <1>2, <1>3, <1>4, <1>5, <2>1, Follows, Parts DEF Stage
<1>7. CASE settled' = settled \cup {n} /\ UNCHANGED <<rx, app_resp>>
  <2>1. Lost(n)'
    BY <1>1, <1>2, <1>3, <1>5, <1>7 DEF AtSlave, Lost, Timed
  <2> QED BY <1>1, <1>2, <1>3, <1>4, <1>5, <2>1, Follows, Parts DEF Stage
<1> QED BY <1>2, <1>6, <1>7

(* With no late response a timer fires only for a request that was lost.   *)
LEMMA ExpireStep ==
  ASSUME IInv, ~disturbed', NEW n \in Request, Expire(n)
  PROVE  /\ Promises' /\ ~overlapped'
         /\ n \in Made /\ Lost(n) /\ Only(n) /\ ctrl_req_sem = 0 /\ IsAsync(n)
<1>0. n \in settled /\ n \in timers
  BY DEF Expire, Disturb
<1>1. n \in Made /\ Lost(n) /\ Only(n) /\ ctrl_req_sem = 0 /\ IsAsync(n) /\ timer_task = "idle"
  <2>1. PICK m \in Made : ctrl_req_sem = 0 /\ Stage(m) /\ Only(m)
    BY <1>0, Parts DEF Stages, Free
  <2>2. timers \subseteq {m}
    BY <2>1 DEF Stage, Making, AtSlave, Answered, Lost, Timed
  <2>3. ~Making(m)
    <3> SUFFICES ASSUME Making(m) PROVE FALSE
      OBVIOUS
    <3>1. PICK a \in Apps : Sending = {a} /\ req[a] = m
      BY DEF Making
    <3>2. app[a] \in {"register", "timer", "send"}
      BY <3>1 DEF Sending
    <3> QED BY <1>0, <2>2, <3>1, <3>2, Parts DEF ThreadInv, ThreadOK
  <2> QED BY <1>0, <2>1, <2>2, <2>3 DEF Stage, AtSlave, Answered, Lost, Expire
<1>2. /\ timers' = timers \ {n} /\ expired' = n /\ timer_task' = "call"
      /\ UNCHANGED <<app, req, requests, ctrl_req_sem, read_sem, ctrl_msg_Q, overlapped,
                     ctrl_resp_cb_table, async_timer_handle, rx, app_resp, at_slave, settled,
                     outcomes>>
  BY DEF Expire, appVars, queueVars, rxVars
<1>3. ThreadInv' /\ UnmadeInv' /\ OutcomeInv' /\ Made' = Made /\ Sending' = Sending
  BY <1>1, <1>2, OthersFrom DEF Lost
<1>4. QueuedInv'
  BY <1>2, QueuedFrom
<1>5. Unanswered(n)' /\ Only(n)' /\ IsAsync(n)'
  BY <1>1, <1>2 DEF Lost, Unanswered, Waits, IsAsync, Only
<1>6. timers' = {}
  BY <1>1, <1>2 DEF Lost
<1>7. Lost(n)'
  BY <1>1, <1>2, <1>3, <1>5, <1>6 DEF Lost
<1> QED BY <1>1, <1>2, <1>3, <1>4, <1>5, <1>7, Follows, Parts DEF Stage

(* The request ctrl_rx_thread works on.                                    *)
LEMMA AtReceiver ==
  ASSUME IInv, rx # "idle"
  PROVE  /\ app_resp \in Made /\ app_resp \in Request /\ app_resp # 0
         /\ Answered(app_resp) /\ Only(app_resp) /\ ctrl_req_sem = 0 /\ Sending = {}
<1>1. PICK n \in Made : ctrl_req_sem = 0 /\ Answered(n) /\ Only(n)
  BY Parts DEF Stages, Free, Stage, Making, AtSlave, Lost
<1> QED BY <1>1, MadeType, Parts DEF Answered, Request

LEMMA StopTimerStep ==
  ASSUME IInv, StopTimer
  PROVE  Promises' /\ ~overlapped'
<1> DEFINE n == app_resp
<1>1. n \in Made /\ Answered(n) /\ Only(n) /\ ctrl_req_sem = 0 /\ rx = "stop" /\ Sending = {}
  BY AtReceiver DEF StopTimer
<1>2. /\ timers' = timers \ {async_timer_handle} /\ rx' = "deliver"
      /\ UNCHANGED <<app, req, requests, ctrl_req_sem, read_sem, ctrl_msg_Q, overlapped,
                     ctrl_resp_cb_table, expired, timer_task, app_resp, at_slave, settled, outcomes>>
  BY DEF StopTimer, hosted_timer_stop, appVars, queueVars
<1>3. ThreadInv' /\ UnmadeInv' /\ OutcomeInv' /\ Made' = Made /\ Sending' = Sending
  BY <1>1, <1>2, OthersFrom
<1>4. QueuedInv'
  BY <1>1, <1>2, QueuedFrom
<1>5. Unanswered(n)' /\ Only(n)' /\ Registered(n)'
  BY <1>1, <1>2 DEF Answered, Unanswered, Waits, IsAsync, Only, Registered
<1>6. timers' = {}
  BY <1>1, <1>2 DEF Answered, Timed
<1>7. Answered(n)'
  BY <1>1, <1>2, <1>3, <1>5, <1>6 DEF Answered
<1> QED BY <1>1, <1>2, <1>3, <1>4, <1>5, <1>7, Follows, Parts DEF Stage

(* What Deliver finds: the callback of an asynchronous request is its own, *)
(* and a synchronous one finds an empty list, which no thread is in.       *)
LEMMA Delivers ==
  ASSUME IInv, Deliver
  PROVE  /\ IF IsAsync(app_resp)
              THEN /\ Callback = app_resp /\ Give(app_resp, app_resp) /\ rx' = "post"
                   /\ UNCHANGED <<app_resp, overlapped, settled>>
              ELSE /\ Callback = 0 /\ UNCHANGED <<overlapped, outcomes>>
                   /\ \/ rx' = "first" /\ UNCHANGED <<app_resp, settled>>
                      \/ /\ rx' = "idle" /\ app_resp' = 0
                         /\ settled' = settled \cup {app_resp}
         /\ outcomes[app_resp] = <<>> /\ rx = "deliver"
<1> DEFINE n == app_resp
<1>1. n # 0 /\ Answered(n) /\ rx = "deliver"
  BY AtReceiver DEF Deliver
<1>2. Callback = (IF IsAsync(n) THEN n ELSE 0) /\ outcomes[n] = <<>>
  BY <1>1 DEF Answered, Registered, Unanswered, Callback
<1>3. CASE IsAsync(n)
  BY <1>1, <1>2, <1>3 DEF Deliver
<1>4. CASE ~IsAsync(n)
  <2>1. PICK a \in Apps : req[a] = n /\ Waits(a)
    BY <1>1, <1>4 DEF Answered, Unanswered
  <2>2. InCall(a) /\ app[a] \in {"decode", "wait"} /\ ctrl_msg_Q = <<>>
    BY <2>1 DEF Waits, InCall
  <2>3. \A b \in Apps : ~Getting(b)
    <3> SUFFICES ASSUME NEW b \in Apps, Getting(b) PROVE FALSE
      OBVIOUS
    <3>1. InCall(b)
      BY Parts DEF Getting, InCall, ThreadInv, ThreadOK
    <3> QED BY <2>2, <3>1, Alone DEF Getting
  <2>4. rear = 0
    BY <2>2, <2>3, Parts DEF ListShape, Getting, LastOf
  <2>5. overlapped' = overlapped
    <3>1. overlapped \in BOOLEAN
      BY Parts DEF TypeInv, TypeOK
    <3>2. overlapped' = overlapped \/ overlapped' = (overlapped \/ \E b \in Apps : Getting(b))
      BY DEF Deliver
    <3> QED BY <2>3, <3>1, <3>2
  <2>6. Callback = 0
    BY <1>2, <1>4
  <2>7. /\ outcomes' = outcomes
        /\ \/ rx' = "first" /\ UNCHANGED <<app_resp, settled>>
           \/ rx' = "idle" /\ app_resp' = 0 /\ settled' = settled \cup {app_resp}
    BY <2>4, <2>6 DEF Deliver
  <2> QED BY <1>1, <1>2, <1>4, <2>5, <2>6, <2>7
<1> QED BY <1>3, <1>4

LEMMA DeliverStep ==
  ASSUME IInv, Deliver
  PROVE  Promises' /\ ~overlapped'
<1>1. PICK n \in Made :
        /\ n = app_resp /\ n \in Request /\ Answered(n) /\ Only(n) /\ ctrl_req_sem = 0
        /\ rx = "deliver" /\ Sending = {} /\ outcomes[n] = <<>>
  BY AtReceiver, Delivers
<1>2. UNCHANGED <<app, req, requests, ctrl_req_sem, read_sem, ctrl_msg_Q, overlapped,
                  ctrl_resp_cb_table, timers, timer_task, at_slave>>
  BY Delivers DEF Deliver, appVars, timerVars
<1>3. ThreadInv' /\ UnmadeInv' /\ OutcomeInv' /\ Made' = Made /\ Sending' = Sending
  <2>1. settled' = settled \/ settled' = settled \cup {n}
    BY <1>1, Delivers
  <2>2. \/ outcomes' = outcomes
        \/ IsAsync(n) /\ outcomes[n] = <<>> /\ \E v \in {0, n} : Give(n, v)
    BY <1>1, Delivers
  <2> QED BY <1>1, <1>2, <2>1, <2>2, OthersFrom
<1>4. QueuedInv'
  BY <1>1, <1>2, QueuedFrom
<1>5. Only(n)'
  BY <1>1, <1>2 DEF Only, Waits, IsAsync
<1>6. CASE IsAsync(n)
  <2>1. \A a \in Apps : ~Waits(a)'
    BY <1>1, <1>2, <1>6 DEF Only, Waits, IsAsync
  <2>2. rx' = "post" /\ UNCHANGED <<app_resp, settled>>
    BY <1>1, <1>6, Delivers
  <2>3. Answered(n)'
    BY <1>1, <1>2, <1>3, <2>1, <2>2 DEF Answered
  <2> QED BY <1>1, <1>2, <1>3, <1>4, <1>5, <2>3, Follows, Parts DEF Stage
<1>7. CASE ~IsAsync(n)
  <2>1. Registered(n)' /\ Unanswered(n)' /\ ~IsAsync(n)' /\ timers = {}
    BY <1>1, <1>2, <1>7, Delivers DEF Answered, Registered, Unanswered, Waits, IsAsync
  <2>2. Answered(n)' \/ Lost(n)'
    <3>1. CASE rx' = "first" /\ UNCHANGED <<app_resp, settled>>
      BY <1>1, <1>2, <1>3, <2>1, <3>1 DEF Answered
    <3>2. CASE rx' = "idle" /\ app_resp' = 0 /\ settled' = settled \cup {n}
      <4>1. Sending' = {} /\ timers' = {} /\ at_slave' = {} /\ timer_task' = "idle" /\ n \in settled'
        BY <1>1, <1>2, <1>3, <2>1, <3>2 DEF Answered
      <4> QED BY <2>1, <3>2, <4>1 DEF Lost
    <3> QED BY <1>1, <1>7, <3>1, <3>2, Delivers
  <2> QED BY <1>1, <1>2, <1>3, <1>4, <1>5, <2>2, Follows, Parts DEF Stage
<1> QED BY <1>6, <1>7

(* A synchronous request's response is queued for the thread that waits.   *)
LEMMA PutStep ==
  ASSUME IInv, PutFirst \/ PutLink
  PROVE  Promises' /\ ~overlapped'
<1> DEFINE n == app_resp
<1>1. /\ n \in Made /\ n \in Request /\ Answered(n) /\ Only(n) /\ ctrl_req_sem = 0
      /\ rx = "first" /\ Sending = {}
  BY AtReceiver DEF PutFirst, PutLink, Answered
<1>2. PICK a \in Apps : req[a] = n /\ Waits(a)
  BY <1>1 DEF Answered, Unanswered
<1>3. /\ ctrl_msg_Q' = <<n>> /\ rx' = "indicate"
      /\ UNCHANGED <<app, req, requests, ctrl_req_sem, read_sem, overlapped, ctrl_resp_cb_table,
                     timers, timer_task, app_resp, at_slave, settled, outcomes>>
  BY <1>1 DEF PutFirst, PutLink, appVars, timerVars
<1>4. ThreadInv' /\ UnmadeInv' /\ OutcomeInv' /\ Made' = Made /\ Sending' = Sending
  BY <1>1, <1>3, OthersFrom
<1>5. QueuedInv'
  BY <1>2, <1>3 DEF QueuedInv, IsAsync, Waits
<1>6. \A b \in Apps : ~Waits(b)'
  BY <1>3 DEF Waits
<1>7. Answered(n)' /\ Only(n)'
  BY <1>1, <1>3, <1>4, <1>6 DEF Answered, Only
<1> QED BY <1>1, <1>3, <1>4, <1>5, <1>7, Follows, Parts DEF Stage

LEMMA IndicateStep ==
  ASSUME IInv, Indicate
  PROVE  Promises' /\ ~overlapped'
<1> DEFINE n == app_resp
<1>1. n \in Made /\ Answered(n) /\ Only(n) /\ ctrl_req_sem = 0 /\ rx = "indicate" /\ Sending = {}
  BY AtReceiver DEF Indicate
<1>2. /\ read_sem' = 1 /\ rx' = "post"
      /\ UNCHANGED <<app, req, requests, ctrl_req_sem, ctrl_msg_Q, overlapped, ctrl_resp_cb_table,
                     timers, timer_task, app_resp, at_slave, settled, outcomes>>
  BY DEF Indicate, ctrl_rx_ind, appVars, queueVars, timerVars
<1>3. ThreadInv' /\ UnmadeInv' /\ OutcomeInv' /\ Made' = Made /\ Sending' = Sending
  BY <1>1, <1>2, OthersFrom
<1>4. QueuedInv'
  BY <1>2, QueuedFrom
<1>5. \A a \in Apps : ~Waits(a)'
  BY <1>1, <1>2 DEF Answered, Waits
<1>6. Answered(n)' /\ Only(n)'
  BY <1>1, <1>2, <1>3, <1>5 DEF Answered, Only
<1> QED BY <1>1, <1>2, <1>3, <1>4, <1>6, Follows, Parts DEF Stage

LEMMA PostStep ==
  ASSUME IInv, PostAfterResponse
  PROVE  Promises' /\ ~overlapped'
<1> DEFINE n == app_resp
<1>1. n \in Made /\ Answered(n) /\ Only(n) /\ rx = "post" /\ Sending = {}
  BY AtReceiver DEF PostAfterResponse
<1>2. /\ ctrl_req_sem' = 1 /\ settled' = settled \cup {n} /\ rx' = "idle"
      /\ UNCHANGED <<app, req, requests, read_sem, ctrl_msg_Q, overlapped, ctrl_resp_cb_table,
                     timers, timer_task, at_slave, outcomes>>
  BY DEF PostAfterResponse, PostRequestSemaphore, appVars, queueVars, timerVars
<1>3. ThreadInv' /\ UnmadeInv' /\ OutcomeInv' /\ Made' = Made /\ Sending' = Sending
  BY <1>1, <1>2, OthersFrom
<1>4. QueuedInv'
  BY <1>1, <1>2, QueuedFrom
<1>5. \A a \in Apps : ~Waits(a)'
  BY <1>1, <1>2 DEF Answered, Waits, IsAsync
<1>6. Free'
  BY <1>1, <1>2, <1>3, <1>5 DEF Free, Answered
<1> QED BY <1>2, <1>3, <1>4, <1>6, Parts DEF Promises, Stages

(* The handler keeps its request: it faults.                               *)
LEMMA TimerTaskStep ==
  ASSUME IInv, ~disturbed', CallTimedOut
  PROVE  Promises' /\ ~overlapped'
<1> DEFINE n == expired
<1>1. timer_task = "call"
  BY DEF CallTimedOut
<1>2. n \in Made /\ Lost(n) /\ Only(n) /\ ctrl_req_sem = 0
  BY <1>1, Parts DEF Stages, Free, Stage, Making, AtSlave, Answered, Lost
<1>3. /\ timer_task' = "fault"
      /\ UNCHANGED <<app, req, requests, ctrl_req_sem, read_sem, ctrl_msg_Q, overlapped,
                     ctrl_resp_cb_table, timers, expired, rx, at_slave, settled, outcomes>>
  BY DEF CallTimedOut, Disturb, appVars, queueVars, rxVars
<1>4. ThreadInv' /\ UnmadeInv' /\ OutcomeInv' /\ Made' = Made /\ Sending' = Sending
  BY <1>2, <1>3, OthersFrom DEF Lost
<1>5. QueuedInv'
  BY <1>3, QueuedFrom
<1>6. Only(n)' /\ Unanswered(n)' /\ (IsAsync(n)' <=> IsAsync(n))
  BY <1>2, <1>3 DEF Only, Waits, IsAsync, Lost, Unanswered
<1>7. Lost(n)'
  BY <1>1, <1>2, <1>3, <1>4, <1>6 DEF Lost
<1> QED BY <1>2, <1>3, <1>4, <1>5, <1>6, <1>7, Follows, Parts DEF Stage

-----------------------------------------------------------------------------
(* The invariant holds until the library is disturbed, and is not restored *)
(* after that.                                                             *)

Promised == QueueInv /\ (~disturbed => IInv)

LEMMA StaysDisturbed ==
  ASSUME QueueInv, [Next]_vars, ~disturbed'
  PROVE  ~disturbed
<1>1. disturbed \in BOOLEAN
  BY DEF QueueInv, TypeInv, TypeOK
<1>2. disturbed' = disturbed \/ \E c : Disturb(c)
  <2>1. ASSUME NEW a \in Apps, MakeRequest(a) \/ AppStep(a)
        PROVE  disturbed' = disturbed \/ \E c : Disturb(c)
    BY <2>1 DEF MakeRequest, AppStep, Acquire, RefuseInProgress, Reject, Register, StartTimer, Send,
       Fail, Decode, WaitResponse, TimeOutSync, FetchResponse, Advance, ClearRear
  <2>2. ASSUME \/ \E n \in Request : LoseRequest(n) \/ Receive(n) \/ Expire(n)
               \/ RxStep \/ CallTimedOut
        PROVE  disturbed' = disturbed \/ \E c : Disturb(c)
    BY <2>2 DEF LoseRequest, Receive, Expire, RxStep, StopTimer, Deliver, PutFirst, PutLink,
       Indicate, PostAfterResponse, CallTimedOut
  <2> QED BY <2>1, <2>2 DEF Next, Step, Quiescent, vars
<1> QED BY <1>1, <1>2 DEF Disturb

(* The list is used by one thread at a time.                               *)
LEMMA Apart ==
  ASSUME IInv, NEW a \in Apps, AppStep(a)
  PROVE  ~overlapped'
<1>1. CASE FetchResponse(a)
  <2>1. app[a] = "fetch" /\ InCall(a) /\ ctrl_msg_Q # <<>>
    <3>1. app[a] = "fetch"
      BY <1>1 DEF FetchResponse
    <3>2. <<req[a]>> # <<>>
      OBVIOUS
    <3> QED BY <3>1, <3>2, Fetches
  <2>2. ~Putting
    <3> SUFFICES ASSUME Putting PROVE FALSE
      OBVIOUS
    <3>1. rx = "first" /\ Unanswered(app_resp) /\ ~IsAsync(app_resp)
      BY AtReceiver DEF Putting, Answered
    <3> QED BY <2>1, <3>1 DEF Unanswered, Waits
  <2>3. \A b \in Apps : ~Getting(b)
    <3> SUFFICES ASSUME NEW b \in Apps, Getting(b) PROVE FALSE
      OBVIOUS
    <3>1. InCall(b)
      BY Parts DEF Getting, InCall, ThreadInv, ThreadOK
    <3> QED BY <2>1, <3>1, Alone DEF Getting
  <2>4. \/ overlapped' = overlapped
        \/ overlapped' = (overlapped \/ Putting \/ \E b \in Apps : Getting(b))
    BY <1>1 DEF FetchResponse
  <2> QED BY <2>2, <2>3, <2>4, Parts
<1>2. CASE ~FetchResponse(a)
  <2>1. overlapped' = overlapped
    BY <1>2 DEF AppStep, Acquire, RefuseInProgress, Reject, Register, StartTimer, Send, Fail,
       Decode, WaitResponse, TimeOutSync, Advance, ClearRear, queueVars
  <2> QED BY <2>1, Parts
<1> QED BY <1>1, <1>2

LEMMA InvStep == Promised /\ [Next]_vars => Promised'
<1> SUFFICES ASSUME Promised, [Next]_vars, ~disturbed'
             PROVE  Promises' /\ ~overlapped'
  BY QueueStep DEF Promised, IInv
<1>1. IInv
  BY StaysDisturbed DEF Promised
<1>2. ASSUME NEW a \in Apps, MakeRequest(a)
      PROVE  Promises' /\ ~overlapped'
  <2>1. overlapped' = overlapped
    BY <1>1, <1>2, NewRequest
  <2> QED BY <1>1, <1>2, <2>1, ThreadsMake, QueuedMake, StagesMake, Parts DEF Promises
<1>3. ASSUME NEW a \in Apps, AppStep(a)
      PROVE  Promises' /\ ~overlapped'
  <2>1. ThreadInv' /\ QueuedInv' /\ UnmadeInv' /\ OutcomeInv' /\ ~overlapped'
    BY <1>1, <1>3, ThreadsApp, QueuedApp, UnmadeApp, Apart
  <2>2. Stages'
    BY <1>1, <1>3, Undisturbed, StagesAcquire, StagesSend, StagesQuiet, StagesTimeOut
       DEF AppStep, Quiet
  <2> QED BY <2>1, <2>2 DEF Promises
<1>4. ASSUME NEW n \in Request, LoseRequest(n) \/ Receive(n) \/ Expire(n)
      PROVE  Promises' /\ ~overlapped'
  BY <1>1, <1>4, LoseStep, ReceiveStep, ExpireStep
<1>5. ASSUME RxStep \/ CallTimedOut
      PROVE  Promises' /\ ~overlapped'
  BY <1>1, <1>5, StopTimerStep, DeliverStep, PutStep, IndicateStep, PostStep, TimerTaskStep
     DEF RxStep
<1>6. ASSUME UNCHANGED vars
      PROVE  Promises' /\ ~overlapped'
  <2>1. ThreadInv' /\ QueuedInv' /\ UnmadeInv' /\ OutcomeInv' /\ ~overlapped'
    BY <1>1, <1>6, Parts DEF vars, appVars, queueVars, timerVars, rxVars, ThreadInv, Distinct,
       OneCalls, InCall, ThreadOK, QueuedInv, UnmadeInv, OutcomeInv, IsAsync, Made
  <2>2. Stages'
    BY <1>1, <1>6, Parts DEF vars, appVars, queueVars, timerVars, rxVars, Stages, Free, Stage,
       Making, AtSlave, Answered, Lost, Only, Waits, Sending, Registered, Timed, Unanswered,
       IsAsync, Made
  <2> QED BY <2>1, <2>2 DEF Promises
<1> QED BY <1>2, <1>3, <1>4, <1>5, <1>6 DEF Next, Step, Quiescent

LEMMA InvInit == Init => Promised
<1> SUFFICES ASSUME Init PROVE IInv
  BY QueueInit DEF Promised
<1>1. Made = {} /\ \A a \in Apps : app[a] = "idle"
  BY DEF Init, Made
<1>2. ThreadInv /\ QueuedInv
  BY <1>1 DEF Init, ThreadInv, Distinct, OneCalls, InCall, ThreadOK, QueuedInv
<1>3. UnmadeInv /\ OutcomeInv
  BY <1>1 DEF Init, UnmadeInv, OutcomeInv
<1>4. Stages
  BY <1>1 DEF Init, Stages, Free, Sending, Waits
<1>5. ~overlapped
  BY DEF Init
<1> QED BY <1>2, <1>3, <1>4, <1>5, QueueInit DEF IInv, Promises

LEMMA Invariant == Spec => []Promised
<1> QED BY InvInit, InvStep, PTL DEF Spec

(* Until it is disturbed, the slave has at most one request that somebody  *)
(* waits for: ctrl_req_sem, which others post than took it, does its work. *)
THEOREM OneAtATime == Spec => []OneOngoing
<1>1. Promised => OneOngoing
  <2> SUFFICES ASSUME Promised, ~disturbed PROVE Cardinality(Ongoing) <= 1
    BY DEF OneOngoing
  <2>1. at_slave = {} \/ \E n \in Made : at_slave = {n}
    BY Parts DEF Promised, Stages, Free, Stage, Making, AtSlave, Answered, Lost
  <2>2. Ongoing = {} \/ \E n \in Made : Ongoing = {n}
    BY <2>1 DEF Ongoing
  <2> QED BY <2>2, FS_EmptySet, FS_Singleton
<1> QED BY <1>1, Invariant, PTL

(* Until the library is disturbed, a request is given one outcome at most, *)
(* an error or its own response, although responses carry no number.       *)
THEOREM Own == Spec => []OneOwnOutcome
<1>1. Promised => OneOwnOutcome
  BY Parts DEF Promised, OutcomeInv, OneOwnOutcome
<1> QED BY <1>1, Invariant, PTL

(* Until the library is disturbed, a timer that fires is the one of a      *)
(* request that was given nothing: none outlives the response.             *)
THEOREM Fires == Spec => []FiresUnanswered
<1>1. Promised => FiresUnanswered
  <2> SUFFICES ASSUME Promised, ~disturbed, timer_task # "idle" PROVE outcomes[expired] = <<>>
    BY DEF FiresUnanswered
  <2>1. PICK n \in Made : Lost(n)
    BY Parts DEF Promised, Stages, Free, Stage, Making, AtSlave, Answered
  <2> QED BY <2>1 DEF Lost, Unanswered
<1> QED BY <1>1, Invariant, PTL

(* Until the library is disturbed, ctrl_req_sem stays taken only for a     *)
(* lost request with a callback: otherwise a thread is still to post it.   *)
THEOREM Posted == Spec => []SemaphoreWillBePosted
<1>1. Promised => SemaphoreWillBePosted
  <2> SUFFICES ASSUME Promised, ~disturbed, ctrl_req_sem = 0, rx = "idle", at_slave = {},
                      Sending = {}
               PROVE  \/ LostAsync
                      \/ \E a \in Apps : app[a] \in {"decode", "wait"} /\ ~IsAsync(req[a])
    BY DEF SemaphoreWillBePosted, Sending
  <2>1. PICK n \in Made : Lost(n)
    BY Parts DEF Promised, Stages, Stage, Making, AtSlave, Answered
  <2>2. CASE IsAsync(n)
    BY <2>1, <2>2 DEF Lost, LostAsync, Unanswered
  <2>3. CASE ~IsAsync(n)
    BY <2>1, <2>3 DEF Lost, Unanswered, Waits
  <2> QED BY <2>2, <2>3
<1> QED BY <1>1, Invariant, PTL

-----------------------------------------------------------------------------
(* The library serves one request at a time.  The stages say which one has *)
(* ctrl_req_sem; what is missing is that ctrl_req_sem is posted only for a *)
(* request that has been decided.                                          *)

Settles == rx = "post" => Decided[app_resp] = <<app_resp>>

(* Nothing that the server is told changes.                                *)
Same == UNCHANGED <<Made, Serving, Unanswerable, Decided>>

(* The ways a thread shows that its request has ctrl_req_sem.              *)
Busy(a) == app[a] \in {"register", "timer", "send"} \/ Waits(a)

LEMMA ServingDef ==
  ASSUME NEW n \in Request
  PROVE  n \in Serving <=>
           /\ ctrl_req_sem = 0
           /\ \/ n \in at_slave \/ n \in timers
              \/ rx # "idle" /\ app_resp = n
              \/ timer_task # "idle" /\ expired = n
              \/ \E a \in Apps : req[a] = n /\ Busy(a)
<1> QED BY DEF Serving, Busy

LEMMA ServingDefNext ==
  ASSUME NEW n \in Request
  PROVE  n \in Serving' <=>
           /\ ctrl_req_sem' = 0
           /\ \/ n \in at_slave' \/ n \in timers'
              \/ rx' # "idle" /\ app_resp' = n
              \/ timer_task' # "idle" /\ expired' = n
              \/ \E a \in Apps : req'[a] = n /\ Busy(a)'
<1> QED BY DEF Serving, Busy

(* There is one at most, and one if ctrl_req_sem is taken.                 *)
LEMMA ServesOne ==
  ASSUME IInv
  PROVE  /\ \A n \in Made : ctrl_req_sem = 0 /\ Stage(n) /\ Only(n) => Serving = {n}
         /\ \A n \in Serving : Serving = {n} /\ Stage(n) /\ Only(n) /\ n \in Made
<1>1. ASSUME NEW n \in Made, ctrl_req_sem = 0, Stage(n), Only(n)
      PROVE  Serving = {n}
  <2>1. n \in Request
    BY MadeType, Parts
  <2>2. n \in Serving
    <3>1. CASE Making(n)
      <4>1. PICK a \in Apps : Sending = {a} /\ req[a] = n
        BY <3>1 DEF Making
      <4>2. Busy(a)
        BY <4>1 DEF Sending, Busy
      <4> QED BY <1>1, <2>1, <4>1, <4>2, ServingDef
    <3>2. CASE AtSlave(n)
      BY <1>1, <2>1, <3>2, ServingDef DEF AtSlave
    <3>3. CASE Answered(n)
      BY <1>1, <2>1, <3>3, ServingDef DEF Answered
    <3>4. CASE Lost(n)
      BY <1>1, <2>1, <3>4, ServingDef DEF Lost, Unanswered, Busy
    <3> QED BY <1>1, <3>1, <3>2, <3>3, <3>4 DEF Stage
  <2>3. ASSUME NEW m \in Serving PROVE m = n
    <3>1. /\ m \in Request
          /\ \/ m \in at_slave \/ m \in timers
             \/ rx # "idle" /\ app_resp = m
             \/ timer_task # "idle" /\ expired = m
             \/ \E a \in Apps : req[a] = m /\ Busy(a)
      BY ServingDef DEF Serving
    <3>2. \A a \in Apps : Busy(a) => req[a] = n
      <4> SUFFICES ASSUME NEW a \in Apps, app[a] \in {"register", "timer", "send"}
                   PROVE  req[a] = n
        BY <1>1 DEF Busy, Only
      <4>1. a \in Sending
        BY DEF Sending
      <4>2. Making(n)
        BY <1>1, <4>1 DEF Stage, AtSlave, Answered, Lost
      <4> QED BY <4>1, <4>2 DEF Making
    <3>3. m \in timers => m = n
      BY <1>1 DEF Stage, Making, AtSlave, Answered, Lost, Timed
    <3>4. m \in at_slave => m = n
      BY <1>1 DEF Stage, Making, AtSlave, Answered, Lost
    <3>5. /\ rx # "idle" /\ app_resp = m => m = n
          /\ timer_task # "idle" /\ expired = m => m = n
      BY <1>1 DEF Stage, Making, AtSlave, Answered, Lost
    <3> QED BY <3>1, <3>2, <3>3, <3>4, <3>5
  <2> QED BY <2>2, <2>3
<1>2. ASSUME NEW n \in Serving
      PROVE  Serving = {n} /\ Stage(n) /\ Only(n) /\ n \in Made
  <2>1. ctrl_req_sem = 0
    BY DEF Serving
  <2>2. PICK m \in Made : Stage(m) /\ Only(m)
    BY <2>1 DEF IInv, Promises, Stages
  <2>3. m = n
    BY <1>1, <2>1, <2>2
  <2> QED BY <1>1, <2>1, <2>2, <2>3
<1> QED BY <1>1, <1>2

(* The request that has it does so until ctrl_req_sem is posted.           *)
LEMMA ServesOneNext ==
  ASSUME IInv', NEW n \in Serving'
  PROVE  Serving' = {n}
<1> SUFFICES ASSUME NEW m \in Serving' PROVE m = n
  OBVIOUS
<1>1. ctrl_req_sem' = 0 /\ n \in Request /\ m \in Request
  BY DEF Serving
<1>2. PICK k \in Made' : Stage(k)' /\ Only(k)'
  BY <1>1 DEF IInv, Promises, Stages
<1>3. \A a \in Apps : Busy(a)' => req'[a] = k
  <2> SUFFICES ASSUME NEW a \in Apps, app'[a] \in {"register", "timer", "send"}
               PROVE  req'[a] = k
    BY <1>2 DEF Busy, Only
  <2>1. a \in Sending'
    BY DEF Sending
  <2>2. Making(k)'
    BY <1>2, <2>1 DEF Stage, AtSlave, Answered, Lost
  <2> QED BY <2>1, <2>2 DEF Making
<1>4. \A j \in Request : j \in timers' => j = k
  BY <1>2 DEF Stage, Making, AtSlave, Answered, Lost, Timed
<1>5. \A j \in Request : j \in at_slave' => j = k
  BY <1>2 DEF Stage, Making, AtSlave, Answered, Lost
<1>6. /\ rx' # "idle" => app_resp' = k
      /\ timer_task' # "idle" => expired' = k
  BY <1>2 DEF Stage, Making, AtSlave, Answered, Lost
<1>7. \A j \in Request : j \in Serving' => j = k
  BY <1>3, <1>4, <1>5, <1>6, ServingDefNext
<1> QED BY <1>1, <1>7

LEMMA Serves ==
  ASSUME IInv, IInv', NEW n \in Serving, n \in Serving'
  PROVE  Serving' = Serving
<1> QED BY ServesOne, ServesOneNext

LEMMA ServingSame ==
  ASSUME UNCHANGED <<ctrl_req_sem, at_slave, timers, rx, app_resp, timer_task, expired>>,
         \A a \in Apps : Busy(a)' <=> Busy(a),
         \A a \in Apps : Busy(a) => req'[a] = req[a]
  PROVE  Serving' = Serving
<1>1. \A n \in Request : n \in Serving' <=> n \in Serving
  BY ServingDef, ServingDefNext
<1> QED BY <1>1 DEF Serving

-----------------------------------------------------------------------------
(* What has been decided.                                                  *)

LEMMA DecidedDef ==
  ASSUME NEW n \in Request
  PROVE  /\ Queued(n) => Decided[n] = <<n>>
         /\ ~Queued(n) /\ Refused(n) => Decided[n] = <<0>>
         /\ ~Queued(n) /\ ~Refused(n) => Decided[n] = outcomes[n]
<1> QED BY DEF Decided

LEMMA DecidedDefNext ==
  ASSUME NEW n \in Request
  PROVE  /\ Queued(n)' => Decided'[n] = <<n>>
         /\ ~Queued(n)' /\ Refused(n)' => Decided'[n] = <<0>>
         /\ ~Queued(n)' /\ ~Refused(n)' => Decided'[n] = outcomes'[n]
<1> QED BY DEF Decided

LEMMA NoneQueued == ASSUME ctrl_msg_Q = <<>>, NEW n PROVE ~Queued(n)
<1> QED BY DEF Queued

LEMMA NoneQueuedNext == ASSUME ctrl_msg_Q' = <<>>, NEW n PROVE ~Queued(n)'
<1> QED BY DEF Queued

LEMMA QueuedFor ==
  ASSUME IInv, NEW n, Queued(n)
  PROVE  /\ ctrl_msg_Q = <<n>>
         /\ \E a \in Apps : /\ app[a] \in {"decode", "wait", "fetch", "advance"} /\ req[a] = n
                            /\ ~IsAsync(n)
<1>1. ctrl_msg_Q # <<>>
  BY NoneQueued
<1>2. PICK a \in Apps : /\ app[a] \in {"decode", "wait", "fetch", "advance"} /\ ~IsAsync(req[a])
                        /\ ctrl_msg_Q = <<req[a]>>
  BY <1>1, Parts DEF QueuedInv
<1>3. n = req[a]
  BY <1>2 DEF Queued
<1> QED BY <1>2, <1>3

(* Neither a thread that has not sent its request nor one that waits has   *)
(* been given anything.                                                    *)
LEMMA OpenCall ==
  ASSUME IInv, NEW a \in Apps, app[a] = "acquire" \/ Waits(a)
  PROVE  /\ req[a] \in Request /\ req[a] \in Made /\ ~Queued(req[a]) /\ ~Refused(req[a])
         /\ Decided[req[a]] = <<>>
<1>1. app[a] # "idle" /\ app[a] # "fail" /\ req[a] \in Request /\ req[a] \in Made
  BY Callers DEF Waits
<1>2. ~Refused(req[a])
  BY <1>1 DEF Refused, IInv, Promises, ThreadInv, Distinct
<1>3. ~Queued(req[a])
  <2>1. CASE app[a] = "acquire"
    BY <1>1, <2>1, QueuedFor DEF IInv, Promises, ThreadInv, Distinct
  <2>2. CASE Waits(a)
    BY <2>2, NoneQueued DEF Waits
  <2> QED BY <2>1, <2>2
<1>4. outcomes[req[a]] = <<>>
  BY DEF IInv, Promises, ThreadInv, ThreadOK, Waits
<1> QED BY <1>1, <1>2, <1>3, <1>4, DecidedDef

(* Nor has the request that is served, before it is answered.              *)
LEMMA OpenServed ==
  ASSUME IInv, NEW n \in Made, Only(n), Unanswered(n)
  PROVE  /\ n \in Request /\ ~Queued(n) /\ ~Refused(n) /\ Decided[n] = <<>>
<1>1. n \in Request
  BY MadeType, Parts
<1>2. ~Refused(n)
  BY DEF Refused, Only
<1>3. ~Queued(n)
  <2>1. CASE IsAsync(n)
    BY <2>1, QueuedFor
  <2>2. CASE ~IsAsync(n)
    BY <2>2, NoneQueued DEF Unanswered, Waits
  <2> QED BY <2>1, <2>2
<1> QED BY <1>1, <1>2, <1>3, DecidedDef DEF Unanswered

LEMMA DecidedSame ==
  ASSUME UNCHANGED <<ctrl_msg_Q, outcomes>>,
         \A a \in Apps : app'[a] = "fail" <=> app[a] = "fail",
         \A a \in Apps : app[a] = "fail" => req'[a] = req[a]
  PROVE  Decided' = Decided
<1>1. \A n \in Request : (Queued(n)' <=> Queued(n)) /\ (Refused(n)' <=> Refused(n))
  BY DEF Queued, Refused
<1> QED BY <1>1 DEF Decided

LEMMA DecidedGives ==
  ASSUME NEW n \in Request, NEW v, Decided'[n] = v,
         \A m \in Request \ {n} : Decided'[m] = Decided[m]
  PROVE  Decided' = [Decided EXCEPT ![n] = v]
<1> DEFINE d == Decided  e == Decided'
<1>1. d = [m \in Request |-> d[m]] /\ e = [m \in Request |-> e[m]]
  BY DEF Decided
<1>2. e[n] = v /\ \A m \in Request \ {n} : e[m] = d[m]
  OBVIOUS
<1> HIDE DEF d, e
<1>3. e = [d EXCEPT ![n] = v]
  BY <1>1, <1>2
<1> QED BY <1>3 DEF d, e

LEMMA DecidedEqual ==
  ASSUME \A n \in Request : Decided'[n] = Decided[n]
  PROVE  Decided' = Decided
<1> DEFINE d == Decided  e == Decided'
<1>1. d = [m \in Request |-> d[m]] /\ e = [m \in Request |-> e[m]]
  BY DEF Decided
<1>2. \A m \in Request : e[m] = d[m]
  OBVIOUS
<1> HIDE DEF d, e
<1>3. e = d
  BY <1>1, <1>2
<1> QED BY <1>3 DEF d, e

-----------------------------------------------------------------------------
(* The steps of the threads, as steps of the server.                       *)

LEMMA ServeInit == Init => Server!Init
<1> SUFFICES ASSUME Init PROVE Server!Init
  OBVIOUS
<1>1. 1..Len(requests) = {} /\ Serving = {} /\ Unanswerable = {}
  BY DEF Init, Serving, Unanswerable
<1>2. \A n \in Request : ~Queued(n) /\ ~Refused(n) /\ outcomes[n] = <<>>
  BY NoneQueued DEF Init, Refused
<1>3. Decided = [n \in Request |-> <<>>]
  BY <1>2 DEF Decided
<1>4. disturbed = FALSE
  BY DEF Init
<1> QED BY <1>1, <1>3, <1>4 DEF Server!Init


LEMMA ServeMake ==
  ASSUME IInv, NEW a \in Apps, MakeRequest(a)
  PROVE  Server!Make(req'[a]) /\ req'[a] \in Request
<1>1. /\ Made' = Made \cup {req'[a]} /\ req'[a] \in Request \ Made
      /\ app[a] = "idle" /\ app'[a] = "acquire"
      /\ \A b \in Apps \ {a} : app'[b] = app[b] /\ req'[b] = req[b]
      /\ \A b \in Apps : app[b] # "idle" => requests'[req[b]] = requests[req[b]]
      /\ UNCHANGED <<ctrl_req_sem, ctrl_msg_Q, timers, expired, timer_task, rx, app_resp,
                     at_slave, settled, outcomes>>
  BY NewRequest
<1>2. \A b \in Apps : Busy(b)' <=> Busy(b)
  BY <1>1 DEF Busy, Waits, IsAsync
<1>3. \A b \in Apps : Busy(b) => req'[b] = req[b]
  BY <1>1 DEF Busy, Waits
<1>4. Serving' = Serving
  BY <1>1, <1>2, <1>3, ServingSame
<1>5. Decided' = Decided
  BY <1>1, DecidedSame
<1>6. Unanswerable' = Unanswerable
  BY <1>1, <1>5 DEF Unanswerable
<1> QED BY <1>1, <1>4, <1>5, <1>6 DEF Server!Make, Made

LEMMA ServeAcquire ==
  ASSUME IInv, IInv', NEW a \in Apps, Acquire(a)
  PROVE  Server!Grant(req[a])
<1>1. /\ app[a] = "acquire" /\ ctrl_req_sem = 1 /\ ctrl_req_sem' = 0
      /\ app' = [app EXCEPT ![a] = "register"]
      /\ UNCHANGED <<req, requests, ctrl_msg_Q, settled, outcomes>>
  BY DEF Acquire, Goto, queueVars
<1>2. app'[a] = "register" /\ \A b \in Apps \ {a} : app'[b] = app[b]
  BY <1>1, Parts
<1>3. req[a] \in Request /\ req[a] \in Made /\ Decided[req[a]] = <<>>
  BY <1>1, OpenCall
<1>4. Serving = {}
  BY <1>1 DEF Serving
<1>5. Serving' = {req[a]}
  <2>1. req[a] \in Serving'
    BY <1>1, <1>2, <1>3, ServingDefNext DEF Busy
  <2> QED BY <2>1, ServesOneNext
<1>6. Decided' = Decided
  BY <1>1, <1>2, DecidedSame
<1>7. Unanswerable' = Unanswerable
  BY <1>1, <1>6 DEF Unanswerable
<1> QED BY <1>1, <1>3, <1>4, <1>5, <1>6, <1>7 DEF Server!Grant, Server!Open, Made

(* A request is refused while another one is served.                       *)
LEMMA ServeRefuse ==
  ASSUME IInv, NEW a \in Apps, RefuseInProgress(a)
  PROVE  Server!Refuse(req[a])
<1> DEFINE n == req[a]
<1>1. /\ app[a] = "acquire" /\ ctrl_req_sem = 0 /\ app' = [app EXCEPT ![a] = "fail"]
      /\ UNCHANGED <<req, requests, ctrl_req_sem, ctrl_msg_Q, timers, expired, timer_task, rx,
                     app_resp, at_slave, settled, outcomes>>
  BY DEF RefuseInProgress, Goto, timerVars, rxVars, queueVars
<1>2. app'[a] = "fail" /\ \A b \in Apps \ {a} : app'[b] = app[b]
  BY <1>1, Parts
<1>3. n \in Request /\ n \in Made /\ Decided[n] = <<>> /\ ~Queued(n)
  BY <1>1, OpenCall
<1>4. Serving # {} /\ n \notin Serving
  <2>1. PICK m \in Made : Stage(m) /\ Only(m)
    BY <1>1, Parts DEF Stages
  <2>2. Serving = {m} /\ n # m
    BY <1>1, <2>1, ServesOne DEF Only
  <2> QED BY <2>2
<1>5. Serving' = Serving
  <2>1. \A b \in Apps : Busy(b)' <=> Busy(b)
    BY <1>1, <1>2 DEF Busy, Waits, IsAsync
  <2> QED BY <1>1, <2>1, ServingSame
<1>6. /\ \A m \in Request : Queued(m)' <=> Queued(m)
      /\ Refused(n)' /\ \A m \in Request \ {n} : Refused(m)' <=> Refused(m)
  BY <1>1, <1>2 DEF Queued, Refused
<1>7. Decided'[n] = <<0>> /\ \A m \in Request \ {n} : Decided'[m] = Decided[m]
  BY <1>1, <1>3, <1>6, DecidedDef, DecidedDefNext
<1>8. Decided' = [Decided EXCEPT ![n] = <<0>>]
  BY <1>3, <1>7, DecidedGives
<1>9. Unanswerable' = Unanswerable
  <2>1. n \notin settled
    BY <1>1, Parts DEF ThreadInv, ThreadOK
  <2> QED BY <1>1, <1>7, <2>1, Parts DEF Unanswerable
<1> QED BY <1>1, <1>3, <1>4, <1>5, <1>8, <1>9
        DEF Server!Refuse, Server!Open, Server!Give, Server!Error, Made

(* Registering the callback, starting the timer and sending change nothing.*)
LEMMA ServeMaker ==
  ASSUME IInv, IInv', ~disturbed', NEW a \in Apps, Register(a) \/ StartTimer(a) \/ Send(a)
  PROVE  Same
<1> DEFINE n == req[a]
<1>0. AppStep(a)
  BY DEF AppStep
<1>1. /\ app[a] \in {"register", "timer", "send"}
      /\ UNCHANGED <<req, requests, ctrl_req_sem, ctrl_msg_Q, settled, outcomes>>
      /\ \E l \in {"timer", "send", "decode"} :
           app' = [app EXCEPT ![a] = l] /\ (l = "decode" => at_slave' = at_slave \cup {n})
  BY <1>0, Undisturbed DEF Register, StartTimer, Send, Goto, queueVars
<1>2. PICK l \in {"timer", "send", "decode"} :
        app' = [app EXCEPT ![a] = l] /\ (l = "decode" => at_slave' = at_slave \cup {n})
  BY <1>1
<1>3. app'[a] = l /\ \A b \in Apps \ {a} : app'[b] = app[b]
  BY <1>2, Parts
<1>4. n \in Request /\ ctrl_req_sem = 0
  BY <1>1, Callers, Maker
<1>5. n \in Serving /\ n \in Serving'
  BY <1>1, <1>2, <1>3, <1>4, ServingDef, ServingDefNext DEF Busy
<1>6. Decided' = Decided
  BY <1>1, <1>3, DecidedSame
<1> QED BY <1>1, <1>5, <1>6, Serves DEF Same, Made, Unanswerable

(* Nor does it when a thread is told what has been decided.                *)
LEMMA ServeFail ==
  ASSUME IInv, ~disturbed', NEW a \in Apps, Fail(a)
  PROVE  Decided' = Decided
<1> DEFINE n == req[a]
<1>1. /\ app[a] = "fail" /\ app' = [app EXCEPT ![a] = "idle"]
      /\ Give(n, 0) /\ UNCHANGED <<req, ctrl_msg_Q>>
  BY Undisturbed DEF Fail, Goto, AppStep, queueVars
<1>2. app'[a] = "idle" /\ \A b \in Apps \ {a} : app'[b] = app[b]
  BY <1>1, Parts
<1>3. n \in Request /\ outcomes[n] = <<>>
  BY <1>1, Callers, Parts DEF ThreadInv, ThreadOK
<1>4. /\ \A b \in Apps \ {a} : app[b] # "idle" => req[b] # n
      /\ ~Refused(n)' /\ Refused(n)
      /\ \A m \in Request \ {n} : Refused(m)' <=> Refused(m)
  BY <1>1, <1>2, Parts DEF Refused, ThreadInv, Distinct
<1>5. outcomes'[n] = <<0>> /\ \A m \in Request \ {n} : outcomes'[m] = outcomes[m]
  <2>1. Append(<<>>, 0) = <<0>>
    OBVIOUS
  <2> QED BY <1>1, <1>3, <2>1, Given
<1>6. ~Queued(n) /\ \A m \in Request : Queued(m)' <=> Queued(m)
  BY <1>1, <1>4, QueuedFor DEF Queued
<1>7. \A m \in Request \ {n} : Decided'[m] = Decided[m]
  BY <1>4, <1>5, <1>6, DecidedDef, DecidedDefNext
<1>8. Decided'[n] = Decided[n]
  BY <1>3, <1>4, <1>5, <1>6, DecidedDef, DecidedDefNext
<1> QED BY <1>7, <1>8, DecidedEqual

LEMMA ServeAdvance ==
  ASSUME IInv, NEW a \in Apps, Advance(a)
  PROVE  Decided' = Decided
<1> DEFINE n == req[a]
<1>1. /\ app[a] = "advance" /\ ctrl_msg_Q = <<n>> /\ outcomes[n] = <<>>
      /\ \/ UNCHANGED <<app, ctrl_msg_Q, outcomes>>
         \/ /\ ctrl_msg_Q' = <<>> /\ Give(n, n)
            /\ app' = [app EXCEPT ![a] = "clear"]
  BY TakesOwn
<1>2. UNCHANGED req /\ n \in Request
  BY <1>1, Callers DEF Advance
<1>3. CASE UNCHANGED <<app, ctrl_msg_Q, outcomes>>
  BY <1>2, <1>3, DecidedSame
<1>4. CASE /\ ctrl_msg_Q' = <<>> /\ Give(n, n)
           /\ app' = [app EXCEPT ![a] = "clear"]
  <2>1. app'[a] = "clear" /\ \A b \in Apps \ {a} : app'[b] = app[b]
    BY <1>4, Parts
  <2>2. outcomes'[n] = <<n>> /\ \A m \in Request \ {n} : outcomes'[m] = outcomes[m]
    <3>1. Append(<<>>, n) = <<n>>
      OBVIOUS
    <3> QED BY <1>1, <1>2, <1>4, <3>1, Given
  <2>3. \A m \in Request : Refused(m)' <=> Refused(m)
    BY <1>1, <1>2, <2>1 DEF Refused
  <2>4. ~Refused(n)
    BY <1>1, Parts DEF Refused, ThreadInv, Distinct
  <2>5. Queued(n) /\ \A m \in Request \ {n} : ~Queued(m)
    BY <1>1 DEF Queued
  <2>6. \A m \in Request : ~Queued(m)'
    BY <1>4, NoneQueuedNext
  <2>7. \A m \in Request \ {n} : Decided'[m] = Decided[m]
    BY <2>2, <2>3, <2>5, <2>6, DecidedDef, DecidedDefNext
  <2>8. Decided'[n] = Decided[n]
    <3>1. Decided[n] = <<n>>
      BY <1>2, <2>5, DecidedDef
    <3>2. Decided'[n] = outcomes'[n]
      BY <1>2, <2>3, <2>4, <2>6, DecidedDefNext
    <3> QED BY <2>2, <3>1, <3>2
  <2> QED BY <2>7, <2>8, DecidedEqual
<1> QED BY <1>1, <1>3, <1>4

LEMMA ServeQuiet ==
  ASSUME IInv, ~disturbed', NEW a \in Apps, Quiet(a), ~RefuseInProgress(a)
  PROVE  Same
<1>1. /\ UNCHANGED <<req, requests, ctrl_req_sem, timers, expired, timer_task, rx, app_resp,
                     at_slave, settled>>
      /\ Advance(a) \/ ctrl_msg_Q' = ctrl_msg_Q
      /\ app'[a] \in {"fail", "idle", "wait", "fetch", "advance", "clear"}
      /\ app'[a] = "fail" => app[a] = "acquire"
      /\ app[a] \in {"acquire", "fail", "decode", "wait", "fetch", "advance", "clear"}
      /\ \A b \in Apps \ {a} : app'[b] = app[b]
      /\ \A b \in Apps : Waits(b)' <=> Waits(b)
      /\ AppStep(a)
  BY QuietMoves
<1>2. \A b \in Apps : Busy(b)' <=> Busy(b)
  BY <1>1 DEF Busy
<1>3. Serving' = Serving
  BY <1>1, <1>2, ServingSame
<1>4. Decided' = Decided
  <2>1. CASE Fail(a) \/ Advance(a)
    BY <2>1, ServeFail, ServeAdvance
  <2>2. CASE ~Fail(a) /\ ~Advance(a)
    <3>1. Decode(a) \/ WaitResponse(a) \/ FetchResponse(a) \/ ClearRear(a)
      BY <2>2 DEF Quiet
    <3>2. app[a] \in {"decode", "wait", "fetch", "clear"}
      BY <3>1 DEF Decode, WaitResponse, FetchResponse, ClearRear
    <3>3. outcomes' = outcomes
      <4>1. ~TimeOutSync(a)
        <5>1. ~(TimeOutSync(a) /\ Quiet(a))
          BY Parts DEF Quiet, RefuseInProgress, Fail, Decode, WaitResponse, FetchResponse, Advance,
             ClearRear, TimeOutSync, Goto
        <5> QED BY <5>1
      <4> QED BY <1>1, <2>2, <4>1, GivesOwn
    <3>4. \A b \in Apps : app'[b] = "fail" <=> app[b] = "fail"
      BY <1>1, <3>2
    <3> QED BY <1>1, <2>2, <3>3, <3>4, DecidedSame
  <2> QED BY <2>1, <2>2
<1> QED BY <1>1, <1>3, <1>4 DEF Same, Made, Unanswerable

(* A caller gives up a request that is lost.                               *)
LEMMA ServeTimeOut ==
  ASSUME IInv, ~disturbed', NEW a \in Apps, TimeOutSync(a)
  PROVE  Server!GiveUp(req[a])
<1> DEFINE n == req[a]
<1>1. /\ app[a] = "wait" /\ Waits(a) /\ n \in settled /\ outcomes[n] = <<>>
      /\ ctrl_msg_Q = <<>> /\ ctrl_req_sem = 0
  BY TimesOutLost DEF Waits, Lost, Unanswered
<1>2. /\ app' = [app EXCEPT ![a] = "idle"] /\ ctrl_req_sem' = 1 /\ Give(n, 0)
      /\ UNCHANGED <<req, requests, ctrl_msg_Q, settled>>
  BY DEF TimeOutSync, Goto, queueVars
<1>3. app'[a] = "idle" /\ \A b \in Apps \ {a} : app'[b] = app[b]
  BY <1>2, Parts
<1>4. n \in Request /\ n \in Made /\ Decided[n] = <<>> /\ ~Refused(n)
  BY <1>1, OpenCall
<1>5. n \in Serving /\ Serving' = {}
  BY <1>1, <1>2, <1>4, ServingDef DEF Busy, Serving
<1>6. \A m \in Request : /\ ~Queued(m) /\ ~Queued(m)'
                         /\ Refused(m)' <=> Refused(m)
  BY <1>1, <1>2, <1>3 DEF Queued, Refused
<1>7. outcomes'[n] = <<0>> /\ \A m \in Request \ {n} : outcomes'[m] = outcomes[m]
  <2>1. Append(<<>>, 0) = <<0>>
    OBVIOUS
  <2> QED BY <1>1, <1>2, <1>4, <2>1, Given
<1>8. Decided'[n] = <<0>> /\ \A m \in Request \ {n} : Decided'[m] = Decided[m]
  BY <1>4, <1>6, <1>7, DecidedDef, DecidedDefNext
<1>9. Decided' = [Decided EXCEPT ![n] = <<0>>]
  BY <1>4, <1>8, DecidedGives
<1>10. <<0>> # <<n>> /\ <<>> # <<n>>
  BY <1>4 DEF Request
<1>11. Unanswerable' = Unanswerable /\ n \in Unanswerable
  BY <1>1, <1>2, <1>4, <1>8, <1>10, Parts DEF Unanswerable
<1> QED BY <1>2, <1>4, <1>5, <1>9, <1>11
        DEF Server!GiveUp, Server!Open, Server!Give, Server!Error, Made

-----------------------------------------------------------------------------
(* The steps of the slave, of ctrl_rx_thread and of the timer task.        *)

(* The request that is served is lost: by the slave, by the link, or for   *)
(* lack of memory when the response comes.                                 *)
LEMMA ServeLost ==
  ASSUME IInv, IInv', NEW n \in Made, Only(n), Unanswered(n), n \in Serving, n \in Serving',
         settled' = settled \cup {n},
         UNCHANGED <<app, req, requests, ctrl_msg_Q, outcomes>>
  PROVE  Server!Lose(n)
<1>1. Decided[n] = <<>>
  BY OpenServed
<1>2. Decided' = Decided
  BY DecidedSame
<1>3. Unanswerable' = Unanswerable \cup {n}
  <2>1. <<>> # <<n>>
    OBVIOUS
  <2> QED BY <1>1, <1>2, <2>1 DEF Unanswerable
<1> QED BY <1>1, <1>2, <1>3, Serves DEF Server!Lose, Server!Open, Made

LEMMA ServeLose ==
  ASSUME IInv, IInv', NEW n \in Request, LoseRequest(n)
  PROVE  Server!Lose(n)
<1>1. n \in Made /\ AtSlave(n) /\ Only(n) /\ ctrl_req_sem = 0
  BY Parts DEF LoseRequest, Stages, Free, Stage, Making, AtSlave, Answered, Lost
<1>2. /\ settled' = settled \cup {n}
      /\ UNCHANGED <<app, req, requests, ctrl_req_sem, ctrl_msg_Q, timers, outcomes>>
  BY DEF LoseRequest, appVars, timerVars, queueVars
<1>3. n \in Serving /\ n \in Serving'
  <2>1. n \in timers \/ \E a \in Apps : req[a] = n /\ Waits(a)
    BY <1>1 DEF AtSlave, Timed, Unanswered
  <2>2. n \in timers' \/ \E a \in Apps : req'[a] = n /\ Waits(a)'
    BY <1>2, <2>1 DEF Waits, IsAsync
  <2> QED BY <1>1, <1>2, <2>1, <2>2, ServingDef, ServingDefNext DEF Busy
<1> QED BY <1>1, <1>2, <1>3, ServeLost DEF AtSlave

(* A response that comes is processed, or dropped for lack of memory.      *)
LEMMA ServeReceive ==
  ASSUME IInv, IInv', NEW n \in Request, Receive(n)
  PROVE  Same \/ Server!Lose(n)
<1>1. n \in Made /\ AtSlave(n) /\ Only(n) /\ ctrl_req_sem = 0
  BY Parts DEF Receive, Stages, Free, Stage, Making, AtSlave, Answered, Lost
<1>2. UNCHANGED <<app, req, requests, ctrl_req_sem, ctrl_msg_Q, timers, outcomes>>
  BY DEF Receive, appVars, timerVars, queueVars
<1>3. n \in Serving /\ n \in Serving'
  <2>1. n \in timers \/ \E a \in Apps : req[a] = n /\ Waits(a)
    BY <1>1 DEF AtSlave, Timed, Unanswered
  <2>2. n \in timers' \/ \E a \in Apps : req'[a] = n /\ Waits(a)'
    BY <1>2, <2>1 DEF Waits, IsAsync
  <2> QED BY <1>1, <1>2, <2>1, <2>2, ServingDef, ServingDefNext DEF Busy
<1>4. CASE settled' = settled
  BY <1>2, <1>3, <1>4, DecidedSame, Serves DEF Same, Made, Unanswerable
<1>5. CASE settled' = settled \cup {n}
  BY <1>1, <1>2, <1>3, <1>5, ServeLost DEF AtSlave
<1> QED BY <1>4, <1>5 DEF Receive

(* Between the slave and the decision, and between the loss and the        *)
(* timeout, nothing changes.                                               *)
LEMMA ServeOn ==
  ASSUME IInv, IInv', ~disturbed',
         \/ \E n \in Request : Expire(n)
         \/ StopTimer \/ Indicate \/ CallTimedOut
  PROVE  Same
<1>1. UNCHANGED <<app, req, requests, ctrl_req_sem, ctrl_msg_Q, settled, outcomes>>
  BY DEF Expire, StopTimer, Indicate, CallTimedOut, appVars, queueVars
<1>2. Decided' = Decided
  BY <1>1, DecidedSame
<1>3. \E n \in Request : n \in Serving /\ n \in Serving'
  <2>1. ASSUME NEW n \in Request, Expire(n) PROVE n \in Serving /\ n \in Serving'
    <3>1. n \in timers /\ timer_task' = "call" /\ expired' = n
      BY <2>1 DEF Expire
    <3>2. ctrl_req_sem = 0
      BY <3>1, Parts DEF Stages, Free
    <3> QED BY <1>1, <3>1, <3>2, ServingDef, ServingDefNext
  <2>2. ASSUME StopTimer \/ Indicate PROVE app_resp \in Serving /\ app_resp \in Serving'
    <3>1. rx # "idle" /\ rx' # "idle" /\ app_resp' = app_resp
      BY <2>2 DEF StopTimer, Indicate
    <3>2. ctrl_req_sem = 0 /\ app_resp \in Request
      BY <3>1, AtReceiver
    <3> QED BY <1>1, <3>1, <3>2, ServingDef, ServingDefNext
  <2>3. ASSUME CallTimedOut PROVE expired \in Serving /\ expired \in Serving'
    <3>1. timer_task = "call" /\ timer_task' = "fault" /\ expired' = expired
      BY <2>3 DEF CallTimedOut, Disturb
    <3>2. ctrl_req_sem = 0
      BY <3>1, Parts DEF Stages, Free
    <3>3. expired \in Request
      BY <3>1, MadeType, Parts DEF TypeInv
    <3> QED BY <1>1, <3>1, <3>2, <3>3, ServingDef, ServingDefNext
  <2>4. Serving \subseteq Request
    BY DEF Serving
  <2> QED BY <2>1, <2>2, <2>3, <2>4
<1>4. Serving' = Serving
  BY <1>3, Serves
<1> QED BY <1>1, <1>2, <1>4 DEF Same, Made, Unanswerable

(* The response decides its request: a callback is called with it, or it   *)
(* is put in the list.                                                     *)
LEMMA ServeAnswer ==
  ASSUME IInv, IInv', NEW n, n = app_resp, (Deliver /\ IsAsync(n)) \/ PutFirst \/ PutLink
  PROVE  Server!Answer(n) /\ Decided'[n] = <<n>>
<1>1. /\ n \in Made /\ n \in Request /\ Answered(n) /\ Only(n) /\ ctrl_req_sem = 0
      /\ rx \in {"deliver", "first"}
  BY AtReceiver DEF Deliver, PutFirst, PutLink, Answered
<1>2. /\ UNCHANGED <<app, req, requests, ctrl_req_sem, app_resp, settled>>
      /\ rx' # "idle"
  BY <1>1, Delivers DEF Deliver, PutFirst, PutLink, appVars
<1>3. Unanswered(n) /\ n \notin settled
  BY <1>1 DEF Answered
<1>4. Decided[n] = <<>> /\ ~Queued(n) /\ ~Refused(n)
  BY <1>1, <1>3, OpenServed
<1>5. n \in Serving /\ n \in Serving'
  BY <1>1, <1>2, ServingDef, ServingDefNext
<1>6. \A m \in Request : Refused(m)' <=> Refused(m)
  BY <1>2 DEF Refused
<1>7. Decided'[n] = <<n>> /\ \A m \in Request \ {n} : Decided'[m] = Decided[m]
  <2>1. CASE Deliver /\ IsAsync(n)
    <3>1. Give(n, n) /\ ctrl_msg_Q' = ctrl_msg_Q
      BY <2>1, Delivers DEF Deliver
    <3>2. outcomes'[n] = <<n>> /\ \A m \in Request \ {n} : outcomes'[m] = outcomes[m]
      <4>1. Append(<<>>, n) = <<n>>
        OBVIOUS
      <4> QED BY <1>1, <1>3, <3>1, <4>1, Given DEF Unanswered
    <3>3. \A m \in Request : Queued(m)' <=> Queued(m)
      BY <3>1 DEF Queued
    <3>4. Decided'[n] = <<n>>
      BY <1>1, <1>4, <1>6, <3>2, <3>3, DecidedDefNext
    <3>5. \A m \in Request \ {n} : Decided'[m] = Decided[m]
      BY <1>6, <3>2, <3>3, DecidedDef, DecidedDefNext
    <3> QED BY <3>4, <3>5
  <2>2. CASE PutFirst \/ PutLink
    <3>1. rx = "first" /\ ~IsAsync(n) /\ ctrl_msg_Q = <<>>
      BY <1>1, <1>3, <2>2 DEF PutFirst, PutLink, Answered, Unanswered, Waits
    <3>2. ctrl_msg_Q' = <<n>> /\ outcomes' = outcomes
      BY <2>2, <3>1 DEF PutFirst, PutLink
    <3>3. /\ Queued(n)' /\ \A m \in Request \ {n} : ~Queued(m)'
          /\ \A m \in Request : ~Queued(m)
      BY <3>1, <3>2 DEF Queued
    <3>4. Decided'[n] = <<n>>
      BY <1>1, <3>3, DecidedDefNext
    <3>5. \A m \in Request \ {n} : Decided'[m] = Decided[m]
      BY <1>6, <3>2, <3>3, DecidedDef, DecidedDefNext
    <3> QED BY <3>4, <3>5
  <2> QED BY <2>1, <2>2
<1>8. Decided' = [Decided EXCEPT ![n] = <<n>>]
  BY <1>1, <1>7, DecidedGives
<1>9. Unanswerable' = Unanswerable /\ n \notin Unanswerable
  BY <1>2, <1>3, <1>7, Parts DEF Unanswerable
<1> QED BY <1>1, <1>2, <1>4, <1>5, <1>7, <1>8, <1>9, Serves
        DEF Server!Answer, Server!Open, Server!Give, Made

(* A synchronous one is about to be put in the list, or dropped.           *)
LEMMA ServeDeliver ==
  ASSUME IInv, IInv', NEW n, n = app_resp, Deliver, ~IsAsync(n)
  PROVE  Same \/ Server!Lose(n)
<1>1. /\ n \in Made /\ n \in Request /\ Answered(n) /\ Only(n) /\ ctrl_req_sem = 0
      /\ rx = "deliver" /\ Unanswered(n)
  BY AtReceiver DEF Deliver, Answered
<1>2. UNCHANGED <<app, req, requests, ctrl_req_sem, ctrl_msg_Q, outcomes>>
  BY Delivers DEF Deliver, appVars
<1>3. n \in Serving /\ n \in Serving'
  <2>1. PICK a \in Apps : req[a] = n /\ Waits(a)
    BY <1>1 DEF Unanswered
  <2>2. req'[a] = n /\ Busy(a)' /\ Busy(a)
    BY <1>2, <2>1 DEF Busy, Waits, IsAsync
  <2> QED BY <1>1, <1>2, <2>1, <2>2, ServingDef, ServingDefNext
<1>4. CASE settled' = settled
  BY <1>2, <1>3, <1>4, DecidedSame, Serves DEF Same, Made, Unanswerable
<1>5. CASE settled' = settled \cup {n}
  BY <1>1, <1>2, <1>3, <1>5, ServeLost
<1> QED BY <1>4, <1>5, Delivers

LEMMA ServePost ==
  ASSUME IInv, Settles, PostAfterResponse
  PROVE  Server!Release(app_resp)
<1>1. /\ app_resp \in Request /\ ctrl_req_sem = 0 /\ rx = "post"
      /\ Decided[app_resp] = <<app_resp>>
  BY AtReceiver DEF PostAfterResponse, Settles
<1>2. /\ ctrl_req_sem' = 1 /\ settled' = settled \cup {app_resp}
      /\ UNCHANGED <<app, req, requests, ctrl_msg_Q, outcomes>>
  BY DEF PostAfterResponse, PostRequestSemaphore, appVars, queueVars
<1>3. app_resp \in Serving /\ Serving' = {}
  BY <1>1, <1>2, ServingDef DEF Serving
<1>4. Decided' = Decided
  BY <1>2, DecidedSame
<1>5. Unanswerable' = Unanswerable
  BY <1>1, <1>2, <1>4 DEF Unanswerable
<1>6. <<app_resp>> # <<>>
  OBVIOUS
<1> QED BY <1>1, <1>2, <1>3, <1>4, <1>5, <1>6 DEF Server!Release

-----------------------------------------------------------------------------
(* Every step is a step of the server, or none of its business.            *)

LEMMA ServeStep ==
  ASSUME IInv, IInv', Settles, ~disturbed', [Next]_vars
  PROVE  Same \/ \E n \in Request : Server!Serve(n)
<1>1. ASSUME NEW a \in Apps, MakeRequest(a) PROVE \E n \in Request : Server!Serve(n)
  BY <1>1, ServeMake DEF Server!Serve
<1>2. ASSUME NEW a \in Apps, AppStep(a) PROVE Same \/ \E n \in Request : Server!Serve(n)
  <2>1. req[a] \in Request
    BY <1>2, AppMoves
  <2>2. CASE Acquire(a)
    BY <2>1, <2>2, ServeAcquire DEF Server!Serve
  <2>3. CASE RefuseInProgress(a)
    BY <2>1, <2>3, ServeRefuse DEF Server!Serve
  <2>4. CASE Register(a) \/ StartTimer(a) \/ Send(a)
    BY <2>4, ServeMaker
  <2>5. CASE Quiet(a) /\ ~RefuseInProgress(a)
    BY <2>5, ServeQuiet
  <2>6. CASE TimeOutSync(a)
    BY <2>1, <2>6, ServeTimeOut DEF Server!Serve
  <2> QED BY <1>2, <2>2, <2>3, <2>4, <2>5, <2>6, Undisturbed DEF AppStep, Quiet
<1>3. ASSUME NEW n \in Request, LoseRequest(n) \/ Receive(n) \/ Expire(n)
      PROVE  Same \/ \E m \in Request : Server!Serve(m)
  BY <1>3, ServeLose, ServeReceive, ServeOn DEF Server!Serve
<1>4. ASSUME RxStep PROVE Same \/ \E n \in Request : Server!Serve(n)
  <2>1. rx # "idle"
    BY <1>4 DEF RxStep, StopTimer, Deliver, PutFirst, PutLink, Indicate, PostAfterResponse
  <2>2. PICK n \in Request : n = app_resp
    BY <2>1, AtReceiver
  <2>3. CASE StopTimer \/ Indicate
    BY <2>3, ServeOn
  <2>4. CASE Deliver
    BY <2>2, <2>4, ServeAnswer, ServeDeliver DEF Server!Serve
  <2>5. CASE PutFirst \/ PutLink
    BY <2>2, <2>5, ServeAnswer DEF Server!Serve
  <2>6. CASE PostAfterResponse
    BY <2>2, <2>6, ServePost DEF Server!Serve
  <2> QED BY <1>4, <2>3, <2>4, <2>5, <2>6 DEF RxStep
<1>5. ASSUME CallTimedOut PROVE Same
  BY <1>5, ServeOn
<1>6. ASSUME UNCHANGED vars PROVE Same
  <2>1. UNCHANGED <<app, req, requests, ctrl_req_sem, ctrl_msg_Q, timers, expired, timer_task,
                    rx, app_resp, at_slave, settled, outcomes>>
    BY <1>6 DEF vars, appVars, queueVars, timerVars, rxVars
  <2>2. Serving' = Serving
    BY <2>1, ServingSame DEF Busy, Waits, IsAsync
  <2>3. Decided' = Decided
    BY <2>1, DecidedSame
  <2> QED BY <2>1, <2>2, <2>3 DEF Same, Made, Unanswerable
<1> QED BY <1>1, <1>2, <1>3, <1>4, <1>5, <1>6 DEF Next, Step, Quiescent

(* What is decided stays decided.                                          *)
LEMMA StaysDecided ==
  ASSUME Same \/ \E m \in Request : Server!Serve(m), NEW n \in Request, Decided[n] # <<>>
  PROVE  Decided'[n] = Decided[n]
<1> DEFINE d == Decided  e == Decided'
<1>1. \/ e = d
      \/ \E m \in Request : d[m] = <<>> /\ \E v : e = [d EXCEPT ![m] = v]
  BY DEF Same, Server!Serve, Server!Make, Server!Grant, Server!Refuse, Server!Lose,
     Server!Answer, Server!GiveUp, Server!Release, Server!Open, Server!Give
<1>2. d = [m \in Request |-> d[m]] /\ d[n] # <<>>
  BY DEF Decided
<1> HIDE DEF d, e
<1>3. e[n] = d[n]
  BY <1>1, <1>2
<1> QED BY <1>3 DEF d, e

LEMMA SettlesStep ==
  ASSUME IInv, IInv', Settles, ~disturbed', [Next]_vars
  PROVE  Settles'
<1> SUFFICES ASSUME rx' = "post" PROVE Decided'[app_resp'] = <<app_resp'>>
  BY DEF Settles
<1>1. (rx = "post" \/ Deliver \/ Indicate) /\ app_resp' = app_resp
  <2>1. ASSUME NEW a \in Apps, MakeRequest(a) \/ AppStep(a)
        PROVE  UNCHANGED rxVars
    BY <2>1 DEF MakeRequest, AppStep, Acquire, RefuseInProgress, Reject, Register, StartTimer,
       Send, Fail, Decode, WaitResponse, TimeOutSync, FetchResponse, Advance, ClearRear
  <2>2. ASSUME NEW n \in Request, LoseRequest(n) \/ Receive(n) \/ Expire(n)
        PROVE  UNCHANGED rxVars
    BY <2>2 DEF LoseRequest, Receive, Expire, rxVars
  <2>3. ASSUME RxStep PROVE (Deliver \/ Indicate) /\ app_resp' = app_resp
    BY <2>3 DEF RxStep, StopTimer, Deliver, PutFirst, PutLink, Indicate, PostAfterResponse
  <2>4. CallTimedOut \/ UNCHANGED vars => UNCHANGED rxVars
    BY DEF CallTimedOut, vars
  <2> QED BY <2>1, <2>2, <2>3, <2>4 DEF Next, Step, Quiescent, rxVars
<1>2. rx # "idle"
  BY <1>1 DEF Deliver, Indicate
<1>3. PICK n \in Request : n = app_resp /\ Answered(n)
  BY <1>2, AtReceiver
<1>4. n = app_resp' /\ <<n>> # <<>>
  BY <1>1, <1>3
<1>5. CASE Deliver
  <2>1. IsAsync(n)
    BY <1>3, <1>5, Delivers
  <2> QED BY <1>3, <1>4, <1>5, <2>1, ServeAnswer
<1>6. CASE rx = "post"
  BY <1>3, <1>4, <1>6, ServeStep, StaysDecided DEF Settles
<1>7. CASE Indicate
  <2>1. ctrl_msg_Q = <<n>>
    BY <1>3, <1>7 DEF Indicate, Answered
  <2>2. Queued(n)
    BY <2>1 DEF Queued
  <2>3. Decided[n] = <<n>>
    BY <2>2, DecidedDef
  <2> QED BY <1>4, <2>3, ServeStep, StaysDecided
<1> QED BY <1>1, <1>5, <1>6, <1>7

ServerInv == Promised /\ (~disturbed => Settles)

LEMMA ServerStep ==
  ASSUME ServerInv, [Next]_vars
  PROVE  ServerInv' /\ [Server!Next]_(Server!vars)
<1>1. Promised' /\ disturbed' \in BOOLEAN /\ disturbed \in BOOLEAN
  <2>1. Promised /\ Promised'
    BY InvStep DEF ServerInv
  <2> QED BY <2>1 DEF Promised, QueueInv, TypeInv, TypeOK
<1>2. CASE disturbed'
  BY <1>1, <1>2 DEF ServerInv, Server!Next
<1>3. CASE ~disturbed'
  <2>1. ~disturbed
    BY <1>3, StaysDisturbed DEF ServerInv, Promised
  <2>2. IInv /\ IInv' /\ Settles
    BY <1>1, <1>3, <2>1 DEF ServerInv, Promised
  <2>3. Settles'
    BY <1>3, <2>2, SettlesStep
  <2>4. UNCHANGED disturbed
    BY <1>1, <1>3, <2>1
  <2>5. Same \/ \E n \in Request : Server!Serve(n)
    BY <1>3, <2>2, ServeStep
  <2>6. Same => UNCHANGED Server!vars
    BY <2>4 DEF Same, Made, Server!vars
  <2> QED BY <1>1, <2>3, <2>4, <2>5, <2>6 DEF ServerInv, Server!Next
<1> QED BY <1>2, <1>3

(* Until it is disturbed, the library implements RequestServer: it serves  *)
(* one request at a time, whatever is lost and however much fails before   *)
(* ctrl_req_sem is taken.                                                  *)
THEOREM LibraryIsServer == Spec => ImplementsServer
<1>1. Init => Server!Init /\ ServerInv
  BY ServeInit, InvInit DEF ServerInv, Settles, Init
<1>2. ServerInv /\ [Next]_vars => ServerInv' /\ [Server!Next]_(Server!vars)
  BY ServerStep
<1>3. Spec => []ServerInv
  BY <1>1, <1>2, PTL DEF Spec
<1> QED BY <1>1, <1>2, <1>3, PTL DEF Spec, ImplementsServer, Server!Spec

(* What a server of one request at a time is good for.                     *)

CallersInv ==
  /\ disturbed \in BOOLEAN
  /\ ~disturbed =>
       /\ Decided = [n \in Request |-> Decided[n]]
       /\ Serving \subseteq Request
       /\ Server!OneServed /\ Server!OwnOutcome

LEMMA CallersStep ==
  ASSUME CallersInv, [Server!Next]_(Server!vars)
  PROVE  /\ CallersInv'
         /\ ~disturbed' =>
              /\ \A n \in Request : Decided[n] # <<>> => Decided'[n] = Decided[n]
              /\ \A n \in Serving : n \notin Serving' => Decided'[n] # <<>>
<1>1. CASE disturbed' = TRUE
  BY <1>1 DEF CallersInv
<1>2. CASE disturbed' # TRUE
  <2>0. disturbed' = disturbed /\ ~disturbed /\ ~disturbed'
    BY <1>2 DEF CallersInv, Server!Next, Server!vars
  <2> DEFINE d == Decided  e == Decided'  v == Serving  w == Serving'
  <2>1. /\ d = [n \in Request |-> d[n]] /\ v \subseteq Request
        /\ \A m, n \in v : m = n
        /\ \A n \in Request : d[n] \in {<<>>, <<0>>, <<n>>}
    BY <2>0 DEF CallersInv, Server!OneServed, Server!OwnOutcome, Server!Error
  <2>2. \/ e = d /\ w = v
        \/ \E n \in Request :
             \/ e = d /\ v = {} /\ w = {n}
             \/ /\ d[n] = <<>> /\ w = v
                /\ e = [d EXCEPT ![n] = <<0>>] \/ e = [d EXCEPT ![n] = <<n>>]
             \/ /\ d[n] = <<>> /\ n \in v /\ w = {}
                /\ e = [d EXCEPT ![n] = <<0>>]
             \/ e = d /\ n \in v /\ d[n] # <<>> /\ w = {}
    BY <2>0 DEF Server!Next, Server!vars, Server!Serve, Server!Make, Server!Grant, Server!Refuse,
       Server!Lose, Server!Answer, Server!GiveUp, Server!Release, Server!Open, Server!Give,
       Server!Error
  <2> HIDE DEF d, e, v, w
  <2>3. \A n \in Request : d[n] # <<>> => e[n] = d[n]
    BY <2>1, <2>2
  <2>4. \A n \in v : n \notin w => e[n] # <<>>
    <3> SUFFICES ASSUME NEW n \in v, n \notin w PROVE e[n] # <<>>
      OBVIOUS
    <3>1. PICK m \in Request :
             \/ /\ d[m] = <<>> /\ m \in v /\ e = [d EXCEPT ![m] = <<0>>]
             \/ e = d /\ m \in v /\ d[m] # <<>>
      BY <2>2
    <3>2. m = n
      BY <2>1, <3>1
    <3> QED BY <2>1, <3>1, <3>2
  <2>5. /\ e = [n \in Request |-> e[n]]
        /\ \A n \in Request : e[n] \in {<<>>, <<0>>, <<n>>}
    BY <2>1, <2>2
  <2>6. w \subseteq Request /\ \A m, n \in w : m = n
    BY <2>1, <2>2
  <2>7. CallersInv'
    BY <2>0, <2>5, <2>6 DEF d, e, v, w, CallersInv, Server!OneServed, Server!OwnOutcome, Server!Error
  <2> QED BY <2>3, <2>4, <2>7 DEF d, e, v, w
<1> QED BY <1>1, <1>2

(* Until it is disturbed, the library serves one request at a time and     *)
(* gives each an error or its own response; neither a second response nor  *)
(* a time limit that passes changes what a request was given, and          *)
(* ctrl_req_sem is not posted while the request it was taken for is        *)
(* without an outcome.                                                     *)
THEOREM CallersCanRely ==
  Spec => [](Server!OneServed /\ Server!OwnOutcome) /\ Server!Decisive
<1>1. Server!Init => CallersInv
  BY DEF Server!Init, CallersInv, Server!OneServed, Server!OwnOutcome, Server!Error
<1>2. CallersInv /\ [Server!Next]_(Server!vars) => CallersInv'
  BY CallersStep
<1>3. CallersInv /\ [Server!Next]_(Server!vars) =>
        [~disturbed' =>
           /\ \A n \in Request : Decided[n] # <<>> => Decided'[n] = Decided[n]
           /\ \A n \in Serving : n \notin Serving' => Decided'[n] # <<>>]_(Server!vars)
  BY CallersStep
<1>4. CallersInv => Server!OneServed /\ Server!OwnOutcome
  BY DEF CallersInv, Server!OneServed, Server!OwnOutcome
<1> QED
  BY <1>1, <1>2, <1>3, <1>4, LibraryIsServer, PTL
  DEF ImplementsServer, Server!Spec, Server!Decisive
=============================================================================
