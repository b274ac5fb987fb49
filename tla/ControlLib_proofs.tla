-------------------------- MODULE ControlLib_proofs --------------------------
(***************************************************************************)
(* Proofs about the control library, for any finite number of application  *)
(* threads, any ids and uses, any number of requests, and every fault.     *)
(***************************************************************************)
EXTENDS ControlLib, SequenceTheorems, FiniteSetTheorems, TLAPS

USE BoundAssumption

Made == 1..Len(requests)

(* The type invariant is not inductive alone: the requests that a thread   *)
(* makes, that the slave has, that ctrl_rx_thread and the timer task work  *)
(* on, have been made.                                                     *)
TypeInv ==
  /\ TypeOK
  /\ at_slave \subseteq Made /\ timers \subseteq Made
  /\ \A a \in Apps : app[a] # "idle" => req[a] \in Made
  /\ rx # "idle" => app_resp \in Made
  /\ timer_task # "idle" => expired \in Made

LEMMA MadeType ==
  ASSUME TypeInv
  PROVE  /\ Len(requests) \in Nat /\ Made \subseteq Request
         /\ \A n \in Made : requests[n] \in Kind /\ requests[n].id \in Ids
<1>1. requests \in Seq(Kind) /\ Len(requests) <= MaxReq
  BY DEF TypeInv, TypeOK
<1>2. Len(requests) \in Nat
  BY <1>1, LenProperties
<1>3. \A n \in Made : requests[n] \in Kind
  BY <1>1, ElementOfSeq DEF Made
<1> QED BY <1>1, <1>2, <1>3 DEF Made, Request, Kind

(* An outcome is a request's number, or 0.                                 *)
LEMMA GiveType ==
  ASSUME TypeInv, NEW n \in Request, NEW v \in 0..MaxReq, Give(n, v)
  PROVE  outcomes' \in [Request -> Seq(0..MaxReq)]
<1>1. outcomes \in [Request -> Seq(0..MaxReq)]
  BY DEF TypeInv, TypeOK
<1>2. outcomes[n] \in Seq(0..MaxReq)
  BY <1>1
<1>3. Append(outcomes[n], v) \in Seq(0..MaxReq)
  BY <1>2, AppendProperties
<1>4. outcomes' = [outcomes EXCEPT ![n] = Append(outcomes[n], v)]
  BY DEF Give
<1> QED BY <1>1, <1>3, <1>4

LEMMA TypeInit == Init => TypeInv
<1> SUFFICES ASSUME Init PROVE TypeInv
  OBVIOUS
<1>1. <<>> \in Seq(Kind) /\ <<>> \in Seq(Request) /\ <<>> \in Seq(0..MaxReq) /\ Len(<<>>) = 0
  OBVIOUS
<1>2. outcomes \in [Request -> Seq(0..MaxReq)]
  BY <1>1 DEF Init
<1>3. requests \in Seq(Kind) /\ Len(requests) <= MaxReq /\ ctrl_msg_Q \in Seq(Request)
  BY <1>1 DEF Init
<1>4. taken \in [Apps -> Seq(Request)] /\ \A a \in Apps : app[a] = "idle"
  BY <1>1 DEF Init
<1>5. /\ app \in [Apps -> {"idle"}] /\ req \in [Apps -> {0}]
      /\ ctrl_resp_cb_table \in [Ids -> {0}]
  BY DEF Init
<1>6. TypeOK
  <2>1. \A a \in Apps : app[a] = "advance" => taken[a] # <<>>
    BY <1>4
  <2>2. /\ 0 \in 0..MaxReq
        /\ app \in [Apps -> {"idle", "acquire", "register", "timer", "send", "fail",
                             "decode", "wait", "fetch", "advance", "clear"}]
        /\ req \in [Apps -> 0..MaxReq] /\ ctrl_resp_cb_table \in [Ids -> 0..MaxReq]
    BY <1>5
  <2>3. /\ ctrl_req_sem \in {0, 1} /\ read_sem \in {0, 1} /\ rear = 0 /\ freed = {}
        /\ undefined = FALSE /\ async_timer_handle = 0 /\ timers = {} /\ expired = 0
        /\ timer_task = "idle" /\ rx = "idle" /\ app_resp = 0 /\ at_slave = {} /\ settled = {}
        /\ overlapped = FALSE /\ disturbed = FALSE
    BY DEF Init
  <2> QED BY <1>2, <1>3, <1>4, <2>1, <2>2, <2>3 DEF TypeOK
<1> QED BY <1>4, <1>6 DEF Init, TypeInv

-----------------------------------------------------------------------------
(* The steps of an application thread.                                     *)

LEMMA TypeMake ==
  ASSUME TypeInv, NEW a \in Apps, MakeRequest(a)
  PROVE  TypeInv'
<1>1. PICK k \in Uses[a] : requests' = Append(requests, k)
  BY DEF MakeRequest
<1>2. k \in Kind
  BY UsesAssumption
<1>3. /\ requests' \in Seq(Kind) /\ Len(requests') = Len(requests) + 1
      /\ Len(requests) \in Nat /\ Len(requests) < MaxReq
  <2>1. requests \in Seq(Kind) /\ Len(requests) < MaxReq
    BY DEF TypeInv, TypeOK, MakeRequest
  <2> QED BY <1>1, <1>2, <2>1, AppendProperties, LenProperties
<1>4. Made \subseteq Made' /\ Len(requests) + 1 \in Made' /\ Len(requests) + 1 \in 0..MaxReq
  BY <1>3 DEF Made
<1>5. /\ UNCHANGED <<ctrl_req_sem, read_sem, ctrl_msg_Q, rear, taken, freed, undefined, overlapped,
                    ctrl_resp_cb_table, async_timer_handle, timers, expired, timer_task, rx,
                    app_resp, at_slave, settled, outcomes, disturbed>>
      /\ app' = [app EXCEPT ![a] = "acquire"] /\ req' = [req EXCEPT ![a] = Len(requests) + 1]
  BY DEF MakeRequest, Goto, queueVars, timerVars, rxVars
<1>6. TypeOK'
  BY <1>3, <1>4, <1>5 DEF TypeInv, TypeOK
<1>7. \A b \in Apps : app'[b] # "idle" => req'[b] \in Made'
  BY <1>4, <1>5 DEF TypeInv, TypeOK
<1> QED BY <1>4, <1>5, <1>6, <1>7 DEF TypeInv

(* A step that takes a thread to another place.                            *)
LEMMA TypeMove ==
  ASSUME TypeInv, NEW a \in Apps, AppStep(a)
  PROVE  /\ app' \in [Apps -> {"idle", "acquire", "register", "timer", "send", "fail",
                               "decode", "wait", "fetch", "advance", "clear"}]
         /\ UNCHANGED <<req, requests, expired, timer_task, rx, app_resp>>
         /\ app[a] # "idle" /\ \A b \in Apps : app'[b] # "idle" => app[b] # "idle"
<1>1. app \in [Apps -> {"idle", "acquire", "register", "timer", "send", "fail",
                        "decode", "wait", "fetch", "advance", "clear"}]
  BY DEF TypeInv, TypeOK
<1>2. /\ UNCHANGED <<req, requests, expired, timer_task, rx, app_resp>>
      /\ app[a] # "idle"
      /\ \E l \in {"idle", "register", "timer", "send", "fail", "decode", "wait", "fetch",
               "advance", "clear"} :
           app' = [app EXCEPT ![a] = l] \/ app' = app
  BY DEF AppStep, Acquire, RefuseInProgress, Reject, Register, StartTimer, Send, Fail, Decode,
         WaitResponse, TimeOutSync, FetchResponse, Advance, ClearRear, Goto, timerVars, rxVars,
         appVars
<1> QED BY <1>1, <1>2

(* The two halves of esp_queue_get.                                        *)
LEMMA TypeFetch ==
  ASSUME TypeInv, NEW a \in Apps, FetchResponse(a)
  PROVE  /\ ctrl_msg_Q' \in Seq(Request) /\ rear' \in 0..MaxReq /\ taken' \in [Apps -> Seq(Request)]
         /\ \A b \in Apps : app'[b] = "advance" => taken'[b] # <<>>
         /\ freed' \subseteq Request /\ undefined' \in BOOLEAN /\ overlapped' \in BOOLEAN
         /\ \/ outcomes' = outcomes
            \/ \E v \in 0..MaxReq : Give(req[a], v)
<1>1. /\ ctrl_msg_Q \in Seq(Request) /\ taken \in [Apps -> Seq(Request)] /\ rear \in 0..MaxReq
      /\ \A b \in Apps : app[b] = "advance" => taken[b] # <<>>
      /\ app = [b \in Apps |-> app[b]] /\ freed \subseteq Request
      /\ undefined \in BOOLEAN /\ overlapped \in BOOLEAN
  BY DEF TypeInv, TypeOK
<1>2. UNCHANGED <<ctrl_msg_Q, rear, freed, undefined>>
  BY DEF FetchResponse
<1>3. CASE ctrl_msg_Q = <<>>
  <2>1. Give(req[a], 0) /\ UNCHANGED <<taken, overlapped>> /\ app' = [app EXCEPT ![a] = "idle"]
    BY <1>3 DEF FetchResponse, Goto
  <2> QED BY <1>1, <1>2, <2>1, BoundAssumption
<1>4. CASE ctrl_msg_Q # <<>>
  <2>1. /\ taken' = [taken EXCEPT ![a] = ctrl_msg_Q] /\ app' = [app EXCEPT ![a] = "advance"]
        /\ overlapped' \in BOOLEAN /\ outcomes' = outcomes
    BY <1>1, <1>4 DEF FetchResponse, Goto
  <2>2. taken' \in [Apps -> Seq(Request)]
    BY <1>1, <2>1
  <2>3. \A b \in Apps : app'[b] = "advance" => taken'[b] # <<>>
    BY <1>1, <1>4, <2>1
  <2> QED BY <1>1, <1>2, <2>1, <2>2, <2>3
<1> QED BY <1>3, <1>4

LEMMA TypeFrontAfter ==
  ASSUME TypeInv, NEW q \in Seq(Request), q # <<>>
  PROVE  FrontAfter(q) \in Seq(Request) /\ Head(q) \in Request
<1>1. ctrl_msg_Q \in Seq(Request)
  BY DEF TypeInv, TypeOK
<1>2. ctrl_msg_Q # <<>> => Tail(ctrl_msg_Q) \in Seq(Request)
  BY <1>1, HeadTailProperties
<1>3. Tail(q) \in Seq(Request) /\ Head(q) \in Request /\ <<>> \in Seq(Request)
  BY HeadTailProperties
<1> QED BY <1>2, <1>3 DEF FrontAfter

LEMMA TypeAdvance ==
  ASSUME TypeInv, NEW a \in Apps, Advance(a)
  PROVE  /\ ctrl_msg_Q' \in Seq(Request) /\ rear' \in 0..MaxReq /\ taken' \in [Apps -> Seq(Request)]
         /\ \A b \in Apps : app'[b] = "advance" => taken'[b] # <<>>
         /\ freed' \subseteq Request /\ undefined' \in BOOLEAN /\ overlapped' \in BOOLEAN
         /\ \/ outcomes' = outcomes
            \/ \E v \in 0..MaxReq : Give(req[a], v)
<1> DEFINE q == taken[a]
<1>1. /\ ctrl_msg_Q \in Seq(Request) /\ taken \in [Apps -> Seq(Request)] /\ rear \in 0..MaxReq
      /\ \A b \in Apps : app[b] = "advance" => taken[b] # <<>>
      /\ app = [b \in Apps |-> app[b]] /\ freed \subseteq Request
      /\ undefined \in BOOLEAN /\ overlapped \in BOOLEAN /\ app[a] = "advance"
  BY DEF TypeInv, TypeOK, Advance
<1>2. UNCHANGED <<rear, overlapped>>
  BY DEF Advance
<1>3. q \in Seq(Request) /\ q # <<>>
  BY <1>1
<1>4. FrontAfter(q) \in Seq(Request) /\ Head(q) \in Request /\ <<>> \in Seq(Request)
  BY <1>3, TypeFrontAfter
<1>5. CASE Head(q) \in freed
  <2>1. undefined' = TRUE /\ UNCHANGED <<app, ctrl_msg_Q, taken, freed, outcomes>>
    BY <1>5 DEF Advance
  <2> QED BY <1>1, <1>2, <2>1
<1>6. CASE Head(q) \notin freed
  <2>1. /\ ctrl_msg_Q' = FrontAfter(q) /\ freed' = freed \cup {Head(q)} /\ Give(req[a], Head(q))
        /\ taken' = [taken EXCEPT ![a] = <<>>] /\ undefined' = undefined
        /\ \E l \in {"clear", "idle"} : app' = [app EXCEPT ![a] = l]
    BY <1>6 DEF Advance, Goto
  <2>2. taken' \in [Apps -> Seq(Request)]
    BY <1>1, <1>4, <2>1
  <2>3. \A b \in Apps : app'[b] = "advance" => taken'[b] # <<>>
    BY <1>1, <2>1
  <2>4. Head(q) \in 0..MaxReq
    BY <1>4 DEF Request
  <2> QED BY <1>1, <1>2, <1>4, <2>1, <2>2, <2>3, <2>4
<1> QED BY <1>5, <1>6

LEMMA TypeApp ==
  ASSUME TypeInv, NEW a \in Apps, AppStep(a)
  PROVE  TypeInv'
<1>1. req[a] \in Made /\ req[a] \in Request
  BY TypeMove, MadeType DEF TypeInv
<1>2. requests[req[a]].id \in Ids
  BY <1>1, MadeType
<1>3. ctrl_req_sem' \in {0, 1} /\ read_sem' \in {0, 1}
  BY DEF AppStep, Acquire, RefuseInProgress, Reject, Register, StartTimer, Send, Fail, Decode,
         WaitResponse, TimeOutSync, FetchResponse, Advance, ClearRear, TypeInv, TypeOK
<1>4. ctrl_resp_cb_table' \in [Ids -> 0..MaxReq]
  <2>1. ctrl_resp_cb_table \in [Ids -> 0..MaxReq]
    BY DEF TypeInv, TypeOK
  <2>2. CASE Register(a)
    BY <1>1, <1>2, <2>1, <2>2 DEF Register, set_async_resp_callback, Request
  <2>3. CASE ~Register(a)
    BY <2>1, <2>3 DEF AppStep, Acquire, RefuseInProgress, Reject, StartTimer, Send, Fail,
           Decode, WaitResponse, TimeOutSync, FetchResponse, Advance, ClearRear
  <2> QED BY <2>2, <2>3
<1>5. async_timer_handle' \in 0..MaxReq /\ timers' \subseteq Made
  <2>1. async_timer_handle \in 0..MaxReq /\ timers \subseteq Made
    BY DEF TypeInv, TypeOK
  <2>2. CASE StartTimer(a)
    <3>1. \/ async_timer_handle' = req[a] /\ timers' = timers \cup {req[a]}
          \/ async_timer_handle' = 0 /\ timers' = timers
      BY <2>2 DEF StartTimer, hosted_timer_start
    <3> QED BY <1>1, <2>1, <3>1 DEF Request
  <2>3. CASE ~StartTimer(a)
    BY <2>1, <2>3 DEF AppStep, Acquire, RefuseInProgress, Reject, Register, Send, Fail,
           Decode, WaitResponse, TimeOutSync, FetchResponse, Advance, ClearRear, timerVars
  <2> QED BY <2>2, <2>3
<1>6. at_slave' \subseteq Made /\ settled' \subseteq Request
  <2>1. at_slave \subseteq Made /\ settled \subseteq Request
    BY DEF TypeInv, TypeOK
  <2>2. CASE Send(a)
    BY <1>1, <2>1, <2>2 DEF Send
  <2>3. CASE ~Send(a)
    BY <2>1, <2>3 DEF AppStep, Acquire, RefuseInProgress, Reject, Register, StartTimer, Fail,
           Decode, WaitResponse, TimeOutSync, FetchResponse, Advance, ClearRear
  <2> QED BY <2>2, <2>3
<1>7. /\ ctrl_msg_Q' \in Seq(Request) /\ rear' \in 0..MaxReq /\ taken' \in [Apps -> Seq(Request)]
      /\ \A b \in Apps : app'[b] = "advance" => taken'[b] # <<>>
      /\ freed' \subseteq Request /\ undefined' \in BOOLEAN /\ overlapped' \in BOOLEAN
      /\ \/ outcomes' = outcomes
         \/ \E v \in 0..MaxReq : Give(req[a], v)
  <2>1. CASE Advance(a)
    BY <2>1, TypeAdvance
  <2>2. CASE FetchResponse(a)
    BY <2>2, TypeFetch
  <2>3. CASE ~Advance(a) /\ ~FetchResponse(a)
    <3>1. /\ UNCHANGED <<ctrl_msg_Q, taken, freed, undefined, overlapped>>
          /\ rear' = rear \/ rear' = 0
          /\ outcomes' = outcomes \/ Give(req[a], 0)
      BY <2>3 DEF AppStep, Acquire, RefuseInProgress, Reject, Register, StartTimer, Send, Fail,
             Decode, WaitResponse, TimeOutSync, ClearRear, queueVars
    <3>2. \A b \in Apps : app'[b] = "advance" => app[b] = "advance"
      BY <2>3 DEF AppStep, Acquire, RefuseInProgress, Reject, Register, StartTimer, Send, Fail,
             Decode, WaitResponse, TimeOutSync, ClearRear, Goto, TypeInv, TypeOK
    <3> QED BY <3>1, <3>2, BoundAssumption DEF TypeInv, TypeOK
  <2> QED BY <2>1, <2>2, <2>3
<1>8. outcomes' \in [Request -> Seq(0..MaxReq)]
  BY <1>1, <1>7, GiveType DEF TypeInv, TypeOK
<1>9. Made' = Made /\ Made \subseteq Request
  BY TypeMove, MadeType DEF Made
<1>11. disturbed' \in BOOLEAN
  BY DEF AppStep, Acquire, RefuseInProgress, Reject, Register, StartTimer, Send, Fail, Decode,
         WaitResponse, TimeOutSync, FetchResponse, Advance, ClearRear, Disturb, TypeInv, TypeOK
<1>10. TypeOK'
  BY <1>3, <1>4, <1>5, <1>6, <1>7, <1>8, <1>9, <1>11, TypeMove DEF TypeInv, TypeOK
<1> QED BY <1>5, <1>6, <1>9, <1>10, TypeMove DEF TypeInv

-----------------------------------------------------------------------------
(* The steps of the slave, of ctrl_rx_thread and of the timer task.        *)

LEMMA TypeOther ==
  ASSUME TypeInv,
         \/ \E n \in Request : LoseRequest(n) \/ Receive(n) \/ Expire(n)
         \/ RxStep \/ CallTimedOut
  PROVE  TypeInv'
<1>1. UNCHANGED <<app, req, requests, ctrl_resp_cb_table>> /\ Made' = Made /\ Made \subseteq Request
  BY MadeType DEF LoseRequest, Receive, Expire, RxStep, StopTimer, Deliver, PutFirst, PutLink, Indicate,
     PostAfterResponse, CallTimedOut, appVars, Made
<1>0. Made \subseteq 0..MaxReq
  BY <1>1 DEF Request
<1>2. ctrl_req_sem' \in {0, 1} /\ read_sem' \in {0, 1}
  BY DEF LoseRequest, Receive, Expire, RxStep, StopTimer, Deliver, PutFirst, PutLink, Indicate, ctrl_rx_ind,
     PostAfterResponse, PostRequestSemaphore, CallTimedOut,
     TypeInv, TypeOK
<1>3. at_slave' \subseteq Made /\ timers' \subseteq Made /\ async_timer_handle' \in 0..MaxReq
  <2>1. at_slave \subseteq Made /\ timers \subseteq Made /\ async_timer_handle \in 0..MaxReq
    BY DEF TypeInv, TypeOK
  <2>2. at_slave' \subseteq at_slave
    BY DEF LoseRequest, Receive, Expire, RxStep, StopTimer, Deliver, PutFirst, PutLink, Indicate,
       PostAfterResponse, CallTimedOut
  <2>3. timers' \subseteq timers /\ async_timer_handle' \in {async_timer_handle, 0}
    BY DEF LoseRequest, Receive, Expire, RxStep, StopTimer, hosted_timer_stop, Deliver, PutFirst,
       PutLink, Indicate, PostAfterResponse, CallTimedOut, timerVars
  <2> QED BY <2>1, <2>2, <2>3
<1>4. /\ rx' \in {"idle", "stop", "deliver", "first", "link", "indicate", "post"}
      /\ rx' # "idle" => app_resp' \in Made
      /\ app_resp' \in 0..MaxReq
  <2>1. at_slave \subseteq Made /\ (rx # "idle" => app_resp \in Made) /\ app_resp \in 0..MaxReq
        /\ rx \in {"idle", "stop", "deliver", "first", "link", "indicate", "post"}
    BY DEF TypeInv, TypeOK
  <2>2. \/ UNCHANGED <<rx, app_resp>>
        \/ rx' = "stop" /\ app_resp' \in at_slave
        \/ rx' = "idle" /\ app_resp' = 0
        \/ rx # "idle" /\ app_resp' = app_resp /\ rx' \in {"idle", "deliver", "first", "link", "indicate", "post"}
    BY DEF LoseRequest, Receive, Expire, RxStep, StopTimer, Deliver, PutFirst, PutLink, Indicate,
       PostAfterResponse, CallTimedOut, rxVars
  <2>3. rx' # "idle" => app_resp' \in Made
    BY <2>1, <2>2
  <2>4. app_resp' \in 0..MaxReq
    <3>1. app_resp' = app_resp \/ app_resp' = 0 \/ app_resp' \in Made
      BY <2>1, <2>2
    <3>2. app_resp \in 0..MaxReq /\ 0 \in 0..MaxReq
      BY <2>1
    <3> QED BY <1>0, <3>1, <3>2
  <2> QED BY <2>1, <2>2, <2>3, <2>4
<1>5. /\ timer_task' \in {"idle", "call", "fault"}
      /\ timer_task' # "idle" => expired' \in Made
      /\ expired' \in 0..MaxReq
  <2>1. timers \subseteq Made /\ (timer_task # "idle" => expired \in Made) /\ expired \in 0..MaxReq
        /\ timer_task \in {"idle", "call", "fault"}
    BY DEF TypeInv, TypeOK
  <2>2. \/ UNCHANGED <<timer_task, expired>>
        \/ timer_task' = "call" /\ expired' \in timers
        \/ timer_task' = "idle" /\ expired' = 0
        \/ timer_task # "idle" /\ expired' = expired /\ timer_task' \in {"idle", "fault"}
    BY DEF LoseRequest, Receive, Expire, RxStep, StopTimer, Deliver, PutFirst, PutLink, Indicate,
       PostAfterResponse, CallTimedOut, timerVars
  <2>3. timer_task' # "idle" => expired' \in Made
    BY <2>1, <2>2
  <2>4. expired' \in 0..MaxReq
    <3>1. expired' = expired \/ expired' = 0 \/ expired' \in Made
      BY <2>1, <2>2
    <3>2. expired \in 0..MaxReq /\ 0 \in 0..MaxReq
      BY <2>1
    <3> QED BY <1>0, <3>1, <3>2
  <2> QED BY <2>1, <2>2, <2>3, <2>4
<1>6. settled' \subseteq Request
  <2>1. settled \subseteq Request /\ (rx # "idle" => app_resp \in Request)
    BY <1>1 DEF TypeInv, TypeOK
  <2>2. \/ UNCHANGED settled
        \/ \E n \in Request : settled' = settled \cup {n}
        \/ rx # "idle" /\ settled' = settled \cup {app_resp}
    BY DEF LoseRequest, Receive, Expire, RxStep, StopTimer, Deliver, PutFirst, PutLink, Indicate,
       PostAfterResponse, CallTimedOut
  <2> QED BY <2>1, <2>2
<1>7. /\ ctrl_msg_Q' \in Seq(Request) /\ rear' \in 0..MaxReq /\ UNCHANGED <<taken, freed>>
      /\ undefined' \in BOOLEAN /\ overlapped' \in BOOLEAN /\ disturbed' \in BOOLEAN
  <2>1. /\ ctrl_msg_Q \in Seq(Request) /\ (rx # "idle" => app_resp \in Request)
        /\ rear \in 0..MaxReq /\ undefined \in BOOLEAN /\ overlapped \in BOOLEAN
        /\ disturbed \in BOOLEAN
    BY <1>1 DEF TypeInv, TypeOK
  <2>2. /\ \/ ctrl_msg_Q' = ctrl_msg_Q
           \/ rx # "idle" /\ ctrl_msg_Q' = Append(ctrl_msg_Q, app_resp)
           \/ rx # "idle" /\ ctrl_msg_Q' = <<app_resp>>
        /\ rear' = rear \/ (rx # "idle" /\ rear' = app_resp)
    BY DEF LoseRequest, Receive, Expire, RxStep, StopTimer, Deliver, PutFirst, PutLink, Indicate,
       PostAfterResponse, CallTimedOut, queueVars
  <2>3. /\ UNCHANGED <<taken, freed>>
        /\ undefined' \in {undefined, TRUE} /\ overlapped' \in BOOLEAN /\ disturbed' \in BOOLEAN
    BY <2>1 DEF LoseRequest, Receive, Expire, RxStep, StopTimer, Deliver, PutFirst, PutLink, Indicate,
       PostAfterResponse, CallTimedOut, Disturb, queueVars
  <2>4. rx # "idle" => Append(ctrl_msg_Q, app_resp) \in Seq(Request) /\ app_resp \in 0..MaxReq
                       /\ <<app_resp>> \in Seq(Request)
    BY <1>0, <1>1, <2>1, AppendProperties DEF TypeInv, TypeOK
  <2> QED BY <2>1, <2>2, <2>3, <2>4
<1>8. outcomes' \in [Request -> Seq(0..MaxReq)]
  <2>1. \/ UNCHANGED outcomes
        \/ rx # "idle" /\ Callback # 0 /\ Give(Callback, app_resp)
    BY DEF LoseRequest, Receive, Expire, RxStep, StopTimer, Deliver, PutFirst, PutLink, Indicate,
       PostAfterResponse, CallTimedOut
  <2>2. rx # "idle" => app_resp \in Made /\ app_resp \in 0..MaxReq
    BY <1>0, <1>1 DEF TypeInv
  <2>3. rx # "idle" /\ Callback # 0 => Callback \in Request
    <3>1. rx # "idle" => requests[app_resp].id \in Ids
      BY <2>2, MadeType
    <3>2. ctrl_resp_cb_table \in [Ids -> 0..MaxReq]
      BY DEF TypeInv, TypeOK
    <3> QED BY <3>1, <3>2 DEF Callback, Request
  <2>5. outcomes \in [Request -> Seq(0..MaxReq)]
    BY DEF TypeInv, TypeOK
  <2>6. CASE rx # "idle" /\ Callback # 0 /\ Give(Callback, app_resp)
    BY <2>2, <2>3, <2>6, GiveType
  <2> QED BY <2>1, <2>5, <2>6
<1>9. TypeOK'
  BY <1>1, <1>2, <1>3, <1>4, <1>5, <1>6, <1>7, <1>8 DEF TypeInv, TypeOK
<1> QED BY <1>1, <1>3, <1>4, <1>5, <1>9 DEF TypeInv

LEMMA TypeStep == TypeInv /\ [Next]_vars => TypeInv'
<1> SUFFICES ASSUME TypeInv, [Next]_vars
             PROVE  TypeInv'
  OBVIOUS
<1>1. CASE UNCHANGED vars \/ Quiescent
  <2>1. UNCHANGED vars
    BY <1>1 DEF Quiescent
  <2>2. Made' = Made
    BY <2>1 DEF vars, appVars, Made
  <2>3. TypeOK'
    BY <2>1 DEF vars, appVars, queueVars, timerVars, rxVars, TypeInv, TypeOK
  <2> QED BY <2>1, <2>2, <2>3 DEF vars, appVars, timerVars, rxVars, TypeInv
<1> QED BY <1>1, TypeMake, TypeApp, TypeOther DEF Next, Step

LEMMA Typed == Spec => []TypeInv
<1> QED BY TypeInit, TypeStep, PTL DEF Spec

(* Both semaphores stay binary, and every number handled is a request's.   *)
THEOREM TypeCorrect == Spec => []TypeOK
<1>1. TypeInv => TypeOK
  BY DEF TypeInv
<1> QED BY <1>1, Typed, PTL

-----------------------------------------------------------------------------
(* read_sem, ctrl_msg_Q and esp_queue.  As long as no two threads have     *)
(* been in the list at a time, rear is its last node, between the steps of *)
(* esp_queue_put and esp_queue_get too.                                    *)

LastOf(q) == IF q = <<>> THEN 0 ELSE q[Len(q)]

ListShape ==
  /\ Putting => \A a \in Apps : ~Getting(a)
  /\ \A a, b \in Apps : Getting(a) /\ Getting(b) => a = b
  /\ \A a \in Apps : app[a] = "advance" => taken[a] = ctrl_msg_Q
  /\ \A a \in Apps : app[a] = "clear" => ctrl_msg_Q = <<>>
  /\ (\A a \in Apps : app[a] # "clear") => rear = LastOf(ctrl_msg_Q)
  /\ rx = "first" => ctrl_msg_Q = <<>>
  /\ rx = "link" => ctrl_msg_Q # <<>>

ListInv == ~overlapped => ListShape

(* The threads past read_sem that have not taken their response yet, a     *)
(* post that nobody has taken and the one about to come are together at    *)
(* most the responses queued: what makes FetchFindsResponse inductive, for *)
(* a thread takes the response that another post may stand for.            *)
Fetchers == {a \in Apps : app[a] \in {"fetch", "advance"}}

FetchesDue == Cardinality(Fetchers) + read_sem + (IF rx = "indicate" THEN 1 ELSE 0)

Backed == ~overlapped => FetchesDue <= Len(ctrl_msg_Q)

QueueInv == TypeInv /\ ListInv /\ Backed

LEMMA FetchersType ==
  ASSUME TypeInv
  PROVE  /\ IsFiniteSet(Fetchers) /\ Cardinality(Fetchers) \in Nat
         /\ read_sem \in {0, 1} /\ ctrl_msg_Q \in Seq(Request) /\ Len(ctrl_msg_Q) \in Nat
<1>1. IsFiniteSet(Fetchers)
  BY AppsAssumption, FS_Subset DEF Fetchers
<1>2. read_sem \in {0, 1} /\ ctrl_msg_Q \in Seq(Request)
  BY DEF TypeInv, TypeOK
<1> QED BY <1>1, <1>2, FS_CardinalityType, LenProperties

(* A list that is used by one thread at a time is cut at its front.        *)
LEMMA FrontIsCut ==
  ASSUME TypeInv, ListShape, NEW a \in Apps, app[a] = "advance"
  PROVE  /\ taken[a] = ctrl_msg_Q /\ ctrl_msg_Q # <<>> /\ ctrl_msg_Q \in Seq(Request)
         /\ FrontAfter(taken[a]) = Tail(ctrl_msg_Q)
         /\ Len(Tail(ctrl_msg_Q)) = Len(ctrl_msg_Q) - 1
         /\ Len(ctrl_msg_Q) = 1 => Tail(ctrl_msg_Q) = <<>>
         /\ Len(ctrl_msg_Q) # 1 => LastOf(Tail(ctrl_msg_Q)) = LastOf(ctrl_msg_Q)
<1>1. taken[a] = ctrl_msg_Q /\ ctrl_msg_Q \in Seq(Request) /\ ctrl_msg_Q # <<>>
  BY DEF TypeInv, TypeOK, ListShape
<1>2. /\ Tail(ctrl_msg_Q) \in Seq(Request) /\ Len(Tail(ctrl_msg_Q)) = Len(ctrl_msg_Q) - 1
      /\ \A i \in 1..Len(ctrl_msg_Q) - 1 : Tail(ctrl_msg_Q)[i] = ctrl_msg_Q[i + 1]
      /\ Len(ctrl_msg_Q) \in Nat /\ Len(ctrl_msg_Q) > 0
  <2>1. Len(ctrl_msg_Q) \in Nat /\ Len(ctrl_msg_Q) # 0
    BY <1>1, LenProperties, EmptySeq
  <2>2. /\ Tail(ctrl_msg_Q) \in Seq(Request) /\ Len(Tail(ctrl_msg_Q)) = Len(ctrl_msg_Q) - 1
        /\ \A i \in 1..Len(Tail(ctrl_msg_Q)) : Tail(ctrl_msg_Q)[i] = ctrl_msg_Q[i + 1]
    BY <1>1, HeadTailProperties
  <2> QED BY <2>1, <2>2
<1>3. Len(ctrl_msg_Q) = 1 => Tail(ctrl_msg_Q) = <<>>
  <2>1. Tail(ctrl_msg_Q) # <<>> => Len(Tail(ctrl_msg_Q)) # 0
    BY <1>2, EmptySeq
  <2> QED BY <1>2, <2>1
<1>4. Len(ctrl_msg_Q) # 1 => LastOf(Tail(ctrl_msg_Q)) = LastOf(ctrl_msg_Q)
  <2> SUFFICES ASSUME Len(ctrl_msg_Q) # 1
               PROVE  LastOf(Tail(ctrl_msg_Q)) = LastOf(ctrl_msg_Q)
    OBVIOUS
  <2>1. Len(Tail(ctrl_msg_Q)) # 0
    BY <1>2
  <2>2. Tail(ctrl_msg_Q) # <<>>
    BY <2>1, EmptySeq
  <2>3. Tail(ctrl_msg_Q)[Len(ctrl_msg_Q) - 1] = ctrl_msg_Q[Len(ctrl_msg_Q)]
    BY <1>2, <2>1
  <2> QED BY <1>1, <1>2, <2>2, <2>3 DEF LastOf
<1> QED BY <1>1, <1>2, <1>3, <1>4 DEF FrontAfter

(* A step of a thread that is not in the list and does not enter it.       *)
LEMMA ListAside ==
  ASSUME TypeInv, ListInv, NEW a \in Apps, ~Getting(a),
         UNCHANGED <<ctrl_msg_Q, rear, taken, overlapped, rx>>,
         NEW l \in {"idle", "acquire", "register", "timer", "send", "fail", "decode", "wait", "fetch"},
         app' = [app EXCEPT ![a] = l]
  PROVE  ListInv'
<1> SUFFICES ASSUME ~overlapped
             PROVE  ListShape'
  BY DEF ListInv
<1>1. ListShape
  BY DEF ListInv
<1>2. \A b \in Apps : /\ app'[b] = "advance" <=> app[b] = "advance"
                      /\ app'[b] = "clear" <=> app[b] = "clear"
  BY DEF TypeInv, TypeOK, Getting
<1> QED BY <1>1, <1>2 DEF ListShape, Getting, Putting, LastOf

LEMMA QueueFetch ==
  ASSUME QueueInv, NEW a \in Apps, FetchResponse(a)
  PROVE  ListInv' /\ Backed'
<1> SUFFICES ASSUME ~overlapped'
             PROVE  ListShape' /\ FetchesDue' <= Len(ctrl_msg_Q')
  BY DEF ListInv, Backed
<1>1. /\ app = [b \in Apps |-> app[b]] /\ app[a] = "fetch" /\ TypeInv /\ overlapped \in BOOLEAN
      /\ taken = [b \in Apps |-> taken[b]]
      /\ UNCHANGED <<rx, read_sem, ctrl_msg_Q, rear>>
  BY DEF QueueInv, TypeInv, TypeOK, FetchResponse, rxVars
<1>2. ~overlapped
  BY <1>1 DEF FetchResponse
<1>3. ListShape /\ FetchesDue <= Len(ctrl_msg_Q)
  BY <1>2 DEF QueueInv, ListInv, Backed
<1>4. a \in Fetchers /\ Cardinality(Fetchers) # 0
  <2>1. a \in Fetchers
    BY <1>1 DEF Fetchers
  <2> QED BY <1>1, <2>1, FetchersType, FS_EmptySet
<1>5. ctrl_msg_Q # <<>>
  <2>1. Len(ctrl_msg_Q) # 0
    BY <1>1, <1>3, <1>4, FetchersType DEF FetchesDue
  <2> QED BY <2>1
<1>6. /\ taken' = [taken EXCEPT ![a] = ctrl_msg_Q] /\ app' = [app EXCEPT ![a] = "advance"]
      /\ ~Putting /\ \A b \in Apps : ~Getting(b)
  BY <1>5 DEF FetchResponse, Goto
<1>7. Fetchers' = Fetchers
  BY <1>1, <1>6 DEF Fetchers
<1>8. ListShape'
  <2>1. \A b \in Apps : /\ app'[b] = "advance" => b = a
                        /\ app'[b] # "clear" /\ app[b] # "clear"
                        /\ Getting(b)' => b = a
    BY <1>1, <1>6 DEF Getting
  <2>2. ~Putting'
    BY <1>1, <1>6 DEF Putting
  <2>3. taken'[a] = ctrl_msg_Q'
    BY <1>1, <1>6
  <2> QED BY <1>1, <1>3, <2>1, <2>2, <2>3 DEF ListShape, LastOf, Putting
<1> QED BY <1>1, <1>3, <1>7, <1>8 DEF FetchesDue

LEMMA QueueAdvance ==
  ASSUME QueueInv, NEW a \in Apps, Advance(a)
  PROVE  ListInv' /\ Backed'
<1> SUFFICES ASSUME ~overlapped
             PROVE  ListShape' /\ FetchesDue' <= Len(ctrl_msg_Q')
  BY DEF ListInv, Backed, Advance
<1>1. /\ app = [b \in Apps |-> app[b]] /\ app[a] = "advance" /\ TypeInv
      /\ taken = [b \in Apps |-> taken[b]]
      /\ UNCHANGED <<rx, read_sem, rear>>
      /\ ListShape /\ FetchesDue <= Len(ctrl_msg_Q)
  BY DEF QueueInv, ListInv, Backed, TypeInv, TypeOK, Advance, rxVars
<1>2. CASE Head(taken[a]) \in freed
  <2>1. UNCHANGED <<app, ctrl_msg_Q, taken>>
    BY <1>2 DEF Advance
  <2> QED BY <1>1, <2>1 DEF ListShape, LastOf, Getting, Putting, FetchesDue, Fetchers
<1>3. CASE Head(taken[a]) \notin freed
  <2>1. /\ ctrl_msg_Q' = FrontAfter(taken[a]) /\ taken' = [taken EXCEPT ![a] = <<>>]
        /\ app' = [app EXCEPT ![a] = IF Len(taken[a]) = 1 THEN "clear" ELSE "idle"]
    BY <1>3 DEF Advance, Goto
  <2>2. /\ taken[a] = ctrl_msg_Q /\ ctrl_msg_Q' = Tail(ctrl_msg_Q)
        /\ Len(ctrl_msg_Q') = Len(ctrl_msg_Q) - 1
        /\ Len(ctrl_msg_Q) = 1 => ctrl_msg_Q' = <<>>
        /\ Len(ctrl_msg_Q) # 1 => LastOf(ctrl_msg_Q') = LastOf(ctrl_msg_Q)
    BY <1>1, <2>1, FrontIsCut
  <2>3. Cardinality(Fetchers') = Cardinality(Fetchers) - 1
    <3>1. Fetchers' = Fetchers \ {a} /\ a \in Fetchers
      BY <1>1, <2>1 DEF Fetchers
    <3> QED BY <1>1, <3>1, FetchersType, FS_RemoveElement
  <2>4. FetchesDue' <= Len(ctrl_msg_Q')
    BY <1>1, <2>2, <2>3, FetchersType DEF FetchesDue
  <2>5. Getting(a) /\ \A b \in Apps : Getting(b) => b = a
    BY <1>1 DEF ListShape, Getting
  <2>6. ~Putting' /\ rx' \notin {"first", "link"}
    BY <1>1, <2>5 DEF ListShape, Putting
  <2>7. \A b \in Apps : /\ app'[b] # "advance"
                        /\ app'[b] = "clear" => b = a
                        /\ Getting(b)' => b = a
    BY <1>1, <2>1, <2>5 DEF Getting
  <2>8. CASE Len(ctrl_msg_Q) = 1
    <3>1. app'[a] = "clear" /\ ctrl_msg_Q' = <<>>
      BY <1>1, <2>1, <2>2, <2>8
    <3> QED BY <2>4, <2>6, <2>7, <3>1 DEF ListShape
  <2>9. CASE Len(ctrl_msg_Q) # 1
    <3>1. app'[a] = "idle" /\ LastOf(ctrl_msg_Q') = LastOf(ctrl_msg_Q)
      BY <1>1, <2>1, <2>2, <2>9
    <3>2. \A b \in Apps : app[b] # "clear" /\ app'[b] # "clear"
      BY <1>1, <2>5, <2>7, <3>1 DEF Getting
    <3>3. rear' = LastOf(ctrl_msg_Q')
      BY <1>1, <3>1, <3>2 DEF ListShape
    <3>4. LastOf(ctrl_msg_Q)' = LastOf(ctrl_msg_Q')
      BY DEF LastOf
    <3> QED BY <2>4, <2>6, <2>7, <3>2, <3>3, <3>4 DEF ListShape
  <2> QED BY <2>8, <2>9
<1> QED BY <1>2, <1>3

LEMMA QueueClear ==
  ASSUME QueueInv, NEW a \in Apps, ClearRear(a)
  PROVE  ListInv' /\ Backed'
<1> SUFFICES ASSUME ~overlapped
             PROVE  ListShape' /\ FetchesDue' <= Len(ctrl_msg_Q')
  BY DEF ListInv, Backed, ClearRear
<1>1. /\ app = [b \in Apps |-> app[b]] /\ app[a] = "clear"
      /\ UNCHANGED <<rx, read_sem, ctrl_msg_Q, taken>> /\ rear' = 0
      /\ app' = [app EXCEPT ![a] = "idle"]
      /\ ListShape /\ FetchesDue <= Len(ctrl_msg_Q)
  BY DEF QueueInv, ListInv, Backed, TypeInv, TypeOK, ClearRear, Goto, rxVars
<1>2. ctrl_msg_Q = <<>> /\ \A b \in Apps : Getting(b) => b = a
  BY <1>1 DEF ListShape, Getting
<1>3. Fetchers' = Fetchers
  BY <1>1 DEF Fetchers
<1>4. \A b \in Apps : app'[b] # "advance" /\ ~Getting(b)'
  BY <1>1, <1>2 DEF Getting
<1> QED BY <1>1, <1>2, <1>3, <1>4 DEF ListShape, LastOf, Putting, FetchesDue

LEMMA QueueApp ==
  ASSUME QueueInv, NEW a \in Apps, MakeRequest(a) \/ AppStep(a)
  PROVE  ListInv' /\ Backed'
<1>0. app = [b \in Apps |-> app[b]] /\ TypeInv /\ ListInv /\ Backed
  BY DEF QueueInv, TypeInv, TypeOK
<1>1. CASE WaitResponse(a)
  <2>1. /\ Fetchers' = Fetchers \cup {a} /\ a \notin Fetchers
        /\ read_sem = 1 /\ read_sem' = 0
        /\ UNCHANGED <<ctrl_msg_Q, rear, taken, overlapped, rx>>
        /\ app' = [app EXCEPT ![a] = "fetch"] /\ ~Getting(a)
    BY <1>0, <1>1 DEF WaitResponse, Goto, Fetchers, Getting, queueVars, rxVars
  <2>2. Cardinality(Fetchers') = Cardinality(Fetchers) + 1
    BY <1>0, <2>1, FetchersType, FS_AddElement
  <2>3. Backed'
    BY <1>0, <2>1, <2>2, FetchersType DEF Backed, FetchesDue
  <2> QED BY <1>0, <2>1, <2>3, ListAside
<1>2. CASE FetchResponse(a) \/ Advance(a) \/ ClearRear(a)
  BY <1>2, QueueFetch, QueueAdvance, QueueClear
<1>3. CASE ~WaitResponse(a) /\ ~FetchResponse(a) /\ ~Advance(a) /\ ~ClearRear(a)
  <2>1. UNCHANGED <<read_sem, ctrl_msg_Q, rear, taken, overlapped, rx>>
    BY <1>3 DEF MakeRequest, AppStep, Acquire, RefuseInProgress, Reject, Register, StartTimer,
           Send, Fail, Decode, TimeOutSync, queueVars, rxVars
  <2>2. /\ app[a] \notin {"fetch", "advance", "clear"}
        /\ \E l \in {"idle", "acquire", "register", "timer", "send", "fail", "decode", "wait"} :
             app' = [app EXCEPT ![a] = l]
    BY <1>3 DEF MakeRequest, AppStep, Acquire, RefuseInProgress, Reject, Register, StartTimer,
           Send, Fail, Decode, TimeOutSync, Goto
  <2>3. Fetchers' = Fetchers
    BY <1>0, <2>2 DEF Fetchers
  <2>4. Backed'
    BY <1>0, <2>1, <2>3 DEF Backed, FetchesDue
  <2> QED BY <1>0, <2>1, <2>2, <2>4, ListAside DEF Getting
<1> QED BY <1>1, <1>2, <1>3

LEMMA QueueDeliver ==
  ASSUME QueueInv, Deliver
  PROVE  ListInv' /\ Backed'
<1>0. /\ UNCHANGED <<app, read_sem, ctrl_msg_Q, rear, taken>> /\ Fetchers' = Fetchers
      /\ TypeInv /\ ListInv /\ Backed /\ rx = "deliver" /\ overlapped \in BOOLEAN
  BY DEF QueueInv, Deliver, appVars, Fetchers, TypeInv, TypeOK
<1>1. rx' \in {"post", "first", "link", "idle"} /\ (~overlapped' => ~overlapped)
  BY <1>0 DEF Deliver
<1>2. Backed'
  BY <1>0, <1>1 DEF Backed, FetchesDue
<1>3. ListInv'
  <2> SUFFICES ASSUME ~overlapped'
               PROVE  ListShape'
    BY DEF ListInv
  <2>1. ListShape
    BY <1>0, <1>1 DEF ListInv
  <2>2. CASE rx' \in {"post", "idle"}
    BY <1>0, <2>1, <2>2 DEF ListShape, LastOf, Getting, Putting
  <2>3. CASE rx' \in {"first", "link"}
    <3>1. rx' = (IF rear = 0 THEN "first" ELSE "link") /\ \A a \in Apps : ~Getting(a)
      BY <1>0, <2>3 DEF Deliver
    <3>2. rear = LastOf(ctrl_msg_Q)
      BY <2>1, <3>1 DEF ListShape, Getting
    <3>3. ctrl_msg_Q # <<>> => LastOf(ctrl_msg_Q) # 0
      <4> SUFFICES ASSUME ctrl_msg_Q # <<>>
                   PROVE  ctrl_msg_Q[Len(ctrl_msg_Q)] # 0
        BY DEF LastOf
      <4>1. ctrl_msg_Q \in Seq(Request) /\ Len(ctrl_msg_Q) \in Nat
        BY <1>0, FetchersType
      <4>2. Len(ctrl_msg_Q) # 0
        BY <4>1, EmptySeq
      <4>3. Len(ctrl_msg_Q) \in 1..Len(ctrl_msg_Q)
        BY <4>1, <4>2
      <4>4. ctrl_msg_Q[Len(ctrl_msg_Q)] \in Request
        BY <4>1, <4>3, ElementOfSeq
      <4> QED BY <4>4 DEF Request
    <3>4. rx' = "first" => ctrl_msg_Q = <<>>
      BY <3>1, <3>2, <3>3
    <3>5. rx' = "link" => ctrl_msg_Q # <<>>
      BY <3>1, <3>2 DEF LastOf
    <3> QED BY <1>0, <2>1, <3>1, <3>4, <3>5 DEF ListShape, LastOf, Getting, Putting
  <2> QED BY <1>1, <2>2, <2>3
<1> QED BY <1>2, <1>3

LEMMA QueuePut ==
  ASSUME QueueInv, PutFirst \/ PutLink
  PROVE  ListInv' /\ Backed'
<1> SUFFICES ASSUME ~overlapped
             PROVE  ListShape' /\ FetchesDue' <= Len(ctrl_msg_Q')
  BY DEF ListInv, Backed, PutFirst, PutLink
<1>1. /\ UNCHANGED <<app, read_sem, taken>> /\ Fetchers' = Fetchers
      /\ TypeInv /\ ListShape /\ FetchesDue <= Len(ctrl_msg_Q) /\ Putting
      /\ app_resp \in Request /\ ctrl_msg_Q \in Seq(Request) /\ Len(ctrl_msg_Q) \in Nat
  BY MadeType, FetchersType DEF QueueInv, ListInv, Backed, PutFirst, PutLink, Putting, appVars,
     Fetchers, TypeInv
<1>2. (\A a \in Apps : ~Getting(a)) /\ rear = LastOf(ctrl_msg_Q)
  BY <1>1 DEF ListShape, Getting
<1>3. CASE UNCHANGED <<ctrl_msg_Q, rear, rx>>
  BY <1>1, <1>3 DEF ListShape, LastOf, Getting, Putting, FetchesDue
<1>4. CASE PutFirst
  <2>1. ctrl_msg_Q = <<>> /\ ctrl_msg_Q' = <<app_resp>> /\ rear' = app_resp /\ rx' = "indicate"
        /\ rx # "indicate"
    BY <1>1, <1>4 DEF PutFirst, ListShape
  <2>2. Len(ctrl_msg_Q') = Len(ctrl_msg_Q) + 1 /\ LastOf(ctrl_msg_Q') = rear' /\ ctrl_msg_Q' # <<>>
    BY <2>1 DEF LastOf
  <2>3. ListShape'
    BY <1>1, <1>2, <2>1, <2>2 DEF ListShape, LastOf, Getting, Putting
  <2> QED BY <1>1, <2>1, <2>2, <2>3, FetchersType DEF FetchesDue
<1>5. CASE PutLink /\ ~UNCHANGED <<ctrl_msg_Q, rear, rx>>
  <2>1. /\ ctrl_msg_Q # <<>> /\ rear' = app_resp /\ rx' = "indicate" /\ rx # "indicate"
        /\ ctrl_msg_Q' = IF ctrl_msg_Q # <<>> /\ ctrl_msg_Q[Len(ctrl_msg_Q)] = rear
                               THEN Append(ctrl_msg_Q, app_resp) ELSE ctrl_msg_Q
    BY <1>1, <1>5 DEF PutLink, ListShape
  <2>2. ctrl_msg_Q' = Append(ctrl_msg_Q, app_resp)
    BY <1>2, <2>1 DEF LastOf
  <2>3. Len(ctrl_msg_Q') = Len(ctrl_msg_Q) + 1 /\ ctrl_msg_Q'[Len(ctrl_msg_Q')] = app_resp
    BY <1>1, <2>2, AppendProperties
  <2>4. ctrl_msg_Q' # <<>>
    BY <1>1, <2>3
  <2>5. ListShape'
    BY <1>1, <1>2, <2>1, <2>3, <2>4 DEF ListShape, LastOf, Getting, Putting
  <2> QED BY <1>1, <2>1, <2>3, <2>5, FetchersType DEF FetchesDue
<1> QED BY <1>3, <1>4, <1>5

LEMMA QueueOther ==
  ASSUME QueueInv,
         \/ \E n \in Request : LoseRequest(n) \/ Receive(n) \/ Expire(n)
         \/ RxStep \/ CallTimedOut
  PROVE  ListInv' /\ Backed'
<1>1. CASE Deliver \/ PutFirst \/ PutLink
  BY <1>1, QueueDeliver, QueuePut
<1>2. CASE Indicate
  <2>1. /\ rx = "indicate" /\ rx' = "post" /\ read_sem' = 1 /\ Fetchers' = Fetchers
        /\ UNCHANGED <<app, ctrl_msg_Q, rear, taken, overlapped>>
    BY <1>2 DEF Indicate, ctrl_rx_ind, appVars, queueVars, Fetchers
  <2>2. Backed'
    BY <2>1, FetchersType DEF QueueInv, Backed, FetchesDue
  <2> QED BY <2>1, <2>2 DEF QueueInv, ListInv, ListShape, LastOf, Getting, Putting
<1>3. CASE ~Deliver /\ ~PutFirst /\ ~PutLink /\ ~Indicate
  <2>1. /\ UNCHANGED <<app, read_sem, ctrl_msg_Q, rear, taken, overlapped>> /\ Fetchers' = Fetchers
        /\ rx' = rx \/ (rx' \notin {"first", "link", "indicate"} /\ rx \notin {"first", "link", "indicate"})
    BY <1>3 DEF LoseRequest, Receive, Expire, RxStep, StopTimer, PostAfterResponse, CallTimedOut,
       appVars, queueVars, rxVars, Fetchers
  <2>2. Backed'
    BY <2>1, FetchersType DEF QueueInv, Backed, FetchesDue
  <2> QED BY <2>1, <2>2 DEF QueueInv, ListInv, ListShape, LastOf, Getting, Putting
<1> QED BY <1>1, <1>2, <1>3

LEMMA QueueStep == QueueInv /\ [Next]_vars => QueueInv'
<1> SUFFICES ASSUME QueueInv, [Next]_vars
             PROVE  ListInv' /\ Backed'
  BY TypeStep DEF QueueInv
<1>1. CASE UNCHANGED vars \/ Quiescent
  BY <1>1 DEF vars, appVars, queueVars, rxVars, Quiescent, QueueInv, ListInv, ListShape, LastOf,
     Getting, Putting, Backed, FetchesDue, Fetchers
<1> QED BY <1>1, QueueApp, QueueOther DEF Next, Step

LEMMA QueueInit == Init => QueueInv
<1> SUFFICES ASSUME Init PROVE ListInv /\ Backed
  BY TypeInit DEF QueueInv
<1>1. /\ Fetchers = {} /\ read_sem = 0 /\ rx = "idle" /\ Len(ctrl_msg_Q) = 0
      /\ ctrl_msg_Q = <<>> /\ rear = 0 /\ \A a \in Apps : app[a] = "idle"
  BY DEF Init, Fetchers
<1>2. Backed
  BY <1>1, FS_EmptySet DEF Backed, FetchesDue
<1> QED BY <1>1, <1>2 DEF ListInv, ListShape, LastOf, Getting, Putting

LEMMA QueueAlways == Spec => []QueueInv
<1> QED BY QueueInit, QueueStep, PTL DEF Spec

(* get_response, called after read_sem was taken, finds a response in the  *)
(* queue: for any number of threads waiting, and however late responses    *)
(* come and whatever fails, although the semaphore merges posts; unless    *)
(* two threads have been in esp_queue at a time.                           *)
THEOREM FetchFinds == Spec => []FetchFindsResponse
<1>1. QueueInv => FetchFindsResponse
  <2> SUFFICES ASSUME QueueInv, ~overlapped, read_sem = 1 \/ Fetchers # {}
               PROVE  ctrl_msg_Q # <<>>
    BY DEF FetchFindsResponse, Fetchers
  <2>1. Fetchers # {} => Cardinality(Fetchers) # 0
    BY FetchersType, FS_EmptySet DEF QueueInv
  <2>2. Len(ctrl_msg_Q) # 0
    BY <2>1, FetchersType DEF QueueInv, Backed, FetchesDue
  <2> QED BY <2>2
<1> QED BY <1>1, QueueAlways, PTL

-----------------------------------------------------------------------------
(* Every node is new when it is linked, as a request is sent once and its  *)
(* response processed once; so no node is freed that is still in the list. *)

Unsent(a) == app[a] \in {"acquire", "register", "timer", "send"}

(* ctrl_rx_thread has a response that it has not passed on.                *)
Coming == rx \in {"stop", "deliver", "first", "link"}

Spent(n) == n \in freed \/ Queued(n)

SentOnce ==
  /\ \A a, b \in Apps : Unsent(a) /\ Unsent(b) /\ req[a] = req[b] => a = b
  /\ \A a \in Apps : Unsent(a) => req[a] \notin at_slave /\ ~(Coming /\ app_resp = req[a])
  /\ Coming => app_resp \notin at_slave

Unspent ==
  /\ \A n \in freed : n \in Made
  /\ \A i \in DOMAIN ctrl_msg_Q : ctrl_msg_Q[i] \in Made /\ ctrl_msg_Q[i] \notin freed
  /\ \A i, j \in DOMAIN ctrl_msg_Q : ctrl_msg_Q[i] = ctrl_msg_Q[j] => i = j
  /\ \A n \in at_slave : ~Spent(n)
  /\ \A a \in Apps : Unsent(a) => ~Spent(req[a])
  /\ Coming => ~Spent(app_resp)

FreshInv ==
  QueueInv /\ SentOnce /\ (~overlapped => Unspent) /\ ListIsSound

(* The requests that are sent and the responses that come, in any step.    *)
LEMMA FreshMoves ==
  ASSUME TypeInv, SentOnce, [Next]_vars
  PROVE  /\ \A n \in Made : n \in Made'
         /\ \A n \in at_slave' : n \in at_slave \/ \E a \in Apps : Unsent(a) /\ n = req[a]
         /\ \A a \in Apps : Unsent(a)' => \/ Unsent(a) /\ req'[a] = req[a]
                                          \/ req'[a] \notin Made
         /\ Coming' => \/ Coming /\ app_resp' = app_resp
                       \/ app_resp' \in at_slave
         /\ overlapped => overlapped'
         /\ SentOnce'
<1>0. /\ app = [b \in Apps |-> app[b]] /\ req = [b \in Apps |-> req[b]] /\ at_slave \subseteq Made
      /\ Len(requests) \in Nat
      /\ \A a \in Apps : Unsent(a) => req[a] \in Made
      /\ Coming => app_resp \in Made
      /\ overlapped \in BOOLEAN
  BY MadeType DEF TypeInv, TypeOK, Unsent, Coming
<1>1. CASE \E a \in Apps : MakeRequest(a)
  <2>1. PICK a \in Apps : MakeRequest(a)
    BY <1>1
  <2>2. /\ app' = [app EXCEPT ![a] = "acquire"] /\ req' = [req EXCEPT ![a] = Len(requests) + 1]
        /\ UNCHANGED <<at_slave, rx, app_resp, overlapped>>
    BY <2>1 DEF MakeRequest, Goto, rxVars, queueVars
  <2>3. Len(requests') = Len(requests) + 1
    <3>1. PICK k \in Uses[a] : requests' = Append(requests, k)
      BY <2>1 DEF MakeRequest
    <3>2. k \in Kind /\ requests \in Seq(Kind)
      BY UsesAssumption DEF TypeInv, TypeOK
    <3> QED BY <3>1, <3>2, AppendProperties
  <2>4. /\ app'[a] = "acquire" /\ req'[a] = Len(requests) + 1 /\ req'[a] \notin Made
        /\ \A b \in Apps \ {a} : app'[b] = app[b] /\ req'[b] = req[b]
    BY <1>0, <2>2 DEF Made
  <2>5. \A n \in Made : n \in Made'
    BY <1>0, <2>3 DEF Made
  <2>6. /\ \A b \in Apps \ {a} : Unsent(b)' <=> Unsent(b)
        /\ Coming' <=> Coming
    BY <2>2, <2>4 DEF Unsent, Coming
  <2>7. SentOnce'
    BY <1>0, <2>2, <2>4, <2>6 DEF SentOnce
  <2> QED BY <2>2, <2>4, <2>5, <2>6, <2>7
<1>2. CASE \E a \in Apps : AppStep(a)
  <2>1. PICK a \in Apps : AppStep(a)
    BY <1>2
  <2>2. /\ UNCHANGED <<req, requests, rx, app_resp>>
        /\ Send(a) \/ at_slave' = at_slave
        /\ overlapped => overlapped'
        /\ \A b \in Apps \ {a} : app'[b] = app[b]
        /\ Unsent(a)' => Unsent(a)
    <3>1. UNCHANGED <<req, requests, rx, app_resp>>
      BY <1>0, <2>1, TypeMove
    <3>2. Send(a) \/ at_slave' = at_slave
      BY <2>1 DEF AppStep, Acquire, RefuseInProgress, Reject, Register, StartTimer, Fail,
         Decode, WaitResponse, TimeOutSync, FetchResponse, Advance, ClearRear
    <3>3. overlapped => overlapped'
      BY <1>0, <2>1 DEF AppStep, Acquire, RefuseInProgress, Reject, Register, StartTimer, Send,
         Fail, Decode, WaitResponse, TimeOutSync, FetchResponse, Advance, ClearRear, queueVars
    <3>4. \/ app' = app
          \/ /\ app[a] \in {"acquire", "register", "timer", "send"}
             /\ \E l : app' = [app EXCEPT ![a] = l]
          \/ \E l \in {"idle", "fail", "decode", "wait", "fetch", "advance", "clear"} :
               app' = [app EXCEPT ![a] = l]
      BY <2>1 DEF AppStep, Acquire, RefuseInProgress, Reject, Register, StartTimer, Send, Fail,
         Decode, WaitResponse, TimeOutSync, FetchResponse, Advance, ClearRear, Goto
    <3> QED BY <1>0, <3>1, <3>2, <3>3, <3>4 DEF Unsent
  <2>3. (\A b \in Apps : Unsent(b)' => Unsent(b)) /\ (Coming' <=> Coming) /\ Made' = Made
    BY <2>2 DEF Unsent, Coming, Made
  <2>4. CASE at_slave' = at_slave
    <3>1. SentOnce'
      BY <2>2, <2>3, <2>4 DEF SentOnce
    <3> QED BY <2>2, <2>3, <2>4, <3>1
  <2>5. CASE Send(a) /\ at_slave' # at_slave
    <3>1. at_slave' = at_slave \cup {req[a]} /\ Unsent(a) /\ ~Unsent(a)'
      BY <1>0, <2>5 DEF Send, Goto, Unsent
    <3>2. SentOnce'
      BY <2>2, <2>3, <3>1 DEF SentOnce
    <3> QED BY <2>2, <2>3, <3>1, <3>2
  <2> QED BY <2>2, <2>4, <2>5
<1>3. CASE \/ \E n \in Request : LoseRequest(n) \/ Receive(n) \/ Expire(n)
           \/ RxStep \/ CallTimedOut
  <2>1. /\ UNCHANGED <<app, req, requests>> /\ at_slave' \subseteq at_slave
        /\ overlapped => overlapped'
    BY <1>0, <1>3 DEF LoseRequest, Receive, Expire, RxStep, StopTimer, Deliver, PutFirst, PutLink,
       Indicate, PostAfterResponse, CallTimedOut, appVars, queueVars
  <2>2. Coming' => \/ Coming /\ app_resp' = app_resp
                   \/ app_resp' \in at_slave /\ app_resp' \notin at_slave'
    BY <1>3 DEF LoseRequest, Receive, Expire, RxStep, StopTimer, Deliver, PutFirst, PutLink,
       Indicate, PostAfterResponse, CallTimedOut, rxVars, Coming
  <2>3. (\A b \in Apps : Unsent(b)' <=> Unsent(b)) /\ Made' = Made
    BY <2>1 DEF Unsent, Made
  <2>4. SentOnce'
    BY <2>1, <2>2, <2>3 DEF SentOnce
  <2> QED BY <2>1, <2>2, <2>3, <2>4
<1>4. CASE UNCHANGED vars \/ Quiescent
  BY <1>4 DEF vars, appVars, queueVars, rxVars, Quiescent, SentOnce, Unsent, Coming, Made
<1> QED BY <1>1, <1>2, <1>3, <1>4 DEF Next, Step

(* A step that spends no node.                                             *)
LEMMA UnspentKept ==
  ASSUME TypeInv, SentOnce, Unspent, [Next]_vars, UNCHANGED <<ctrl_msg_Q, freed>>
  PROVE  Unspent'
<1>1. \A n : Spent(n)' <=> Spent(n)
  BY DEF Spent, Queued
<1>2. \A n : Spent(n) => n \in Made
  BY DEF Unspent, Spent, Queued
<1>3. \A n \in at_slave' : ~Spent(n)'
  BY <1>1, FreshMoves DEF Unspent
<1>4. \A a \in Apps : Unsent(a)' => ~Spent(req[a])'
  BY <1>1, <1>2, FreshMoves DEF Unspent
<1>5. Coming' => ~Spent(app_resp)'
  BY <1>1, FreshMoves DEF Unspent
<1>6. \A n \in Made : n \in Made'
  BY FreshMoves
<1> QED BY <1>3, <1>4, <1>5, <1>6 DEF Unspent

(* esp_queue_get moves a node from the list to the freed ones.             *)
LEMMA UnspentAdvance ==
  ASSUME QueueInv, Unspent, ~overlapped, NEW a \in Apps, Advance(a)
  PROVE  Unspent' /\ undefined' = undefined
<1>1. /\ TypeInv /\ ListShape /\ app[a] = "advance" /\ app = [b \in Apps |-> app[b]]
      /\ UNCHANGED <<req, requests, at_slave, rx, app_resp>>
  BY DEF QueueInv, ListInv, Advance, rxVars, TypeInv, TypeOK
<1> DEFINE q == ctrl_msg_Q
<1>2. /\ taken[a] = q /\ q # <<>> /\ q \in Seq(Request) /\ FrontAfter(taken[a]) = Tail(q)
      /\ Len(Tail(q)) = Len(q) - 1
  BY <1>1, FrontIsCut
<1>3. /\ Head(q) = q[1] /\ Len(q) \in Nat /\ Len(q) # 0 /\ DOMAIN q = 1..Len(q)
      /\ DOMAIN Tail(q) = 1..Len(q) - 1
      /\ \A i \in 1..Len(q) - 1 : Tail(q)[i] = q[i + 1]
  <2>1. Len(q) \in Nat /\ DOMAIN q = 1..Len(q) /\ Len(q) # 0
    BY <1>2, LenProperties, EmptySeq
  <2>2. Tail(q) \in Seq(Request) /\ \A i \in 1..Len(Tail(q)) : Tail(q)[i] = q[i + 1]
    BY <1>2, HeadTailProperties
  <2>3. DOMAIN Tail(q) = 1..Len(Tail(q))
    BY <2>2, LenProperties
  <2>4. Head(q) = q[1]
    BY <1>2
  <2> QED BY <1>2, <2>1, <2>2, <2>3, <2>4
<1>4. Head(q) \notin freed /\ Head(q) \in Made
  BY <1>3 DEF Unspent
<1>5. /\ ctrl_msg_Q' = Tail(q) /\ freed' = freed \cup {Head(q)} /\ undefined' = undefined
      /\ \E l \in {"clear", "idle"} : app' = [app EXCEPT ![a] = l]
  BY <1>2, <1>4 DEF Advance, Goto
<1>6. /\ \A i \in DOMAIN ctrl_msg_Q' : i + 1 \in DOMAIN q /\ i + 1 # 1 /\ ctrl_msg_Q'[i] = q[i + 1]
      /\ 1 \in DOMAIN q
  BY <1>3, <1>5
<1>7. \A n : Spent(n)' => Spent(n)
  BY <1>3, <1>5, <1>6 DEF Spent, Queued
<1>8. Made' = Made /\ (Coming' <=> Coming) /\ \A b \in Apps : Unsent(b)' => Unsent(b)
  BY <1>1, <1>5 DEF Made, Coming, Unsent
<1>9. \A i \in DOMAIN ctrl_msg_Q' : ctrl_msg_Q'[i] \in Made /\ ctrl_msg_Q'[i] \notin freed'
  BY <1>3, <1>5, <1>6 DEF Unspent
<1>10. \A i, j \in DOMAIN ctrl_msg_Q' : ctrl_msg_Q'[i] = ctrl_msg_Q'[j] => i = j
  <2> SUFFICES ASSUME NEW i \in DOMAIN ctrl_msg_Q', NEW j \in DOMAIN ctrl_msg_Q',
                      ctrl_msg_Q'[i] = ctrl_msg_Q'[j]
               PROVE  i = j
    OBVIOUS
  <2>1. i + 1 = j + 1
    BY <1>6 DEF Unspent
  <2>2. i \in Nat /\ j \in Nat
    BY <1>3, <1>5
  <2> QED BY <2>1, <2>2
<1>11. \A n \in freed' : n \in Made
  BY <1>4, <1>5 DEF Unspent
<1>12. Unspent'
  <2>1. \A n \in at_slave' : ~Spent(n)'
    BY <1>1, <1>7 DEF Unspent
  <2>2. \A b \in Apps : Unsent(b)' => ~Spent(req[b])'
    BY <1>1, <1>7, <1>8 DEF Unspent
  <2>3. Coming' => ~Spent(app_resp)'
    BY <1>1, <1>7, <1>8 DEF Unspent
  <2> QED BY <1>8, <1>9, <1>10, <1>11, <2>1, <2>2, <2>3 DEF Unspent
<1> QED BY <1>5, <1>12

(* esp_queue_put links a node that is new.                                 *)
LEMMA UnspentPut ==
  ASSUME QueueInv, SentOnce, Unspent, ~overlapped, PutFirst \/ PutLink
  PROVE  Unspent' /\ undefined' = undefined
<1>1. /\ TypeInv /\ ListShape /\ Putting /\ Coming
      /\ UNCHANGED <<app, req, requests, at_slave, app_resp, freed>>
  BY DEF QueueInv, ListInv, PutFirst, PutLink, Putting, Coming, appVars
<1> DEFINE q == ctrl_msg_Q
<1>2. rear = LastOf(q) /\ q \in Seq(Request) /\ Len(q) \in Nat /\ DOMAIN q = 1..Len(q)
  BY <1>1, LenProperties DEF ListShape, Getting, TypeInv, TypeOK
<1>3. app_resp \in Made /\ app_resp \in Request /\ ~Spent(app_resp)
  BY <1>1, MadeType DEF TypeInv, Putting, Coming, Unspent
<1>4. rx = "link" => rear # 0 /\ rear \notin freed /\ q # <<>> /\ q[Len(q)] = rear
  <2> SUFFICES ASSUME rx = "link"
               PROVE  rear # 0 /\ rear \notin freed /\ q # <<>> /\ q[Len(q)] = rear
    OBVIOUS
  <2>1. q # <<>> /\ q[Len(q)] = rear
    BY <1>1, <1>2 DEF ListShape, LastOf
  <2>2. Len(q) \in DOMAIN q
    <3>1. Len(q) # 0
      BY <1>2, <2>1, EmptySeq
    <3> QED BY <1>2, <3>1
  <2>3. q[Len(q)] \in Request
    BY <1>2, <2>2, ElementOfSeq
  <2> QED BY <2>1, <2>2, <2>3 DEF Unspent, Request
<1>5. /\ undefined' = undefined /\ ~Coming'
      /\ DOMAIN ctrl_msg_Q' = 1..Len(q) + 1
      /\ \A i \in 1..Len(q) : ctrl_msg_Q'[i] = q[i]
      /\ ctrl_msg_Q'[Len(q) + 1] = app_resp
  <2>1. CASE PutFirst
    <3>1. q = <<>> /\ ctrl_msg_Q' = <<app_resp>> /\ Len(q) = 0 /\ undefined' = undefined /\ ~Coming'
      BY <1>1, <2>1 DEF PutFirst, ListShape, Coming
    <3> QED BY <3>1
  <2>2. CASE PutLink
    <3>1. ctrl_msg_Q' = Append(q, app_resp) /\ undefined' = undefined /\ ~Coming'
      BY <1>4, <2>2 DEF PutLink, Coming
    <3>2. /\ Append(q, app_resp) \in Seq(Request) /\ Len(Append(q, app_resp)) = Len(q) + 1
          /\ \A i \in 1..Len(q) : Append(q, app_resp)[i] = q[i]
          /\ Append(q, app_resp)[Len(q) + 1] = app_resp
      BY <1>2, <1>3, AppendProperties
    <3>3. DOMAIN Append(q, app_resp) = 1..Len(q) + 1
      BY <3>2, LenProperties
    <3> QED BY <3>1, <3>2, <3>3
  <2> QED BY <2>1, <2>2
<1>6. \A i \in DOMAIN ctrl_msg_Q' : \/ i \in DOMAIN q /\ ctrl_msg_Q'[i] = q[i]
                                    \/ i = Len(q) + 1 /\ ctrl_msg_Q'[i] = app_resp
  BY <1>2, <1>5
<1>7. \A i \in DOMAIN q : q[i] # app_resp /\ app_resp \notin freed
  BY <1>3 DEF Spent, Queued
<1>8. \A n : Spent(n)' => Spent(n) \/ n = app_resp
  BY <1>1, <1>6 DEF Spent, Queued
<1>9. Made' = Made /\ \A b \in Apps : Unsent(b)' <=> Unsent(b)
  BY <1>1 DEF Made, Unsent
<1>10. \A i \in DOMAIN ctrl_msg_Q' : ctrl_msg_Q'[i] \in Made /\ ctrl_msg_Q'[i] \notin freed'
  BY <1>1, <1>3, <1>6, <1>7 DEF Unspent, Spent
<1>11. \A i, j \in DOMAIN ctrl_msg_Q' : ctrl_msg_Q'[i] = ctrl_msg_Q'[j] => i = j
  BY <1>6, <1>7 DEF Unspent
<1>12. \A n \in at_slave' : ~Spent(n)'
  BY <1>1, <1>8 DEF Unspent, SentOnce
<1>13. \A b \in Apps : Unsent(b)' => ~Spent(req[b])'
  BY <1>1, <1>8, <1>9 DEF Unspent, SentOnce
<1>14. \A n \in freed' : n \in Made'
  BY <1>1, <1>9 DEF Unspent
<1> QED BY <1>5, <1>9, <1>10, <1>11, <1>12, <1>13, <1>14 DEF Unspent

LEMMA FreshStep == FreshInv /\ [Next]_vars => FreshInv'
<1> SUFFICES ASSUME FreshInv, [Next]_vars
             PROVE  SentOnce' /\ (~overlapped' => Unspent') /\ ListIsSound'
  BY QueueStep DEF FreshInv
<1>1. TypeInv /\ QueueInv /\ SentOnce /\ SentOnce' /\ (overlapped => overlapped')
  BY FreshMoves DEF FreshInv, QueueInv
<1>2. CASE \E a \in Apps : Advance(a)
  BY <1>1, <1>2, UnspentAdvance DEF FreshInv, ListIsSound
<1>3. CASE PutFirst \/ PutLink
  BY <1>1, <1>3, UnspentPut DEF FreshInv, ListIsSound
<1>4. CASE (\A a \in Apps : ~Advance(a)) /\ ~PutFirst /\ ~PutLink
  <2>1. UNCHANGED <<ctrl_msg_Q, freed, undefined>>
    <3>1. CASE UNCHANGED vars \/ Quiescent
      BY <3>1 DEF vars, queueVars, Quiescent
    <3>2. CASE \E a \in Apps : MakeRequest(a) \/ AppStep(a)
      BY <1>4, <3>2 DEF MakeRequest, AppStep, Acquire, RefuseInProgress, Reject, Register,
         StartTimer, Send, Fail, Decode, WaitResponse, TimeOutSync, FetchResponse, ClearRear,
         queueVars
    <3>3. CASE \/ \E n \in Request : LoseRequest(n) \/ Receive(n) \/ Expire(n)
               \/ RxStep \/ CallTimedOut
      BY <1>4, <3>3 DEF LoseRequest, Receive, Expire, RxStep, StopTimer, Deliver, Indicate,
         PostAfterResponse, CallTimedOut, queueVars
    <3> QED BY <3>1, <3>2, <3>3 DEF Next, Step
  <2>2. ~overlapped' => Unspent'
    BY <1>1, <2>1, UnspentKept DEF FreshInv
  <2> QED BY <1>1, <2>1, <2>2 DEF FreshInv, ListIsSound
<1> QED BY <1>1, <1>2, <1>3, <1>4

LEMMA FreshInit == Init => FreshInv
<1> SUFFICES ASSUME Init PROVE SentOnce /\ Unspent /\ ListIsSound
  BY QueueInit DEF FreshInv
<1>1. /\ at_slave = {} /\ rx = "idle" /\ freed = {} /\ ctrl_msg_Q = <<>> /\ undefined = FALSE
      /\ \A a \in Apps : app[a] = "idle"
  BY DEF Init
<1> QED BY <1>1 DEF SentOnce, Unspent, ListIsSound, Unsent, Coming

(* No node is used after it was freed, nor a rear that points nowhere,     *)
(* unless two threads have been in the list at a time.                     *)
THEOREM ListSound == Spec => []ListIsSound
<1>1. FreshInv => ListIsSound
  BY DEF FreshInv
<1> QED BY <1>1, FreshInit, FreshStep, PTL DEF Spec
=============================================================================
