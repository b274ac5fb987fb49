----------------------------- MODULE ControlLib -----------------------------
(***************************************************************************)
(* The control library (control_lib/src/ctrl_core.c, ctrl_api.c): requests *)
(* of application threads to the slave, their responses, and timeouts.     *)
(*                                                                         *)
(* A request without a callback is synchronous: its thread waits for       *)
(* read_sem and takes the response from ctrl_msg_Q.  With a callback it is *)
(* asynchronous: the callback is called with the response by               *)
(* ctrl_rx_thread; a timer waits for the case that none comes.  The binary *)
(* semaphore ctrl_req_sem is taken by the thread that sends a request and  *)
(* posted by whoever ends it.                                              *)
(*                                                                         *)
(* ctrl_msg_Q is a linked list without a lock (components/src/esp_queue.c):*)
(* ctrl_rx_thread appends to it while threads take from it.  The model     *)
(* keeps the nodes that front leads to, and rear.  Undefined behaviour,    *)
(* the use of a freed node or of a NULL rear, ends it.                     *)
(*                                                                         *)
(* Requests are numbered in the order in which they are made and stand for *)
(* their own response; each passes a callback of its own.  0 stands for no *)
(* request, a NULL callback or handle, or an error instead of a response.  *)
(***************************************************************************)
EXTENDS Integers, Sequences, FiniteSets

CONSTANTS
  Apps,             (* application threads                                 *)
  Ids,              (* message ids of requests                             *)
  Uses,             (* the kinds of request each application makes         *)
  MaxReq,           (* bound: requests made                                *)
  RequestsMayFail,  (* may arguments be rejected, or sending fail?         *)
  MallocMayFail,    (* may an allocation outside of sending fail?          *)
  LateResponses     (* may a response come after its timeout?              *)

Kind == [id : Ids, async : BOOLEAN]

ASSUME AppsAssumption == IsFiniteSet(Apps)
ASSUME UsesAssumption == Uses \in [Apps -> SUBSET Kind]
ASSUME BoundAssumption == MaxReq \in Nat
ASSUME FaultsAssumption ==
  {RequestsMayFail, MallocMayFail, LateResponses} \subseteq BOOLEAN

Request == 1..MaxReq

VARIABLES
  app,                 (* where each application thread is                 *)
  req,                 (* the request it is making                         *)
  requests,            (* the requests made so far                         *)
  ctrl_req_sem,
  read_sem,
  ctrl_msg_Q,          (* responses for synchronous requests, from front   *)
  rear,                (* the last node, or 0: a node is its response      *)
  taken,               (* what a thread read from front on in esp_queue_get*)
  freed,               (* the nodes freed                                  *)
  undefined,           (* has memory been used that must not be?           *)
  ctrl_resp_cb_table,  (* the callback of each id: that of a request, or 0 *)
  async_timer_handle,
  timers,              (* the timers that run, one per request             *)
  expired,             (* the request whose timer has fired                *)
  timer_task,          (* where ctrl_async_timeout_handler is              *)
  rx,                  (* where ctrl_rx_thread is                          *)
  app_resp,            (* the response it is processing                    *)
  at_slave,            (* requests the slave is going to answer            *)
  settled,             (* requests whose response will not come (any more) *)
  outcomes,            (* history: what each request was given, in order   *)
  overlapped,          (* history: was esp_queue used by two at a time?    *)
  disturbed            (* history: has anything happened that the library  *)
                       (* does not cope with (see Disturb)?                *)

appVars   == <<app, req, requests>>
queueVars == <<ctrl_msg_Q, rear, taken, freed, undefined, overlapped>>
timerVars == <<async_timer_handle, timers, expired, timer_task>>
rxVars    == <<rx, app_resp>>
vars == <<appVars, ctrl_req_sem, read_sem, queueVars, ctrl_resp_cb_table,
          timerVars, rxVars, at_slave, settled, outcomes, disturbed>>

(* init_hosted_control_lib_internal creates both semaphores available and  *)
(* takes read_sem once.                                                    *)
Init ==
  /\ app = [a \in Apps |-> "idle"]
  /\ req = [a \in Apps |-> 0]
  /\ requests = <<>>
  /\ ctrl_req_sem = 1
  /\ read_sem = 0
  /\ ctrl_msg_Q = <<>> /\ rear = 0
  /\ taken = [a \in Apps |-> <<>>]
  /\ freed = {} /\ undefined = FALSE
  /\ ctrl_resp_cb_table = [i \in Ids |-> 0]
  /\ async_timer_handle = 0
  /\ timers = {}
  /\ expired = 0
  /\ timer_task = "idle"
  /\ rx = "idle"
  /\ app_resp = 0
  /\ at_slave = {}
  /\ settled = {}
  /\ outcomes = [n \in Request |-> <<>>]
  /\ overlapped = FALSE /\ disturbed = FALSE

Goto(a, label) == app' = [app EXCEPT ![a] = label]

(* A request is given a response, or an error: its callback is called, or  *)
(* its synchronous caller returns.                                         *)
Give(n, response) == outcomes' = [outcomes EXCEPT ![n] = Append(@, response)]

(* A timeout may strike: no response will come, or it may come late.       *)
MayTimeOut(n) == n \in settled \/ LateResponses

(* Something happens that the library does not cope with: a timeout        *)
(* strikes although the response is still to come; a request fails after   *)
(* it took ctrl_req_sem, which stays taken; a callback cannot be told for  *)
(* lack of memory; a request with a callback is sent while a thread that   *)
(* sent one without, for the same id, has not looked at the table yet, or  *)
(* the other way round; two synchronous requests are made at a time.  What *)
(* the library promises, it promises until then.                           *)
Disturb(c) == disturbed' = (disturbed \/ c)

IsAsync(n) == requests[n].async

(* A synchronous request is made, until its thread returns.                *)
InCall(a) ==
  /\ app[a] \in {"register", "send", "decode", "wait", "fetch", "advance", "clear"}
  /\ ~IsAsync(req[a])

-----------------------------------------------------------------------------
(* ctrl_app_send_req *)

(* An application calls one of the wrappers of ctrl_api.c. *)
MakeRequest(a) ==
  /\ app[a] = "idle"
  /\ Len(requests) < MaxReq
  /\ \E k \in Uses[a] : requests' = Append(requests, k)
  /\ req' = [req EXCEPT ![a] = Len(requests) + 1]
  /\ Goto(a, "acquire")
  /\ UNCHANGED <<ctrl_req_sem, read_sem, queueVars, ctrl_resp_cb_table,
                 timerVars, rxVars, at_slave, settled, outcomes, disturbed>>

(* Variant: the semaphore is looked at but not taken. *)
AcquireShared(a) ==
  /\ app[a] = "acquire" /\ ctrl_req_sem = 1
  /\ Goto(a, "register")
  /\ UNCHANGED <<req, requests, ctrl_req_sem, read_sem, queueVars, ctrl_resp_cb_table,
                 timerVars, rxVars, at_slave, settled, outcomes, disturbed>>

Acquire(a) ==
  /\ app[a] = "acquire" /\ ctrl_req_sem = 1
  /\ ctrl_req_sem' = 0
  /\ Goto(a, "register")
  /\ Disturb(~IsAsync(req[a]) /\ \E b \in Apps \ {a} : InCall(b))
  /\ UNCHANGED <<req, requests, read_sem, queueVars, ctrl_resp_cb_table,
                 timerVars, rxVars, at_slave, settled, outcomes>>

(* WAIT_TIME_B2B_CTRL_REQ has passed: CTRL_ERR_REQ_IN_PROG. *)
RefuseInProgress(a) ==
  /\ app[a] = "acquire" /\ ctrl_req_sem = 0
  /\ Goto(a, "fail")
  /\ UNCHANGED <<req, requests, ctrl_req_sem, read_sem, queueVars, ctrl_resp_cb_table,
                 timerVars, rxVars, at_slave, settled, outcomes, disturbed>>

(* The arguments are checked and the request is encoded. *)
Reject(a) ==
  /\ RequestsMayFail
  /\ app[a] = "register"
  /\ Goto(a, "fail")
  /\ Disturb(TRUE)
  /\ UNCHANGED <<req, requests, ctrl_req_sem, read_sem, queueVars, ctrl_resp_cb_table,
                 timerVars, rxVars, at_slave, settled, outcomes>>

set_async_resp_callback(n) ==
  ctrl_resp_cb_table' = [ctrl_resp_cb_table EXCEPT ![requests[n].id] = IF IsAsync(n) THEN n ELSE 0]

(* A thread whose request b has sent will look at the table still.         *)
Misled(a, b) ==
  /\ app[b] = "decode"
  /\ requests[req[b]].id = requests[req[a]].id
  /\ IsAsync(req[b]) # IsAsync(req[a])

Register(a) ==
  /\ app[a] = "register"
  /\ set_async_resp_callback(req[a])
  /\ Goto(a, IF IsAsync(req[a]) THEN "timer" ELSE "send")
  /\ Disturb(\E b \in Apps \ {a} : Misled(a, b))
  /\ UNCHANGED <<req, requests, ctrl_req_sem, read_sem, queueVars,
                 timerVars, rxVars, at_slave, settled, outcomes>>

(* Variant: the timer is created but not started. *)
CreateOnly(n) == async_timer_handle' = n /\ UNCHANGED timers

hosted_timer_start(n) == async_timer_handle' = n /\ timers' = timers \cup {n}

(* The handle of the last timer is overwritten; it is NULL on failure. *)
StartTimer(a) ==
  /\ app[a] = "timer"
  /\ \/ /\ hosted_timer_start(req[a])
        /\ Goto(a, "send")
        /\ UNCHANGED disturbed
     \/ /\ RequestsMayFail
        /\ async_timer_handle' = 0
        /\ Goto(a, "fail")
        /\ Disturb(TRUE)
        /\ UNCHANGED timers
  /\ UNCHANGED <<req, requests, ctrl_req_sem, read_sem, queueVars,
                 ctrl_resp_cb_table, expired, timer_task, rxVars, at_slave,
                 settled, outcomes>>

Send(a) ==
  /\ app[a] = "send"
  /\ \/ /\ at_slave' = at_slave \cup {req[a]}
        /\ Goto(a, "decode")
        /\ UNCHANGED <<settled, disturbed>>
     \/ /\ RequestsMayFail
        /\ settled' = settled \cup {req[a]}
        /\ Goto(a, "fail")
        /\ Disturb(TRUE)
        /\ UNCHANGED at_slave
  /\ UNCHANGED <<req, requests, ctrl_req_sem, read_sem, queueVars,
                 ctrl_resp_cb_table, timerVars, rxVars, outcomes>>

(* fail_req: the callback is told, if there is one and memory allows it;   *)
(* a synchronous caller returns NULL.  Neither the semaphore nor the timer *)
(* is looked after.                                                        *)
Fail(a) ==
  /\ app[a] = "fail"
  /\ \/ Give(req[a], 0) /\ UNCHANGED disturbed
     \/ MallocMayFail /\ IsAsync(req[a]) /\ Disturb(TRUE) /\ UNCHANGED outcomes
  /\ Goto(a, "idle")
  /\ UNCHANGED <<req, requests, ctrl_req_sem, read_sem, queueVars,
                 ctrl_resp_cb_table, timerVars, rxVars, at_slave, settled>>

-----------------------------------------------------------------------------
(* CTRL_DECODE_RESP_IF_NOT_ASYNC and get_response *)

(* The callback table, not the request, tells whether to wait.  A          *)
(* synchronous caller that finds a callback there returns NULL.            *)
Decode(a) ==
  /\ app[a] = "decode"
  /\ LET n == req[a] IN
     IF ctrl_resp_cb_table[requests[n].id] = 0
       THEN Goto(a, "wait") /\ UNCHANGED outcomes
       ELSE /\ Goto(a, "idle")
            /\ IF IsAsync(n) THEN UNCHANGED outcomes ELSE Give(n, 0)
  /\ UNCHANGED <<req, requests, ctrl_req_sem, read_sem, queueVars,
                 ctrl_resp_cb_table, timerVars, rxVars, at_slave, settled, disturbed>>

WaitResponse(a) ==
  /\ app[a] = "wait" /\ read_sem = 1
  /\ read_sem' = 0
  /\ Goto(a, "fetch")
  /\ UNCHANGED <<req, requests, ctrl_req_sem, queueVars, ctrl_resp_cb_table,
                 timerVars, rxVars, at_slave, settled, outcomes, disturbed>>

(* The wait for read_sem times out. *)
TimeOutSync(a) ==
  /\ app[a] = "wait" /\ read_sem = 0
  /\ MayTimeOut(req[a])
  /\ ctrl_req_sem' = 1
  /\ Give(req[a], 0)
  /\ Goto(a, "idle")
  /\ Disturb(req[a] \notin settled)
  /\ UNCHANGED <<req, requests, read_sem, queueVars, ctrl_resp_cb_table,
                 timerVars, rxVars, at_slave, settled>>

(* esp_queue_get: front and the node after it are read; then front is set, *)
(* the node is freed, and rear is cleared if it was the last.              *)
Getting(a) == app[a] \in {"advance", "clear"}
Putting == rx \in {"first", "link"}

FetchResponse(a) ==
  /\ app[a] = "fetch"
  /\ IF ctrl_msg_Q = <<>>
       THEN Give(req[a], 0) /\ Goto(a, "idle") /\ UNCHANGED <<taken, overlapped>>
       ELSE /\ taken' = [taken EXCEPT ![a] = ctrl_msg_Q]
            /\ overlapped' = (overlapped \/ Putting \/ \E b \in Apps : Getting(b))
            /\ Goto(a, "advance")
            /\ UNCHANGED outcomes
  /\ UNCHANGED <<req, requests, ctrl_req_sem, read_sem, ctrl_msg_Q, rear, freed,
                 undefined, ctrl_resp_cb_table, timerVars, rxVars, at_slave,
                 settled, disturbed>>

(* Variant: stale responses are thrown away. *)
DrainQueue(q) == <<>>

(* What front leads to after it was set to the node read: nothing if there *)
(* was none, whatever has been linked since.                               *)
FrontAfter(q) ==
  IF Len(q) = 1 THEN <<>>
  ELSE IF ctrl_msg_Q # <<>> /\ Head(ctrl_msg_Q) = Head(q) THEN Tail(ctrl_msg_Q) ELSE Tail(q)

(* Variant: rear keeps pointing to the node freed. *)
KeepRear(a) ==
  LET q == taken[a] IN
  /\ app[a] = "advance"
  /\ ctrl_msg_Q' = FrontAfter(q)
  /\ freed' = freed \cup {Head(q)}
  /\ Give(req[a], Head(q))
  /\ Goto(a, "idle")
  /\ UNCHANGED <<req, requests, ctrl_req_sem, read_sem, rear, taken, undefined,
                 overlapped, ctrl_resp_cb_table, timerVars, rxVars, at_slave,
                 settled, disturbed>>

(* A node that another thread has freed is used and freed again.           *)
Advance(a) ==
  LET q == taken[a] IN
  /\ app[a] = "advance"
  /\ IF Head(q) \in freed
       THEN undefined' = TRUE /\ UNCHANGED <<app, ctrl_msg_Q, taken, freed, outcomes>>
       ELSE /\ ctrl_msg_Q' = FrontAfter(q)
            /\ freed' = freed \cup {Head(q)}
            /\ Give(req[a], Head(q))
            /\ taken' = [taken EXCEPT ![a] = <<>>]
            /\ Goto(a, IF Len(q) = 1 THEN "clear" ELSE "idle")
            /\ UNCHANGED undefined
  /\ UNCHANGED <<req, requests, ctrl_req_sem, read_sem, rear, overlapped,
                 ctrl_resp_cb_table, timerVars, rxVars, at_slave, settled, disturbed>>

ClearRear(a) ==
  /\ app[a] = "clear"
  /\ rear' = 0
  /\ Goto(a, "idle")
  /\ UNCHANGED <<req, requests, ctrl_req_sem, read_sem, ctrl_msg_Q, taken, freed,
                 undefined, overlapped, ctrl_resp_cb_table, timerVars, rxVars,
                 at_slave, settled, outcomes, disturbed>>

-----------------------------------------------------------------------------
(* The slave, and the link to it, outside this module. *)

(* The request, or its response, is lost. *)
LoseRequest(n) ==
  /\ n \in at_slave
  /\ at_slave' = at_slave \ {n}
  /\ settled' = settled \cup {n}
  /\ UNCHANGED <<appVars, ctrl_req_sem, read_sem, queueVars,
                 ctrl_resp_cb_table, timerVars, rxVars, outcomes, disturbed>>

-----------------------------------------------------------------------------
(* process_ctrl_rx_msg, run by ctrl_rx_thread, on a response *)

(* A response arrives; without memory for it, it is dropped. *)
Receive(n) ==
  /\ rx = "idle" /\ n \in at_slave
  /\ at_slave' = at_slave \ {n}
  /\ \/ rx' = "stop" /\ app_resp' = n /\ UNCHANGED settled
     \/ MallocMayFail /\ settled' = settled \cup {n} /\ UNCHANGED rxVars
  /\ UNCHANGED <<appVars, ctrl_req_sem, read_sem, queueVars,
                 ctrl_resp_cb_table, timerVars, outcomes, disturbed>>

(* Variant: the timer of an answered request runs on. *)
LeaveTimer == UNCHANGED timers

(* hosted_timer_stop, on whatever timer was started last. *)
hosted_timer_stop == timers' = timers \ {async_timer_handle}

StopTimer ==
  /\ rx = "stop"
  /\ hosted_timer_stop
  /\ async_timer_handle' = 0
  /\ rx' = "deliver"
  /\ UNCHANGED <<appVars, ctrl_req_sem, read_sem, queueVars, ctrl_resp_cb_table,
                 expired, timer_task, app_resp, at_slave, settled, outcomes, disturbed>>

Callback == ctrl_resp_cb_table[requests[app_resp].id]

(* call_async_resp_callback, or the first half of esp_queue_put, which     *)
(* looks at rear; it may find no memory: then the response is dropped and  *)
(* no semaphore is posted.                                                 *)
Deliver ==
  /\ rx = "deliver"
  /\ \/ /\ Callback # 0
        /\ Give(Callback, app_resp)
        /\ rx' = "post"
        /\ UNCHANGED <<app_resp, overlapped, settled>>
     \/ /\ Callback = 0
        /\ rx' = IF rear = 0 THEN "first" ELSE "link"
        /\ overlapped' = (overlapped \/ \E a \in Apps : Getting(a))
        /\ UNCHANGED <<app_resp, settled, outcomes>>
     \/ /\ Callback = 0 /\ MallocMayFail
        /\ settled' = settled \cup {app_resp}
        /\ rx' = "idle" /\ app_resp' = 0
        /\ UNCHANGED <<overlapped, outcomes>>
  /\ UNCHANGED <<appVars, ctrl_req_sem, read_sem, ctrl_msg_Q, rear, taken, freed,
                 undefined, ctrl_resp_cb_table, timerVars, at_slave, disturbed>>

(* The other half of esp_queue_put.  The new node becomes the only one, or *)
(* is linked to the node rear points to, which front need not lead to.     *)
PutFirst ==
  /\ rx = "first"
  /\ ctrl_msg_Q' = <<app_resp>> /\ rear' = app_resp
  /\ rx' = "indicate"
  /\ UNCHANGED <<appVars, ctrl_req_sem, read_sem, taken, freed, undefined,
                 overlapped, ctrl_resp_cb_table, timerVars, app_resp, at_slave,
                 settled, outcomes, disturbed>>

PutLink ==
  /\ rx = "link"
  /\ IF rear = 0 \/ rear \in freed
       THEN undefined' = TRUE /\ UNCHANGED <<ctrl_msg_Q, rear, rx>>
       ELSE /\ ctrl_msg_Q' = IF ctrl_msg_Q # <<>> /\ ctrl_msg_Q[Len(ctrl_msg_Q)] = rear
                               THEN Append(ctrl_msg_Q, app_resp) ELSE ctrl_msg_Q
            /\ rear' = app_resp
            /\ rx' = "indicate"
            /\ UNCHANGED undefined
  /\ UNCHANGED <<appVars, ctrl_req_sem, read_sem, taken, freed, overlapped,
                 ctrl_resp_cb_table, timerVars, app_resp, at_slave, settled,
                 outcomes, disturbed>>

(* Variant: releases are counted. *)
CountPosts == read_sem' = read_sem + 1

ctrl_rx_ind == read_sem' = 1

Indicate ==
  /\ rx = "indicate"
  /\ ctrl_rx_ind
  /\ rx' = "post"
  /\ UNCHANGED <<appVars, ctrl_req_sem, queueVars, ctrl_resp_cb_table,
                 timerVars, app_resp, at_slave, settled, outcomes, disturbed>>

(* Variant: only the response to a synchronous request frees the library. *)
PostAfterSync ==
  ctrl_req_sem' = IF Callback = 0 THEN 1 ELSE ctrl_req_sem

PostRequestSemaphore == ctrl_req_sem' = 1

PostAfterResponse ==
  /\ rx = "post"
  /\ PostRequestSemaphore
  /\ settled' = settled \cup {app_resp}
  /\ rx' = "idle" /\ app_resp' = 0
  /\ UNCHANGED <<appVars, read_sem, queueVars, ctrl_resp_cb_table, timerVars,
                 at_slave, outcomes, disturbed>>

-----------------------------------------------------------------------------
(* ctrl_async_timeout_handler, run by the timer task *)

Expire(n) ==
  /\ timer_task = "idle" /\ n \in timers
  /\ MayTimeOut(n)
  /\ timers' = timers \ {n}
  /\ expired' = n
  /\ timer_task' = "call"
  /\ Disturb(n \notin settled)
  /\ UNCHANGED <<appVars, ctrl_req_sem, read_sem, queueVars, ctrl_resp_cb_table,
                 async_timer_handle, rxVars, at_slave, settled, outcomes>>

(* FreeRTOS passes the timer's handle, not the argument hosted_timer_start *)
(* was given: as func it makes the processor run the timer's own fields,   *)
(* where it faults.  If there is no memory the handler returns before.     *)
CallTimedOut ==
  /\ timer_task = "call"
  /\ \/ timer_task' = "fault" /\ UNCHANGED <<expired, disturbed>>
     \/ MallocMayFail /\ timer_task' = "idle" /\ expired' = 0 /\ Disturb(TRUE)
  /\ UNCHANGED <<appVars, ctrl_req_sem, read_sem, queueVars, ctrl_resp_cb_table,
                 async_timer_handle, timers, rxVars, at_slave, settled, outcomes>>

-----------------------------------------------------------------------------
AppStep(a) ==
  \/ Acquire(a) \/ RefuseInProgress(a) \/ Reject(a) \/ Register(a)
  \/ StartTimer(a) \/ Send(a) \/ Fail(a)
  \/ Decode(a) \/ WaitResponse(a) \/ TimeOutSync(a)
  \/ FetchResponse(a) \/ Advance(a) \/ ClearRear(a)
RxStep == StopTimer \/ Deliver \/ PutFirst \/ PutLink \/ Indicate \/ PostAfterResponse

Running == timer_task # "fault" /\ ~undefined

(* Every request has been made and nothing is left to do, or nothing runs. *)
Quiescent ==
  /\ \/ ~Running
     \/ /\ Len(requests) = MaxReq
        /\ \A a \in Apps : app[a] = "idle"
        /\ rx = "idle" /\ timer_task = "idle" /\ timers = {} /\ at_slave = {}
  /\ UNCHANGED vars

Step ==
  \/ \E a \in Apps : MakeRequest(a) \/ AppStep(a)
  \/ \E n \in Request : LoseRequest(n) \/ Receive(n) \/ Expire(n)
  \/ RxStep
  \/ CallTimedOut

Next == (Running /\ Step) \/ Quiescent

Spec == Init /\ [][Next]_vars

(* Every thread runs, timers expire, and a request is answered or lost.    *)
Fairness ==
  /\ \A a \in Apps : WF_vars(Running /\ AppStep(a))
  /\ \A n \in Request :
       /\ WF_vars(Running /\ (LoseRequest(n) \/ Receive(n)))
       /\ WF_vars(Running /\ Expire(n))
  /\ WF_vars(Running /\ RxStep) /\ WF_vars(Running /\ CallTimedOut)

FairSpec == Spec /\ Fairness

-----------------------------------------------------------------------------
(* Properties *)

(* Type invariant. *)
TypeOK ==
  /\ app \in [Apps -> {"idle", "acquire", "register", "timer", "send", "fail",
                       "decode", "wait", "fetch", "advance", "clear"}]
  /\ req \in [Apps -> 0..MaxReq]
  /\ requests \in Seq(Kind) /\ Len(requests) <= MaxReq
  /\ ctrl_req_sem \in {0, 1} /\ read_sem \in {0, 1}
  /\ ctrl_msg_Q \in Seq(Request) /\ rear \in 0..MaxReq
  /\ taken \in [Apps -> Seq(Request)]
  /\ \A a \in Apps : app[a] = "advance" => taken[a] # <<>>
  /\ freed \in SUBSET Request /\ undefined \in BOOLEAN
  /\ ctrl_resp_cb_table \in [Ids -> 0..MaxReq]
  /\ async_timer_handle \in 0..MaxReq
  /\ timers \in SUBSET Request
  /\ expired \in 0..MaxReq /\ timer_task \in {"idle", "call", "fault"}
  /\ rx \in {"idle", "stop", "deliver", "first", "link", "indicate", "post"}
  /\ app_resp \in 0..MaxReq
  /\ at_slave \in SUBSET Request /\ settled \in SUBSET Request
  /\ outcomes \in [Request -> Seq(0..MaxReq)]
  /\ overlapped \in BOOLEAN /\ disturbed \in BOOLEAN

(* Whoever gets past read_sem finds a response in the queue, however late  *)
(* responses are, whatever fails and however many wait: posts that merge,  *)
(* and responses that nobody waited for, never leave the semaphore ahead   *)
(* of the queue.  Only a put and a get, or two gets, at a time may.        *)
FetchFindsResponse ==
  ~overlapped /\ (read_sem = 1 \/ \E a \in Apps : app[a] = "fetch") => ctrl_msg_Q # <<>>

(* The list is used as it should be, whatever responses it is left with,   *)
(* unless two threads are in it at a time: rear never dangles.             *)
ListIsSound == undefined => overlapped

(* Requests that are with the slave and that somebody still waits for. *)
Ongoing == {n \in at_slave : outcomes[n] = <<>>}

(* Undisturbed, a request is sent only when no other one is ongoing. *)
OneOngoing == ~disturbed => Cardinality(Ongoing) <= 1

(* What a request is given is an error or its own response: responses      *)
(* carry an id but no number, so this rests on one request being made at a *)
(* time.                                                                   *)
OwnResponse == \A n \in Request : \A i \in DOMAIN outcomes[n] : outcomes[n][i] \in {0, n}

(* Undisturbed, a request is given one outcome at most, by its thread or   *)
(* by ctrl_rx_thread, which is an error or its own response.               *)
OneOwnOutcome == ~disturbed => \A n \in Request : outcomes[n] \in {<<>>, <<0>>, <<n>>}

(* Undisturbed, a timer fires only for a request that was given nothing:   *)
(* one that ran on after the response would stop the firmware later.       *)
FiresUnanswered == ~disturbed /\ timer_task # "idle" => outcomes[expired] = <<>>

(* A request with a callback was lost: its timer is all that is left of it.*)
LostAsync ==
  \E n \in settled :
    /\ IsAsync(n) /\ outcomes[n] = <<>>
    /\ n \in timers \/ (timer_task # "idle" /\ expired = n)

(* Undisturbed, while ctrl_req_sem is taken a thread will post it: only a  *)
(* lost request with a callback leaves it taken, for nobody is told.       *)
SemaphoreWillBePosted ==
  ~disturbed /\ ctrl_req_sem = 0 =>
    \/ rx # "idle" \/ at_slave # {} \/ LostAsync
    \/ \E a \in Apps :
         \/ app[a] \in {"register", "timer", "send"}
         \/ app[a] \in {"decode", "wait"} /\ ~IsAsync(req[a])

(* Undisturbed, every request is given an outcome, until a timer fires and *)
(* stops the firmware.                                                     *)
EveryRequestEnds ==
  \A n \in Request :
    n <= Len(requests) ~> outcomes[n] # <<>> \/ disturbed \/ timer_task = "fault"

(* The comment over ctrl_async_timeout_handler: it is called to send an    *)
(* error to the application.                                               *)
TimeoutGivesError ==
  [][timer_task = "call" /\ timer_task' # "call" => outcomes'[expired] # <<>>]_vars

-----------------------------------------------------------------------------
(* A library that serves one request at a time.                            *)

(* A synchronous caller that has no response yet.                          *)
Waits(a) == app[a] \in {"decode", "wait"} /\ ~IsAsync(req[a]) /\ ctrl_msg_Q = <<>>

(* The request for which ctrl_req_sem is taken.                            *)
Serving ==
  {n \in Request :
     /\ ctrl_req_sem = 0
     /\ \/ n \in at_slave \/ n \in timers
        \/ rx # "idle" /\ app_resp = n
        \/ timer_task # "idle" /\ expired = n
        \/ \E a \in Apps :
             req[a] = n /\ (app[a] \in {"register", "timer", "send"} \/ Waits(a))}

Queued(n) == \E i \in DOMAIN ctrl_msg_Q : ctrl_msg_Q[i] = n
Refused(n) == \E a \in Apps : app[a] = "fail" /\ req[a] = n

(* What a request was given or is sure to be given: the response that is   *)
(* queued for it, or an error if it was refused.                           *)
Decided ==
  [n \in Request |->
     IF Queued(n) THEN <<n>> ELSE IF Refused(n) THEN <<0>> ELSE outcomes[n]]

Unanswerable == {n \in settled : Decided[n] # <<n>>}

Server == INSTANCE RequestServer WITH
  made <- 1..Len(requests), serving <- Serving, lost <- Unanswerable, given <- Decided

(* Undisturbed, the library serves one request at a time: a request is     *)
(* refused only while another one is served, is given an error after that  *)
(* only if it or its response was lost, and else its own response; it is   *)
(* decided once, and ctrl_req_sem is posted only after the decision.       *)
ImplementsServer == Server!Spec
=============================================================================
