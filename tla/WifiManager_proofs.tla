------------------------- MODULE WifiManager_proofs -------------------------
(***************************************************************************)
(* Proofs about the WiFi manager, for any number of forms, of status pages *)
(* and of attempts.                                                        *)
(***************************************************************************)
EXTENDS WifiManager, TLAPS

(* Where the manager can be once the server's handlers are set: the states *)
(* that copy a configuration before any form, MIW_CONFIG_AP for one, are   *)
(* not among them.                                                         *)
ServerStates == StationStates \cup {"MIW_WAIT_NEW_CONFIG", "MIW_NEW_CONFIG_AP", "MIW_ERROR"}

(* The type invariant is not inductive alone: what a result leads to       *)
(* depends on the state that has made the request.                         *)
TypeInv ==
  /\ TypeOK
  /\ pc \in {"copy", "wait", "check"} => state \in RequestStates
  /\ pc = "clear" => state \in {"MIW_NEW_CONFIG_AP", "MIW_DHCP_WAIT_STA"}
  /\ server => state \in ServerStates

LEMMA BoundsType == MIW_MAX_ATTEMPTS \in Nat /\ MaxForms \in Nat /\ MaxStatus \in Nat
<1> QED BY BoundsAssumption

LEMMA TypeInit == Init => TypeInv
<1> SUFFICES ASSUME Init PROVE TypeInv
  OBVIOUS
<1>1. Default \in Config
  BY BoundsType DEF Default, Config
<1>2. req \in Config /\ payload \in [Update -> Config] /\ slave \in [Update -> Config]
  BY <1>1 DEF Init
<1>3. nAttempts \in 0..MIW_MAX_ATTEMPTS + 1 /\ forms \in 0..MaxForms /\ pages \in 0..MaxStatus
  BY BoundsType DEF Init
<1>4. state \in States
  BY DEF Init, States
<1> QED BY <1>2, <1>3, <1>4 DEF Init, TypeInv, TypeOK

-----------------------------------------------------------------------------
(* The steps of the web server.                                            *)

LEMMA TypeForm ==
  ASSUME TypeInv, NEW u \in Update, CGIForm_Handler(u)
  PROVE  TypeInv'
<1>1. /\ UNCHANGED <<state, nAttempts, res, pc, req, loaded, server, pages, netif_list, slave, misled>>
      /\ overtaken' \in {overtaken \cup {u}, overtaken \ {u}}
      /\ forms' = forms + 1 /\ newUpdate' = newUpdate \cup {u}
      /\ payload' = [payload EXCEPT ![u] = [ssid |-> forms + 1, pwd |-> forms + 1]]
      /\ forms < MaxForms
  BY DEF CGIForm_Handler, StoreForm, rest
<1>2. forms + 1 \in 0..MaxForms
  BY <1>1, BoundsType DEF TypeInv, TypeOK
<1>3. [ssid |-> forms + 1, pwd |-> forms + 1] \in Config
  BY <1>2 DEF Config
<1>4. payload' \in [Update -> Config] /\ newUpdate' \subseteq Update
  BY <1>1, <1>3 DEF TypeInv, TypeOK
<1> QED BY <1>1, <1>2, <1>4 DEF TypeInv, TypeOK

LEMMA TypePage ==
  ASSUME TypeInv, get_status_conn_ap
  PROVE  TypeInv'
<1>1. /\ UNCHANGED <<state, nAttempts, pc, req, loaded, newUpdate, payload, server, forms,
                    netif_list, slave, misled, overtaken>>
      /\ pages' = pages + 1 /\ pages < MaxStatus /\ res' = "NULL"
  BY DEF get_status_conn_ap, context, rest
<1>2. pages' \in 0..MaxStatus
  BY <1>1, BoundsType DEF TypeInv, TypeOK
<1> QED BY <1>1, <1>2 DEF TypeInv, TypeOK

-----------------------------------------------------------------------------
(* The steps of the manager.                                               *)

LEMMA AttemptsType ==
  ASSUME TypeInv, NEW next \in States, Retry(next)
  PROVE  nAttempts' \in 0..MIW_MAX_ATTEMPTS + 1 /\ state' \in {next, "MIW_ERROR"}
<1>1. nAttempts \in 0..MIW_MAX_ATTEMPTS + 1
  BY DEF TypeInv, TypeOK
<1> QED BY <1>1, BoundsType DEF Retry

(* The states that make no request.                                        *)
LEMMA TypeWalk ==
  ASSUME TypeInv,
         Restart \/ StartHost \/ StartInterface \/ StartServer \/ StartWaitAddress \/ NewConfig
  PROVE  TypeInv'
<1>1. /\ UNCHANGED <<req, loaded, newUpdate, payload, forms, pages, slave, misled, overtaken>>
      /\ nAttempts' \in {nAttempts, 0} /\ res' \in {res, "NULL"}
  BY DEF Restart, ResetContext, StartHost, StartInterface, StartServer, StartWaitAddress,
         NewConfig, Move, context, web, rest
<1>2. nAttempts' \in 0..MIW_MAX_ATTEMPTS + 1
  BY <1>1, BoundsType DEF TypeInv, TypeOK
<1>3. /\ pc = "run" /\ pc' \in {"run", "stuck"} /\ state' \in States
      /\ netif_list' \subseteq {"ap", "station"}
  BY DEF Restart, StartHost, StartInterface, netif_add, StartServer, StartWaitAddress,
         NewConfig, Move, rest, TypeInv, TypeOK, States, RequestStates, StationStates, JoinedStates
<1>4. server' \in BOOLEAN /\ (server' => state' \in ServerStates)
  <2>1. server \in BOOLEAN /\ (server => state \in ServerStates)
    BY DEF TypeInv, TypeOK
  <2>2. \/ server' = server /\ (state \in ServerStates => state' \in ServerStates)
        \/ server' = TRUE /\ state' \in ServerStates
    <3>1. CASE Restart \/ StartHost
      BY <3>1 DEF Restart, StartHost, Move, ServerStates, StationStates, JoinedStates
    <3>2. CASE StartInterface
      BY <3>2 DEF StartInterface, netif_add, web, ServerStates, StationStates, JoinedStates
    <3>3. CASE StartServer \/ StartWaitAddress \/ NewConfig
      BY <3>3 DEF StartServer, StartWaitAddress, NewConfig, Move, ServerStates, StationStates, JoinedStates
    <3> QED BY <3>1, <3>2, <3>3
  <2>3. CASE server' = server /\ (state \in ServerStates => state' \in ServerStates)
    BY <2>1, <2>3
  <2>4. CASE server' = TRUE /\ state' \in ServerStates
    BY <2>4
  <2> QED BY <2>2, <2>3, <2>4
<1> QED BY <1>1, <1>2, <1>3, <1>4 DEF TypeInv, TypeOK

(* The states that make a request, up to its result.                       *)
LEMMA TypeRequest ==
  ASSUME TypeInv, CopySsid \/ CopyPwd \/ Respond
  PROVE  TypeInv'
<1>1. /\ UNCHANGED <<state, nAttempts, loaded, newUpdate, payload, server, forms, pages,
                    netif_list, misled, overtaken>>
      /\ pc' \in {"copy", "wait", "check"} /\ state \in RequestStates
  BY DEF CopySsid, CopyPwd, Respond, context, web, rest, TypeInv
<1>2. res' \in {"NULL", "SUCCESS", "FAILURE", "CTRL_ERR_NO_AP_FOUND"}
  BY DEF CopySsid, CopyPwd, Respond, TypeInv, TypeOK
<1>3. Target \in Update /\ payload[Target] \in Config /\ req \in Config
  BY DEF Target, Update, TypeInv, TypeOK
<1>4. req' \in Config
  BY <1>3 DEF CopySsid, CopyPwd, Respond, Config
<1>5. slave' \in [Update -> Config]
  BY <1>3 DEF CopySsid, CopyPwd, Respond, rest, TypeInv, TypeOK
<1> QED BY <1>1, <1>2, <1>4, <1>5 DEF TypeInv, TypeOK

LEMMA TypeCheck ==
  ASSUME TypeInv, CheckResult
  PROVE  TypeInv'
<1>1. /\ UNCHANGED <<res, req, newUpdate, payload, server, forms, pages, netif_list, slave,
                    overtaken>>
      /\ misled' \in BOOLEAN /\ pc = "check" /\ state \in RequestStates
  BY DEF CheckResult, context, web, TypeInv, TypeOK
<1>2. loaded' \in SUBSET Update
  BY DEF CheckResult, Succeeded, NotConverted, Failed, NoApFound, TypeInv, TypeOK
<1>3. nAttempts' \in 0..MIW_MAX_ATTEMPTS + 1
  BY AttemptsType DEF CheckResult, Succeeded, NotConverted, Failed, NoApFound, TypeInv, TypeOK,
     States, RequestStates
<1>4. /\ pc' \in {"run", "clear"} /\ state' \in States
      /\ pc' = "clear" => state' = "MIW_NEW_CONFIG_AP"
      /\ server => state' \in ServerStates
  <2>1. CASE Succeeded
    BY <1>1, <2>1 DEF Succeeded, TypeInv, TypeOK, States, RequestStates, ServerStates, StationStates, JoinedStates
  <2>2. CASE NotConverted \/ Failed
    BY <1>1, <2>2 DEF NotConverted, Failed, TypeInv, TypeOK, States, ServerStates
  <2>3. CASE NoApFound
    BY <1>1, <2>3, AttemptsType DEF NoApFound, States, RequestStates, ServerStates, StationStates, JoinedStates
  <2> QED BY <2>1, <2>2, <2>3 DEF CheckResult
<1> QED BY <1>1, <1>2, <1>3, <1>4 DEF TypeInv, TypeOK

LEMMA TypeEnd ==
  ASSUME TypeInv, DhcpWait \/ ClearUpdate
  PROVE  TypeInv'
<1>1. UNCHANGED <<res, req, payload, server, forms, pages, netif_list, slave, misled,
                  overtaken>>
  BY DEF DhcpWait, ClearUpdate, context, web, rest
<1>2. loaded' \in SUBSET Update /\ newUpdate' \in SUBSET Update
  BY DEF DhcpWait, ClearUpdate, clear_update, context, TypeInv, TypeOK
<1>3. nAttempts' \in 0..MIW_MAX_ATTEMPTS + 1
  <2>1. nAttempts \in 0..MIW_MAX_ATTEMPTS + 1 /\ "MIW_GET_IP_STA" \in States
    BY DEF TypeInv, TypeOK, States, StationStates, JoinedStates
  <2>2. nAttempts' = nAttempts \/ Retry("MIW_GET_IP_STA")
    BY DEF DhcpWait, ClearUpdate
  <2> QED BY <2>1, <2>2, AttemptsType
<1>4. /\ pc' \in {"run", "clear"} /\ state' \in States
      /\ pc' = "clear" => state' = "MIW_DHCP_WAIT_STA"
      /\ state' \in ServerStates
  <2>1. CASE DhcpWait
    BY <2>1, AttemptsType DEF DhcpWait, States, ServerStates, StationStates, JoinedStates
  <2>2. CASE ClearUpdate
    BY <2>2 DEF ClearUpdate, States, ServerStates
  <2> QED BY <2>1, <2>2
<1> QED BY <1>1, <1>2, <1>3, <1>4 DEF TypeInv, TypeOK

LEMMA TypeStep == TypeInv /\ [Next]_vars => TypeInv'
<1> SUFFICES ASSUME TypeInv, [Next]_vars
             PROVE  TypeInv'
  OBVIOUS
<1>1. CASE UNCHANGED vars \/ Quiescent
  <2>1. UNCHANGED <<state, nAttempts, res, pc, req, loaded, newUpdate, payload, server, forms,
                    pages, netif_list, slave, misled, overtaken>>
    BY <1>1 DEF vars, context, web, rest, Quiescent
  <2> QED BY <2>1 DEF TypeInv, TypeOK
<1> QED BY <1>1, TypeForm, TypePage, TypeWalk, TypeRequest, TypeCheck, TypeEnd DEF Next, Run

LEMMA Typed == Spec => []TypeInv
<1> QED BY TypeInit, TypeStep, PTL DEF Spec

(* The shared counter of attempts stays in its bounds, through all the     *)
(* states that count in it.                                                *)
THEOREM TypeCorrect == Spec => []TypeOK
<1>1. TypeInv => TypeOK
  BY DEF TypeInv
<1> QED BY <1>1, Typed, PTL

-----------------------------------------------------------------------------
(* Updates.  What the manager is about to do with a configuration it has   *)
(* begun to copy keeps ChangesArePending, unless the configuration has     *)
(* been overtaken: its request is what is stored, up to the slave's        *)
(* answer, and the slave runs with what is stored from there to the        *)
(* clearing of the bit, while the other bit stays as loaded.               *)

Undisturbed == Update \ overtaken

(* Here and in AppliedInv the manager was not misled.                      *)
RequestInv ==
  (pc = "check" /\ res = "SUCCESS" /\ state # "MIW_CONFIG" /\ Target \in Undisturbed) =>
    slave[Target] = payload[Target]

AppliedInv ==
  /\ (pc = "clear" /\ state = "MIW_NEW_CONFIG_AP" /\ "UPDATE_AP" \in Undisturbed) =>
       slave["UPDATE_AP"] = payload["UPDATE_AP"]
  /\ (state \in JoinedStates /\ "UPDATE_STA" \in Undisturbed) =>
       slave["UPDATE_STA"] = payload["UPDATE_STA"]

(* Also of a manager that was misled.                                      *)
CopyInv ==
  /\ (pc = "copy" /\ Target \in Undisturbed) => req.ssid = payload[Target].ssid
  /\ (pc = "wait" /\ Target \in Undisturbed) => req = payload[Target]
  /\ pc = "clear" => loaded \subseteq newUpdate /\ newUpdate \ loaded \subseteq overtaken

UpdateInv == CopyInv /\ ChangesArePending /\ (~misled => RequestInv /\ AppliedInv)

LEMMA UpdateForm ==
  ASSUME TypeInv, UpdateInv, NEW u \in Update, CGIForm_Handler(u)
  PROVE  UpdateInv'
<1>1. /\ UNCHANGED <<state, res, pc, req, loaded, slave, misled>>
      /\ server /\ newUpdate' = newUpdate \cup {u}
      /\ payload' = [payload EXCEPT ![u] = [ssid |-> forms + 1, pwd |-> forms + 1]]
      /\ overtaken' = IF InTheMiddle(u) THEN overtaken \cup {u} ELSE overtaken \ {u}
  BY DEF CGIForm_Handler, StoreForm, rest
<1>2. state \in ServerStates /\ (pc \in {"copy", "wait", "check"} => state \in RequestStates)
  BY <1>1 DEF TypeInv
<1>3. /\ \A v \in Update \ {u} : payload'[v] = payload[v] /\ (v \in Undisturbed' => v \in Undisturbed)
      /\ Target' = Target /\ Target \in Update
  BY <1>1 DEF TypeInv, TypeOK, Undisturbed, Target, Update
<1>4. u \in Undisturbed' => u \notin Applying /\ pc # "clear"
  BY <1>1 DEF Undisturbed, InTheMiddle
<1>5. ChangesArePending'
  BY <1>1, <1>3 DEF UpdateInv, ChangesArePending, Undisturbed
<1>6. pc \in {"copy", "wait", "check"} => Target \in Applying
  BY <1>1, <1>2 DEF Target, Applying, Update, ServerStates, StationStates, JoinedStates, RequestStates
<1>7. pc \in {"copy", "wait", "check"} /\ Target \in Undisturbed' =>
        Target \in Undisturbed /\ payload'[Target] = payload[Target]
  BY <1>3, <1>4, <1>6
<1>8. CopyInv'
  <2>1. pc = "clear" => newUpdate' \ loaded \subseteq overtaken'
    BY <1>1 DEF InTheMiddle, UpdateInv, CopyInv
  <2> QED BY <1>1, <1>3, <1>7, <2>1 DEF UpdateInv, CopyInv
<1>9. ~misled => RequestInv'
  BY <1>1, <1>3, <1>7 DEF UpdateInv, RequestInv
<1>10. ~misled => AppliedInv'
  <2>1. \A v \in {"UPDATE_AP", "UPDATE_STA"} \cap Undisturbed' :
          v \in Applying \/ pc = "clear" => v \in Undisturbed /\ payload'[v] = payload[v]
    BY <1>3, <1>4 DEF Update
  <2>2. pc = "clear" /\ state = "MIW_NEW_CONFIG_AP" => "UPDATE_AP" \in Applying
    BY DEF Applying, JoinedStates
  <2>3. state \in JoinedStates => "UPDATE_STA" \in Applying
    BY DEF Applying, JoinedStates
  <2> QED BY <1>1, <2>1, <2>2, <2>3 DEF UpdateInv, AppliedInv
<1> QED BY <1>1, <1>5, <1>8, <1>9, <1>10 DEF UpdateInv

(* The steps that change neither a configuration nor an update bit.        *)
LEMMA UpdateWalk ==
  ASSUME TypeInv, UpdateInv,
         \/ get_status_conn_ap
         \/ Restart \/ StartHost \/ StartInterface \/ StartServer \/ StartWaitAddress \/ NewConfig
  PROVE  UpdateInv'
<1>1. UNCHANGED <<req, loaded, newUpdate, payload, slave, misled, overtaken>>
  BY DEF get_status_conn_ap, Restart, StartHost, StartInterface, StartServer, StartWaitAddress,
         NewConfig, Move, context, rest
<1>2. ChangesArePending'
  BY <1>1 DEF UpdateInv, ChangesArePending
<1>3. CASE get_status_conn_ap
  <2>1. UNCHANGED <<state, pc>> /\ res' = "NULL" /\ Target' = Target
    BY <1>3 DEF get_status_conn_ap, Target
  <2> QED BY <1>1, <1>2, <2>1 DEF UpdateInv, CopyInv, RequestInv, AppliedInv, Undisturbed
<1>4. CASE ~get_status_conn_ap
  <2>1. pc' \in {"run", "stuck"}
    BY <1>4 DEF Restart, StartHost, StartInterface, netif_add, StartServer, StartWaitAddress,
           NewConfig, Move
  <2>2. state' \in JoinedStates => state \in JoinedStates
    BY <1>4 DEF Restart, StartHost, StartInterface, netif_add, StartServer, StartWaitAddress,
           NewConfig, Move, JoinedStates
  <2> QED BY <1>1, <1>2, <2>1, <2>2 DEF UpdateInv, CopyInv, RequestInv, AppliedInv, Undisturbed
<1> QED BY <1>3, <1>4

LEMMA UpdateRequest ==
  ASSUME TypeInv, UpdateInv, CopySsid \/ CopyPwd \/ Respond
  PROVE  UpdateInv'
<1>1. /\ UNCHANGED <<state, newUpdate, payload, misled, overtaken>>
      /\ Target' = Target /\ Undisturbed' = Undisturbed /\ state \in RequestStates
  BY DEF CopySsid, CopyPwd, Respond, context, rest, Target, TypeInv, Undisturbed
<1>2. Target \in Update /\ payload[Target] \in Config /\ req \in Config
  BY DEF Target, Update, TypeInv, TypeOK
<1>3. CASE CopySsid
  <2>1. req'.ssid = payload[Target].ssid /\ pc' = "copy" /\ slave' = slave
    BY <1>2, <1>3 DEF CopySsid, rest, Config
  <2> QED BY <1>1, <2>1 DEF UpdateInv, ChangesArePending, CopyInv, RequestInv, AppliedInv
<1>4. CASE CopyPwd
  <2>1. pc = "copy" /\ pc' = "wait" /\ slave' = slave
        /\ req' = [req EXCEPT !.pwd = payload[Target].pwd]
    BY <1>4 DEF CopyPwd, rest
  <2>2. Target \in Undisturbed => req' = payload[Target]
    BY <1>1, <1>2, <2>1 DEF UpdateInv, CopyInv, Config
  <2> QED BY <1>1, <2>1, <2>2 DEF UpdateInv, ChangesArePending, CopyInv, RequestInv, AppliedInv
<1>5. CASE Respond
  <2>1. /\ pc = "wait" /\ pc' = "check"
        /\ \/ res' # "SUCCESS" /\ slave' = slave
           \/ state = "MIW_CONFIG" /\ slave' = slave
           \/ slave' = [slave EXCEPT ![Target] = req]
    BY <1>5 DEF Respond
  <2>2. Target \in Undisturbed => req = payload[Target]
    BY <1>1, <2>1 DEF UpdateInv, CopyInv
  <2>3. CASE slave' = slave /\ (res' # "SUCCESS" \/ state = "MIW_CONFIG")
    BY <1>1, <2>1, <2>3 DEF UpdateInv, ChangesArePending, CopyInv, RequestInv, AppliedInv
  <2>4. CASE slave' = [slave EXCEPT ![Target] = req]
    <3>1. \A v \in Undisturbed : slave'[v] = slave[v] \/ slave'[v] = payload[v]
      BY <1>2, <2>2, <2>4 DEF TypeInv, TypeOK, Undisturbed
    <3>2. Target \in Undisturbed => slave'[Target] = payload[Target]
      BY <1>2, <2>2, <2>4 DEF TypeInv, TypeOK
    <3>3. ChangesArePending'
      BY <1>1, <3>1 DEF UpdateInv, ChangesArePending, Undisturbed
    <3>4. ~misled => AppliedInv'
      <4>1. \A v \in {"UPDATE_AP", "UPDATE_STA"} \cap Undisturbed :
              slave[v] = payload[v] => slave'[v] = payload[v]
        BY <3>1
      <4> QED BY <1>1, <2>1, <4>1 DEF UpdateInv, AppliedInv
    <3> QED BY <1>1, <2>1, <3>2, <3>3, <3>4 DEF UpdateInv, CopyInv, RequestInv
  <2> QED BY <2>1, <2>3, <2>4
<1> QED BY <1>3, <1>4, <1>5

LEMMA UpdateCheck ==
  ASSUME TypeInv, UpdateInv, CheckResult
  PROVE  UpdateInv'
<1>1. /\ UNCHANGED <<newUpdate, payload, slave, overtaken>> /\ Undisturbed' = Undisturbed
      /\ pc = "check" /\ state \in RequestStates
      /\ ~misled' => ~misled /\ res # "NULL"
  BY DEF CheckResult, context, TypeInv, Undisturbed
<1>2. ChangesArePending'
  BY <1>1 DEF UpdateInv, ChangesArePending
<1>3. CopyInv'
  <2>1. pc' \in {"run", "clear"} /\ (pc' = "clear" => loaded' = newUpdate)
    BY DEF CheckResult, Succeeded, NotConverted, Failed, NoApFound
  <2> QED BY <1>1, <2>1 DEF CopyInv
<1>4. ASSUME ~misled'
      PROVE  RequestInv' /\ AppliedInv'
  <2>1. CASE Succeeded
    <3>1. res = "SUCCESS"
      BY <1>1, <1>4, <2>1 DEF Succeeded, Status
    <3>2. state # "MIW_CONFIG" /\ Target \in Undisturbed => slave[Target] = payload[Target]
      BY <1>1, <1>4, <3>1 DEF UpdateInv, RequestInv
    <3>3. /\ pc' \in {"run", "clear"}
          /\ pc' = "clear" => state = "MIW_NEW_CONFIG_AP" /\ state' = state
          /\ state' \in JoinedStates => state = "MIW_CONFIG_STA"
      BY <1>1, <2>1 DEF Succeeded, JoinedStates, RequestStates
    <3>4. /\ state = "MIW_NEW_CONFIG_AP" => Target = "UPDATE_AP"
          /\ state = "MIW_CONFIG_STA" => Target = "UPDATE_STA"
      BY DEF Target
    <3> QED BY <1>1, <3>2, <3>3, <3>4 DEF RequestInv, AppliedInv
  <2>2. CASE ~Succeeded
    <3>1. pc' = "run" /\ state' \notin JoinedStates
      BY <1>1, <2>2 DEF CheckResult, NotConverted, Failed, NoApFound, Retry, JoinedStates
    <3> QED BY <3>1 DEF RequestInv, AppliedInv
  <2> QED BY <2>1, <2>2
<1> QED BY <1>2, <1>3, <1>4 DEF UpdateInv

(* What is cleared with the bit of the update has overtaken it.            *)
LEMMA Cleared ==
  ASSUME TypeInv, UpdateInv, ClearUpdate
  PROVE  \E S \in SUBSET Update :
           /\ newUpdate' = newUpdate \ S
           /\ misled \/ \A u \in S \ overtaken : slave[u] = payload[u]
<1> DEFINE done == IF state = "MIW_NEW_CONFIG_AP" THEN "UPDATE_AP" ELSE "UPDATE_STA"
           S == (newUpdate \ loaded) \cup {done}
<1>1. pc = "clear" /\ newUpdate' = loaded \ {done}
  BY DEF ClearUpdate, clear_update
<1>2. /\ loaded \subseteq newUpdate /\ newUpdate \ loaded \subseteq overtaken
      /\ state \in {"MIW_NEW_CONFIG_AP", "MIW_DHCP_WAIT_STA"} /\ newUpdate \subseteq Update
  BY <1>1 DEF UpdateInv, CopyInv, TypeInv, TypeOK
<1>3. done \in Update
  BY DEF Update
<1>4. misled \/ (done \notin overtaken => slave[done] = payload[done])
  BY <1>1, <1>2, <1>3 DEF UpdateInv, AppliedInv, JoinedStates, Undisturbed
<1>5. newUpdate' = newUpdate \ S /\ S \in SUBSET Update
  BY <1>1, <1>2, <1>3
<1>6. \A u \in S \ overtaken : u = done
  BY <1>2
<1> QED BY <1>4, <1>5, <1>6

LEMMA UpdateEnd ==
  ASSUME TypeInv, UpdateInv, DhcpWait \/ ClearUpdate
  PROVE  UpdateInv'
<1>1. UNCHANGED <<payload, slave, misled, overtaken>> /\ Undisturbed' = Undisturbed
  BY DEF DhcpWait, ClearUpdate, context, rest, Undisturbed
<1>2. CASE DhcpWait
  <2>1. /\ state = "MIW_DHCP_WAIT_STA" /\ newUpdate' = newUpdate /\ pc' \in {"run", "clear"}
        /\ state' \in {"MIW_DHCP_WAIT_STA", "MIW_GET_IP_STA", "MIW_ERROR"}
        /\ pc' = "clear" => loaded' = newUpdate /\ state' = state
    BY <1>2 DEF DhcpWait, Retry, context
  <2>2. state \in JoinedStates
    BY <2>1 DEF JoinedStates
  <2> QED BY <1>1, <2>1, <2>2 DEF UpdateInv, ChangesArePending, CopyInv, RequestInv, AppliedInv
<1>3. CASE ClearUpdate
  <2>1. pc' = "run" /\ state' = "MIW_WAIT_NEW_CONFIG"
    BY <1>3 DEF ClearUpdate
  <2>2. ChangesArePending'
    BY <1>1, <1>3, Cleared DEF UpdateInv, ChangesArePending
  <2> QED BY <2>1, <2>2 DEF UpdateInv, CopyInv, RequestInv, AppliedInv, JoinedStates
<1> QED BY <1>2, <1>3

LEMMA UpdateStep == TypeInv /\ UpdateInv /\ [Next]_vars => UpdateInv'
<1> SUFFICES ASSUME TypeInv, UpdateInv, [Next]_vars
             PROVE  UpdateInv'
  OBVIOUS
<1>1. CASE UNCHANGED vars \/ Quiescent
  <2>1. UNCHANGED <<state, res, pc, req, loaded, newUpdate, payload, slave, misled, overtaken>>
    BY <1>1 DEF vars, context, rest, Quiescent
  <2> QED BY <2>1 DEF UpdateInv, ChangesArePending, CopyInv, RequestInv, AppliedInv, Target,
                      Undisturbed
<1> QED BY <1>1, UpdateForm, UpdateWalk, UpdateRequest, UpdateCheck, UpdateEnd DEF Next, Run

LEMMA UpdateStart == Init => UpdateInv
<1> QED BY DEF Init, UpdateInv, ChangesArePending, CopyInv, RequestInv, AppliedInv, JoinedStates

(* Until the manager follows a null result, what the slave does not run    *)
(* with is pending, but for a configuration that came in the middle of an  *)
(* update: timeouts after which the slave has the configuration or not,    *)
(* repeated attempts, addresses that do not convert, status pages and      *)
(* forms for either configuration at any other time lose nothing.          *)
THEOREM Pending == Spec => []ChangesArePending
<1>1. UpdateInv => ChangesArePending
  BY DEF UpdateInv
<1> QED BY <1>1, UpdateStart, UpdateStep, Typed, PTL DEF Spec

-----------------------------------------------------------------------------
(* The store of configurations.                                            *)

(* The manager's step is a step of the store, or leaves it as it is.       *)
LEMMA StoreStep ==
  ASSUME TypeInv, UpdateInv, [Next]_vars
  PROVE  [Store!Next]_(Store!vars)
<1> DEFINE Kept == UNCHANGED <<newUpdate, payload, slave, misled, overtaken>>
<1>1. ASSUME NEW u \in Update, CGIForm_Handler(u)
      PROVE  Store!Next
  <2>1. forms + 1 \in 0..MaxForms
    BY <1>1, BoundsType DEF TypeInv, TypeOK, CGIForm_Handler
  <2>2. [ssid |-> forms + 1, pwd |-> forms + 1] \in Config
    BY <2>1 DEF Config
  <2>3. Store!Store(u)
    BY <1>1, <2>2 DEF Store!Store, CGIForm_Handler, StoreForm, rest
  <2> QED BY <2>3 DEF Store!Next
<1>2. CASE \/ get_status_conn_ap \/ Restart \/ StartHost \/ StartInterface \/ StartServer
           \/ StartWaitAddress \/ NewConfig \/ CopySsid \/ CopyPwd \/ DhcpWait
  <2>1. Kept
    BY <1>2 DEF get_status_conn_ap, Restart, StartHost, StartInterface, StartServer,
           StartWaitAddress, NewConfig, Move, CopySsid, CopyPwd, DhcpWait, context, rest
  <2> QED BY <2>1 DEF Store!vars
<1>3. CASE Respond
  <2>1. pc = "wait" /\ UNCHANGED <<newUpdate, payload, misled, overtaken>>
    BY <1>3 DEF Respond, context
  <2>2. slave' = slave \/ slave' = [slave EXCEPT ![Target] = req]
    BY <1>3, <2>1 DEF Respond
  <2>3. Target \in Update /\ req \in (IF Target \in overtaken THEN Config ELSE {payload[Target]})
    BY <2>1 DEF Target, Update, UpdateInv, CopyInv, Undisturbed, TypeInv, TypeOK
  <2>4. Kept \/ Store!Apply(Target)
    BY <2>1, <2>2, <2>3 DEF Store!Apply
  <2> QED BY <2>3, <2>4 DEF Store!Next, Store!vars
<1>4. CASE CheckResult
  <2>1. UNCHANGED <<newUpdate, payload, slave, overtaken>> /\ (misled' = misled \/ misled' = TRUE)
    <3>1. misled' = (misled \/ res = "NULL") /\ misled \in BOOLEAN
      BY <1>4 DEF CheckResult, TypeInv, TypeOK
    <3>2. UNCHANGED <<newUpdate, payload, slave, overtaken>>
      BY <1>4 DEF CheckResult, context
    <3> QED BY <3>1, <3>2
  <2> QED BY <2>1 DEF Store!Next, Store!Mislead, Store!vars
<1>5. CASE ClearUpdate
  <2>1. UNCHANGED <<payload, slave, misled, overtaken>>
    BY <1>5 DEF ClearUpdate, rest
  <2>2. PICK S \in SUBSET Update :
          /\ newUpdate' = newUpdate \ S
          /\ misled \/ \A u \in S \ overtaken : slave[u] = payload[u]
    BY <1>5, Cleared
  <2>3. Store!TickOff(S)
    BY <2>1, <2>2 DEF Store!TickOff
  <2> QED BY <2>3 DEF Store!Next
<1>6. CASE UNCHANGED vars \/ Quiescent
  <2>1. Kept
    BY <1>6 DEF vars, context, rest, Quiescent
  <2> QED BY <2>1 DEF Store!vars
<1> QED BY <1>1, <1>2, <1>3, <1>4, <1>5, <1>6 DEF Next, Run

(* The manager keeps a store of configurations, with forms at any time:    *)
(* the slave gets them in whole, and an update is ticked off when it has   *)
(* been applied, but for a configuration that came in the middle of an     *)
(* update, up to the next one of its kind.                                 *)
THEOREM ManagerIsStore == Spec => ImplementsStore
<1>1. Init => Store!Init
  BY DEF Init, Store!Init
<1>2. TypeInv /\ UpdateInv /\ [Next]_vars => [Store!Next]_(Store!vars)
  BY StoreStep
<1> QED BY <1>1, <1>2, UpdateStart, UpdateStep, Typed, PTL DEF Spec, ImplementsStore, Store!Spec
=============================================================================
