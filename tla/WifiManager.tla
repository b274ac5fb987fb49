---------------------------- MODULE WifiManager ----------------------------
(***************************************************************************)
(* The WiFi manager (Core/Src/mod_interface_wifi.c), a state machine that  *)
(* the default task polls, and the web server (Core/Src/http_server.c,     *)
(* set_data_cgi of Core/Src/main.c), which runs in the lwIP thread.  The   *)
(* lwIP thread has the higher priority: its handlers are one step each,    *)
(* and they may come between any two accesses of the manager.              *)
(*                                                                         *)
(* A form stores a configuration and sets its update bit.  The manager     *)
(* copies the configuration into a request, sends it to the slave, and     *)
(* clears the bit when the slave has taken it.  A configuration is two     *)
(* fields that belong together; the form sent n-th sets both to n, and 0   *)
(* is the default, which is set before the server is up.                   *)
(*                                                                         *)
(* Time is not modelled: a wait may end as soon as it has begun.  The      *)
(* responses are the manager's own (ControlLib shows when they are not).   *)
(***************************************************************************)
EXTENDS Integers

CONSTANTS
  MIW_MAX_ATTEMPTS,
  MaxForms,         (* bound: forms sent to the web server                 *)
  MaxStatus         (* bound: status pages asked for                       *)

ASSUME BoundsAssumption ==
  {MIW_MAX_ATTEMPTS, MaxForms, MaxStatus} \subseteq Nat

Update == {"UPDATE_AP", "UPDATE_STA"}
Config == [ssid : 0..MaxForms, pwd : 0..MaxForms]

(* The states that make a request, and those of the station.               *)
RequestStates == {"MIW_CONFIG", "MIW_CONFIG_AP", "MIW_NEW_CONFIG_AP", "MIW_CONFIG_STA"}
JoinedStates == {"MIW_START_LWIP_STA", "MIW_GET_IP_STA", "MIW_DHCP_WAIT_STA"}
StationStates == JoinedStates \cup {"MIW_CONFIG_STA"}
States == RequestStates \cup StationStates \cup
  {"MIW_INIT", "MIW_RESET", "MIW_INIT_HOST", "MIW_WAIT_HOST", "MIW_WAIT_ESP",
   "MIW_START_LWIP_AP", "MIW_HTTP_INIT_AP", "MIW_WAIT_NEW_CONFIG", "MIW_ERROR"}

VARIABLES
  state,      (* wifiContext.state                                         *)
  nAttempts,  (* wifiContext.nAttempts                                     *)
  res,        (* wifiContext.res: NULL, or the status of the response      *)
  pc,         (* where the manager is within the case of its state         *)
  req,        (* the configuration in its request                          *)
  loaded,     (* the update bits as loaded, to be stored with one cleared  *)
  newUpdate,  (* the update bits                                           *)
  payload,    (* the stored configurations                                 *)
  server,     (* the handlers of the web server are set                    *)
  forms,      (* forms sent so far                                         *)
  pages,      (* status pages asked for so far                             *)
  netif_list, (* the interfaces added to lwIP                              *)
  slave,      (* the configurations the slave runs with                    *)
  misled,     (* history: the manager has followed a null result           *)
  overtaken   (* history: the configurations whose last form came in the   *)
              (* middle of an update                                       *)

context == <<newUpdate, payload>>
web     == <<server, forms, pages>>
rest    == <<netif_list, slave, misled>>
vars == <<state, nAttempts, res, pc, req, loaded, context, web, rest, overtaken>>

(* init_values_default *)
Default == [ssid |-> 0, pwd |-> 0]

Init ==
  /\ state = "MIW_INIT"
  /\ nAttempts = 0
  /\ res = "NULL"
  /\ pc = "run"
  /\ req = Default
  /\ loaded = {}
  /\ newUpdate = {}
  /\ payload = [u \in Update |-> Default]
  /\ server = FALSE
  /\ forms = 0 /\ pages = 0
  /\ netif_list = {}
  /\ slave = [u \in Update |-> Default]
  /\ misled = FALSE
  /\ overtaken = {}

-----------------------------------------------------------------------------
(* The web server *)

(* The update whose configuration has been copied, in part, and whose bit  *)
(* has not been cleared yet.                                               *)
Applying == CASE state = "MIW_NEW_CONFIG_AP" /\ pc # "run" -> {"UPDATE_AP"}
              [] state = "MIW_CONFIG_STA" /\ pc # "run" -> {"UPDATE_STA"}
              [] state \in JoinedStates -> {"UPDATE_STA"}
              [] OTHER -> {}

(* A form comes in the middle of an update when its configuration is being *)
(* applied, or when a bit, its own or the other one, is being cleared.     *)
InTheMiddle(u) == u \in Applying \/ pc = "clear"

(* set_data_cgi: the n-th form is stored and its bit is set. *)
StoreForm(u, n) ==
  /\ payload' = [payload EXCEPT ![u] = [ssid |-> n, pwd |-> n]]
  /\ newUpdate' = newUpdate \cup {u}

(* The page that is returned says that the configuration was made. *)
CGIForm_Handler(u) ==
  /\ server
  /\ forms < MaxForms
  /\ forms' = forms + 1
  /\ StoreForm(u, forms + 1)
  /\ overtaken' = IF InTheMiddle(u) THEN overtaken \cup {u} ELSE overtaken \ {u}
  /\ UNCHANGED <<state, nAttempts, res, pc, req, loaded, server, pages, rest>>

(* ssi_handler calls get_status_conn_ap, which clears the manager's result *)
(* and makes a request of its own.                                         *)
get_status_conn_ap ==
  /\ server
  /\ pages < MaxStatus
  /\ pages' = pages + 1
  /\ res' = "NULL"
  /\ UNCHANGED <<state, nAttempts, pc, req, loaded, context, server, forms, rest, overtaken>>

-----------------------------------------------------------------------------
(* mod_interface_wifi_run: the states that make no request *)

Move(from, to) ==
  /\ pc = "run" /\ state = from
  /\ state' = to
  /\ UNCHANGED <<pc, req, loaded, context, forms, pages, rest, overtaken>>

(* miw_reset_context *)
ResetContext == nAttempts' = 0 /\ res' = "NULL"

(* At the start, and after a timeout of the host. *)
Restart ==
  /\ \E s \in {"MIW_INIT", "MIW_RESET"} : Move(s, "MIW_INIT_HOST")
  /\ ResetContext
  /\ UNCHANGED server

StartHost ==
  /\ \/ Move("MIW_INIT_HOST", "MIW_WAIT_HOST")
     \/ Move("MIW_WAIT_HOST", "MIW_WAIT_ESP")   \* check_transaction_task
     \/ Move("MIW_WAIT_HOST", "MIW_RESET")      \* MIW_DELAY_INIT_ESP32 is over
     \/ Move("MIW_WAIT_ESP", "MIW_CONFIG")
  /\ UNCHANGED <<nAttempts, res, server>>

(* netif_add looks for a number that no interface of the list has, and     *)
(* starts over with the next number when one has it.  An interface that is *)
(* in the list already meets itself there each time: the failed assertion  *)
(* is printed, and the search does not end.                                *)
netif_add(i) ==
  IF i \in netif_list
    THEN pc' = "stuck" /\ UNCHANGED <<state, netif_list>>
    ELSE /\ netif_list' = netif_list \cup {i}
         /\ state' = IF i = "ap" THEN "MIW_HTTP_INIT_AP" ELSE "MIW_GET_IP_STA"
         /\ UNCHANGED pc

(* lwip_startup_ap and lwip_startup_station: the device is opened, and the *)
(* interface is added.                                                     *)
StartInterface ==
  /\ pc = "run"
  /\ \/ state = "MIW_START_LWIP_AP" /\ netif_add("ap")
     \/ state = "MIW_START_LWIP_STA" /\ netif_add("station")
  /\ UNCHANGED <<nAttempts, res, req, loaded, context, web, slave, misled, overtaken>>

StartServer ==
  /\ Move("MIW_HTTP_INIT_AP", "MIW_WAIT_NEW_CONFIG")
  /\ server' = TRUE
  /\ UNCHANGED <<nAttempts, res>>

StartWaitAddress ==
  /\ Move("MIW_GET_IP_STA", "MIW_DHCP_WAIT_STA")
  /\ UNCHANGED <<nAttempts, res, server>>

(* A pending update of the access point goes first. *)
NewConfig ==
  /\ \/ "UPDATE_AP" \in newUpdate /\ Move("MIW_WAIT_NEW_CONFIG", "MIW_NEW_CONFIG_AP")
     \/ /\ "UPDATE_STA" \in newUpdate \ {"UPDATE_AP"}
        /\ Move("MIW_WAIT_NEW_CONFIG", "MIW_CONFIG_STA")
  /\ UNCHANGED <<nAttempts, res, server>>

-----------------------------------------------------------------------------
(* The states that make a request *)

Target == IF state = "MIW_CONFIG_STA" THEN "UPDATE_STA" ELSE "UPDATE_AP"

(* The first field is copied into the request, then the second one, and    *)
(* the request is sent.                                                    *)
CopySsid ==
  /\ pc = "run" /\ state \in RequestStates
  /\ req' = [req EXCEPT !.ssid = payload[Target].ssid]
  /\ pc' = "copy"
  /\ UNCHANGED <<state, nAttempts, res, loaded, context, web, rest, overtaken>>

CopyPwd ==
  /\ pc = "copy"
  /\ req' = [req EXCEPT !.pwd = payload[Target].pwd]
  /\ res' = "NULL"
  /\ pc' = "wait"
  /\ UNCHANGED <<state, nAttempts, loaded, context, web, rest, overtaken>>

(* The request returns: NULL after a timeout or a failure on this side,    *)
(* whatever the slave did, or the slave's status.                          *)
Respond ==
  /\ pc = "wait"
  /\ pc' = "check"
  /\ \/ /\ res' \in {"SUCCESS", "NULL"}
        /\ slave' = IF state = "MIW_CONFIG" THEN slave
                      ELSE [slave EXCEPT ![Target] = req]
     \/ res' \in {"NULL", "FAILURE"} /\ UNCHANGED slave
     \/ state = "MIW_CONFIG_STA" /\ res' = "CTRL_ERR_NO_AP_FOUND" /\ UNCHANGED slave
  /\ UNCHANGED <<state, nAttempts, req, loaded, context, web, netif_list, misled, overtaken>>

(* Variant: an attempt is not counted. *)
RetryForever(next) ==
  UNCHANGED nAttempts /\ state' = next

(* Variant: attempts are counted and not limited. *)
RetryUnlimited(next) ==
  nAttempts' = nAttempts + 1 /\ state' = next

(* Another attempt, at the same configuration or at its address, up to     *)
(* MIW_MAX_ATTEMPTS + 1 of them.                                           *)
Retry(next) ==
  IF nAttempts > MIW_MAX_ATTEMPTS
    THEN nAttempts' = 0 /\ state' = "MIW_ERROR"
    ELSE nAttempts' = nAttempts + 1 /\ state' = next

(* The status is looked at through the pointer.  A null pointer is not     *)
(* checked for: what is read there may be any status.                      *)
Status(s) == res \in {s, "NULL"}

Succeeded ==
  /\ Status("SUCCESS")
  /\ IF state = "MIW_NEW_CONFIG_AP"
       THEN pc' = "clear" /\ loaded' = newUpdate /\ UNCHANGED state
       ELSE /\ pc' = "run"
            /\ state' = CASE state = "MIW_CONFIG" -> "MIW_CONFIG_AP"
                          [] state = "MIW_CONFIG_AP" -> "MIW_START_LWIP_AP"
                          [] state = "MIW_CONFIG_STA" -> "MIW_START_LWIP_STA"
            /\ UNCHANGED loaded
  /\ UNCHANGED nAttempts

(* The address of the interface may not convert: the request is made       *)
(* again, and no attempt is counted.                                       *)
NotConverted ==
  /\ Status("SUCCESS") /\ state \in {"MIW_CONFIG_AP", "MIW_CONFIG_STA"}
  /\ pc' = "run"
  /\ UNCHANGED <<state, nAttempts, loaded>>

Failed ==
  /\ Status("FAILURE")
  /\ state' = "MIW_ERROR" /\ pc' = "run"
  /\ UNCHANGED <<nAttempts, loaded>>

NoApFound ==
  /\ Status("CTRL_ERR_NO_AP_FOUND") /\ state = "MIW_CONFIG_STA"
  /\ Retry("MIW_CONFIG_STA") /\ pc' = "run"
  /\ UNCHANGED loaded

CheckResult ==
  /\ pc = "check"
  /\ Succeeded \/ NotConverted \/ Failed \/ NoApFound
  /\ misled' = (misled \/ res = "NULL")
  /\ UNCHANGED <<res, req, context, web, netif_list, slave, overtaken>>

(* An address from DHCP ends the update of the station; without one the    *)
(* wait is repeated.                                                       *)
DhcpWait ==
  /\ pc = "run" /\ state = "MIW_DHCP_WAIT_STA"
  /\ \/ pc' = "clear" /\ loaded' = newUpdate /\ UNCHANGED <<state, nAttempts>>
     \/ Retry("MIW_GET_IP_STA") /\ UNCHANGED <<pc, loaded>>
  /\ UNCHANGED <<res, req, context, web, rest, overtaken>>

(* Variant: both bits are cleared. *)
clear_all(u) == newUpdate' = {}

(* newUpdate &= ~u, the store. *)
clear_update(u) == newUpdate' = loaded \ {u}

ClearUpdate ==
  /\ pc = "clear"
  /\ clear_update(IF state = "MIW_NEW_CONFIG_AP" THEN "UPDATE_AP" ELSE "UPDATE_STA")
  /\ state' = "MIW_WAIT_NEW_CONFIG"
  /\ pc' = "run"
  /\ UNCHANGED <<nAttempts, res, req, loaded, payload, web, rest, overtaken>>

-----------------------------------------------------------------------------
Run == \/ Restart \/ StartHost \/ StartInterface \/ StartServer
       \/ StartWaitAddress \/ NewConfig
       \/ CopySsid \/ CopyPwd \/ Respond \/ CheckResult
       \/ DhcpWait \/ ClearUpdate

(* MIW_ERROR is never left, nor is the search in netif_add; otherwise the  *)
(* manager waits for a form.                                               *)
Quiescent ==
  /\ \/ pc = "run" /\ state = "MIW_ERROR"
     \/ pc = "run" /\ state = "MIW_WAIT_NEW_CONFIG" /\ newUpdate = {}
     \/ pc = "stuck"
  /\ UNCHANGED vars

Next ==
  \/ \E u \in Update : CGIForm_Handler(u)
  \/ get_status_conn_ap
  \/ Run
  \/ Quiescent

Spec == Init /\ [][Next]_vars

(* The default task goes on, and so does time. *)
FairSpec == Spec /\ WF_vars(Run)

-----------------------------------------------------------------------------
(* Properties *)

(* Type invariant. *)
TypeOK ==
  /\ state \in States
  /\ nAttempts \in 0..MIW_MAX_ATTEMPTS + 1
  /\ res \in {"NULL", "SUCCESS", "FAILURE", "CTRL_ERR_NO_AP_FOUND"}
  /\ pc \in {"run", "copy", "wait", "check", "clear", "stuck"}
  /\ req \in Config
  /\ loaded \in SUBSET Update /\ newUpdate \in SUBSET Update
  /\ payload \in [Update -> Config] /\ slave \in [Update -> Config]
  /\ server \in BOOLEAN /\ misled \in BOOLEAN
  /\ overtaken \subseteq Update
  /\ netif_list \subseteq {"ap", "station"}
  /\ forms \in 0..MaxForms /\ pages \in 0..MaxStatus

(* A stored configuration that the slave does not run with, in whole, has  *)
(* its update bit set: the manager will still apply it.  Copying the       *)
(* configuration, sending it and clearing the bit are steps the web server *)
(* comes between, and forms for both configurations come at any time.  The *)
(* one that is lost is the one that comes in the middle of an update, up   *)
(* to the next form; and all of it ends when the manager follows a null    *)
(* result, which a timeout or a status page leaves it with.                *)
ChangesArePending ==
  ~misled => \A u \in Update \ overtaken : slave[u] # payload[u] => u \in newUpdate

(* The addresses in the slave's responses convert from some time on.       *)
AddressesConvert == <>[][~(pc = "check" /\ NotConverted)]_vars

(* A pending update is over in the end, or the manager gives up for good:  *)
(* attempts at joining the access point and at getting an address share    *)
(* one counter that a success does not reset, and still end.  An address   *)
(* that never converts is asked for for ever.  What the manager does after *)
(* it followed a null result is not determined, and a second configuration *)
(* of the station does not get past netif_add.                             *)
UpdateEnds == AddressesConvert =>
  \A u \in Update :
    (u \in newUpdate) ~> \/ u \notin newUpdate
                         \/ state = "MIW_ERROR" \/ misled \/ pc = "stuck"

(* An interface that is about to be added to lwIP is not in its list, as   *)
(* netif_add asserts; one that is keeps the manager there for ever.        *)
AddedOnce ==
  ~misled =>
    /\ (pc = "run" /\ state = "MIW_START_LWIP_AP") => "ap" \notin netif_list
    /\ (pc = "run" /\ state = "MIW_START_LWIP_STA") => "station" \notin netif_list

Store == INSTANCE ConfigStore WITH stored <- payload, pending <- newUpdate, applied <- slave

(* The slave takes configurations in whole, never a mixture of two forms   *)
(* and never one that a later form has replaced, also when the manager     *)
(* follows a null result; and the bit of an update is cleared, and no      *)
(* other, only when the slave runs with what is stored.  A form that comes *)
(* in the middle of an update is outside of the promise until the next.    *)
ImplementsStore == Store!Spec
=============================================================================
