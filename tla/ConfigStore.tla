----------------------------- MODULE ConfigStore -----------------------------
(***************************************************************************)
(* What a store of configurations promises that another party, the slave,  *)
(* is to run with: the slave takes them in whole, and never one that has   *)
(* been replaced, and an update is ticked off only when the slave runs     *)
(* with what is stored.  It promises this for a configuration that did not *)
(* overtake the update before it, and until the manager was misled.        *)
(***************************************************************************)
CONSTANTS Update, Config, Default

VARIABLES
  stored,     (* the configuration stored of each kind                     *)
  pending,    (* the kinds of configuration that have to be applied        *)
  applied,    (* what the slave runs with                                  *)
  misled,     (* the manager has taken something for a success             *)
  overtaken   (* the kinds that were stored in the middle of an update     *)

vars == <<stored, pending, applied, misled, overtaken>>

Init ==
  /\ stored = [u \in Update |-> Default]
  /\ pending = {}
  /\ applied = [u \in Update |-> Default]
  /\ misled = FALSE
  /\ overtaken = {}

Store(u) ==
  /\ \E c \in Config : stored' = [stored EXCEPT ![u] = c]
  /\ pending' = pending \cup {u}
  /\ overtaken' \in {overtaken \cup {u}, overtaken \ {u}}
  /\ UNCHANGED <<applied, misled>>

Apply(u) ==
  /\ \E c \in (IF u \in overtaken THEN Config ELSE {stored[u]}) :
       applied' = [applied EXCEPT ![u] = c]
  /\ UNCHANGED <<stored, pending, misled, overtaken>>

(* With the bit of the update itself goes that of one that overtook it.    *)
TickOff(S) ==
  /\ misled \/ \A u \in S \ overtaken : applied[u] = stored[u]
  /\ pending' = pending \ S
  /\ UNCHANGED <<stored, applied, misled, overtaken>>

Mislead == misled' = TRUE /\ UNCHANGED <<stored, pending, applied, overtaken>>

Next ==
  \/ Mislead
  \/ \E u \in Update : Store(u) \/ Apply(u)
  \/ \E S \in SUBSET Update : TickOff(S)

Spec == Init /\ [][Next]_vars
=============================================================================
