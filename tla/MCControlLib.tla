---------------------------- MODULE MCControlLib ----------------------------
(* ControlLib for TLC: which kinds of request each application makes. *)
EXTENDS ControlLib, TLC

CONSTANTS a1, a2, i1, i2

Sync(i)  == [id |-> i, async |-> FALSE]
Async(i) == [id |-> i, async |-> TRUE]

(* Two threads that wait, and one id that is used in both ways. *)
Mixed == (a1 :> {Sync(i1)}) @@ (a2 :> {Sync(i2), Async(i1)})

(* Two threads that wait, as the manager and the web server do. *)
TwoWaiters == (a1 :> {Sync(i1)}) @@ (a2 :> {Sync(i2)})

(* Requests with callbacks, as test_get_wifi_mode makes them. *)
Callbacks == (a1 :> {Async(i1)}) @@ (a2 :> {Async(i2)})
=============================================================================
