---------------------------- MODULE RequestServer ----------------------------
(***************************************************************************)
(* What a library that serves one request at a time promises its callers.  *)
(* A request that is made is granted the library, if nobody has it, or     *)
(* refused, if somebody else has.  A granted request is answered with its  *)
(* own response, or given up with an error if it has been lost, and only   *)
(* then is the library released.  All this until the server is disturbed:  *)
(* after that nothing is promised any more.                                *)
(***************************************************************************)
CONSTANT Request

VARIABLES
  made,     (* the requests made                                           *)
  serving,  (* the request that has the library, if there is one           *)
  lost,     (* the requests that were lost while they had it               *)
  given,    (* what each request was given: nothing yet, an error or its   *)
            (* own response                                                *)
  disturbed

vars == <<made, serving, lost, given, disturbed>>

Error == <<0>>

Init ==
  /\ made = {}
  /\ serving = {}
  /\ lost = {}
  /\ given = [n \in Request |-> <<>>]
  /\ disturbed = FALSE

Open(n) == n \in made /\ given[n] = <<>>

Give(n, outcome) == given' = [given EXCEPT ![n] = outcome]

Make(n) == n \notin made /\ made' = made \cup {n} /\ UNCHANGED <<serving, lost, given>>

Grant(n) ==
  /\ Open(n) /\ serving = {}
  /\ serving' = {n}
  /\ UNCHANGED <<made, lost, given>>

Refuse(n) ==
  /\ Open(n) /\ serving # {} /\ n \notin serving
  /\ Give(n, Error)
  /\ UNCHANGED <<made, serving, lost>>

Lose(n) ==
  /\ Open(n) /\ n \in serving
  /\ lost' = lost \cup {n}
  /\ UNCHANGED <<made, serving, given>>

Answer(n) ==
  /\ Open(n) /\ n \in serving /\ n \notin lost
  /\ Give(n, <<n>>)
  /\ UNCHANGED <<made, serving, lost>>

(* A request that is given up releases the library.                        *)
GiveUp(n) ==
  /\ Open(n) /\ n \in serving /\ n \in lost
  /\ Give(n, Error)
  /\ serving' = {}
  /\ UNCHANGED <<made, lost>>

Release(n) ==
  /\ n \in serving /\ given[n] # <<>>
  /\ serving' = {}
  /\ UNCHANGED <<made, lost, given>>

Serve(n) ==
  \/ Make(n) \/ Grant(n) \/ Refuse(n)
  \/ Lose(n) \/ Answer(n) \/ GiveUp(n) \/ Release(n)

Next ==
  \/ disturbed' = TRUE
  \/ UNCHANGED disturbed /\ \E n \in Request : Serve(n)

Spec == Init /\ [][Next]_vars

(* What the callers can rely on while nothing disturbs it: one request is  *)
(* served at a time, and each is given its own response or an error and    *)
(* nothing else; what it was given stands; and the library is released     *)
(* only by a request that has been given something.                        *)
OneServed == ~disturbed => \A m, n \in serving : m = n

OwnOutcome == ~disturbed => \A n \in Request : given[n] \in {<<>>, Error, <<n>>}

Decisive ==
  [][~disturbed' =>
       /\ \A n \in Request : given[n] # <<>> => given'[n] = given[n]
       /\ \A n \in serving : n \notin serving' => given'[n] # <<>>]_vars
=============================================================================
