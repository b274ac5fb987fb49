--------------------------- MODULE OrderedChannel ---------------------------
(***************************************************************************)
(* What a one-way link promises the side that receives: messages, numbered *)
(* in the order in which they are sent, are delivered in that order, none  *)
(* twice and none that was not sent.  A message may be lost only if        *)
(* something has happened that harms it; every other message that has been *)
(* sent is on its way or has been delivered.                               *)
(***************************************************************************)
EXTENDS Naturals, Sequences

VARIABLES
  harmed,   (* the messages that may be lost                               *)
  sent,     (* number of messages sent                                     *)
  transit,  (* the messages on their way                                   *)
  got       (* the messages delivered, in order                            *)

vars == <<harmed, sent, transit, got>>

Init ==
  /\ harmed \in SUBSET Nat
  /\ sent = 0
  /\ transit = {}
  /\ got = <<>>

(* The messages S are on their way, but for some of the harmed ones.       *)
Carry(S) == transit' \in SUBSET S /\ S \ transit' \subseteq harmed'

Send ==
  /\ sent' = sent + 1
  /\ Carry(transit \cup {sent + 1})
  /\ UNCHANGED got

Lose == Carry(transit) /\ UNCHANGED <<sent, got>>

(* The oldest message on its way is the one that is delivered.             *)
Deliver ==
  \E m \in transit :
    /\ \A n \in transit : m <= n
    /\ transit' = transit \ {m}
    /\ got' = Append(got, m)
    /\ UNCHANGED sent

Next == harmed \subseteq harmed' /\ (Send \/ Lose \/ Deliver)

Spec == Init /\ [][Next]_vars

(* What the receiver can rely on: every message sent has been delivered or *)
(* is on its way, unless it has been harmed; no message is delivered       *)
(* before an earlier one, or twice; and what is on its way comes later.    *)
Complete == \A n \in 1..sent :
              n \in harmed \/ n \in transit \/ \E i \in DOMAIN got : got[i] = n

InOrder == \A i, j \in DOMAIN got : i < j => got[i] < got[j]

StillToCome ==
  /\ transit \subseteq 1..sent
  /\ \A i \in DOMAIN got : got[i] <= sent /\ \A m \in transit : got[i] < m

Reliable == Complete /\ InOrder /\ StillToCome
=============================================================================
