------------------------------ MODULE LossyMap ------------------------------
(***************************************************************************)
(* What a cache promises its caller: it may forget any entry at any time,  *)
(* even the one just set, and it answers with the value last set under the *)
(* key or with nothing, never with an older value.                         *)
(***************************************************************************)
CONSTANTS Keys, Values, None
VARIABLES latest, got

Init == latest = [k \in Keys |-> None] /\ got = None

Set(k, v) ==
  /\ latest' = [latest EXCEPT ![k] = v]
  /\ UNCHANGED got

Get(k) ==
  /\ got' \in {latest[k], None}
  /\ UNCHANGED latest

Next == \E k \in Keys : (\E v \in Values : Set(k, v)) \/ Get(k)

Spec == Init /\ [][Next]_<<latest, got>>
=============================================================================
