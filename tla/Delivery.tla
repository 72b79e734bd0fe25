------------------------------ MODULE Delivery ------------------------------
(***************************************************************************)
(* What a tray of notices promises: a notice that was accepted is settled  *)
(* only after it was delivered, and none is forgotten.  Copies are         *)
(* allowed.  Outbox implements it.                                         *)
(***************************************************************************)
CONSTANT Notice

VARIABLES accepted, delivered, settled

vars == <<accepted, delivered, settled>>

Init == accepted = {} /\ delivered = {} /\ settled = {}

Accept(n)  == accepted' = accepted \union {n} /\ UNCHANGED <<delivered, settled>>
Deliver(n) == n \in accepted /\ delivered' = delivered \union {n} /\ UNCHANGED <<accepted, settled>>
Settle(n)  == n \in delivered /\ settled' = settled \union {n} /\ UNCHANGED <<accepted, delivered>>

Next == \E n \in Notice : Accept(n) \/ Deliver(n) \/ Settle(n)

Spec == Init /\ [][Next]_vars
=============================================================================
