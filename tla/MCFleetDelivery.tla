--------------------------- MODULE MCFleetDelivery ---------------------------
(* Instance of FleetDelivery for TLC.                                         *)
EXTENDS FleetDelivery, TLC

CONSTANTS m1, m2, m3, r1, r2

\* m1 is for r1, m2 is a broadcast, m3 is for r1.
Mail == (m1 :> {r1}) @@ (m2 :> {r1, r2}) @@ (m3 :> {r1})
Addressees == [m \in Messages |-> Mail[m] \cap Receivers]
=============================================================================
