------------------------ MODULE MCAccountProjection ------------------------
(* Orders and agendas of the run of AccountProjection: a BUY of the worker's, *)
(* an exit of the worker's from a BUY of before, an exit the operator forces, *)
(* or two exits of which one may replace the other.  Every mix of orders is   *)
(* covered by the theorems of AccountProjectionProofs.                        *)
EXTENDS AccountProjection

CONSTANTS b1, s1, s2

BuyOrExits == {[todo |-> {b1}, past |-> {}],
               [todo |-> {s1}, past |-> {b1}], [todo |-> {s2}, past |-> {b1}],
               [todo |-> {s1, s2}, past |-> {}]}
=============================================================================
