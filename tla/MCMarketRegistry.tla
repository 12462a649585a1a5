-------------------------- MODULE MCMarketRegistry --------------------------
(* Siblings of one event, or a market alone. *)
EXTENDS MarketRegistry

CONSTANTS m1, m2, e1

OneEvent == [m \in Markets |-> e1]
=============================================================================
