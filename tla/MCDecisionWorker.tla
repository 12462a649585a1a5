-------------------------- MODULE MCDecisionWorker --------------------------
(* One market tried twice; the trade of its first order may fail. *)
EXTENDS DecisionWorker

CONSTANTS m1

FirstOrders == {<<m, 1>> : m \in Markets}
=============================================================================
