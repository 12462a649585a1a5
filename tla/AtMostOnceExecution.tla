------------------------- MODULE AtMostOnceExecution -------------------------
(***************************************************************************)
(* What the idempotency index of the order executor promises: for a key,   *)
(* one execution at a time; its outcome, once known, is the outcome every  *)
(* later request for the key sees; only a known outcome may be forgotten,  *)
(* and only a forgotten key may be executed again.                         *)
(***************************************************************************)
CONSTANTS Keys, Outcomes, Unknown

VARIABLES
  stage,      \* stage[k]: has the key no execution, one in progress, or a known outcome?
  outcome     \* outcome[k]: the known outcome, or Unknown

vars == <<stage, outcome>>

Init ==
  /\ stage = [k \in Keys |-> "fresh"]
  /\ outcome = [k \in Keys |-> Unknown]

Begin(k) ==
  /\ stage[k] = "fresh"
  /\ stage' = [stage EXCEPT ![k] = "executing"]
  /\ UNCHANGED outcome

Settle(k, o) ==
  /\ stage[k] = "executing"
  /\ stage' = [stage EXCEPT ![k] = "settled"]
  /\ outcome' = [outcome EXCEPT ![k] = o]

Forget(k) ==
  /\ stage[k] = "settled"
  /\ stage' = [stage EXCEPT ![k] = "fresh"]
  /\ outcome' = [outcome EXCEPT ![k] = Unknown]

Next == \E k \in Keys : Begin(k) \/ Forget(k) \/ \E o \in Outcomes : Settle(k, o)

Spec == Init /\ [][Next]_vars
==============================================================================
