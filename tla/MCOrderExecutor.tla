--------------------------- MODULE MCOrderExecutor ---------------------------
(* Two calls, room for one stored result. *)
EXTENDS OrderExecutor

CONSTANTS c1, c2, k1, k2, m1

MCTwoCalls == {c1, c2}
MCKeys == {k1, k2}
MCConditions == {m1}

Submit(k, b) == [action |-> "submit", key |-> k, condition |-> m1, body |-> b]
Replace(k) == [action |-> "replace", key |-> k, condition |-> m1, body |-> 0]
Cancel(k) == [action |-> "cancel", key |-> k, condition |-> m1, body |-> 0]

\* Two submits that share a key but differ in their content, a submit of the
\* same market under another key, a replace and a cancel under the shared keys.
MCRequests == {Submit(k1, 0), Submit(k1, 1), Submit(k2, 0), Replace(k2), Cancel(k1)}
==============================================================================
