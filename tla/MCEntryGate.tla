---------------------------- MODULE MCEntryGate ----------------------------
(* One market, two rounds at once. *)
EXTENDS EntryGate

CONSTANTS m1, loop, oper

MCOneMarket == {m1}
MCTwoRounds == {loop, oper}
=============================================================================
