---------------------------- MODULE MCLiveSource ----------------------------
(* The instance of the runs of LiveSource: a match nobody trades leads the    *)
(* feed, one market is of the match behind it, the other names teams of both. *)
EXTENDS LiveSource

CONSTANTS m1, m2, other, game, soon

FeedOrder == <<other, game>>
AllSoon == [m \in Markets |-> soon]
NearSoon == [k \in Keys |-> {other, game}]
TeamsNamed == [m \in Markets |-> IF m = m1 THEN {game} ELSE {other, game}]
=============================================================================
