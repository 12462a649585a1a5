----------------------------- MODULE MCServices -----------------------------
(***************************************************************************)
(* The paper account, the supervision of the process, the records that     *)
(* pregame odds are written into and the rows that events leave, each on a *)
(* small instance of its own, in one run.  The first state decides which   *)
(* of them moves, the first two fairly; the others stand still.  The last  *)
(* two are extended, for their theorems.                                   *)
(***************************************************************************)
EXTENDS PregameOdds, AuditTables

VARIABLES
  part,
  ledger, account, buyer, registered, trades,     \* PaperTrading
  sup, world, jobs, rounds, orders                \* Supervision

ThreeListed == <<"m1", "m2", "m3">>
TwoMatches(m) == IF m = "m3" THEN "second" ELSE "first"

SevenShapes ==
  {[type |-> "order_state_updated", order |-> form] :
     form \in {"exchange", "local", "incomplete"}}
  \cup {[type |-> t, order |-> "absent"] :
          t \in {"order_state_updated", "fill_recorded", "balance_updated", "live_state"}}

Paper == INSTANCE PaperTrading WITH
  worker <- buyer,
  Dollar <- 4, Lot <- 6, Fund <- 36, FeeRate <- 250, MaxTrades <- 3

Super == INSTANCE Supervision WITH BreachThreshold <- 2, MaxOrders <- 1

-----------------------------------------------------------------------------
InitOfParts ==
  /\ part \in {"paper", "super", "pregame", "tables"}
  /\ Paper!Init /\ Super!Init /\ OddsInit /\ TablesInit
  /\ part # "pregame" => accepted = {}

paper_vars == <<ledger, account, buyer, registered, trades>>
super_vars == <<sup, world, jobs, rounds, orders>>

Still(p) ==
  /\ p # "paper" => UNCHANGED paper_vars
  /\ p # "super" => UNCHANGED super_vars
  /\ p # "pregame" => UNCHANGED odds_vars
  /\ p # "tables" => UNCHANGED tables_vars
  /\ UNCHANGED part

NextOfParts ==
  \/ part = "paper" /\ Paper!Next /\ Still("paper")
  \/ part = "super" /\ Super!Next /\ Still("super")
  \/ part = "pregame" /\ OddsNext /\ Still("pregame")
  \/ part = "tables" /\ TablesNext /\ Still("tables")

varsOfAll == <<part, paper_vars, super_vars, odds_vars, tables_vars>>

\* What the modules say of their own scheduling, for the part that moves.
FairPaper ==
  /\ WF_paper_vars(part = "paper" /\ (Paper!Project \/ Paper!ApplyFlags))
  /\ WF_paper_vars(part = "paper" /\ Paper!Sync)

FairSuper ==
  /\ \A j \in Super!Jobs : WF_super_vars(part = "super" /\ Super!JobGoesOn(j))
  /\ WF_super_vars(part = "super" /\ Super!MaintenanceGoesOn)
  /\ WF_super_vars(part = "super" /\ Super!GaugeAges)

SpecOfParts == InitOfParts /\ [][NextOfParts]_varsOfAll /\ FairPaper /\ FairSuper

-----------------------------------------------------------------------------
\* PaperTrading: a match takes what it should and at the best price, and whatever is
\* traded, money comes in only for shares that go out (orderbook_matcher.py, state.py).
\* Every variable of the four modules holds what it is meant to.
NoMoneyFromNothing ==
  /\ [](part = "paper" => Paper!TypeOK /\ Paper!BestPriceFirst)
  /\ [](part = "super" => Super!TypeOK)
  /\ [](OddsTypeOK /\ TablesTypeOK)
  /\ Paper!NoMoneyFromNothing

\* PaperTrading: whatever a projection wrote back stale, the account shows the ledger in
\* the end, as far as the market is registered (paper_balance_syncer.py).
AccountFollows == part = "paper" => Paper!AccountFollows

\* Supervision: once the load is gone, and nothing else stands against it, trading is
\* enabled again; a slow order of long ago does not keep it shut, nor does the reconcile
\* that backpressure held up (supervisor.py, main.py).
BackpressureLifts == part = "super" => Super!BackpressureLifts
=============================================================================
