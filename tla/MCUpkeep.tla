------------------------------ MODULE MCUpkeep ------------------------------
(***************************************************************************)
(* Three services that keep the process's markets and tables in order,     *)
(* each on a small instance of its own, in one run.  The first state       *)
(* decides which of them moves, fairly; the others stand still.            *)
(* AuditRetention and Settlement are extended, for their theorems.         *)
(***************************************************************************)
EXTENDS AuditRetention, Settlement

VARIABLES
  part,
  walk, rest, gamma, read   \* MarketDiscovery

FiveTitles == {"fill_recorded", "market_updated", "order_created", "market_settled", "other"}

FourTiers ==
  <<[titles |-> {"fill_recorded"}, days |-> Permanent],
    [titles |-> {"market_updated"}, days |-> 1],
    [titles |-> {"order_created"}, days |-> 2],
    [titles |-> {"market_settled"}, days |-> 2]>>

\* A live query of one page and two configured ones of two; two markets held.
Discovery == INSTANCE MarketDiscovery WITH
  scan <- walk, world <- gamma,
  Queries <- <<"q1", "q2", "q3">>, LiveQueries <- {"q1"},
  Pages <- [q \in {"q1", "q2", "q3"} |-> IF q = "q1" THEN 1 ELSE 2],
  Exposures <- <<"m1", "m2">>,
  Requests <- 2, Period <- 2, Cooling <- 3, RetryCap <- 2, Troubles <- 3

\* One more than a scan takes up.
ThreeHeld == <<"m1", "m2", "m3">>

-----------------------------------------------------------------------------
Parts == {"retention", "discovery", "settle"}

InitOfParts == part \in Parts /\ Init /\ Discovery!Init /\ SettleInit

discovery_vars == <<walk, rest, gamma, read>>

Still(p) ==
  /\ p # "retention" => UNCHANGED vars
  /\ p # "discovery" => UNCHANGED discovery_vars
  /\ p # "settle" => UNCHANGED settle_vars
  /\ UNCHANGED part

NextOfParts ==
  \/ part = "retention" /\ Next /\ Still("retention")
  \/ part = "discovery" /\ Discovery!Next /\ Still("discovery")
  \/ part = "settle" /\ SettleNext /\ Still("settle")

varsOfAll == <<part, vars, discovery_vars, settle_vars>>

\* What the modules say of their own scheduling, for the part that moves.
FairDiscovery == WF_discovery_vars(part = "discovery" /\ Discovery!Tick)

FairSettle ==
  /\ WF_settle_vars(part = "settle" /\ ScanGoesOn)
  /\ \A m \in HeldMarkets :
       SF_settle_vars(part = "settle" /\ Looked /\ Head(scan.left) = m)

SpecOfParts == InitOfParts /\ [][NextOfParts]_varsOfAll /\ FairDiscovery /\ FairSettle

-----------------------------------------------------------------------------
\* MarketDiscovery: once Gamma answers, each page of each configured query is read again
\* and again, however budgets cut the rounds and errors reset them (discovery_runner.py).
\* The variables of the scan and of settlement hold what they are meant to.
EveryPageRead ==
  /\ []Discovery!TypeOK
  /\ []SettleTypeOK
  /\ part = "discovery" => Discovery!EveryPageRead
=============================================================================
