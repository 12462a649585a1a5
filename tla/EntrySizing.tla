---------------------------- MODULE EntrySizing ----------------------------
(***************************************************************************)
(* What one orderbook tick may buy: workflow/quant_decider.py reads the    *)
(* probabilities (workflow/quant_signal.py, workflow/live_state.py), sizes *)
(* every outcome of the market by the Kelly rule (workflow/allocation.py,  *)
(* domain/kelly.py), takes the outcome the tick is about, and has the      *)
(* result judged by domain/risk.py; the order is a FAK at the best ask.    *)
(*                                                                         *)
(* Prices and probabilities are percents, money is cents, shares are       *)
(* hundredths of a share, edges are basis points; the code computes with   *)
(* Decimals and rounds when the order is signed, the model rounds down.    *)
(* An offer is what one outcome's book shows: the best ask, whether there  *)
(* is a bid at all, the money that fills at the best ask and the money     *)
(* behind all its asks.  A line is a bookmaker's market, the moneyline or  *)
(* the spread: what each outcome and the draw imply, the outcomes that are *)
(* suspended, and whether it carries the fair shares; a forecast is what   *)
(* the formulas of sports/math_prob.py answer, 0 where they answer         *)
(* nothing, "unsupported" or "lose".                                       *)
(***************************************************************************)
EXTENDS Integers, FiniteSetsExt

CONSTANTS Budget,     \* portfolio_budget_usdc
          Allowance,  \* what the exchange may draw from the wallet
          Purses,     \* what the account may start with
          MinShares,  \* the market's min_order_size, in shares
          FeeRate,    \* the market's fee rate, per mille
          Offers, MarketLines, Forecasts, Nothing,
          MaxOrders   \* bound: orders sent in one behaviour

VARIABLES account,    \* cash, cost and shares per outcome, outcomes on sale
          decision,   \* what the last tick came to
          sent,       \* orders sent so far
          unseen,     \* cost and shares of fills the account has not learned of
          doubts      \* history: answers without the fill since an outcome was last left

sizing_vars == <<account, decision, sent, unseen, doubts>>

Sides == {"home", "away"}

(* A fee is a share of the money it is taken of; a line names at least one *)
(* outcome; where the formulas answer for both sides, the answers are      *)
(* those of two events of which one at most happens (sports/math_prob.py:  *)
(* only a side that leads is answered for, or the two are complements).    *)
ASSUME SizingAssumption ==
    /\ Budget \in Nat /\ Purses \subseteq Nat /\ MinShares \in Nat /\ MaxOrders \in Nat
    /\ FeeRate \in 0 .. 1000
    /\ Offers \subseteq [ask : Nat, bid : BOOLEAN, top : Nat, depth : Nat]
    /\ MarketLines \subseteq [home : Nat, away : Nat, draw : Nat, suspended : SUBSET Sides, fair : BOOLEAN]
    /\ \A line \in MarketLines : line.home + line.away + line.draw > 0
    /\ Forecasts \subseteq [home : 0 .. 100, away : 0 .. 100]
    /\ \A forecast \in Forecasts : forecast.home + forecast.away <= 100

Other(s) == IF s = "home" THEN "away" ELSE "home"

(* Why a tick may size nothing of the whole market.                        *)
Grounds == {"entry_paused", "market_not_tradable", "missing_live_game_state",
            "live_game_terminal"}

TickVerdicts == {"none", "held", "not_sized", "passed", "bankroll_overspent", "balance_insufficient",
             "allowance_insufficient"} \cup Grounds \cup
            {"missing_market_state", "insufficient_available_cash"}

AtLeast0(n) == Max({n, 0})

-----------------------------------------------------------------------------
(* What the probabilities are                                              *)

(* The share of the bookmaker's market that is the outcome's, the margin   *)
(* taken off: _devig_probs over all outcomes the line names.               *)
FairOf(line, s) == (100 * line[s]) \div (line.home + line.away + line.draw)

Quotes(line, s) == line # Nothing /\ s \notin line.suspended

(* goalserve_prob: the moneyline, and where it is missing or the outcome   *)
(* is suspended, the spread.                                               *)
SourceOf(line, spread, s) ==
    IF Quotes(line, s) THEN line ELSE IF Quotes(spread, s) THEN spread ELSE Nothing

(* _fair_prob_field: the fair share, or the quote with the margin in it.   *)
GoalserveSays(line, spread, s) ==
    LET source == SourceOf(line, spread, s)
    IN  IF source = Nothing THEN {}
        ELSE IF source.fair THEN {FairOf(source, s)} ELSE {source[s]}

MathSays(forecast, s) == {forecast[s]} \ {0}

Clamped(p) == Max({1, Min({99, p})})

(* estimate_signal: the larger of the two; without either the book's own   *)
(* price is looked at, but never bought on.                                *)
Believed(line, spread, forecast, s) ==
    LET said == GoalserveSays(line, spread, s) \cup MathSays(forecast, s)
    IN  IF said = {} THEN Nothing ELSE Clamped(Max(said))

-----------------------------------------------------------------------------
(* Kelly                                                                   *)

(* The edge per share after the fee, in basis points.                      *)
EdgeNet(ask, p) == 100 * (p - ask) - (FeeRate * ask * (100 - ask)) \div 1000

MinEdge == 200
MinStake == 100

(* At most a tenth of the bankroll on one outcome.                         *)
CapOf(bankroll) == bankroll \div 10

(* A quarter of Kelly, at confidence 0.7.                                  *)
RawStake(bankroll, ask, p) ==
    (bankroll * 7 * EdgeNet(ask, p)) \div (40 * 100 * (100 - ask))

Least(offer) == Max({MinStake, MinShares * offer.ask})

(* The bug "no ceiling": the market's minimum is always reached.           *)
RoundUpToDepth(bankroll, offer) == offer.depth

(* How far a stake may be rounded up to what the market takes.             *)
RoundUpCeiling(bankroll, offer) == Min({CapOf(bankroll), offer.depth})

Worth(offer, p) ==
    /\ offer.ask \in 1 .. 99
    /\ EdgeNet(offer.ask, p) >= MinEdge

KellyStake(bankroll, offer, p) ==
    LET sized == Min({RawStake(bankroll, offer.ask, p), CapOf(bankroll), offer.depth})
        least == Least(offer)
    IN  IF bankroll <= 0 \/ ~Worth(offer, p) THEN 0
        ELSE IF sized >= least THEN sized
        ELSE IF least <= RoundUpCeiling(bankroll, offer) THEN least
        ELSE 0

-----------------------------------------------------------------------------
(* The plan over the outcomes of the market                                *)

Bankroll == AtLeast0(Min({account.cash, Budget}))

(* An outcome on sale counts twice; a FAK in flight counts nothing.        *)
Exposure(s) == IF s \in account.onSale THEN 2 * account.cost[s] ELSE account.cost[s]

Priced(offers) == {s \in Sides : offers[s] # Nothing}

Probability(offers, line, spread, forecast, s) ==
    IF offers[s].bid THEN Believed(line, spread, forecast, s) ELSE Nothing

(* A higher f* is served first; at the same f* the first outcome listed.   *)
ServedBefore(t, s, offers, p) ==
    LET mine   == EdgeNet(offers[s].ask, p[s]) * (100 - offers[t].ask)
        theirs == EdgeNet(offers[t].ask, p[t]) * (100 - offers[s].ask)
    IN  theirs > mine \/ (theirs = mine /\ t = "home")

PlanOf(offers, line, spread, forecast) ==
    LET p     == [s \in Priced(offers) |-> Probability(offers, line, spread, forecast, s)]
        able  == {s \in Priced(offers) : p[s] # Nothing}
        tied(s) == IF s \in Priced(offers) THEN Exposure(s) ELSE 0
        left  == AtLeast0(Bankroll - (tied("home") + tied("away")))
        alone(s) == KellyStake(left, offers[s], p[s])
        next(s)  == KellyStake(AtLeast0(left - alone(Other(s))), offers[s], p[s])
    IN  [s \in Sides |->
            IF s \notin able THEN 0
            ELSE IF Other(s) \in able /\ ServedBefore(Other(s), s, offers, p) THEN next(s)
            ELSE alone(s)]

-----------------------------------------------------------------------------
(* Review and order                                                        *)

FeeOf(stake, ask) == (stake * FeeRate * (100 - ask)) \div 100000

Review(stake, ask) ==
    IF stake > Bankroll THEN "bankroll_overspent"
    ELSE IF stake + FeeOf(stake, ask) > account.cash THEN "balance_insufficient"
    ELSE IF stake + FeeOf(stake, ask) > Allowance THEN "allowance_insufficient"
    ELSE "passed"

(* An outcome that is held is left alone.                                  *)
Holds(s) == account.shares[s] > 0

VerdictOf(s, offers, plan) ==
    IF offers[s] = Nothing THEN "missing_market_state"
    ELSE IF Holds(s) THEN "held"
    ELSE IF account.cash < 500 THEN "insufficient_available_cash"
    ELSE IF plan[s] = 0 THEN "not_sized"
    ELSE Review(plan[s], offers[s].ask)

(* What a FAK at the best ask comes to: nothing, or all it can take, if    *)
(* the wallet, which knows of every fill, still has it.                    *)
Wallet == account.cash - unseen.cost["home"] - unseen.cost["away"]

Fills(stake, offer) ==
    {0} \cup ({Min({stake, offer.top})} \cap 0 .. AtLeast0(Wallet))

SharesFor(filled, ask) == (100 * (filled - FeeOf(filled, ask))) \div ask

With(holdings, s, cost, shares) ==
    [holdings EXCEPT !.cost[s] = @ + cost, !.shares[s] = @ + shares]

Bought(s, ask, filled) ==
    [With(account, s, filled, SharesFor(filled, ask)) EXCEPT !.cash = @ - filled]

NothingUnseen == [cost |-> [s \in Sides |-> 0], shares |-> [s \in Sides |-> 0]]

NoDecision == [focus |-> "home", plan |-> [s \in Sides |-> 0],
               offers |-> [s \in Sides |-> Nothing], verdict |-> "none", single |-> TRUE]

(* The outcomes are judged by one source: formulas alone, or the fair      *)
(* shares of one line.                                                     *)
OneSource(line, spread, forecast) ==
    LET home == SourceOf(line, spread, "home")
        away == SourceOf(line, spread, "away")
    IN  /\ home = away
        /\ home = Nothing \/ (home.fair /\ \A s \in Sides : forecast[s] = 0)

(* The worker plans and has the plan judged on the account it read.        *)
Tick(s, offers, line, spread, forecast) ==
    LET plan == PlanOf(offers, line, spread, forecast)
    IN  /\ decision = NoDecision /\ sent < MaxOrders
        /\ decision' = [focus |-> s, plan |-> plan, offers |-> offers,
                        verdict |-> VerdictOf(s, offers, plan),
                        single |-> OneSource(line, spread, forecast)]
        /\ UNCHANGED <<account, sent, unseen, doubts>>

Refused(ground) ==
    /\ decision = NoDecision
    /\ decision' = [NoDecision EXCEPT !.verdict = ground]
    /\ UNCHANGED <<account, sent, unseen, doubts>>

(* The answer says what was filled, and the account has it.                *)
Order ==
    LET s == decision.focus
        offer == decision.offers[s]
    IN  /\ decision.verdict = "passed"
        /\ sent' = sent + 1
        /\ \E filled \in Fills(decision.plan[s], offer) :
               account' = Bought(s, offer.ask, filled)
        /\ decision' = NoDecision
        /\ UNCHANGED <<unseen, doubts>>

(* The answer is UNKNOWN, or REJECTED for an order that landed: the worker *)
(* changes nothing and judges the next tick (_transition_from_order_result) *)
OrderInDoubt ==
    LET s == decision.focus
        offer == decision.offers[s]
    IN  /\ decision.verdict = "passed"
        /\ sent' = sent + 1
        /\ \E filled \in Fills(decision.plan[s], offer) :
               unseen' = With(unseen, s, filled, SharesFor(filled, offer.ask))
        /\ doubts' = [doubts EXCEPT ![s] = @ + 1]
        /\ decision' = NoDecision
        /\ UNCHANGED account

(* A poll of the account brings what it had not learned.                   *)
Learn ==
    /\ account' = [account EXCEPT !.cash = Wallet,
                                  !.cost = [s \in Sides |-> @[s] + unseen.cost[s]],
                                  !.shares = [s \in Sides |-> @[s] + unseen.shares[s]]]
    /\ unseen' = NothingUnseen
    /\ UNCHANGED <<decision, sent, doubts>>

Skip ==
    /\ decision.verdict \notin {"none", "passed"}
    /\ decision' = NoDecision
    /\ UNCHANGED <<account, sent, unseen, doubts>>

(* The operator's exit of a position, the only sale there is, is offered   *)
(* and later taken at some price, which gives back part of the cost.       *)
OfferExit(s) ==
    /\ Holds(s)
    /\ account' = [account EXCEPT !.onSale = @ \cup {s}]
    /\ UNCHANGED <<decision, sent, unseen, doubts>>

ExitTaken(s) ==
    /\ s \in account.onSale
    /\ account' = [account EXCEPT !.cash = @ + account.cost[s] \div 2,
                                  !.cost[s] = 0, !.shares[s] = 0, !.onSale = @ \ {s}]
    /\ doubts' = [doubts EXCEPT ![s] = IF unseen.cost[s] = 0 THEN 0 ELSE @]
    /\ UNCHANGED <<decision, sent, unseen>>

-----------------------------------------------------------------------------
SizingInit ==
    /\ \E cash \in Purses :
           account = [cash |-> cash, cost |-> [s \in Sides |-> 0],
                      shares |-> [s \in Sides |-> 0], onSale |-> {}]
    /\ decision = NoDecision
    /\ sent = 0
    /\ unseen = NothingUnseen
    /\ doubts = [s \in Sides |-> 0]

SizingNext ==
    \/ \E s \in Sides, offers \in [Sides -> Offers \cup {Nothing}],
          line, spread \in MarketLines \cup {Nothing}, forecast \in Forecasts :
          Tick(s, offers, line, spread, forecast)
    \/ \E ground \in Grounds : Refused(ground)
    \/ Order \/ OrderInDoubt \/ Learn \/ Skip
    \/ \E s \in Sides : OfferExit(s) \/ ExitTaken(s)

SizingSpec == SizingInit /\ [][SizingNext]_sizing_vars

-----------------------------------------------------------------------------
SizingTypeOK ==
    /\ account.cash \in Int
    /\ account.cost \in [Sides -> Nat] /\ account.shares \in [Sides -> Nat]
    /\ account.onSale \subseteq Sides
    /\ decision.focus \in Sides /\ decision.verdict \in TickVerdicts
    /\ decision.plan \in [Sides -> Nat]
    /\ sent \in 0 .. MaxOrders
    /\ unseen \in [cost : [Sides -> Nat], shares : [Sides -> Nat]]
    /\ doubts \in [Sides -> 0 .. MaxOrders]

(* What was sized can be ordered: the two halves of the pipeline compute   *)
(* their own bankroll, fee and minimum (kelly.py, risk.py, worker.py:1393),*)
(* and a stake the first one names is one the second does not refuse for   *)
(* money, and buys at least the shares the market takes.                   *)
StakeAccepted ==
    LET s == decision.focus
        stake == decision.plan[s]
    IN  /\ decision.verdict \notin {"bankroll_overspent", "balance_insufficient"}
        /\ decision.verdict = "passed" =>
               /\ stake >= MinShares * decision.offers[s].ask
               /\ stake <= decision.offers[s].depth

(* One source of probability never wants both outcomes of a market at      *)
(* prices that lose whichever of them wins: what the fair shares of one    *)
(* line, or the formulas, say of the two adds up to no more than one once  *)
(* the bookmaker's margin is taken off (live_state.py:270, kelly.py:185).  *)
(* Of two lines, the moneyline for one outcome and the spread for the      *)
(* other, or of quotes with the margin, it is not promised, nor true.      *)
NoSureLoss ==
    (decision.single /\ \A s \in Sides : decision.plan[s] > 0)
        => decision.offers["home"].ask + decision.offers["away"].ask < 100

(* However many ticks there are, at most a tenth of the budget is at stake *)
(* on one outcome, and a tenth more for every answer that did not tell     *)
(* what was filled: no tick adds to what the account knows to be held, and *)
(* every entry is sized on what the ones before have left                  *)
(* (quant_decider.py:331, allocation.py:186).                              *)
AtStake(s) == account.cost[s] + unseen.cost[s]

StakeBounded == \A s \in Sides : 10 * AtStake(s) <= (1 + doubts[s]) * Budget

(* What the sizing promises to the rest of the pipeline and to the money.  *)
SizedIsAccepted == StakeAccepted /\ StakeBounded /\ NoSureLoss
=============================================================================
