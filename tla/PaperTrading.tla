---------------------------- MODULE PaperTrading ----------------------------
(***************************************************************************)
(* Paper mode: the exchange is replaced by a client that matches orders    *)
(* against the live book (app/paper/orderbook_matcher.py, fill_engine.py,  *)
(* client.py) and books them in a ledger (app/paper/state.py), and the     *)
(* poll by a task that writes the ledger over the account every second     *)
(* (app/paper/paper_balance_syncer.py).  One token; prices are whole parts *)
(* of a dollar and an amount of money counts these parts, so a share at    *)
(* price p costs p.  Decimal division is division rounded down.            *)
(***************************************************************************)
EXTENDS Integers, FiniteSetsExt

CONSTANTS
    Dollar,     \* the parts a dollar has
    Lot,        \* shares of a level of the book; amounts and sizes come in lots
    Fund,       \* money the ledger starts with
    FeeRate,    \* taker fee in thousandths
    MaxTrades   \* bound: orders submitted

Prices == 1 .. Dollar - 1
Levels == [Prices -> {0, Lot}]         \* one side of the book, as the stream may leave it
Amounts == {Lot * p : p \in Prices}    \* money of a BUY

VARIABLES
    ledger,     \* PaperVirtualLedger: available_usdc, positions, cost_basis_usdc
    account,    \* AccountStateStore: balance and position
    worker,     \* the decision worker between a BUY and the end of its projection
    registered, \* the registry has the market of the token
    trades      \* history: orders submitted

vars == <<ledger, account, worker, registered, trades>>

----------------------------------------------------------------------------
(* orderbook_matcher.py: what is taken at each price. *)

SharesIn(taken) == MapThenSumSet(LAMBDA p : taken[p], Prices)
MoneyIn(taken) == MapThenSumSet(LAMBDA p : p * taken[p], Prices)

Least(a, b) == IF a < b THEN a ELSE b

(* match_taker_buy: the asks from the lowest, as far as the money goes. *)
MatchBuy(asks, amount, limit) ==
    LET taken[p \in Prices] ==
            LET left == amount - MapThenSumSet(LAMBDA q : q * taken[q], 1 .. p - 1)
            IN  IF p > limit THEN 0 ELSE Least(asks[p], left \div p)
    IN  [p \in Prices |-> taken[p]]

(* match_taker_sell: the bids from the highest, as far as the shares go. *)
MatchSell(bids, size, limit) ==
    LET taken[p \in Prices] ==
            LET left == size - MapThenSumSet(LAMBDA q : taken[q], p + 1 .. Dollar - 1)
            IN  IF p < limit THEN 0 ELSE Least(bids[p], left)
    IN  [p \in Prices |-> taken[p]]

(* calculate_trade_fee: shares * rate * price * (1 - price), rounded half up,  *)
(* and _aggregate_fees, level by level.  A buyer pays it in shares.            *)
HalfUp(n, d) == (2 * n + d) \div (2 * d)
FeeOf(p, shares) == HalfUp(shares * FeeRate * p * (Dollar - p), 1000 * Dollar)
FeeMoney(taken) == MapThenSumSet(LAMBDA p : FeeOf(p, taken[p]), Prices)
FeeShares(taken) == MapThenSumSet(LAMBDA p : HalfUp(FeeOf(p, taken[p]), p), Prices)

----------------------------------------------------------------------------
(* state.py: the ledger. *)

(* apply_buy_fill: shares net of the fee, money gross. *)
Bought(l, taken) ==
    LET fee == FeeShares(taken)
        net == IF SharesIn(taken) > fee THEN SharesIn(taken) - fee ELSE 0
    IN  [cash |-> l.cash - MoneyIn(taken),
         shares |-> l.shares + net,
         cost |-> IF net > 0 THEN l.cost + MoneyIn(taken) ELSE l.cost]

(* Mutant: what the match found is paid, whatever is held (the former fault    *)
(* that its comment tells of).                                                 *)
SoldShort(l, taken) ==
    [cash |-> l.cash + MoneyIn(taken) - FeeMoney(taken),
     shares |-> l.shares - Least(SharesIn(taken), l.shares),
     cost |-> IF SharesIn(taken) >= l.shares THEN 0 ELSE l.cost]

(* apply_sell_fill: no more than is held, the money in proportion. *)
Sold(l, taken) ==
    LET filled == SharesIn(taken)
        actual == Least(filled, l.shares)
        part(money) == (money * actual) \div filled
    IN  IF l.shares <= 0 \/ filled <= 0 THEN l
        ELSE [cash |-> l.cash + part(MoneyIn(taken)) - part(FeeMoney(taken)),
              shares |-> l.shares - actual,
              cost |-> IF actual = l.shares THEN 0 ELSE l.cost - (l.cost * actual) \div l.shares]

----------------------------------------------------------------------------
Idle == [doing |-> "idle", snapshot |-> [cash |-> 0, shares |-> 0], filled |-> 0]

Init ==
    /\ ledger = [cash |-> Fund, shares |-> 0, cost |-> 0]
    /\ account = [cash |-> Fund, shares |-> 0]
    /\ worker = Idle
    /\ registered = TRUE
    /\ trades = 0

(* The worker's FAK BUY: what it may spend is what its snapshot of the account  *)
(* says, never the ledger.                                                      *)
Buy(asks, amount, limit) ==
    /\ worker.doing = "idle" /\ registered
    /\ trades < MaxTrades
    /\ amount <= account.cash
    /\ LET taken == MatchBuy(asks, amount, limit)
       IN  /\ ledger' = IF SharesIn(taken) > 0 THEN Bought(ledger, taken) ELSE ledger
           /\ worker' = [doing |-> "projecting", snapshot |-> account, filled |-> SharesIn(taken)]
    /\ trades' = trades + 1
    /\ UNCHANGED <<account, registered>>

(* apply_buy_result: gross shares on the position of the snapshot. *)
Project ==
    /\ worker.doing = "projecting"
    /\ account' = IF worker.snapshot.shares = 0 /\ worker.filled = 0 THEN account
                  ELSE [worker.snapshot EXCEPT !.shares = @ + worker.filled]
    /\ worker' = [worker EXCEPT !.doing = "flags"]
    /\ UNCHANGED <<ledger, registered, trades>>

(* apply_result_flags: the balances of the snapshot again. *)
ApplyFlags ==
    /\ worker.doing = "flags"
    /\ account' = [account EXCEPT !.cash = worker.snapshot.cash]
    /\ worker' = Idle
    /\ UNCHANGED <<ledger, registered, trades>>

(* A SELL at the price the operator likes: what the match finds is booked, and  *)
(* no answer reaches the position the account shows.                           *)
Sell(bids, size, limit) ==
    /\ trades < MaxTrades /\ registered
    /\ LET taken == MatchSell(bids, size, limit)
       IN  ledger' = IF SharesIn(taken) > 0 THEN Sold(ledger, taken) ELSE ledger
    /\ trades' = trades + 1
    /\ UNCHANGED <<account, worker, registered>>

(* An exit the operator forces: the whole position the account shows.          *)
Exit(bids, limit) == account.shares > 0 /\ Sell(bids, account.shares, limit)

(* A replacement the operator asks for, of an order the user channel told of:  *)
(* of a SELL, any size, matched whatever became of the order it replaces; of a  *)
(* BUY there is no amount, so it is refused.                                   *)
Replace(bids, size, limit) == Sell(bids, size, limit)

(* The registry loses a market the account is not exposed in, and finds it.    *)
Prune ==
    /\ registered /\ account.shares = 0
    /\ registered' = FALSE
    /\ UNCHANGED <<ledger, account, worker, trades>>

Discover ==
    /\ ~registered
    /\ registered' = TRUE
    /\ UNCHANGED <<ledger, account, worker, trades>>

(* Mutant: positions are written one by one, and one that is gone stays. *)
PositionKept(shares) == IF ledger.shares > 0 THEN ledger.shares ELSE shares

(* replace_positions: those of the ledger whose market is registered, and no    *)
(* other.                                                                      *)
Positioned(shares) == IF registered THEN ledger.shares ELSE 0

(* paper_balance_syncer, once a second. *)
Sync ==
    /\ account' = [cash |-> ledger.cash, shares |-> Positioned(account.shares)]
    /\ UNCHANGED <<ledger, worker, registered, trades>>

Next ==
    \/ \E asks \in Levels, amount \in Amounts, limit \in Prices : Buy(asks, amount, limit)
    \/ Project
    \/ ApplyFlags
    \/ \E bids \in Levels, limit \in Prices :
          Exit(bids, limit) \/ Replace(bids, 2 * Lot, limit)
    \/ Prune
    \/ Discover
    \/ Sync

(* The worker goes on, and the syncer ticks for ever. *)
Fairness == WF_vars(Project \/ ApplyFlags) /\ WF_vars(Sync)

Spec == Init /\ [][Next]_vars /\ Fairness

----------------------------------------------------------------------------
TypeOK ==
    /\ ledger \in [cash : Int, shares : Nat, cost : Nat]
    /\ account \in [cash : Int, shares : Nat]
    /\ worker \in [doing : {"idle", "projecting", "flags"}, snapshot : [cash : Int, shares : Nat],
                   filled : Nat]
    /\ registered \in BOOLEAN
    /\ trades \in 0 .. MaxTrades

(* A position has a cost as long as it has shares, and money only comes in for  *)
(* shares that go out, at most at the highest price ("available 凭空涨",        *)
(* state.py: what an oversized SELL once did).                                  *)
NoMoneyFromNothing ==
    [][/\ (ledger'.cost > 0) = (ledger'.shares > 0)
       /\ ledger'.cash > ledger.cash =>
             ledger'.cash - ledger.cash <= (Dollar - 1) * (ledger.shares - ledger'.shares)]_vars

(* Whatever a projection wrote back stale, the account shows the money of the  *)
(* ledger in the end, and its position once the market stays registered; of a   *)
(* market that stays away it shows none, whatever the ledger has bought of it   *)
(* (paper_balance_syncer.py).                                                   *)
AccountFollows ==
    /\ <>[](account.cash = ledger.cash)
    /\ <>[]registered => <>[](account.shares = ledger.shares)
    /\ <>[]~registered => <>[](account.shares = 0)

(* A match takes no more than a level has, nothing beyond the limit, no more   *)
(* than was asked, nothing at a worse price while a better one has shares      *)
(* left, and does not stop while it could go on (orderbook_matcher.py).  The    *)
(* match looks at the book alone, so it is judged once, before any trade.      *)
Fair(levels, taken, left, within(_), better(_, _), cost(_)) ==
    /\ left >= 0
    /\ \A p \in Prices :
          /\ taken[p] <= levels[p]
          /\ taken[p] > 0 => within(p)
          /\ \A q \in Prices : better(p, q) /\ taken[q] > 0 => taken[p] = levels[p]
          /\ within(p) /\ taken[p] < levels[p] => left < cost(p)

BestPriceFirst ==
    trades = 0 => \A levels \in Levels, limit \in Prices :
        /\ \A amount \in Amounts :
              LET taken == MatchBuy(levels, amount, limit)
              IN  Fair(levels, taken, amount - MoneyIn(taken), LAMBDA p : p <= limit,
                       LAMBDA p, q : p < q, LAMBDA p : p)
        /\ \A size \in {Lot, 2 * Lot} :
              LET taken == MatchSell(levels, size, limit)
              IN  Fair(levels, taken, size - SharesIn(taken), LAMBDA p : p >= limit,
                       LAMBDA p, q : p > q, LAMBDA p : 1)
=============================================================================
