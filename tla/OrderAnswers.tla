---------------------------- MODULE OrderAnswers ----------------------------
(***************************************************************************)
(* How the answers of the exchange about our orders are read: the answer to *)
(* a submission (execution_response_mapper.py, order_result_builder.py), the *)
(* order and trade messages of the user channel (user_ws_adapter.py and the *)
(* account projector that applies them) and the REST listings of open orders *)
(* and trades (schemas/clob.py, clob_client.py).  BUYs are fill-and-kill and *)
(* ask for an amount at a limit price, SELLs rest until they are filled or   *)
(* cancelled.  What the exchange writes is modelled by the fields read here. *)
(***************************************************************************)
EXTENDS Integers, Sequences, FiniteSets, SequencesExt

CONSTANTS
  Buys, Sells,   \* our orders
  Strangers,     \* resting orders of other makers, on both sides of the book
  Size,          \* shares of every order
  Limit,         \* price of our orders
  MaxTrades,     \* trades of a behaviour
  MaxFeed,       \* messages on their way
  None

VARIABLES
  venue,    \* every order of ours at the exchange
  trades,   \* the trades, in order
  style,    \* what the messages tell: a status of the order, the side of a maker
  answer,   \* how the submission of an order was read, and what had become of it
  feed,     \* messages of the user channel on their way
  open,     \* the account's open orders, by order
  fills     \* the account's fill log, by event: that of a trade is the trade

vars == <<venue, trades, style, answer, feed, open, fills>>

Ours == Buys \cup Sells
All == Ours \cup Strangers
SideOf(o) == IF o \in Buys THEN "buy" ELSE "sell"
Opposite(side) == IF side = "buy" THEN "sell" ELSE IF side = "sell" THEN "buy" ELSE None
Amount == Size * Limit

------------------------------------------------------------------------------
(* The answer to a submission: status, error text, what we make and take.    *)

RequestedShares == Size

\* Mutant: any match fills the order.
IsFullFillIfAny(matched) == matched > 0

IsFullFill(matched) == matched >= RequestedShares

IsNoFill(r, o) == o \in Buys /\ r.error = "nothing to match"

ExecutionStatus(r, o, matched) ==
  IF IsNoFill(r, o) THEN "no_fill"
  ELSE IF ~r.success \/ r.status = "rejected" \/ r.error # None THEN "rejected"
  ELSE IF r.status = "matched" THEN (IF IsFullFill(matched) THEN "full_fill" ELSE "partial_fill")
  ELSE IF r.status \in {"live", "delayed", "unmatched"} THEN "live" ELSE r.status

\* A BUY makes cash and takes shares, a SELL makes shares and takes cash.
ResponseAmounts(r, o) ==
  LET shares == IF o \in Buys THEN r.taking ELSE r.making
      cash == IF o \in Buys THEN r.making ELSE r.taking
      over == IF RequestedShares > shares THEN RequestedShares - shares ELSE 0
  IN IF r.status = "matched"
     THEN [matched |-> shares, spent |-> cash, left |-> IF o \in Buys THEN 0 ELSE over]
     ELSE [matched |-> 0, spent |-> 0,
           left |-> IF r.status \in {"live", "delayed", "unmatched"} THEN shares ELSE 0]

MapSubmitResponse(r, o) ==
  LET a == ResponseAmounts(r, o)
  IN [status |-> ExecutionStatus(r, o, a.matched), matched |-> a.matched, spent |-> a.spent, left |-> a.left]

\* A fill without shares is counted as the whole order, a BUY without a fill
\* leaves nothing.
BuildOrderResult(m, o) ==
  LET fill == m.status \in {"full_fill", "partial_fill"}
      whole == IF o \in Buys THEN Amount \div Limit ELSE IF m.left = 0 THEN Size ELSE Size - m.left
  IN [m EXCEPT !.matched = IF fill /\ @ = 0 THEN whole ELSE @,
               !.spent = IF fill /\ @ = 0 THEN Amount ELSE @,
               !.left = IF o \in Buys /\ m.status = "no_fill" THEN 0 ELSE @]

------------------------------------------------------------------------------
(* Orders: a message of the channel, an item of the REST listing.            *)

NormalizeOrderStatus(text) ==
  IF text \in {"live", "matched", "rejected", "failed"} THEN text
  ELSE IF text = "canceled" THEN "cancelled" ELSE "created"

NormalizeUserOrderStatus(m) ==
  IF m.status # None THEN NormalizeOrderStatus(m.status)
  ELSE IF m.kind = "cancellation" THEN "cancelled"
  ELSE IF m.matched >= m.size THEN "matched"
  ELSE IF m.matched > 0 THEN "partially_filled"
  ELSE IF m.kind \in {"placement", "update"} THEN "live" ELSE "created"

NormalizeOrderStatusText(text) ==
  IF text = "canceled" THEN "cancelled" ELSE IF text = "delayed" THEN "submitted"
  ELSE IF text = "unmatched" THEN "no_fill" ELSE text

LeftOf(m) == IF m.matched < m.size THEN m.size - m.matched ELSE 0

FeedOrder(m) ==
  [status |-> NormalizeUserOrderStatus(m), side |-> SideOf(m.order), filled |-> m.matched, left |-> LeftOf(m)]

RestOrder(m) ==
  [status |-> NormalizeOrderStatusText(m.status), side |-> SideOf(m.order), filled |-> m.matched, left |-> LeftOf(m)]

Gone == {"cancelled", "rejected", "failed", "no_fill"}

------------------------------------------------------------------------------
(* Trades: the same message from the channel and from the listing.           *)

TopLevelFill(t) == [order |-> t.taker, side |-> t.side, size |-> t.size]

\* A leg without a side is on the side the taker is not.
LegFill(t, leg) ==
  [order |-> leg.order, side |-> IF leg.side = None THEN Opposite(t.side) ELSE leg.side, size |-> leg.amount]

IsMakerTrade(t) == t.role = "maker"

\* Every leg of a trade in which we are a maker.
IterFills(t) ==
  IF IsMakerTrade(t) THEN [i \in DOMAIN t.legs |-> LegFill(t, t.legs[i])] ELSE <<TopLevelFill(t)>>

\* The first leg of ours.
MakerFillOrder(t) ==
  LET mine == SelectSeq(t.legs, LAMBDA leg : leg.order \in Ours)
  IN IF IsMakerTrade(t) /\ mine # <<>> THEN Head(mine) ELSE None

RestFill(t) ==
  LET leg == MakerFillOrder(t)
  IN IF leg = None THEN TopLevelFill(t)
     ELSE [order |-> leg.order, side |-> IF leg.side = None THEN Opposite(t.side) ELSE leg.side, size |-> leg.amount]

\* A fill says nothing of what its order has left.
OrderFromFill(f, status) ==
  [status |-> IF status = "failed" THEN "failed" ELSE "matched", side |-> f.side, filled |-> 0,
   left |-> IF f.side = "sell" THEN f.size ELSE None]

------------------------------------------------------------------------------
(* The account: every order and every fill of a message, in order.           *)

Upserted(book, o, record) == [book EXCEPT ![o] = IF record.status \in Gone THEN None ELSE record]

HandleOrder(book, m) == Upserted(book, m.order, FeedOrder(m))

HandleFill(book, t) ==
  FoldLeft(LAMBDA b, f : Upserted(b, f.order, OrderFromFill(f, t.status)), book, IterFills(t))

Logged(log, t) == [log EXCEPT ![t.id] = Last(IterFills(t))]

------------------------------------------------------------------------------
(* The exchange.                                                             *)

Unsent == [state |-> "unsent", filled |-> 0]
NoAnswer == [said |-> None, filled |-> 0, rests |-> 0]

StatusText(v) ==
  IF v.state = "resting" THEN "live" ELSE IF v.state = "done" THEN "matched" ELSE v.state

OrderItem(o, v, kind) ==
  [type |-> "order", order |-> o, size |-> Size, matched |-> v.filled, kind |-> kind, status |-> StatusText(v)]

OrderMessage(o, v, kind) ==
  [OrderItem(o, v, kind) EXCEPT !.status = IF style.status THEN @ ELSE None]

TradeMessage(t) == [type |-> "trade", trade |-> t]

Report(messages) ==
  /\ Len(feed) + Len(messages) <= MaxFeed
  /\ feed' = feed \o messages

LegOf(o, side, shares) ==
  [order |-> o, side |-> IF style.side THEN side ELSE None, amount |-> shares]

\* What of an order is taken: it is done when nothing is left, or at once if a BUY.
AfterFill(o, v, shares) ==
  [state |-> IF o \in Buys \/ v.filled + shares >= Size THEN "done" ELSE "resting",
   filled |-> v.filled + shares]

TypeOK ==
  /\ venue \in [Ours -> [state : {"unsent", "delayed", "resting", "done", "canceled", "refused", "unmatched"},
                         filled : 0 .. Size * Limit]]
  /\ Len(trades) <= MaxTrades /\ Len(feed) <= MaxFeed
  /\ style \in [status : BOOLEAN, side : BOOLEAN]
  /\ DOMAIN answer = Ours /\ DOMAIN open = All /\ DOMAIN fills = 1 .. MaxTrades

Init ==
  /\ venue = [o \in Ours |-> Unsent] /\ trades = <<>> /\ feed = <<>>
  /\ style \in [status : BOOLEAN, side : BOOLEAN]
  /\ answer = [o \in Ours |-> NoAnswer]
  /\ open = [o \in All |-> None] /\ fills = [i \in 1 .. MaxTrades |-> None]

Read(o, r, v) ==
  answer' = [answer EXCEPT ![o] = [said |-> BuildOrderResult(MapSubmitResponse(r, o), o), filled |-> v.filled,
                                   rests |-> IF v.state \in {"resting", "delayed"} THEN Size - v.filled ELSE 0]]

Response(status, error, making, taking) ==
  [success |-> error = None, status |-> status, error |-> error, making |-> making, taking |-> taking]

TakerTrade(o, shares) ==
  [id |-> Len(trades) + 1, role |-> "taker", taker |-> o, side |-> SideOf(o), size |-> shares, status |-> "matched",
   legs |-> <<LegOf(CHOOSE x \in Strangers : TRUE, Opposite(SideOf(o)), shares)>>]

\* Our order takes what rests on the other side, at its limit or better.
MatchNow(o, shares, price) ==
  LET v == AfterFill(o, venue[o], shares)
      t == TakerTrade(o, shares)
  IN /\ Len(trades) < MaxTrades
     /\ o \in Buys => price <= Limit /\ price * shares <= Amount
     /\ o \in Sells => price >= Limit /\ shares <= Size
     /\ venue' = [venue EXCEPT ![o] = v] /\ trades' = Append(trades, t)
     /\ Report(<<OrderMessage(o, v, "placement"), TradeMessage(t)>>)

SubmitMatched(o, shares, price) ==
  /\ venue[o].state = "unsent" /\ MatchNow(o, shares, price)
  /\ Read(o, IF o \in Buys THEN Response("matched", None, price * shares, shares)
             ELSE Response("matched", None, shares, price * shares), venue'[o])
  /\ UNCHANGED <<style, open, fills>>

\* Sports markets hold orders back for a while; a SELL may also simply rest.
SubmitWaits(o, state) ==
  LET v == [Unsent EXCEPT !.state = state]
      status == StatusText(v)
  IN /\ venue[o].state = "unsent" /\ (state = "resting" => o \in Sells)
     /\ venue' = [venue EXCEPT ![o] = v]
     /\ Report(<<OrderMessage(o, v, "placement")>>)
     /\ Read(o, IF o \in Buys THEN Response(status, None, Amount, Size) ELSE Response(status, None, Size, Amount), v)
     /\ UNCHANGED <<trades, style, open, fills>>

SubmitRefused(o, error) ==
  /\ venue[o].state = "unsent" /\ (error = "nothing to match" => o \in Buys)
  /\ venue' = [venue EXCEPT ![o].state = "refused"]
  /\ Read(o, Response("", error, 0, 0), venue'[o])
  /\ UNCHANGED <<trades, style, feed, open, fills>>

DelayEnds(o, shares, price) ==
  /\ venue[o].state = "delayed" /\ MatchNow(o, shares, price)
  /\ UNCHANGED <<style, answer, open, fills>>

DelayEndsUnmatched(o) ==
  LET v == [venue[o] EXCEPT !.state = IF o \in Sells THEN "resting" ELSE "unmatched"]
  IN /\ venue[o].state = "delayed" /\ venue' = [venue EXCEPT ![o] = v]
     /\ Report(<<OrderMessage(o, v, "update")>>)
     /\ UNCHANGED <<trades, style, answer, open, fills>>

\* Somebody takes what rests: of some of our SELLs, and perhaps of a stranger.
Taken(makers, shares) ==
  LET mine == makers \cap Ours
      legs == SetToSeq({LegOf(o, "sell", shares) : o \in makers})
      after(o) == AfterFill(o, venue[o], shares)
      t == [id |-> Len(trades) + 1, role |-> "maker", taker |-> None, side |-> "buy",
            size |-> shares * Cardinality(makers), status |-> "matched", legs |-> legs]
      orders == SetToSeq(mine)
  IN /\ Len(trades) < MaxTrades /\ mine # {}
     /\ \A o \in mine : venue[o].state = "resting" /\ venue[o].filled + shares <= Size
     /\ venue' = [o \in Ours |-> IF o \in mine THEN after(o) ELSE venue[o]]
     /\ trades' = Append(trades, t)
     /\ Report([i \in DOMAIN orders |-> OrderMessage(orders[i], after(orders[i]), "update")] \o <<TradeMessage(t)>>)
     /\ UNCHANGED <<style, answer, open, fills>>

\* On the chain.
Move(i, status) ==
  LET t == [trades[i] EXCEPT !.status = status]
  IN /\ <<trades[i].status, status>> \in {<<"matched", "confirmed">>, <<"matched", "failed">>}
     /\ trades' = [trades EXCEPT ![i] = t]
     /\ Report(<<TradeMessage(t)>>)
     /\ UNCHANGED <<venue, style, answer, open, fills>>

Cancel(o) ==
  LET v == [venue[o] EXCEPT !.state = "canceled"]
  IN /\ venue[o].state = "resting" /\ venue' = [venue EXCEPT ![o] = v]
     /\ Report(<<OrderMessage(o, v, "cancellation")>>)
     /\ UNCHANGED <<trades, style, answer, open, fills>>

ProcessMessage ==
  /\ feed # <<>> /\ feed' = Tail(feed)
  /\ LET m == Head(feed)
     IN IF m.type = "order" THEN open' = HandleOrder(open, m) /\ UNCHANGED fills
        ELSE open' = HandleFill(open, m.trade) /\ fills' = Logged(fills, m.trade)
  /\ UNCHANGED <<venue, trades, style, answer>>

Listed == {o \in Ours : venue[o].state \in {"resting", "delayed"}}

\* list_open_orders and list_fills, applied together.
ApplyListings ==
  /\ feed = <<>>
  /\ open' = [o \in All |-> IF o \in Listed THEN RestOrder(OrderItem(o, venue[o], "item")) ELSE None]
  /\ fills' = [i \in 1 .. MaxTrades |-> IF i \in DOMAIN trades THEN RestFill(trades[i]) ELSE None]
  /\ UNCHANGED <<venue, trades, style, answer, feed>>

Next ==
  \/ \E o \in Ours :
       \/ \E shares \in 1 .. Size + 1, price \in 1 .. Limit + 1 :
            SubmitMatched(o, shares, price) \/ DelayEnds(o, shares, price)
       \/ \E state \in {"resting", "delayed"} : SubmitWaits(o, state)
       \/ \E error \in {"nothing to match", "not enough balance"} : SubmitRefused(o, error)
       \/ DelayEndsUnmatched(o) \/ Cancel(o)
  \/ \E makers \in SUBSET (Sells \cup Strangers), shares \in 1 .. Size : Taken(makers, shares)
  \/ \E i \in DOMAIN trades, status \in {"confirmed", "failed"} : Move(i, status)
  \/ ProcessMessage \/ ApplyListings

Spec == Init /\ [][Next]_vars

------------------------------------------------------------------------------
\* The reading of the answer to a submission is what had become of the order:
\* what was matched, what rests, and a status that hides neither.
\* (map_submit_response, build_order_result)
AnswerIsTrue ==
  \A o \in Ours : answer[o] # NoAnswer =>
    LET said == answer[o].said
    IN /\ said.matched = answer[o].filled /\ (o \in Sells => said.left = answer[o].rests)
       /\ said.status = "full_fill" => answer[o].rests = 0
       /\ said.status \in {"no_fill", "rejected"} => answer[o].filled = 0 /\ answer[o].rests = 0
       /\ said.status = "live" <=> answer[o].filled = 0 /\ answer[o].rests > 0

\* The words differ (a delayed order is created here, submitted there), what the
\* account makes of them does not.
SameOrder(a, b) == a.side = b.side /\ a.filled = b.filled /\ a.left = b.left /\ (a.status \in Gone <=> b.status \in Gone)

Reported(t) == {f \in {IterFills(t)[i] : i \in DOMAIN IterFills(t)} : f.order \in Ours}

Failed(o) == \E i \in DOMAIN trades : trades[i].status = "failed" /\ \E f \in Reported(trades[i]) : f.order = o

\* Only our own legs of a trade are read as fills of ours (_maker_fill_snapshots:
\* "extracts the user's own legs from maker_orders").
FillsAreOurs == \A x \in Strangers : open[x] = None

\* The channel and the listing read the same order, and the same fill of ours,
\* out of what the exchange says of them, whichever fields it fills in.
\* (iter_order_snapshots, iter_fill_snapshots; normalize_order_payload, normalize_fill_payload)
FeedAgreesWithRest ==
  /\ \A o \in Ours : venue[o].state \in {"delayed", "resting", "done", "canceled"} =>
       SameOrder(FeedOrder(OrderMessage(o, venue[o], IF venue[o].state = "canceled" THEN "cancellation" ELSE "update")),
                 RestOrder(OrderItem(o, venue[o], "item")))
  /\ \A i \in DOMAIN trades : Cardinality(Reported(trades[i])) = 1 => Reported(trades[i]) = {RestFill(trades[i])}

\* With every message heard an order of ours that rests is among the open orders,
\* however its trades and its own messages followed each other, unless a trade of
\* it failed.  (handle_order, handle_fill, order_from_fill)
RestingIsKnown ==
  feed = <<>> => \A o \in Ours : venue[o].state = "resting" /\ ~Failed(o) => open[o] # None
=============================================================================
