------------------------- MODULE AccountProjection -------------------------
(***************************************************************************)
(* The account as the program believes it: positions, open orders and      *)
(* balance of one token, written by order results, by the frames of the    *)
(* user channel, by the operator's replacement of an order and by the REST *)
(* poll, beside the exchange that is the truth.  The operator's forced     *)
(* exits reach the exchange too, but their answers are not projected.      *)
(*                                                                         *)
(* Every order is for one share at a price of one: the writers add and     *)
(* subtract an order's whole size, so a unit tells apart what they do.     *)
(* BUYs are fill-and-kill and never rest, SELLs are exits that may rest.   *)
(***************************************************************************)
EXTENDS Integers, FiniteSets, Sequences

CONSTANTS
    BuyOrders, SellOrders,  \* the orders that may ever be sent
    ManualOrders,           \* the exits the operator forces, the worker sends the other orders
    Agendas,                \* which orders a behaviour may send, and which an earlier run traded
    Holding, Cash,          \* shares and cash before any of the orders
    FrameLimit              \* capacity of the queue between socket and worker

Orders == BuyOrders \cup SellOrders

ASSUME OrdersAssumption == /\ IsFiniteSet(Orders) /\ BuyOrders \cap SellOrders = {}
                           /\ ManualOrders \subseteq SellOrders
ASSUME AgendasAssumption == Agendas \subseteq [todo : SUBSET Orders, past : SUBSET BuyOrders]
ASSUME AmountsAssumption == Holding \in Nat /\ Cash \in Nat
ASSUME FrameLimitAssumption == FrameLimit \in Nat \ {0}

Desks == {"worker", "operator"}
Parts == {"positions", "orders", "balance"}

VARIABLES
    venue,   \* what became of each order at the exchange
    frames,  \* frames of the user channel waiting for the feedback worker
    lane,    \* order events it published, waiting for the decision worker
    store,   \* AccountStateStore: position of the token and balance
    open,    \* AccountStateStore: the order book of the account
    desk,    \* who is in the middle of an order or of an event
    poll,    \* the REST poll and the answers it has gathered
    calm     \* history: has a whole poll run since anything last moved?

vars == <<venue, frames, lane, store, open, desk, poll, calm>>

----------------------------------------------------------------------------
(* The exchange, as a function of what became of the orders. *)

Executed(v) == {o \in Orders : v[o] \in {"matched", "confirmed"}}
Resting(v) == {o \in Orders : v[o] = "resting"}

VenueShares(v) == Holding + Cardinality(Executed(v) \cap BuyOrders)
                          - Cardinality(Executed(v) \cap SellOrders)
VenueCash(v) == Cash - Cardinality(Executed(v) \cap BuyOrders)
                     + Cardinality(Executed(v) \cap SellOrders)

View(v) == [shares |-> VenueShares(v), resting |-> Resting(v), cash |-> VenueCash(v)]

(* The exchange moves on; a poll under way may be answered from before or after. *)
Become(o, fate) ==
    LET v == [venue EXCEPT ![o] = fate]
    IN  /\ venue' = v
        /\ poll' = [poll EXCEPT !.seen = IF poll.running THEN @ \cup {View(v)} ELSE @]

(* _offer_to_ws_queue: a full queue gives up its oldest frame. *)
Offered(queue, frame) ==
    IF Len(queue) < FrameLimit THEN Append(queue, frame) ELSE Append(Tail(queue), frame)

OfferedAll(queue, messages) ==
    IF Len(messages) = 1
    THEN Offered(queue, messages[1])
    ELSE Offered(Offered(queue, messages[1]), messages[2])

OrderFrame(o, status) == [order |-> o, kind |-> "order", status |-> status]
TradeFrame(o, status) == [order |-> o, kind |-> "trade", status |-> status]

Report(messages) == frames' = OfferedAll(frames, messages)

Match(o) ==
    /\ venue[o] \in {"sent", "resting"}
    /\ IF o \in BuyOrders THEN VenueCash(venue) > 0 ELSE VenueShares(venue) > 0
    /\ Become(o, "matched")
    /\ Report(<<OrderFrame(o, "matched"), TradeFrame(o, "matched")>>)
    /\ calm' = "no"
    /\ UNCHANGED <<lane, store, open, desk>>

Settle(o) ==
    /\ venue[o] = "matched"
    /\ \E status \in {"confirmed", "failed"} :
          /\ status = "failed" => IF o \in BuyOrders THEN VenueShares(venue) > 0 ELSE VenueCash(venue) > 0
          /\ Become(o, status)
          /\ Report(<<TradeFrame(o, status)>>)
    /\ calm' = "no"
    /\ UNCHANGED <<lane, store, open, desk>>

Rest(o) ==
    /\ o \in SellOrders
    /\ venue[o] = "sent"
    /\ Become(o, "resting")
    /\ Report(<<OrderFrame(o, "live")>>)
    /\ calm' = "no"
    /\ UNCHANGED <<lane, store, open, desk>>

Refuse(o) ==
    /\ venue[o] = "sent"
    /\ Become(o, "closed")
    /\ calm' = "no"
    /\ UNCHANGED <<frames, lane, store, open, desk>>

CloseResting(o) ==
    /\ venue[o] = "resting"
    /\ Become(o, "closed")
    /\ Report(<<OrderFrame(o, "cancelled")>>)
    /\ calm' = "no"
    /\ UNCHANGED <<lane, store, open, desk>>

----------------------------------------------------------------------------
(* AccountStateStore and the projectors. *)

(* Sells that count as coverage: an order known from its own frame as matched  *)
(* has nothing left, one known from a trade report counts with its whole size. *)
OpenSells(book) == {o \in SellOrders : book[o] \in {"live", "traded"}}

EmptyStore == [held |-> FALSE, shares |-> 0, openSell |-> 0, balance |-> 0]

Idle == [doing |-> "nothing", order |-> {}, source |-> {}, snapshot |-> {}]
Busy(doing, orders) == [doing |-> doing, order |-> orders, source |-> {}, snapshot |-> {store}]

(* What is left to do needs nothing but the balance of the snapshot. *)
Flagging(snapshot) ==
    [Idle EXCEPT !.doing = "flags", !.snapshot = {[EmptyStore EXCEPT !.balance = snapshot.balance]}]

OrderOf(d) == CHOOSE o \in desk[d].order : TRUE
SnapshotOf(d) == CHOOSE s \in desk[d].snapshot : TRUE

(* apply_buy_result: the position is rebuilt from the snapshot of the caller. *)
BuyApplied(s, snapshot, filled) ==
    IF ~snapshot.held /\ filled = 0
    THEN s
    ELSE [snapshot EXCEPT !.held = TRUE, !.shares = @ + filled]

(* apply_sell_result: the position of now, or of the snapshot when it is gone; *)
(* the order's own part of the coverage is replaced by what is left of it.     *)
SellApplied(s, snapshot, o, remaining) ==
    LET position == IF s.held THEN s ELSE [snapshot EXCEPT !.balance = s.balance]
        own == IF open[o] = "none" THEN 0 ELSE 1
        others == IF position.openSell > own THEN position.openSell - own ELSE 0
    IN  IF position.held THEN [position EXCEPT !.openSell = others + remaining] ELSE s

(* refresh_balances_from *)
BalanceRestored(s, snapshot) == [s EXCEPT !.balance = snapshot.balance]

(* refresh_position_coverage *)
Covered(s, sells) ==
    IF ~s.held /\ sells = {} THEN s ELSE [s EXCEPT !.held = TRUE, !.openSell = Cardinality(sells)]

(* apply_fill_to_position: every report of a trade counts its size again. *)
FillApplied(s, o) ==
    IF o \in BuyOrders
    THEN [s EXCEPT !.held = TRUE, !.shares = @ + 1]
    ELSE [s EXCEPT !.held = TRUE,
                   !.shares = IF @ > 0 THEN @ - 1 ELSE 0,
                   !.openSell = IF @ > 0 THEN @ - 1 ELSE 0]

----------------------------------------------------------------------------
(* Callers that place orders: the decision worker and the operator. *)

Send(d, o) ==
    /\ desk[d] = Idle
    /\ venue[o] = "unsent"
    /\ d = (IF o \in ManualOrders THEN "operator" ELSE "worker")
    /\ Become(o, "sent")
    /\ desk' = [desk EXCEPT ![d] = Busy("sending", {o})]
    /\ calm' = "no"
    /\ UNCHANGED <<frames, lane, store, open>>

(* What an answer may say: an executor that gave up waiting knows nothing. *)
Answers(o) ==
    {"unknown"} \cup CASE venue[o] \in {"matched", "confirmed", "failed"} -> {"filled"}
                       [] venue[o] = "resting" -> {"live"}
                       [] venue[o] = "closed" -> {"no_fill", "rejected"}
                       [] OTHER -> {}

(* The worker's entry: result event, projection, then the budget event before  *)
(* the flags.                                                                  *)
AnswerBuy(d) ==
    /\ desk[d].doing = "sending"
    /\ OrderOf(d) \in BuyOrders
    /\ \E answer \in Answers(OrderOf(d)) :
          store' = CASE answer = "filled" -> BuyApplied(store, SnapshotOf(d), 1)
                     [] answer = "no_fill" -> BuyApplied(store, SnapshotOf(d), 0)
                     [] OTHER -> store
    /\ desk' = [desk EXCEPT ![d] = Flagging(SnapshotOf(d))]
    /\ calm' = "no"
    /\ UNCHANGED <<venue, frames, lane, open, poll>>

(* The worker's exit: coverage, account order and balance in one stretch. *)
AnswerSell(d) ==
    /\ desk[d].doing = "sending"
    /\ OrderOf(d) \in SellOrders \ ManualOrders
    /\ \E answer \in Answers(OrderOf(d)) :
          LET o == OrderOf(d)
              position == IF store.held THEN store ELSE SnapshotOf(d)
          IN  /\ store' = BalanceRestored(
                    CASE answer = "live" -> SellApplied(store, SnapshotOf(d), o, 1)
                      [] answer = "filled" -> SellApplied(store, SnapshotOf(d), o, 0)
                      [] OTHER -> store, SnapshotOf(d))
              /\ open' = IF ~position.held THEN open
                         ELSE CASE answer = "live" -> [open EXCEPT ![o] = "live"]
                                [] answer = "filled" -> [open EXCEPT ![o] = "none"]
                                [] OTHER -> open
    /\ desk' = [desk EXCEPT ![d] = Idle]
    /\ calm' = "no"
    /\ UNCHANGED <<venue, frames, lane, poll>>

(* force_exit_position returns its answer and leaves the account as it was. *)
AnswerExit(d) ==
    /\ desk[d].doing = "sending"
    /\ OrderOf(d) \in ManualOrders
    /\ desk' = [desk EXCEPT ![d] = Idle]
    /\ calm' = "no"
    /\ UNCHANGED <<venue, frames, lane, store, open, poll>>

(* apply_result_flags ends every result the worker handles. *)
ApplyFlags(d) ==
    /\ desk[d].doing = "flags"
    /\ store' = BalanceRestored(store, SnapshotOf(d))
    /\ desk' = [desk EXCEPT ![d] = Idle]
    /\ calm' = "no"
    /\ UNCHANGED <<venue, frames, lane, open, poll>>

(* replace_order: the new order goes out whatever the cancellation of the old   *)
(* one answered; whether and when that one is closed is the exchange's matter.  *)
SendReplacement(o, p) ==
    /\ desk["operator"] = Idle
    /\ open[o] # "none"
    /\ venue[p] = "unsent"
    /\ desk' = [desk EXCEPT !["operator"] = [Busy("replacing", {p}) EXCEPT !.source = {o}]]
    /\ Become(p, "sent")
    /\ calm' = "no"
    /\ UNCHANGED <<frames, lane, store, open>>

AnswerReplacement ==
    /\ desk["operator"].doing = "replacing"
    /\ LET p == OrderOf("operator")
           o == CHOOSE source \in desk["operator"].source : TRUE
       IN  \E answer \in Answers(p) :
              LET replaced == [open EXCEPT ![o] = "none", ![p] =
                                  CASE answer = "live" -> "live"
                                    [] answer = "filled" -> "matched"
                                    [] OTHER -> @]
              IN  IF answer = "rejected"
                  THEN UNCHANGED <<store, open>>
                  ELSE /\ open' = replaced
                       /\ store' = Covered(store, OpenSells(replaced))
    /\ desk' = [desk EXCEPT !["operator"] = Idle]
    /\ calm' = "no"
    /\ UNCHANGED <<venue, frames, lane, poll>>

----------------------------------------------------------------------------
(* The user channel: UserWsWorker.process_message, and the decision worker    *)
(* on the order events it publishes.                                          *)

(* An order event is read as an order result: only a BUY reported as matched    *)
(* and not marked as projected touches the position, so an event is the order  *)
(* it will count, if any.                                                      *)
Event(o, status, projected) ==
    IF o \in BuyOrders /\ status = "matched" /\ ~projected THEN {o} ELSE {}

ProcessFrame ==
    /\ frames # <<>>
    /\ frames' = Tail(frames)
    /\ LET f == Head(frames)
           gone == f.status \in {"cancelled", "failed"}
       IN  IF f.kind = "order"
           THEN /\ open' = [open EXCEPT ![f.order] = IF gone THEN "none" ELSE f.status]
                /\ lane' = Append(lane, Event(f.order, f.status, FALSE))
                /\ UNCHANGED store
           ELSE /\ open' = [open EXCEPT ![f.order] = IF gone THEN "none" ELSE "traded"]
                /\ lane' = Append(lane, Event(f.order, f.status, TRUE))
                /\ store' = FillApplied(store, f.order)
    /\ calm' = "no"
    /\ UNCHANGED <<venue, desk, poll>>

(* A new subscription empties the queue, and what is sent while no stream is   *)
(* up never enters it: to the worker both are frames that go before it looks.  *)
Resubscribe ==
    /\ frames # <<>>
    /\ frames' = <<>>
    /\ calm' = "no"
    /\ UNCHANGED <<venue, lane, store, open, desk, poll>>

TakeEvent ==
    /\ lane # <<>>
    /\ desk["worker"] = Idle
    /\ lane' = Tail(lane)
    /\ desk' = [desk EXCEPT !["worker"] =
                    IF Head(lane) = {} THEN Flagging(store) ELSE Busy("counting", Head(lane))]
    /\ calm' = "no"
    /\ UNCHANGED <<venue, frames, store, open, poll>>

CountEvent ==
    /\ desk["worker"].doing = "counting"
    /\ store' = BuyApplied(store, SnapshotOf("worker"), 1)
    /\ desk' = [desk EXCEPT !["worker"] = Flagging(SnapshotOf("worker"))]
    /\ calm' = "no"
    /\ UNCHANGED <<venue, frames, lane, open, poll>>

----------------------------------------------------------------------------
(* The REST poll: concurrent requests, applied at once when all are back. Each *)
(* answer is what the exchange had at some time since the poll began.          *)

NoPoll == [running |-> FALSE, seen |-> {}]

Quiet == frames = <<>> /\ lane = <<>> /\ \A d \in Desks : desk[d] = Idle

StartPoll ==
    /\ ~poll.running
    /\ poll' = [running |-> TRUE, seen |-> {View(venue)}]
    /\ calm' = IF calm = "no" /\ Quiet THEN "polling" ELSE calm
    /\ UNCHANGED <<venue, frames, lane, store, open, desk>>

(* Mutant: a position the answer does not list is kept. *)
PositionedIfListed(s, shares) ==
    IF shares = 0 THEN s ELSE [s EXCEPT !.held = TRUE, !.shares = shares, !.openSell = 0]

(* Mutant: the orders of the answer are merged into those already known. *)
ListedMerged(resting) == [o \in Orders |-> IF o \in resting THEN "live" ELSE open[o]]

(* replace_positions, replace_open_orders *)
Positioned(s, shares) == [s EXCEPT !.held = shares > 0, !.shares = shares, !.openSell = 0]
Listed(resting) == [o \in Orders |-> IF o \in resting THEN "live" ELSE "none"]

(* A request that failed leaves the part it was for as it was. *)
ApplyPoll(answered) ==
    /\ poll.running
    /\ \E shares \in {v.shares : v \in poll.seen}, resting \in {v.resting : v \in poll.seen},
          cash \in {v.cash : v \in poll.seen} :
          LET positioned == IF "positions" \in answered THEN Positioned(store, shares) ELSE store
              listed == IF "orders" \in answered THEN Listed(resting) ELSE open
              covered == IF {"positions", "orders"} \cap answered = {} THEN positioned
                         ELSE Covered(positioned, OpenSells(listed))
          IN  /\ open' = listed
              /\ store' = IF "balance" \in answered
                          THEN [covered EXCEPT !.balance = cash] ELSE covered
    /\ poll' = NoPoll
    /\ calm' = IF calm = "polling" THEN (IF answered = Parts THEN "yes" ELSE "no") ELSE calm
    /\ UNCHANGED <<venue, frames, lane, desk>>

----------------------------------------------------------------------------
Init ==
    /\ \E agenda \in Agendas :
          venue = [o \in Orders |-> IF o \in agenda.todo THEN "unsent"
                                    ELSE IF o \in agenda.past THEN "confirmed" ELSE "closed"]
    /\ frames = <<>>
    /\ lane = <<>>
    /\ store = EmptyStore
    /\ open = [o \in Orders |-> "none"]
    /\ desk = [d \in Desks |-> Idle]
    /\ poll = NoPoll
    /\ calm = "no"

Venue == \E o \in Orders : Match(o) \/ Settle(o) \/ Rest(o) \/ Refuse(o) \/ CloseResting(o)

Deskwork ==
    \/ \E d \in Desks : AnswerBuy(d) \/ AnswerSell(d) \/ AnswerExit(d) \/ ApplyFlags(d)
    \/ AnswerReplacement
    \/ TakeEvent
    \/ CountEvent

Next ==
    \/ Venue
    \/ Deskwork
    \/ \E d \in Desks, o \in Orders : Send(d, o)
    \/ \E o, p \in SellOrders : SendReplacement(o, p)
    \/ ProcessFrame
    \/ Resubscribe
    \/ StartPoll
    \/ \E answered \in SUBSET Parts : ApplyPoll(answered)

(* The loops run, an order is answered in the end, the scheduler polls again   *)
(* and again, and each request is answered again and again.                    *)
Fairness ==
    /\ WF_vars(Deskwork)
    /\ WF_vars(ProcessFrame)
    /\ WF_vars(StartPoll)
    /\ \A part \in Parts : SF_vars(\E answered \in SUBSET Parts : part \in answered /\ ApplyPoll(answered))

Spec == Init /\ [][Next]_vars /\ Fairness

----------------------------------------------------------------------------
(* Properties *)

Venues == [Orders -> {"unsent", "sent", "resting", "matched", "confirmed", "failed", "closed"}]
Views == [shares : Nat, resting : SUBSET Orders, cash : Int]
Stores == [held : BOOLEAN, shares : Nat, openSell : Nat, balance : Int]
Frames == [order : Orders, kind : {"order"}, status : {"live", "matched", "cancelled"}]
            \cup [order : Orders, kind : {"trade"}, status : {"matched", "confirmed", "failed"}]

(* Every variable holds what the code could have put there. *)
TypeOK ==
    /\ venue \in Venues
    /\ frames \in Seq(Frames) /\ Len(frames) <= FrameLimit
    /\ lane \in Seq(SUBSET BuyOrders)
    /\ store \in Stores
    /\ open \in [Orders -> {"none", "live", "matched", "traded"}]
    /\ desk \in [Desks -> [doing : {"nothing", "sending", "flags", "counting", "replacing"},
                           order : SUBSET Orders, source : SUBSET SellOrders,
                           snapshot : SUBSET Stores]]
    /\ poll \in [running : BOOLEAN, seen : SUBSET Views]
    /\ calm \in {"no", "polling", "yes"}

(* The projection is the exchange: shares, cash, the orders that rest and the  *)
(* exits that cover the position.                                              *)
Agrees ==
    /\ store.shares = VenueShares(venue)
    /\ store.balance = VenueCash(venue)
    /\ {o \in Orders : open[o] # "none"} = Resting(venue)
    /\ store.openSell = Cardinality(Resting(venue) \cap SellOrders)

(* A poll that began and ended with no frame, no event and no result under way *)
(* leaves the projection equal to the exchange, whatever double counts, stale  *)
(* snapshots and lost frames came before: nothing is left that an old answer   *)
(* or a merge could keep (refresh_account and the coverage it rebuilds).       *)
SettledAgrees == calm = "yes" => Agrees

(* Once the exchange has nothing more to say, the projection becomes what the  *)
(* exchange has and stays so (the poll is the cover for every lost frame).     *)
ConvergesToExchange == <>[]Agrees

=============================================================================
